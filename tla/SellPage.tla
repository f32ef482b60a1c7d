------------------------------- MODULE SellPage -------------------------------
(***************************************************************************)
(* The page that offers a listing: the upload of its images, and the chain *)
(* of requests of its form -- the listing, the payment of a boost, the     *)
(* user again -- up to the page of the listing.  A request without an      *)
(* answer is sent again by the interceptor of the api, which does not know *)
(* what has become of the first one: it may have been answered, be lost,   *)
(* or still be on its way and served beside the second.                    *)
(***************************************************************************)
EXTENDS Page, FiniteSets

CONSTANTS
  Images,       \* pictures the user has
  MaxImages,    \* of a listing
  MaxListings,  \* slots of the seller, listings he may create in a period
  MaxRetries    \* of a request, by the interceptor

ASSUME SellAssumption ==
  /\ IsFiniteSet(Images)
  /\ MaxImages \in Nat /\ MaxListings \in Nat /\ MaxRetries \in Nat

SellUI ==
  [at : {"sell"},
   images : Seq(Images),        \* formData.imageUrls
   uploading : BOOLEAN,         \* the file input is disabled
   fields : {"good", "bad"},    \* the rest of formData, as validateForm finds it
   isLoading : BOOLEAN,         \* the form is disabled
   apiError : BOOLEAN,
   boost : BOOLEAN,             \* an option other than "none" is selected
   leaving : BOOLEAN,           \* router.push: the next page is on its way
   retries : [{"create", "pay", "me"} -> 0 .. MaxRetries]]    \* requestRetries

SellRequests ==
  [op : {"upload"}, base : Seq(Images), files : SUBSET Images, phase : {"sent", "done"}]
    \cup
  [op : {"create", "pay", "me"}, phase : {"sent", "done", "refused"}]
    \cup
  [op : {"late"}, of : {"create", "pay"}]    \* given up by the page, not yet served

\* listings created, slots consumed and payments begun.
SellServer == [listings : Nat, slots : Nat, payments : Nat]

\* wanted: the images a page that forgets nothing would show; overlapped: an
\* upload met another one, or a removal; again: the reasons for one more
\* listing, an error shown, a listing made by a request whose answer the page
\* never gets, or the page on its way out.
SellPast ==
  [wanted : SUBSET Images, overlapped : BOOLEAN,
   again : SUBSET {"error", "lost", "leaving"}]

SellTypeOK ==
  /\ ui \in SellUI
  /\ Len(ui.images) <= MaxImages /\ IsInjective(ui.images)
  /\ server \in SellServer /\ server.slots <= MaxListings
  /\ flight \in Seq(SellRequests)
  /\ past \in SellPast

SellInit ==
  /\ ui = [at |-> "sell", images |-> <<>>, uploading |-> FALSE, fields |-> "bad",
           isLoading |-> FALSE, apiError |-> FALSE, boost |-> FALSE, leaving |-> FALSE,
           retries |-> [op \in {"create", "pay", "me"} |-> 0]]
  /\ server = [listings |-> 0, slots |-> 0, payments |-> 0]
  /\ past = [wanted |-> {}, overlapped |-> FALSE, again |-> {}]
  /\ Booted

Submit(op) == [op |-> op, phase |-> "sent"]

\* What is left of a request the page no longer waits for.
GivenUp(r) == [op |-> "late", of |-> r.op]
MayComeLate(r) == r.op \in {"create", "pay"} /\ r.phase = "sent"

\* Mutated: the form stays enabled while it is sent.
FieldsEnabledAlways == At("sell")

\* What the page lets the user do: the fields, the options of a boost and the
\* button are disabled together; the images never are.
FieldsEnabled == At("sell") /\ ~ui.isLoading
OptionsEnabled == At("sell") /\ ~ui.isLoading
DropZone == At("sell")

ValidateForm == ui.fields = "good" /\ ui.images # <<>>
-----------------------------------------------------------------------------
\* handleFiles.  The input is disabled while an upload is under way, the area
\* to drop files on is not.  The images are those of the render of the call.
HandleFiles ==
  /\ DropZone /\ Input
  /\ \E files \in SUBSET (Images \ ToSet(ui.images)) :
       /\ files # {}
       /\ Len(ui.images) + Cardinality(files) <= MaxImages
       /\ ui' = [ui EXCEPT !.uploading = TRUE]
       /\ Send([op |-> "upload", base |-> ui.images, files |-> files, phase |-> "sent"])
  /\ past' = [past EXCEPT !.overlapped = @ \/ UnderWay("upload")]
  /\ UNCHANGED server

RemoveImage ==
  /\ DropZone /\ Input
  /\ \E k \in DOMAIN ui.images :
       /\ ui' = [ui EXCEPT !.images = RemoveAt(@, k)]
       /\ past' = [past EXCEPT !.wanted = @ \ {ui.images[k]},
                               !.overlapped = @ \/ UnderWay("upload")]
  /\ UNCHANGED <<server, flight>>

\* Mutated: the images of the call take the place of those before.
MergedReplaces(base, files) == SetToSeq(files)

\* mergeUniqueImages: images shown once each, those of the call first.
Merged(base, files) == base \o SetToSeq(files \ ToSet(base))

Uploaded(i) ==
  LET r == flight[i] IN
  /\ At("sell") /\ r.op = "upload"
  /\ ui' = [ui EXCEPT !.uploading = FALSE, !.images = Merged(r.base, r.files)]
  /\ past' = [past EXCEPT !.wanted = @ \cup r.files]
  /\ Land(i)
  /\ UNCHANGED <<server, inputs>>

UploadFailed(i) ==
  /\ At("sell") /\ flight[i].op = "upload"
  /\ ui' = [ui EXCEPT !.uploading = FALSE]
  /\ Land(i)
  /\ UNCHANGED <<server, past, inputs>>

HandleChange ==
  /\ FieldsEnabled
  /\ \E f \in {"good", "bad"} : ui' = [ui EXCEPT !.fields = f]
  /\ Untold /\ UNCHANGED <<flight, inputs>>

SelectBoost ==
  /\ OptionsEnabled
  /\ ui' = [ui EXCEPT !.boost = ~@]
  /\ Untold /\ UNCHANGED <<flight, inputs>>

HandleSubmit ==
  /\ FieldsEnabled /\ ValidateForm /\ Input
  /\ ui' = [ui EXCEPT !.isLoading = TRUE, !.apiError = FALSE]
  /\ past' = [past EXCEPT !.again = IF ui.leaving THEN @ \cup {"leaving"} ELSE @]
  /\ Send(Submit("create"))
  /\ UNCHANGED server
-----------------------------------------------------------------------------
\* A request reaches the server, the page waiting for it or not; it is answered
\* if there is someone to answer.
Reaches(i, op) ==
  LET r == flight[i] IN
  \/ r.op = op /\ r.phase = "sent"
  \/ r.op = "late" /\ r.of = op

SellAnswers(i, phase) ==
  IF flight[i].op = "late" THEN Land(i) ELSE Return(i, [flight[i] EXCEPT !.phase = phase])

\* ListingController.Create: a slot is consumed first, and stays so when the
\* listing is not written.
CreateListing(i) ==
  /\ At("sell") /\ Reaches(i, "create")
  /\ IF server.slots = MaxListings
       THEN SellAnswers(i, "refused") /\ UNCHANGED <<server, past>>
       ELSE \E written \in BOOLEAN :
              /\ SellAnswers(i, IF written THEN "done" ELSE "refused")
              /\ server' = [server EXCEPT !.slots = @ + 1,
                                          !.listings = IF written THEN @ + 1 ELSE @]
              /\ past' = [past EXCEPT !.again = IF written /\ flight[i].op = "late"
                                                  THEN @ \cup {"lost"} ELSE @]
  /\ UNCHANGED <<ui, inputs>>

CreateBoostPayment(i) ==
  /\ At("sell") /\ Reaches(i, "pay")
  /\ \E written \in BOOLEAN :
       /\ SellAnswers(i, IF written THEN "done" ELSE "refused")
       /\ server' = [server EXCEPT !.payments = IF written THEN @ + 1 ELSE @]
  /\ UNCHANGED <<ui, past, inputs>>

GetCurrentUser(i) ==
  /\ At("sell") /\ flight[i].op = "me" /\ flight[i].phase = "sent"
  /\ Return(i, [flight[i] EXCEPT !.phase = "done"])
  /\ UNCHANGED <<ui, server, past, inputs>>

\* The interceptor: no answer, and it is sent again, in the place of the first
\* or beside it.
Again(i) ==
  LET r == flight[i] IN
  /\ At("sell") /\ r.op \in {"create", "pay", "me"}
  /\ ui.retries[r.op] < MaxRetries
  /\ ui' = [ui EXCEPT !.retries[r.op] = @ + 1]
  /\ \/ Return(i, Submit(r.op))
     \/ /\ MayComeLate(r)
        /\ flight' = Append([flight EXCEPT ![i] = Submit(r.op)], GivenUp(r))
  /\ past' = [past EXCEPT !.again = IF r.op = "create" /\ r.phase = "done"
                                      THEN @ \cup {"lost"} ELSE @]
  /\ UNCHANGED <<server, inputs>>

\* The chain goes on with the next request, or leaves for the next page and
\* enables the form.
Follow(op) == IF op = "create" /\ ui.boost THEN {"pay"}
              ELSE IF op \in {"create", "pay"} THEN {"me"} ELSE {}

\* The counters of the tries after an answer: that of its method and address is
\* deleted, and a new listing's payment has an address of its own.
Succeeded(op) ==
  [o \in {"create", "pay", "me"} |->
     IF o = op \/ (op = "create" /\ o = "pay") THEN 0 ELSE ui.retries[o]]

Chained(i) ==
  LET r == flight[i] IN
  /\ At("sell") /\ r.op \in {"create", "pay", "me"} /\ r.phase = "done"
  /\ \/ \E op \in Follow(r.op) :
          /\ flight' = Append(RemoveAt(flight, i), Submit(op))
          /\ ui' = [ui EXCEPT !.retries = Succeeded(r.op)]
     \/ /\ r.op \in {"pay", "me"}     \* the payment's page, or the listing's
        /\ Land(i)
        /\ ui' = [ui EXCEPT !.retries = Succeeded(r.op), !.leaving = TRUE,
                            !.isLoading = FALSE]
  /\ UNCHANGED <<server, past, inputs>>

\* A refusal, or no answer to the last try, which may still be served.  That of
\* the user is ignored.  The counter is deleted after the last try only.
Broken(i) ==
  LET r == flight[i]
      last == ui.retries[r.op] = MaxRetries IN
  /\ At("sell") /\ r.op \in {"create", "pay", "me"}
  /\ \E counted \in {ui.retries[r.op], 0} :
       /\ \/ r.phase = "refused" /\ counted = ui.retries[r.op]
          \/ last /\ counted = 0
       /\ ui' = [ui EXCEPT !.isLoading = FALSE, !.leaving = @ \/ r.op = "me",
                           !.apiError = @ \/ r.op # "me",
                           !.retries[r.op] = counted]
  /\ \/ Land(i)
     \/ MayComeLate(r) /\ Return(i, GivenUp(r))
  /\ past' = [past EXCEPT !.again = IF r.op = "me" THEN @ ELSE @ \cup {"error"}]
  /\ UNCHANGED <<server, inputs>>

SellNext ==
  \/ HandleFiles \/ RemoveImage \/ HandleChange \/ SelectBoost \/ HandleSubmit
  \/ \E i \in DOMAIN flight : Uploaded(i)
  \/ \E i \in DOMAIN flight : UploadFailed(i)
  \/ \E i \in DOMAIN flight : CreateListing(i)
  \/ \E i \in DOMAIN flight : CreateBoostPayment(i)
  \/ \E i \in DOMAIN flight : GetCurrentUser(i)
  \/ \E i \in DOMAIN flight : Again(i)
  \/ \E i \in DOMAIN flight : Chained(i)
  \/ \E i \in DOMAIN flight : Broken(i)

SellSpec == SellInit /\ [][SellNext]_pageVars
-----------------------------------------------------------------------------
\* The form holds the images the user uploaded and did not remove, whatever
\* order their answers come in, unless an upload met another one or a removal:
\* its answer then brings back the images of the render it was started in.
ImagesAsWanted ==
  At("sell") => ToSet(ui.images) = past.wanted \/ past.overlapped

\* A form makes one listing.  A second one has a reason the page shows, or
\* could not know: an error shown (a payment failed after the listing was made,
\* or the last try of it was not answered), a listing made by a request the
\* interceptor had given up and sent again, or a click while the next page was
\* on its way and the form enabled again.
OneListingPerForm ==
  At("sell") /\ server.listings > 1 => past.again # {}
=============================================================================
