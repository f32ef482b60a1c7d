------------------------------ MODULE SellProofs ------------------------------
(***************************************************************************)
(* The pages of a seller, for any pictures, stock, bounds and number of    *)
(* requests.  The form that offers a listing shows the images the user     *)
(* wants unless uploads overlapped, and makes one listing unless it had a  *)
(* reason for another.  At his desk the stock, the images, the deletion    *)
(* and the boosts of a listing are explained, but for named crossings.     *)
(*                                                                         *)
(* None of this is inductive.  That an answer brings back the right images *)
(* needs the images of its call to be those of the form still              *)
(* (ImagesInv); that a click makes the only listing needs the requests of  *)
(* the form to be one chain, and the place in it to tell how many listings *)
(* there are (FormInv).  At the desk the second half of the module adds    *)
(* what is under way: a PUT carries the form as it is, no other PUT or     *)
(* load beside it (DeskForm), the stock an untouched form or an answer     *)
(* carries was right when it was read (DeskStock), a cleanup that will     *)
(* delete files saw a row without images (DeskImages), a copy of the row   *)
(* is boosted only if a boost is active, and a webhook still carries the   *)
(* transition it found (DeskBoosts).                                       *)
(***************************************************************************)
EXTENDS SellPage, SellerDesk, CatalogProofs, FiniteSetTheorems

\* An upload was started with different images, and room for its own.
UploadFits(r) ==
  r.op = "upload" =>
    IsInjective(r.base) /\ Len(r.base) + Cardinality(r.files) <= MaxImages

\* Uploads that did not overlap: one at most, of the images there are.
ImagesInv ==
  ~past.overlapped =>
    /\ ToSet(ui.images) = past.wanted
    /\ \A i, j \in 1..Len(flight) :
         flight[i].op = "upload" /\ flight[j].op = "upload" => i = j
    /\ \A i \in 1..Len(flight) : flight[i].op = "upload" => flight[i].base = ui.images

Uploads == {"upload"}
Chain == {"create", "pay", "me"}

\* The number of listings, as the place in the chain tells it.
ListingsSoFar(r) ==
  IF r.op = "create" /\ r.phase # "done" THEN 0 ELSE 1

\* Without a reason for a second listing: one chain at most, the form waits for
\* it and is left at its end.
FormInv ==
  past.again = {} =>
    /\ \A i, j \in 1..Len(flight) :
         flight[i].op \in Chain /\ flight[j].op \in Chain => i = j
    /\ \A i \in 1..Len(flight) : flight[i].op \in Chain =>
         ui.isLoading /\ ~ui.leaving /\ server.listings = ListingsSoFar(flight[i])
    /\ server.listings = 0 \/ ui.isLoading \/ ui.leaving
    /\ server.listings <= 1

SellInv ==
  /\ SellTypeOK
  /\ \A i \in 1..Len(flight) : UploadFits(flight[i])
  /\ ImagesInv
  /\ FormInv

-----------------------------------------------------------------------------
\* A sequence made of a finite set: its elements, once each.
LEMMA SetToSeqFacts ==
  ASSUME NEW S, IsFiniteSet(S)
  PROVE  /\ SetToSeq(S) \in Seq(S) /\ Len(SetToSeq(S)) = Cardinality(S)
         /\ IsInjective(SetToSeq(S)) /\ ToSet(SetToSeq(S)) = S
<1> DEFINE n == Cardinality(S)
           f == SetToSeq(S)
<1>1. n \in Nat /\ Bijection(1..n, S) # {}
  BY FS_CardinalityType DEF ExistsBijection
<1>2. PICK g \in Bijection(1..n, S) : TRUE
  BY <1>1
<1>3. g \in [1..n -> S] /\ IsInjective(g)
  BY <1>2 DEF Bijection, Injection, Surjection, IsInjective
<1>4. f \in [1..n -> S] /\ IsInjective(f)
  BY <1>3 DEF SetToSeq
<1> HIDE DEF f
<1>5. f \in Injection(1..n, S)
  BY <1>4 DEF Injection, IsInjective
<1>6. Cardinality(1..n) = n
  BY <1>1, FS_Interval
<1>7. f \in Surjection(1..n, S)
  BY <1>5, <1>6, FS_Injection
<1>8. f \in Seq(S) /\ Len(f) = n
  BY <1>1, <1>4
<1>9. ToSet(f) = S
  BY <1>4, <1>7 DEF ToSet, Surjection
<1> QED
  BY <1>4, <1>8, <1>9 DEF f

\* The images of the call, then those of the upload.
LEMMA MergedFacts ==
  ASSUME NEW base \in Seq(Images), NEW files \in SUBSET Images, IsInjective(base),
         Len(base) + Cardinality(files) <= MaxImages
  PROVE  /\ Merged(base, files) \in Seq(Images)
         /\ Len(Merged(base, files)) <= MaxImages
         /\ IsInjective(Merged(base, files))
         /\ ToSet(Merged(base, files)) = ToSet(base) \cup files
<1> DEFINE new == files \ ToSet(base)
           t == SetToSeq(new)
           m == base \o t
<1>1. IsFiniteSet(files)
  BY SellAssumption, FS_Subset
<1>2. /\ IsFiniteSet(new) /\ Cardinality(new) \in Nat /\ Cardinality(files) \in Nat
      /\ Cardinality(new) <= Cardinality(files)
  BY <1>1, FS_Subset, FS_CardinalityType
<1>3. t \in Seq(new) /\ Len(t) = Cardinality(new) /\ IsInjective(t) /\ ToSet(t) = new
  BY <1>2, SetToSeqFacts
<1>4. t \in Seq(Images)
  BY <1>3
<1>5. new \cap ToSet(base) = {} /\ new \cup ToSet(base) = files \cup ToSet(base)
  OBVIOUS
<1> HIDE DEF t, new
<1>6. /\ m \in Seq(Images) /\ Len(m) = Len(base) + Len(t)
      /\ \A i \in 1..Len(m) : m[i] = IF i <= Len(base) THEN base[i] ELSE t[i - Len(base)]
  BY <1>4, ConcatProperties
<1>7. Len(base) \in Nat /\ Len(t) \in Nat
  BY <1>4, LenProperties
<1>8. Len(m) <= MaxImages
  BY <1>2, <1>3, <1>6, <1>7, SellAssumption
<1> HIDE DEF m
<1>9. ASSUME NEW i \in 1..Len(m)
      PROVE  \/ i \in 1..Len(base) /\ m[i] = base[i] /\ m[i] \in ToSet(base)
             \/ /\ i - Len(base) \in 1..Len(t) /\ m[i] = t[i - Len(base)]
                /\ i > Len(base) /\ m[i] \in ToSet(t)
  <2>1. CASE i <= Len(base)
    <3>1. i \in 1..Len(base) /\ m[i] = base[i]
      BY <1>6, <1>7, <2>1
    <3> QED
      BY <3>1 DEF ToSet
  <2>2. CASE ~(i <= Len(base))
    <3>1. i - Len(base) \in 1..Len(t) /\ m[i] = t[i - Len(base)] /\ i > Len(base)
      BY <1>6, <1>7, <2>2
    <3>2. t[i - Len(base)] \in ToSet(t)
      BY <1>4, <3>1 DEF ToSet
    <3> QED
      BY <3>1, <3>2
  <2> QED
    BY <2>1, <2>2
<1>10. IsInjective(m)
  <2> SUFFICES ASSUME NEW i \in 1..Len(m), NEW j \in 1..Len(m), m[i] = m[j]
               PROVE  i = j
    BY <1>6 DEF IsInjective
  <2>1. CASE i \in 1..Len(base) /\ m[i] = base[i] /\ m[i] \in ToSet(base)
    <3>1. j \in 1..Len(base) /\ m[j] = base[j]
      BY <1>3, <1>5, <1>9, <2>1
    <3>2. base[i] = base[j]
      BY <2>1, <3>1
    <3>3. DOMAIN base = 1..Len(base)
      BY LenProperties
    <3> QED
      BY <2>1, <3>1, <3>2, <3>3 DEF IsInjective
  <2>2. CASE /\ i - Len(base) \in 1..Len(t) /\ m[i] = t[i - Len(base)]
             /\ i > Len(base) /\ m[i] \in ToSet(t)
    <3>1. j - Len(base) \in 1..Len(t) /\ m[j] = t[j - Len(base)]
      BY <1>3, <1>5, <1>9, <2>2
    <3>2. i - Len(base) = j - Len(base)
      BY <1>3, <1>4, <2>2, <3>1, SeqElements
    <3> QED
      BY <1>7, <3>2
  <2> QED
    BY <1>9, <2>1, <2>2
<1>11. ToSet(m) = ToSet(base) \cup files
  <2>1. ToSet(m) \subseteq ToSet(base) \cup files
    <3> SUFFICES ASSUME NEW x \in ToSet(m) PROVE x \in ToSet(base) \cup files
      OBVIOUS
    <3>1. PICK i \in 1..Len(m) : x = m[i]
      BY <1>6 DEF ToSet
    <3>2. m[i] \in ToSet(base) \/ m[i] \in ToSet(t)
      BY <1>9
    <3> QED
      BY <1>3, <1>5, <3>1, <3>2
  <2>2. ASSUME NEW x \in ToSet(base) PROVE x \in ToSet(m)
    <3>1. PICK i \in 1..Len(base) : x = base[i]
      BY DEF ToSet
    <3>2. i \in 1..Len(m) /\ m[i] = base[i]
      BY <1>6, <1>7
    <3> QED
      BY <1>6, <3>1, <3>2 DEF ToSet
  <2>3. ASSUME NEW x \in new PROVE x \in ToSet(m)
    <3>1. PICK i \in 1..Len(t) : x = t[i]
      BY <1>3, <1>4 DEF ToSet
    <3>2. Len(base) + i \in 1..Len(m) /\ ~(Len(base) + i <= Len(base))
      BY <1>6, <1>7
    <3>3. m[Len(base) + i] = t[i]
      BY <1>6, <1>7, <3>2
    <3> QED
      BY <1>6, <3>1, <3>2, <3>3, SeqElements
  <2> QED
    BY <1>5, <2>1, <2>2, <2>3
<1>12. m = Merged(base, files)
  BY DEF Merged, m, t, new
<1> QED
  BY <1>6, <1>8, <1>10, <1>11, <1>12

-----------------------------------------------------------------------------
\* An empty form, and nothing asked for.
LEMMA SellInitInv == SellInit => SellInv
<1> SUFFICES ASSUME SellInit PROVE SellInv
  OBVIOUS
<1> USE SellAssumption
<1>1. /\ flight = <<>> /\ ui.images = <<>> /\ server = [listings |-> 0, slots |-> 0, payments |-> 0]
      /\ past = [wanted |-> {}, overlapped |-> FALSE, again |-> {}]
  BY DEF SellInit, Booted
<1>2. [op \in {"create", "pay", "me"} |-> 0] \in [{"create", "pay", "me"} -> 0 .. MaxRetries]
  OBVIOUS
<1>3. ui \in SellUI
  BY <1>2 DEF SellInit, SellUI
<1>4. SellTypeOK
  BY <1>1, <1>3 DEF SellTypeOK, SellServer, SellPast, IsInjective
<1>5. ImagesInv /\ FormInv
  BY <1>1 DEF ImagesInv, FormInv, ToSet
<1> QED
  BY <1>1, <1>4, <1>5 DEF SellInv

\* The uploads that are under way fit as they did.
LEMMA FitsKept ==
  ASSUME SellInv, CarriedOver(Uploads)
  PROVE  \A i \in 1..Len(flight') : UploadFits(flight'[i])
BY DEF SellInv, CarriedOver, Uploads, UploadFits

\* A step that is not about images.
LEMMA ImagesKept ==
  ASSUME ImagesInv, CarriedOver(Uploads), ui'.images = ui.images,
         past'.wanted = past.wanted, past'.overlapped = past.overlapped
  PROVE  ImagesInv'
<1> SUFFICES ASSUME ~past.overlapped
             PROVE  /\ ToSet(ui.images) = past.wanted
                    /\ \A i, j \in 1..Len(flight') :
                         flight'[i].op = "upload" /\ flight'[j].op = "upload" => i = j
                    /\ \A i \in 1..Len(flight') :
                         flight'[i].op = "upload" => flight'[i].base = ui.images
  BY DEF ImagesInv, ToSet
<1>1. PICK f : /\ \A k \in 1..Len(flight') : flight'[k].op \in Uploads =>
                    f[k] \in 1..Len(flight) /\ flight'[k] = flight[f[k]]
               /\ \A k, l \in 1..Len(flight') :
                    /\ flight'[k].op \in Uploads /\ flight'[l].op \in Uploads
                    /\ f[k] = f[l]
                    => k = l
  BY DEF CarriedOver
<1>2. /\ ToSet(ui.images) = past.wanted
      /\ \A i, j \in 1..Len(flight) :
           flight[i].op = "upload" /\ flight[j].op = "upload" => i = j
      /\ \A i \in 1..Len(flight) :
           flight[i].op = "upload" => flight[i].base = ui.images
  BY DEF ImagesInv
<1>3. ASSUME NEW i \in 1..Len(flight'), NEW j \in 1..Len(flight'),
             flight'[i].op = "upload", flight'[j].op = "upload"
      PROVE  i = j
  <2>1. f[i] = f[j]
    BY <1>1, <1>2, <1>3 DEF Uploads
  <2> QED
    BY <1>1, <1>3, <2>1 DEF Uploads
<1>4. ASSUME NEW i \in 1..Len(flight'), flight'[i].op = "upload"
      PROVE  flight'[i].base = ui.images
  <2>1. f[i] \in 1..Len(flight) /\ flight'[i] = flight[f[i]]
    BY <1>1, <1>4 DEF Uploads
  <2> QED
    BY <1>2, <1>4, <2>1
<1> QED
  BY <1>2, <1>3, <1>4

\* A step that is not about the form.
LEMMA FormKept ==
  ASSUME FormInv, CarriedOver(Chain), past'.again = past.again,
         ui'.isLoading = ui.isLoading, ui'.leaving = ui.leaving,
         server'.listings = server.listings
  PROVE  FormInv'
<1> SUFFICES ASSUME past.again = {} PROVE FormInv'
  BY DEF FormInv
<1>1. PICK f : /\ \A k \in 1..Len(flight') : flight'[k].op \in Chain =>
                    f[k] \in 1..Len(flight) /\ flight'[k] = flight[f[k]]
               /\ \A k, l \in 1..Len(flight') :
                    /\ flight'[k].op \in Chain /\ flight'[l].op \in Chain
                    /\ f[k] = f[l]
                    => k = l
  BY DEF CarriedOver
<1>2. /\ \A i, j \in 1..Len(flight) :
           flight[i].op \in Chain /\ flight[j].op \in Chain => i = j
      /\ \A i \in 1..Len(flight) : flight[i].op \in Chain =>
           /\ ui.isLoading /\ ~ui.leaving
           /\ server.listings = ListingsSoFar(flight[i])
      /\ server.listings = 0 \/ ui.isLoading \/ ui.leaving
      /\ server.listings <= 1
  BY DEF FormInv
<1>3. ASSUME NEW i \in 1..Len(flight'), NEW j \in 1..Len(flight'),
             flight'[i].op \in Chain, flight'[j].op \in Chain
      PROVE  i = j
  <2>1. f[i] = f[j]
    BY <1>1, <1>2, <1>3
  <2> QED
    BY <1>1, <1>3, <2>1
<1>4. ASSUME NEW i \in 1..Len(flight'), flight'[i].op \in Chain
      PROVE  /\ ui.isLoading /\ ~ui.leaving
             /\ server.listings = ListingsSoFar(flight'[i])
  <2>1. f[i] \in 1..Len(flight) /\ flight'[i] = flight[f[i]]
    BY <1>1, <1>4
  <2> QED
    BY <1>2, <1>4, <2>1
<1> QED
  BY <1>2, <1>3, <1>4 DEF FormInv, ListingsSoFar

\* What is known of a request under way.
LEMMA SellRequestFacts ==
  ASSUME SellInv, NEW i \in DOMAIN flight
  PROVE  /\ flight \in Seq(SellRequests) /\ i \in 1..Len(flight)
         /\ flight[i] \in SellRequests
         /\ flight[i].op = "upload" =>
              /\ flight[i].base \in Seq(Images) /\ flight[i].files \in SUBSET Images
              /\ UploadFits(flight[i])
         /\ flight[i].op \in Chain =>
              flight[i] \in [op : {"create", "pay", "me"},
                             phase : {"sent", "done", "refused"}]
         /\ flight[i].op \in {"upload", "late"} \cup Chain
<1>1. flight \in Seq(SellRequests) /\ \A j \in 1..Len(flight) : UploadFits(flight[j])
  BY DEF SellInv, SellTypeOK
<1>2. i \in 1..Len(flight) /\ flight[i] \in SellRequests
  BY <1>1
<1>3. UploadFits(flight[i])
  BY <1>1, <1>2
<1> QED
  BY <1>1, <1>2, <1>3 DEF SellRequests, Chain

-----------------------------------------------------------------------------
\* The fields and the options: nothing is sent.
LEMMA FieldsInv == SellInv /\ (HandleChange \/ SelectBoost) => SellInv'
<1> SUFFICES ASSUME SellInv, HandleChange \/ SelectBoost PROVE SellInv'
  OBVIOUS
<1>1. UNCHANGED <<flight, server, past>>
  BY DEF HandleChange, SelectBoost, Untold
<1>2. ui \in SellUI
  BY DEF SellInv, SellTypeOK
<1>3. /\ ui' \in SellUI /\ ui'.images = ui.images
      /\ ui'.isLoading = ui.isLoading /\ ui'.leaving = ui.leaving
  <2>1. CASE HandleChange
    BY <1>2, <2>1 DEF HandleChange, SellUI
  <2>2. CASE SelectBoost
    BY <1>2, <2>2 DEF SelectBoost, SellUI
  <2> QED
    BY <2>1, <2>2
<1>4. SellTypeOK'
  BY <1>1, <1>3 DEF SellInv, SellTypeOK
<1>5. CarriedOver(Uploads) /\ CarriedOver(Chain)
  BY <1>1, SameCarries
<1>6. ImagesInv' /\ FormInv'
  BY <1>1, <1>3, <1>5, ImagesKept, FormKept DEF SellInv
<1> QED
  BY <1>4, <1>5, <1>6, FitsKept DEF SellInv

\* Files are chosen: an upload of the images there are, or one that overlaps.
LEMMA HandleFilesInv == SellInv /\ HandleFiles => SellInv'
<1> SUFFICES ASSUME SellInv, HandleFiles PROVE SellInv'
  OBVIOUS
<1>1. PICK files \in SUBSET (Images \ ToSet(ui.images)) :
        /\ Len(ui.images) + Cardinality(files) <= MaxImages
        /\ ui' = [ui EXCEPT !.uploading = TRUE]
        /\ Send([op |-> "upload", base |-> ui.images, files |-> files, phase |-> "sent"])
  BY DEF HandleFiles
<1> DEFINE r == [op |-> "upload", base |-> ui.images, files |-> files, phase |-> "sent"]
           overlapped == past.overlapped \/ UnderWay("upload")
<1>2. past' = [past EXCEPT !.overlapped = overlapped] /\ UNCHANGED server
  BY DEF HandleFiles
<1>3. /\ ui \in SellUI /\ ui.images \in Seq(Images) /\ IsInjective(ui.images)
      /\ past \in SellPast /\ flight \in Seq(SellRequests)
  BY DEF SellInv, SellTypeOK, SellUI
<1>4. /\ r \in SellRequests /\ r.op = "upload" /\ r.base = ui.images
      /\ UploadFits(r) /\ Send(r)
  BY <1>1, <1>3 DEF SellRequests, UploadFits
<1>5. overlapped \in BOOLEAN /\ (~overlapped => ~past.overlapped)
  OBVIOUS
<1>6. ~overlapped => \A k \in 1..Len(flight) : flight[k].op # "upload"
  BY <1>3 DEF UnderWay
<1> HIDE DEF r, overlapped
<1>7. /\ flight' \in Seq(SellRequests) /\ CarriedOver(Chain)
      /\ Len(flight') = Len(flight) + 1 /\ flight'[Len(flight) + 1] = r
      /\ \A k \in 1..Len(flight) : flight'[k] = flight[k]
  BY <1>3, <1>4, SendCarries DEF Chain
<1>8. \A k \in 1..Len(flight') : k \in 1..Len(flight) \/ k = Len(flight) + 1
  BY <1>3, <1>7
<1>9. /\ ui' \in SellUI /\ ui'.images = ui.images
      /\ ui'.isLoading = ui.isLoading /\ ui'.leaving = ui.leaving
  BY <1>1, <1>3 DEF SellUI
<1>10. /\ past' \in SellPast /\ past'.overlapped = overlapped
       /\ past'.wanted = past.wanted /\ past'.again = past.again
  BY <1>2, <1>3, <1>5 DEF SellPast
<1>11. SellTypeOK'
  BY <1>2, <1>7, <1>9, <1>10 DEF SellInv, SellTypeOK
<1>12. \A k \in 1..Len(flight') : UploadFits(flight'[k])
  BY <1>4, <1>7, <1>8 DEF SellInv
<1>13. ImagesInv'
  BY <1>4, <1>5, <1>6, <1>7, <1>8, <1>9, <1>10 DEF SellInv, ImagesInv
<1>14. FormInv'
  BY <1>2, <1>7, <1>9, <1>10, FormKept DEF SellInv
<1> QED
  BY <1>11, <1>12, <1>13, <1>14 DEF SellInv

\* A picture is removed from the form.
LEMMA RemoveImageInv == SellInv /\ RemoveImage => SellInv'
<1> SUFFICES ASSUME SellInv, RemoveImage PROVE SellInv'
  OBVIOUS
<1>1. PICK k \in DOMAIN ui.images :
        /\ ui' = [ui EXCEPT !.images = RemoveAt(@, k)]
        /\ past' = [past EXCEPT !.wanted = @ \ {ui.images[k]},
                                !.overlapped = @ \/ UnderWay("upload")]
  BY DEF RemoveImage
<1>2. UNCHANGED <<server, flight>>
  BY DEF RemoveImage
<1>3. /\ ui \in SellUI /\ ui.images \in Seq(Images) /\ IsInjective(ui.images)
      /\ Len(ui.images) <= MaxImages /\ Len(ui.images) \in Nat
      /\ past \in SellPast /\ flight \in Seq(SellRequests)
  BY LenProperties DEF SellInv, SellTypeOK, SellUI
<1>4. k \in 1..Len(ui.images)
  BY <1>3
<1> DEFINE t == RemoveAt(ui.images, k)
           wanted == past.wanted \ {ui.images[k]}
           overlapped == past.overlapped \/ UnderWay("upload")
<1>5. t \in Seq(Images) /\ Len(t) = Len(ui.images) - 1
  BY <1>3, <1>4, RemoveAtFacts
<1>6. IsInjective(t) /\ ToSet(t) = ToSet(ui.images) \ {ui.images[k]}
  BY <1>3, <1>4, RemoveAtSet
<1>7. /\ ui' = [ui EXCEPT !.images = t]
      /\ past' = [past EXCEPT !.wanted = wanted, !.overlapped = overlapped]
  BY <1>1
<1>8. /\ overlapped \in BOOLEAN /\ (~overlapped => ~past.overlapped)
      /\ ~overlapped => \A j \in 1..Len(flight) : flight[j].op # "upload"
  BY <1>3 DEF UnderWay
<1>9. wanted \in SUBSET Images /\ (past.wanted = ToSet(ui.images) => wanted = ToSet(t))
  BY <1>3, <1>6 DEF SellPast
<1> HIDE DEF t, wanted, overlapped
<1>10. /\ ui' \in SellUI /\ ui'.images = t
       /\ ui'.isLoading = ui.isLoading /\ ui'.leaving = ui.leaving
  BY <1>3, <1>5, <1>7 DEF SellUI
<1>11. /\ past' \in SellPast /\ past'.overlapped = overlapped
       /\ past'.wanted = wanted /\ past'.again = past.again
  BY <1>3, <1>7, <1>8, <1>9 DEF SellPast
<1>12. SellTypeOK'
  BY <1>2, <1>3, <1>5, <1>6, <1>10, <1>11, SellAssumption DEF SellInv, SellTypeOK
<1>13. CarriedOver(Uploads) /\ CarriedOver(Chain)
  BY <1>2, SameCarries
<1>14. ImagesInv'
  BY <1>2, <1>8, <1>9, <1>10, <1>11 DEF SellInv, ImagesInv
<1>15. FormInv'
  BY <1>2, <1>10, <1>11, <1>13, FormKept DEF SellInv
<1> QED
  BY <1>12, <1>13, <1>14, <1>15, FitsKept DEF SellInv

\* An upload is answered: the images of its call, and its own.
LEMMA UploadedInv ==
  ASSUME SellInv, NEW i \in DOMAIN flight, Uploaded(i)
  PROVE  SellInv'
<1> DEFINE r == flight[i]
           t == Merged(r.base, r.files)
           wanted == past.wanted \cup r.files
<1>1. /\ flight \in Seq(SellRequests) /\ i \in 1..Len(flight) /\ r.op = "upload"
      /\ r.base \in Seq(Images) /\ r.files \in SUBSET Images /\ UploadFits(r)
  BY SellRequestFacts DEF Uploaded
<1>2. /\ t \in Seq(Images) /\ Len(t) <= MaxImages /\ IsInjective(t)
      /\ ToSet(t) = ToSet(r.base) \cup r.files
  BY <1>1, MergedFacts DEF UploadFits
<1>3. /\ ui' = [ui EXCEPT !.uploading = FALSE, !.images = t]
      /\ past' = [past EXCEPT !.wanted = wanted]
      /\ UNCHANGED server /\ Land(i)
  BY DEF Uploaded
<1>4. ui \in SellUI /\ past \in SellPast
  BY DEF SellInv, SellTypeOK
<1>5. wanted \in SUBSET Images
  BY <1>1, <1>4 DEF SellPast
<1>6. ~past.overlapped => ToSet(t) = wanted
  BY <1>1, <1>2 DEF SellInv, ImagesInv
<1> HIDE DEF t, wanted, r
<1>7. /\ ui' \in SellUI /\ ui'.images = t
      /\ ui'.isLoading = ui.isLoading /\ ui'.leaving = ui.leaving
  BY <1>2, <1>3, <1>4 DEF SellUI
<1>8. /\ past' \in SellPast /\ past'.overlapped = past.overlapped
      /\ past'.wanted = wanted /\ past'.again = past.again
  BY <1>3, <1>4, <1>5 DEF SellPast
<1>9. /\ flight' \in Seq(SellRequests)
      /\ CarriedOver(Uploads) /\ CarriedOver(Chain)
      /\ \A k \in 1..Len(flight') :
           \E l \in 1..Len(flight) : l # i /\ flight'[k] = flight[l]
  BY <1>1, <1>3, LandCarries
<1>10. SellTypeOK'
  BY <1>2, <1>3, <1>7, <1>8, <1>9 DEF SellInv, SellTypeOK
<1>11. ~past.overlapped => \A k \in 1..Len(flight') : flight'[k].op # "upload"
  BY <1>1, <1>9 DEF SellInv, ImagesInv, r
<1>12. ImagesInv'
  BY <1>6, <1>7, <1>8, <1>11 DEF ImagesInv
<1>13. FormInv'
  BY <1>3, <1>7, <1>8, <1>9, FormKept DEF SellInv
<1> QED
  BY <1>9, <1>10, <1>12, <1>13, FitsKept DEF SellInv

\* An upload fails.
LEMMA UploadFailedInv ==
  ASSUME SellInv, NEW i \in DOMAIN flight, UploadFailed(i)
  PROVE  SellInv'
<1>1. flight \in Seq(SellRequests) /\ i \in 1..Len(flight) /\ ui \in SellUI
  BY SellRequestFacts DEF SellInv, SellTypeOK
<1>2. /\ ui' \in SellUI /\ ui'.images = ui.images
      /\ ui'.isLoading = ui.isLoading /\ ui'.leaving = ui.leaving
      /\ UNCHANGED <<server, past>>
  BY <1>1 DEF UploadFailed, SellUI
<1>3. flight' \in Seq(SellRequests) /\ CarriedOver(Uploads) /\ CarriedOver(Chain)
  BY <1>1, LandCarries DEF UploadFailed
<1>4. SellTypeOK'
  BY <1>2, <1>3 DEF SellInv, SellTypeOK
<1>5. ImagesInv' /\ FormInv'
  BY <1>2, <1>3, ImagesKept, FormKept DEF SellInv
<1> QED
  BY <1>3, <1>4, <1>5, FitsKept DEF SellInv

\* What a step of the form leaves alone.
ImagesApart ==
  /\ ui'.images = ui.images
  /\ past'.wanted = past.wanted /\ past'.overlapped = past.overlapped

\* The request of the form at place i is r after the step; beside it, what was
\* there, and what is given up.
InItsPlace(i, r) ==
  /\ flight' \in Seq(SellRequests) /\ CarriedOver(Uploads)
  /\ i \in 1..Len(flight') /\ flight'[i] = r
  /\ \A k \in 1..Len(flight') : k # i =>
       \/ flight'[k].op = "late"
       \/ k \in 1..Len(flight) /\ flight'[k] = flight[k]

\* An answer on its way, or the request once more.
LEMMA ReturnsInPlace ==
  ASSUME SellInv, NEW i \in 1..Len(flight), NEW r \in SellRequests, r.op \in Chain,
         Return(i, r)
  PROVE  InItsPlace(i, r)
<1>1. flight \in Seq(SellRequests) /\ r.op \notin Uploads
  BY DEF SellInv, SellTypeOK, Chain, Uploads
<1> QED
  BY <1>1, ReturnCarries DEF InItsPlace

\* A sequence with the element at one place exchanged.
LEMMA ExchangedAt ==
  ASSUME NEW S, NEW s \in Seq(S), NEW i \in 1..Len(s), NEW e \in S
  PROVE  LET t == [s EXCEPT ![i] = e] IN
         /\ t \in Seq(S) /\ Len(t) = Len(s)
         /\ t[i] = e /\ \A k \in 1..Len(s) : k # i => t[k] = s[k]
OBVIOUS

\* Requests that keep their places are carried over.
LEMMA KeepPlaces ==
  ASSUME NEW kinds, Len(flight') \in Nat,
         \A k \in 1..Len(flight') : flight'[k].op \in kinds =>
           k \in 1..Len(flight) /\ flight'[k] = flight[k]
  PROVE  CarriedOver(kinds)
<1> DEFINE f == [k \in 1..Len(flight') |-> k]
<1>1. \A k \in 1..Len(flight') : f[k] = k
  OBVIOUS
<1> HIDE DEF f
<1>2. ASSUME NEW k \in 1..Len(flight'), flight'[k].op \in kinds
      PROVE  f[k] \in 1..Len(flight) /\ flight'[k] = flight[f[k]]
  BY <1>1, <1>2
<1>3. ASSUME NEW k \in 1..Len(flight'), NEW l \in 1..Len(flight'), f[k] = f[l]
      PROVE  k = l
  BY <1>1, <1>3, Zenon
<1> QED
  BY <1>2, <1>3 DEF CarriedOver

\* A request of another kind takes the place of one, and one of another kind
\* comes beside it.
LEMMA BesideCarries ==
  ASSUME NEW S, flight \in Seq(S), NEW i \in 1..Len(flight), NEW r \in S, NEW late \in S,
         NEW t, t = [flight EXCEPT ![i] = r], flight' = Append(t, late),
         NEW kinds, r.op \notin kinds, late.op \notin kinds
  PROVE  /\ flight' \in Seq(S) /\ Len(flight') = Len(flight) + 1
         /\ CarriedOver(kinds)
         /\ flight'[i] = r /\ flight'[Len(flight) + 1] = late
         /\ \A k \in 1..Len(flight) : k # i => flight'[k] = flight[k]
<1>1. /\ t \in Seq(S) /\ Len(t) = Len(flight) /\ t[i] = r
      /\ \A k \in 1..Len(flight) : k # i => t[k] = flight[k]
  BY ExchangedAt
<1>2. /\ flight' \in Seq(S) /\ Len(flight') = Len(flight) + 1
      /\ flight'[Len(flight) + 1] = late
      /\ \A k \in 1..Len(flight) : flight'[k] = t[k]
  BY <1>1, AppendProperties
<1>3. ASSUME NEW k \in 1..Len(flight'), flight'[k].op \in kinds
      PROVE  k \in 1..Len(flight) /\ flight'[k] = flight[k]
  BY <1>1, <1>2, <1>3
<1>4. CarriedOver(kinds)
  BY <1>2, <1>3, KeepPlaces
<1> QED
  BY <1>1, <1>2, <1>4

\* The request once more, beside the one that was given up.
LEMMA AgainInPlace ==
  ASSUME SellInv, NEW i \in 1..Len(flight), NEW r \in SellRequests, r.op \in Chain,
         NEW late \in SellRequests, late.op = "late",
         flight' = Append([flight EXCEPT ![i] = r], late)
  PROVE  InItsPlace(i, r)
<1>1. flight \in Seq(SellRequests) /\ r.op \notin Uploads /\ late.op \notin Uploads
  BY DEF SellInv, SellTypeOK, Chain, Uploads
<1>2. /\ flight' \in Seq(SellRequests) /\ Len(flight') = Len(flight) + 1
      /\ CarriedOver(Uploads)
      /\ flight'[i] = r /\ flight'[Len(flight) + 1] = late
      /\ \A k \in 1..Len(flight) : k # i => flight'[k] = flight[k]
  BY <1>1, BesideCarries
<1>3. Len(flight) \in Nat /\ i \in 1..Len(flight')
  BY <1>1, <1>2
<1>4. ASSUME NEW k \in 1..Len(flight')
      PROVE  \/ k = i /\ flight'[k] = r
             \/ k \in 1..Len(flight) /\ flight'[k] = flight[k]
             \/ flight'[k] = late
  BY <1>2, <1>3
<1> QED
  BY <1>2, <1>3, <1>4 DEF InItsPlace

\* A request of the form reaches the server, or is sent again.
LEMMA ReturnInv ==
  ASSUME SellInv, NEW i \in 1..Len(flight), flight[i].op \in Chain,
         NEW r \in SellRequests, r.op = flight[i].op, InItsPlace(i, r),
         ui' \in SellUI, ImagesApart,
         ui'.isLoading = ui.isLoading, ui'.leaving = ui.leaving,
         server' \in SellServer, server'.slots <= MaxListings, past' \in SellPast,
         past'.again = {} =>
           past.again = {} /\ server'.listings = ListingsSoFar(r)
  PROVE  SellInv'
<1>1. /\ flight' \in Seq(SellRequests) /\ CarriedOver(Uploads)
      /\ i \in 1..Len(flight') /\ flight'[i] = r
      /\ \A k \in 1..Len(flight') : k # i =>
           \/ flight'[k].op \notin Chain
           \/ k \in 1..Len(flight) /\ flight'[k] = flight[k]
  BY DEF InItsPlace, Chain
<1>2. SellTypeOK'
  BY <1>1 DEF SellInv, SellTypeOK, ImagesApart
<1>3. ImagesInv'
  BY <1>1, ImagesKept DEF SellInv, ImagesApart
<1>4. FormInv'
  <2> SUFFICES ASSUME past'.again = {} PROVE FormInv'
    BY DEF FormInv
  <2>1. /\ past.again = {} /\ server'.listings = ListingsSoFar(r)
        /\ ui.isLoading /\ ~ui.leaving
        /\ \A k \in 1..Len(flight) : flight[k].op \in Chain => k = i
    BY DEF SellInv, FormInv
  <2>2. \A k \in 1..Len(flight') : flight'[k].op \in Chain => k = i
    BY <1>1, <2>1
  <2> QED
    BY <1>1, <2>1, <2>2 DEF FormInv, ListingsSoFar
<1> QED
  BY <1>1, <1>2, <1>3, <1>4, FitsKept DEF SellInv

\* The page waits no longer for the request at place i.
NoLongerAwaited(i) ==
  /\ flight' \in Seq(SellRequests) /\ CarriedOver(Uploads)
  /\ \A k \in 1..Len(flight') :
       \/ flight'[k].op = "late"
       \/ \E l \in 1..Len(flight) : l # i /\ flight'[k] = flight[l]

\* It has been answered, has failed, or may still be served.
LEMMA EndsAwaited ==
  ASSUME SellInv, NEW i \in 1..Len(flight),
         \/ Land(i)
         \/ \E late \in SellRequests : late.op = "late" /\ Return(i, late)
  PROVE  NoLongerAwaited(i)
<1>1. flight \in Seq(SellRequests)
  BY DEF SellInv, SellTypeOK
<1>2. CASE Land(i)
  BY <1>1, <1>2, LandCarries DEF NoLongerAwaited
<1>3. ASSUME NEW late \in SellRequests, late.op = "late", Return(i, late)
      PROVE  NoLongerAwaited(i)
  <2>1. late.op \notin Uploads
    BY <1>3 DEF Uploads
  <2>2. /\ flight' \in Seq(SellRequests) /\ CarriedOver(Uploads)
        /\ Len(flight') = Len(flight) /\ flight'[i] = late
        /\ \A k \in 1..Len(flight) : k # i => flight'[k] = flight[k]
    BY <1>1, <1>3, <2>1, ReturnCarries
  <2> QED
    BY <1>3, <2>2 DEF NoLongerAwaited
<1> QED
  BY <1>2, <1>3

\* The last request of the form is answered, or one fails.
LEMMA EndInv ==
  ASSUME SellInv, NEW i \in 1..Len(flight), flight[i].op \in Chain, NoLongerAwaited(i),
         ui' \in SellUI, ImagesApart, UNCHANGED server, past' \in SellPast,
         past'.again = {} =>
           /\ past.again = {} /\ ui'.leaving
           /\ flight[i].op # "create"
  PROVE  SellInv'
<1>1. /\ flight' \in Seq(SellRequests) /\ CarriedOver(Uploads)
      /\ \A k \in 1..Len(flight') :
           \/ flight'[k].op \notin Chain
           \/ \E l \in 1..Len(flight) : l # i /\ flight'[k] = flight[l]
  BY DEF NoLongerAwaited, Chain
<1>2. SellTypeOK'
  BY <1>1 DEF SellInv, SellTypeOK, ImagesApart
<1>3. ImagesInv'
  BY <1>1, ImagesKept DEF SellInv, ImagesApart
<1>4. FormInv'
  <2> SUFFICES ASSUME past'.again = {} PROVE FormInv'
    BY DEF FormInv
  <2>1. /\ past.again = {} /\ ui'.leaving /\ server.listings = 1
        /\ \A k \in 1..Len(flight) : flight[k].op \in Chain => k = i
    BY DEF SellInv, FormInv, ListingsSoFar
  <2>2. \A k \in 1..Len(flight') : flight'[k].op \notin Chain
    BY <1>1, <2>1
  <2> QED
    BY <2>1, <2>2 DEF FormInv
<1> QED
  BY <1>1, <1>2, <1>3, <1>4, FitsKept DEF SellInv

\* A request nobody waits for is served: a listing it makes is remembered.
LEMMA LateInv ==
  ASSUME SellInv, NEW i \in 1..Len(flight), flight[i].op = "late", Land(i),
         UNCHANGED ui, ImagesApart,
         server' \in SellServer, server'.slots <= MaxListings, past' \in SellPast,
         past'.again = {} => past.again = {} /\ server'.listings = server.listings
  PROVE  SellInv'
<1>1. flight \in Seq(SellRequests)
  BY DEF SellInv, SellTypeOK
<1>2. flight' \in Seq(SellRequests) /\ CarriedOver(Uploads) /\ CarriedOver(Chain)
  BY <1>1, LandCarries
<1>3. SellTypeOK'
  BY <1>2 DEF SellInv, SellTypeOK, ImagesApart
<1>4. ImagesInv'
  BY <1>2, ImagesKept DEF SellInv, ImagesApart
<1>5. FormInv'
  <2>1. CASE past'.again = {}
    <3>1. past'.again = past.again /\ server'.listings = server.listings
      BY <2>1
    <3> QED
      BY <1>2, <3>1, FormKept DEF SellInv
  <2>2. CASE past'.again # {}
    BY <2>2 DEF FormInv
  <2> QED
    BY <2>1, <2>2
<1> QED
  BY <1>2, <1>3, <1>4, <1>5, FitsKept DEF SellInv

-----------------------------------------------------------------------------
\* The form is sent: with no chain under way, not left, and no listing made.
LEMMA HandleSubmitInv == SellInv /\ HandleSubmit => SellInv'
<1> SUFFICES ASSUME SellInv, HandleSubmit PROVE SellInv'
  OBVIOUS
<1> DEFINE r == Submit("create")
           again == IF ui.leaving THEN past.again \cup {"leaving"} ELSE past.again
<1>1. /\ ui' = [ui EXCEPT !.isLoading = TRUE, !.apiError = FALSE]
      /\ past' = [past EXCEPT !.again = again]
      /\ UNCHANGED server /\ ~ui.isLoading /\ Send(r)
  BY DEF HandleSubmit, FieldsEnabled
<1>2. ui \in SellUI /\ past \in SellPast /\ flight \in Seq(SellRequests)
  BY DEF SellInv, SellTypeOK
<1>3. again \in SUBSET {"error", "lost", "leaving"}
  BY <1>2 DEF SellPast
<1>4. again = {} => past.again = {} /\ ~ui.leaving
  OBVIOUS
<1>5. r \in SellRequests /\ r.op = "create" /\ r.phase = "sent" /\ r.op \notin Uploads
  BY DEF Submit, SellRequests, Uploads
<1> HIDE DEF r, again
<1>6. ui' \in SellUI /\ ui'.images = ui.images /\ ui'.isLoading /\ ui'.leaving = ui.leaving
  BY <1>1, <1>2 DEF SellUI
<1>7. /\ past' \in SellPast /\ past'.overlapped = past.overlapped
      /\ past'.wanted = past.wanted /\ past'.again = again
  BY <1>1, <1>2, <1>3 DEF SellPast
<1>8. /\ flight' \in Seq(SellRequests) /\ CarriedOver(Uploads)
      /\ Len(flight') = Len(flight) + 1 /\ flight'[Len(flight) + 1] = r
      /\ \A k \in 1..Len(flight) : flight'[k] = flight[k]
  BY <1>1, <1>2, <1>5, SendCarries
<1>9. \A k \in 1..Len(flight') : k \in 1..Len(flight) \/ k = Len(flight) + 1
  BY <1>2, <1>8
<1>10. SellTypeOK'
  BY <1>1, <1>6, <1>7, <1>8 DEF SellInv, SellTypeOK
<1>11. ImagesInv'
  BY <1>6, <1>7, <1>8, ImagesKept DEF SellInv
<1>12. FormInv'
  <2> SUFFICES ASSUME again = {} PROVE FormInv'
    BY <1>7 DEF FormInv
  <2>1. /\ ~ui.leaving /\ server.listings = 0
        /\ \A k \in 1..Len(flight) : flight[k].op \notin Chain
    BY <1>1, <1>4 DEF SellInv, FormInv
  <2>2. \A k \in 1..Len(flight') :
          flight'[k].op \in Chain => k = Len(flight) + 1 /\ flight'[k] = r
    BY <1>8, <1>9, <2>1
  <2> QED
    BY <1>1, <1>5, <1>6, <2>1, <2>2 DEF FormInv, ListingsSoFar
<1> QED
  BY <1>8, <1>10, <1>11, <1>12, FitsKept DEF SellInv

\* What the server answers goes back in the place of the request, or to nobody.
LEMMA ReachedFacts ==
  ASSUME SellInv, NEW i \in DOMAIN flight, NEW op \in {"create", "pay"}, Reaches(i, op)
  PROVE  /\ i \in 1..Len(flight)
         /\ \/ flight[i].op = "late"
            \/ /\ flight[i].op = op /\ flight[i].phase = "sent" /\ flight[i].op \in Chain
               /\ flight[i] \in [op : {"create", "pay", "me"},
                                 phase : {"sent", "done", "refused"}]
BY SellRequestFacts DEF Reaches, Chain

\* The server makes the listing, or refuses it.
LEMMA CreateListingInv ==
  ASSUME SellInv, NEW i \in DOMAIN flight, CreateListing(i)
  PROVE  SellInv'
<1>1. /\ i \in 1..Len(flight)
      /\ \/ flight[i].op = "late"
         \/ /\ flight[i].op = "create" /\ flight[i].phase = "sent"
            /\ flight[i] \in [op : {"create", "pay", "me"},
                              phase : {"sent", "done", "refused"}]
            /\ flight[i].op \in Chain
  BY ReachedFacts DEF CreateListing
<1>2. /\ server \in SellServer /\ server.slots <= MaxListings
      /\ server.listings \in Nat /\ server.slots \in Nat
      /\ ui \in SellUI /\ past \in SellPast
  BY DEF SellInv, SellTypeOK, SellServer
<1>3. \E written \in BOOLEAN, phase \in {"done", "refused"}, n \in Nat :
        /\ SellAnswers(i, phase) /\ (phase = "done" <=> written)
        /\ n = IF written THEN server.listings + 1 ELSE server.listings
        /\ server' \in SellServer /\ server'.slots <= MaxListings
        /\ server'.listings = n
        /\ past' = [past EXCEPT !.again = IF written /\ flight[i].op = "late"
                                            THEN past.again \cup {"lost"} ELSE past.again]
  <2>1. CASE server.slots = MaxListings
    <3>1. SellAnswers(i, "refused") /\ UNCHANGED <<server, past>>
      BY <2>1 DEF CreateListing
    <3>2. past' = [past EXCEPT !.again = past.again]
      BY <1>2, <3>1 DEF SellPast
    <3> QED
      BY <1>2, <3>1, <3>2
  <2>2. CASE server.slots # MaxListings
    <3>1. PICK written \in BOOLEAN :
            /\ SellAnswers(i, IF written THEN "done" ELSE "refused")
            /\ server' = [server EXCEPT !.slots = @ + 1,
                                        !.listings = IF written THEN @ + 1 ELSE @]
            /\ past' = [past EXCEPT !.again = IF written /\ flight[i].op = "late"
                                                THEN @ \cup {"lost"} ELSE @]
      BY <2>2 DEF CreateListing
    <3> DEFINE phase == IF written THEN "done" ELSE "refused"
               n == IF written THEN server.listings + 1 ELSE server.listings
    <3>2. phase \in {"done", "refused"} /\ (phase = "done" <=> written) /\ n \in Nat
      BY <1>2
    <3>3. server.slots + 1 \in Nat /\ server.slots + 1 <= MaxListings
      BY <1>2, <2>2, SellAssumption
    <3>4. server' = [server EXCEPT !.slots = server.slots + 1, !.listings = n]
      BY <3>1
    <3>5. SellAnswers(i, phase)
      BY <3>1
    <3>6. past' = [past EXCEPT !.again = IF written /\ flight[i].op = "late"
                                          THEN past.again \cup {"lost"} ELSE past.again]
      BY <3>1
    <3>7. n = IF written THEN server.listings + 1 ELSE server.listings
      OBVIOUS
    <3> HIDE DEF phase, n
    <3>8. server' \in SellServer /\ server'.slots <= MaxListings /\ server'.listings = n
      BY <1>2, <3>2, <3>3, <3>4 DEF SellServer
    <3> QED
      BY <3>2, <3>5, <3>6, <3>7, <3>8
  <2> QED
    BY <2>1, <2>2
<1>4. PICK written \in BOOLEAN, phase \in {"done", "refused"}, n \in Nat :
        /\ SellAnswers(i, phase) /\ (phase = "done" <=> written)
        /\ n = IF written THEN server.listings + 1 ELSE server.listings
        /\ server' \in SellServer /\ server'.slots <= MaxListings
        /\ server'.listings = n
        /\ past' = [past EXCEPT !.again = IF written /\ flight[i].op = "late"
                                            THEN past.again \cup {"lost"} ELSE past.again]
  BY <1>3
<1> DEFINE again == IF written /\ flight[i].op = "late"
                      THEN past.again \cup {"lost"} ELSE past.again
<1>5. again \in SUBSET {"error", "lost", "leaving"}
  BY <1>2 DEF SellPast
<1>6. /\ again = {} => past.again = {} /\ (flight[i].op = "late" => ~written)
      /\ past' = [past EXCEPT !.again = again]
  BY <1>4
<1> HIDE DEF again
<1>7. /\ past' \in SellPast /\ past'.overlapped = past.overlapped
      /\ past'.wanted = past.wanted /\ past'.again = again
  BY <1>2, <1>5, <1>6 DEF SellPast
<1>8. UNCHANGED ui
  BY DEF CreateListing
<1>9. ImagesApart
  BY <1>7, <1>8 DEF ImagesApart
<1>10. CASE flight[i].op = "late"
  <2>1. Land(i)
    BY <1>4, <1>10 DEF SellAnswers
  <2>2. past'.again = {} => past.again = {} /\ server'.listings = server.listings
    BY <1>4, <1>6, <1>7, <1>10
  <2> QED
    BY <1>1, <1>4, <1>7, <1>8, <1>9, <1>10, <2>1, <2>2, LateInv
<1>11. CASE flight[i].op # "late"
  <2> DEFINE r == [flight[i] EXCEPT !.phase = phase]
  <2>1. Return(i, r)
    BY <1>4, <1>11 DEF SellAnswers
  <2>2. /\ r \in SellRequests /\ r.op = flight[i].op
        /\ ListingsSoFar(r) = IF written THEN 1 ELSE 0
    BY <1>1, <1>4, <1>11 DEF SellRequests, ListingsSoFar
  <2> HIDE DEF r
  <2>3. past.again = {} => server.listings = 0
    BY <1>1, <1>11 DEF SellInv, FormInv, ListingsSoFar
  <2>4. past'.again = {} => past.again = {} /\ server'.listings = ListingsSoFar(r)
    BY <1>4, <1>6, <1>7, <2>2, <2>3
  <2>5. InItsPlace(i, r)
    BY <1>1, <1>11, <2>1, <2>2, ReturnsInPlace
  <2> QED
    BY <1>1, <1>2, <1>4, <1>7, <1>8, <1>9, <1>11, <2>2, <2>4, <2>5, ReturnInv
<1> QED
  BY <1>10, <1>11

\* The server begins a payment, or sends the user.
LEMMA ServedInv ==
  ASSUME SellInv, NEW i \in DOMAIN flight, CreateBoostPayment(i) \/ GetCurrentUser(i)
  PROVE  SellInv'
<1>1. /\ i \in 1..Len(flight)
      /\ \/ flight[i].op = "late"
         \/ /\ flight[i].op \in {"pay", "me"} /\ flight[i].op \in Chain
            /\ flight[i] \in [op : {"create", "pay", "me"},
                              phase : {"sent", "done", "refused"}]
  <2>1. CASE CreateBoostPayment(i)
    BY <2>1, ReachedFacts DEF CreateBoostPayment
  <2>2. CASE GetCurrentUser(i)
    BY <2>2, SellRequestFacts DEF GetCurrentUser, Chain
  <2> QED
    BY <2>1, <2>2
<1>2. UNCHANGED <<ui, past>> /\ ImagesApart
  BY DEF CreateBoostPayment, GetCurrentUser, ImagesApart
<1>3. /\ server \in SellServer /\ server.slots <= MaxListings
      /\ ui \in SellUI /\ past \in SellPast
  BY DEF SellInv, SellTypeOK
<1>4. /\ server' \in SellServer /\ server'.slots <= MaxListings
      /\ server'.listings = server.listings
  <2>1. CASE CreateBoostPayment(i)
    <3>1. PICK n \in {server.payments, server.payments + 1} :
            server' = [server EXCEPT !.payments = n]
      BY <2>1 DEF CreateBoostPayment
    <3> QED
      BY <1>3, <3>1 DEF SellServer
  <2>2. CASE GetCurrentUser(i)
    BY <1>3, <2>2 DEF GetCurrentUser
  <2> QED
    BY <2>1, <2>2
<1>5. CASE flight[i].op = "late"
  <2>1. Land(i)
    BY <1>5 DEF CreateBoostPayment, GetCurrentUser, SellAnswers
  <2> QED
    BY <1>1, <1>2, <1>3, <1>4, <1>5, <2>1, LateInv
<1>6. CASE flight[i].op # "late"
  <2>1. PICK phase \in {"done", "refused"} :
          Return(i, [flight[i] EXCEPT !.phase = phase])
    BY <1>6 DEF CreateBoostPayment, GetCurrentUser, SellAnswers
  <2> DEFINE r == [flight[i] EXCEPT !.phase = phase]
  <2>2. r \in SellRequests /\ r.op = flight[i].op /\ ListingsSoFar(r) = 1 /\ Return(i, r)
    BY <1>1, <1>6, <2>1 DEF SellRequests, ListingsSoFar
  <2> HIDE DEF r
  <2>3. past.again = {} => server.listings = 1
    BY <1>1, <1>6 DEF SellInv, FormInv, ListingsSoFar
  <2>4. InItsPlace(i, r)
    BY <1>1, <1>6, <2>2, ReturnsInPlace
  <2> QED
    BY <1>1, <1>2, <1>3, <1>4, <1>6, <2>2, <2>3, <2>4, ReturnInv
<1> QED
  BY <1>5, <1>6

\* What is given up of a request.
LEMMA GivenUpFacts ==
  ASSUME NEW r, MayComeLate(r)
  PROVE  /\ GivenUp(r) \in SellRequests /\ GivenUp(r).op = "late"
         /\ r.phase = "sent"
BY DEF MayComeLate, GivenUp, SellRequests

\* The interceptor sends a request again: a listing whose answer was lost is a
\* reason, a request that had not been served changes nothing yet.
LEMMA AgainInv ==
  ASSUME SellInv, NEW i \in DOMAIN flight, Again(i)
  PROVE  SellInv'
<1>1. /\ i \in 1..Len(flight) /\ flight[i].op \in Chain
      /\ flight[i] \in [op : {"create", "pay", "me"}, phase : {"sent", "done", "refused"}]
  BY SellRequestFacts DEF Again, Chain
<1> DEFINE op == flight[i].op
           r == Submit(op)
           n == ui.retries[op] + 1
           retries == [ui.retries EXCEPT ![op] = n]
           again == IF op = "create" /\ flight[i].phase = "done"
                      THEN past.again \cup {"lost"} ELSE past.again
<1>2. /\ ui' = [ui EXCEPT !.retries = retries] /\ ui.retries[op] < MaxRetries
      /\ past' = [past EXCEPT !.again = again]
      /\ UNCHANGED server
      /\ \/ Return(i, r)
         \/ /\ MayComeLate(flight[i])
            /\ flight' = Append([flight EXCEPT ![i] = r], GivenUp(flight[i]))
  BY DEF Again
<1>3. /\ server \in SellServer /\ server.slots <= MaxListings
      /\ ui \in SellUI /\ past \in SellPast
      /\ ui.retries \in [{"create", "pay", "me"} -> 0 .. MaxRetries]
  BY DEF SellInv, SellTypeOK, SellUI
<1>4. n \in 0 .. MaxRetries
  <2>1. ui.retries[op] \in 0 .. MaxRetries
    BY <1>1, <1>3
  <2> QED
    BY <1>2, <2>1, SellAssumption
<1> HIDE DEF n
<1>5. retries \in [{"create", "pay", "me"} -> 0 .. MaxRetries]
  BY <1>3, <1>4
<1>6. again \in SUBSET {"error", "lost", "leaving"}
  BY <1>3 DEF SellPast
<1>7. /\ r \in SellRequests /\ r.op = flight[i].op /\ r.op \in Chain
      /\ op # "create" \/ flight[i].phase # "done" =>
           ListingsSoFar(r) = ListingsSoFar(flight[i])
  BY <1>1 DEF Submit, SellRequests, ListingsSoFar
<1>8. again = {} => past.again = {} /\ (op # "create" \/ flight[i].phase # "done")
  OBVIOUS
<1>9. past.again = {} => server.listings = ListingsSoFar(flight[i])
  BY <1>1 DEF SellInv, FormInv
<1> HIDE DEF op, r, retries, again
<1>10. /\ ui' \in SellUI /\ ui'.images = ui.images
       /\ ui'.isLoading = ui.isLoading /\ ui'.leaving = ui.leaving
  BY <1>2, <1>3, <1>5 DEF SellUI
<1>11. /\ past' \in SellPast /\ past'.overlapped = past.overlapped
       /\ past'.wanted = past.wanted /\ past'.again = again
  BY <1>2, <1>3, <1>6 DEF SellPast
<1>12. ImagesApart
  BY <1>10, <1>11 DEF ImagesApart
<1>13. past'.again = {} => past.again = {} /\ server'.listings = ListingsSoFar(r)
  BY <1>2, <1>7, <1>8, <1>9, <1>11
<1>14. InItsPlace(i, r)
  <2>1. CASE Return(i, r)
    BY <1>1, <1>7, <2>1, ReturnsInPlace
  <2>2. CASE /\ MayComeLate(flight[i])
             /\ flight' = Append([flight EXCEPT ![i] = r], GivenUp(flight[i]))
    BY <1>1, <1>7, <2>2, GivenUpFacts, AgainInPlace
  <2> QED
    BY <1>2, <2>1, <2>2
<1> QED
  BY <1>1, <1>2, <1>3, <1>7, <1>10, <1>11, <1>12, <1>13, <1>14, ReturnInv

\* A request of the form is followed by the next one.
LEMMA FollowedInv ==
  ASSUME SellInv, NEW i \in 1..Len(flight), flight[i].op \in Chain,
         flight[i].phase = "done", NEW op \in {"pay", "me"},
         flight' = Append(RemoveAt(flight, i), Submit(op)),
         ui' \in SellUI, ImagesApart,
         ui'.isLoading = ui.isLoading, ui'.leaving = ui.leaving,
         UNCHANGED <<server, past>>
  PROVE  SellInv'
<1> DEFINE t == RemoveAt(flight, i)
           r == Submit(op)
<1>1. /\ flight \in Seq(SellRequests) /\ ui \in SellUI
      /\ \A j \in 1..Len(flight) : UploadFits(flight[j])
  BY DEF SellInv, SellTypeOK
<1>2. /\ t \in Seq(SellRequests) /\ Len(t) = Len(flight) - 1 /\ Len(flight) \in Nat
      /\ \A j \in 1..(Len(flight) - 1) :
           t[j] = IF j < i THEN flight[j] ELSE flight[j + 1]
  BY <1>1, RemoveAtFacts, LenProperties
<1>3. /\ r \in SellRequests /\ r.op = op /\ r.op \in Chain /\ r.op # "upload"
      /\ ListingsSoFar(r) = 1
  BY DEF Submit, SellRequests, Chain, ListingsSoFar
<1>4. flight' = Append(t, r)
  OBVIOUS
<1> HIDE DEF t, r
<1>5. /\ flight' \in Seq(SellRequests) /\ Len(flight') = Len(flight)
      /\ flight'[Len(flight)] = r
      /\ \A j \in 1..(Len(flight) - 1) :
           flight'[j] = IF j < i THEN flight[j] ELSE flight[j + 1]
  BY <1>2, <1>3, <1>4
<1>6. ASSUME NEW k \in 1..Len(flight'), k # Len(flight)
      PROVE  \/ k < i /\ k \in 1..Len(flight) /\ flight'[k] = flight[k]
             \/ /\ ~(k < i) /\ k + 1 \in 1..Len(flight) /\ k + 1 # i
                /\ flight'[k] = flight[k + 1]
  BY <1>2, <1>5, <1>6
<1>7. \A k \in 1..Len(flight') : UploadFits(flight'[k])
  <2>1. UploadFits(r)
    BY <1>3 DEF UploadFits
  <2> QED
    BY <1>1, <1>5, <1>6, <2>1
<1>8. SellTypeOK'
  BY <1>5 DEF SellInv, SellTypeOK, ImagesApart
<1>9. ImagesInv'
  <2> SUFFICES ASSUME ~past.overlapped PROVE ImagesInv'
    BY DEF ImagesInv
  <2>1. /\ ToSet(ui.images) = past.wanted
        /\ \A k, l \in 1..Len(flight) :
             flight[k].op = "upload" /\ flight[l].op = "upload" => k = l
        /\ \A k \in 1..Len(flight) : flight[k].op = "upload" => flight[k].base = ui.images
    BY DEF SellInv, ImagesInv
  <2>2. ASSUME NEW k \in 1..Len(flight'), flight'[k].op = "upload" PROVE k # Len(flight)
    BY <1>3, <1>5, <2>2
  <2>3. ASSUME NEW k \in 1..Len(flight'), NEW l \in 1..Len(flight'),
               flight'[k].op = "upload", flight'[l].op = "upload"
        PROVE  k = l
    <3>1. /\ k # Len(flight) /\ l # Len(flight)
          /\ \A m, n \in 1..Len(flight) :
               flight[m].op = "upload" /\ flight[n].op = "upload" => m = n
      BY <2>1, <2>2, <2>3
    <3> DEFINE was(j) == IF j < i THEN j ELSE j + 1
    <3>2. /\ was(k) \in 1..Len(flight) /\ flight'[k] = flight[was(k)]
          /\ was(l) \in 1..Len(flight) /\ flight'[l] = flight[was(l)]
      BY <1>6, <3>1
    <3>3. was(k) = was(l)
      BY <2>3, <3>1, <3>2
    <3> QED
      BY <1>2, <1>5, <3>3
  <2>4. ASSUME NEW k \in 1..Len(flight'), flight'[k].op = "upload"
        PROVE  flight'[k].base = ui.images
    BY <1>6, <2>1, <2>2, <2>4
  <2> QED
    BY <2>1, <2>3, <2>4 DEF ImagesInv, ImagesApart
<1>10. FormInv'
  <2> SUFFICES ASSUME past.again = {} PROVE FormInv'
    BY DEF FormInv
  <2>1. /\ ui.isLoading /\ ~ui.leaving /\ server.listings = 1
        /\ \A k \in 1..Len(flight) : flight[k].op \in Chain => k = i
    BY DEF SellInv, FormInv, ListingsSoFar
  <2>2. ASSUME NEW k \in 1..Len(flight'), flight'[k].op \in Chain
        PROVE  k = Len(flight) /\ flight'[k] = r
    BY <1>2, <1>5, <1>6, <2>1, <2>2
  <2> QED
    BY <1>3, <2>1, <2>2 DEF FormInv
<1> QED
  BY <1>7, <1>8, <1>9, <1>10 DEF SellInv

\* The chain goes on, or ends with the page on its way out.
LEMMA ChainedInv ==
  ASSUME SellInv, NEW i \in DOMAIN flight, Chained(i)
  PROVE  SellInv'
<1>1. /\ i \in 1..Len(flight) /\ flight[i].op \in {"create", "pay", "me"}
      /\ flight[i].op \in Chain /\ flight[i].phase = "done"
      /\ UNCHANGED <<server, past>>
  BY SellRequestFacts DEF Chained, Chain
<1>2. /\ ui \in SellUI /\ past \in SellPast
      /\ ui.retries \in [{"create", "pay", "me"} -> 0 .. MaxRetries]
  BY DEF SellInv, SellTypeOK, SellUI
<1> DEFINE retries == Succeeded(flight[i].op)
<1>3. retries \in [{"create", "pay", "me"} -> 0 .. MaxRetries]
  BY <1>2, SellAssumption DEF Succeeded
<1>4. ASSUME NEW op \in Follow(flight[i].op),
             flight' = Append(RemoveAt(flight, i), Submit(op)),
             ui' = [ui EXCEPT !.retries = retries]
      PROVE  SellInv'
  <2>1. op \in {"pay", "me"}
    BY <1>4 DEF Follow
  <2> HIDE DEF retries
  <2>2. /\ ui' \in SellUI /\ ui'.images = ui.images
        /\ ui'.isLoading = ui.isLoading /\ ui'.leaving = ui.leaving
    BY <1>2, <1>3, <1>4 DEF SellUI
  <2>3. ImagesApart
    BY <1>1, <2>2 DEF ImagesApart
  <2> QED
    BY <1>1, <1>4, <2>1, <2>2, <2>3, FollowedInv
<1>5. CASE /\ flight[i].op \in {"pay", "me"} /\ Land(i)
           /\ ui' = [ui EXCEPT !.retries = retries, !.leaving = TRUE, !.isLoading = FALSE]
  <2> HIDE DEF retries
  <2>1. ui' \in SellUI /\ ui'.images = ui.images /\ ui'.leaving
    BY <1>2, <1>3, <1>5 DEF SellUI
  <2>2. ImagesApart /\ flight[i].op # "create"
    BY <1>1, <1>5, <2>1 DEF ImagesApart
  <2>3. NoLongerAwaited(i)
    BY <1>1, <1>5, EndsAwaited
  <2> QED
    BY <1>1, <1>2, <1>5, <2>1, <2>2, <2>3, EndInv
<1> QED
  BY <1>4, <1>5 DEF Chained

\* A request of the form fails: a reason, or the user was not needed.
LEMMA BrokenInv ==
  ASSUME SellInv, NEW i \in DOMAIN flight, Broken(i)
  PROVE  SellInv'
<1>1. /\ i \in 1..Len(flight) /\ flight[i].op \in {"create", "pay", "me"}
      /\ flight[i].op \in Chain
  BY SellRequestFacts DEF Broken, Chain
<1> DEFINE op == flight[i].op
           leaving == ui.leaving \/ op = "me"
           error == ui.apiError \/ op # "me"
           again == IF op = "me" THEN past.again ELSE past.again \cup {"error"}
<1>2. /\ ui \in SellUI /\ past \in SellPast
      /\ ui.retries \in [{"create", "pay", "me"} -> 0 .. MaxRetries]
  BY DEF SellInv, SellTypeOK, SellUI
<1>3. PICK n \in {ui.retries[op], 0} :
        ui' = [ui EXCEPT !.isLoading = FALSE, !.leaving = leaving,
                         !.apiError = error, !.retries[op] = n]
  BY DEF Broken
<1> DEFINE retries == [ui.retries EXCEPT ![op] = n]
<1>4. /\ ui' = [ui EXCEPT !.isLoading = FALSE, !.leaving = leaving,
                          !.apiError = error, !.retries = retries]
      /\ past' = [past EXCEPT !.again = again] /\ UNCHANGED server
      /\ Land(i) \/ (MayComeLate(flight[i]) /\ Return(i, GivenUp(flight[i])))
  BY <1>3 DEF Broken
<1>5. n \in 0 .. MaxRetries
  BY <1>1, <1>2, SellAssumption
<1>6. retries \in [{"create", "pay", "me"} -> 0 .. MaxRetries]
  BY <1>2, <1>5
<1>7. /\ again \in SUBSET {"error", "lost", "leaving"}
      /\ leaving \in BOOLEAN /\ error \in BOOLEAN
  BY <1>2 DEF SellPast
<1>8. again = {} => past.again = {} /\ leaving /\ op # "create"
  OBVIOUS
<1>9. op = flight[i].op
  OBVIOUS
<1> HIDE DEF op, retries, leaving, error, again
<1>10. ui' \in SellUI /\ ui'.images = ui.images /\ ui'.leaving = leaving
  BY <1>2, <1>4, <1>6, <1>7 DEF SellUI
<1>11. /\ past' \in SellPast /\ past'.overlapped = past.overlapped
       /\ past'.wanted = past.wanted /\ past'.again = again
  BY <1>2, <1>4, <1>7 DEF SellPast
<1>12. ImagesApart
  BY <1>10, <1>11 DEF ImagesApart
<1>13. NoLongerAwaited(i)
  BY <1>1, <1>4, GivenUpFacts, EndsAwaited
<1> QED
  BY <1>1, <1>4, <1>8, <1>9, <1>10, <1>11, <1>12, <1>13, EndInv

\* Every step of the page keeps the invariant.
LEMMA SellNextInv == SellInv /\ [SellNext]_pageVars => SellInv'
<1> SUFFICES ASSUME SellInv, [SellNext]_pageVars PROVE SellInv'
  OBVIOUS
<1>1. CASE UNCHANGED pageVars
  BY <1>1 DEF pageVars, SellInv, SellTypeOK, ImagesInv, FormInv
<1>2. CASE SellNext
  BY <1>2, HandleFilesInv, RemoveImageInv, FieldsInv, HandleSubmitInv, UploadedInv,
     UploadFailedInv, CreateListingInv, ServedInv, AgainInv, ChainedInv, BrokenInv
     DEF SellNext
<1> QED
  BY <1>1, <1>2

\* SellInv holds in every state of the page that offers a listing.
LEMMA SellInvariant == SellSpec => []SellInv
BY SellInitInv, SellNextInv, PTL DEF SellSpec

-----------------------------------------------------------------------------
\* The state of the page and of the server is of the kind they keep: in
\* particular a listing never has more images than it may, nor one twice, with
\* any number of uploads under way.
THEOREM SellTyped == SellSpec => []SellTypeOK
<1>1. SellInv => SellTypeOK
  BY DEF SellInv
<1> QED
  BY <1>1, SellInvariant, PTL

\* What the form promises is of its invariant.
LEMMA FormKeepsPromises == SellInv => ImagesAsWanted /\ OneListingPerForm
BY DEF SellInv, ImagesInv, FormInv, SellTypeOK, SellPast, SellServer, ImagesAsWanted,
   OneListingPerForm

\* The form holds the images the user uploaded and did not remove, but for
\* uploads that met another one or a removal.
THEOREM FormShowsWanted == SellSpec => []ImagesAsWanted
BY FormKeepsPromises, SellInvariant, PTL

\* A form makes one listing, however often its requests are sent again and
\* whichever of them are served after all, unless an error was shown, a listing
\* was made by a request whose answer the page never gets, or the button was
\* clicked on the way out.
THEOREM OneListing == SellSpec => []OneListingPerForm
BY FormKeepsPromises, SellInvariant, PTL

-----------------------------------------------------------------------------
\* The desk.

\* The edit page asks for its listing once and waits; then it has one form, and
\* one PUT at most, which carries the form as it is.
DeskForm ==
  /\ ui.loading => ui.form = Null
  /\ \A i \in 1..Len(flight) : flight[i].op = "load" => ui.loading
  /\ \A i \in 1..Len(flight) : flight[i].op = "put" =>
       "edit" \in ui.busy /\ ui.form # Null /\ flight[i].form = ui.form
  /\ \A i, j \in 1..Len(flight) :
       flight[i].op \in {"load", "put"} /\ flight[j].op \in {"load", "put"} => i = j

\* A stock and the units sold make up what the seller put up.
Supplied(stock, sold) == stock + sold = past.supply \/ "crossed" \in past.odd

\* So they do in the row, in an answer with the row, and in a form nobody changed.
DeskStock ==
  /\ Supplied(server.row.stock, server.sold)
  /\ \A i \in 1..Len(flight) : flight[i].op = "load" /\ flight[i].phase = "done" =>
       Supplied(flight[i].row.stock, flight[i].sold)
  /\ ui.form # Null => ui.form.touched \/ Supplied(ui.form.stock, ui.form.sold)

Unlucky == past.odd \cap {"swept", "failed"} # {}

\* The cleanup decides to delete the files of images that are out or lost only.
DeskImages ==
  /\ server.row.images \/ ImagesOut \/ "failed" \in past.odd
  /\ server.files \/ Unlucky
  /\ server.cleanup = "delete" => Unlucky

DeskDeleted ==
  "deleted" \in past.odd => server.row.status = "deleted" \/ "revived" \in past.odd

SomeActive == \E p \in DOMAIN server.pays : server.pays[p].active

\* An active boost was paid for, and is on the row; the row, and each copy of it a
\* PUT has made, is boosted by an active boost; a webhook has its transition.
DeskBoosts ==
  /\ \A p \in DOMAIN server.pays :
       LET pay == server.pays[p] IN
       /\ pay.status = "succeeded" => pay.active
       /\ pay.active =>
            /\ server.row.boosted \/ past.odd \cap {"inactive", "overwritten"} # {}
            /\ pay.status \in {"succeeded", "refunded"} \/ "raced" \in past.odd
  /\ server.row.boosted => SomeActive
  /\ \A i \in 1..Len(flight) : flight[i].op = "put" /\ flight[i].copy.boosted => SomeActive
  /\ \A k \in DOMAIN server.hooks :
       LET hook == server.hooks[k] IN
       hook.pay \in DOMAIN server.pays /\ ~Ignored(hook.seen, hook.to)

DeskInv ==
  DeskTypeOK /\ DeskForm /\ DeskStock /\ DeskImages /\ DeskDeleted /\ DeskBoosts

-----------------------------------------------------------------------------
\* The parts of the invariant when a step leaves alone what they are about.

LoadOrPut == {"load", "put"}

\* A step of something else keeps what is said of the form, its load and its PUT.
LEMMA DeskFormKept ==
  ASSUME DeskForm, CarriedOver(LoadOrPut), ui'.form = ui.form, ui'.loading = ui.loading,
         "edit" \in ui.busy => "edit" \in ui'.busy
  PROVE  DeskForm'
<1>1. PICK f : /\ \A k \in 1..Len(flight') : flight'[k].op \in LoadOrPut =>
                    f[k] \in 1..Len(flight) /\ flight'[k] = flight[f[k]]
               /\ \A k, l \in 1..Len(flight') :
                    flight'[k].op \in LoadOrPut /\ flight'[l].op \in LoadOrPut /\ f[k] = f[l] => k = l
  BY DEF CarriedOver
<1>2. ASSUME NEW k \in 1..Len(flight'), NEW l \in 1..Len(flight'),
             flight'[k].op \in LoadOrPut, flight'[l].op \in LoadOrPut
      PROVE  k = l
  <2>1. /\ f[k] \in 1..Len(flight) /\ flight[f[k]].op \in LoadOrPut
        /\ f[l] \in 1..Len(flight) /\ flight[f[l]].op \in LoadOrPut
    BY <1>1, <1>2
  <2>2. f[k] = f[l]
    BY <2>1 DEF DeskForm, LoadOrPut
  <2> QED
    BY <1>1, <1>2, <2>2
<1>3. ASSUME NEW k \in 1..Len(flight')
      PROVE  /\ flight'[k].op = "load" => ui.loading
             /\ flight'[k].op = "put" =>
                  "edit" \in ui.busy /\ ui.form # Null /\ flight'[k].form = ui.form
  <2> SUFFICES ASSUME flight'[k].op \in LoadOrPut
               PROVE  /\ flight'[k].op = "load" => ui.loading
                      /\ flight'[k].op = "put" =>
                           "edit" \in ui.busy /\ ui.form # Null /\ flight'[k].form = ui.form
    BY DEF LoadOrPut
  <2>1. f[k] \in 1..Len(flight) /\ flight'[k] = flight[f[k]]
    BY <1>1
  <2> QED
    BY <2>1 DEF DeskForm
<1> QED
  BY <1>2, <1>3 DEF DeskForm, LoadOrPut

\* It keeps that stock and units sold make up what was put up.
LEMMA DeskStockKept ==
  ASSUME DeskStock, CarriedOver(LoadOrPut), ui'.form = ui.form,
         server'.row.stock = server.row.stock, server'.sold = server.sold,
         past'.supply = past.supply, past.odd \subseteq past'.odd
  PROVE  DeskStock'
<1>1. \A a, b : Supplied(a, b) => Supplied(a, b)'
  BY DEF Supplied
<1>2. ASSUME NEW k \in 1..Len(flight'), flight'[k].op = "load",
             flight'[k].phase = "done"
      PROVE  Supplied(flight[k].row.stock, flight[k].sold)'
  <2>1. PICK l \in 1..Len(flight) : flight'[k] = flight[l]
    BY <1>2 DEF CarriedOver, LoadOrPut
  <2>2. Supplied(flight[l].row.stock, flight[l].sold)
    BY <1>2, <2>1 DEF DeskStock
  <2> QED
    BY <2>1, <2>2 DEF Supplied
<1>3. Supplied(server.row.stock, server.sold)'
  BY DEF DeskStock, Supplied
<1>4. (ui.form # Null => ui.form.touched \/ Supplied(ui.form.stock, ui.form.sold))'
  BY DEF DeskStock, Supplied
<1> QED
  BY <1>2, <1>3, <1>4 DEF DeskStock

\* It keeps what the cleanup may take to be unreferenced.
LEMMA DeskImagesKept ==
  ASSUME DeskImages, server'.row.images = server.row.images,
         server'.files = server.files, server'.cleanup = server.cleanup,
         past.odd \subseteq past'.odd,
         ImagesOut => ImagesOut' \/ "failed" \in past'.odd
  PROVE  DeskImages'
BY DEF DeskImages, Unlucky

\* It keeps a deletion.
LEMMA DeskDeletedKept ==
  ASSUME DeskDeleted, server'.row.status = server.row.status,
         past.odd \subseteq past'.odd, "deleted" \in past'.odd => "deleted" \in past.odd
  PROVE  DeskDeleted'
BY DEF DeskDeleted

\* It keeps that boosts were paid for.
LEMMA DeskBoostsKept ==
  ASSUME DeskBoosts, server'.pays = server.pays, server'.hooks = server.hooks,
         server'.row.boosted = server.row.boosted, past.odd \subseteq past'.odd,
         \A k \in 1..Len(flight') : flight'[k].op = "put" /\ flight'[k].copy.boosted =>
           SomeActive
  PROVE  DeskBoosts'
<1>1. SomeActive' <=> SomeActive
  BY DEF SomeActive
<1>2. (server.row.boosted => SomeActive)'
  BY <1>1 DEF DeskBoosts
<1>3. ASSUME NEW p \in DOMAIN server.pays
      PROVE  LET pay == server.pays[p] IN
             /\ pay.status = "succeeded" => pay.active
             /\ pay.active =>
                  /\ server'.row.boosted \/ past'.odd \cap {"inactive", "overwritten"} # {}
                  /\ pay.status \in {"succeeded", "refunded"} \/ "raced" \in past'.odd
  BY DEF DeskBoosts
<1> QED
  BY <1>1, <1>2, <1>3 DEF DeskBoosts

\* Copies of the row that are under way have been so before.
LEMMA DeskCopiesKept ==
  ASSUME DeskBoosts, CarriedOver(LoadOrPut)
  PROVE  \A k \in 1..Len(flight') : flight'[k].op = "put" /\ flight'[k].copy.boosted =>
           SomeActive
BY DEF DeskBoosts, CarriedOver, LoadOrPut

\* A step of the page alone that leaves its form, and sends nothing of it.
LEMMA PageStepInv ==
  ASSUME DeskInv, UNCHANGED <<server, past>>, flight' \in Seq(DeskRequests),
         CarriedOver(LoadOrPut), ImagesOut => ImagesOut',
         ui' \in DeskUI, ui'.form = ui.form, ui'.loading = ui.loading,
         "edit" \in ui.busy => "edit" \in ui'.busy
  PROVE  DeskInv'
<1>1. DeskTypeOK'
  BY DEF DeskInv, DeskTypeOK
<1>2. DeskForm' /\ DeskStock' /\ DeskDeleted' /\ DeskImages'
  BY DeskFormKept, DeskStockKept, DeskDeletedKept, DeskImagesKept DEF DeskInv
<1>3. DeskBoosts'
  BY DeskCopiesKept, DeskBoostsKept DEF DeskInv
<1> QED
  BY <1>1, <1>2, <1>3 DEF DeskInv

\* What is asked, a question withdrawn, the deletion and the boost confirmed.
LEMMA AskInv ==
  ASSUME DeskInv, Ask \/ CloseDialog \/ HandleDelete \/ HandleBoost
  PROVE  DeskInv'
<1>1. ui \in DeskUI /\ flight \in Seq(DeskRequests)
  BY DEF DeskInv, DeskTypeOK
<1>2. /\ UNCHANGED <<server, past>>
      /\ \E asking \in SUBSET {"delete", "boost"},
            busy \in SUBSET {"delete", "boost", "edit"} :
           /\ ui' = [ui EXCEPT !.asking = asking, !.busy = busy]
           /\ ui.busy \subseteq busy
  <2>1. CASE Ask
    <3>1. PICK what \in {"delete", "boost"} :
            ui' = [ui EXCEPT !.asking = ui.asking \cup {what}]
      BY <2>1 DEF Ask
    <3>2. ui' = [ui EXCEPT !.asking = ui.asking \cup {what}, !.busy = ui.busy]
      BY <1>1, <3>1 DEF DeskUI
    <3> QED
      BY <1>1, <2>1, <3>2 DEF Ask, Untold, DeskUI
  <2>2. CASE CloseDialog
    <3> DEFINE left == ui.asking \ (IF "boost" \in ui.asking THEN {"boost"} ELSE {"delete"})
    <3>1. ui' = [ui EXCEPT !.asking = left]
      BY <2>2 DEF CloseDialog
    <3>2. left \in SUBSET {"delete", "boost"}
      BY <1>1 DEF DeskUI
    <3> HIDE DEF left
    <3>3. ui' = [ui EXCEPT !.asking = left, !.busy = ui.busy]
      BY <1>1, <3>1 DEF DeskUI
    <3> QED
      BY <1>1, <2>2, <3>2, <3>3 DEF CloseDialog, Untold, DeskUI
  <2>3. CASE HandleDelete
    <3> DEFINE asking == ui.asking \ {"delete"}
               busy == ui.busy \cup {"delete"}
    <3>1. ui' = [ui EXCEPT !.asking = asking, !.busy = busy]
      BY <1>1, <2>3 DEF HandleDelete, DeskUI
    <3>2. /\ asking \in SUBSET {"delete", "boost"} /\ ui.busy \subseteq busy
          /\ busy \in SUBSET {"delete", "boost", "edit"}
      BY <1>1 DEF DeskUI
    <3> HIDE DEF asking, busy
    <3> QED
      BY <2>3, <3>1, <3>2 DEF HandleDelete, Untold
  <2>4. CASE HandleBoost
    <3> DEFINE asking == ui.asking
               busy == ui.busy \cup {"boost"}
    <3>1. ui' = [ui EXCEPT !.asking = asking, !.busy = busy]
      BY <1>1, <2>4 DEF HandleBoost, DeskUI
    <3>2. /\ asking \in SUBSET {"delete", "boost"} /\ ui.busy \subseteq busy
          /\ busy \in SUBSET {"delete", "boost", "edit"}
      BY <1>1 DEF DeskUI
    <3> HIDE DEF asking, busy
    <3> QED
      BY <2>4, <3>1, <3>2 DEF HandleBoost, Untold
  <2> QED
    BY <2>1, <2>2, <2>3, <2>4
<1>3. /\ ui' \in DeskUI /\ ui'.form = ui.form /\ ui'.loading = ui.loading
      /\ "edit" \in ui.busy => "edit" \in ui'.busy
  <2>1. PICK asking \in SUBSET {"delete", "boost"},
             busy \in SUBSET {"delete", "boost", "edit"} :
          ui' = [ui EXCEPT !.asking = asking, !.busy = busy] /\ ui.busy \subseteq busy
    BY <1>2
  <2>2. ui' \in DeskUI
    BY <1>1, <2>1 DEF DeskUI
  <2>3. ui'.form = ui.form /\ ui'.loading = ui.loading /\ ui'.busy = busy
    BY <1>1, <2>1 DEF DeskUI
  <2> QED
    BY <2>1, <2>2, <2>3
<1>4. /\ flight' \in Seq(DeskRequests) /\ CarriedOver(LoadOrPut)
      /\ ImagesOut => ImagesOut'
  <2>1. CASE Ask \/ CloseDialog
    <3>1. UNCHANGED flight
      BY <2>1 DEF Ask, CloseDialog
    <3> QED
      BY <1>1, <3>1, SameCarries DEF ImagesOut
  <2>2. CASE HandleDelete \/ HandleBoost
    <3>1. PICK r \in DeskRequests : Send(r) /\ r.op \notin LoadOrPut
      BY <2>2 DEF HandleDelete, HandleBoost, DeskRequests, LoadOrPut
    <3>2. /\ flight' \in Seq(DeskRequests) /\ CarriedOver(LoadOrPut)
          /\ Len(flight') = Len(flight) + 1
          /\ \A k \in 1..Len(flight) : flight'[k] = flight[k]
      BY <1>1, <3>1, SendCarries
    <3> QED
      BY <1>1, <3>2 DEF ImagesOut
  <2> QED
    BY <2>1, <2>2
<1> QED
  BY <1>2, <1>3, <1>4, PageStepInv

-----------------------------------------------------------------------------
\* When a request is answered that is no PUT between its two writes, one that was
\* there is still.
LEMMA LandImages ==
  ASSUME flight \in Seq(DeskRequests), NEW i \in 1..Len(flight), Land(i),
         ~(flight[i].op = "put" /\ flight[i].phase = "cleared"), ImagesOut
  PROVE  ImagesOut'
<1>1. PICK l \in 1..Len(flight) : flight[l].op = "put" /\ flight[l].phase = "cleared"
  BY DEF ImagesOut
<1>2. /\ flight' \in Seq(DeskRequests) /\ Len(flight') = Len(flight) - 1
      /\ \A j \in 1..(Len(flight) - 1) :
           flight'[j] = IF j < i THEN flight[j] ELSE flight[j + 1]
  BY RemoveAtFacts DEF Land
<1>3. l # i
  BY <1>1
<1>4. CASE l < i
  <2>1. l \in 1..(Len(flight) - 1)
    BY <1>4
  <2> QED
    BY <1>1, <1>2, <1>4, <2>1 DEF ImagesOut
<1>5. CASE ~(l < i)
  <2>1. l - 1 \in 1..(Len(flight) - 1) /\ ~(l - 1 < i) /\ (l - 1) + 1 = l
    BY <1>1, <1>3, <1>5
  <2>2. flight'[l - 1] = flight[l]
    BY <1>2, <2>1
  <2> QED
    BY <1>1, <1>2, <2>1, <2>2 DEF ImagesOut
<1> QED
  BY <1>4, <1>5

\* The answers to a deletion and to the payment of a boost.
LEMMA CardAnsweredInv ==
  ASSUME DeskInv, NEW i \in DOMAIN flight, Deleted(i) \/ Boosted(i)
  PROVE  DeskInv'
<1>1. ui \in DeskUI /\ flight \in Seq(DeskRequests) /\ i \in 1..Len(flight)
  BY DEF DeskInv, DeskTypeOK
<1>2. Land(i) /\ UNCHANGED <<server, past>> /\ flight[i].op \in {"delete", "boost"}
  BY DEF Deleted, Boosted, Untold
<1>3. /\ flight' \in Seq(DeskRequests) /\ CarriedOver(LoadOrPut)
      /\ ImagesOut => ImagesOut'
  BY <1>1, <1>2, LandCarries, LandImages
<1>4. PICK asking \in SUBSET {"delete", "boost"},
           busy \in SUBSET {"delete", "boost", "edit"},
           list \in Seq(Row), leaving \in BOOLEAN :
        /\ ui' = [ui EXCEPT !.asking = asking, !.busy = busy, !.list = list,
                            !.leaving = leaving]
        /\ "edit" \in ui.busy => "edit" \in busy
  <2>1. CASE Deleted(i)
    <3> DEFINE asking == ui.asking \ {"delete"}
               busy == ui.busy \ {"delete"}
               list == IF flight[i].phase = "done" THEN <<>> ELSE ui.list
               leaving == ui.leaving
    <3>1. ui' = [ui EXCEPT !.asking = asking, !.busy = busy, !.list = list,
                           !.leaving = leaving]
      BY <1>1, <2>1 DEF Deleted, DeskUI
    <3>2. /\ asking \in SUBSET {"delete", "boost"} /\ list \in Seq(Row)
          /\ busy \in SUBSET {"delete", "boost", "edit"} /\ leaving \in BOOLEAN
          /\ "edit" \in ui.busy => "edit" \in busy
      BY <1>1 DEF DeskUI
    <3> HIDE DEF asking, busy, list, leaving
    <3> QED
      BY <3>1, <3>2
  <2>2. CASE Boosted(i)
    <3> DEFINE asking == IF flight[i].phase = "done" THEN ui.asking \ {"boost"} ELSE ui.asking
               busy == ui.busy \ {"boost"}
               list == ui.list
               leaving == ui.leaving \/ flight[i].phase = "done"
    <3>1. ui' = [ui EXCEPT !.asking = asking, !.busy = busy, !.list = list,
                           !.leaving = leaving]
      BY <1>1, <2>2 DEF Boosted, DeskUI
    <3>2. /\ asking \in SUBSET {"delete", "boost"} /\ list \in Seq(Row)
          /\ busy \in SUBSET {"delete", "boost", "edit"}
          /\ "edit" \in ui.busy => "edit" \in busy
      BY <1>1 DEF DeskUI
    <3>3. leaving \in BOOLEAN
      OBVIOUS
    <3> HIDE DEF asking, busy, list, leaving
    <3> QED
      BY <3>1, <3>2, <3>3
  <2> QED
    BY <2>1, <2>2
<1>5. ui' \in DeskUI
  BY <1>1, <1>4 DEF DeskUI
<1>6. ui'.form = ui.form /\ ui'.loading = ui.loading /\ ui'.busy = busy
  BY <1>1, <1>4 DEF DeskUI
<1> QED
  BY <1>2, <1>3, <1>4, <1>5, <1>6, PageStepInv

\* Nothing is asked of the server about the listing while the form is changed.
LEMMA ChangeStockInv == DeskInv /\ ChangeStock => DeskInv'
<1> SUFFICES ASSUME DeskInv, ChangeStock PROVE DeskInv'
  OBVIOUS
<1>1. ui \in DeskUI /\ UNCHANGED <<server, past, flight>> /\ DeskTypeOK
  BY DEF DeskInv, DeskTypeOK, ChangeStock, Untold
<1>2. PICK n \in 0 .. MaxStock :
        ui' = [ui EXCEPT !.form.stock = n, !.form.touched = TRUE]
  BY DEF ChangeStock
<1>3. ui.form \in Form /\ ~ui.loading /\ "edit" \notin ui.busy
  BY <1>1 DEF ChangeStock, EditFields, EditShown, DeskUI
<1> DEFINE form == [ui.form EXCEPT !.stock = n, !.touched = TRUE]
<1>4. form \in Form /\ form.touched
  BY <1>3 DEF Form
<1>5. ui' = [ui EXCEPT !.form = form]
  BY <1>1, <1>2, <1>3 DEF DeskUI, Form
<1> HIDE DEF form
<1>6. ui' \in DeskUI /\ ui'.form = form /\ ui'.loading = ui.loading /\ ui'.busy = ui.busy
  BY <1>1, <1>4, <1>5 DEF DeskUI
<1>7. DeskTypeOK'
  BY <1>1, <1>6 DEF DeskTypeOK
<1>8. \A k \in 1..Len(flight) : flight[k].op # "load" /\ flight[k].op # "put"
  BY <1>3 DEF DeskInv, DeskForm
<1>9. DeskForm' /\ DeskStock'
  BY <1>1, <1>3, <1>4, <1>6, <1>8 DEF DeskInv, DeskForm, DeskStock, Supplied
<1>10. DeskImages' /\ DeskDeleted' /\ DeskBoosts'
  BY <1>1, <1>8, DeskImagesKept, DeskDeletedKept, DeskBoostsKept DEF DeskInv, ImagesOut
<1> QED
  BY <1>7, <1>9, <1>10 DEF DeskInv

-----------------------------------------------------------------------------
\* A load, or a PUT, has been answered: there is no other one.
LEMMA LandedAlone ==
  ASSUME DeskInv, NEW i \in DOMAIN flight, Land(i), flight[i].op \in LoadOrPut,
         ~(flight[i].op = "put" /\ flight[i].phase = "cleared")
  PROVE  /\ flight' \in Seq(DeskRequests) /\ (ImagesOut => ImagesOut')
         /\ \A k \in 1..Len(flight') : flight'[k].op # "load" /\ flight'[k].op # "put"
<1>1. flight \in Seq(DeskRequests) /\ i \in 1..Len(flight)
  BY DEF DeskInv, DeskTypeOK
<1>2. /\ flight' \in Seq(DeskRequests)
      /\ \A k \in 1..Len(flight') :
           \E l \in 1..Len(flight) : l # i /\ flight'[k] = flight[l]
  BY <1>1, LandCarries
<1>3. \A l \in 1..Len(flight) : l # i => flight[l].op # "load" /\ flight[l].op # "put"
  BY <1>1 DEF DeskInv, DeskForm, LoadOrPut
<1> QED
  BY <1>1, <1>2, <1>3, LandImages

\* With neither under way, a form with the stock of the row, or the one there was.
LEMMA AloneInv ==
  ASSUME DeskInv, UNCHANGED <<server, past>>, flight' \in Seq(DeskRequests),
         ImagesOut => ImagesOut',
         \A k \in 1..Len(flight') : flight'[k].op # "load" /\ flight'[k].op # "put",
         ui' \in DeskUI, ~ui'.loading,
         ui'.form # Null =>
           \/ ui'.form = ui.form
           \/ Supplied(ui'.form.stock, ui'.form.sold)
  PROVE  DeskInv'
<1>1. DeskTypeOK' /\ DeskForm'
  BY DEF DeskInv, DeskTypeOK, DeskForm
<1>2. DeskStock'
  BY DEF DeskInv, DeskStock, Supplied
<1>3. DeskImages' /\ DeskDeleted' /\ DeskBoosts'
  BY DeskImagesKept, DeskDeletedKept, DeskBoostsKept DEF DeskInv
<1> QED
  BY <1>1, <1>2, <1>3 DEF DeskInv

\* The answers to a load, and to a PUT.
LEMMA LoadAnsweredInv ==
  ASSUME DeskInv, NEW i \in DOMAIN flight,
         \/ ListingsLoaded(i) \/ FormLoaded(i) \/ DeskLoadFails(i) \/ EditAnswered(i)
  PROVE  DeskInv'
<1> DEFINE r == flight[i]
<1>1. /\ ui \in DeskUI /\ r \in DeskRequests /\ i \in 1..Len(flight)
      /\ Land(i) /\ UNCHANGED <<server, past>>
      /\ r.op \in LoadOrPut /\ ~(r.op = "put" /\ r.phase = "cleared")
  BY DEF DeskInv, DeskTypeOK, ListingsLoaded, FormLoaded, DeskLoadFails, EditAnswered,
         Untold, LoadOrPut
<1>2. /\ flight' \in Seq(DeskRequests) /\ (ImagesOut => ImagesOut')
      /\ \A k \in 1..Len(flight') : flight'[k].op # "load" /\ flight'[k].op # "put"
  BY <1>1, LandedAlone
<1>3. CASE ListingsLoaded(i)
  <2>1. r.row \in Row
    BY <1>1, <1>3 DEF ListingsLoaded, DeskRequests
  <2> DEFINE list == <<r.row>>
  <2>2. ui' = [ui EXCEPT !.list = list, !.loading = FALSE]
    BY <1>3 DEF ListingsLoaded
  <2> HIDE DEF r
  <2>3. list \in Seq(Row)
    BY <2>1
  <2> HIDE DEF list
  <2>4. ui' \in DeskUI /\ ~ui'.loading /\ ui'.form = ui.form
    BY <1>1, <2>2, <2>3 DEF DeskUI
  <2> QED
    BY <1>1, <1>2, <2>4, AloneInv
<1>4. CASE FormLoaded(i)
  <2> DEFINE form == [stock |-> r.row.stock, sold |-> r.sold, touched |-> FALSE]
  <2>1. r.op = "load" /\ r.phase = "done"
    BY <1>4 DEF FormLoaded
  <2>2. /\ form \in Form /\ Supplied(form.stock, form.sold)
    BY <1>1, <2>1 DEF DeskRequests, Row, Form, DeskInv, DeskStock
  <2>3. ui' = [ui EXCEPT !.form = form, !.loading = FALSE]
    BY <1>4 DEF FormLoaded
  <2> HIDE DEF r, form
  <2>4. ui' \in DeskUI /\ ~ui'.loading /\ ui'.form = form
    BY <1>1, <2>2, <2>3 DEF DeskUI
  <2> QED
    BY <1>1, <1>2, <2>2, <2>4, AloneInv
<1>5. CASE DeskLoadFails(i)
  <2>1. ui' = [ui EXCEPT !.loading = FALSE, !.error = TRUE]
    BY <1>5 DEF DeskLoadFails
  <2>2. ui' \in DeskUI /\ ~ui'.loading /\ ui'.form = ui.form
    BY <1>1, <2>1 DEF DeskUI
  <2> QED
    BY <1>1, <1>2, <2>2, AloneInv
<1>6. CASE EditAnswered(i)
  <2> DEFINE error == r.phase # "done"
             leaving == r.phase = "done"
  <2>1. ui' = [ui EXCEPT !.busy = {}, !.error = error, !.leaving = leaving]
    BY <1>6 DEF EditAnswered
  <2>2. error \in BOOLEAN /\ leaving \in BOOLEAN
    OBVIOUS
  <2>3. ~ui.loading
    BY <1>1, <1>6 DEF EditAnswered, DeskInv, DeskForm
  <2> HIDE DEF error, leaving, r
  <2>4. ui' \in DeskUI /\ ~ui'.loading /\ ui'.form = ui.form
    BY <1>1, <2>1, <2>2, <2>3 DEF DeskUI
  <2> QED
    BY <1>1, <1>2, <2>4, AloneInv
<1> QED
  BY <1>3, <1>4, <1>5, <1>6

\* A load, or a PUT, is sent: there is none yet.
LEMMA LoadSentInv ==
  ASSUME DeskInv, LoadListings \/ LoadListing \/ SubmitEdit
  PROVE  DeskInv'
<1>1. /\ ui \in DeskUI /\ flight \in Seq(DeskRequests) /\ DeskTypeOK
      /\ UNCHANGED <<server, past>>
  BY DEF DeskInv, DeskTypeOK, LoadListings, LoadListing, SubmitEdit, Untold
<1>2. \A k \in 1..Len(flight) : flight[k].op # "load" /\ flight[k].op # "put"
  <2>1. CASE LoadListings \/ LoadListing
    <3>1. ui.form = Null /\ ~UnderWay("load")
      BY <2>1 DEF LoadListings, LoadListing, DeskInv, DeskForm
    <3> QED
      BY <1>1, <3>1 DEF UnderWay, DeskInv, DeskForm
  <2>2. CASE SubmitEdit
    BY <2>2 DEF SubmitEdit, EditFields, EditShown, DeskInv, DeskForm
  <2> QED
    BY <2>1, <2>2
<1>3. /\ ui' \in DeskUI /\ ui'.form = ui.form /\ ui'.loading = ui.loading
      /\ SubmitEdit => ui'.busy = {"edit"} /\ ui.form \in Form
  <2>1. CASE LoadListings \/ LoadListing
    BY <1>1, <2>1 DEF LoadListings, LoadListing, SubmitEdit, EditFields, EditShown
  <2>2. CASE SubmitEdit
    BY <1>1, <2>2 DEF SubmitEdit, EditFields, EditShown, DeskUI
  <2> QED
    BY <2>1, <2>2
<1>4. PICK r \in DeskRequests :
        /\ Send(r)
        /\ \/ r.op = "load" /\ r.phase = "sent" /\ ui.loading
           \/ /\ r.op = "put" /\ r.form = ui.form /\ r.copy = server.row
              /\ ui.form # Null /\ ui'.busy = {"edit"} /\ r.phase = "sent"
  <2>1. CASE LoadListings \/ LoadListing
    <3> DEFINE r == [op |-> "load", phase |-> "sent", row |-> NewRow, sold |-> 0]
    <3>1. r \in DeskRequests
      BY DeskAssumption DEF DeskRequests, NewRow, Row
    <3>2. Send(r) /\ ui.loading
      BY <2>1 DEF LoadListings, LoadListing
    <3> QED
      BY <3>1, <3>2
  <2>2. CASE SubmitEdit
    <3> DEFINE r == [op |-> "put", phase |-> "sent", form |-> ui.form, copy |-> server.row]
    <3>1. r \in DeskRequests
      BY <1>1, <1>3, <2>2 DEF DeskRequests, DeskTypeOK, DeskServer
    <3>2. Send(r) /\ ui.form # Null
      BY <2>2 DEF SubmitEdit, EditFields, EditShown
    <3> QED
      BY <1>3, <2>2, <3>1, <3>2
  <2> QED
    BY <2>1, <2>2
<1>5. /\ flight' \in Seq(DeskRequests)
      /\ Len(flight') = Len(flight) + 1 /\ flight'[Len(flight) + 1] = r
      /\ \A k \in 1..Len(flight) : flight'[k] = flight[k]
  <2>1. r.op \notin {}
    OBVIOUS
  <2> QED
    BY <1>1, <1>4, <2>1, SendCarries
<1>6. ASSUME NEW k \in 1..Len(flight'), flight'[k].op \in LoadOrPut
      PROVE  flight'[k] = r /\ k = Len(flight) + 1
  <2>1. k \in 1..Len(flight) \/ k = Len(flight) + 1
    BY <1>5
  <2> QED
    BY <1>2, <1>5, <1>6, <2>1 DEF LoadOrPut
<1>7. DeskTypeOK'
  BY <1>1, <1>3, <1>5 DEF DeskTypeOK
<1>8. DeskForm'
  BY <1>3, <1>4, <1>6 DEF DeskForm, LoadOrPut, DeskInv
<1>9. DeskStock'
  <2>1. ASSUME NEW k \in 1..Len(flight')
        PROVE  ~(flight'[k].op = "load" /\ flight'[k].phase = "done")
    BY <1>4, <1>6 DEF LoadOrPut
  <2> QED
    BY <1>1, <1>3, <2>1 DEF DeskStock, DeskInv, Supplied
<1>10. DeskImages' /\ DeskDeleted'
  BY <1>1, <1>2, DeskImagesKept, DeskDeletedKept DEF DeskInv, ImagesOut
<1>11. DeskBoosts'
  <2>1. ASSUME NEW k \in 1..Len(flight'), flight'[k].op = "put", flight'[k].copy.boosted
        PROVE  SomeActive
    BY <1>4, <1>6, <2>1 DEF LoadOrPut, DeskInv, DeskBoosts
  <2> QED
    BY <1>1, <2>1, DeskBoostsKept DEF DeskInv
<1> QED
  BY <1>7, <1>8, <1>9, <1>10, <1>11 DEF DeskInv

-----------------------------------------------------------------------------
\* A request has been handled: it is the same request, on its way back.
LEMMA ReturnFacts ==
  ASSUME DeskInv, NEW i \in DOMAIN flight, NEW r \in DeskRequests, Return(i, r),
         r.op = flight[i].op, r.op = "put" => r.form = flight[i].form, UNCHANGED ui
  PROVE  /\ flight' \in Seq(DeskRequests) /\ i \in 1..Len(flight)
         /\ Len(flight') = Len(flight) /\ flight'[i] = r
         /\ \A k \in 1..Len(flight) : k # i => flight'[k] = flight[k]
         /\ DeskForm'
<1>1. flight \in Seq(DeskRequests) /\ i \in 1..Len(flight)
  BY DEF DeskInv, DeskTypeOK
<1>2. /\ flight' \in Seq(DeskRequests)
      /\ Len(flight') = Len(flight) /\ flight'[i] = r
      /\ \A k \in 1..Len(flight) : k # i => flight'[k] = flight[k]
  BY <1>1 DEF Return
<1>3. \A k \in 1..Len(flight) :
        /\ flight'[k].op = flight[k].op
        /\ flight'[k].op = "put" => flight'[k].form = flight[k].form
  BY <1>2
<1>4. DeskForm'
  BY <1>2, <1>3 DEF DeskInv, DeskForm
<1> QED
  BY <1>1, <1>2, <1>4

\* A load is answered with the row as it is.
LEMMA ServeLoadInv ==
  ASSUME DeskInv, NEW i \in DOMAIN flight, ServeLoad(i)
  PROVE  DeskInv'
<1> DEFINE r == [flight[i] EXCEPT !.phase = "done", !.row = server.row, !.sold = server.sold]
<1>1. /\ flight[i] \in DeskRequests /\ flight[i].op = "load" /\ DeskTypeOK
      /\ UNCHANGED <<ui, server, past>> /\ server.row \in Row /\ server.sold \in Nat
  BY DEF DeskInv, DeskTypeOK, ServeLoad, DeskServer
<1>2. /\ r \in DeskRequests /\ r.op = "load"
      /\ r.row = server.row /\ r.sold = server.sold
  BY <1>1 DEF DeskRequests
<1>3. Return(i, r)
  BY DEF ServeLoad
<1> HIDE DEF r
<1>4. /\ flight' \in Seq(DeskRequests) /\ i \in 1..Len(flight)
      /\ Len(flight') = Len(flight) /\ flight'[i] = r
      /\ \A k \in 1..Len(flight) : k # i => flight'[k] = flight[k]
      /\ DeskForm'
  BY <1>1, <1>2, <1>3, ReturnFacts
<1>5. DeskTypeOK'
  BY <1>1, <1>4 DEF DeskTypeOK
<1>6. DeskStock'
  BY <1>1, <1>2, <1>4 DEF DeskInv, DeskStock, Supplied
<1>7. ImagesOut => ImagesOut'
  <2>1. DOMAIN flight = 1..Len(flight) /\ DOMAIN flight' = 1..Len(flight')
    BY <1>1, <1>4 DEF DeskTypeOK
  <2> QED
    BY <1>1, <1>4, <2>1 DEF ImagesOut
<1>8. DeskImages' /\ DeskDeleted'
  BY <1>1, <1>7, DeskImagesKept, DeskDeletedKept DEF DeskInv
<1>9. DeskBoosts'
  BY <1>1, <1>2, <1>4, DeskBoostsKept DEF DeskInv, DeskBoosts
<1> QED
  BY <1>4, <1>5, <1>6, <1>8, <1>9 DEF DeskInv

\* The requests of the cards are handled: the listing is deleted, or there is one
\* more payment.
LEMMA CardServedInv ==
  ASSUME DeskInv, NEW i \in DOMAIN flight, SoftDelete(i) \/ CreateBoost(i)
  PROVE  DeskInv'
<1>1. /\ flight[i] \in DeskRequests /\ flight[i].op \in {"delete", "boost"}
      /\ DeskTypeOK /\ UNCHANGED <<ui, past>>
  <2>1. DeskTypeOK /\ flight[i] \in DeskRequests
    BY DEF DeskInv, DeskTypeOK
  <2>2. flight[i].op \in {"delete", "boost"} /\ UNCHANGED <<ui, past>>
    BY DEF SoftDelete, CreateBoost
  <2> QED
    BY <2>1, <2>2
<1>2. PICK phase \in {"done", "refused"} : Return(i, [flight[i] EXCEPT !.phase = phase])
  <2>1. CASE SoftDelete(i)
    BY <2>1 DEF SoftDelete
  <2>2. CASE CreateBoost(i)
    <3>1. PICK ok \in BOOLEAN :
            Return(i, [flight[i] EXCEPT !.phase = IF ok THEN "done" ELSE "refused"])
      BY <2>2 DEF CreateBoost
    <3> QED
      BY <3>1
  <2> QED
    BY <2>1, <2>2
<1> DEFINE r == [flight[i] EXCEPT !.phase = phase]
<1>3. r \in DeskRequests /\ r.op = flight[i].op
  BY <1>1 DEF DeskRequests
<1>4. Return(i, r)
  BY <1>2
<1> HIDE DEF r
<1>5. /\ flight' \in Seq(DeskRequests) /\ i \in 1..Len(flight)
      /\ Len(flight') = Len(flight) /\ flight'[i] = r
      /\ \A k \in 1..Len(flight) : k # i => flight'[k] = flight[k]
      /\ DeskForm'
  BY <1>1, <1>3, <1>4, ReturnFacts
<1>6. ImagesOut => ImagesOut'
  <2>1. DOMAIN flight = 1..Len(flight) /\ DOMAIN flight' = 1..Len(flight')
    BY <1>1, <1>5 DEF DeskTypeOK
  <2> QED
    BY <1>1, <1>5, <2>1 DEF ImagesOut
<1>7. /\ \A k \in 1..Len(flight') : flight'[k].op \in {"load", "put"} =>
           k \in 1..Len(flight) /\ flight'[k] = flight[k]
  BY <1>1, <1>3, <1>5
<1> DEFINE pays == Append(server.pays, [status |-> "pending", active |-> FALSE])
<1>8. /\ server' \in DeskServer /\ DeskDeleted' /\ DeskBoosts'
      /\ server'.row.stock = server.row.stock /\ server'.sold = server.sold
      /\ server'.row.images = server.row.images /\ server'.files = server.files
      /\ server'.cleanup = server.cleanup
  <2>1. CASE SoftDelete(i)
    <3>1. server' = [server EXCEPT !.row.status = "deleted"]
      BY <2>1 DEF SoftDelete
    <3>2. server' \in DeskServer
      BY <1>1, <3>1 DEF DeskTypeOK, DeskServer, Row
    <3>3. /\ server'.row.stock = server.row.stock /\ server'.sold = server.sold
          /\ server'.row.images = server.row.images /\ server'.files = server.files
          /\ server'.cleanup = server.cleanup /\ server'.row.status = "deleted"
          /\ server'.pays = server.pays /\ server'.hooks = server.hooks
          /\ server'.row.boosted = server.row.boosted
      BY <1>1, <3>1 DEF DeskTypeOK, DeskServer, Row
    <3>4. DeskBoosts'
      BY <1>1, <1>7, <3>3, DeskBoostsKept DEF DeskInv, DeskBoosts
    <3> QED
      BY <3>2, <3>3, <3>4 DEF DeskDeleted
  <2>2. CASE UNCHANGED server
    <3>1. DeskBoosts' /\ DeskDeleted'
      BY <1>1, <1>7, <2>2, DeskBoostsKept, DeskDeletedKept DEF DeskInv, DeskBoosts
    <3> QED
      BY <1>1, <2>2, <3>1 DEF DeskTypeOK
  <2>3. CASE server' = [server EXCEPT !.pays = pays]
    <3>1. server.pays \in Seq([status : PaymentStatus, active : BOOLEAN])
      BY <1>1 DEF DeskTypeOK, DeskServer
    <3>2. /\ pays \in Seq([status : PaymentStatus, active : BOOLEAN])
          /\ Len(pays) = Len(server.pays) + 1
          /\ \A p \in 1..Len(server.pays) : pays[p] = server.pays[p]
          /\ pays[Len(server.pays) + 1] = [status |-> "pending", active |-> FALSE]
      BY <3>1 DEF PaymentStatus
    <3> HIDE DEF pays
    <3>3. /\ server' \in DeskServer
          /\ server'.row = server.row /\ server'.sold = server.sold
          /\ server'.files = server.files /\ server'.cleanup = server.cleanup
          /\ server'.pays = pays /\ server'.hooks = server.hooks
      BY <1>1, <2>3, <3>2 DEF DeskTypeOK, DeskServer
    <3>4. /\ DOMAIN server.pays = 1..Len(server.pays)
          /\ DOMAIN server'.pays = 1..(Len(server.pays) + 1)
      BY <3>1, <3>2, <3>3
    <3>5. SomeActive => SomeActive'
      BY <3>2, <3>3, <3>4 DEF SomeActive
    <3>6. ASSUME NEW p \in DOMAIN server'.pays
          PROVE  LET pay == server'.pays[p] IN
                 /\ pay.status = "succeeded" => pay.active
                 /\ pay.active =>
                      /\ server'.row.boosted \/ past'.odd \cap {"inactive", "overwritten"} # {}
                      /\ pay.status \in {"succeeded", "refunded"} \/ "raced" \in past'.odd
      <4>1. CASE p \in DOMAIN server.pays
        BY <1>1, <3>2, <3>3, <3>4, <4>1 DEF DeskInv, DeskBoosts
      <4>2. CASE p = Len(server.pays) + 1
        BY <3>2, <3>3, <4>2
      <4> QED
        BY <3>1, <3>4, <4>1, <4>2
    <3>7. (server.row.boosted => SomeActive)'
      BY <3>3, <3>5 DEF DeskInv, DeskBoosts
    <3>8. (\A k \in 1..Len(flight) : flight[k].op = "put" /\ flight[k].copy.boosted =>
             SomeActive)'
      BY <1>7, <3>5 DEF DeskInv, DeskBoosts
    <3>9. (\A k \in DOMAIN server.hooks :
             LET hook == server.hooks[k] IN
             hook.pay \in DOMAIN server.pays /\ ~Ignored(hook.seen, hook.to))'
      <4>1. \A p \in DOMAIN server.pays : p \in DOMAIN server'.pays
        BY <3>1, <3>4
      <4> QED
        BY <3>3, <4>1 DEF DeskInv, DeskBoosts
    <3>10. DeskBoosts'
      BY <3>6, <3>7, <3>8, <3>9 DEF DeskBoosts
    <3> QED
      BY <1>1, <3>3, <3>10, DeskDeletedKept DEF DeskInv
  <2> QED
    BY <2>1, <2>2, <2>3 DEF CreateBoost
<1>9. DeskTypeOK'
  BY <1>1, <1>5, <1>8 DEF DeskTypeOK
<1>10. DeskStock' /\ DeskImages'
  <2>1. DeskStock'
    BY <1>1, <1>7, <1>8 DEF DeskInv, DeskStock, Supplied
  <2> QED
    BY <1>1, <1>6, <1>8, <2>1, DeskImagesKept DEF DeskInv
<1> QED
  BY <1>5, <1>8, <1>9, <1>10 DEF DeskInv

-----------------------------------------------------------------------------
\* A PUT that is handled goes on as the same PUT; no load is under way.
LEMMA PutFacts ==
  ASSUME DeskInv, NEW i \in DOMAIN flight, NEW r \in DeskRequests, Return(i, r),
         flight[i].op = "put", r.op = "put", r.form = flight[i].form, UNCHANGED ui
  PROVE  /\ flight' \in Seq(DeskRequests) /\ i \in 1..Len(flight)
         /\ Len(flight') = Len(flight) /\ flight'[i] = r
         /\ \A k \in 1..Len(flight) : k # i =>
              flight'[k] = flight[k] /\ flight[k].op # "load" /\ flight[k].op # "put"
         /\ DOMAIN flight = 1..Len(flight) /\ DOMAIN flight' = 1..Len(flight)
         /\ DeskForm' /\ ui.form # Null /\ r.form = ui.form
<1>1. /\ flight' \in Seq(DeskRequests) /\ i \in 1..Len(flight)
      /\ Len(flight') = Len(flight) /\ flight'[i] = r
      /\ \A k \in 1..Len(flight) : k # i => flight'[k] = flight[k]
      /\ DeskForm'
  BY ReturnFacts
<1>2. \A k \in 1..Len(flight) : k # i => flight[k].op # "load" /\ flight[k].op # "put"
  BY <1>1 DEF DeskInv, DeskForm
<1>3. ui.form # Null /\ r.form = ui.form
  BY <1>1 DEF DeskInv, DeskForm
<1>4. DOMAIN flight = 1..Len(flight) /\ DOMAIN flight' = 1..Len(flight')
  BY <1>1 DEF DeskInv, DeskTypeOK
<1> QED
  BY <1>1, <1>2, <1>3, <1>4

\* The row is read, or the PUT breaks off; a PUT that does so between its two
\* writes is remembered.
LEMMA PutReadInv ==
  ASSUME DeskInv, NEW i \in DOMAIN flight, UpdateReads(i) \/ UpdateFails(i)
  PROVE  DeskInv'
<1>1. /\ flight[i] \in DeskRequests /\ flight[i].op = "put" /\ DeskTypeOK
      /\ UNCHANGED <<ui, server>>
  BY DEF DeskInv, DeskTypeOK, UpdateReads, UpdateFails
<1>2. PICK r \in DeskRequests :
        /\ Return(i, r) /\ r.op = "put" /\ r.form = flight[i].form
        /\ r.copy = flight[i].copy \/ r.copy = server.row
  <2>1. CASE UpdateReads(i)
    <3> DEFINE r == [flight[i] EXCEPT !.phase = "read", !.copy = server.row]
    <3>1. /\ r \in DeskRequests /\ r.op = "put" /\ r.form = flight[i].form
          /\ r.copy = server.row
      BY <1>1 DEF DeskRequests, DeskTypeOK, DeskServer
    <3>2. Return(i, r)
      BY <2>1 DEF UpdateReads
    <3> QED
      BY <3>1, <3>2
  <2>2. CASE UpdateFails(i)
    <3> DEFINE r == [flight[i] EXCEPT !.phase = "refused"]
    <3>1. /\ r \in DeskRequests /\ r.op = "put" /\ r.form = flight[i].form
          /\ r.copy = flight[i].copy
      BY <1>1 DEF DeskRequests
    <3>2. Return(i, r)
      BY <2>2 DEF UpdateFails
    <3> QED
      BY <3>1, <3>2
  <2> QED
    BY <2>1, <2>2
<1>3. /\ flight' \in Seq(DeskRequests) /\ i \in 1..Len(flight)
      /\ Len(flight') = Len(flight) /\ flight'[i] = r
      /\ \A k \in 1..Len(flight) : k # i =>
           flight'[k] = flight[k] /\ flight[k].op # "load" /\ flight[k].op # "put"
      /\ DOMAIN flight = 1..Len(flight) /\ DOMAIN flight' = 1..Len(flight)
      /\ DeskForm'
  BY <1>1, <1>2, PutFacts
<1>4. /\ past' \in DeskPast /\ past.odd \subseteq past'.odd /\ past'.supply = past.supply
      /\ "deleted" \in past'.odd => "deleted" \in past.odd
      /\ UpdateFails(i) /\ flight[i].phase = "cleared" => "failed" \in past'.odd
  <2>1. CASE UpdateReads(i)
    <3>1. past' = past /\ flight[i].phase = "sent"
      BY <2>1 DEF UpdateReads
    <3> QED
      BY <1>1, <3>1 DEF DeskTypeOK
  <2>2. CASE UpdateFails(i)
    <3> DEFINE odd == IF flight[i].phase = "cleared" THEN past.odd \cup {"failed"} ELSE past.odd
    <3>1. past' = [past EXCEPT !.odd = odd]
      BY <2>2 DEF UpdateFails, Remember
    <3>2. /\ past.odd \subseteq odd /\ ("deleted" \in odd => "deleted" \in past.odd)
          /\ flight[i].phase = "cleared" => "failed" \in odd
          /\ odd \in SUBSET {"crossed", "overwritten", "raced", "inactive", "failed",
                             "deleted", "revived", "swept"}
      BY <1>1 DEF DeskTypeOK, DeskPast
    <3> HIDE DEF odd
    <3> QED
      BY <1>1, <3>1, <3>2 DEF DeskTypeOK, DeskPast
  <2> QED
    BY <2>1, <2>2
<1>5. ImagesOut => ImagesOut' \/ "failed" \in past'.odd
  <2>1. CASE UpdateReads(i)
    BY <1>3, <2>1 DEF UpdateReads, ImagesOut
  <2>2. CASE UpdateFails(i)
    BY <1>3, <1>4, <2>2 DEF ImagesOut
  <2> QED
    BY <2>1, <2>2
<1>6. DeskTypeOK'
  BY <1>1, <1>3, <1>4 DEF DeskTypeOK
<1>7. DeskStock'
  <2>1. ASSUME NEW k \in 1..Len(flight') PROVE flight'[k].op # "load"
    BY <1>2, <1>3
  <2> QED
    BY <1>1, <1>4, <2>1 DEF DeskInv, DeskStock, Supplied
<1>8. DeskImages' /\ DeskDeleted'
  BY <1>1, <1>4, <1>5, DeskImagesKept, DeskDeletedKept DEF DeskInv
<1>9. DeskBoosts'
  BY <1>1, <1>2, <1>3, <1>4, DeskBoostsKept DEF DeskInv, DeskBoosts
<1> QED
  BY <1>3, <1>6, <1>7, <1>8, <1>9 DEF DeskInv

\* The images are deleted: the PUT is between its two writes.
LEMMA ReplaceImagesInv ==
  ASSUME DeskInv, NEW i \in DOMAIN flight, ReplaceImages(i)
  PROVE  DeskInv'
<1> DEFINE r == [flight[i] EXCEPT !.phase = "cleared"]
<1>1. /\ flight[i] \in DeskRequests /\ flight[i].op = "put" /\ DeskTypeOK
      /\ UNCHANGED <<ui, past>> /\ server' = [server EXCEPT !.row.images = FALSE]
  BY DEF DeskInv, DeskTypeOK, ReplaceImages
<1>2. /\ r \in DeskRequests /\ r.op = "put" /\ r.form = flight[i].form
      /\ r.copy = flight[i].copy /\ r.phase = "cleared"
  BY <1>1 DEF DeskRequests
<1>3. Return(i, r)
  BY DEF ReplaceImages
<1> HIDE DEF r
<1>4. /\ flight' \in Seq(DeskRequests) /\ i \in 1..Len(flight)
      /\ Len(flight') = Len(flight) /\ flight'[i] = r
      /\ \A k \in 1..Len(flight) : k # i =>
           flight'[k] = flight[k] /\ flight[k].op # "load" /\ flight[k].op # "put"
      /\ DOMAIN flight = 1..Len(flight) /\ DOMAIN flight' = 1..Len(flight)
      /\ DeskForm'
  BY <1>1, <1>2, <1>3, PutFacts
<1>5. /\ server' \in DeskServer
      /\ server'.row.stock = server.row.stock /\ server'.sold = server.sold
      /\ server'.files = server.files /\ server'.cleanup = server.cleanup
      /\ server'.row.status = server.row.status
      /\ server'.pays = server.pays /\ server'.hooks = server.hooks
      /\ server'.row.boosted = server.row.boosted
  BY <1>1 DEF DeskTypeOK, DeskServer, Row
<1>6. ImagesOut'
  BY <1>2, <1>4 DEF ImagesOut
<1>7. DeskTypeOK'
  BY <1>1, <1>4, <1>5 DEF DeskTypeOK
<1>8. DeskStock'
  <2>1. ASSUME NEW k \in 1..Len(flight') PROVE flight'[k].op # "load"
    BY <1>2, <1>4
  <2> QED
    BY <1>1, <1>5, <2>1 DEF DeskInv, DeskStock, Supplied
<1>9. DeskImages' /\ DeskDeleted'
  BY <1>1, <1>5, <1>6 DEF DeskInv, DeskImages, DeskDeleted, Unlucky
<1>10. DeskBoosts'
  BY <1>1, <1>2, <1>4, <1>5, DeskBoostsKept DEF DeskInv, DeskBoosts
<1> QED
  BY <1>4, <1>7, <1>8, <1>9, <1>10 DEF DeskInv

\* The row is written as it was read, with the stock of the form, and new images.
LEMMA UpdateWritesInv ==
  ASSUME DeskInv, NEW i \in DOMAIN flight, UpdateWrites(i)
  PROVE  DeskInv'
<1> DEFINE put == flight[i]
           r == [put EXCEPT !.phase = "done"]
           row == UpdateDetails(put.copy, put.form)
           supply == IF put.form.touched THEN put.form.stock + server.sold ELSE past.supply
           odd == past.odd
                \cup (IF ~put.form.touched /\ put.form.sold # server.sold
                        THEN {"crossed"} ELSE {})
                \cup (IF put.copy.status # server.row.status THEN {"revived"} ELSE {})
                \cup (IF put.copy.boosted # server.row.boosted THEN {"overwritten"} ELSE {})
<1>1. /\ put \in DeskRequests /\ put.op = "put" /\ DeskTypeOK /\ UNCHANGED ui
      /\ server' = [server EXCEPT !.row = row]
      /\ past' = [supply |-> supply, odd |-> odd]
  BY DEF DeskInv, DeskTypeOK, UpdateWrites
<1>2. put.copy \in Row /\ put.form \in Form
  BY <1>1 DEF DeskRequests
<1>3. /\ r \in DeskRequests /\ r.op = "put" /\ r.form = put.form /\ r.copy = put.copy
  BY <1>1 DEF DeskRequests
<1>4. Return(i, r)
  BY DEF UpdateWrites
<1> HIDE DEF r
<1>5. /\ flight' \in Seq(DeskRequests) /\ i \in 1..Len(flight)
      /\ Len(flight') = Len(flight) /\ flight'[i] = r
      /\ \A k \in 1..Len(flight) : k # i =>
           flight'[k] = flight[k] /\ flight[k].op # "load" /\ flight[k].op # "put"
      /\ DOMAIN flight = 1..Len(flight) /\ DOMAIN flight' = 1..Len(flight)
      /\ DeskForm' /\ ui.form # Null /\ r.form = ui.form
  BY <1>1, <1>3, <1>4, PutFacts
<1>6. /\ row \in Row /\ row.stock = put.form.stock /\ row.images
      /\ row.boosted = put.copy.boosted /\ row.status = put.copy.status
  BY <1>2 DEF UpdateDetails, Row, Form
<1> HIDE DEF row
<1>7. /\ server' \in DeskServer /\ server'.row = row /\ server'.sold = server.sold
      /\ server'.files = server.files /\ server'.cleanup = server.cleanup
      /\ server'.pays = server.pays /\ server'.hooks = server.hooks
      /\ server.sold \in Nat /\ past.supply \in Nat
  BY <1>1, <1>6 DEF DeskTypeOK, DeskServer, DeskPast
<1>8. supply \in Nat /\ (put.form.touched => supply = put.form.stock + server.sold)
      /\ (~put.form.touched => supply = past.supply)
  BY <1>2, <1>7 DEF Form
<1>9. /\ odd \in SUBSET {"crossed", "overwritten", "raced", "inactive", "failed",
                         "deleted", "revived", "swept"}
      /\ past.odd \subseteq odd /\ ("deleted" \in odd => "deleted" \in past.odd)
      /\ ~put.form.touched /\ put.form.sold # server.sold => "crossed" \in odd
      /\ put.copy.status # server.row.status => "revived" \in odd
      /\ put.copy.boosted # server.row.boosted => "overwritten" \in odd
  BY <1>1 DEF DeskTypeOK, DeskPast
<1> HIDE DEF odd, supply
<1>10. past' \in DeskPast /\ past'.odd = odd /\ past'.supply = supply
  BY <1>1, <1>8, <1>9 DEF DeskPast
<1>11. DeskTypeOK'
  BY <1>1, <1>5, <1>7, <1>10 DEF DeskTypeOK
<1>12. DeskStock'
  <2>1. ASSUME NEW k \in 1..Len(flight') PROVE flight'[k].op # "load"
    BY <1>3, <1>5
  <2>2. put.form = ui.form
    BY <1>3, <1>5
  <2>3. CASE put.form.touched
    BY <1>1, <1>6, <1>7, <1>8, <1>10, <2>1, <2>2, <2>3 DEF DeskStock, Supplied
  <2>4. CASE ~put.form.touched
    <3>1. Supplied(put.form.stock, put.form.sold)
      BY <1>5, <2>2, <2>4 DEF DeskInv, DeskStock
    <3>2. Supplied(ui.form.stock, ui.form.sold)'
      BY <1>1, <1>8, <1>9, <1>10, <2>2, <2>4, <3>1 DEF Supplied
    <3>3. Supplied(server.row.stock, server.sold)'
      BY <1>6, <1>7, <1>8, <1>9, <1>10, <2>4, <3>1 DEF Supplied
    <3> QED
      BY <2>1, <3>2, <3>3 DEF DeskStock
  <2> QED
    BY <2>3, <2>4
<1>13. DeskImages'
  BY <1>6, <1>7, <1>9, <1>10 DEF DeskInv, DeskImages, Unlucky
<1>14. DeskDeleted'
  BY <1>6, <1>7, <1>9, <1>10 DEF DeskInv, DeskDeleted
<1>15. DeskBoosts'
  <2>1. SomeActive' <=> SomeActive
    BY <1>7 DEF SomeActive
  <2>2. put.copy.boosted => SomeActive
    BY <1>1, <1>5 DEF DeskInv, DeskBoosts
  <2>3. (server.row.boosted => SomeActive)'
    BY <1>6, <1>7, <2>1, <2>2
  <2>4. ASSUME NEW k \in 1..Len(flight'), flight'[k].op = "put", flight'[k].copy.boosted
        PROVE  SomeActive'
    BY <1>3, <1>5, <2>1, <2>2, <2>4
  <2>5. ASSUME NEW p \in DOMAIN server'.pays
        PROVE  LET pay == server'.pays[p] IN
               /\ pay.status = "succeeded" => pay.active
               /\ pay.active =>
                    /\ server'.row.boosted \/ past'.odd \cap {"inactive", "overwritten"} # {}
                    /\ pay.status \in {"succeeded", "refunded"} \/ "raced" \in past'.odd
    BY <1>6, <1>7, <1>9, <1>10 DEF DeskInv, DeskBoosts
  <2> QED
    BY <1>7, <2>3, <2>4, <2>5 DEF DeskInv, DeskBoosts
<1> QED
  BY <1>5, <1>11, <1>12, <1>13, <1>14, <1>15 DEF DeskInv

-----------------------------------------------------------------------------
\* What others do to the listing leaves the page, and its requests, alone.
LEMMA OthersFacts ==
  ASSUME DeskInv, UNCHANGED <<ui, flight>>
  PROVE  /\ DeskForm' /\ CarriedOver(LoadOrPut) /\ (ImagesOut <=> ImagesOut')
         /\ ui' \in DeskUI /\ flight' \in Seq(DeskRequests)
BY SameCarries, DeskFormKept DEF DeskInv, DeskTypeOK, ImagesOut

\* The listing is deleted in another tab.
LEMMA DeletedElsewhereInv == DeskInv /\ DeletedElsewhere => DeskInv'
<1> SUFFICES ASSUME DeskInv, DeletedElsewhere PROVE DeskInv'
  OBVIOUS
<1>1. /\ UNCHANGED <<ui, flight>> /\ server' = [server EXCEPT !.row.status = "deleted"]
      /\ past' = [past EXCEPT !.odd = @ \cup {"deleted"}] /\ DeskTypeOK
  BY DEF DeletedElsewhere, Remember, DeskInv
<1>2. /\ DeskForm' /\ CarriedOver(LoadOrPut) /\ (ImagesOut <=> ImagesOut')
      /\ ui' \in DeskUI /\ flight' \in Seq(DeskRequests)
  BY <1>1, OthersFacts
<1>3. /\ server' \in DeskServer
      /\ server'.row.stock = server.row.stock /\ server'.sold = server.sold
      /\ server'.row.images = server.row.images /\ server'.files = server.files
      /\ server'.cleanup = server.cleanup /\ server'.row.status = "deleted"
      /\ server'.pays = server.pays /\ server'.hooks = server.hooks
      /\ server'.row.boosted = server.row.boosted
  BY <1>1 DEF DeskTypeOK, DeskServer, Row
<1>4. past' \in DeskPast /\ past'.supply = past.supply /\ past.odd \subseteq past'.odd
  BY <1>1 DEF DeskTypeOK, DeskPast
<1>5. DeskTypeOK'
  BY <1>2, <1>3, <1>4 DEF DeskTypeOK
<1>6. DeskStock' /\ DeskImages' /\ DeskBoosts' /\ DeskDeleted'
  BY <1>1, <1>2, <1>3, <1>4, DeskStockKept, DeskImagesKept, DeskCopiesKept, DeskBoostsKept
     DEF DeskInv, DeskDeleted
<1> QED
  BY <1>2, <1>5, <1>6 DEF DeskInv

\* The cleanup looks whether the row refers to the files, and later deletes them.
LEMMA CleanupInv == DeskInv /\ (CleanupReads \/ CleanupDeletes) => DeskInv'
<1> SUFFICES ASSUME DeskInv, CleanupReads \/ CleanupDeletes PROVE DeskInv'
  OBVIOUS
<1>1. UNCHANGED <<ui, flight>> /\ DeskTypeOK
  BY DEF CleanupReads, CleanupDeletes, DeskInv
<1>2. /\ DeskForm' /\ CarriedOver(LoadOrPut) /\ (ImagesOut <=> ImagesOut')
      /\ ui' \in DeskUI /\ flight' \in Seq(DeskRequests)
  BY <1>1, OthersFacts
<1>3. PICK cleanup \in {"idle", "keep", "delete"}, files \in BOOLEAN,
           odd \in SUBSET {"crossed", "overwritten", "raced", "inactive", "failed",
                           "deleted", "revived", "swept"} :
        /\ server' = [server EXCEPT !.cleanup = cleanup, !.files = files]
        /\ past' = [past EXCEPT !.odd = odd]
        /\ past.odd \subseteq odd /\ ("deleted" \in odd => "deleted" \in past.odd)
        /\ files \/ odd \cap {"swept", "failed"} # {}
        /\ cleanup = "delete" => odd \cap {"swept", "failed"} # {}
  <2>1. CASE CleanupReads
    <3> DEFINE cleanup == IF Unreferenced THEN "delete" ELSE "keep"
               files == server.files
               odd == IF Unreferenced /\ ImagesOut THEN past.odd \cup {"swept"} ELSE past.odd
    <3>1. /\ server' = [server EXCEPT !.cleanup = cleanup]
          /\ past' = [past EXCEPT !.odd = odd]
      BY <2>1 DEF CleanupReads, Remember
    <3>2. /\ past.odd \subseteq odd /\ ("deleted" \in odd => "deleted" \in past.odd)
          /\ odd \in SUBSET {"crossed", "overwritten", "raced", "inactive", "failed",
                             "deleted", "revived", "swept"}
          /\ files \in BOOLEAN /\ cleanup \in {"idle", "keep", "delete"}
      BY <1>1 DEF DeskTypeOK, DeskPast, DeskServer
    <3>3. cleanup = "delete" => odd \cap {"swept", "failed"} # {}
      <4> SUFFICES ASSUME Unreferenced PROVE odd \cap {"swept", "failed"} # {}
        OBVIOUS
      <4>1. ImagesOut \/ "failed" \in past.odd
        BY DEF DeskInv, DeskImages, Unreferenced
      <4> QED
        BY <3>2, <4>1
    <3>4. files \/ odd \cap {"swept", "failed"} # {}
      BY <3>2 DEF DeskInv, DeskImages, Unlucky
    <3> HIDE DEF cleanup, odd
    <3>5. server' = [server EXCEPT !.cleanup = cleanup, !.files = files]
      BY <1>1, <3>1 DEF DeskTypeOK, DeskServer
    <3> HIDE DEF files
    <3> QED
      BY <3>1, <3>2, <3>3, <3>4, <3>5
  <2>2. CASE CleanupDeletes
    <3> DEFINE cleanup == "idle"
               files == server.files /\ server.cleanup = "keep"
               odd == past.odd
    <3>1. server' = [server EXCEPT !.cleanup = cleanup, !.files = files]
      BY <2>2 DEF CleanupDeletes
    <3>2. past' = [past EXCEPT !.odd = odd]
      BY <1>1, <2>2 DEF CleanupDeletes, DeskTypeOK, DeskPast
    <3>3. files \in BOOLEAN
      OBVIOUS
    <3>4. files \/ odd \cap {"swept", "failed"} # {}
      <4>1. server.cleanup \in {"keep", "delete"}
        BY <1>1, <2>2 DEF CleanupDeletes, DeskTypeOK, DeskServer
      <4> QED
        BY <4>1 DEF DeskInv, DeskImages, Unlucky
    <3> HIDE DEF files
    <3> QED
      BY <1>1, <3>1, <3>2, <3>3, <3>4 DEF DeskTypeOK, DeskPast
  <2> QED
    BY <2>1, <2>2
<1>4. /\ server' \in DeskServer /\ server'.row = server.row /\ server'.sold = server.sold
      /\ server'.files = files /\ server'.cleanup = cleanup
      /\ server'.pays = server.pays /\ server'.hooks = server.hooks
  BY <1>1, <1>3 DEF DeskTypeOK, DeskServer
<1>5. past' \in DeskPast /\ past'.supply = past.supply /\ past'.odd = odd
  BY <1>1, <1>3 DEF DeskTypeOK, DeskPast
<1>6. DeskTypeOK'
  BY <1>2, <1>4, <1>5 DEF DeskTypeOK
<1>7. DeskStock' /\ DeskBoosts' /\ DeskDeleted'
  BY <1>1, <1>2, <1>3, <1>4, <1>5, DeskStockKept, DeskDeletedKept, DeskCopiesKept, DeskBoostsKept
     DEF DeskInv
<1>8. DeskImages'
  BY <1>2, <1>3, <1>4, <1>5 DEF DeskInv, DeskImages, Unlucky
<1> QED
  BY <1>2, <1>6, <1>7, <1>8 DEF DeskInv

\* An order takes a unit, or gives one back: their sum stays what it was.
LEMMA UnitInv == DeskInv /\ (ReserveStock \/ ReleaseStock) => DeskInv'
<1> SUFFICES ASSUME DeskInv, ReserveStock \/ ReleaseStock PROVE DeskInv'
  OBVIOUS
<1>1. UNCHANGED <<ui, flight, past>> /\ DeskTypeOK
  BY DEF ReserveStock, ReleaseStock, DeskInv
<1>2. /\ DeskForm' /\ CarriedOver(LoadOrPut) /\ (ImagesOut <=> ImagesOut')
      /\ ui' \in DeskUI /\ flight' \in Seq(DeskRequests)
  BY <1>1, OthersFacts
<1>3. PICK stock \in 0 .. MaxStock, sold \in Nat :
        /\ server' = [server EXCEPT !.row.stock = stock, !.sold = sold]
        /\ stock + sold = server.row.stock + server.sold
  <2> DEFINE had == server.row.stock
             held == server.sold
  <2>1. had \in 0 .. MaxStock /\ held \in Nat
    BY <1>1 DEF DeskTypeOK, DeskServer, Row
  <2>2. CASE ReserveStock
    <3>1. server' = [server EXCEPT !.row.stock = had - 1, !.sold = held + 1] /\ had > 0
      BY <2>2 DEF ReserveStock
    <3> HIDE DEF had, held
    <3>2. had - 1 \in 0 .. MaxStock /\ held + 1 \in Nat /\ (had - 1) + (held + 1) = had + held
      BY <2>1, <3>1, DeskAssumption
    <3> QED
      BY <3>1, <3>2 DEF had, held
  <2>3. CASE ReleaseStock
    <3>1. /\ server' = [server EXCEPT !.row.stock = had + 1, !.sold = held - 1]
          /\ held > 0 /\ had < MaxStock
      BY <2>3 DEF ReleaseStock
    <3> HIDE DEF had, held
    <3>2. had + 1 \in 0 .. MaxStock /\ held - 1 \in Nat /\ (had + 1) + (held - 1) = had + held
      BY <2>1, <3>1, DeskAssumption
    <3> QED
      BY <3>1, <3>2 DEF had, held
  <2> QED
    BY <2>2, <2>3
<1>4. /\ server' \in DeskServer
      /\ server'.row.stock = stock /\ server'.sold = sold
      /\ server'.row.images = server.row.images /\ server'.files = server.files
      /\ server'.cleanup = server.cleanup /\ server'.row.status = server.row.status
      /\ server'.pays = server.pays /\ server'.hooks = server.hooks
      /\ server'.row.boosted = server.row.boosted
  BY <1>1, <1>3 DEF DeskTypeOK, DeskServer, Row
<1>5. DeskTypeOK'
  BY <1>1, <1>2, <1>4 DEF DeskTypeOK
<1>6. DeskStock'
  BY <1>1, <1>3, <1>4 DEF DeskInv, DeskStock, Supplied
<1>7. DeskImages' /\ DeskDeleted' /\ DeskBoosts'
  BY <1>1, <1>2, <1>4, DeskImagesKept, DeskDeletedKept, DeskCopiesKept, DeskBoostsKept DEF DeskInv
<1> QED
  BY <1>2, <1>5, <1>6, <1>7 DEF DeskInv

\* The webhook has read a payment: what it will write is a transition from there.
LEMMA WebhookReadsInv == DeskInv /\ WebhookReads => DeskInv'
<1> SUFFICES ASSUME DeskInv, WebhookReads PROVE DeskInv'
  OBVIOUS
<1>1. UNCHANGED <<ui, flight, past>> /\ DeskTypeOK
  BY DEF WebhookReads, DeskInv
<1>2. /\ DeskForm' /\ CarriedOver(LoadOrPut) /\ (ImagesOut <=> ImagesOut')
      /\ ui' \in DeskUI /\ flight' \in Seq(DeskRequests)
  BY <1>1, OthersFacts
<1> DEFINE Hook == [pay : Nat, to : PaymentStatus, seen : PaymentStatus]
<1>3. PICK p \in DOMAIN server.pays, to \in PaymentStatus :
        /\ ~Ignored(server.pays[p].status, to)
        /\ server' = [server EXCEPT !.hooks =
             Append(server.hooks, [pay |-> p, to |-> to, seen |-> server.pays[p].status])]
  BY DEF WebhookReads
<1> DEFINE hook == [pay |-> p, to |-> to, seen |-> server.pays[p].status]
           hooks == Append(server.hooks, hook)
<1>4. /\ server.hooks \in Seq(Hook)
      /\ server.pays \in Seq([status : PaymentStatus, active : BOOLEAN])
  BY <1>1 DEF DeskTypeOK, DeskServer
<1>5. hook \in Hook
  <2>1. p \in 1..Len(server.pays) /\ p \in Nat
    BY <1>4
  <2>2. server.pays[p] \in [status : PaymentStatus, active : BOOLEAN]
    BY <1>4, <2>1, ElementOfSeq
  <2> QED
    BY <2>1, <2>2
<1>6. hook.pay \in DOMAIN server.pays /\ ~Ignored(hook.seen, hook.to)
  BY <1>3
<1>7. server' = [server EXCEPT !.hooks = hooks]
  BY <1>3
<1> HIDE DEF hook
<1>8. /\ hooks \in Seq(Hook) /\ DOMAIN hooks = 1..(Len(server.hooks) + 1)
      /\ DOMAIN server.hooks = 1..Len(server.hooks)
      /\ hooks[Len(server.hooks) + 1] = hook
      /\ \A k \in 1..Len(server.hooks) : hooks[k] = server.hooks[k]
  BY <1>4, <1>5
<1>9. \A k \in DOMAIN hooks :
        hooks[k].pay \in DOMAIN server.pays /\ ~Ignored(hooks[k].seen, hooks[k].to)
  <2> SUFFICES ASSUME NEW k \in DOMAIN hooks
               PROVE  hooks[k].pay \in DOMAIN server.pays /\ ~Ignored(hooks[k].seen, hooks[k].to)
    OBVIOUS
  <2>1. Len(server.hooks) \in Nat
    BY <1>4
  <2>2. CASE k \in DOMAIN server.hooks
    <3>1. hooks[k] = server.hooks[k]
      BY <1>8, <2>2
    <3>2. /\ server.hooks[k].pay \in DOMAIN server.pays
          /\ ~Ignored(server.hooks[k].seen, server.hooks[k].to)
      BY <2>2 DEF DeskInv, DeskBoosts
    <3> QED
      BY <3>1, <3>2
  <2>3. CASE k = Len(server.hooks) + 1
    BY <1>6, <1>8, <2>3
  <2> QED
    BY <1>8, <2>1, <2>2, <2>3
<1> HIDE DEF hooks
<1>10. /\ server' \in DeskServer
       /\ server'.row = server.row /\ server'.sold = server.sold
       /\ server'.files = server.files /\ server'.cleanup = server.cleanup
       /\ server'.pays = server.pays /\ server'.hooks = hooks
  BY <1>1, <1>7, <1>8 DEF DeskTypeOK, DeskServer
<1>11. DeskTypeOK'
  BY <1>1, <1>2, <1>10 DEF DeskTypeOK
<1>12. DeskStock' /\ DeskImages' /\ DeskDeleted'
  BY <1>1, <1>2, <1>10, DeskStockKept, DeskImagesKept, DeskDeletedKept DEF DeskInv
<1>13. DeskBoosts'
  <2>1. SomeActive' <=> SomeActive
    BY <1>10 DEF SomeActive
  <2>2. \A k \in 1..Len(flight') : flight'[k].op = "put" /\ flight'[k].copy.boosted =>
          SomeActive
    BY <1>2, DeskCopiesKept DEF DeskInv
  <2> QED
    BY <1>1, <1>9, <1>10, <2>1, <2>2 DEF DeskInv, DeskBoosts
<1> QED
  BY <1>2, <1>11, <1>12, <1>13 DEF DeskInv

\* The webhook has written: the boost it activates is on the row of a listing that
\* is not deleted, and what it ends was paid for, unless another came between.
LEMMA WebhookWritesInv == DeskInv /\ WebhookWrites => DeskInv'
<1> SUFFICES ASSUME DeskInv, WebhookWrites PROVE DeskInv'
  OBVIOUS
<1>1. UNCHANGED <<ui, flight>> /\ DeskTypeOK
  BY DEF WebhookWrites, DeskInv
<1>2. /\ DeskForm' /\ CarriedOver(LoadOrPut) /\ (ImagesOut <=> ImagesOut')
      /\ ui' \in DeskUI /\ flight' \in Seq(DeskRequests)
  BY <1>1, OthersFacts
<1> DEFINE Hook == [pay : Nat, to : PaymentStatus, seen : PaymentStatus]
           Pay == [status : PaymentStatus, active : BOOLEAN]
           Paid(hook) == hook.to = "succeeded" /\ ~server.pays[hook.pay].active
           Alive == server.row.status = "active"
           New(hook) == [status |-> hook.to,
                         active |-> server.pays[hook.pay].active \/ Paid(hook)]
           Odd(hook) == past.odd
              \cup (IF server.pays[hook.pay].status # hook.seen THEN {"raced"} ELSE {})
              \cup (IF Paid(hook) /\ ~Alive THEN {"inactive"} ELSE {})
<1>3. PICK k \in DOMAIN server.hooks :
        /\ server' = [server EXCEPT
             !.hooks = RemoveAt(server.hooks, k),
             !.pays[server.hooks[k].pay] = New(server.hooks[k]),
             !.row.boosted = server.row.boosted \/ (Paid(server.hooks[k]) /\ Alive)]
        /\ past' = [past EXCEPT !.odd = Odd(server.hooks[k])]
  BY DEF WebhookWrites
<1> DEFINE hook == server.hooks[k]
           old == server.pays[hook.pay]
           new == New(hook)
           odd == Odd(hook)
           hooks == RemoveAt(server.hooks, k)
           pays == [server.pays EXCEPT ![hook.pay] = new]
           boosted == server.row.boosted \/ (Paid(hook) /\ Alive)
<1>4. /\ server.hooks \in Seq(Hook) /\ server.pays \in Seq(Pay)
      /\ k \in 1..Len(server.hooks) /\ hook \in Hook
  <2>1. server.hooks \in Seq(Hook) /\ server.pays \in Seq(Pay)
    BY <1>1 DEF DeskTypeOK, DeskServer
  <2>2. k \in 1..Len(server.hooks)
    BY <2>1
  <2>3. hook \in Hook
    BY <2>1, <2>2, ElementOfSeq
  <2> QED
    BY <2>1, <2>2, <2>3
<1>5. hook.pay \in DOMAIN server.pays /\ ~Ignored(hook.seen, hook.to)
  BY DEF DeskInv, DeskBoosts
<1>6. server' = [server EXCEPT !.hooks = hooks, !.pays = pays, !.row.boosted = boosted]
  BY <1>1, <1>3 DEF DeskTypeOK, DeskServer
<1>7. /\ old \in Pay /\ hook.to \in PaymentStatus /\ hook.pay \in 1..Len(server.pays)
      /\ DOMAIN server.pays = 1..Len(server.pays)
  <2>1. hook.pay \in 1..Len(server.pays) /\ DOMAIN server.pays = 1..Len(server.pays)
    BY <1>4, <1>5
  <2>2. old \in Pay
    BY <1>4, <2>1, ElementOfSeq
  <2>3. hook.to \in PaymentStatus
    <3> HIDE DEF hook
    <3> QED
      BY <1>4
  <2> QED
    BY <2>1, <2>2, <2>3
<1>8. /\ new \in Pay /\ new.status = hook.to /\ (old.active => new.active)
      /\ new.active /\ ~old.active => hook.to = "succeeded"
      /\ hook.to = "succeeded" => new.active
  BY <1>7
<1>9. /\ boosted \in BOOLEAN /\ (server.row.boosted => boosted)
      /\ boosted => server.row.boosted \/ new.active
      /\ new.active /\ ~old.active => boosted \/ "inactive" \in odd
  OBVIOUS
<1>10. /\ past.odd \subseteq odd /\ ("deleted" \in odd => "deleted" \in past.odd)
       /\ odd \in SUBSET {"crossed", "overwritten", "raced", "inactive", "failed",
                          "deleted", "revived", "swept"}
       /\ old.status # hook.seen => "raced" \in odd
  BY <1>1 DEF DeskTypeOK, DeskPast
<1>11. /\ hooks \in Seq(Hook)
       /\ \A j \in DOMAIN hooks : \E l \in DOMAIN server.hooks : hooks[j] = server.hooks[l]
  <2>1. /\ hooks \in Seq(Hook) /\ Len(hooks) = Len(server.hooks) - 1
        /\ \A j \in 1..(Len(server.hooks) - 1) :
             hooks[j] = IF j < k THEN server.hooks[j] ELSE server.hooks[j + 1]
    BY <1>4, RemoveAtFacts
  <2> HIDE DEF hooks
  <2>2. DOMAIN hooks = 1..Len(hooks) /\ DOMAIN server.hooks = 1..Len(server.hooks)
    BY <1>4, <2>1
  <2>3. ASSUME NEW j \in DOMAIN hooks
        PROVE  \E l \in DOMAIN server.hooks : hooks[j] = server.hooks[l]
    <3>1. j \in 1..(Len(server.hooks) - 1) /\ Len(server.hooks) \in Nat
      BY <1>4, <2>1, <2>2
    <3>2. j \in DOMAIN server.hooks /\ j + 1 \in DOMAIN server.hooks
      BY <2>2, <3>1
    <3> QED
      BY <2>1, <3>1, <3>2
  <2> QED
    BY <2>1, <2>3
<1>12. /\ pays \in Seq(Pay) /\ DOMAIN pays = DOMAIN server.pays
       /\ pays[hook.pay] = new
       /\ \A p \in DOMAIN server.pays : p # hook.pay => pays[p] = server.pays[p]
  <2> HIDE DEF new, hook
  <2> QED
    BY <1>4, <1>5, <1>7, <1>8
<1>13. past' = [past EXCEPT !.odd = odd]
  BY <1>3
<1> HIDE DEF hooks, pays, boosted, odd, new, old, hook
<1>14. /\ server' \in DeskServer
       /\ server'.row.stock = server.row.stock /\ server'.sold = server.sold
       /\ server'.row.images = server.row.images /\ server'.files = server.files
       /\ server'.cleanup = server.cleanup /\ server'.row.status = server.row.status
       /\ server'.pays = pays /\ server'.hooks = hooks /\ server'.row.boosted = boosted
  BY <1>1, <1>6, <1>9, <1>11, <1>12 DEF DeskTypeOK, DeskServer, Row
<1>15. past' \in DeskPast /\ past'.supply = past.supply /\ past'.odd = odd
  BY <1>1, <1>10, <1>13 DEF DeskTypeOK, DeskPast
<1>16. DeskTypeOK'
  BY <1>1, <1>2, <1>14, <1>15 DEF DeskTypeOK
<1>17. DeskStock' /\ DeskImages' /\ DeskDeleted'
  BY <1>1, <1>2, <1>10, <1>14, <1>15, DeskStockKept, DeskImagesKept, DeskDeletedKept DEF DeskInv
<1>18. DeskBoosts'
  <2>1. SomeActive => SomeActive'
    <3> SUFFICES ASSUME NEW p \in DOMAIN server.pays, server.pays[p].active
                 PROVE  pays[p].active
      BY <1>12, <1>14 DEF SomeActive
    <3>1. CASE p = hook.pay
      BY <1>8, <1>12, <3>1 DEF old
    <3>2. CASE p # hook.pay
      BY <1>12, <3>2
    <3> QED
      BY <3>1, <3>2
  <2>2. new.active => SomeActive'
    BY <1>5, <1>12, <1>14 DEF SomeActive
  <2>3. (server.row.boosted => SomeActive)'
    BY <1>9, <1>14, <2>1, <2>2 DEF DeskInv, DeskBoosts
  <2>4. (\A j \in 1..Len(flight) : flight[j].op = "put" /\ flight[j].copy.boosted =>
           SomeActive)'
    BY <1>2, <2>1, DeskCopiesKept DEF DeskInv
  <2>5. (\A j \in DOMAIN server.hooks :
           server.hooks[j].pay \in DOMAIN server.pays
             /\ ~Ignored(server.hooks[j].seen, server.hooks[j].to))'
    BY <1>11, <1>12, <1>14 DEF DeskInv, DeskBoosts
  <2>6. ASSUME NEW p \in DOMAIN server.pays
        PROVE  /\ pays[p].status = "succeeded" => pays[p].active
               /\ pays[p].active =>
                    /\ boosted \/ odd \cap {"inactive", "overwritten"} # {}
                    /\ pays[p].status \in {"succeeded", "refunded"} \/ "raced" \in odd
    <3> DEFINE was == server.pays[p]
    <3>1. /\ was.status = "succeeded" => was.active
          /\ was.active =>
               /\ boosted \/ odd \cap {"inactive", "overwritten"} # {}
               /\ was.status \in {"succeeded", "refunded"} \/ "raced" \in odd
      BY <1>9, <1>10 DEF DeskInv, DeskBoosts
    <3> HIDE DEF was
    <3>2. CASE p # hook.pay
      <4>1. pays[p] = was
        BY <1>12, <3>2 DEF was
      <4> QED
        BY <3>1, <4>1
    <3>3. CASE p = hook.pay
      <4>1. pays[p] = new /\ was = old
        BY <1>12, <3>3 DEF old, was
      <4>2. new.active => boosted \/ odd \cap {"inactive", "overwritten"} # {}
        BY <1>9, <3>1, <4>1
      <4>3. CASE old.active
        <5>1. \/ "raced" \in odd
              \/ old.status = hook.seen /\ old.status \in {"succeeded", "refunded"}
          <6>1. old.status # hook.seen => "raced" \in odd
            BY <1>10
          <6>2. old.status \in {"succeeded", "refunded"} \/ "raced" \in odd
            BY <3>1, <4>1, <4>3
          <6> QED
            BY <6>1, <6>2
        <5>2. old.status = hook.seen /\ old.status \in {"succeeded", "refunded"} =>
                hook.to = "refunded"
          BY <1>5 DEF Ignored
        <5> QED
          BY <1>8, <4>1, <4>2, <5>1, <5>2
      <4>4. CASE ~old.active
        BY <1>8, <4>1, <4>2, <4>4
      <4> QED
        BY <4>3, <4>4
    <3> QED
      BY <3>2, <3>3
  <2>7. (\A p \in DOMAIN server.pays :
           LET pay == server.pays[p] IN
           /\ pay.status = "succeeded" => pay.active
           /\ pay.active =>
                /\ server.row.boosted \/ past.odd \cap {"inactive", "overwritten"} # {}
                /\ pay.status \in {"succeeded", "refunded"} \/ "raced" \in past.odd)'
    BY <1>12, <1>14, <1>15, <2>6
  <2> QED
    BY <2>3, <2>4, <2>5, <2>7 DEF DeskBoosts
<1> QED
  BY <1>2, <1>16, <1>17, <1>18 DEF DeskInv

-----------------------------------------------------------------------------
\* The desk opens on a listing with its images, its whole stock and no boost.
LEMMA DeskInitInv == DeskInit => DeskInv
<1> SUFFICES ASSUME DeskInit PROVE DeskInv
  OBVIOUS
<1> DEFINE Pay == [status : PaymentStatus, active : BOOLEAN]
           pending == [status |-> "pending", active |-> FALSE]
<1>1. PICK at \in {"mine", "edit"}, pays \in {<<>>, <<pending>>} :
        /\ ui = [at |-> at, list |-> <<>>, form |-> Null, loading |-> TRUE, error |-> FALSE,
                 asking |-> {}, busy |-> {}, leaving |-> FALSE]
        /\ server = [row |-> NewRow, files |-> TRUE, sold |-> 0, cleanup |-> "idle",
                     pays |-> pays, hooks |-> <<>>]
  BY DEF DeskInit
<1>2. past = [supply |-> MaxStock, odd |-> {}] /\ flight = <<>>
  BY DEF DeskInit, Booted
<1>3. pending \in Pay
  BY DEF PaymentStatus
<1>4. pays \in Seq(Pay) /\ \A p \in DOMAIN pays : pays[p] = pending
  <2> HIDE DEF pending, Pay
  <2>1. <<pending>> \in Seq(Pay)
    BY <1>3
  <2>2. <<>> \in Seq(Pay)
    OBVIOUS
  <2>3. \A p \in DOMAIN <<pending>> : <<pending>>[p] = pending
    OBVIOUS
  <2>4. DOMAIN <<>> = {}
    OBVIOUS
  <2>5. CASE pays = <<>>
    BY <2>2, <2>4, <2>5
  <2>6. CASE pays = <<pending>>
    BY <2>1, <2>3, <2>6
  <2> QED
    BY <2>5, <2>6
<1>5. NewRow \in Row /\ NewRow.stock = MaxStock
  BY DeskAssumption DEF NewRow, Row
<1>6. /\ ui \in DeskUI /\ server \in DeskServer /\ past \in DeskPast
  <2>1. ui \in DeskUI
    BY <1>1 DEF DeskUI
  <2>2. server \in DeskServer
    BY <1>1, <1>4, <1>5 DEF DeskServer
  <2>3. past \in DeskPast
    BY <1>2, DeskAssumption DEF DeskPast
  <2> QED
    BY <2>1, <2>2, <2>3
<1>7. flight \in Seq(DeskRequests) /\ \A k \in 1..Len(flight) : FALSE
  BY <1>2
<1>8. DeskTypeOK /\ DeskForm
  BY <1>1, <1>6, <1>7 DEF DeskTypeOK, DeskForm
<1>9. DeskStock
  BY <1>1, <1>2, <1>5, <1>7, DeskAssumption DEF DeskStock, Supplied
<1>10. DeskImages /\ DeskDeleted
  BY <1>1, <1>2 DEF DeskImages, DeskDeleted, NewRow
<1>11. DeskBoosts
  <2>1. ~server.row.boosted
    BY <1>1 DEF NewRow
  <2>2. \A p \in DOMAIN server.pays : server.pays[p] = pending
    BY <1>1, <1>4
  <2>3. \A k \in DOMAIN server.hooks : FALSE
    BY <1>1
  <2> QED
    BY <1>7, <2>1, <2>2, <2>3 DEF DeskBoosts
<1> QED
  BY <1>8, <1>9, <1>10, <1>11 DEF DeskInv

\* Whatever the seller, the orders, the cleanup and the provider do next.
LEMMA DeskNextInv == DeskInv /\ [DeskNext]_pageVars => DeskInv'
<1> SUFFICES ASSUME DeskInv, [DeskNext]_pageVars PROVE DeskInv'
  OBVIOUS
<1>1. CASE UNCHANGED pageVars
  BY <1>1 DEF pageVars, DeskInv, DeskTypeOK, DeskForm, DeskStock, Supplied, DeskImages,
              ImagesOut, Unlucky, DeskDeleted, DeskBoosts, SomeActive
<1>2. CASE LoadListings \/ LoadListing \/ SubmitEdit
  BY <1>2, LoadSentInv
<1>3. CASE Ask \/ CloseDialog \/ HandleDelete \/ HandleBoost
  BY <1>3, AskInv
<1>4. CASE ChangeStock
  BY <1>4, ChangeStockInv
<1>5. CASE CleanupReads \/ CleanupDeletes
  BY <1>5, CleanupInv
<1>6. CASE ReserveStock \/ ReleaseStock
  BY <1>6, UnitInv
<1>7. CASE DeletedElsewhere
  BY <1>7, DeletedElsewhereInv
<1>8. CASE WebhookReads \/ WebhookWrites
  BY <1>8, WebhookReadsInv, WebhookWritesInv
<1>9. ASSUME NEW i \in DOMAIN flight,
             \/ ServeLoad(i) \/ SoftDelete(i) \/ CreateBoost(i)
             \/ UpdateReads(i) \/ ReplaceImages(i) \/ UpdateWrites(i) \/ UpdateFails(i)
             \/ ListingsLoaded(i) \/ FormLoaded(i) \/ DeskLoadFails(i)
             \/ Deleted(i) \/ Boosted(i) \/ EditAnswered(i)
      PROVE  DeskInv'
  <2>1. CASE ServeLoad(i) \/ SoftDelete(i) \/ CreateBoost(i)
    BY <2>1, ServeLoadInv, CardServedInv
  <2>2. CASE UpdateReads(i) \/ ReplaceImages(i) \/ UpdateWrites(i) \/ UpdateFails(i)
    BY <2>2, PutReadInv, ReplaceImagesInv, UpdateWritesInv
  <2>3. CASE \/ ListingsLoaded(i) \/ FormLoaded(i) \/ DeskLoadFails(i)
             \/ Deleted(i) \/ Boosted(i) \/ EditAnswered(i)
    BY <2>3, LoadAnsweredInv, CardAnsweredInv
  <2> QED
    BY <1>9, <2>1, <2>2, <2>3
<1> QED
  BY <1>1, <1>2, <1>3, <1>4, <1>5, <1>6, <1>7, <1>8, <1>9 DEF DeskNext

\* The desk keeps its invariant.
LEMMA DeskKeepsInv == DeskSpec => []DeskInv
BY DeskInitInv, DeskNextInv, PTL DEF DeskSpec

\* What the pages of a seller show and send, and what the server keeps of his
\* listing and its payments, has the form the model gives it.
THEOREM DeskTyped == DeskSpec => []DeskTypeOK
<1>1. DeskInv => DeskTypeOK
  BY DEF DeskInv
<1> QED
  BY <1>1, DeskKeepsInv, PTL

\* What the pages of a seller promise is of the invariant.
LEMMA DeskKeepsPromises == DeskInv => ListingExplained /\ BoostMatchesPayment
<1>1. DeskInv => ListingExplained
  BY DEF DeskInv, DeskStock, Supplied, DeskImages, Unlucky, DeskDeleted, ListingExplained
<1>2. DeskInv => BoostMatchesPayment
  BY DEF DeskInv, DeskBoosts, SomeActive, BoostMatchesPayment
<1> QED
  BY <1>1, <1>2

\* Whatever the stock and however long the desk is used, what PUT, the orders and
\* the cleanup do to a listing is explained: its stock and the units sold make up
\* what the seller put up, its images and their files are there and a deletion
\* lasts, but for the named crossings.
THEOREM ListingStaysExplained == DeskSpec => []ListingExplained
BY DeskKeepsPromises, DeskKeepsInv, PTL

\* However often and in whatever order the provider calls the webhook, the boosts
\* that are active are those that were paid for, and the listing is boosted if one
\* of them is and only then, but for the named crossings.
THEOREM BoostsStayPaid == DeskSpec => []BoostMatchesPayment
BY DeskKeepsPromises, DeskKeepsInv, PTL
=============================================================================
