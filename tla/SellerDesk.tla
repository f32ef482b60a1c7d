------------------------------ MODULE SellerDesk ------------------------------
(***************************************************************************)
(* The desk of a seller: the page of his listings, where he deletes one or *)
(* pays for its boost, and the page where he edits one.  One listing, its  *)
(* row and its payments on the server.  Meanwhile orders reserve and give  *)
(* back its stock, and the payment provider calls the webhook, as often    *)
(* and in whatever order it likes.                                         *)
(*                                                                         *)
(* PUT reads the row, deletes the images at once, and then writes every    *)
(* column of the copy it read; every other writer writes its own columns.  *)
(* The cleanup of uploads deletes the files nothing refers to: the images  *)
(* in question are older than its grace period, and none is the thumbnail. *)
(***************************************************************************)
EXTENDS Page

CONSTANT MaxStock

Row == [status : {"active", "deleted"}, stock : 0 .. MaxStock, boosted : BOOLEAN,
        images : BOOLEAN]     \* whether its images are stored

\* Failed stands for cancelled too, pending for an action that is required.
PaymentStatus == {"pending", "succeeded", "failed", "refunded"}

\* files: of its images; cleanup: what it has decided about them, between its read
\* and its deletion; sold: units orders hold; hooks: webhooks between their read and their write.
DeskServer ==
  [row : Row, files : BOOLEAN, sold : Nat,
   cleanup : {"idle", "keep", "delete"},
   pays : Seq([status : PaymentStatus, active : BOOLEAN]),
   hooks : Seq([pay : Nat, to : PaymentStatus, seen : PaymentStatus])]

\* The form is a copy of the row; sold is a ghost, the units held at its load.
Form == [stock : 0 .. MaxStock, sold : Nat, touched : BOOLEAN]

ASSUME DeskAssumption == MaxStock \in Nat /\ Null \notin Form

DeskUI ==
  [at : {"mine", "edit"},
   list : Seq(Row),             \* listings, of the page "mine"
   form : Form \cup {Null},     \* formData, of the page "edit"
   loading : BOOLEAN, error : BOOLEAN,
   asking : SUBSET {"delete", "boost"},         \* deleteId, boostListingId
   busy : SUBSET {"delete", "boost", "edit"},   \* deleting, boosting, submitting
   leaving : BOOLEAN]

DeskRequests ==
  [op : {"load"}, phase : {"sent", "done"}, row : Row, sold : Nat] \cup
  [op : {"delete", "boost"}, phase : {"sent", "done", "refused"}] \cup
  [op : {"put"}, phase : {"sent", "read", "cleared", "done", "refused"},
   form : Form, copy : Row]

\* supply: the units the seller put up; crossed: a sale, or its end, fell
\* between the load of a form and its write; overwritten: a boost fell between
\* the read and the write of a PUT; raced: two webhooks read one payment before
\* either wrote; inactive: a payment for a deleted listing succeeded; failed: a
\* PUT broke off after the images; deleted: the listing was, in another tab;
\* revived: between the read and the write of a PUT; swept: the cleanup looked for
\* references while a PUT had deleted and not yet written them.
DeskPast ==
  [supply : Nat,
   odd : SUBSET {"crossed", "overwritten", "raced", "inactive", "failed",
                 "deleted", "revived", "swept"}]

DeskTypeOK ==
  /\ ui \in DeskUI
  /\ server \in DeskServer
  /\ flight \in Seq(DeskRequests)
  /\ past \in DeskPast

NewRow == [status |-> "active", stock |-> MaxStock, boosted |-> FALSE, images |-> TRUE]

DeskInit ==
  /\ \E at \in {"mine", "edit"} :
       ui = [at |-> at, list |-> <<>>, form |-> Null, loading |-> TRUE, error |-> FALSE,
             asking |-> {}, busy |-> {}, leaving |-> FALSE]
  \* One payment for a boost may be under way already.
  /\ \E pays \in {<<>>, <<[status |-> "pending", active |-> FALSE]>>} :
       server = [row |-> NewRow, files |-> TRUE, sold |-> 0, cleanup |-> "idle",
                 pays |-> pays, hooks |-> <<>>]
  /\ past = [supply |-> MaxStock, odd |-> {}]
  /\ Booted

Remember(what, if) == past' = [past EXCEPT !.odd = IF if THEN @ \cup {what} ELSE @]

\* getListingStatus, and the buttons of a card.
ListingStatus(row) ==
  CASE row.status = "deleted" -> "deleted"
    [] row.status = "active" /\ row.stock = 0 -> "sold"
    [] OTHER -> "active"
CardShown == At("mine") /\ ~ui.loading /\ ui.list # <<>> /\ ListingStatus(ui.list[1]) # "deleted"

\* Above the cards; the one of a deletion hides while a deletion is under way.
DialogShown == "boost" \in ui.asking \/ ("delete" \in ui.asking /\ "delete" \notin ui.busy)

\* The edit page shows a spinner, or an error, until it has its listing; then
\* its form, the fields disabled while it is being sent.
EditShown == At("edit") /\ ~ui.loading /\ ui.form # Null
EditFields == EditShown /\ "edit" \notin ui.busy

AtDesk == At("mine") \/ At("edit")
-----------------------------------------------------------------------------
LoadListings ==
  /\ At("mine") /\ ui.loading /\ ~UnderWay("load")
  /\ Send([op |-> "load", phase |-> "sent", row |-> NewRow, sold |-> 0])
  /\ Untold /\ UNCHANGED <<ui, inputs>>

LoadListing ==
  /\ At("edit") /\ ui.loading /\ ~UnderWay("load")
  /\ Send([op |-> "load", phase |-> "sent", row |-> NewRow, sold |-> 0])
  /\ Untold /\ UNCHANGED <<ui, inputs>>

\* The confirmation of a deletion, and the dialog of a boost.
Ask ==
  /\ CardShown /\ ~DialogShown /\ Input
  /\ \E what \in {"delete", "boost"} :
       /\ what = "boost" => ListingStatus(ui.list[1]) = "active"
       /\ ui' = [ui EXCEPT !.asking = @ \cup {what}]
  /\ Untold /\ UNCHANGED flight

\* The dialog closes as soon as it is confirmed.
HandleDelete ==
  /\ At("mine") /\ DialogShown /\ "delete" \in ui.asking \ ui.busy
  /\ ui' = [ui EXCEPT !.busy = @ \cup {"delete"}, !.asking = @ \ {"delete"}]
  /\ Send([op |-> "delete", phase |-> "sent"])
  /\ Untold /\ UNCHANGED inputs

HandleBoost ==
  /\ At("mine") /\ "boost" \in ui.asking \ ui.busy
  /\ ui' = [ui EXCEPT !.busy = @ \cup {"boost"}]
  /\ Send([op |-> "boost", phase |-> "sent"])
  /\ Untold /\ UNCHANGED inputs

\* The stock of the form; its other fields, and its images, are as he likes.
ChangeStock ==
  /\ EditFields /\ Input
  /\ \E n \in 0 .. MaxStock : ui' = [ui EXCEPT !.form.stock = n, !.form.touched = TRUE]
  /\ Untold /\ UNCHANGED flight

SubmitEdit ==
  /\ EditFields /\ Input
  /\ ui' = [ui EXCEPT !.busy = {"edit"}, !.error = FALSE]
  /\ Send([op |-> "put", phase |-> "sent", form |-> ui.form, copy |-> server.row])
  /\ Untold
-----------------------------------------------------------------------------
ServeLoad(i) ==
  /\ AtDesk /\ flight[i].op = "load" /\ flight[i].phase = "sent"
  /\ Return(i, [flight[i] EXCEPT !.phase = "done", !.row = server.row, !.sold = server.sold])
  /\ UNCHANGED <<ui, server, past, inputs>>

SoftDelete(i) ==
  /\ AtDesk /\ flight[i].op = "delete" /\ flight[i].phase = "sent"
  /\ Return(i, [flight[i] EXCEPT !.phase = "done"])
  /\ server' = [server EXCEPT !.row.status = "deleted"]
  /\ UNCHANGED <<ui, past, inputs>>

\* The payment of an active listing in stock, unless something fails.
CreateBoost(i) == \E ok \in BOOLEAN :
  /\ AtDesk /\ flight[i].op = "boost" /\ flight[i].phase = "sent"
  /\ ok => server.row.status = "active" /\ server.row.stock > 0
  /\ Return(i, [flight[i] EXCEPT !.phase = IF ok THEN "done" ELSE "refused"])
  /\ server' = IF ok THEN [server EXCEPT !.pays =
                             Append(@, [status |-> "pending", active |-> FALSE])]
                     ELSE server
  /\ UNCHANGED <<ui, past, inputs>>

UpdateReads(i) ==
  /\ AtDesk /\ flight[i].op = "put" /\ flight[i].phase = "sent"
  /\ Return(i, [flight[i] EXCEPT !.phase = "read", !.copy = server.row])
  /\ UNCHANGED <<ui, server, past, inputs>>

ReplaceImages(i) ==
  /\ AtDesk /\ flight[i].op = "put" /\ flight[i].phase = "read"
  /\ Return(i, [flight[i] EXCEPT !.phase = "cleared"])
  /\ server' = [server EXCEPT !.row.images = FALSE]
  /\ UNCHANGED <<ui, past, inputs>>

\* Mutated: the stock is not taken from the form.
UpdateDetailsNoStock(copy, form) == [copy EXCEPT !.images = TRUE]

UpdateDetails(copy, form) == [copy EXCEPT !.stock = form.stock, !.images = TRUE]

UpdateWrites(i) ==
  LET r == flight[i] IN
  /\ AtDesk /\ r.op = "put" /\ r.phase = "cleared"
  /\ Return(i, [r EXCEPT !.phase = "done"])
  /\ server' = [server EXCEPT !.row = UpdateDetails(r.copy, r.form)]
  /\ past' = [supply |-> IF r.form.touched THEN r.form.stock + server.sold ELSE past.supply,
              odd |-> past.odd
                \cup (IF ~r.form.touched /\ r.form.sold # server.sold
                        THEN {"crossed"} ELSE {})
                \cup (IF r.copy.status # server.row.status THEN {"revived"} ELSE {})
                \cup (IF r.copy.boosted # server.row.boosted THEN {"overwritten"} ELSE {})]
  /\ UNCHANGED <<ui, inputs>>

UpdateFails(i) ==
  /\ AtDesk /\ flight[i].op = "put" /\ flight[i].phase \in {"read", "cleared"}
  /\ Return(i, [flight[i] EXCEPT !.phase = "refused"])
  /\ Remember("failed", flight[i].phase = "cleared")
  /\ UNCHANGED <<ui, server, inputs>>

DeletedElsewhere ==
  /\ At("edit") /\ inputs < MaxInput /\ inputs' = inputs + 1
  /\ server.row.status = "active"
  /\ server' = [server EXCEPT !.row.status = "deleted"]
  /\ Remember("deleted", TRUE)
  /\ UNCHANGED <<ui, flight>>

\* Mutated: a file is kept only for its thumbnail.
UnreferencedNoImages == TRUE

Unreferenced == ~server.row.images

\* A PUT between its two writes.
ImagesOut == \E i \in DOMAIN flight : flight[i].op = "put" /\ flight[i].phase = "cleared"

CleanupReads ==
  /\ AtDesk /\ inputs < MaxInput /\ inputs' = inputs + 1
  /\ server.cleanup = "idle"
  /\ server' = [server EXCEPT !.cleanup = IF Unreferenced THEN "delete" ELSE "keep"]
  /\ Remember("swept", Unreferenced /\ ImagesOut)
  /\ UNCHANGED <<ui, flight>>

CleanupDeletes ==
  /\ AtDesk /\ server.cleanup # "idle"
  /\ server' = [server EXCEPT !.cleanup = "idle",
                              !.files = @ /\ server.cleanup = "keep"]
  /\ UNCHANGED <<ui, flight, past, inputs>>

\* Orders, one unit at a time: an update of the stock column alone.
ReserveStock ==
  /\ AtDesk /\ inputs < MaxInput /\ inputs' = inputs + 1
  /\ server.row.status = "active" /\ server.row.stock > 0
  /\ server' = [server EXCEPT !.row.stock = @ - 1, !.sold = @ + 1]
  /\ UNCHANGED <<ui, flight, past>>

ReleaseStock ==
  /\ AtDesk /\ inputs < MaxInput /\ inputs' = inputs + 1
  /\ server.sold > 0 /\ server.row.stock < MaxStock
  /\ server' = [server EXCEPT !.row.stock = @ + 1, !.sold = @ - 1]
  /\ UNCHANGED <<ui, flight, past>>

\* Mutated: whatever is new is written.
IgnoredSame(status, to) == status = to

\* The webhook reads the payment; what it may not change, it does not.
Ignored(status, to) ==
  \/ status = to
  \/ status = "succeeded" /\ to # "refunded"
  \/ status \in {"failed", "refunded"}

WebhookReads ==
  /\ AtDesk /\ inputs < MaxInput /\ inputs' = inputs + 1
  /\ \E p \in DOMAIN server.pays, to \in PaymentStatus :
       /\ ~Ignored(server.pays[p].status, to)
       /\ server' = [server EXCEPT !.hooks =
                       Append(@, [pay |-> p, to |-> to, seen |-> server.pays[p].status])]
  /\ UNCHANGED <<ui, flight, past>>

\* A boost is activated once; the listing of a deleted one is not boosted.
WebhookWrites ==
  /\ AtDesk
  /\ \E k \in DOMAIN server.hooks :
       LET hook == server.hooks[k]
           old == server.pays[hook.pay]
           paid == hook.to = "succeeded" /\ ~old.active
           active == server.row.status = "active" IN
       /\ server' =
            [server EXCEPT
               !.hooks = RemoveAt(@, k),
               !.pays[hook.pay] = [status |-> hook.to, active |-> old.active \/ paid],
               !.row.boosted = @ \/ (paid /\ active)]
       /\ past' = [past EXCEPT !.odd = @
                     \cup (IF old.status # hook.seen THEN {"raced"} ELSE {})
                     \cup (IF paid /\ ~active THEN {"inactive"} ELSE {})]
  /\ UNCHANGED <<ui, flight, inputs>>
-----------------------------------------------------------------------------
ListingsLoaded(i) ==
  /\ At("mine") /\ flight[i].op = "load" /\ flight[i].phase = "done"
  /\ ui' = [ui EXCEPT !.list = <<flight[i].row>>, !.loading = FALSE]
  /\ Land(i)
  /\ Untold /\ UNCHANGED inputs

FormLoaded(i) ==
  LET r == flight[i] IN
  /\ At("edit") /\ r.op = "load" /\ r.phase = "done"
  /\ ui' = [ui EXCEPT !.form = [stock |-> r.row.stock, sold |-> r.sold, touched |-> FALSE],
                      !.loading = FALSE]
  /\ Land(i)
  /\ Untold /\ UNCHANGED inputs

DeskLoadFails(i) ==
  /\ AtDesk /\ flight[i].op = "load"
  /\ ui' = [ui EXCEPT !.loading = FALSE, !.error = TRUE]
  /\ Land(i)
  /\ Untold /\ UNCHANGED inputs

\* Either way a deletion forgets whatever was to be deleted next; a payment
\* that was begun closes the dialog of boosts and leaves for the provider.
Deleted(i) ==
  LET r == flight[i] IN
  /\ At("mine") /\ r.op = "delete"
  /\ ui' = [ui EXCEPT !.busy = @ \ {"delete"}, !.asking = @ \ {"delete"},
                      !.list = IF r.phase = "done" THEN <<>> ELSE @]
  /\ Land(i)
  /\ Untold /\ UNCHANGED inputs

Boosted(i) ==
  LET r == flight[i] IN
  /\ At("mine") /\ r.op = "boost"
  /\ ui' = [ui EXCEPT !.busy = @ \ {"boost"}, !.leaving = @ \/ r.phase = "done",
                      !.asking = IF r.phase = "done" THEN @ \ {"boost"} ELSE @]
  /\ Land(i)
  /\ Untold /\ UNCHANGED inputs

CloseDialog ==
  /\ At("mine") /\ DialogShown
  /\ ui' = [ui EXCEPT !.asking = @ \ (IF "boost" \in @ THEN {"boost"} ELSE {"delete"})]
  /\ Untold /\ UNCHANGED <<flight, inputs>>

EditAnswered(i) ==
  LET r == flight[i] IN
  /\ At("edit") /\ r.op = "put" /\ r.phase \in {"sent", "done", "refused"}
  /\ ui' = [ui EXCEPT !.busy = {}, !.error = r.phase # "done",
                      !.leaving = r.phase = "done"]
  /\ Land(i)
  /\ Untold /\ UNCHANGED inputs

DeskNext ==
  \/ LoadListings \/ LoadListing \/ Ask \/ HandleDelete \/ HandleBoost \/ CloseDialog
  \/ ChangeStock \/ SubmitEdit
  \/ CleanupReads \/ CleanupDeletes
  \/ ReserveStock \/ ReleaseStock \/ DeletedElsewhere \/ WebhookReads \/ WebhookWrites
  \/ \E i \in DOMAIN flight : ServeLoad(i)
  \/ \E i \in DOMAIN flight : SoftDelete(i)
  \/ \E i \in DOMAIN flight : CreateBoost(i)
  \/ \E i \in DOMAIN flight : UpdateReads(i)
  \/ \E i \in DOMAIN flight : ReplaceImages(i)
  \/ \E i \in DOMAIN flight : UpdateWrites(i)
  \/ \E i \in DOMAIN flight : UpdateFails(i)
  \/ \E i \in DOMAIN flight : ListingsLoaded(i)
  \/ \E i \in DOMAIN flight : FormLoaded(i)
  \/ \E i \in DOMAIN flight : DeskLoadFails(i)
  \/ \E i \in DOMAIN flight : Deleted(i)
  \/ \E i \in DOMAIN flight : Boosted(i)
  \/ \E i \in DOMAIN flight : EditAnswered(i)

DeskSpec == DeskInit /\ [][DeskNext]_pageVars
-----------------------------------------------------------------------------
\* The stock of a listing and the units its orders hold make up what the seller
\* put up, its images are stored, the cleanup leaves their files, and once deleted
\* it stays so, but for the weak points of PUT: the form carries a stock that may
\* be old, the images go before the row is written, and are missed by a cleanup
\* that looks then, and the row is written as it was read.
ListingExplained ==
  AtDesk =>
    /\ server.row.stock + server.sold = past.supply \/ "crossed" \in past.odd
    /\ server.row.images \/ ImagesOut \/ "failed" \in past.odd
    /\ server.row.images => server.files \/ past.odd \cap {"swept", "failed"} # {}
    /\ "deleted" \in past.odd =>
         server.row.status = "deleted" \/ "revived" \in past.odd

\* A boost that was paid for is active and its listing boosted, and no other
\* one is, whatever the webhook delivers, how often and in what order; the
\* exceptions are a listing deleted before, a PUT that writes back the row it
\* read, and two webhooks at the same moment.
BoostMatchesPayment ==
  AtDesk =>
    /\ \A p \in DOMAIN server.pays :
         LET pay == server.pays[p] IN
         /\ pay.status = "succeeded" =>
              /\ pay.active
              /\ server.row.boosted \/ past.odd \cap {"inactive", "overwritten"} # {}
         /\ pay.active => pay.status \in {"succeeded", "refunded"} \/ "raced" \in past.odd
    /\ server.row.boosted => \E p \in DOMAIN server.pays : server.pays[p].active
=============================================================================
