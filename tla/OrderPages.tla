------------------------------ MODULE OrderPages ------------------------------
(***************************************************************************)
(* The pages of the orders: the seller's sales, the buyer's purchases, and *)
(* the page of one order.  The first two are lists, page by page (a page   *)
(* holds one order here); the seller moves an order on from its card.  The *)
(* page of an order is reached from both lists and does not ask which of   *)
(* the two is looking: it offers a cancellation, which is the buyer's, to  *)
(* both.  Meanwhile the other party, or the same user in another tab,      *)
(* moves orders too.  Admins, who may do everything, are left out.         *)
(***************************************************************************)
EXTENDS Page

CONSTANTS
  OrderCount,   \* the orders of the user: 1 .. OrderCount, newest first
  Tabs          \* filters the user picks, "all" or a status

ASSUME OrdersAssumption == OrderCount \in Nat /\ "all" \in Tabs

OrderIds == 1 .. OrderCount

\* The statuses of the server, and those the pages show.
ServerStatuses == {"Pending", "Paid", "Shipped", "Completed", "Cancelled"}
OrderStatuses == {"pending", "confirmed", "shipped", "delivered", "cancelled"}

NormalizeStatus ==
  [Pending |-> "pending", Paid |-> "confirmed", Shipped |-> "shipped",
   Completed |-> "delivered", Cancelled |-> "cancelled"]

ToBackendStatus ==
  [pending |-> "Pending", confirmed |-> "Paid", shipped |-> "Shipped",
   delivered |-> "Completed", cancelled |-> "Cancelled"]

IsAllowedTransition(from, to) ==
  \/ from = "Pending" /\ to \in {"Paid", "Cancelled"}
  \/ from = "Paid" /\ to \in {"Shipped", "Cancelled"}
  \/ from = "Shipped" /\ to = "Completed"

Rows == [id : OrderIds, status : OrderStatuses]

\* Who looks at a page: the sales are the seller's, the purchases the buyer's.
Parties(at) ==
  CASE at = "sales" -> {"seller"} [] at = "purchases" -> {"buyer"}
    [] OTHER -> {"seller", "buyer"}

OrdersUI ==
  {u \in
    [at : {"sales", "purchases", "order"}, as : {"seller", "buyer"},
     orders : Seq(Rows),
     page : Nat, filter : Tabs, dirty : BOOLEAN, hasMore : BOOLEAN,
     loading : BOOLEAN, error : BOOLEAN,
     updating : {0} \cup OrderIds]   \* the one order whose buttons are disabled
   : u.as \in Parties(u.at)}

OrderRequests ==
  [op : {"load"}, page : Nat, filter : Tabs, phase : {"sent", "done"}, rows : Seq(Rows)]
    \cup
  [op : {"set", "cancel"}, id : OrderIds, to : OrderStatuses, seen : OrderStatuses,
   phase : {"sent", "done", "refused"}]

\* moved: orders someone else has moved; overlapped: an update was under way
\* together with a load or with another update; lost: so was its answer.
OrdersPast == [moved : SUBSET OrderIds, overlapped : BOOLEAN, lost : BOOLEAN]

OrdersTypeOK ==
  /\ ui \in OrdersUI
  /\ server \in [OrderIds -> ServerStatuses]
  /\ flight \in Seq(OrderRequests)
  /\ past \in OrdersPast

OrdersInit ==
  /\ \E at \in {"sales", "purchases", "order"} : \E as \in Parties(at) :
       ui = [at |-> at, as |-> as, orders |-> <<>>, page |-> 1, filter |-> "all",
             dirty |-> TRUE, hasMore |-> TRUE, loading |-> TRUE, error |-> FALSE,
             updating |-> 0]
  /\ server = [o \in OrderIds |-> "Pending"]
  /\ past = [moved |-> {}, overlapped |-> FALSE, lost |-> FALSE]
  /\ Booted

Updates == {"set", "cancel"}
Updating == \E op \in Updates : UnderWay(op)

\* A load, or an update, starts; were the two, or two updates, together?
StartLoad(page) ==
  /\ Send([op |-> "load", page |-> page, filter |-> ui.filter, phase |-> "sent",
           rows |-> <<>>])
  /\ past' = [past EXCEPT !.overlapped = @ \/ Updating]

StartUpdate(op, row, to) ==
  /\ Send([op |-> op, id |-> row.id, to |-> to, seen |-> row.status, phase |-> "sent"])
  /\ past' = [past EXCEPT !.overlapped = @ \/ flight # <<>>]

\* Mutated: an order may be cancelled until it is delivered.
SalesOfferCancels(s) ==
  CASE s = "pending" -> {"confirmed", "cancelled"}
    [] s = "confirmed" -> {"shipped", "cancelled"}
    [] s = "shipped" -> {"delivered", "cancelled"}
    [] OTHER -> {}

\* What a page offers: the cards while nothing is loading, and under them the
\* buttons of the status; "load more" at any time.
SalesOffer(s) ==
  CASE s = "pending" -> {"confirmed", "cancelled"}
    [] s = "confirmed" -> {"shipped"}
    [] s = "shipped" -> {"delivered"}
    [] OTHER -> {}
SalesCards == At("sales") /\ ~ui.loading
SalesMore == At("sales") /\ ui.hasMore /\ ui.orders # <<>>
PurchasesMore == At("purchases") /\ ui.hasMore /\ ui.orders # <<>>
OrderShown == At("order") /\ ~ui.loading /\ ~ui.error /\ ui.orders # <<>>
-----------------------------------------------------------------------------
SalesEffect ==
  /\ At("sales") /\ ui.dirty
  /\ ui' = [ui EXCEPT !.dirty = FALSE, !.loading = TRUE]
  /\ StartLoad(ui.page)
  /\ UNCHANGED <<server, inputs>>

PurchasesEffect ==
  /\ At("purchases") /\ ui.dirty
  /\ ui' = [ui EXCEPT !.dirty = FALSE, !.loading = TRUE]
  /\ StartLoad(ui.page)
  /\ UNCHANGED <<server, inputs>>

OrderEffect ==
  /\ At("order") /\ ui.dirty
  /\ ui' = [ui EXCEPT !.dirty = FALSE, !.loading = TRUE]
  /\ StartLoad(1)
  /\ UNCHANGED <<server, inputs>>

\* A tab: the sales go back to page one, the purchases stay where they are.
SalesTab ==
  /\ At("sales") /\ Input
  /\ \E t \in Tabs \ {ui.filter} :
       ui' = [ui EXCEPT !.filter = t, !.page = 1, !.dirty = TRUE]
  /\ UNCHANGED <<server, flight, past>>

PurchasesTab ==
  /\ At("purchases") /\ Input
  /\ \E t \in Tabs \ {ui.filter} : ui' = [ui EXCEPT !.filter = t, !.dirty = TRUE]
  /\ UNCHANGED <<server, flight, past>>

SalesLoadMore ==
  /\ SalesMore /\ Input
  /\ ui' = [ui EXCEPT !.page = @ + 1, !.dirty = TRUE]
  /\ UNCHANGED <<server, flight, past>>

\* The handler also loads, with the page of its own render: the old one.
PurchasesLoadMore ==
  /\ PurchasesMore /\ Input
  /\ ui' = [ui EXCEPT !.page = @ + 1, !.dirty = TRUE, !.loading = TRUE]
  /\ StartLoad(ui.page)
  /\ UNCHANGED server

HandleUpdateStatus ==
  /\ SalesCards /\ Input
  /\ \E k \in DOMAIN ui.orders :
       LET row == ui.orders[k] IN
       /\ row.id # ui.updating
       /\ \E to \in SalesOffer(row.status) :
            /\ ui' = [ui EXCEPT !.updating = row.id]
            /\ StartUpdate("set", row, to)
  /\ UNCHANGED server

\* The page of an order offers its cancellation to whoever looks.
HandleCancelOrder ==
  /\ OrderShown /\ ui.orders[1].status = "pending" /\ ui.updating = 0 /\ Input
  /\ ui' = [ui EXCEPT !.updating = ui.orders[1].id]
  /\ StartUpdate("cancel", ui.orders[1], "cancelled")
  /\ UNCHANGED server
-----------------------------------------------------------------------------
\* The server.  A page of orders, filtered by the page when it arrives.
Load(i) ==
  LET r == flight[i] IN
  /\ At("sales") \/ At("purchases") \/ At("order")
  /\ r.op = "load" /\ r.phase = "sent"
  /\ Return(i, [r EXCEPT !.phase = "done",
                         !.rows = IF r.page \in OrderIds
                                    THEN <<[id |-> r.page,
                                            status |-> NormalizeStatus[server[r.page]]]>>
                                    ELSE <<>>])
  /\ UNCHANGED <<ui, server, past, inputs>>

\* UpdateStatus is the seller's; it lets an order be what it is, and refuses a
\* move that is not allowed.  Cancel is the buyer's, of a pending order; the
\* seller is forbidden it whatever the status.
UpdateOrder(i) ==
  LET r == flight[i]
      from == server[r.id]
      to == ToBackendStatus[r.to]
      ok == IF r.op = "set"
              THEN ui.as = "seller" /\ (from = to \/ IsAllowedTransition(from, to))
              ELSE ui.as = "buyer" /\ from = "Pending" IN
  /\ At("sales") \/ At("order")
  /\ r.op \in Updates /\ r.phase = "sent"
  /\ Return(i, [r EXCEPT !.phase = IF ok THEN "done" ELSE "refused"])
  /\ server' = IF ok THEN [server EXCEPT ![r.id] = to] ELSE server
  /\ UNCHANGED <<ui, past, inputs>>

\* The other party, or another tab.
OtherMoves ==
  /\ At("sales") \/ At("purchases") \/ At("order")
  /\ inputs < MaxInput /\ inputs' = inputs + 1
  /\ \E o \in OrderIds, to \in ServerStatuses :
       /\ IsAllowedTransition(server[o], to)
       /\ server' = [server EXCEPT ![o] = to]
       /\ past' = [past EXCEPT !.moved = @ \cup {o}]
  /\ UNCHANGED <<ui, flight>>
-----------------------------------------------------------------------------
\* The one order of a page is of the filter, or is left out.
Filtered(r) ==
  IF r.filter = "all" \/ \A k \in DOMAIN r.rows : r.rows[k].status = r.filter
    THEN r.rows ELSE <<>>

\* A page of the sales is added to the list when its number is above one;
\* a page of the purchases, or the order, replaces what is shown.
SalesLoaded(i) ==
  LET r == flight[i] IN
  /\ At("sales") /\ r.op = "load" /\ r.phase = "done"
  /\ ui' = [ui EXCEPT !.orders = IF r.page > 1 THEN @ \o Filtered(r) ELSE Filtered(r),
                      !.hasMore = OrderCount > r.page,
                      !.error = FALSE, !.loading = FALSE]
  /\ Land(i)
  /\ UNCHANGED <<server, past, inputs>>

PurchasesLoaded(i) ==
  LET r == flight[i] IN
  /\ At("purchases") /\ r.op = "load" /\ r.phase = "done"
  /\ ui' = [ui EXCEPT !.orders = Filtered(r), !.hasMore = OrderCount > r.page,
                      !.error = FALSE, !.loading = FALSE]
  /\ Land(i)
  /\ UNCHANGED <<server, past, inputs>>

OrderLoaded(i) ==
  LET r == flight[i] IN
  /\ At("order") /\ r.op = "load" /\ r.phase = "done"
  /\ ui' = [ui EXCEPT !.orders = r.rows, !.error = FALSE, !.loading = FALSE]
  /\ Land(i)
  /\ UNCHANGED <<server, past, inputs>>

\* A load has failed: at the server, or on the way back.
LoadFailed(i) ==
  /\ At("sales") \/ At("purchases") \/ At("order")
  /\ flight[i].op = "load"
  /\ ui' = [ui EXCEPT !.error = TRUE, !.loading = FALSE]
  /\ Land(i)
  /\ UNCHANGED <<server, past, inputs>>

\* Mutated: the first order of the list is meant.
IsRowFirst(k, r) == k = 1

IsRow(k, r) == ui.orders[k].id = r.id

\* The status is set once the server has it; a refusal, or no answer, changes
\* nothing but the button, and no answer may follow an update that was done.
StatusUpdated(i) ==
  LET r == flight[i] IN
  /\ At("sales") /\ r.op = "set" /\ r.phase \in {"done", "refused"}
  /\ ui' = [ui EXCEPT !.updating = 0,
                      !.orders = IF r.phase = "refused" THEN @ ELSE
                        [k \in DOMAIN @ |->
                           IF IsRow(k, r) THEN [@[k] EXCEPT !.status = r.to] ELSE @[k]]]
  /\ Land(i)
  /\ UNCHANGED <<server, past, inputs>>

OrderCancelled(i) ==
  LET r == flight[i] IN
  /\ At("order") /\ r.op = "cancel" /\ r.phase \in {"done", "refused"}
  /\ ui' = [ui EXCEPT !.updating = 0,
                      !.orders = IF r.phase = "refused" THEN @
                                 ELSE <<[id |-> r.id, status |-> "cancelled"]>>]
  /\ Land(i)
  /\ UNCHANGED <<server, past, inputs>>

UpdateLost(i) ==
  /\ At("sales") \/ At("order")
  /\ flight[i].op \in Updates
  /\ ui' = [ui EXCEPT !.updating = 0]
  /\ past' = [past EXCEPT !.lost = @ \/ flight[i].phase = "done"]
  /\ Land(i)
  /\ UNCHANGED <<server, inputs>>

OrdersNext ==
  \/ SalesEffect \/ PurchasesEffect \/ OrderEffect
  \/ SalesTab \/ PurchasesTab \/ SalesLoadMore \/ PurchasesLoadMore
  \/ HandleUpdateStatus \/ HandleCancelOrder \/ OtherMoves
  \/ \E i \in DOMAIN flight : Load(i)
  \/ \E i \in DOMAIN flight : UpdateOrder(i)
  \/ \E i \in DOMAIN flight : SalesLoaded(i)
  \/ \E i \in DOMAIN flight : PurchasesLoaded(i)
  \/ \E i \in DOMAIN flight : OrderLoaded(i)
  \/ \E i \in DOMAIN flight : LoadFailed(i)
  \/ \E i \in DOMAIN flight : StatusUpdated(i)
  \/ \E i \in DOMAIN flight : OrderCancelled(i)
  \/ \E i \in DOMAIN flight : UpdateLost(i)

OrdersSpec == OrdersInit /\ [][OrdersNext]_pageVars
-----------------------------------------------------------------------------
\* A page at rest shows each order as it is, but for four reasons and no other:
\* someone else moved it, the answer to an update was lost, or an update was
\* under way together with a load or another update.  The last happens on the
\* sales page only, whose single updatingStatus enables the buttons of an order
\* when the answer of another one arrives.
StatusExplained ==
  (At("sales") \/ At("purchases") \/ At("order")) /\ flight = <<>> =>
    \A k \in DOMAIN ui.orders :
      \/ ui.orders[k].status = NormalizeStatus[server[ui.orders[k].id]]
      \/ ui.orders[k].id \in past.moved
      \/ past.lost
      \/ past.overlapped /\ At("sales")

\* The one offer the server never grants: the button of the page of an order,
\* pressed by the seller, whom Cancel forbids.
SellersCancel(r) == r.op = "cancel" /\ ui.as = "seller"

\* What the pages offer is what the server allows, with that one exception: any
\* other update is refused only if the order is no longer what the user saw when
\* he clicked.
RefusedOnlyWhenStale ==
  [][\A i \in DOMAIN flight :
       (/\ Len(flight') = Len(flight)
        /\ flight[i].op \in Updates
        /\ flight'[i].phase = "refused" /\ flight[i].phase = "sent")
       => \/ NormalizeStatus[server[flight[i].id]] # flight[i].seen
          \/ SellersCancel(flight[i])]_pageVars
=============================================================================
