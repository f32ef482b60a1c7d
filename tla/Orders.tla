------------------------------- MODULE Orders -------------------------------
(***************************************************************************)
(* The order endpoints of the API (OrdersController.Create, UpdateStatus   *)
(* and Cancel) running concurrently over PostgreSQL at its default         *)
(* isolation level, READ COMMITTED.                                        *)
(*                                                                         *)
(* A request is one HTTP call.  It is handled in the steps at which other  *)
(* requests can be seen: a read of committed rows, an UPDATE of one        *)
(* listing row (which takes that row's lock until the transaction ends),   *)
(* and the SaveChanges + COMMIT that publishes everything at once.  The    *)
(* rows written by SaveChanges are written from what the request read      *)
(* earlier, every column of them: no row carries a concurrency token.      *)
(*                                                                         *)
(* Addresses, shipping, prices and the Forbid / NotFound branches change   *)
(* none of the state below and are left out; TotalRevenue moves with       *)
(* TotalOrders, in the same branch of the code.                            *)
(***************************************************************************)
EXTENDS Integers, FiniteSets

CONSTANTS
  Requests,      \* HTTP requests; a Create names its order after itself
  Earlier,       \* requests answered before: their orders exist from the start
  Listings,
  Sellers,
  SellerOf,      \* the seller of each listing
  InitialStock,  \* stock_quantity of each listing at the start
  MaxQuantity,   \* bound: units of one listing in one order
  Null,          \* no listing, no seller
  Isolation      \* which requests the clients keep apart, see MayStart

ASSUME OrdersAssumption ==
  /\ Earlier \subseteq Requests /\ IsFiniteSet(Earlier)
  /\ SellerOf \in [Listings -> Sellers]
  /\ InitialStock \in [Listings -> Nat]
  /\ MaxQuantity \in Nat
  /\ Null \notin Listings /\ Null \notin Sellers
  /\ Isolation \in {"none", "order", "seller"}

VARIABLES
  stock,    \* listings.stock_quantity, as committed
  order,    \* the orders table with its items; status "none" is no row
  seller,   \* users.pending_orders and users.total_orders
  fees,     \* number of platform_fees rows of each order
  pc,       \* where each request is
  req,      \* what each request has read and decided so far
  held      \* listing rows each request has updated: locked until it ends

tables == <<stock, order, seller, fees>>
vars == <<tables, pc, req, held>>

-----------------------------------------------------------------------------
Statuses == {"Pending", "Paid", "Shipped", "Completed", "Cancelled"}

\* Mutated: a Cancelled order may be reopened.
ReopenTransition(from, to) ==
  \/ from = "Pending" /\ to \in {"Paid", "Cancelled"}
  \/ from = "Paid" /\ to \in {"Shipped", "Cancelled"}
  \/ from = "Shipped" /\ to = "Completed"
  \/ from = "Cancelled" /\ to = "Paid"

IsAllowedTransition(from, to) ==
  \/ from = "Pending" /\ to \in {"Paid", "Cancelled"}
  \/ from = "Paid" /\ to \in {"Shipped", "Cancelled"}
  \/ from = "Shipped" /\ to = "Completed"

Quantities == [Listings -> 0..MaxQuantity]
NoItems == [l \in Listings |-> 0]
InOrder(items) == {l \in Listings : items[l] > 0}

Counters == [pending : Nat, total : Nat]
Rows == [status : Statuses \cup {"none"}, items : Quantities,
         seller : Sellers \cup {Null}]

\* The locals of a handler: the order it is about, the status it read and the
\* one it writes, the listing it updates next, its copy of the seller's row.
Handlers ==
  [op : {"none", "create", "update", "cancel"},
   target : Requests, seen : Statuses \cup {"none"}, to : Statuses,
   items : Quantities, seller : Sellers \cup {Null},
   want : Listings \cup {Null}, copy : Counters, hasFee : BOOLEAN]

\* A request that has not arrived; a Create is about the order of its name.
Fresh(r) ==
  [op |-> "none", target |-> r, seen |-> "none", to |-> "Pending",
   items |-> NoItems, seller |-> Null, want |-> Null,
   copy |-> [pending |-> 0, total |-> 0], hasFee |-> FALSE]

\* Mutated: a Pending order that is Cancelled goes on counting as pending.
CountedKeepsCancelled(counters, from, to) ==
  [pending |-> CASE from = "none" -> counters.pending + 1
                 [] from = "Pending" /\ to = "Paid" ->
                      IF counters.pending > 0 THEN counters.pending - 1 ELSE 0
                 [] OTHER -> counters.pending,
   total |-> IF to = "Completed" /\ from # "Completed"
             THEN counters.total + 1 ELSE counters.total]

\* The columns of the seller's row after an order went from one status to
\* another, computed from the copy of the row the request read.
Counted(counters, from, to) ==
  [pending |-> CASE from = "none" -> counters.pending + 1
                 [] from = "Pending" /\ to # "Pending" ->
                      IF counters.pending > 0 THEN counters.pending - 1 ELSE 0
                 [] OTHER -> counters.pending,
   total |-> IF to = "Completed" /\ from # "Completed"
             THEN counters.total + 1 ELSE counters.total]

\* What the tables and the requests may hold; stock is never negative, as the
\* CHECK of the listings table demands.
TypeOK ==
  /\ stock \in [Listings -> Nat]
  /\ order \in [Requests -> Rows]
  /\ seller \in [Sellers -> Counters]
  /\ fees \in [Requests -> Nat]
  /\ pc \in [Requests -> {"idle", "reserve", "release", "readSeller",
                          "ensureFee", "commit", "done"}]
  /\ req \in [Requests -> Handlers]
  /\ held \in [Requests -> SUBSET Listings]

\* What the orders table may hold: items of one seller, one unit at least.
NoOrder == [status |-> "none", items |-> NoItems, seller |-> Null]
Standing ==
  {row \in Rows : /\ row.status # "none"
                  /\ InOrder(row.items) # {}
                  /\ \A l \in InOrder(row.items) : SellerOf[l] = row.seller}

\* Some orders exist already, in any status, with the counters and the fees
\* that go with them; the other requests have not arrived.
Init ==
  /\ stock = InitialStock
  /\ \E rows \in [Earlier -> Standing] :
       order = [o \in Requests |-> IF o \in Earlier THEN rows[o] ELSE NoOrder]
  /\ seller = [s \in Sellers |->
                 LET Of(st) == {o \in Earlier : /\ order[o].seller = s
                                               /\ order[o].status = st}
                 IN [pending |-> Cardinality(Of("Pending")),
                     total |-> Cardinality(Of("Completed"))]]
  /\ fees = [o \in Requests |-> IF order[o].status = "Completed" THEN 1 ELSE 0]
  /\ pc = [r \in Requests |-> IF r \in Earlier THEN "done" ELSE "idle"]
  /\ req = [r \in Requests |-> Fresh(r)]
  /\ held = [r \in Requests |-> {}]

-----------------------------------------------------------------------------
InFlight(r) == pc[r] \notin {"idle", "done"}

\* An assumption on the clients, not on the code: with "none" any requests
\* overlap, with "order" two requests about the same order do not, with
\* "seller" two requests about the same seller do not.
MayStart(r, o, s) ==
  \A q \in Requests \ {r} :
    InFlight(q) => /\ Isolation = "order" => req[q].target # o
                   /\ Isolation = "seller" => req[q].seller # s

\* No other transaction holds the row, so an UPDATE of it need not wait.
Unlocked(r, l) == \A q \in Requests \ {r} : l \notin held[q]

\* Mutated: a transaction that ends is not disposed of.
FinishKeepsLocks(r) ==
  /\ pc' = [pc EXCEPT ![r] = "done"]
  /\ UNCHANGED held

\* The end of a transaction, whichever way, releases its row locks.
Finish(r) ==
  /\ pc' = [pc EXCEPT ![r] = "done"]
  /\ held' = [held EXCEPT ![r] = {}]

-----------------------------------------------------------------------------
\* Create up to its transaction: the quantities are compared with the stock
\* read without a lock; too few units is a validation problem.
StartCreate(r) ==
  /\ pc[r] = "idle"
  /\ \E items \in Quantities, s \in Sellers :
       /\ InOrder(items) # {}
       /\ \A l \in InOrder(items) : SellerOf[l] = s
       /\ MayStart(r, r, s)
       /\ \/ /\ \A l \in Listings : items[l] <= stock[l]
             /\ \E l \in InOrder(items) :
                  req' = [req EXCEPT
                            ![r] = [@ EXCEPT !.op = "create", !.items = items,
                                             !.seller = s, !.want = l]]
             /\ pc' = [pc EXCEPT ![r] = "reserve"]
          \/ /\ \E l \in Listings : items[l] > stock[l]
             /\ pc' = [pc EXCEPT ![r] = "done"]
             /\ UNCHANGED req
  /\ UNCHANGED <<tables, held>>

\* Mutated: the loop returns after its first listing.
NextListingReturnsEarly(r, then) ==
  /\ req' = [req EXCEPT ![r].want = Null]
  /\ pc' = [pc EXCEPT ![r] = then]

\* The next row of the loop over the listings of an order: the one wanted
\* now is done, any of those left may come next, and with none left the
\* loop ends at "then".
NextListing(r, then) ==
  LET left == InOrder(req[r].items) \ (held[r] \cup {req[r].want})
  IN IF left = {}
     THEN /\ req' = [req EXCEPT ![r].want = Null]
          /\ pc' = [pc EXCEPT ![r] = then]
     ELSE /\ \E l \in left : req' = [req EXCEPT ![r].want = l]
          /\ UNCHANGED pc

\* Mutated: the stock was compared before the transaction, so not again here.
EnoughAsRead(r, l) == TRUE

\* The WHERE clause of the UPDATE that reserves: stock_quantity >= n.
Enough(r, l) == stock[l] >= req[r].items[l]

\* TryReserveStockAsync, one listing.  If no row matches, Create rolls back
\* and answers Conflict.
ReserveStock(r) ==
  LET l == req[r].want
  IN /\ pc[r] = "reserve"
     /\ Unlocked(r, l)
     /\ \/ /\ Enough(r, l)
           /\ held' = [held EXCEPT ![r] = @ \cup {l}]
           /\ NextListing(r, "readSeller")
        \/ /\ ~Enough(r, l)
           /\ Finish(r)
           /\ UNCHANGED req
     /\ UNCHANGED tables

\* The rest of Create: the order is inserted as Pending, the seller's row is
\* written from the copy, the reserved units leave the stock, COMMIT.
CommitCreate(r) ==
  /\ pc[r] = "commit"
  /\ req[r].op = "create"
  /\ order' = [order EXCEPT ![r] = [status |-> "Pending",
                                    items |-> req[r].items,
                                    seller |-> req[r].seller]]
  /\ seller' = [seller EXCEPT ![req[r].seller] =
                  Counted(req[r].copy, "none", "Pending")]
  /\ stock' = [l \in Listings |->
                 IF l \in held[r] THEN stock[l] - req[r].items[l] ELSE stock[l]]
  /\ Finish(r)
  /\ UNCHANGED <<fees, req>>

-----------------------------------------------------------------------------
\* UpdateStatus up to its transaction.  The order is read, with its items;
\* a request for the status it has, or for one it cannot go to, is answered
\* without a write.
StartUpdate(r) ==
  /\ pc[r] = "idle"
  /\ \E o \in Requests, to \in Statuses :
       /\ order[o].status # "none"
       /\ MayStart(r, o, order[o].seller)
       /\ \/ /\ IsAllowedTransition(order[o].status, to)
             /\ req' = [req EXCEPT
                          ![r] = [@ EXCEPT !.op = "update", !.target = o,
                                           !.seen = order[o].status, !.to = to,
                                           !.items = order[o].items,
                                           !.seller = order[o].seller]]
             /\ pc' = [pc EXCEPT ![r] = "readSeller"]
          \/ /\ ~IsAllowedTransition(order[o].status, to)
             /\ pc' = [pc EXCEPT ![r] = "done"]
             /\ UNCHANGED req
  /\ UNCHANGED <<tables, held>>

\* Mutated: whatever is not Cancelled yet can be.
CancellableUntilCancelled(o) == order[o].status \notin {"none", "Cancelled"}

\* Mutated: Cancel does not look at the status.
CancellableAlways(o) == order[o].status # "none"

Cancellable(o) == order[o].status = "Pending"

\* Cancel up to its transaction: only a Pending order.  The first listing to
\* give back is chosen here, the others in NextListing.
StartCancel(r) ==
  /\ pc[r] = "idle"
  /\ \E o \in Requests :
       /\ order[o].status # "none"
       /\ MayStart(r, o, order[o].seller)
       /\ \/ /\ Cancellable(o)
             /\ \E l \in InOrder(order[o].items) :
                  req' = [req EXCEPT
                            ![r] = [@ EXCEPT !.op = "cancel", !.target = o,
                                             !.seen = "Pending",
                                             !.to = "Cancelled",
                                             !.items = order[o].items,
                                             !.seller = order[o].seller,
                                             !.want = l]]
             /\ pc' = [pc EXCEPT ![r] = "release"]
          \/ /\ ~Cancellable(o)
             /\ pc' = [pc EXCEPT ![r] = "done"]
             /\ UNCHANGED req
  /\ UNCHANGED <<tables, held>>

\* GetByIdAsync of the seller: a copy of the committed row.  Create and Cancel
\* read it inside their transaction, UpdateStatus before it.
ReadSeller(r) ==
  /\ pc[r] = "readSeller"
  /\ \/ /\ req[r].op # "update" \/ req[r].to \in {"Paid", "Shipped"}
        /\ req' = [req EXCEPT ![r].copy = seller[req[r].seller]]
        /\ pc' = [pc EXCEPT ![r] = "commit"]
     \/ /\ req[r].op = "update" /\ req[r].to = "Completed"
        /\ req' = [req EXCEPT ![r].copy = seller[req[r].seller]]
        /\ pc' = [pc EXCEPT ![r] = "ensureFee"]
     \/ /\ req[r].op = "update" /\ req[r].to = "Cancelled"
        /\ \E l \in InOrder(req[r].items) :
             req' = [req EXCEPT ![r].copy = seller[req[r].seller],
                                ![r].want = l]
        /\ pc' = [pc EXCEPT ![r] = "release"]
  /\ UNCHANGED <<tables, held>>

\* ReleaseStockAsync, one listing: UPDATE ... SET stock = stock + n.
ReleaseStock(r) ==
  LET l == req[r].want
  IN /\ pc[r] = "release"
     /\ Unlocked(r, l)
     /\ held' = [held EXCEPT ![r] = @ \cup {l}]
     /\ NextListing(r, IF req[r].op = "cancel" THEN "readSeller" ELSE "commit")
     /\ UNCHANGED tables

\* EnsureCommissionAsync of a completed order: is there a fee row already?
EnsureCommission(r) ==
  /\ pc[r] = "ensureFee"
  /\ req' = [req EXCEPT ![r].hasFee = fees[req[r].target] > 0]
  /\ pc' = [pc EXCEPT ![r] = "commit"]
  /\ UNCHANGED <<tables, held>>

\* Mutated: every change of status is charged.
ChargesAnyChange(r) == ~req[r].hasFee

Charges(r) == req[r].to = "Completed" /\ ~req[r].hasFee

\* Mutated: platform_fees.order_id has an index that is not unique.
FeeClashNever(r) == FALSE

\* The fee row the request wants to insert breaks the unique index on
\* platform_fees.order_id: another request inserted one after we looked.
FeeClash(r) == Charges(r) /\ fees[req[r].target] > 0

\* SaveChanges and COMMIT of UpdateStatus and Cancel: all the columns of the
\* order and of the seller, from the copies.
CommitChange(r) ==
  LET o == req[r].target
  IN /\ pc[r] = "commit"
     /\ req[r].op \in {"update", "cancel"}
     /\ \/ /\ ~FeeClash(r)
           /\ order' = [order EXCEPT ![o].status = req[r].to]
           /\ seller' = [seller EXCEPT ![req[r].seller] =
                           Counted(req[r].copy, req[r].seen, req[r].to)]
           /\ fees' = [fees EXCEPT ![o] = IF Charges(r) THEN @ + 1 ELSE @]
           /\ stock' = [l \in Listings |->
                          IF l \in held[r] THEN stock[l] + req[r].items[l]
                                           ELSE stock[l]]
        \/ FeeClash(r) /\ UNCHANGED tables
     /\ Finish(r)
     /\ UNCHANGED req

-----------------------------------------------------------------------------
\* A request in flight is given up: the client disconnects (every call takes
\* its CancellationToken), a statement throws, or the process stops.  The
\* transaction rolls back.
Fail(r) ==
  /\ InFlight(r)
  /\ Finish(r)
  /\ UNCHANGED <<tables, req>>

\* r's UPDATE waits for q's row lock.
Waits(r, q) ==
  /\ pc[r] \in {"reserve", "release"}
  /\ q # r /\ req[r].want \in held[q]

Stuck(S) == S # {} /\ \A r \in S : \E q \in S : Waits(r, q)

\* PostgreSQL breaks a cycle of waiting transactions by failing one of them.
DetectDeadlock(r) ==
  /\ \E S \in SUBSET Requests :
       r \in S /\ Stuck(S) /\ \A T \in SUBSET S : Stuck(T) => T = S
  /\ Finish(r)
  /\ UNCHANGED <<tables, req>>

\* What the server does by itself once a request has arrived.
Proceed(r) ==
  \/ ReserveStock(r) \/ ReleaseStock(r) \/ ReadSeller(r)
  \/ EnsureCommission(r) \/ CommitCreate(r) \/ CommitChange(r)

\* Every request of the run has been answered.
Quiet == (\A r \in Requests : pc[r] = "done") /\ UNCHANGED vars

Next ==
  \/ \E r \in Requests :
       \/ StartCreate(r) \/ StartUpdate(r) \/ StartCancel(r)
       \/ Proceed(r) \/ Fail(r) \/ DetectDeadlock(r)
  \/ Quiet

Spec == Init /\ [][Next]_vars

\* The server runs the handlers it has started; PostgreSQL looks for
\* deadlocks after deadlock_timeout.  Nothing obliges a client to send.
Fairness == \A r \in Requests : WF_vars(Proceed(r)) /\ WF_vars(DetectDeadlock(r))

FairSpec == Spec /\ Fairness

-----------------------------------------------------------------------------
\* Two transactions in flight have not both updated one listing row: PostgreSQL
\* sees to it.  The proofs need it, for ReservationCovered below.
RowsLockedOnce ==
  \A q, r \in Requests : q # r => held[q] \cap held[r] = {}

\* Whatever a Create has reserved and not yet committed is really there: the
\* stock it read before the transaction may be gone by then, and other orders
\* commit in between, but no order ever commits units that do not exist.
ReservationCovered ==
  \A r \in Requests : req[r].op = "create" =>
    \A l \in held[r] : req[r].items[l] <= stock[l]

\* Two handlers may both find an order Shipped and both complete it, with the
\* look for an existing fee in between: the order is still charged once.
FeeAtMostOnce == \A o \in Requests : fees[o] <= 1

\* The status of an order only moves along IsAllowedTransition: what
\* UpdateStatus and Cancel check, on the copy they read, holds of the row.
StatusStep ==
  \A o \in Requests :
    LET from == order[o].status
        to == order'[o].status
    IN from # to => IF from = "none" THEN to = "Pending"
                                     ELSE IsAllowedTransition(from, to)

StatusMachine == [][StatusStep]_vars

\* An order that is Completed has been charged its commission and no other
\* order has, although the fee is looked up and inserted in separate steps.
ChargedIffCompleted ==
  \A o \in Requests : fees[o] = IF order[o].status = "Completed" THEN 1 ELSE 0

OrdersOf(s, status) ==
  {o \in Requests : order[o].seller = s /\ order[o].status = status}

\* The counters kept in the seller's row are what counting the orders gives,
\* after any sequence of orders, changes, cancellations and failures.
CountersExact ==
  \A s \in Sellers :
    /\ seller[s].pending = Cardinality(OrdersOf(s, "Pending"))
    /\ seller[s].total = Cardinality(OrdersOf(s, "Completed"))

Live(o) == order[o].status \notin {"none", "Cancelled"}

\* The units of a listing that the orders that stand have taken, each named by
\* its order and a number.
Taken(l) ==
  {u \in Requests \X (1..MaxQuantity) :
     Live(u[1]) /\ u[2] <= order[u[1]].items[l]}

\* What is on offer and what has been taken.
Units(l) == stock[l] + Cardinality(Taken(l))

\* Units are neither lost nor made, by any handler: each cancellation puts back
\* what its order took, as long as no two requests about it overlap.
StockConserved == [][\A l \in Listings : Units(l)' = Units(l)]_vars

\* Stock moves only as Inventory says: all the units of an order at once, when
\* its row appears or when a cancellation of it commits.
Promise == INSTANCE Inventory WITH
  Claims <- Requests,
  Quantities <- Quantities,
  claim <- [o \in Requests |-> order[o].items],
  live <- [o \in Requests |->
             CASE order[o].status = "none" -> "none"
               [] order[o].status = "Cancelled" -> "back"
               [] OTHER -> "out"]

ImplementsInventory == Promise!Spec

\* And without overlap on one order, each order gives its units back once.
ImplementsInventoryOnce == Promise!OnceSpec

\* Every request the server has started is answered: no transaction waits
\* forever for the row locks of others, in whatever orders they take them.
EveryRequestAnswered ==
  \A r \in Requests : InFlight(r) ~> pc[r] = "done"
-----------------------------------------------------------------------------
\* What the place of a request says about what it has read and locked.  The
\* proofs rest on it: at the commit of a Create every unit it takes is locked.
Phase(r) ==
  /\ pc[r] \in {"idle", "done"} => held[r] = {}
  /\ pc[r] = "idle" => req[r] = Fresh(r)
  /\ order[r].status # "none" => pc[r] = "done"
  /\ held[r] \subseteq InOrder(req[r].items)
  /\ InFlight(r) => req[r].op # "none" /\ req[r].seller \in Sellers
  /\ pc[r] \in {"reserve", "release"} =>
       req[r].want \in InOrder(req[r].items) \ held[r]
  /\ pc[r] = "reserve" => req[r].op = "create"
  /\ pc[r] = "release" => req[r].op # "create" /\ req[r].to = "Cancelled"
  /\ pc[r] = "ensureFee" => req[r].op = "update" /\ held[r] = {}
                            /\ req[r].to = "Completed"
  /\ pc[r] = "readSeller" /\ req[r].op = "update" => held[r] = {}
  /\ pc[r] = "readSeller" /\ req[r].op # "update" =>
       held[r] = InOrder(req[r].items)
  /\ pc[r] = "commit" =>
       held[r] = IF req[r].op = "create" \/ req[r].to = "Cancelled"
                 THEN InOrder(req[r].items) ELSE {}

\* What a request remembers of the order it is about still holds of the row,
\* its status excepted: another handler may have changed that.
Remembers(r) ==
  InFlight(r) =>
    LET o == req[r].target
    IN /\ req[r].op = "create" =>
            o = r /\ req[r].seen = "none" /\ req[r].to = "Pending"
       /\ req[r].op # "create" =>
            /\ order[o].status # "none"
            /\ req[r].items = order[o].items
            /\ req[r].seller = order[o].seller
            /\ IsAllowedTransition(req[r].seen, req[r].to)
       /\ req[r].op = "cancel" => req[r].to = "Cancelled"

SellersKnown ==
  \A o \in Requests : order[o].status # "none" => order[o].seller \in Sellers

Inv ==
  /\ TypeOK
  /\ \A r \in Requests : Phase(r) /\ Remembers(r)
  /\ SellersKnown
  /\ RowsLockedOnce
  /\ ReservationCovered

\* With clients that do not overlap on one order, the status a handler read is
\* still the status of the row when it commits.
SeenIsCurrent ==
  Isolation # "none" =>
    \A r \in Requests : InFlight(r) =>
      /\ order[req[r].target].status = req[r].seen
      /\ \A q \in Requests \ {r} : InFlight(q) => req[q].target # req[r].target

\* A handler that has its copy of the seller's row.
HasCopy(r) ==
  \/ pc[r] \in {"ensureFee", "commit"}
  \/ pc[r] = "release" /\ req[r].op = "update"

\* With clients that do not overlap on one seller, the copy is the row when the
\* handler commits.
CopyIsCurrent ==
  Isolation = "seller" =>
    /\ \A q, r \in Requests :
         InFlight(q) /\ InFlight(r) /\ req[q].seller = req[r].seller => q = r
    /\ \A r \in Requests : HasCopy(r) => req[r].copy = seller[req[r].seller]
=============================================================================
