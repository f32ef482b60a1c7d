---------------------------- MODULE OrdersProofs ----------------------------
(***************************************************************************)
(* Proofs about Orders, for any requests, listings, sellers and stock.     *)
(***************************************************************************)
EXTENDS Orders, FiniteSetTheorems, TLAPS

\* The rows the orders table may start with.
LEMMA InitRows ==
  ASSUME Init
  PROVE  \A o \in Requests :
           /\ order[o] \in Rows
           /\ o \in Earlier => order[o] \in Standing
           /\ o \notin Earlier => order[o] = NoOrder
<1>1. PICK rows \in [Earlier -> Standing] :
        order = [o \in Requests |-> IF o \in Earlier THEN rows[o] ELSE NoOrder]
  BY DEF Init
<1>2. NoOrder \in Rows
  BY OrdersAssumption DEF NoOrder, Rows, NoItems, Quantities
<1>3. Standing \subseteq Rows
  BY DEF Standing
<1> QED
  BY <1>1, <1>2, <1>3

\* Inv holds at the start, whatever orders exist already.
LEMMA InitInv == Init => Inv
<1> SUFFICES ASSUME Init PROVE Inv
  OBVIOUS
<1>1. order \in [Requests -> Rows]
  BY InitRows DEF Init
<1>2. seller \in [Sellers -> Counters]
  <2> DEFINE Of(s, st) == {o \in Earlier : /\ order[o].seller = s
                                          /\ order[o].status = st}
  <2>1. ASSUME NEW s, NEW st PROVE Cardinality(Of(s, st)) \in Nat
    <3>1. IsFiniteSet(Of(s, st))
      BY OrdersAssumption, FS_Subset
    <3> QED
      BY <3>1, FS_CardinalityType
  <2>2. seller = [s \in Sellers |-> [pending |-> Cardinality(Of(s, "Pending")),
                                     total |-> Cardinality(Of(s, "Completed"))]]
    BY DEF Init
  <2> HIDE DEF Of
  <2> QED
    BY <2>1, <2>2 DEF Counters
<1>3. req \in [Requests -> Handlers]
  <2>1. \A r \in Requests : Fresh(r) \in Handlers
    BY OrdersAssumption
       DEF Fresh, Handlers, Quantities, NoItems, Counters, Statuses
  <2> QED
    BY <2>1 DEF Init
<1>4. TypeOK
  BY <1>1, <1>2, <1>3, OrdersAssumption DEF Init, TypeOK
<1>5. \A r \in Requests : Phase(r) /\ Remembers(r)
  BY InitRows DEF Init, Fresh, Phase, Remembers, InFlight, InOrder, NoItems,
                  NoOrder
<1>6. SellersKnown
  BY InitRows, OrdersAssumption
     DEF SellersKnown, Standing, NoOrder, InOrder
<1>7. RowsLockedOnce /\ ReservationCovered
  BY DEF Init, RowsLockedOnce, ReservationCovered
<1> QED
  BY <1>4, <1>5, <1>6, <1>7 DEF Inv

\* A step of one request that leaves the tables alone: what is left to prove
\* is about that request.
LEMMA OwnStep ==
  ASSUME Inv, NEW r \in Requests, UNCHANGED tables, TypeOK',
         \A q \in Requests \ {r} :
           req'[q] = req[q] /\ pc'[q] = pc[q] /\ held'[q] = held[q],
         \A q \in Requests \ {r} : held[q] \cap held'[r] = {},
         req'[r].op = "create" =>
           \A l \in held'[r] : req'[r].items[l] <= stock[l],
         Phase(r)', Remembers(r)'
  PROVE  Inv'
<1> USE DEF Inv
<1>1. ASSUME NEW q \in Requests \ {r} PROVE Phase(q)' /\ Remembers(q)'
  BY DEF Phase, Remembers, InFlight, tables
<1>2. RowsLockedOnce'
  BY DEF RowsLockedOnce
<1>3. SellersKnown'
  BY DEF SellersKnown, tables
<1>4. ReservationCovered'
  <2> SUFFICES ASSUME NEW q \in Requests, req'[q].op = "create",
                      NEW l \in held'[q]
               PROVE  req'[q].items[l] <= stock'[l]
    BY DEF ReservationCovered
  <2>1. CASE q = r
    BY <2>1 DEF tables
  <2>2. CASE q # r
    BY <2>2 DEF tables, ReservationCovered
  <2> QED
    BY <2>1, <2>2
<1> QED
  BY <1>1, <1>2, <1>3, <1>4

\* A request that ends without a commit.
LEMMA EndInv ==
  ASSUME Inv, NEW r \in Requests, Finish(r), UNCHANGED <<tables, req>>
  PROVE  Inv'
<1>1. /\ TypeOK'
      /\ \A q \in Requests \ {r} :
           req'[q] = req[q] /\ pc'[q] = pc[q] /\ held'[q] = held[q]
      /\ held'[r] = {} /\ pc'[r] = "done"
  BY DEF Inv, TypeOK, Finish, tables
<1>2. Phase(r)' /\ Remembers(r)'
  BY <1>1 DEF Phase, Remembers, InFlight
<1> QED
  BY <1>1, <1>2, OwnStep

\* What is known of a request that has not arrived.
IdleFacts(r) ==
  /\ held[r] = {} /\ order[r].status = "none" /\ req[r] \in Handlers
  /\ req[r].target = r /\ req[r].seen = "none" /\ req[r].to = "Pending"

\* A request that has not arrived satisfies IdleFacts.
LEMMA Idle ==
  ASSUME Inv, NEW r \in Requests, pc[r] = "idle" PROVE IdleFacts(r)
<1>1. Phase(r) /\ req[r] \in Handlers
  BY DEF Inv, TypeOK
<1>2. req[r] = Fresh(r) /\ held[r] = {} /\ order[r].status = "none"
  BY <1>1 DEF Phase
<1> QED
  BY <1>1, <1>2 DEF IdleFacts, Fresh

\* Create up to its transaction, accepted or refused, preserves Inv.
LEMMA StartCreateInv ==
  ASSUME Inv, NEW r \in Requests, StartCreate(r) PROVE Inv'
<1> USE DEF Inv
<1>1. PICK items \in Quantities, s \in Sellers :
        \/ /\ \E l \in InOrder(items) :
                req' = [req EXCEPT
                          ![r] = [@ EXCEPT !.op = "create", !.items = items,
                                           !.seller = s, !.want = l]]
           /\ pc' = [pc EXCEPT ![r] = "reserve"]
        \/ pc' = [pc EXCEPT ![r] = "done"] /\ UNCHANGED req
  BY DEF StartCreate
<1>2. pc[r] = "idle" /\ UNCHANGED tables /\ held' = held
  BY DEF StartCreate
<1>3. IdleFacts(r)
  BY <1>2, Idle
<1>4. ASSUME NEW l \in InOrder(items),
             req' = [req EXCEPT
                       ![r] = [@ EXCEPT !.op = "create", !.items = items,
                                        !.seller = s, !.want = l]],
             pc' = [pc EXCEPT ![r] = "reserve"]
      PROVE  Inv'
  <2> DEFINE h == [req[r] EXCEPT !.op = "create", !.items = items,
                                 !.seller = s, !.want = l]
  <2>1. /\ h.op = "create" /\ h.items = items /\ h.seller = s /\ h.want = l
        /\ h.target = r /\ h.seen = "none" /\ h.to = "Pending"
        /\ h \in Handlers
    BY <1>3 DEF Handlers, InOrder, IdleFacts
  <2>2. req' = [req EXCEPT ![r] = h]
    BY <1>4
  <2> HIDE DEF h
  <2>3. /\ TypeOK'
        /\ \A q \in Requests \ {r} :
             req'[q] = req[q] /\ pc'[q] = pc[q] /\ held'[q] = held[q]
        /\ req'[r] = h /\ pc'[r] = "reserve" /\ held'[r] = {}
    BY <1>2, <1>3, <1>4, <2>1, <2>2 DEF TypeOK, tables, IdleFacts
  <2>4. Phase(r)' /\ Remembers(r)'
    BY <1>2, <1>3, <2>1, <2>3
       DEF Phase, Remembers, InFlight, tables, IdleFacts
  <2> QED
    BY <1>2, <2>3, <2>4, OwnStep
<1>5. CASE pc' = [pc EXCEPT ![r] = "done"] /\ UNCHANGED req
  <2>1. Finish(r)
    BY <1>2, <1>3, <1>5 DEF Finish, TypeOK, IdleFacts
  <2> QED
    BY <1>2, <1>5, <2>1, EndInv
<1> QED
  BY <1>1, <1>4, <1>5

\* UpdateStatus up to its transaction preserves Inv.
LEMMA StartUpdateInv ==
  ASSUME Inv, NEW r \in Requests, StartUpdate(r) PROVE Inv'
<1> USE DEF Inv
<1>1. PICK o \in Requests, to \in Statuses :
        /\ order[o].status # "none"
        /\ \/ /\ IsAllowedTransition(order[o].status, to)
              /\ req' = [req EXCEPT
                           ![r] = [@ EXCEPT !.op = "update", !.target = o,
                                            !.seen = order[o].status, !.to = to,
                                            !.items = order[o].items,
                                            !.seller = order[o].seller]]
              /\ pc' = [pc EXCEPT ![r] = "readSeller"]
           \/ /\ pc' = [pc EXCEPT ![r] = "done"]
              /\ UNCHANGED req
  BY DEF StartUpdate
<1>2. pc[r] = "idle" /\ UNCHANGED tables /\ held' = held
  BY DEF StartUpdate
<1>3. IdleFacts(r)
  BY <1>2, Idle
<1>4. CASE /\ IsAllowedTransition(order[o].status, to)
           /\ req' = [req EXCEPT
                        ![r] = [@ EXCEPT !.op = "update", !.target = o,
                                         !.seen = order[o].status, !.to = to,
                                         !.items = order[o].items,
                                         !.seller = order[o].seller]]
           /\ pc' = [pc EXCEPT ![r] = "readSeller"]
  <2> DEFINE h == [req[r] EXCEPT !.op = "update", !.target = o,
                                 !.seen = order[o].status, !.to = to,
                                 !.items = order[o].items,
                                 !.seller = order[o].seller]
  <2>0. order[o] \in Rows /\ order[o].seller \in Sellers
    BY <1>1 DEF SellersKnown, TypeOK
  <2>1. /\ h.op = "update" /\ h.items = order[o].items
        /\ h.seller = order[o].seller /\ h.target = o
        /\ h.seen = order[o].status /\ h.to = to /\ h \in Handlers
    BY <1>3, <2>0 DEF Handlers, Rows, IdleFacts
  <2>2. req' = [req EXCEPT ![r] = h]
    BY <1>4
  <2> HIDE DEF h
  <2>3. /\ TypeOK'
        /\ \A q \in Requests \ {r} :
             req'[q] = req[q] /\ pc'[q] = pc[q] /\ held'[q] = held[q]
        /\ req'[r] = h /\ pc'[r] = "readSeller" /\ held'[r] = {}
    BY <1>2, <1>3, <1>4, <2>1, <2>2 DEF TypeOK, tables, IdleFacts
  <2>4. Phase(r)' /\ Remembers(r)'
    BY <1>1, <1>2, <1>3, <1>4, <2>0, <2>1, <2>3
       DEF Phase, Remembers, InFlight, tables, IdleFacts
  <2> QED
    BY <1>2, <2>3, <2>4, OwnStep
<1>5. CASE pc' = [pc EXCEPT ![r] = "done"] /\ UNCHANGED req
  <2>1. Finish(r)
    BY <1>2, <1>3, <1>5 DEF Finish, TypeOK, IdleFacts
  <2> QED
    BY <1>2, <1>5, <2>1, EndInv
<1> QED
  BY <1>1, <1>4, <1>5

\* Cancel up to its transaction preserves Inv.
LEMMA StartCancelInv ==
  ASSUME Inv, NEW r \in Requests, StartCancel(r) PROVE Inv'
<1> USE DEF Inv
<1>1. PICK o \in Requests :
        /\ order[o].status # "none"
        /\ \/ /\ order[o].status = "Pending"
              /\ \E l \in InOrder(order[o].items) :
                   req' = [req EXCEPT
                             ![r] = [@ EXCEPT !.op = "cancel", !.target = o,
                                              !.seen = "Pending",
                                              !.to = "Cancelled",
                                              !.items = order[o].items,
                                              !.seller = order[o].seller,
                                              !.want = l]]
              /\ pc' = [pc EXCEPT ![r] = "release"]
           \/ /\ pc' = [pc EXCEPT ![r] = "done"]
              /\ UNCHANGED req
  BY DEF StartCancel, Cancellable
<1>2. pc[r] = "idle" /\ UNCHANGED tables /\ held' = held
  BY DEF StartCancel
<1>3. IdleFacts(r)
  BY <1>2, Idle
<1>4. ASSUME NEW l \in InOrder(order[o].items),
             req' = [req EXCEPT
                       ![r] = [@ EXCEPT !.op = "cancel", !.target = o,
                                        !.seen = "Pending",
                                        !.to = "Cancelled",
                                        !.items = order[o].items,
                                        !.seller = order[o].seller,
                                        !.want = l]],
             pc' = [pc EXCEPT ![r] = "release"]
      PROVE  Inv'
  <2> DEFINE h == [req[r] EXCEPT !.op = "cancel", !.target = o,
                                 !.seen = "Pending", !.to = "Cancelled",
                                 !.items = order[o].items,
                                 !.seller = order[o].seller, !.want = l]
  <2>0. order[o] \in Rows /\ order[o].seller \in Sellers
    BY <1>1 DEF SellersKnown, TypeOK
  <2>1. /\ h.op = "cancel" /\ h.items = order[o].items
        /\ h.seller = order[o].seller /\ h.target = o /\ h.want = l
        /\ h.seen = "Pending" /\ h.to = "Cancelled" /\ h \in Handlers
    BY <1>3, <2>0 DEF Handlers, Rows, IdleFacts, InOrder, Statuses
  <2>2. req' = [req EXCEPT ![r] = h]
    BY <1>4
  <2> HIDE DEF h
  <2>3. /\ TypeOK'
        /\ \A q \in Requests \ {r} :
             req'[q] = req[q] /\ pc'[q] = pc[q] /\ held'[q] = held[q]
        /\ req'[r] = h /\ pc'[r] = "release" /\ held'[r] = {}
    BY <1>2, <1>3, <1>4, <2>1, <2>2 DEF TypeOK, tables, IdleFacts
  <2>4. Phase(r)' /\ Remembers(r)'
    BY <1>1, <1>2, <1>3, <2>0, <2>1, <2>3
       DEF Phase, Remembers, InFlight, tables, IdleFacts, IsAllowedTransition
  <2> QED
    BY <1>2, <2>3, <2>4, OwnStep
<1>5. CASE pc' = [pc EXCEPT ![r] = "done"] /\ UNCHANGED req
  <2>1. Finish(r)
    BY <1>2, <1>3, <1>5 DEF Finish, TypeOK, IdleFacts
  <2> QED
    BY <1>2, <1>5, <2>1, EndInv
<1> QED
  BY <1>1, <1>4, <1>5

\* One round of the loop over the listings of an order.
LEMMA LockRow ==
  ASSUME Inv, NEW r \in Requests, pc[r] \in {"reserve", "release"},
         Unlocked(r, req[r].want),
         req[r].op = "create" =>
           req[r].items[req[r].want] <= stock[req[r].want],
         held' = [held EXCEPT ![r] = @ \cup {req[r].want}],
         NextListing(r, IF req[r].op = "update" THEN "commit" ELSE "readSeller"),
         UNCHANGED tables
  PROVE  Inv'
<1> DEFINE l == req[r].want
           left == InOrder(req[r].items) \ (held[r] \cup {l})
           then == IF req[r].op = "update" THEN "commit" ELSE "readSeller"
<1>1. /\ Phase(r) /\ Remembers(r) /\ req[r] \in Handlers
      /\ l \in InOrder(req[r].items) /\ l \in Listings /\ l \notin held[r]
      /\ held[r] \in SUBSET Listings
  BY DEF Inv, Phase, TypeOK, InOrder
<1>2. \E w \in left \cup {Null}, p \in {pc[r], then} :
        /\ req' = [req EXCEPT ![r].want = w] /\ pc' = [pc EXCEPT ![r] = p]
        /\ \/ left = {} /\ p = then
           \/ w \in left /\ p = pc[r]
  <2>1. CASE left = {}
    BY <2>1 DEF NextListing
  <2>2. CASE left # {}
    BY <2>2 DEF NextListing, Inv, TypeOK
  <2> QED
    BY <2>1, <2>2
<1>3. PICK w \in left \cup {Null}, p \in {pc[r], then} :
        /\ req' = [req EXCEPT ![r].want = w] /\ pc' = [pc EXCEPT ![r] = p]
        /\ \/ left = {} /\ p = then
           \/ w \in left /\ p = pc[r]
  BY <1>2
<1> DEFINE h == [req[r] EXCEPT !.want = w]
<1>4. /\ h.op = req[r].op /\ h.items = req[r].items /\ h.to = req[r].to
      /\ h.seller = req[r].seller /\ h.target = req[r].target
      /\ h.seen = req[r].seen /\ h.want = w /\ h \in Handlers
  BY <1>1 DEF Handlers, InOrder
<1>5. req' = [req EXCEPT ![r] = h]
  BY <1>3
<1> HIDE DEF h
<1>6. /\ TypeOK'
      /\ \A q \in Requests \ {r} :
           req'[q] = req[q] /\ pc'[q] = pc[q] /\ held'[q] = held[q]
      /\ req'[r] = h /\ pc'[r] = p /\ held'[r] = held[r] \cup {l}
  BY <1>1, <1>3, <1>4, <1>5 DEF Inv, TypeOK, tables
<1>7. \A q \in Requests \ {r} : held[q] \cap held'[r] = {}
  BY <1>1, <1>6 DEF Inv, Unlocked, RowsLockedOnce
<1>8. req'[r].op = "create" =>
        \A k \in held'[r] : req'[r].items[k] <= stock[k]
  BY <1>1, <1>4, <1>6 DEF Inv, ReservationCovered
<1>9. Phase(r)'
  <2>1. CASE left = {} /\ p = then
    <3>1. held'[r] = InOrder(h.items)
      BY <1>1, <1>4, <1>6, <2>1 DEF Phase
    <3>2. /\ p = "readSeller" => h.op # "update"
          /\ p = "commit" => h.op = "update" /\ h.to = "Cancelled"
          /\ p \in {"readSeller", "commit"}
      BY <1>1, <1>4, <2>1 DEF Phase
    <3>3. h.op # "none" /\ h.seller \in Sellers /\ order'[r] = order[r]
          /\ order[r].status = "none"
      BY <1>1, <1>4 DEF Phase, InFlight, tables
    <3> QED
      BY <1>6, <3>1, <3>2, <3>3 DEF Phase, InFlight
  <2>2. CASE w \in left /\ p = pc[r]
    BY <1>1, <1>4, <1>6, <2>2 DEF Phase, Remembers, InFlight, tables, Handlers
  <2> QED
    BY <1>3, <2>1, <2>2
<1>10. Remembers(r)'
  BY <1>1, <1>4, <1>6 DEF Remembers, InFlight, tables
<1> QED
  BY <1>6, <1>7, <1>8, <1>9, <1>10, OwnStep

\* Reserving the units of one listing, or failing to, preserves Inv.
LEMMA ReserveStockInv ==
  ASSUME Inv, NEW r \in Requests, ReserveStock(r) PROVE Inv'
<1>1. /\ pc[r] = "reserve" /\ Unlocked(r, req[r].want) /\ UNCHANGED tables
      /\ req[r].op = "create" /\ req[r] \in Handlers
      /\ stock \in [Listings -> Nat] /\ req[r].want \in Listings
  BY DEF ReserveStock, Inv, Phase, InOrder, TypeOK
<1>2. CASE Finish(r) /\ UNCHANGED req
  BY <1>1, <1>2, EndInv
<1>3. CASE /\ Enough(r, req[r].want)
           /\ held' = [held EXCEPT ![r] = @ \cup {req[r].want}]
           /\ NextListing(r, "readSeller")
  <2>1. req[r].items[req[r].want] <= stock[req[r].want]
    BY <1>1, <1>3 DEF Handlers, Quantities, Enough
  <2> QED
    BY <1>1, <1>3, <2>1, LockRow
<1> QED
  BY <1>2, <1>3 DEF ReserveStock

\* Giving back the units of one listing preserves Inv.
LEMMA ReleaseStockInv ==
  ASSUME Inv, NEW r \in Requests, ReleaseStock(r) PROVE Inv'
<1>1. req[r].op # "create" /\ req[r].op \in {"update", "cancel"}
  BY DEF ReleaseStock, Inv, Phase, InFlight, TypeOK, Handlers
<1>2. NextListing(r, IF req[r].op = "update" THEN "commit" ELSE "readSeller")
  BY <1>1 DEF ReleaseStock
<1> QED
  BY <1>1, <1>2, LockRow DEF ReleaseStock

\* Reading the seller's row preserves Inv, whatever the handler does next.
LEMMA ReadSellerInv ==
  ASSUME Inv, NEW r \in Requests, ReadSeller(r) PROVE Inv'
<1>1. /\ pc[r] = "readSeller" /\ Phase(r) /\ Remembers(r)
      /\ req[r] \in Handlers /\ req[r].seller \in Sellers
      /\ seller[req[r].seller] \in Counters
      /\ UNCHANGED tables /\ held' = held
  BY DEF ReadSeller, Inv, Phase, InFlight, TypeOK
<1> DEFINE c == seller[req[r].seller]
<1>2. PICK w \in Listings \cup {Null}, p \in {"commit", "ensureFee", "release"} :
        /\ req' = [req EXCEPT ![r] = [@ EXCEPT !.copy = c, !.want = w]]
        /\ pc' = [pc EXCEPT ![r] = p]
        /\ \/ /\ p = "commit"
              /\ req[r].op # "update" \/ req[r].to \in {"Paid", "Shipped"}
           \/ p = "ensureFee" /\ req[r].op = "update" /\ req[r].to = "Completed"
           \/ /\ p = "release" /\ req[r].op = "update"
              /\ req[r].to = "Cancelled" /\ w \in InOrder(req[r].items)
  <2>1. ASSUME req' = [req EXCEPT ![r].copy = c]
        PROVE  req' = [req EXCEPT ![r] = [@ EXCEPT !.copy = c,
                                                   !.want = req[r].want]]
    <3>1. [req[r] EXCEPT !.copy = c] =
             [req[r] EXCEPT !.copy = c, !.want = req[r].want]
      BY <1>1 DEF Handlers
    <3> QED
      BY <2>1, <3>1
  <2>2. req[r].want \in Listings \cup {Null}
    BY <1>1 DEF Handlers
  <2>3. CASE /\ req[r].op # "update" \/ req[r].to \in {"Paid", "Shipped"}
             /\ req' = [req EXCEPT ![r].copy = c]
             /\ pc' = [pc EXCEPT ![r] = "commit"]
    BY <2>1, <2>2, <2>3
  <2>4. CASE /\ req[r].op = "update" /\ req[r].to = "Completed"
             /\ req' = [req EXCEPT ![r].copy = c]
             /\ pc' = [pc EXCEPT ![r] = "ensureFee"]
    BY <2>1, <2>2, <2>4
  <2>5. CASE /\ req[r].op = "update" /\ req[r].to = "Cancelled"
             /\ \E l \in InOrder(req[r].items) :
                  req' = [req EXCEPT ![r].copy = c, ![r].want = l]
             /\ pc' = [pc EXCEPT ![r] = "release"]
    <3>1. PICK l \in InOrder(req[r].items) :
            req' = [req EXCEPT ![r].copy = c, ![r].want = l]
      BY <2>5
    <3>2. req' = [req EXCEPT ![r] = [@ EXCEPT !.copy = c, !.want = l]]
      BY <3>1, <1>1 DEF Inv, TypeOK
    <3> QED
      BY <2>5, <3>1, <3>2 DEF InOrder
  <2> QED
    BY <2>3, <2>4, <2>5 DEF ReadSeller
<1> DEFINE h == [req[r] EXCEPT !.copy = c, !.want = w]
<1>3. /\ h.op = req[r].op /\ h.items = req[r].items /\ h.to = req[r].to
      /\ h.seller = req[r].seller /\ h.target = req[r].target
      /\ h.seen = req[r].seen /\ h.want = w /\ h \in Handlers
  BY <1>1 DEF Handlers
<1>4. req' = [req EXCEPT ![r] = h]
  BY <1>2
<1> HIDE DEF h, c
<1>5. /\ TypeOK'
      /\ \A q \in Requests \ {r} :
           req'[q] = req[q] /\ pc'[q] = pc[q] /\ held'[q] = held[q]
      /\ req'[r] = h /\ pc'[r] = p /\ held'[r] = held[r]
  BY <1>1, <1>2, <1>3, <1>4 DEF Inv, TypeOK, tables
<1>6. Phase(r)'
  <2>1. /\ req[r].op # "none" /\ req[r].op \in {"none", "create", "update", "cancel"}
        /\ held[r] \subseteq InOrder(req[r].items) /\ order'[r] = order[r]
        /\ order[r].status = "none"
        /\ req[r].op = "update" => held[r] = {}
        /\ req[r].op # "update" => held[r] = InOrder(req[r].items)
        /\ req[r].op = "cancel" => req[r].to = "Cancelled"
    BY <1>1 DEF Phase, Remembers, InFlight, tables, Handlers
  <2>2. CASE p = "commit"
    <3>1. pc'[r] = "commit" /\ InFlight(r)
      BY <1>1, <1>5, <2>2 DEF InFlight
    <3>2. req[r].seller \in Sellers
      BY <1>1, <3>1 DEF Phase
    <3>3. req[r].op # "update" \/ req[r].to \in {"Paid", "Shipped"}
      BY <1>2, <2>2
    <3>4. /\ req'[r].op = req[r].op /\ req'[r].to = req[r].to
          /\ req'[r].items = req[r].items /\ req'[r].seller \in Sellers
          /\ held'[r] = held[r] /\ order'[r].status = "none"
      BY <1>3, <1>5, <2>1, <3>2
    <3>5. held'[r] = IF req'[r].op = "create" \/ req'[r].to = "Cancelled"
                     THEN InOrder(req'[r].items) ELSE {}
      BY <2>1, <3>3, <3>4
    <3> QED
      BY <2>1, <3>1, <3>4, <3>5 DEF Phase, InFlight
  <2>3. CASE p = "ensureFee"
    BY <1>1, <1>2, <1>3, <1>5, <2>1, <2>3 DEF Phase, InFlight
  <2>4. CASE p = "release"
    BY <1>1, <1>2, <1>3, <1>5, <2>1, <2>4 DEF Phase, InFlight
  <2> QED
    BY <2>2, <2>3, <2>4
<1>7. Remembers(r)'
  BY <1>1, <1>3, <1>5 DEF Remembers, InFlight, tables
<1>8. /\ \A q \in Requests \ {r} : held[q] \cap held'[r] = {}
      /\ req'[r].op = "create" =>
           \A l \in held'[r] : req'[r].items[l] <= stock[l]
  BY <1>3, <1>5 DEF Inv, RowsLockedOnce, ReservationCovered
<1> QED
  BY <1>1, <1>5, <1>6, <1>7, <1>8, OwnStep

\* Looking for the fee of an order preserves Inv.
LEMMA EnsureCommissionInv ==
  ASSUME Inv, NEW r \in Requests, EnsureCommission(r) PROVE Inv'
<1> DEFINE b == fees[req[r].target] > 0
           h == [req[r] EXCEPT !.hasFee = b]
<1>1. /\ pc[r] = "ensureFee" /\ Phase(r) /\ Remembers(r)
      /\ req[r] \in Handlers /\ UNCHANGED tables /\ held' = held
      /\ pc' = [pc EXCEPT ![r] = "commit"] /\ req' = [req EXCEPT ![r] = h]
  BY DEF EnsureCommission, Inv, TypeOK
<1>2. /\ h.op = req[r].op /\ h.items = req[r].items /\ h.to = req[r].to
      /\ h.seller = req[r].seller /\ h.target = req[r].target
      /\ h.seen = req[r].seen /\ h \in Handlers
  <2>1. b \in BOOLEAN
    OBVIOUS
  <2> HIDE DEF b
  <2> QED
    BY <1>1, <2>1 DEF Handlers
<1> HIDE DEF h
<1>3. /\ TypeOK'
      /\ \A q \in Requests \ {r} :
           req'[q] = req[q] /\ pc'[q] = pc[q] /\ held'[q] = held[q]
      /\ req'[r] = h /\ pc'[r] = "commit" /\ held'[r] = held[r]
  BY <1>1, <1>2 DEF Inv, TypeOK, tables
<1>4. Phase(r)' /\ Remembers(r)'
  BY <1>1, <1>2, <1>3 DEF Phase, Remembers, InFlight, tables
<1>5. /\ \A q \in Requests \ {r} : held[q] \cap held'[r] = {}
      /\ req'[r].op = "create" =>
           \A l \in held'[r] : req'[r].items[l] <= stock[l]
  BY <1>2, <1>3 DEF Inv, RowsLockedOnce, ReservationCovered
<1> QED
  BY <1>1, <1>3, <1>4, <1>5, OwnStep

\* What Counted returns is again a pair of counters.
LEMMA CountedType ==
  ASSUME NEW c \in Counters, NEW from \in Statuses \cup {"none"},
         NEW to \in Statuses
  PROVE  Counted(c, from, to) \in Counters
BY DEF Counted, Counters

\* The commit of Create preserves Inv: every unit it takes is locked and there.
LEMMA CommitCreateInv ==
  ASSUME Inv, NEW r \in Requests, CommitCreate(r) PROVE Inv'
<1> DEFINE row == [status |-> "Pending", items |-> req[r].items,
                   seller |-> req[r].seller]
           newCounters == Counted(req[r].copy, "none", "Pending")
<1>1. /\ TypeOK /\ Phase(r) /\ pc[r] = "commit" /\ req[r].op = "create"
      /\ req[r] \in Handlers /\ req[r].seller \in Sellers
      /\ held[r] \subseteq InOrder(req[r].items)
      /\ \A l \in held[r] : req[r].items[l] <= stock[l]
  BY DEF CommitCreate, Inv, TypeOK, Phase, InFlight, ReservationCovered
<1>2. /\ req[r].items \in Quantities /\ req[r].copy \in Counters
      /\ row \in Rows /\ newCounters \in Counters
  BY <1>1, CountedType DEF Handlers, Rows, Statuses
<1>3. /\ order' = [order EXCEPT ![r] = row]
      /\ seller' = [seller EXCEPT ![req[r].seller] = newCounters]
      /\ stock' = [l \in Listings |->
                     IF l \in held[r] THEN stock[l] - req[r].items[l]
                                      ELSE stock[l]]
      /\ pc' = [pc EXCEPT ![r] = "done"] /\ held' = [held EXCEPT ![r] = {}]
      /\ fees' = fees /\ req' = req
  BY DEF CommitCreate, Finish
<1> HIDE DEF row, newCounters
<1>4. \A l \in Listings : stock'[l] \in Nat
  BY <1>1, <1>2, <1>3 DEF TypeOK, Quantities
<1>5. TypeOK'
  <2>1. stock' \in [Listings -> Nat]
    BY <1>3, <1>4
  <2> QED
    BY <1>1, <1>2, <1>3, <2>1 DEF TypeOK
<1>6. /\ \A q \in Requests \ {r} :
           order'[q] = order[q] /\ pc'[q] = pc[q] /\ held'[q] = held[q]
      /\ held'[r] = {} /\ pc'[r] = "done" /\ order'[r].status = "Pending"
      /\ order'[r].seller \in Sellers
  BY <1>1, <1>3 DEF TypeOK, row
<1>7. ASSUME NEW q \in Requests PROVE Phase(q)' /\ Remembers(q)'
  <2>1. CASE q = r
    BY <1>3, <1>6, <2>1 DEF Phase, Remembers, InFlight
  <2>2. CASE q # r
    <3>1. Phase(q) /\ Remembers(q) /\ Phase(r)
      BY DEF Inv
    <3>2. Phase(q)'
      BY <1>3, <1>6, <2>2, <3>1 DEF Phase, InFlight
    <3>3. order[r].status = "none"
      BY <1>1, <3>1 DEF Phase
    <3>4. Remembers(q)'
      <4>1. SUFFICES ASSUME InFlight(q) PROVE Remembers(q)'
        BY <1>6, <2>2 DEF Remembers, InFlight
      <4>2. CASE req[q].op = "create"
        BY <1>3, <1>6, <2>2, <3>1, <4>1, <4>2 DEF Remembers, InFlight
      <4>3. CASE req[q].op # "create"
        <5>1. req[q].target # r /\ req[q].target \in Requests
          BY <1>1, <3>1, <3>3, <4>1, <4>3 DEF Remembers, TypeOK, Handlers
        <5> QED
          BY <1>3, <1>6, <2>2, <3>1, <4>1, <4>3, <5>1 DEF Remembers, InFlight
      <4> QED
        BY <4>2, <4>3
    <3> QED
      BY <3>2, <3>4
  <2> QED
    BY <2>1, <2>2
<1>8. SellersKnown' /\ RowsLockedOnce'
  BY <1>6 DEF Inv, SellersKnown, RowsLockedOnce
<1>9. ReservationCovered'
  <2> SUFFICES ASSUME NEW q \in Requests, req'[q].op = "create",
                      NEW l \in held'[q]
               PROVE  req'[q].items[l] <= stock'[l]
    BY DEF ReservationCovered
  <2>1. q # r /\ l \in held[q] /\ l \in Listings /\ l \notin held[r]
    BY <1>1, <1>6 DEF Inv, TypeOK, RowsLockedOnce
  <2>2. stock'[l] = stock[l]
    BY <1>3, <2>1
  <2> QED
    BY <1>3, <2>1, <2>2 DEF Inv, ReservationCovered
<1> QED
  BY <1>5, <1>7, <1>8, <1>9 DEF Inv

\* The commit of UpdateStatus or Cancel preserves Inv, also when it is refused.
LEMMA CommitChangeInv ==
  ASSUME Inv, NEW r \in Requests, CommitChange(r) PROVE Inv'
<1> DEFINE o == req[r].target
           newCounters == Counted(req[r].copy, req[r].seen, req[r].to)
           n == IF Charges(r) THEN fees[o] + 1 ELSE fees[o]
<1>1. /\ TypeOK /\ Phase(r) /\ Remembers(r) /\ pc[r] = "commit"
      /\ req[r].op \in {"update", "cancel"} /\ Finish(r) /\ req' = req
      /\ req[r] \in Handlers /\ req[r].seller \in Sellers /\ o \in Requests
  BY DEF CommitChange, Inv, TypeOK, Phase, InFlight, Handlers
<1>2. CASE FeeClash(r) /\ UNCHANGED tables
  BY <1>1, <1>2, EndInv
<1>3. CASE /\ order' = [order EXCEPT ![o].status = req[r].to]
           /\ seller' = [seller EXCEPT ![req[r].seller] = newCounters]
           /\ fees' = [fees EXCEPT ![o] = n]
           /\ stock' = [l \in Listings |->
                          IF l \in held[r] THEN stock[l] + req[r].items[l]
                                           ELSE stock[l]]
  <2>1. /\ req[r].items \in Quantities /\ req[r].to \in Statuses
        /\ newCounters \in Counters /\ n \in Nat
        /\ order[o] \in Rows /\ order[o].status # "none"
    <3>1. newCounters \in Counters
      BY <1>1, CountedType DEF Handlers
    <3> QED
      BY <1>1, <3>1 DEF Handlers, TypeOK, Remembers, InFlight
  <2> HIDE DEF newCounters, n
  <2>2. /\ pc' = [pc EXCEPT ![r] = "done"] /\ held' = [held EXCEPT ![r] = {}]
    BY <1>1 DEF Finish
  <2>3. TypeOK'
    <3>1. \A l \in Listings :
            stock'[l] \in Nat /\ stock'[l] >= stock[l] /\ stock[l] \in Nat
      BY <1>1, <1>3, <2>1 DEF TypeOK, Quantities
    <3>2. stock' \in [Listings -> Nat]
      BY <1>3, <3>1
    <3>3. order' \in [Requests -> Rows]
      <4>1. [order[o] EXCEPT !.status = req[r].to] \in Rows
        BY <2>1 DEF Rows
      <4>2. order' = [order EXCEPT ![o] = [order[o] EXCEPT !.status = req[r].to]]
        BY <1>3
      <4> HIDE DEF o
      <4> QED
        BY <1>1, <4>1, <4>2 DEF TypeOK
    <3> QED
      BY <1>1, <1>3, <2>1, <2>2, <3>2, <3>3 DEF TypeOK
  <2>4. /\ \A q \in Requests \ {r} : pc'[q] = pc[q] /\ held'[q] = held[q]
        /\ held'[r] = {} /\ pc'[r] = "done"
        /\ \A q \in Requests : /\ order'[q].items = order[q].items
                               /\ order'[q].seller = order[q].seller
                               /\ order[q].status = "none" <=>
                                    order'[q].status = "none"
    <3>1. ASSUME NEW q \in Requests
          PROVE  /\ order'[q].items = order[q].items
                 /\ order'[q].seller = order[q].seller
                 /\ order[q].status = "none" <=> order'[q].status = "none"
      <4>1. order[q] \in Rows /\ req[r].to # "none"
        BY <1>1, <2>1 DEF TypeOK, Statuses
      <4>2. CASE q = o
        <5>1. order'[q] = [order[q] EXCEPT !.status = req[r].to]
          BY <1>1, <1>3, <4>2 DEF TypeOK
        <5> QED
          BY <2>1, <4>1, <4>2, <5>1 DEF Rows
      <4>3. CASE q # o
        BY <1>1, <1>3, <4>3 DEF TypeOK
      <4> QED
        BY <4>2, <4>3
    <3> QED
      BY <1>1, <2>2, <3>1 DEF TypeOK
  <2>5. ASSUME NEW q \in Requests PROVE Phase(q)' /\ Remembers(q)'
    <3>1. Phase(q) /\ Remembers(q) /\ req[q].target \in Requests
      BY DEF Inv, TypeOK, Handlers
    <3>2. CASE q = r
      <4>1. order[o].status # "none" /\ order'[r].status # "none" => pc[r] = "done"
        BY <2>4, <3>1, <3>2 DEF Phase
      <4> QED
        BY <1>1, <2>4, <3>1, <3>2 DEF Phase, Remembers, InFlight
    <3>3. CASE q # r
      BY <1>1, <2>4, <3>1, <3>3 DEF Phase, Remembers, InFlight
    <3> QED
      BY <3>2, <3>3
  <2>6. SellersKnown' /\ RowsLockedOnce'
    BY <2>4 DEF Inv, SellersKnown, RowsLockedOnce
  <2>7. ReservationCovered'
    <3> SUFFICES ASSUME NEW q \in Requests, req[q].op = "create",
                        NEW l \in held'[q]
                 PROVE  req[q].items[l] <= stock'[l]
      BY <1>1 DEF ReservationCovered
    <3>1. q # r /\ l \in held[q] /\ l \in Listings /\ l \notin held[r]
      BY <1>1, <2>4 DEF Inv, TypeOK, RowsLockedOnce
    <3>2. stock'[l] = stock[l]
      BY <1>3, <3>1
    <3> QED
      BY <3>1, <3>2 DEF Inv, ReservationCovered
  <2> QED
    BY <2>3, <2>5, <2>6, <2>7 DEF Inv
<1> QED
  BY <1>1, <1>2, <1>3 DEF CommitChange

\* Inv is a state predicate on vars.
LEMMA StutterInv == ASSUME Inv, UNCHANGED vars PROVE Inv'
BY DEF Inv, vars, tables, TypeOK, Phase, Remembers, InFlight, SellersKnown,
       RowsLockedOnce, ReservationCovered

\* Every step preserves Inv: one case for each action.
LEMMA NextInv == Inv /\ [Next]_vars => Inv'
<1> SUFFICES ASSUME Inv, [Next]_vars PROVE Inv'
  OBVIOUS
<1>1. ASSUME NEW r \in Requests, StartCreate(r) PROVE Inv'
  BY <1>1, StartCreateInv
<1>2. ASSUME NEW r \in Requests, StartUpdate(r) PROVE Inv'
  BY <1>2, StartUpdateInv
<1>3. ASSUME NEW r \in Requests, StartCancel(r) PROVE Inv'
  BY <1>3, StartCancelInv
<1>4. ASSUME NEW r \in Requests, ReserveStock(r) PROVE Inv'
  BY <1>4, ReserveStockInv
<1>5. ASSUME NEW r \in Requests, ReleaseStock(r) PROVE Inv'
  BY <1>5, ReleaseStockInv
<1>6. ASSUME NEW r \in Requests, ReadSeller(r) PROVE Inv'
  BY <1>6, ReadSellerInv
<1>7. ASSUME NEW r \in Requests, EnsureCommission(r) PROVE Inv'
  BY <1>7, EnsureCommissionInv
<1>8. ASSUME NEW r \in Requests, CommitCreate(r) PROVE Inv'
  BY <1>8, CommitCreateInv
<1>9. ASSUME NEW r \in Requests, CommitChange(r) PROVE Inv'
  BY <1>9, CommitChangeInv
<1>10. ASSUME NEW r \in Requests, Fail(r) \/ DetectDeadlock(r) PROVE Inv'
  BY <1>10, EndInv DEF Fail, DetectDeadlock
<1>11. CASE UNCHANGED vars
  BY <1>11, StutterInv
<1> QED
  BY <1>1, <1>2, <1>3, <1>4, <1>5, <1>6, <1>7, <1>8, <1>9, <1>10, <1>11
     DEF Next, Proceed, Quiet

\* Inv holds in every reachable state: it is inductive.
THEOREM Invariance == Spec => []Inv
<1> QED
  BY InitInv, NextInv, PTL DEF Spec

\* The variables keep their types; in particular no listing's stock is ever
\* below zero, which is what the CHECK constraint of the table would refuse.
THEOREM TypeCorrect == Spec => []TypeOK
<1>1. Inv => TypeOK
  BY DEF Inv
<1> QED
  BY <1>1, Invariance, PTL

\* No order takes units that are not there, however many requests overlap: what
\* a Create has reserved is still in the row when it commits.
THEOREM NoOversell == Spec => []ReservationCovered
<1>1. Inv => ReservationCovered
  BY DEF Inv
<1> QED
  BY <1>1, Invariance, PTL

\* An order is charged its commission at most once, although the look for an
\* existing fee and the insert are separate steps of overlapping requests.
THEOREM ChargedAtMostOnce == Spec => []FeeAtMostOnce
<1>1. Init => FeeAtMostOnce
  BY DEF Init, FeeAtMostOnce
<1>2. Inv /\ FeeAtMostOnce /\ [Next]_vars => FeeAtMostOnce'
  <2> SUFFICES ASSUME Inv, FeeAtMostOnce, [Next]_vars PROVE FeeAtMostOnce'
    OBVIOUS
  <2>1. ASSUME NEW r \in Requests, CommitChange(r) PROVE FeeAtMostOnce'
    <3>1. fees \in [Requests -> Nat] /\ req[r] \in Handlers
      BY DEF Inv, TypeOK
    <3>2. CASE UNCHANGED tables
      BY <3>2 DEF tables, FeeAtMostOnce
    <3>3. CASE /\ ~FeeClash(r)
               /\ fees' = [fees EXCEPT ![req[r].target] =
                             IF Charges(r) THEN @ + 1 ELSE @]
      BY <3>1, <3>3 DEF FeeAtMostOnce, FeeClash, Handlers
    <3> QED
      BY <2>1, <3>2, <3>3 DEF CommitChange
  <2>2. CASE fees' = fees
    BY <2>2 DEF FeeAtMostOnce
  <2>3. [Next]_vars => fees' = fees \/ \E r \in Requests : CommitChange(r)
    BY DEF Next, Proceed, Quiet, vars, tables, StartCreate, StartUpdate,
           StartCancel, ReserveStock, ReleaseStock, ReadSeller,
           EnsureCommission, CommitCreate, Fail, DetectDeadlock
  <2> QED
    BY <2>1, <2>2, <2>3
<1> QED
  BY <1>1, <1>2, Invariance, PTL DEF Spec

-----------------------------------------------------------------------------
\* Only the two commits write a table.
LEMMA OnlyCommitsWrite ==
  ASSUME [Next]_vars
  PROVE  \/ UNCHANGED tables
         \/ \E r \in Requests : CommitCreate(r) \/ CommitChange(r)
BY DEF Next, Proceed, Quiet, vars, StartCreate, StartUpdate, StartCancel,
       ReserveStock, ReleaseStock, ReadSeller, EnsureCommission, Fail,
       DetectDeadlock

\* The stock of Create's commit, read as the units of the whole order.
LEMMA CreateIsClaim ==
  ASSUME Inv, NEW r \in Requests, CommitCreate(r)
  PROVE  Promise!Claim(r)
<1>1. /\ TypeOK /\ Phase(r) /\ req[r] \in Handlers /\ req[r].items \in Quantities
      /\ pc[r] = "commit" /\ req[r].op = "create"
      /\ \A l \in held[r] : req[r].items[l] <= stock[l]
  BY DEF CommitCreate, Inv, TypeOK, Handlers, ReservationCovered
<1>2. held[r] = InOrder(req[r].items) /\ order[r].status = "none"
  BY <1>1 DEF Phase
<1>3. \A l \in Listings :
        /\ req[r].items[l] <= stock[l]
        /\ stock'[l] = stock[l] - req[r].items[l]
  BY <1>1, <1>2 DEF CommitCreate, InOrder, TypeOK, Quantities
<1>4. stock' = [l \in Listings |-> stock[l] - req[r].items[l]]
  BY <1>3 DEF CommitCreate
<1>5. order' = [order EXCEPT ![r] = [status |-> "Pending",
                                     items |-> req[r].items,
                                     seller |-> req[r].seller]]
  BY DEF CommitCreate
<1> QED
  BY <1>1, <1>2, <1>3, <1>4, <1>5 DEF Promise!Claim, TypeOK

\* A commit of UpdateStatus or Cancel returns the whole order, takes a
\* cancellation back, or moves nothing.
LEMMA ChangeIsReturn ==
  ASSUME Inv, NEW r \in Requests, NEW o \in Requests, o = req[r].target,
         CommitChange(r)
  PROVE  \/ Promise!Return(o)
         \/ Promise!Revive(o) /\ order[o].status = "Cancelled"
         \/ UNCHANGED Promise!vars
<1>1. /\ TypeOK /\ Phase(r) /\ Remembers(r) /\ req[r] \in Handlers
      /\ pc[r] = "commit" /\ req[r].op \in {"update", "cancel"}
      /\ o \in Requests /\ order[o] \in Rows /\ req[r].to \in Statuses
  BY DEF CommitChange, Inv, TypeOK, Handlers
<1>2. CASE UNCHANGED tables
  BY <1>2 DEF tables, Promise!vars
<1>3. CASE /\ order' = [order EXCEPT ![o].status = req[r].to]
           /\ stock' = [l \in Listings |->
                          IF l \in held[r] THEN stock[l] + req[r].items[l]
                                           ELSE stock[l]]
  <2>1. /\ order[o].status # "none" /\ req[r].items = order[o].items
        /\ held[r] = IF req[r].to = "Cancelled" THEN InOrder(order[o].items)
                                                ELSE {}
    BY <1>1 DEF Phase, Remembers, InFlight
  <2> DEFINE claim == [q \in Requests |-> order[q].items]
             live(row) == CASE row.status = "none" -> "none"
                            [] row.status = "Cancelled" -> "back"
                            [] OTHER -> "out"
  <2>2. \A q \in Requests : order'[q].items = order[q].items
                            /\ (q # o => order'[q] = order[q])
    BY <1>1, <1>3 DEF TypeOK, Rows
  <2>3. order'[o].status = req[r].to /\ req[r].to # "none"
    BY <1>1, <1>3 DEF TypeOK, Rows, Statuses
  <2>4. [q \in Requests |-> live(order'[q])] =
          [[q \in Requests |-> live(order[q])] EXCEPT ![o] = live(order'[o])]
    BY <1>1, <2>2
  <2>5. CASE req[r].to = "Cancelled"
    <3>1. \A l \in Listings : stock'[l] = stock[l] + order[o].items[l]
      BY <1>1, <1>3, <2>1, <2>5 DEF InOrder, TypeOK, Rows, Quantities
    <3>2. stock' = [l \in Listings |-> stock[l] + order[o].items[l]]
      BY <1>3, <3>1
    <3>3. Promise!Return(o)
      BY <1>1, <2>1, <2>2, <2>3, <2>4, <2>5, <3>2 DEF Promise!Return
    <3> QED
      BY <3>3
  <2>6. CASE req[r].to # "Cancelled"
    <3>1. stock' = stock
      BY <1>1, <1>3, <2>1, <2>6 DEF TypeOK
    <3>2. CASE order[o].status = "Cancelled"
      <4>1. Promise!Revive(o)
        BY <1>1, <2>1, <2>2, <2>3, <2>4, <2>6, <3>1, <3>2 DEF Promise!Revive
      <4> QED
        BY <3>2, <4>1
    <3>3. CASE order[o].status # "Cancelled"
      BY <1>1, <2>1, <2>2, <2>3, <2>4, <2>6, <3>1, <3>3 DEF Promise!vars
    <3> QED
      BY <3>2, <3>3
  <2> QED
    BY <2>5, <2>6
<1> QED
  BY <1>2, <1>3 DEF CommitChange

\* The handlers, with their locks, their partial reservations and their
\* failures, do to stock only what Inventory promises.
THEOREM KeepsPromise == Spec => ImplementsInventory
<1>1. Init => Promise!Init
  BY InitRows, OrdersAssumption DEF Init, Promise!Init, Rows
<1>2. Inv /\ [Next]_vars => [Promise!Next]_(Promise!vars)
  <2> SUFFICES ASSUME Inv, [Next]_vars PROVE [Promise!Next]_(Promise!vars)
    OBVIOUS
  <2>1. CASE UNCHANGED tables
    BY <2>1 DEF tables, Promise!vars
  <2>2. ASSUME NEW r \in Requests, CommitCreate(r)
        PROVE  [Promise!Next]_(Promise!vars)
    <3>1. Promise!Next
      BY <2>2, CreateIsClaim DEF Promise!Next
    <3> QED
      BY <3>1
  <2>3. ASSUME NEW r \in Requests, CommitChange(r)
        PROVE  [Promise!Next]_(Promise!vars)
    <3>1. PICK o \in Requests : o = req[r].target
      BY DEF Inv, TypeOK, Handlers
    <3>2. Promise!Next \/ UNCHANGED Promise!vars
      BY <2>3, <3>1, ChangeIsReturn DEF Promise!Next
    <3> QED
      BY <3>2
  <2> QED
    BY <2>1, <2>2, <2>3, OnlyCommitsWrite
<1> QED
  BY <1>1, <1>2, Invariance, PTL DEF Spec, ImplementsInventory, Promise!Spec

-----------------------------------------------------------------------------
\* From here on, clients whose requests about one order do not overlap.

\* A step that starts no request and writes no table.
LEMMA NothingNew ==
  ASSUME SeenIsCurrent, UNCHANGED tables,
         \A q \in Requests : InFlight(q)' =>
           /\ InFlight(q)
           /\ req'[q].target = req[q].target /\ req'[q].seen = req[q].seen
  PROVE  SeenIsCurrent'
BY DEF SeenIsCurrent, tables

\* A request that starts: nobody in flight is about its order.
LEMMA NewcomerAlone ==
  ASSUME Inv, SeenIsCurrent, Isolation # "none", UNCHANGED tables,
         NEW r \in Requests, NEW o \in Requests,
         \A q \in Requests \ {r} : req'[q] = req[q] /\ pc'[q] = pc[q],
         req'[r].target = o, req'[r].seen = order[o].status,
         \A q \in Requests \ {r} : InFlight(q) => req[q].target # o
  PROVE  SeenIsCurrent'
BY DEF SeenIsCurrent, tables, InFlight

\* A Create that starts is alone with the order it will insert.
LEMMA StartCreateCurrent ==
  ASSUME Inv, SeenIsCurrent, Isolation # "none",
         NEW r \in Requests, StartCreate(r)
  PROVE  SeenIsCurrent'
<1>1. IdleFacts(r) /\ pc[r] = "idle" /\ UNCHANGED tables /\ TypeOK /\ Inv'
  BY Idle, StartCreateInv DEF StartCreate, Inv
<1>2. \A q \in Requests \ {r} : req'[q] = req[q] /\ pc'[q] = pc[q]
  BY <1>1 DEF StartCreate, TypeOK
<1>3. \A q \in Requests \ {r} : InFlight(q) => req[q].target # r
  BY <1>1 DEF Inv, Remembers, IdleFacts
<1>4. req'[r].target = r /\ req'[r].seen = order[r].status
  <2>1. CASE UNCHANGED req
    BY <1>1, <2>1 DEF IdleFacts
  <2>2. ASSUME NEW it \in Quantities, NEW s \in Sellers, NEW w \in Listings,
               req' = [req EXCEPT
                         ![r] = [@ EXCEPT !.op = "create", !.items = it,
                                          !.seller = s, !.want = w]]
        PROVE  req'[r].target = r /\ req'[r].seen = order[r].status
    BY <1>1, <2>2 DEF TypeOK, Handlers, IdleFacts
  <2>3. \/ UNCHANGED req
        \/ \E it \in Quantities, s \in Sellers, w \in Listings :
             req' = [req EXCEPT
                       ![r] = [@ EXCEPT !.op = "create", !.items = it,
                                        !.seller = s, !.want = w]]
    BY DEF StartCreate, InOrder
  <2> QED
    BY <2>1, <2>2, <2>3
<1> QED
  BY <1>1, <1>2, <1>3, <1>4, NewcomerAlone

\* UpdateStatus and Cancel start alike: either they answer at once, or they
\* are about an order that nobody in flight is about.
LEMMA StartChangeCurrent ==
  ASSUME Inv, SeenIsCurrent, Isolation # "none",
         NEW r \in Requests, StartUpdate(r) \/ StartCancel(r)
  PROVE  SeenIsCurrent'
<1>1. /\ IdleFacts(r) /\ pc[r] = "idle" /\ UNCHANGED tables /\ TypeOK
      /\ \A q \in Requests : Phase(q) /\ Remembers(q)
  BY Idle DEF StartUpdate, StartCancel, Inv
<1>2. \A q \in Requests \ {r} : req'[q] = req[q] /\ pc'[q] = pc[q]
  BY <1>1 DEF StartUpdate, StartCancel, TypeOK
<1>3. \/ pc' = [pc EXCEPT ![r] = "done"]
      \/ \E o \in Requests :
           /\ order[o].status # "none" /\ MayStart(r, o, order[o].seller)
           /\ req'[r].target = o /\ req'[r].seen = order[o].status
  <2>1. CASE StartUpdate(r)
    <3>1. SUFFICES ASSUME pc' # [pc EXCEPT ![r] = "done"]
                   PROVE  \E o \in Requests :
                            /\ order[o].status # "none"
                            /\ MayStart(r, o, order[o].seller)
                            /\ req'[r].target = o
                            /\ req'[r].seen = order[o].status
      OBVIOUS
    <3>2. PICK o \in Requests, to \in Statuses :
            /\ order[o].status # "none" /\ MayStart(r, o, order[o].seller)
            /\ req' = [req EXCEPT
                         ![r] = [@ EXCEPT !.op = "update", !.target = o,
                                          !.seen = order[o].status, !.to = to,
                                          !.items = order[o].items,
                                          !.seller = order[o].seller]]
      BY <2>1, <3>1 DEF StartUpdate
    <3>3. req'[r].target = o /\ req'[r].seen = order[o].status
      BY <1>1, <3>2 DEF TypeOK, Handlers
    <3> QED
      BY <3>2, <3>3
  <2>2. CASE StartCancel(r)
    <3>1. SUFFICES ASSUME pc' # [pc EXCEPT ![r] = "done"]
                   PROVE  \E o \in Requests :
                            /\ order[o].status # "none"
                            /\ MayStart(r, o, order[o].seller)
                            /\ req'[r].target = o
                            /\ req'[r].seen = order[o].status
      OBVIOUS
    <3>2. PICK o \in Requests :
            /\ order[o].status = "Pending" /\ MayStart(r, o, order[o].seller)
            /\ \E l \in InOrder(order[o].items) :
                 req' = [req EXCEPT
                           ![r] = [@ EXCEPT !.op = "cancel", !.target = o,
                                            !.seen = "Pending",
                                            !.to = "Cancelled",
                                            !.items = order[o].items,
                                            !.seller = order[o].seller,
                                            !.want = l]]
      BY <2>2, <3>1 DEF StartCancel, Cancellable
    <3>3. req'[r].target = o /\ req'[r].seen = order[o].status
      BY <1>1, <3>2 DEF TypeOK, Handlers
    <3> QED
      BY <3>2, <3>3
  <2> QED
    BY <2>1, <2>2
<1>4. CASE pc' = [pc EXCEPT ![r] = "done"]
  BY <1>1, <1>2, <1>4, NothingNew DEF InFlight, TypeOK
<1>5. ASSUME NEW o \in Requests, order[o].status # "none",
             MayStart(r, o, order[o].seller),
             req'[r].target = o, req'[r].seen = order[o].status
      PROVE  SeenIsCurrent'
  <2>1. ASSUME NEW q \in Requests \ {r}, InFlight(q)
        PROVE  req[q].target # o
    <3>1. req[q].op = "create" => req[q].target = q /\ q # o
      BY <1>1, <1>5, <2>1 DEF Phase, Remembers, InFlight
    <3>2. req[q].op # "create" /\ req[q].target = o =>
            req[q].seller = order[o].seller
      BY <1>1, <2>1 DEF Remembers
    <3> QED
      BY <1>5, <2>1, <3>1, <3>2, OrdersAssumption DEF MayStart
  <2> QED
    BY <1>1, <1>2, <1>5, <2>1, NewcomerAlone
<1> QED
  BY <1>3, <1>4, <1>5

\* The other steps of a handler and its end.  A commit changes one order, the
\* one it is about, and leaves nobody in flight that is about it.
LEMMA ProceedCurrent ==
  ASSUME Inv, SeenIsCurrent, Isolation # "none", NEW r \in Requests,
         Proceed(r) \/ Fail(r) \/ DetectDeadlock(r)
  PROVE  SeenIsCurrent'
<1>1. TypeOK /\ (\A q \in Requests : Phase(q) /\ Remembers(q))
  BY DEF Inv
<1>2. ASSUME UNCHANGED tables,
             \/ UNCHANGED req
             \/ \E l \in Listings \cup {Null} :
                  req' = [req EXCEPT ![r].want = l],
             InFlight(r), \A q \in Requests \ {r} : pc'[q] = pc[q]
      PROVE  SeenIsCurrent'
  <2>1. \A q \in Requests : req'[q].target = req[q].target
                            /\ req'[q].seen = req[q].seen
    BY <1>1, <1>2 DEF TypeOK, Handlers
  <2>2. \A q \in Requests : InFlight(q)' => InFlight(q)
    BY <1>2 DEF InFlight
  <2> QED
    BY <1>2, <2>1, <2>2, NothingNew
<1>3. CASE Fail(r) \/ DetectDeadlock(r)
  <2>1. /\ UNCHANGED <<tables, req>>
        /\ \A q \in Requests : InFlight(q)' => InFlight(q)
    BY <1>1, <1>3 DEF Fail, DetectDeadlock, Finish, InFlight, TypeOK
  <2> QED
    BY <2>1, NothingNew
<1>4. CASE ReserveStock(r) \/ ReleaseStock(r)
  <2>1. UNCHANGED tables /\ InFlight(r)
        /\ \A q \in Requests \ {r} : pc'[q] = pc[q]
    BY <1>1, <1>4 DEF ReserveStock, ReleaseStock, NextListing, Finish,
                      InFlight, TypeOK
  <2>2. \/ UNCHANGED req
        \/ \E l \in Listings \cup {Null} : req' = [req EXCEPT ![r].want = l]
    BY <1>4 DEF ReserveStock, ReleaseStock, NextListing, InOrder
  <2> QED
    BY <1>2, <2>1, <2>2
<1>5. CASE ReadSeller(r)
  <2>1. /\ UNCHANGED tables
        /\ \A q \in Requests : InFlight(q)' => InFlight(q)
    BY <1>1, <1>5 DEF ReadSeller, InFlight, TypeOK
  <2>2. \/ req' = [req EXCEPT ![r].copy = seller[req[r].seller]]
        \/ \E l \in Listings :
             req' = [req EXCEPT ![r].copy = seller[req[r].seller],
                                ![r].want = l]
    BY <1>5 DEF ReadSeller, InOrder
  <2>3. \A q \in Requests : req'[q].target = req[q].target
                            /\ req'[q].seen = req[q].seen
    BY <1>1, <2>2 DEF TypeOK, Handlers
  <2> QED
    BY <2>1, <2>3, NothingNew
<1>6. CASE EnsureCommission(r)
  <2>1. /\ UNCHANGED tables
        /\ \A q \in Requests : InFlight(q)' => InFlight(q)
    BY <1>1, <1>6 DEF EnsureCommission, InFlight, TypeOK
  <2>2. \A q \in Requests : req'[q].target = req[q].target
                            /\ req'[q].seen = req[q].seen
    BY <1>1, <1>6 DEF EnsureCommission, TypeOK, Handlers
  <2> QED
    BY <2>1, <2>2, NothingNew
<1>7. CASE CommitCreate(r) \/ CommitChange(r)
  <2>1. /\ InFlight(r) /\ pc'[r] = "done" /\ UNCHANGED req
        /\ \A q \in Requests \ {r} : pc'[q] = pc[q]
    BY <1>1, <1>7 DEF CommitCreate, CommitChange, Finish, InFlight, TypeOK
  <2>2. \A o \in Requests \ {req[r].target} : order'[o] = order[o]
    BY <1>1, <1>7, <2>1
       DEF CommitCreate, CommitChange, tables, TypeOK, Remembers
  <2>3. \A q \in Requests : req[q].target \in Requests
    BY <1>1 DEF TypeOK, Handlers
  <2> QED
    BY <2>1, <2>2, <2>3 DEF SeenIsCurrent, InFlight
<1> QED
  BY <1>3, <1>4, <1>5, <1>6, <1>7 DEF Proceed

\* What a handler read of the status of its order holds until it commits,
\* when requests about one order do not overlap.
LEMMA CurrentInv == Inv /\ SeenIsCurrent /\ [Next]_vars => SeenIsCurrent'
<1> SUFFICES ASSUME Inv, SeenIsCurrent, [Next]_vars, Isolation # "none"
             PROVE  SeenIsCurrent'
  BY DEF SeenIsCurrent
<1>1. CASE UNCHANGED vars
  BY <1>1 DEF vars, tables, SeenIsCurrent, InFlight
<1> QED
  BY <1>1, StartCreateCurrent, StartChangeCurrent, ProceedCurrent
     DEF Next, Quiet

\* SeenIsCurrent holds in every reachable state.
THEOREM SeenStaysCurrent == Spec => [](Inv /\ SeenIsCurrent)
<1>1. Init => SeenIsCurrent
  BY DEF Init, SeenIsCurrent, InFlight
<1> QED
  BY <1>1, CurrentInv, Invariance, PTL DEF Spec

\* The status UpdateStatus or Cancel checked is the status it replaces, so
\* rows, not only copies of them, move along IsAllowedTransition.
THEOREM StatusFollowsMachine ==
  ASSUME Isolation # "none" PROVE Spec => StatusMachine
<1>1. Inv /\ SeenIsCurrent /\ [Next]_vars => [StatusStep]_vars
  <2> SUFFICES ASSUME Inv, SeenIsCurrent, [Next]_vars PROVE StatusStep
    OBVIOUS
  <2>1. TypeOK /\ (\A q \in Requests : Phase(q) /\ Remembers(q))
    BY DEF Inv
  <2>2. CASE UNCHANGED tables
    BY <2>2 DEF tables, StatusStep
  <2>3. ASSUME NEW r \in Requests, CommitCreate(r) PROVE StatusStep
    <3>1. order[r].status = "none" /\ order'[r].status = "Pending"
          /\ \A o \in Requests \ {r} : order'[o] = order[o]
      BY <2>1, <2>3 DEF CommitCreate, Phase, TypeOK
    <3> QED
      BY <3>1 DEF StatusStep
  <2>4. ASSUME NEW r \in Requests, CommitChange(r), ~UNCHANGED tables
        PROVE  StatusStep
    <3>1. /\ InFlight(r) /\ req[r] \in Handlers /\ req[r].op # "create"
          /\ order' = [order EXCEPT ![req[r].target].status = req[r].to]
      BY <2>1, <2>4 DEF CommitChange, InFlight, TypeOK
    <3>2. /\ IsAllowedTransition(req[r].seen, req[r].to)
          /\ order[req[r].target].status = req[r].seen
          /\ req[r].seen # "none"
      BY <2>1, <3>1 DEF Remembers, SeenIsCurrent
    <3>3. /\ order'[req[r].target].status = req[r].to
          /\ \A o \in Requests \ {req[r].target} : order'[o] = order[o]
      BY <2>1, <3>1 DEF TypeOK, Handlers, Rows
    <3> QED
      BY <3>2, <3>3 DEF StatusStep
  <2> QED
    BY <2>2, <2>3, <2>4, OnlyCommitsWrite
<1> QED
  BY <1>1, SeenStaysCurrent, PTL DEF Spec, StatusMachine

\* A change that commits replaces the status of an order that stands.
LEMMA ReplacesLive ==
  ASSUME Inv, SeenIsCurrent, Isolation # "none",
         NEW r \in Requests, NEW o \in Requests, o = req[r].target,
         CommitChange(r)
  PROVE  order[o].status \notin {"Cancelled", "none"}
<1>1. InFlight(r) /\ Remembers(r) /\ req[r].op # "create"
  BY DEF CommitChange, Inv, InFlight
<1>2. IsAllowedTransition(req[r].seen, req[r].to) /\ order[o].status = req[r].seen
  BY <1>1 DEF Remembers, SeenIsCurrent
<1> QED
  BY <1>2 DEF IsAllowedTransition

\* An order gives its units back once, for good, however its cancellation and
\* the other changes of it are spread over requests that do not overlap.
THEOREM ReturnsOnce ==
  ASSUME Isolation # "none" PROVE Spec => ImplementsInventoryOnce
<1>1. Init => Promise!Init
  BY InitRows, OrdersAssumption DEF Init, Promise!Init, Rows
<1>2. Inv /\ SeenIsCurrent /\ [Next]_vars => [Promise!OnceNext]_(Promise!vars)
  <2> SUFFICES ASSUME Inv, SeenIsCurrent, [Next]_vars
               PROVE  Promise!OnceNext \/ UNCHANGED Promise!vars
    OBVIOUS
  <2>1. CASE UNCHANGED tables
    BY <2>1 DEF tables, Promise!vars
  <2>2. ASSUME NEW r \in Requests, CommitCreate(r) PROVE Promise!OnceNext
    BY <2>2, CreateIsClaim DEF Promise!OnceNext
  <2>3. ASSUME NEW r \in Requests, CommitChange(r)
        PROVE  Promise!OnceNext \/ UNCHANGED Promise!vars
    <3>1. PICK o \in Requests : o = req[r].target
      BY DEF Inv, TypeOK, Handlers
    <3>2. order[o].status # "Cancelled" /\ order[o].status # "none"
      BY <2>3, <3>1, ReplacesLive
    <3>3. Promise!Return(o) => Promise!ReturnOnce(o)
      BY <3>2 DEF Promise!ReturnOnce
    <3> QED
      BY <2>3, <3>1, <3>2, <3>3, ChangeIsReturn DEF Promise!OnceNext
  <2> QED
    BY <2>1, <2>2, <2>3, OnlyCommitsWrite
<1> QED
  BY <1>1, <1>2, SeenStaysCurrent, PTL
     DEF Spec, ImplementsInventoryOnce, Promise!OnceSpec

\* A request that looks for a fee finds none: the order it is about is not
\* Completed yet, and only Completed orders have one.
NoFeeFound == \A r \in Requests : ~req[r].hasFee

LEMMA NoFeeFoundStep ==
  ASSUME Inv, SeenIsCurrent, ChargedIffCompleted, NoFeeFound,
         Isolation # "none", [Next]_vars
  PROVE  NoFeeFound'
<1>1. TypeOK /\ \A r \in Requests : req[r] \in Handlers /\ Remembers(r)
  BY DEF Inv, TypeOK
<1>2. ASSUME NEW r \in Requests, EnsureCommission(r) PROVE NoFeeFound'
  <2>1. req[r].target \in Requests /\ InFlight(r) /\ req[r].op = "update"
    BY <1>1, <1>2 DEF EnsureCommission, InFlight, Inv, Phase, Handlers
  <2>2. order[req[r].target].status # "Completed"
    BY <1>1, <2>1 DEF Remembers, SeenIsCurrent, IsAllowedTransition
  <2>3. ~(fees[req[r].target] > 0)
    BY <2>1, <2>2 DEF ChargedIffCompleted
  <2> QED
    BY <1>1, <1>2, <2>3 DEF EnsureCommission, NoFeeFound, Handlers
<1>3. ASSUME NEW r \in Requests,
             StartCreate(r) \/ StartUpdate(r) \/ StartCancel(r)
             \/ ReserveStock(r) \/ ReleaseStock(r) \/ ReadSeller(r)
      PROVE  NoFeeFound'
  <2>1. \A q \in Requests \ {r} : req'[q] = req[q]
    BY <1>1, <1>3 DEF StartCreate, StartUpdate, StartCancel, ReserveStock,
                      ReleaseStock, ReadSeller, NextListing, TypeOK
  <2>2. req'[r].hasFee = req[r].hasFee
    <3>1. req[r] \in Handlers /\ req \in [Requests -> Handlers]
      BY <1>1 DEF TypeOK
    <3>2. CASE StartCreate(r)
      <4>1. ASSUME NEW it \in Quantities, NEW s \in Sellers, NEW l \in Listings,
                   req' = [req EXCEPT
                             ![r] = [@ EXCEPT !.op = "create",
                                              !.items = it,
                                              !.seller = s,
                                              !.want = l]]
            PROVE  req'[r].hasFee = req[r].hasFee
        BY <3>1, <4>1 DEF Handlers
      <4>2. \/ UNCHANGED req
            \/ \E it \in Quantities, s \in Sellers, l \in Listings :
                 req' = [req EXCEPT
                           ![r] = [@ EXCEPT !.op = "create",
                                            !.items = it,
                                            !.seller = s,
                                            !.want = l]]
        BY <3>2 DEF StartCreate, InOrder
      <4> QED
        BY <4>1, <4>2
    <3>3. CASE StartUpdate(r)
      <4>1. ASSUME NEW o, NEW to,
                   req' = [req EXCEPT
                             ![r] = [@ EXCEPT !.op = "update",
                                              !.target = o,
                                              !.seen = order[o].status,
                                              !.to = to,
                                              !.items = order[o].items,
                                              !.seller = order[o].seller]]
            PROVE  req'[r].hasFee = req[r].hasFee
        BY <3>1, <4>1 DEF Handlers
      <4>2. \/ UNCHANGED req
            \/ \E o, to :
                 req' = [req EXCEPT
                           ![r] = [@ EXCEPT !.op = "update",
                                            !.target = o,
                                            !.seen = order[o].status,
                                            !.to = to,
                                            !.items = order[o].items,
                                            !.seller = order[o].seller]]
        BY <3>3 DEF StartUpdate
      <4> QED
        BY <4>1, <4>2
    <3>4. CASE StartCancel(r)
      <4>1. ASSUME NEW o, NEW l,
                   req' = [req EXCEPT
                             ![r] = [@ EXCEPT !.op = "cancel",
                                              !.target = o,
                                              !.seen = "Pending",
                                              !.to = "Cancelled",
                                              !.items = order[o].items,
                                              !.seller = order[o].seller,
                                              !.want = l]]
            PROVE  req'[r].hasFee = req[r].hasFee
        BY <3>1, <4>1 DEF Handlers
      <4>2. \/ UNCHANGED req
            \/ \E o, l :
                 req' = [req EXCEPT
                           ![r] = [@ EXCEPT !.op = "cancel",
                                            !.target = o,
                                            !.seen = "Pending",
                                            !.to = "Cancelled",
                                            !.items = order[o].items,
                                            !.seller = order[o].seller,
                                            !.want = l]]
        BY <3>4 DEF StartCancel
      <4> QED
        BY <4>1, <4>2
    <3>5. CASE ReserveStock(r) \/ ReleaseStock(r)
      BY <3>1, <3>5 DEF ReserveStock, ReleaseStock, NextListing, Handlers
    <3>6. CASE ReadSeller(r)
      BY <3>1, <3>6 DEF ReadSeller, Handlers
    <3> QED
      BY <1>3, <3>2, <3>3, <3>4, <3>5, <3>6
  <2> QED
    BY <2>1, <2>2 DEF NoFeeFound
<1>4. CASE UNCHANGED req
  BY <1>4 DEF NoFeeFound
<1> QED
  BY <1>2, <1>3, <1>4 DEF Next, Proceed, Quiet, vars, CommitCreate,
                          CommitChange, Fail, DetectDeadlock

\* With clients that do not overlap on one order, the orders that are Completed
\* have been charged their commission, and no others.
THEOREM ChargedWhenCompleted ==
  ASSUME Isolation # "none" PROVE Spec => []ChargedIffCompleted
<1>1. Init => ChargedIffCompleted /\ NoFeeFound
  BY DEF Init, ChargedIffCompleted, NoFeeFound, Fresh
<1>2. Inv /\ SeenIsCurrent /\ ChargedIffCompleted /\ NoFeeFound /\ [Next]_vars
        => ChargedIffCompleted'
  <2> SUFFICES ASSUME Inv, SeenIsCurrent, ChargedIffCompleted, NoFeeFound,
                      [Next]_vars
               PROVE  ChargedIffCompleted'
    OBVIOUS
  <2>1. TypeOK /\ \A r \in Requests : Phase(r) /\ Remembers(r)
    BY DEF Inv
  <2>2. CASE UNCHANGED tables
    BY <2>2 DEF tables, ChargedIffCompleted
  <2>3. ASSUME NEW r \in Requests, CommitCreate(r) PROVE ChargedIffCompleted'
    <3>1. /\ order[r].status = "none" /\ order'[r].status = "Pending"
          /\ \A o \in Requests \ {r} : order'[o] = order[o]
          /\ fees' = fees
      BY <2>1, <2>3 DEF CommitCreate, Phase, TypeOK
    <3> QED
      BY <3>1 DEF ChargedIffCompleted
  <2>4. ASSUME NEW r \in Requests, CommitChange(r), ~UNCHANGED tables
        PROVE  ChargedIffCompleted'
    <3> DEFINE o == req[r].target
    <3>1. /\ InFlight(r) /\ req[r] \in Handlers /\ req[r].op # "create"
          /\ o \in Requests
          /\ order' = [order EXCEPT ![o].status = req[r].to]
          /\ fees' = [fees EXCEPT ![o] = IF Charges(r) THEN @ + 1 ELSE @]
      BY <2>1, <2>4 DEF CommitChange, InFlight, TypeOK, Handlers
    <3>2. order[o].status # "Completed"
      BY <2>1, <3>1 DEF Remembers, SeenIsCurrent, IsAllowedTransition
    <3>3. fees[o] = 0 /\ (Charges(r) <=> req[r].to = "Completed")
      BY <3>1, <3>2 DEF ChargedIffCompleted, NoFeeFound, Charges
    <3>4. /\ order'[o].status = req[r].to
          /\ \A p \in Requests \ {o} : order'[p] = order[p]
      BY <2>1, <3>1 DEF TypeOK, Handlers, Rows
    <3>5. /\ fees'[o] = IF req[r].to = "Completed" THEN 1 ELSE 0
          /\ \A p \in Requests \ {o} : fees'[p] = fees[p]
      BY <2>1, <3>1, <3>3 DEF TypeOK
    <3> QED
      BY <3>4, <3>5 DEF ChargedIffCompleted
  <2> QED
    BY <2>2, <2>3, <2>4, OnlyCommitsWrite
<1>3. Inv /\ SeenIsCurrent /\ ChargedIffCompleted /\ NoFeeFound /\ [Next]_vars
        => NoFeeFound'
  BY NoFeeFoundStep
<1> QED
  BY <1>1, <1>2, <1>3, SeenStaysCurrent, PTL DEF Spec
-----------------------------------------------------------------------------
\* From here on, clients whose requests about one seller do not overlap.

\* A step of one request that leaves the tables alone keeps the copies current,
\* if it does so for that request.
LEMMA OwnCopy ==
  ASSUME Inv, CopyIsCurrent, Isolation = "seller", UNCHANGED tables,
         NEW r \in Requests,
         \A q \in Requests \ {r} : req'[q] = req[q] /\ pc'[q] = pc[q],
         InFlight(r)' => \A q \in Requests \ {r} :
           InFlight(q) => req[q].seller # req'[r].seller,
         HasCopy(r)' => req'[r].copy = seller[req'[r].seller]
  PROVE  CopyIsCurrent'
BY DEF CopyIsCurrent, InFlight, HasCopy, tables

\* A step of a request in flight that keeps its seller.
LEMMA SameSeller ==
  ASSUME Inv, CopyIsCurrent, Isolation = "seller", UNCHANGED tables,
         NEW r \in Requests, InFlight(r), req'[r].seller = req[r].seller,
         \A q \in Requests \ {r} : req'[q] = req[q] /\ pc'[q] = pc[q],
         HasCopy(r)' => req'[r].copy = seller[req[r].seller]
  PROVE  CopyIsCurrent'
<1>1. \A q \in Requests \ {r} : InFlight(q) => req[q].seller # req'[r].seller
  BY DEF CopyIsCurrent
<1> QED
  BY <1>1, OwnCopy

\* A request that starts has no copy yet, and nobody else is about its seller.
LEMMA StartCopies ==
  ASSUME Inv, CopyIsCurrent, Isolation = "seller", NEW r \in Requests,
         StartCreate(r) \/ StartUpdate(r) \/ StartCancel(r)
  PROVE  CopyIsCurrent'
<1>1. TypeOK /\ UNCHANGED tables /\ pc[r] = "idle" /\ req[r] \in Handlers
  BY DEF Inv, TypeOK, StartCreate, StartUpdate, StartCancel
<1>2. \A q \in Requests \ {r} : req'[q] = req[q] /\ pc'[q] = pc[q]
  BY <1>1 DEF StartCreate, StartUpdate, StartCancel, TypeOK
<1>3. ASSUME pc'[r] # "done"
      PROVE  /\ \/ pc'[r] \in {"reserve", "readSeller"}
                \/ pc'[r] = "release" /\ req'[r].op = "cancel"
             /\ \A q \in Requests \ {r} :
                  InFlight(q) => req[q].seller # req'[r].seller
  <2>1. CASE StartCreate(r)
    <3>1. PICK items \in Quantities, s \in Sellers, l \in Listings :
            /\ MayStart(r, r, s) /\ pc' = [pc EXCEPT ![r] = "reserve"]
            /\ req' = [req EXCEPT ![r] = [@ EXCEPT !.op = "create", !.items = items,
                                                   !.seller = s, !.want = l]]
      <4>1. pc' # [pc EXCEPT ![r] = "done"]
        BY <1>1, <1>3 DEF TypeOK
      <4> QED
        BY <2>1, <4>1 DEF StartCreate, InOrder
    <3>2. pc'[r] = "reserve" /\ req'[r].seller = s
      BY <1>1, <3>1 DEF TypeOK, Handlers
    <3> QED
      BY <3>1, <3>2 DEF MayStart
  <2>2. CASE StartUpdate(r)
    <3>1. PICK o \in Requests, to \in Statuses :
            /\ MayStart(r, o, order[o].seller) /\ pc' = [pc EXCEPT ![r] = "readSeller"]
            /\ req' = [req EXCEPT
                         ![r] = [@ EXCEPT !.op = "update", !.target = o,
                                          !.seen = order[o].status, !.to = to,
                                          !.items = order[o].items,
                                          !.seller = order[o].seller]]
      BY <1>1, <1>3, <2>2 DEF StartUpdate, TypeOK
    <3>2. pc'[r] = "readSeller" /\ req'[r].seller = order[o].seller
      BY <1>1, <3>1 DEF TypeOK, Handlers
    <3> QED
      BY <3>1, <3>2 DEF MayStart
  <2>3. CASE StartCancel(r)
    <3>1. PICK o \in Requests, l \in Listings :
            /\ MayStart(r, o, order[o].seller) /\ pc' = [pc EXCEPT ![r] = "release"]
            /\ req' = [req EXCEPT
                         ![r] = [@ EXCEPT !.op = "cancel", !.target = o,
                                          !.seen = "Pending", !.to = "Cancelled",
                                          !.items = order[o].items,
                                          !.seller = order[o].seller, !.want = l]]
      BY <1>1, <1>3, <2>3 DEF StartCancel, TypeOK, InOrder
    <3>2. pc'[r] = "release" /\ req'[r].seller = order[o].seller /\ req'[r].op = "cancel"
      BY <1>1, <3>1 DEF TypeOK, Handlers
    <3> QED
      BY <3>1, <3>2 DEF MayStart
  <2> QED
    BY <2>1, <2>2, <2>3
<1> QED
  BY <1>1, <1>2, <1>3, OwnCopy DEF InFlight, HasCopy

\* The steps of a handler up to its commit, and its end without one.
LEMMA HandlerCopies ==
  ASSUME Inv, CopyIsCurrent, Isolation = "seller", NEW r \in Requests,
         \/ ReserveStock(r) \/ ReleaseStock(r) \/ ReadSeller(r) \/ EnsureCommission(r)
         \/ Fail(r) \/ DetectDeadlock(r)
  PROVE  CopyIsCurrent'
<1>1. TypeOK /\ Phase(r) /\ UNCHANGED tables /\ req[r] \in Handlers
  BY DEF Inv, TypeOK, ReserveStock, ReleaseStock, ReadSeller, EnsureCommission, Fail,
         DetectDeadlock
<1>2. CASE Fail(r) \/ DetectDeadlock(r)
  <2>1. /\ \A q \in Requests \ {r} : req'[q] = req[q] /\ pc'[q] = pc[q]
        /\ pc'[r] = "done"
    BY <1>1, <1>2 DEF Fail, DetectDeadlock, Finish, TypeOK
  <2> QED
    BY <1>1, <2>1, OwnCopy DEF InFlight, HasCopy
<1>3. CASE ReserveStock(r)
  <2>1. /\ \A q \in Requests \ {r} : req'[q] = req[q] /\ pc'[q] = pc[q]
        /\ pc'[r] \in {"reserve", "readSeller", "done"}
        /\ InFlight(r) /\ req'[r].seller = req[r].seller
    BY <1>1, <1>3 DEF ReserveStock, NextListing, Finish, TypeOK, Handlers, InFlight
  <2> QED
    BY <1>1, <2>1, SameSeller DEF HasCopy
<1>4. CASE ReleaseStock(r)
  <2>1. /\ \A q \in Requests \ {r} : req'[q] = req[q] /\ pc'[q] = pc[q]
        /\ pc'[r] \in {"release", IF req[r].op = "cancel" THEN "readSeller" ELSE "commit"}
        /\ InFlight(r) /\ req'[r].seller = req[r].seller
        /\ req'[r].op = req[r].op /\ req'[r].copy = req[r].copy
    BY <1>1, <1>4 DEF ReleaseStock, NextListing, TypeOK, Handlers, InFlight
  <2>2. req[r].op \in {"update", "cancel"}
    BY <1>1, <1>4 DEF ReleaseStock, Phase, InFlight, Handlers
  <2>3. HasCopy(r)' => HasCopy(r)
    BY <1>4, <2>1, <2>2 DEF HasCopy, ReleaseStock
  <2> QED
    BY <1>1, <2>1, <2>3, SameSeller DEF CopyIsCurrent
<1>5. CASE ReadSeller(r)
  <2>1. /\ InFlight(r)
        /\ \A q \in Requests \ {r} : pc'[q] = pc[q]
    BY <1>1, <1>5 DEF ReadSeller, TypeOK, InFlight
  <2>2. \/ req' = [req EXCEPT ![r].copy = seller[req[r].seller]]
        \/ \E l \in Listings :
             req' = [req EXCEPT ![r].copy = seller[req[r].seller], ![r].want = l]
    BY <1>5 DEF ReadSeller, InOrder
  <2>3. /\ \A q \in Requests \ {r} : req'[q] = req[q]
        /\ req'[r].seller = req[r].seller /\ req'[r].copy = seller[req[r].seller]
    BY <1>1, <2>2 DEF TypeOK, Handlers
  <2> QED
    BY <1>1, <2>1, <2>3, SameSeller
<1>6. CASE EnsureCommission(r)
  <2>1. /\ \A q \in Requests \ {r} : req'[q] = req[q] /\ pc'[q] = pc[q]
        /\ InFlight(r) /\ HasCopy(r)
        /\ req'[r].seller = req[r].seller /\ req'[r].copy = req[r].copy
    BY <1>1, <1>6 DEF EnsureCommission, TypeOK, Handlers, InFlight, HasCopy
  <2> QED
    BY <1>1, <2>1, SameSeller DEF CopyIsCurrent
<1> QED
  BY <1>2, <1>3, <1>4, <1>5, <1>6

\* A commit writes the row of its own seller, of which nobody else has a copy.
LEMMA CommitCopies ==
  ASSUME Inv, CopyIsCurrent, Isolation = "seller", NEW r \in Requests,
         CommitCreate(r) \/ CommitChange(r)
  PROVE  CopyIsCurrent'
<1>1. /\ TypeOK /\ InFlight(r) /\ UNCHANGED req /\ pc' = [pc EXCEPT ![r] = "done"]
      /\ \A s \in Sellers \ {req[r].seller} : seller'[s] = seller[s]
  BY DEF Inv, TypeOK, CommitCreate, CommitChange, Finish, InFlight, tables
<1>2. /\ ~InFlight(r)' /\ ~HasCopy(r)'
      /\ \A q \in Requests \ {r} :
           (InFlight(q)' <=> InFlight(q)) /\ (HasCopy(q)' <=> HasCopy(q))
  BY <1>1 DEF InFlight, HasCopy, TypeOK
<1>3. \A q \in Requests \ {r} : HasCopy(q) =>
        InFlight(q) /\ req[q].seller \in Sellers \ {req[r].seller}
  BY <1>1 DEF HasCopy, InFlight, CopyIsCurrent, Inv, Phase
<1> QED
  BY <1>1, <1>2, <1>3 DEF CopyIsCurrent

\* The copies stay current.
LEMMA CopiesInv == Inv /\ CopyIsCurrent /\ [Next]_vars => CopyIsCurrent'
<1> SUFFICES ASSUME Inv, CopyIsCurrent, [Next]_vars, Isolation = "seller"
             PROVE  CopyIsCurrent'
  BY DEF CopyIsCurrent
<1>1. CASE UNCHANGED vars
  BY <1>1 DEF vars, tables, CopyIsCurrent, InFlight, HasCopy
<1> QED
  BY <1>1, StartCopies, HandlerCopies, CommitCopies DEF Next, Proceed, Quiet

-----------------------------------------------------------------------------
\* What an order adds to the orders of a seller with a status, and what it
\* takes away.
LEMMA OneMore ==
  ASSUME NEW S, IsFiniteSet(S), NEW x, x \notin S
  PROVE  Cardinality(S \cup {x}) = Cardinality(S) + 1 /\ Cardinality(S) \in Nat
BY FS_AddElement, FS_CardinalityType

\* The same, the other way round.
LEMMA OneLess ==
  ASSUME NEW S, IsFiniteSet(S), NEW x \in S
  PROVE  /\ Cardinality(S \ {x}) = Cardinality(S) - 1
         /\ Cardinality(S) \in Nat /\ Cardinality(S) > 0
<1>1. Cardinality(S \ {x}) = Cardinality(S) - 1 /\ IsFiniteSet(S \ {x})
  BY FS_RemoveElement
<1>2. Cardinality(S) \in Nat /\ Cardinality(S \ {x}) \in Nat
  BY <1>1, FS_CardinalityType
<1> QED
  BY <1>1, <1>2

Placed == {o \in Requests : order[o].status # "none"}

\* Each step inserts one order at most.
LEMMA PlacedFinite ==
  ASSUME Inv, [Next]_vars, IsFiniteSet(Placed)
  PROVE  IsFiniteSet(Placed')
<1>1. TypeOK /\ (\A q \in Requests : Phase(q) /\ Remembers(q))
  BY DEF Inv
<1>2. CASE UNCHANGED tables
  BY <1>2 DEF tables, Placed
<1>3. ASSUME NEW r \in Requests, CommitCreate(r) PROVE IsFiniteSet(Placed')
  <2>1. Placed' \subseteq Placed \cup {r}
    BY <1>1, <1>3 DEF CommitCreate, TypeOK, Placed
  <2>2. IsFiniteSet(Placed \cup {r})
    BY FS_AddElement
  <2> QED
    BY <2>1, <2>2, FS_Subset
<1>4. ASSUME NEW r \in Requests, CommitChange(r), ~UNCHANGED tables
      PROVE  IsFiniteSet(Placed')
  <2>1. /\ InFlight(r) /\ req[r] \in Handlers /\ req[r].op # "create"
        /\ order' = [order EXCEPT ![req[r].target].status = req[r].to]
    BY <1>1, <1>4 DEF CommitChange, InFlight, TypeOK
  <2>2. order[req[r].target].status # "none" /\ req[r].target \in Requests
    BY <1>1, <2>1 DEF Remembers, Handlers
  <2>3. Placed' \subseteq Placed
    BY <1>1, <2>1, <2>2 DEF TypeOK, Placed
  <2> QED
    BY <2>3, FS_Subset
<1> QED
  BY <1>2, <1>3, <1>4, OnlyCommitsWrite

\* The orders that are counted are some of those there are.
LEMMA CountedFinite ==
  ASSUME IsFiniteSet(Placed), NEW s, NEW status \in Statuses
  PROVE  IsFiniteSet(OrdersOf(s, status))
<1>1. OrdersOf(s, status) \subseteq Placed
  BY DEF OrdersOf, Placed, Statuses
<1> QED
  BY <1>1, FS_Subset

\* A new order is one more of its seller's that are pending.
LEMMA CreateCounts ==
  ASSUME Inv, CopyIsCurrent, Isolation = "seller", IsFiniteSet(Placed), CountersExact,
         NEW r \in Requests, CommitCreate(r)
  PROVE  CountersExact'
<1> DEFINE s == req[r].seller
           new == [status |-> "Pending", items |-> req[r].items, seller |-> s]
<1>1. TypeOK /\ Phase(r) /\ pc[r] = "commit"
  BY DEF Inv, CommitCreate
<1>2. /\ order[r].status = "none" /\ s \in Sellers /\ req[r].copy = seller[s]
      /\ seller[s] \in Counters
  BY <1>1 DEF Phase, InFlight, HasCopy, CopyIsCurrent, TypeOK
<1>3. /\ order' = [order EXCEPT ![r] = new]
      /\ seller' = [seller EXCEPT ![s] = Counted(seller[s], "none", "Pending")]
  BY <1>2 DEF CommitCreate
<1>4. /\ order'[r] = new /\ \A o \in Requests \ {r} : order'[o] = order[o]
      /\ seller'[s].pending = seller[s].pending + 1
      /\ seller'[s].total = seller[s].total
      /\ \A t \in Sellers \ {s} : seller'[t] = seller[t]
  BY <1>1, <1>2, <1>3 DEF TypeOK, Counted
<1> HIDE DEF s
<1>5. \A t \in Sellers :
        /\ OrdersOf(t, "Pending")' =
             IF t = s THEN OrdersOf(t, "Pending") \cup {r} ELSE OrdersOf(t, "Pending")
        /\ OrdersOf(t, "Completed")' = OrdersOf(t, "Completed")
  BY <1>2, <1>4 DEF OrdersOf
<1>6. r \notin OrdersOf(s, "Pending")
  BY <1>2 DEF OrdersOf
<1>7. IsFiniteSet(OrdersOf(s, "Pending"))
  BY CountedFinite DEF Statuses
<1>8. Cardinality(OrdersOf(s, "Pending") \cup {r}) = Cardinality(OrdersOf(s, "Pending")) + 1
  BY <1>6, <1>7, OneMore
<1> QED
  BY <1>2, <1>4, <1>5, <1>8 DEF CountersExact

\* An order that moves on is counted where it goes and no more where it was.
LEMMA ChangeCounts ==
  ASSUME Inv, SeenIsCurrent, CopyIsCurrent, Isolation = "seller", IsFiniteSet(Placed),
         CountersExact, NEW r \in Requests, CommitChange(r), ~UNCHANGED tables
  PROVE  CountersExact'
<1> DEFINE s == req[r].seller
           o == req[r].target
           from == order[o].status
           to == req[r].to
<1>1. /\ TypeOK /\ Phase(r) /\ Remembers(r) /\ pc[r] = "commit" /\ InFlight(r)
      /\ req[r] \in Handlers /\ req[r].op # "create"
  BY DEF Inv, TypeOK, CommitChange, InFlight
<1>2. /\ o \in Requests /\ s \in Sellers /\ order[o].seller = s
      /\ req[r].copy = seller[s] /\ seller[s] \in Counters
      /\ req[r].seen = from /\ IsAllowedTransition(from, to)
  BY <1>1 DEF Phase, Remembers, HasCopy, CopyIsCurrent, SeenIsCurrent, TypeOK, Handlers
<1>3. /\ order' = [order EXCEPT ![o].status = to]
      /\ seller' = [seller EXCEPT ![s] = Counted(seller[s], from, to)]
  BY <1>2 DEF CommitChange
<1>4. /\ order'[o].status = to /\ order'[o].seller = s
      /\ \A q \in Requests \ {o} : order'[q] = order[q]
      /\ seller'[s] = Counted(seller[s], from, to)
      /\ \A t \in Sellers \ {s} : seller'[t] = seller[t]
  BY <1>1, <1>2, <1>3 DEF TypeOK, Rows
<1>5. /\ from = "Pending" => to # "Pending" /\ to # "Completed"
      /\ to = "Completed" => from = "Shipped"
      /\ from # "Pending" => to # "Pending"
      /\ from # "Completed" /\ from # "none"
  BY <1>2 DEF IsAllowedTransition
<1> HIDE DEF s, o, from, to
<1>6. \A t \in Sellers :
        /\ OrdersOf(t, "Pending")' =
             IF t = s /\ from = "Pending" THEN OrdersOf(t, "Pending") \ {o}
                                          ELSE OrdersOf(t, "Pending")
        /\ OrdersOf(t, "Completed")' =
             IF t = s /\ to = "Completed" THEN OrdersOf(t, "Completed") \cup {o}
                                          ELSE OrdersOf(t, "Completed")
  BY <1>2, <1>4, <1>5 DEF OrdersOf, from
<1>7. /\ from = "Pending" => o \in OrdersOf(s, "Pending")
      /\ o \notin OrdersOf(s, "Completed")
  BY <1>2, <1>5 DEF OrdersOf, from
<1>8. /\ IsFiniteSet(OrdersOf(s, "Pending"))
      /\ IsFiniteSet(OrdersOf(s, "Completed"))
  BY CountedFinite DEF Statuses
<1>9. Cardinality(OrdersOf(s, "Completed") \cup {o}) =
        Cardinality(OrdersOf(s, "Completed")) + 1
  BY <1>7, <1>8, OneMore
<1>10. from = "Pending" =>
         /\ Cardinality(OrdersOf(s, "Pending") \ {o}) = Cardinality(OrdersOf(s, "Pending")) - 1
         /\ Cardinality(OrdersOf(s, "Pending")) > 0
  BY <1>7, <1>8, OneLess
<1>11. /\ seller'[s].pending = IF from = "Pending" THEN seller[s].pending - 1
                                                   ELSE seller[s].pending
       /\ seller'[s].total = IF to = "Completed" THEN seller[s].total + 1
                                                 ELSE seller[s].total
  BY <1>2, <1>4, <1>5, <1>10 DEF Counted, CountersExact, Counters
<1> QED
  BY <1>2, <1>4, <1>6, <1>9, <1>10, <1>11 DEF CountersExact

\* At the start the counters are computed from the orders.
LEMMA InitCounts == Init => CountersExact /\ IsFiniteSet(Placed) /\ CopyIsCurrent
<1> SUFFICES ASSUME Init PROVE CountersExact /\ IsFiniteSet(Placed) /\ CopyIsCurrent
  OBVIOUS
<1>1. \A o \in Requests : o \notin Earlier => order[o] = NoOrder
  BY InitRows
<1>2. ASSUME NEW s \in Sellers, NEW status \in Statuses
      PROVE  OrdersOf(s, status) =
               {o \in Earlier : order[o].seller = s /\ order[o].status = status}
  BY <1>1, <1>2, OrdersAssumption DEF OrdersOf, NoOrder, Statuses
<1>3. CountersExact
  BY <1>2 DEF Init, CountersExact, Statuses
<1>4. Placed \subseteq Earlier
  BY <1>1 DEF Placed, NoOrder
<1>5. IsFiniteSet(Placed)
  BY <1>4, OrdersAssumption, FS_Subset
<1>6. CopyIsCurrent
  BY DEF Init, CopyIsCurrent, InFlight, HasCopy
<1> QED
  BY <1>3, <1>5, <1>6

\* As long as no two requests about one seller overlap, the counters in the
\* seller's row are what counting the orders gives, for any requests, sellers and
\* orders there were before, whichever requests fail and wherever.
THEOREM CountersStayExact ==
  ASSUME Isolation = "seller" PROVE Spec => []CountersExact
<1>1. /\ Inv /\ SeenIsCurrent /\ CopyIsCurrent /\ IsFiniteSet(Placed) /\ CountersExact
      /\ [Next]_vars
      => IsFiniteSet(Placed)' /\ CountersExact'
  <2> SUFFICES ASSUME Inv, SeenIsCurrent, CopyIsCurrent, IsFiniteSet(Placed),
                      CountersExact, [Next]_vars
               PROVE  IsFiniteSet(Placed') /\ CountersExact'
    OBVIOUS
  <2>1. CASE UNCHANGED tables
    BY <2>1, PlacedFinite DEF tables, CountersExact, OrdersOf
  <2>2. ASSUME NEW r \in Requests, ~UNCHANGED tables, CommitCreate(r) \/ CommitChange(r)
        PROVE  CountersExact'
    BY <2>2, CreateCounts, ChangeCounts
  <2> QED
    BY <2>1, <2>2, PlacedFinite, OnlyCommitsWrite
<1> QED
  BY <1>1, InitCounts, CopiesInv, SeenStaysCurrent, PTL DEF Spec
-----------------------------------------------------------------------------
\* The units of one order, which none of S is of, add as many as there are.
LEMMA OneOrderMore ==
  ASSUME NEW S, IsFiniteSet(S), NEW o, NEW n \in Nat, \A u \in S : u[1] # o
  PROVE  /\ Cardinality(S \cup ({o} \X (1..n))) = Cardinality(S) + n
         /\ Cardinality(S) \in Nat
<1> DEFINE W == {o} \X (1..n)
<1>1. IsFiniteSet({o}) /\ Cardinality({o}) = 1
  BY FS_Singleton
<1>2. IsFiniteSet(1..n) /\ Cardinality(1..n) = n
  BY FS_Interval
<1>3. IsFiniteSet(W) /\ Cardinality(W) = n
  <2>1. IsFiniteSet(W) /\ Cardinality(W) = Cardinality({o}) * Cardinality(1..n)
    BY <1>1, <1>2, FS_Product, ZenonT(30)
  <2>2. 1 * n = n
    OBVIOUS
  <2> QED
    BY <1>1, <1>2, <2>1, <2>2, ZenonT(30)
<1>4. S \cap W = {}
  OBVIOUS
<1>5. Cardinality(S \cap W) = 0
  BY <1>4, FS_EmptySet
<1>6. Cardinality(S) \in Nat
  BY FS_CardinalityType
<1> HIDE DEF W
<1>7. Cardinality(S \cup W) = Cardinality(S) + Cardinality(W) - Cardinality(S \cap W)
  BY <1>3, FS_Union
<1>8. Cardinality(S \cup W) = Cardinality(S) + n
  BY <1>3, <1>5, <1>6, <1>7
<1> QED
  BY <1>6, <1>8 DEF W

\* What the orders have taken is finite, as there are finitely many of them.
LEMMA TakenFinite ==
  ASSUME IsFiniteSet(Placed), NEW l \in Listings
  PROVE  IsFiniteSet(Taken(l))
<1>1. Taken(l) \subseteq Placed \X (1..MaxQuantity)
  BY DEF Taken, Live, Placed
<1>2. IsFiniteSet(1..MaxQuantity)
  BY FS_Interval, OrdersAssumption
<1>3. IsFiniteSet(Placed \X (1..MaxQuantity))
  BY <1>2, FS_Product
<1> QED
  BY <1>1, <1>3, FS_Subset

\* The commit of a Create: what leaves the stock is what its order takes.
LEMMA CreateKeepsUnits ==
  ASSUME Inv, IsFiniteSet(Placed), NEW r \in Requests, CommitCreate(r),
         NEW l \in Listings
  PROVE  Units(l)' = Units(l)
<1> DEFINE n == req[r].items[l]
           row == [status |-> "Pending", items |-> req[r].items,
                   seller |-> req[r].seller]
<1>1. /\ TypeOK /\ Phase(r) /\ pc[r] = "commit" /\ req[r].op = "create"
      /\ req[r] \in Handlers /\ req[r].items \in Quantities
  BY DEF Inv, TypeOK, CommitCreate, Handlers
<1>2. n \in 0..MaxQuantity /\ n \in Nat /\ stock[l] \in Nat
  BY <1>1, OrdersAssumption DEF Quantities, TypeOK
<1>3. order[r].status = "none" /\ held[r] = InOrder(req[r].items)
  BY <1>1 DEF Phase
<1>4. stock'[l] = stock[l] - n
  BY <1>1, <1>2, <1>3 DEF CommitCreate, InOrder
<1>5. order'[r] = row /\ \A o \in Requests \ {r} : order'[o] = order[o]
  BY <1>1 DEF CommitCreate, TypeOK
<1>6. row.status = "Pending" /\ row.items[l] = n
  OBVIOUS
<1> HIDE DEF n, row
<1>7. Taken(l)' = Taken(l) \cup ({r} \X (1..n))
  <2>1. ASSUME NEW o \in Requests, NEW k \in 1..MaxQuantity
        PROVE  <<o, k>> \in Taken(l)' <=> <<o, k>> \in Taken(l) \cup ({r} \X (1..n))
    <3>1. CASE o = r
      BY <1>2, <1>3, <1>5, <1>6, <3>1 DEF Taken, Live
    <3>2. CASE o # r
      BY <1>5, <3>2 DEF Taken, Live
    <3> QED
      BY <3>1, <3>2
  <2>2. {r} \X (1..n) \subseteq Requests \X (1..MaxQuantity)
    BY <1>2, OrdersAssumption
  <2>3. /\ Taken(l) \subseteq Requests \X (1..MaxQuantity)
        /\ Taken(l)' \subseteq Requests \X (1..MaxQuantity)
    BY DEF Taken
  <2> QED
    BY <2>1, <2>2, <2>3
<1>8. \A u \in Taken(l) : u[1] # r
  BY <1>3 DEF Taken, Live
<1>9. IsFiniteSet(Taken(l))
  BY TakenFinite
<1>10. PICK S : S = Taken(l)
  OBVIOUS
<1>11. /\ Cardinality(S \cup ({r} \X (1..n))) = Cardinality(S) + n
       /\ Cardinality(S) \in Nat
  BY <1>2, <1>8, <1>9, <1>10, OneOrderMore
<1> QED
  BY <1>2, <1>4, <1>7, <1>10, <1>11 DEF Units

\* The commit of a change: an order that is Cancelled stood until then, so what
\* goes back to the stock is what it had taken.
LEMMA ChangeKeepsUnits ==
  ASSUME Inv, SeenIsCurrent, Isolation # "none", IsFiniteSet(Placed),
         IsFiniteSet(Placed'), NEW r \in Requests, NEW o \in Requests,
         o = req[r].target, CommitChange(r), ~UNCHANGED tables, NEW l \in Listings
  PROVE  Units(l)' = Units(l)
<1> DEFINE n == order[o].items[l]
           to == req[r].to
<1>1. /\ TypeOK /\ Phase(r) /\ Remembers(r) /\ pc[r] = "commit" /\ InFlight(r)
      /\ req[r] \in Handlers /\ req[r].op # "create" /\ order[o] \in Rows
  BY DEF Inv, TypeOK, CommitChange, InFlight
<1>2. n \in 0..MaxQuantity /\ n \in Nat /\ stock[l] \in Nat
  BY <1>1, OrdersAssumption DEF Rows, Quantities, TypeOK
<1>3. /\ Live(o) /\ to # "none" /\ req[r].items = order[o].items
      /\ held[r] = IF to = "Cancelled" THEN InOrder(order[o].items) ELSE {}
  BY <1>1, ReplacesLive DEF Live, Phase, Remembers, Handlers, Statuses
<1>4. /\ order'[o].status = to /\ order'[o].items = order[o].items
      /\ \A q \in Requests \ {o} : order'[q] = order[q]
  BY <1>1 DEF CommitChange, TypeOK, Rows
<1>5. stock'[l] = IF to = "Cancelled" THEN stock[l] + n ELSE stock[l]
  BY <1>1, <1>2, <1>3 DEF CommitChange, InOrder
<1> HIDE DEF to
<1>6. CASE to # "Cancelled"
  <2>1. \A q \in Requests : Live(q)' = Live(q) /\ order'[q].items = order[q].items
    BY <1>3, <1>4, <1>6 DEF Live
  <2>2. Taken(l)' = Taken(l)
    BY <2>1 DEF Taken
  <2> QED
    BY <1>5, <1>6, <2>2 DEF Units
<1>7. CASE to = "Cancelled"
  <2> HIDE DEF n
  <2>1. /\ ~Live(o)'
        /\ \A q \in Requests \ {o} : /\ Live(q)' = Live(q)
                                    /\ order'[q].items = order[q].items
    BY <1>4, <1>7 DEF Live
  <2>2. Taken(l) = Taken(l)' \cup ({o} \X (1..n))
    <3>1. ASSUME NEW q \in Requests, NEW k \in 1..MaxQuantity
          PROVE  <<q, k>> \in Taken(l) <=> <<q, k>> \in Taken(l)' \cup ({o} \X (1..n))
      <4>1. CASE q = o
        BY <1>2, <1>3, <2>1, <4>1 DEF Taken, n
      <4>2. CASE q # o
        BY <2>1, <4>2 DEF Taken
      <4> QED
        BY <4>1, <4>2
    <3>2. {o} \X (1..n) \subseteq Requests \X (1..MaxQuantity)
      BY <1>2, OrdersAssumption
    <3>3. /\ Taken(l) \subseteq Requests \X (1..MaxQuantity)
          /\ Taken(l)' \subseteq Requests \X (1..MaxQuantity)
      BY DEF Taken
    <3> QED
      BY <3>1, <3>2, <3>3
  <2>3. \A u \in Taken(l)' : u[1] # o
    BY <2>1 DEF Taken
  <2>4. IsFiniteSet(Taken(l)')
    <3>1. Taken(l)' \subseteq Taken(l)
      BY <2>2
    <3>2. IsFiniteSet(Taken(l))
      BY TakenFinite
    <3> QED
      BY <3>1, <3>2, FS_Subset
  <2>5. PICK S : S = Taken(l)'
    OBVIOUS
  <2>6. /\ Cardinality(S \cup ({o} \X (1..n))) = Cardinality(S) + n
        /\ Cardinality(S) \in Nat
    BY <1>2, <2>3, <2>4, <2>5, OneOrderMore
  <2> QED
    BY <1>2, <1>5, <1>7, <2>2, <2>5, <2>6 DEF Units
<1> QED
  BY <1>6, <1>7

\* Units are neither lost nor made: as long as no two requests about one order
\* overlap, what is on offer and what the orders that stand have taken add up to
\* the same number for ever, whichever requests fail and wherever.
THEOREM UnitsConserved ==
  ASSUME Isolation # "none" PROVE Spec => StockConserved
<1>1. Inv /\ SeenIsCurrent /\ IsFiniteSet(Placed) /\ [Next]_vars
      => IsFiniteSet(Placed)' /\ [\A l \in Listings : Units(l)' = Units(l)]_vars
  <2> SUFFICES ASSUME Inv, SeenIsCurrent, IsFiniteSet(Placed), [Next]_vars
               PROVE  /\ IsFiniteSet(Placed')
                      /\ \A l \in Listings : Units(l)' = Units(l)
    OBVIOUS
  <2>1. CASE UNCHANGED tables
    BY <2>1 DEF tables, Units, Taken, Live, Placed
  <2>2. ASSUME NEW r \in Requests, CommitCreate(r), NEW l \in Listings
        PROVE  Units(l)' = Units(l)
    BY <2>2, CreateKeepsUnits
  <2>3. ASSUME NEW r \in Requests, CommitChange(r), ~UNCHANGED tables,
               NEW l \in Listings
        PROVE  Units(l)' = Units(l)
    <3>1. PICK o \in Requests : o = req[r].target
      BY DEF Inv, TypeOK, Handlers
    <3> QED
      BY <2>3, <3>1, PlacedFinite, ChangeKeepsUnits
  <2> QED
    BY <2>1, <2>2, <2>3, PlacedFinite, OnlyCommitsWrite
<1> QED
  BY <1>1, InitCounts, SeenStaysCurrent, PTL DEF Spec, StockConserved
=============================================================================
