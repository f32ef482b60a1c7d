--------------------------- MODULE ChatPageProofs ---------------------------
(***************************************************************************)
(* Proofs about ChatPage, for any number of messages and calls.  The first *)
(* part is what sorting and filtering by ranks does: the rank of an        *)
(* element is how many there are up to it.                                 *)
(***************************************************************************)
EXTENDS ChatPage, FiniteSetTheorems, TLAPS

Orders(R, S) ==
  /\ \A x \in S : <<x, x>> \in R
  /\ \A x, y \in S : <<x, y>> \in R \/ <<y, x>> \in R
  /\ \A x, y \in S : <<x, y>> \in R /\ <<y, x>> \in R => x = y
  /\ \A x, y, z \in S : <<x, y>> \in R /\ <<y, z>> \in R => <<x, z>> \in R

Ranks(R, S) == [x \in S |-> Cardinality({y \in S : <<y, x>> \in R})]

\* In a finite total order each rank from one to the number of elements is the
\* rank of one element.
LEMMA RankFacts ==
  ASSUME NEW S, IsFiniteSet(S), NEW R, Orders(R, S)
  PROVE  /\ Cardinality(S) \in Nat
         /\ \A k \in 1..Cardinality(S) : \E x \in S : Ranks(R, S)[x] = k
<1> DEFINE Before(x) == {y \in S : <<y, x>> \in R}
           N == Cardinality(S)
           rank == Ranks(R, S)
<1> USE DEF Orders, Ranks
<1>1. N \in Nat
  BY FS_CardinalityType
<1>2. ASSUME NEW x \in S
      PROVE  /\ IsFiniteSet(Before(x)) /\ Cardinality(Before(x)) \in Nat
             /\ Cardinality(Before(x)) <= N
  <2>1. Before(x) \in SUBSET S
    OBVIOUS
  <2> HIDE DEF Before
  <2> QED
    BY <2>1, FS_Subset, FS_CardinalityType
<1>3. ASSUME NEW x \in S PROVE rank[x] \in 1..N
  <2>1. x \in Before(x)
    OBVIOUS
  <2> HIDE DEF Before
  <2>2. Cardinality(Before(x)) # 0
    BY <1>2, <2>1, FS_EmptySet
  <2>3. rank[x] = Cardinality(Before(x))
    BY DEF Before
  <2> HIDE DEF N
  <2> QED
    BY <1>1, <1>2, <2>2, <2>3
<1>4. ASSUME NEW x \in S, NEW y \in S, <<x, y>> \in R, x # y
      PROVE  rank[x] # rank[y]
  <2>1. Before(x) \in SUBSET Before(y)
    BY <1>4
  <2>2. y \in Before(y) /\ y \notin Before(x)
    BY <1>4
  <2>3. rank[x] = Cardinality(Before(x)) /\ rank[y] = Cardinality(Before(y))
    OBVIOUS
  <2> HIDE DEF Before
  <2>4. Cardinality(Before(x)) # Cardinality(Before(y))
    BY <1>2, <2>1, <2>2, FS_Subset
  <2> QED
    BY <2>3, <2>4
<1>5. \A x, y \in S : rank[x] = rank[y] => x = y
  BY <1>4
<1>6. rank \in Injection(S, 1..N)
  BY <1>3, <1>5 DEF Injection, IsInjective
<1>7. IsFiniteSet(1..N) /\ Cardinality(1..N) = N
  BY <1>1, FS_Interval
<1>8. rank \in Surjection(S, 1..N)
  BY <1>6, <1>7, FS_Injection
<1>9. \A k \in 1..N : \E x \in S : rank[x] = k
  BY <1>8 DEF Surjection
<1> QED
  BY <1>1, <1>9

\* Nth takes the numbers of a set one after the other.
LEMMA NthFacts ==
  ASSUME NEW S \in SUBSET Nat, IsFiniteSet(S)
  PROVE  /\ Cardinality(S) \in Nat
         /\ \A k \in 1..Cardinality(S) : Nth(S, k) \in S
         /\ \A k, l \in 1..Cardinality(S) : Nth(S, k) = Nth(S, l) => k = l
<1> DEFINE R == {p \in S \X S : p[1] <= p[2]}
           rank == Ranks(R, S)
<1>1. Orders(R, S)
  BY DEF Orders
<1>2. \A x \in S : {y \in S : <<y, x>> \in R} = {y \in S : y <= x}
  OBVIOUS
<1>3. \A x \in S : rank[x] = Cardinality({y \in S : y <= x})
  BY <1>2 DEF Ranks
<1> HIDE DEF R
<1>4. /\ Cardinality(S) \in Nat
      /\ \A k \in 1..Cardinality(S) : \E x \in S : rank[x] = k
  BY <1>1, RankFacts
<1> HIDE DEF rank
<1>5. ASSUME NEW k \in 1..Cardinality(S)
      PROVE  Nth(S, k) \in S /\ rank[Nth(S, k)] = k
  BY <1>3, <1>4 DEF Nth
<1> QED
  BY <1>4, <1>5

\* A set of numbers up to a bound that is not empty has its largest in it.
LEMMA MaxIn ==
  ASSUME NEW n \in Nat, NEW S \in SUBSET (1..n), S # {}
  PROVE  Max(S) \in S
<1> DEFINE R == {p \in S \X S : p[1] <= p[2]}
           rank == Ranks(R, S)
<1>1. IsFiniteSet(S)
  <2>1. IsFiniteSet(1..n)
    BY FS_Interval
  <2> QED
    BY <2>1, FS_Subset
<1>2. Orders(R, S)
  BY DEF Orders
<1>3. rank = [x \in S |-> Cardinality({y \in S : <<y, x>> \in R})]
  BY DEF Ranks
<1>4. \A x \in S : \A y \in S : <<y, x>> \in R => y <= x
  OBVIOUS
<1> HIDE DEF R
<1>5. /\ Cardinality(S) \in Nat
      /\ \A k \in 1..Cardinality(S) : \E x \in S : rank[x] = k
  BY <1>1, <1>2, RankFacts
<1> HIDE DEF rank
<1>6. Cardinality(S) # 0
  BY <1>1, FS_EmptySet
<1>7. PICK x \in S : rank[x] = Cardinality(S)
  BY <1>5, <1>6
<1>8. {y \in S : <<y, x>> \in R} = S
  <2> DEFINE T == {y \in S : <<y, x>> \in R}
  <2>1. T \in SUBSET S /\ Cardinality(T) = Cardinality(S)
    BY <1>3, <1>7
  <2> HIDE DEF T
  <2>2. T = S
    BY <1>1, <2>1, FS_Subset
  <2> QED
    BY <2>2 DEF T
<1>9. \A y \in S : x >= y
  BY <1>4, <1>8
<1> QED
  BY <1>9 DEF Max

\* Array.sort keeps the rows: the result is a list, and has none twice that was
\* not there twice.
LEMMA ByTimeFacts ==
  ASSUME NEW rows \in Lists
  PROVE  ByTime(rows) \in Lists /\ (Once(rows) => Once(ByTime(rows)))
<1> DEFINE S == DOMAIN rows
           R == {p \in S \X S : p[1] \in Upto(rows, p[2])}
           rank == Ranks(R, S)
<1>1. /\ Len(rows) \in Nat /\ S = 1..Len(rows) /\ S \in SUBSET Nat
      /\ \A i \in S : rows[i] \in Shown /\ rows[i].msg \in Nat
  <2>1. /\ Len(rows) \in Nat /\ S = 1..Len(rows)
        /\ \A i \in S : rows[i] \in Shown
    BY DEF Lists
  <2>2. \A row \in Shown : row.msg \in Nat
    BY DEF Shown, Messages
  <2> QED
    BY <2>1, <2>2
<1>2. IsFiniteSet(S) /\ Cardinality(S) = Len(rows)
  BY <1>1, FS_Interval
<1>3. Orders(R, S)
  BY <1>1 DEF Upto, Orders
<1>4. \A x \in S : {y \in S : <<y, x>> \in R} = Upto(rows, x)
  BY DEF Upto
<1>5. \A x \in S : rank[x] = Cardinality(Upto(rows, x))
  BY <1>4 DEF Ranks
<1> HIDE DEF R
<1>6. \A k \in 1..Len(rows) : \E x \in S : rank[x] = k
  <2> HIDE DEF S
  <2> QED
    BY <1>2, <1>3, RankFacts
<1> HIDE DEF rank
<1> DEFINE At(k) == CHOOSE i \in S : Cardinality(Upto(rows, i)) = k
<1>7. ASSUME NEW k \in S PROVE At(k) \in S /\ rank[At(k)] = k
  BY <1>1, <1>5, <1>6
<1>8. ByTime(rows) = [k \in 1..Len(rows) |-> rows[At(k)]]
  BY <1>1 DEF ByTime
<1> HIDE DEF At, S
<1>9. ByTime(rows) \in Lists
  BY <1>1, <1>7, <1>8 DEF Lists
<1>10. ASSUME Once(rows) PROVE Once(ByTime(rows))
  BY <1>1, <1>7, <1>8, <1>10 DEF Once, S
<1> QED
  BY <1>9, <1>10

-----------------------------------------------------------------------------
\* A row read or changed keeps its kind; here for one row at a time.
LEMMA ShownFacts ==
  /\ \A m \in Messages, b \in BOOLEAN : [msg |-> m, read |-> b] \in Shown
  /\ \A row \in Shown :
       /\ row.msg \in Messages /\ row.read \in BOOLEAN
       /\ \A b \in BOOLEAN : /\ [row EXCEPT !.read = b] \in Shown
                            /\ [row EXCEPT !.read = b].msg = row.msg
BY DEF Shown

\* What a fetch is served is a list of messages, none twice.
LEMMA ServedFacts ==
  ASSUME message \in [Messages -> Rows]
  PROVE  Served \in Lists /\ Once(Served)
<1> DEFINE id(k) == Nth(There, k)
           row(k) == [msg |-> id(k), read |-> message[id(k)].read]
           N == Cardinality(There)
<1>1. There \in SUBSET Nat /\ There \in SUBSET Messages /\ IsFiniteSet(There)
  <2>1. There \subseteq Messages
    BY DEF There
  <2>2. IsFiniteSet(Messages) /\ Messages \subseteq Nat
    BY FS_Interval, PageAssumption DEF Messages
  <2> QED
    BY <2>1, <2>2, FS_Subset
<1>2. /\ N \in Nat /\ \A k \in 1..N : id(k) \in There
      /\ \A k, l \in 1..N : id(k) = id(l) => k = l
  BY <1>1, NthFacts
<1>3. ASSUME NEW k \in 1..N PROVE row(k) \in Shown /\ row(k).msg = id(k)
  <2> HIDE DEF id
  <2>1. id(k) \in Messages
    BY <1>1, <1>2
  <2>2. message[id(k)].read \in BOOLEAN
    BY <2>1 DEF Rows
  <2> QED
    BY <2>1, <2>2, ShownFacts
<1>4. Served = [k \in 1..N |-> row(k)]
  BY DEF Served
<1> HIDE DEF N, row, id
<1>5. Served \in Lists
  BY <1>2, <1>3, <1>4 DEF Lists
<1>6. Once(Served)
  BY <1>2, <1>3, <1>4 DEF Once
<1> QED
  BY <1>5, <1>6

\* The list keeps its kind and what it shows, none twice, when read flags are
\* changed.
LEMMA Reread ==
  ASSUME NEW rows \in Lists, NEW new,
         DOMAIN new = DOMAIN rows, new = [i \in DOMAIN rows |-> new[i]],
         \A i \in DOMAIN rows : new[i] \in Shown /\ new[i].msg = rows[i].msg
  PROVE  new \in Lists /\ (Once(rows) => Once(new))
<1>1. Len(rows) \in Nat /\ DOMAIN rows = 1..Len(rows)
  BY DEF Lists
<1>2. new \in Lists
  BY <1>1 DEF Lists
<1>3. Once(rows) => Once(new)
  BY DEF Once
<1> QED
  BY <1>2, <1>3

\* An event or an answer about an edit.
LEMMA UpdatedFacts ==
  ASSUME list \in Lists, NoDuplicates, NEW m, NEW read \in BOOLEAN
  PROVE  Updated(m, read) \in Lists /\ Once(Updated(m, read))
<1> DEFINE new == Updated(m, read)
<1>1. \A i \in DOMAIN list : list[i] \in Shown
  BY DEF Lists
<1>2. DOMAIN new = DOMAIN list /\ new = [i \in DOMAIN list |-> new[i]]
  BY DEF Updated
<1>3. ASSUME NEW i \in DOMAIN list
      PROVE  new[i] \in Shown /\ new[i].msg = list[i].msg
  <2>1. new[i] = IF list[i].msg = m THEN [list[i] EXCEPT !.read = read] ELSE list[i]
    BY DEF Updated
  <2> HIDE DEF new
  <2> QED
    BY <1>1, <2>1, ShownFacts
<1> HIDE DEF new
<1>4. PICK rows, after : rows = list /\ after = new
  OBVIOUS
<1>5. after \in Lists /\ (Once(rows) => Once(after))
  BY <1>2, <1>3, <1>4, Reread
<1> QED
  BY <1>4, <1>5 DEF NoDuplicates, new

\* An event that the other has read.
LEMMA AllReadFacts ==
  ASSUME list \in Lists, NoDuplicates
  PROVE  AllRead \in Lists /\ Once(AllRead)
<1> DEFINE new == AllRead
<1>1. \A i \in DOMAIN list : list[i] \in Shown
  BY DEF Lists
<1>2. DOMAIN new = DOMAIN list /\ new = [i \in DOMAIN list |-> new[i]]
  BY DEF AllRead
<1>3. ASSUME NEW i \in DOMAIN list
      PROVE  new[i] \in Shown /\ new[i].msg = list[i].msg
  <2>1. new[i] = list[i] \/ new[i] = [list[i] EXCEPT !.read = TRUE]
    BY DEF AllRead
  <2> HIDE DEF new
  <2> QED
    BY <1>1, <2>1, ShownFacts
<1> HIDE DEF new
<1>4. PICK rows, after : rows = list /\ after = new
  OBVIOUS
<1>5. after \in Lists /\ (Once(rows) => Once(after))
  BY <1>2, <1>3, <1>4, Reread
<1> QED
  BY <1>4, <1>5 DEF NoDuplicates, new

\* An event or an answer about a deletion.
LEMMA WithoutFacts ==
  ASSUME list \in Lists, NoDuplicates, NEW m
  PROVE  Without(m) \in Lists /\ Once(Without(m))
<1> DEFINE kept == {i \in DOMAIN list : list[i].msg # m}
           N == Cardinality(kept)
<1>1. /\ Len(list) \in Nat /\ DOMAIN list = 1..Len(list)
      /\ \A i \in DOMAIN list : list[i] \in Shown
  BY DEF Lists
<1>2. IsFiniteSet(1..Len(list)) /\ 1..Len(list) \subseteq Nat
  BY <1>1, FS_Interval
<1>3. kept \in SUBSET (1..Len(list))
  BY <1>1
<1>4. Without(m) = [k \in 1..N |-> list[Nth(kept, k)]]
  BY DEF Without
<1> HIDE DEF kept, N
<1>5. IsFiniteSet(kept) /\ kept \in SUBSET Nat
  BY <1>2, <1>3, FS_Subset
<1>6. /\ N \in Nat /\ \A k \in 1..N : Nth(kept, k) \in kept
      /\ \A k, l \in 1..N : Nth(kept, k) = Nth(kept, l) => k = l
  BY <1>5, NthFacts DEF N
<1>7. \A k \in 1..N : Nth(kept, k) \in DOMAIN list
  BY <1>1, <1>3, <1>6
<1>8. Without(m) \in Lists
  BY <1>1, <1>4, <1>6, <1>7 DEF Lists
<1>9. Once(Without(m))
  BY <1>4, <1>6, <1>7 DEF Once, NoDuplicates
<1> QED
  BY <1>8, <1>9

\* A message put at the end of a list that does not show it.
LEMMA AppendFacts ==
  ASSUME NEW rows \in Lists, Once(rows), NEW m \in Messages, NEW read \in BOOLEAN,
         m \notin Ids(rows)
  PROVE  LET new == Append(rows, [msg |-> m, read |-> read])
         IN new \in Lists /\ Once(new)
<1> DEFINE row == [msg |-> m, read |-> read]
           new == Append(rows, row)
           N == Len(rows)
<1>1. row \in Shown /\ row.msg = m
  BY ShownFacts
<1> HIDE DEF row
<1>2. /\ N \in Nat /\ DOMAIN rows = 1..N /\ new \in Lists /\ DOMAIN new = 1..(N + 1)
      /\ new[N + 1] = row /\ \A i \in 1..N : new[i] = rows[i]
  BY <1>1 DEF Lists
<1> HIDE DEF new, N
<1>3. \A i \in 1..N : rows[i].msg # m
  BY <1>2 DEF Ids
<1>4. \A i \in DOMAIN new : i \in 1..N \/ i = N + 1
  BY <1>2
<1>5. Once(new)
  BY <1>1, <1>2, <1>3, <1>4 DEF Once
<1> QED
  BY <1>2, <1>5 DEF new, row

\* An event about a new message.
LEMMA AttachedFacts ==
  ASSUME list \in Lists, NoDuplicates, NEW m \in Messages, NEW read \in BOOLEAN
  PROVE  Attached(m, read) \in Lists /\ Once(Attached(m, read))
<1>1. CASE m \in Ids(list)
  BY <1>1 DEF Attached, NoDuplicates
<1>2. CASE m \notin Ids(list)
  <2>1. PICK rows : rows = list
    OBVIOUS
  <2> DEFINE new == Append(rows, [msg |-> m, read |-> read])
  <2>2. new \in Lists /\ Once(new)
    BY <1>2, <2>1, AppendFacts DEF NoDuplicates
  <2> HIDE DEF new
  <2>3. ByTime(new) \in Lists /\ Once(ByTime(new))
    BY <2>2, ByTimeFacts
  <2> QED
    BY <1>2, <2>1, <2>3 DEF Attached, new
<1> QED
  BY <1>1, <1>2

\* The messages that lists refer to.
LEMMA RefFacts ==
  ASSUME NEW rows \in Lists
  PROVE  /\ LastId(rows) \in Messages \cup {0}
         /\ Ids(rows) \subseteq Messages
         /\ LastIncoming(rows) \in Messages \cup {0}
<1>1. \A i \in DOMAIN rows : rows[i].msg \in Messages
  BY ShownFacts DEF Lists
<1>2. Ids(rows) \subseteq Messages
  BY <1>1 DEF Ids
<1>3. LastId(rows) \in Messages \cup {0}
  <2>1. CASE rows = <<>>
    BY <2>1 DEF LastId
  <2>2. CASE rows # <<>>
    <3>1. Len(rows) \in DOMAIN rows /\ Last(rows) = rows[Len(rows)]
      BY <2>2 DEF Lists, Last
    <3> QED
      BY <1>1, <2>2, <3>1 DEF LastId
  <2> QED
    BY <2>1, <2>2
<1>4. LastIncoming(rows) \in Messages \cup {0}
  <2> DEFINE incoming == {m \in Ids(rows) : message[m].sender # Me}
  <2>1. LastIncoming(rows) = IF incoming = {} THEN 0 ELSE Max(incoming)
    BY DEF LastIncoming
  <2>2. incoming \in SUBSET (1..MaxMessages) /\ MaxMessages \in Nat
    BY <1>2, PageAssumption DEF Messages
  <2>3. incoming # {} => Max(incoming) \in Messages
    <3>1. PICK S : S = incoming
      OBVIOUS
    <3> HIDE DEF incoming
    <3>2. S # {} => Max(S) \in S
      BY <2>2, <3>1, MaxIn
    <3> QED
      BY <2>2, <3>1, <3>2 DEF Messages
  <2> HIDE DEF incoming
  <2> QED
    BY <2>1, <2>3
<1> QED
  BY <1>2, <1>3, <1>4

-----------------------------------------------------------------------------
\* What the server keeps, and an event of any change.
LEMMA EventFacts ==
  \A k \in {"new", "updated", "deleted", "read"}, u \in Users, m \in Messages,
     b \in BOOLEAN : Event(k, u, m, b) \in Events
BY DEF Events

\* An event names a message and carries a read flag.
LEMMA EventFields ==
  \A e \in Events :
    /\ e.kind \in {"new", "updated", "deleted", "read"} /\ e.user \in Users
    /\ e.msg \in Messages /\ e.read \in BOOLEAN
BY DEF Events, Event

\* A call that reaches the server keeps the kind of its tables.
LEMMA ChangeTyped ==
  ASSUME TypeOK, NEW u \in Users, NEW m \in Messages, NEW b \in BOOLEAN,
         Add(u, m) \/ Rewrite(m, b) \/ Delete(m) \/ Mark(u, m)
  PROVE  message' \in [Messages -> Rows] /\ owed' \subseteq Events
<1>1. /\ message \in [Messages -> Rows] /\ owed \subseteq Events
      /\ message[m].sender \in Users
  BY DEF TypeOK, Rows
<1>2. CASE Add(u, m)
  BY <1>1, <1>2, EventFacts DEF Add, Owes, Rows
<1>3. CASE Rewrite(m, b)
  <2>1. [message[m] EXCEPT !.read = b] \in Rows
    BY <1>1 DEF Rows
  <2>2. message' = [message EXCEPT ![m] = [message[m] EXCEPT !.read = b]]
    BY <1>1, <1>3 DEF Rewrite
  <2> QED
    BY <1>1, <1>3, <2>1, <2>2, EventFacts DEF Rewrite, Owes
<1>4. CASE Delete(m)
  <2>1. [message[m] EXCEPT !.state = "gone"] \in Rows
    BY <1>1 DEF Rows
  <2>2. message' = [message EXCEPT ![m] = [message[m] EXCEPT !.state = "gone"]]
    BY <1>1, <1>4 DEF Delete
  <2> QED
    BY <1>1, <1>4, <2>1, <2>2, EventFacts DEF Delete, Owes
<1>5. CASE Mark(u, m)
  <2>1. \A row \in Rows : [row EXCEPT !.read = TRUE] \in Rows
    BY DEF Rows
  <2>2. Marked(u, m) \in [Messages -> Rows]
    BY <1>1, <2>1 DEF Marked
  <2> QED
    BY <1>1, <1>5, <2>2, EventFacts DEF Mark, Owes
<1> QED
  BY <1>2, <1>3, <1>4, <1>5

\* A fetch whose rows are on their way to the page shows no message twice, so
\* that the list has none twice when it is replaced by them; and the page awaits
\* the answers to calls that have one.
PageInv ==
  /\ TypeOK /\ NoDuplicates
  /\ \A f \in Fetches : Once(fetch[f].rows)
  /\ \A e \in waiting : e.kind # "read"

\* A fetch takes one step of its own.
LEMMA FetchMoved ==
  ASSUME PageInv, NEW f \in Fetches,
         NEW phase \in {"idle", "asked", "answered", "done"},
         NEW rows \in Lists, Once(rows),
         fetch' = [fetch EXCEPT ![f] = [phase |-> phase, rows |-> rows]]
  PROVE  /\ fetch' \in [Fetches -> [phase : {"idle", "asked", "answered", "done"},
                                    rows : Lists]]
         /\ \A g \in Fetches : Once(fetch'[g].rows)
<1> DEFINE new == [phase |-> phase, rows |-> rows]
<1>1. /\ new \in [phase : {"idle", "asked", "answered", "done"}, rows : Lists]
      /\ new.rows = rows
  OBVIOUS
<1>2. fetch \in [Fetches -> [phase : {"idle", "asked", "answered", "done"},
                            rows : Lists]]
  BY DEF PageInv, TypeOK
<1> HIDE DEF new
<1>3. /\ fetch' \in [Fetches -> [phase : {"idle", "asked", "answered", "done"},
                                 rows : Lists]]
      /\ \A g \in Fetches : fetch'[g] = IF g = f THEN new ELSE fetch[g]
  BY <1>1, <1>2 DEF new
<1> QED
  BY <1>1, <1>3 DEF PageInv

\* The poll is asked: its rows, none yet, are left alone.
LEMMA PollAsked ==
  ASSUME PageInv, fetch' = [fetch EXCEPT !["poll"].phase = "asked"]
  PROVE  /\ fetch' \in [Fetches -> [phase : {"idle", "asked", "answered", "done"},
                                    rows : Lists]]
         /\ \A g \in Fetches : Once(fetch'[g].rows)
<1>1. PICK rows : rows = fetch["poll"].rows
  OBVIOUS
<1>2. /\ "poll" \in Fetches /\ rows \in Lists /\ Once(rows)
      /\ fetch["poll"] \in [phase : {"idle", "asked", "answered", "done"}, rows : Lists]
  BY <1>1 DEF PageInv, TypeOK, Fetches
<1>3. [fetch["poll"] EXCEPT !.phase = "asked"] = [phase |-> "asked", rows |-> rows]
  BY <1>1, <1>2
<1>4. fetch' = [fetch EXCEPT !["poll"] = [phase |-> "asked", rows |-> rows]]
  BY <1>3
<1> QED
  BY <1>2, <1>4, FetchMoved

\* A fetch ends.
LEMMA FetchSettled ==
  ASSUME PageInv, NEW f \in Fetches, Settled(f)
  PROVE  /\ fetch' \in [Fetches -> [phase : {"idle", "asked", "answered", "done"},
                                    rows : Lists]]
         /\ \A g \in Fetches : Once(fetch'[g].rows)
<1>1. PICK phase \in {"idle", "done"} :
        fetch' = [fetch EXCEPT ![f] = [phase |-> phase, rows |-> <<>>]]
  BY DEF Settled
<1>2. <<>> \in Lists /\ Once(<<>>)
  BY DEF Lists, Once
<1> QED
  BY <1>1, <1>2, FetchMoved

\* A mark the page sends is about a message.
LEMMA MarkTyped ==
  ASSUME TypeOK, NEW m \in Messages \cup {0}, MarkAsRead(m)
  PROVE  marks' \subseteq Messages
BY DEF TypeOK, MarkAsRead

\* The invariant holds while the page loads.
LEMMA PageInit == Init => PageInv
<1> SUFFICES ASSUME Init PROVE PageInv
  OBVIOUS
<1>1. message \in [Messages -> Rows]
  <2>1. PICK n \in 0..Earlier : \E rows \in [1..n -> {row \in Rows : row.state = "there"}] :
          message = [m \in Messages |-> IF m <= n THEN rows[m] ELSE NoRow]
    BY DEF Init, LogInit
  <2>2. PICK rows \in [1..n -> {row \in Rows : row.state = "there"}] :
          message = [m \in Messages |-> IF m <= n THEN rows[m] ELSE NoRow]
    BY <2>1
  <2>3. NoRow \in Rows
    BY DEF NoRow, Rows, Users
  <2>4. \A m \in Messages : m <= n => m \in 1..n
    BY PageAssumption DEF Messages
  <2> QED
    BY <2>2, <2>3, <2>4
<1>2. Served \in Lists /\ Once(Served) /\ <<>> \in Lists /\ Once(<<>>)
  BY <1>1, ServedFacts DEF Lists, Once
<1>3. PICK rows : rows = Served
  OBVIOUS
<1>4. fetch = [f \in Fetches |->
                 IF f = "load" THEN [phase |-> "answered", rows |-> rows]
                 ELSE [phase |-> "idle", rows |-> <<>>]]
  BY <1>3 DEF Init
<1>5. /\ fetch \in [Fetches -> [phase : {"idle", "asked", "answered", "done"},
                                rows : Lists]]
      /\ \A f \in Fetches : Once(fetch[f].rows)
  BY <1>2, <1>3, <1>4
<1>6. TypeOK
  BY <1>1, <1>2, <1>5, PageAssumption DEF TypeOK, Init, LogInit
<1>7. NoDuplicates
  BY <1>2 DEF NoDuplicates, Init
<1> QED
  BY <1>5, <1>6, <1>7 DEF PageInv, Init

\* The polls, their failures, and the effect after a render.
LEMMA FetchesInv ==
  ASSUME PageInv,
         \/ PollStart \/ PollServed \/ Effect
         \/ \E f \in Fetches : FetchFails(f)
  PROVE  PageInv'
<1>1. CASE PollStart
  BY <1>1, PollAsked DEF PollStart, PageInv, TypeOK, logVars, openVars, NoDuplicates
<1>2. CASE PollServed
  <2>1. PICK rows : rows = Served
    OBVIOUS
  <2>2. rows \in Lists /\ Once(rows) /\ "poll" \in Fetches
    BY <2>1, ServedFacts DEF PageInv, TypeOK, Fetches
  <2>3. fetch' = [fetch EXCEPT !["poll"] = [phase |-> "answered", rows |-> rows]]
    BY <1>2, <2>1 DEF PollServed
  <2>4. /\ fetch' \in [Fetches -> [phase : {"idle", "asked", "answered", "done"},
                                   rows : Lists]]
        /\ \A g \in Fetches : Once(fetch'[g].rows)
    BY <2>2, <2>3, FetchMoved
  <2> QED
    BY <1>2, <2>4 DEF PollServed, PageInv, TypeOK, logVars, openVars, NoDuplicates
<1>3. ASSUME NEW f \in Fetches, FetchFails(f) PROVE PageInv'
  BY <1>3, FetchSettled DEF FetchFails, PageInv, TypeOK, logVars, openVars, NoDuplicates
<1>4. CASE Effect
  <2>1. LastId(list) \in Messages \cup {0}
    BY RefFacts DEF PageInv, TypeOK
  <2> QED
    BY <1>4, <2>1 DEF Effect, PageInv, TypeOK, logVars, openVars, NoDuplicates
<1> QED
  BY <1>1, <1>2, <1>3, <1>4

\* The answer of a poll replaces the list, or is skipped; that of the first load
\* replaces it, and what was received has to be marked.
LEMMA ArrivesInv == ASSUME PageInv, PollArrives \/ LoadArrives PROVE PageInv'
<1>1. PICK f \in Fetches :
        /\ Settled(f)
        /\ list' \in {list, fetch[f].rows}
        /\ \/ UNCHANGED marks
           \/ MarkAsRead(LastIncoming(fetch[f].rows))
        /\ lastRef' \in {lastRef, LastId(fetch[f].rows)}
        /\ opening' \in {opening, LastIncoming(fetch[f].rows)}
        /\ view' \in {view, "loading", "shown"}
        /\ UNCHANGED <<logVars, calls, wire, drawn, waiting>>
  <2>1. CASE PollArrives
    BY <2>1 DEF PollArrives, Replace, Fetches, openVars
  <2>2. CASE LoadArrives
    BY <2>2 DEF LoadArrives, Fetches
  <2> QED
    BY <2>1, <2>2
<1>2. PICK rows : rows = fetch[f].rows
  OBVIOUS
<1>3. rows \in Lists /\ Once(rows)
  BY <1>2 DEF PageInv, TypeOK
<1>4. LastId(rows) \in Messages \cup {0} /\ LastIncoming(rows) \in Messages \cup {0}
  BY <1>3, RefFacts
<1>5. list' \in Lists /\ Once(list') /\ marks' \subseteq Messages
  BY <1>1, <1>2, <1>3, <1>4, MarkTyped DEF PageInv, TypeOK, NoDuplicates
<1>6. /\ lastRef' \in Messages \cup {0} /\ opening' \in Messages \cup {0}
      /\ view' \in {"loading", "shown", "error"}
  BY <1>1, <1>2, <1>4 DEF PageInv, TypeOK
<1> QED
  BY <1>1, <1>5, <1>6, FetchSettled DEF PageInv, TypeOK, logVars, NoDuplicates

\* The handlers of the events.
LEMMA HandledInv ==
  ASSUME PageInv, NEW e \in Events, Handled(e)
  PROVE  /\ list' \in Lists /\ Once(list') /\ marks' \subseteq Messages
         /\ fetch' \in [Fetches -> [phase : {"idle", "asked", "answered", "done"},
                                    rows : Lists]]
         /\ \A g \in Fetches : Once(fetch'[g].rows)
<1>1. /\ e.kind \in {"new", "updated", "deleted", "read"}
      /\ e.msg \in Messages /\ e.read \in BOOLEAN
  BY EventFields
<1>2. list \in Lists /\ NoDuplicates
  BY DEF PageInv, TypeOK
<1>3. list' \in Lists /\ Once(list')
  BY <1>1, <1>2, AttachedFacts, UpdatedFacts, WithoutFacts, AllReadFacts DEF Handled
<1>4. marks' \subseteq Messages
  <2>1. PICK m \in Messages \cup {0} : MarkAsRead(m)
    BY <1>1 DEF Handled
  <2> QED
    BY <2>1, MarkTyped DEF PageInv
<1>5. CASE fetch' = fetch
  BY <1>3, <1>4, <1>5 DEF PageInv, TypeOK
<1>6. CASE fetch' = [fetch EXCEPT !["poll"].phase = "asked"]
  BY <1>3, <1>4, <1>6, PollAsked
<1> QED
  BY <1>5, <1>6 DEF Handled

\* Events are sent, lost, and arrive, once or twice.
LEMMA EventsInv ==
  ASSUME PageInv,
         \/ OnEvent \/ Disconnect
         \/ \E e \in owed : SendEvent(e) \/ LoseEvent(e)
  PROVE  PageInv'
<1>1. wire \in Seq(Events) /\ owed \subseteq Events
  BY DEF PageInv, TypeOK
<1>2. CASE OnEvent
  <2>1. /\ wire # <<>> /\ wire' \in {wire, Tail(wire)} /\ Handled(Head(wire))
        /\ UNCHANGED <<logVars, calls, drawn, lastRef, waiting, openVars>>
    BY <1>2 DEF OnEvent
  <2>2. wire' \in Seq(Events) /\ Head(wire) \in Events
    BY <1>1, <2>1
  <2>3. PICK e \in Events : Handled(e)
    BY <2>1, <2>2
  <2>4. /\ list' \in Lists /\ Once(list') /\ marks' \subseteq Messages
        /\ fetch' \in [Fetches -> [phase : {"idle", "asked", "answered", "done"},
                                   rows : Lists]]
        /\ \A g \in Fetches : Once(fetch'[g].rows)
    BY <2>3, HandledInv
  <2> QED
    BY <2>1, <2>2, <2>4 DEF PageInv, TypeOK, logVars, openVars, NoDuplicates
<1>3. CASE Disconnect
  BY <1>3 DEF Disconnect, PageInv, TypeOK, logVars, openVars, NoDuplicates
<1>4. ASSUME NEW e \in owed, SendEvent(e) \/ LoseEvent(e) PROVE PageInv'
  <2>1. e \in Events /\ owed' \subseteq Events /\ Append(wire, e) \in Seq(Events)
    BY <1>1, <1>4 DEF SendEvent, LoseEvent, Forget
  <2> QED
    BY <1>4, <2>1 DEF SendEvent, LoseEvent, Forget, PageInv, TypeOK, openVars, NoDuplicates
<1> QED
  BY <1>2, <1>3, <1>4

\* The calls of both participants, and the marks of the page.
LEMMA CallsInv ==
  ASSUME PageInv,
         UserCalls \/ OthersCall \/ LoadMarked \/ \E m \in marks : MarkServed(m)
  PROVE  PageInv'
<1>1. /\ TypeOK /\ calls \in 0..MaxCalls /\ Me \in Users /\ Other(Me) \in Users
      /\ MaxCalls \in Nat
      /\ \A m \in Messages : message[m].sender \in Users
                             /\ Copied(m) \subseteq BOOLEAN
  BY PageAssumption DEF PageInv, TypeOK, Other, Users, Copied, Rows
<1>2. Counted => calls' \in 0..MaxCalls
  BY <1>1 DEF Counted
<1>3. CASE UserCalls
  <2>1. PICK m \in Messages :
          UserSends(m) \/ UserDeletes(m) \/ \E b \in Copied(m) : UserEdits(m, b)
    BY <1>3 DEF UserCalls
  <2>2. PICK b \in BOOLEAN :
          UserSends(m) \/ UserDeletes(m) \/ UserEdits(m, b)
    BY <1>1, <2>1
  <2>3. message' \in [Messages -> Rows] /\ owed' \subseteq Events
    BY <1>1, <2>2, ChangeTyped DEF UserSends, UserDeletes, UserEdits
  <2>4. PICK e \in Events : waiting' \subseteq waiting \cup {e} /\ e.kind # "read"
    <3>1. CASE UserSends(m)
      <4>1. waiting' \subseteq waiting \cup {Event("new", Me, m, FALSE)}
        BY <3>1 DEF UserSends, Add, Owes
      <4> QED
        BY <1>1, <4>1, EventFacts DEF Event
    <3>2. CASE UserDeletes(m)
      BY <1>1, <3>2, EventFacts DEF UserDeletes, Event
    <3>3. CASE UserEdits(m, b)
      BY <1>1, <3>3, EventFacts DEF UserEdits, Event
    <3> QED
      BY <2>2, <3>1, <3>2, <3>3
  <2> QED
    BY <1>2, <1>3, <2>3, <2>4 DEF UserCalls, PageInv, TypeOK, openVars, NoDuplicates
<1>4. CASE OthersCall
  <2>1. PICK m \in Messages :
          \/ Add(Other(Me), m) \/ Mark(Other(Me), m) \/ Delete(m)
          \/ \E b \in Copied(m) : Rewrite(m, b)
    BY <1>4 DEF OthersCall
  <2>2. PICK b \in BOOLEAN :
          Add(Other(Me), m) \/ Mark(Other(Me), m) \/ Delete(m) \/ Rewrite(m, b)
    BY <1>1, <2>1
  <2>3. message' \in [Messages -> Rows] /\ owed' \subseteq Events
    BY <1>1, <2>2, ChangeTyped
  <2> QED
    BY <1>2, <1>4, <2>3 DEF OthersCall, PageInv, TypeOK, openVars, NoDuplicates
<1>5. ASSUME NEW m PROVE UpTo(m) \in [Messages -> Rows]
  <2>1. \A row \in Rows : [row EXCEPT !.read = TRUE] \in Rows
    BY DEF Rows
  <2>2. Marked(Me, m) \in [Messages -> Rows]
    BY <1>1, <2>1 DEF Marked, TypeOK
  <2> QED
    BY <1>1, <2>2 DEF UpTo, TypeOK
<1>6. ASSUME NEW m \in marks, MarkServed(m) PROVE PageInv'
  BY <1>5, <1>6 DEF MarkServed, PageInv, TypeOK, openVars, NoDuplicates
<1>7. CASE LoadMarked
  BY <1>5, <1>7 DEF LoadMarked, PageInv, TypeOK, NoDuplicates
<1> QED
  BY <1>3, <1>4, <1>6, <1>7

\* The answers to the user's own calls.
LEMMA AnswersInv ==
  ASSUME PageInv, \E e \in waiting : Answer(e) \/ NoAnswer(e)
  PROVE  PageInv'
<1>1. PICK e \in waiting : Answer(e) \/ NoAnswer(e)
  OBVIOUS
<1>2. CASE NoAnswer(e)
  BY <1>2 DEF NoAnswer, PageInv, TypeOK, logVars, openVars, NoDuplicates
<1>3. CASE Answer(e)
  <2>1. e \in Events /\ list \in Lists /\ NoDuplicates
    BY DEF PageInv, TypeOK
  <2>2. /\ e.kind \in {"new", "updated", "deleted", "read"}
        /\ e.msg \in Messages /\ e.read \in BOOLEAN
    BY <2>1, EventFields
  <2>3. /\ e.kind = "new" =>
             list' = IF e.msg \in Ids(list) THEN list
                     ELSE Append(list, [msg |-> e.msg, read |-> FALSE])
        /\ e.kind = "updated" => list' = Updated(e.msg, e.read)
        /\ e.kind = "deleted" => list' = Without(e.msg)
    BY <1>3, ZenonT(30) DEF Answer
  <2>4. ASSUME e.kind = "new" PROVE list' \in Lists /\ Once(list')
    <3>1. PICK rows, m : rows = list /\ m = e.msg
      OBVIOUS
    <3>2. m \notin Ids(rows) =>
            LET new == Append(rows, [msg |-> m, read |-> FALSE])
            IN new \in Lists /\ Once(new)
      BY <2>1, <2>2, <3>1, AppendFacts DEF NoDuplicates
    <3> QED
      BY <2>1, <2>3, <2>4, <3>1, <3>2 DEF NoDuplicates
  <2>5. ASSUME e.kind = "updated" PROVE list' \in Lists /\ Once(list')
    BY <2>1, <2>2, <2>3, <2>5, UpdatedFacts
  <2>6. ASSUME e.kind = "deleted" PROVE list' \in Lists /\ Once(list')
    BY <2>1, <2>3, <2>6, WithoutFacts
  <2>7. list' \in Lists /\ Once(list')
    <3>1. e.kind # "read"
      BY DEF PageInv
    <3> QED
      BY <2>2, <2>4, <2>5, <2>6, <3>1
  <2> QED
    BY <1>3, <2>7 DEF Answer, PageInv, TypeOK, logVars, openVars, NoDuplicates
<1> QED
  BY <1>1, <1>2, <1>3

\* Every step of the page, of the chat and of the other participant.
LEMMA PageNextInv == PageInv /\ [Next]_vars => PageInv'
<1> SUFFICES ASSUME PageInv, [Next]_vars PROVE PageInv'
  OBVIOUS
<1>1. CASE UNCHANGED vars
  BY <1>1 DEF vars, logVars, openVars, PageInv, TypeOK, NoDuplicates
<1> QED
  BY <1>1, FetchesInv, ArrivesInv, EventsInv, CallsInv, AnswersInv DEF Next

\* PageInv holds in every reachable state.
LEMMA PageInvariance == Spec => []PageInv
BY PageInit, PageNextInv, PTL DEF Spec

\* The page holds lists of messages, and refers to messages of the chat only,
\* for any number of messages and calls.
THEOREM PageTyped == Spec => []TypeOK
<1>1. PageInv => TypeOK
  BY DEF PageInv
<1> QED
  BY <1>1, PageInvariance, PTL

\* No message is in the list twice, for any number of messages and calls and
\* whichever of an event, its second copy, the answer to the user's own call and
\* the answers of the fetches come first, are late, or never come.
THEOREM ShownOnce == Spec => []NoDuplicates
<1>1. PageInv => NoDuplicates
  BY DEF PageInv
<1> QED
  BY <1>1, PageInvariance, PTL
=============================================================================
