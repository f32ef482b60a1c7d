--------------------------- MODULE CatalogProofs ---------------------------
(***************************************************************************)
(* The pages that find listings.  For any filters, any length of the       *)
(* server's list and any number of requests under way: no page of a search *)
(* is shown twice.  For any searches and any size of the cache: once       *)
(* nothing is loading, the search page shows the search asked for last,    *)
(* but for the one way around the abort that past.overtaken records; and   *)
(* the cache keeps its bound.                                              *)
(*                                                                         *)
(* That two entries of the list differ follows from their numbers, which   *)
(* rise.  That they go on rising when a continuation arrives rests on      *)
(* there being one at a time, and on its number being above that of every  *)
(* page shown: when it was sent, and after each load that has replaced the *)
(* list since, which starts again at page one.  Of the search page the     *)
(* invariant adds that the request under way is about the search asked for *)
(* last, because each new request takes the place of the one before.       *)
(*                                                                         *)
(* The hearts of a listing, of the lists and of the cards show what the    *)
(* server keeps, but for the ways HeartExplained names.  The invariant     *)
(* says of a click under way what the server will keep because of it       *)
(* (Wished), which is why a refusal can be taken back; where nothing waits *)
(* for the load (OnLists), or two cards may be clicked at once (OnCards),  *)
(* it says so only as long as what past remembers has not happened.        *)
(***************************************************************************)
EXTENDS CatalogPage, SearchPage, ListingPages, SequenceTheorems, TLAPS

-----------------------------------------------------------------------------
(***************************************************************************)
(* What the proofs about the pages need of the requests under way: what is *)
(* left when one of them has been answered, and that the others stay what  *)
(* they were when one is sent, comes back or is answered.  Exchanged says  *)
(* the whole of it: which requests a step takes away, and what it adds.    *)
(***************************************************************************)

\* A step: the requests of these kinds under way after it were so before, each
\* at a place of its own.
CarriedOver(kinds) ==
  \E f : /\ \A k \in 1..Len(flight') : flight'[k].op \in kinds =>
              f[k] \in 1..Len(flight) /\ flight'[k] = flight[f[k]]
         /\ \A k, l \in 1..Len(flight') :
              flight'[k].op \in kinds /\ flight'[l].op \in kinds /\ f[k] = f[l] => k = l

\* The elements of a sequence are those at its places; it holds each once if no
\* two places hold the same.
LEMMA SeqElements ==
  ASSUME NEW S, NEW s \in Seq(S)
  PROVE  /\ \A i \in 1..Len(s) : s[i] \in ToSet(s)
         /\ \A x \in ToSet(s) : \E i \in 1..Len(s) : x = s[i]
         /\ IsInjective(s) <=> \A i, j \in 1..Len(s) : s[i] = s[j] => i = j
<1>1. DOMAIN s = 1..Len(s)
  OBVIOUS
<1> QED
  BY <1>1 DEF ToSet, IsInjective

\* What is left of a sequence without one of its elements.
LEMMA RemoveAtFacts ==
  ASSUME NEW S, NEW s \in Seq(S), NEW i \in 1..Len(s)
  PROVE  /\ RemoveAt(s, i) \in Seq(S)
         /\ Len(RemoveAt(s, i)) = Len(s) - 1
         /\ \A j \in 1..(Len(s) - 1) :
              RemoveAt(s, i)[j] = IF j < i THEN s[j] ELSE s[j + 1]
<1> DEFINE a == SubSeq(s, 1, i - 1)
           b == SubSeq(s, i + 1, Len(s))
<1>1. a \in Seq(S) /\ Len(a) = i - 1 /\ \A j \in 1..(i - 1) : a[j] = s[j]
  OBVIOUS
<1>2. /\ b \in Seq(S) /\ Len(b) = Len(s) - i
      /\ \A j \in 1..(Len(s) - i) : b[j] = s[i + j]
  OBVIOUS
<1>3. RemoveAt(s, i) = a \o b
  BY DEF RemoveAt
<1> HIDE DEF a, b
<1>4. a \o b \in Seq(S) /\ Len(a \o b) = Len(s) - 1
  <2>1. a \o b \in Seq(S) /\ Len(a \o b) = Len(a) + Len(b)
    BY <1>1, <1>2, ConcatProperties
  <2> QED
    BY <1>1, <1>2, <2>1
<1>5. ASSUME NEW j \in 1..(Len(s) - 1)
      PROVE  (a \o b)[j] = IF j < i THEN s[j] ELSE s[j + 1]
  <2>1. CASE j < i
    <3>1. (a \o b)[j] = a[j]
      BY <1>1, <1>2, <2>1, ConcatProperties
    <3> QED
      BY <1>1, <2>1, <3>1
  <2>2. CASE ~(j < i)
    <3>1. (a \o b)[j] = b[j - Len(a)]
      BY <1>1, <1>2, <2>2, ConcatProperties
    <3>2. b[j - (i - 1)] = s[i + (j - (i - 1))]
      BY <1>2, <2>2
    <3>3. i + (j - (i - 1)) = j + 1 /\ j - Len(a) = j - (i - 1)
      BY <1>1, <2>2
    <3> QED
      BY <2>2, <3>1, <3>2, <3>3
  <2> QED
    BY <2>1, <2>2
<1> QED
  BY <1>3, <1>4, <1>5

\* An element is taken out of a sequence that holds it once.
LEMMA RemoveAtSet ==
  ASSUME NEW S, NEW s \in Seq(S), NEW i \in 1..Len(s), IsInjective(s)
  PROVE  /\ IsInjective(RemoveAt(s, i))
         /\ ToSet(RemoveAt(s, i)) = ToSet(s) \ {s[i]}
<1> DEFINE t == RemoveAt(s, i)
<1>1. /\ t \in Seq(S) /\ Len(t) = Len(s) - 1 /\ Len(s) \in Nat
      /\ \A j \in 1..(Len(s) - 1) : t[j] = IF j < i THEN s[j] ELSE s[j + 1]
  BY RemoveAtFacts, LenProperties
<1> HIDE DEF t
<1>2. \A j, k \in 1..Len(s) : s[j] = s[k] => j = k
  BY SeqElements
<1>3. ASSUME NEW j \in 1..Len(t)
      PROVE  \/ j < i /\ t[j] = s[j] /\ j \in 1..Len(s)
             \/ ~(j < i) /\ t[j] = s[j + 1] /\ j + 1 \in 1..Len(s)
  BY <1>1
<1>4. ASSUME NEW j \in 1..Len(t), NEW k \in 1..Len(t), t[j] = t[k] PROVE j = k
  BY <1>2, <1>3, <1>4
<1>5. IsInjective(t)
  BY <1>1, <1>4, SeqElements
<1>6. ToSet(t) \subseteq ToSet(s) \ {s[i]}
  <2> SUFFICES ASSUME NEW x \in ToSet(t) PROVE x \in ToSet(s) /\ x # s[i]
    OBVIOUS
  <2>1. PICK j \in 1..Len(t) : x = t[j]
    BY <1>1, SeqElements
  <2>2. PICK k \in 1..Len(s) : k # i /\ x = s[k]
    BY <1>3, <2>1
  <2> QED
    BY <1>2, <2>2, SeqElements
<1>7. ToSet(s) \ {s[i]} \subseteq ToSet(t)
  <2> SUFFICES ASSUME NEW x \in ToSet(s), x # s[i] PROVE x \in ToSet(t)
    OBVIOUS
  <2>1. PICK k \in 1..Len(s) : x = s[k]
    BY SeqElements
  <2>2. CASE k < i
    <3>1. k \in 1..Len(t) /\ t[k] = s[k]
      BY <1>1, <2>2
    <3> QED
      BY <1>1, <2>1, <3>1, SeqElements
  <2>3. CASE ~(k < i)
    <3>1. k - 1 \in 1..Len(t) /\ ~(k - 1 < i) /\ (k - 1) + 1 = k
      BY <1>1, <2>1, <2>3
    <3>2. t[k - 1] = s[k]
      BY <1>1, <3>1
    <3> QED
      BY <1>1, <2>1, <3>1, <3>2, SeqElements
  <2> QED
    BY <2>2, <2>3
<1> QED
  BY <1>5, <1>6, <1>7 DEF t

\* Nothing is sent, and nothing arrives.
LEMMA SameCarries ==
  ASSUME NEW kinds, UNCHANGED flight
  PROVE  CarriedOver(kinds)
<1> DEFINE f == [k \in 1..Len(flight) |-> k]
<1>1. \A k \in 1..Len(flight') : f[k] = k
  OBVIOUS
<1> HIDE DEF f
<1> QED
  BY <1>1 DEF CarriedOver

\* A request of another kind is sent.
LEMMA SendCarries ==
  ASSUME NEW S, flight \in Seq(S), NEW r \in S, Send(r), NEW kinds, r.op \notin kinds
  PROVE  /\ flight' \in Seq(S)
         /\ CarriedOver(kinds)
         /\ Len(flight') = Len(flight) + 1 /\ flight'[Len(flight) + 1] = r
         /\ \A k \in 1..Len(flight) : flight'[k] = flight[k]
<1> DEFINE f == [k \in 1..(Len(flight) + 1) |-> k]
<1>1. /\ flight' \in Seq(S) /\ Len(flight') = Len(flight) + 1
      /\ flight'[Len(flight) + 1] = r
      /\ \A k \in 1..Len(flight) : flight'[k] = flight[k]
  BY DEF Send
<1>2. \A k \in 1..Len(flight') : f[k] = k
  BY <1>1
<1> HIDE DEF f
<1>3. ASSUME NEW k \in 1..Len(flight'), flight'[k].op \in kinds
      PROVE  k \in 1..Len(flight)
  BY <1>1, <1>3
<1>4. ASSUME NEW k \in 1..Len(flight'), flight'[k].op \in kinds
      PROVE  f[k] \in 1..Len(flight) /\ flight'[k] = flight[f[k]]
  <2>1. k \in 1..Len(flight) /\ f[k] = k
    BY <1>2, <1>3, <1>4
  <2> QED
    BY <1>1, <2>1
<1>5. ASSUME NEW k \in 1..Len(flight'), NEW l \in 1..Len(flight'), f[k] = f[l]
      PROVE  k = l
  BY <1>2, <1>5, Zenon
<1>6. CarriedOver(kinds)
  BY <1>4, <1>5 DEF CarriedOver
<1> QED
  BY <1>1, <1>6

\* A request of another kind reaches the server, or is sent again.
LEMMA ReturnCarries ==
  ASSUME NEW S, flight \in Seq(S), NEW i \in 1..Len(flight), NEW r \in S,
         Return(i, r), NEW kinds, r.op \notin kinds
  PROVE  /\ flight' \in Seq(S)
         /\ CarriedOver(kinds)
         /\ Len(flight') = Len(flight) /\ flight'[i] = r
         /\ \A k \in 1..Len(flight) : k # i => flight'[k] = flight[k]
<1> DEFINE f == [k \in 1..Len(flight) |-> k]
<1>1. /\ flight' \in Seq(S) /\ Len(flight') = Len(flight) /\ flight'[i] = r
      /\ \A k \in 1..Len(flight) : k # i => flight'[k] = flight[k]
  BY DEF Return
<1>2. \A k \in 1..Len(flight') : f[k] = k
  BY <1>1
<1> HIDE DEF f
<1>3. ASSUME NEW k \in 1..Len(flight'), flight'[k].op \in kinds
      PROVE  f[k] \in 1..Len(flight) /\ flight'[k] = flight[f[k]]
  <2>1. k \in 1..Len(flight) /\ k # i /\ f[k] = k
    BY <1>1, <1>2, <1>3
  <2> QED
    BY <1>1, <2>1
<1>4. ASSUME NEW k \in 1..Len(flight'), NEW l \in 1..Len(flight'), f[k] = f[l]
      PROVE  k = l
  BY <1>2, <1>4, Zenon
<1>5. CarriedOver(kinds)
  BY <1>3, <1>4 DEF CarriedOver
<1> QED
  BY <1>1, <1>5

\* A request is answered: those that are left were other requests.
LEMMA LandCarries ==
  ASSUME NEW S, flight \in Seq(S), NEW i \in 1..Len(flight), Land(i), NEW kinds
  PROVE  /\ flight' \in Seq(S)
         /\ CarriedOver(kinds)
         /\ \A k \in 1..Len(flight') :
              \E l \in 1..Len(flight) : l # i /\ flight'[k] = flight[l]
<1> DEFINE f == [k \in 1..Len(flight') |-> IF k < i THEN k ELSE k + 1]
<1>1. /\ flight' \in Seq(S) /\ Len(flight') = Len(flight) - 1
      /\ \A k \in 1..(Len(flight) - 1) :
           flight'[k] = IF k < i THEN flight[k] ELSE flight[k + 1]
  BY RemoveAtFacts DEF Land
<1>2. ASSUME NEW k \in 1..Len(flight')
      PROVE  f[k] \in 1..Len(flight) /\ f[k] # i /\ flight'[k] = flight[f[k]]
  <2>1. f[k] = IF k < i THEN k ELSE k + 1
    OBVIOUS
  <2> HIDE DEF f
  <2>2. CASE k < i
    BY <1>1, <2>1, <2>2
  <2>3. CASE ~(k < i)
    BY <1>1, <2>1, <2>3
  <2> QED
    BY <2>2, <2>3
<1>3. ASSUME NEW k \in 1..Len(flight'), NEW l \in 1..Len(flight'), f[k] = f[l]
      PROVE  k = l
  BY <1>1, <1>3
<1> HIDE DEF f
<1>4. CarriedOver(kinds)
  BY <1>2, <1>3 DEF CarriedOver
<1> QED
  BY <1>1, <1>2, <1>4
-----------------------------------------------------------------------------
\* The requests under way but for those at some places.
Left(gone) == {flight[l] : l \in (1..Len(flight)) \ gone}

\* A step: the requests at the places gone are under way no more, one of new is
\* (there is one at most), and each of the others has a place of its own still;
\* the place of what is new comes from nowhere, from 0.
Exchanged(gone, new) ==
  \E f : /\ \A k \in 1..Len(flight') :
              \/ f[k] \in (1..Len(flight)) \ gone /\ flight'[k] = flight[f[k]]
              \/ f[k] = 0 /\ flight'[k] \in new
         /\ \A k, l \in 1..Len(flight') : f[k] = f[l] => k = l
         /\ \A l \in (1..Len(flight)) \ gone : \E k \in 1..Len(flight') : f[k] = l
         /\ \A r \in new : \E k \in 1..Len(flight') : f[k] = 0 /\ flight'[k] = r

\* Nothing is sent, and nothing arrives.
LEMMA SameExchange ==
  ASSUME UNCHANGED flight
  PROVE  Exchanged({}, {})
<1> DEFINE f == [k \in 1..Len(flight) |-> k]
<1>1. \A k \in 1..Len(flight') : f[k] = k /\ k \in 1..Len(flight) /\ flight'[k] = flight[k]
  OBVIOUS
<1>2. \A l \in 1..Len(flight) : l \in 1..Len(flight')
  OBVIOUS
<1> HIDE DEF f
<1>3. \A l \in (1..Len(flight)) \ {} : \E k \in 1..Len(flight') : f[k] = l
  BY <1>1, <1>2
<1>4. /\ \A k, l \in 1..Len(flight') : f[k] = f[l] => k = l
      /\ \A k \in 1..Len(flight') :
           \/ f[k] \in (1..Len(flight)) \ {} /\ flight'[k] = flight[f[k]]
           \/ f[k] = 0 /\ flight'[k] \in {}
      /\ \A r \in {} : \E k \in 1..Len(flight') : f[k] = 0 /\ flight'[k] = r
  BY <1>1
<1> QED
  BY <1>3, <1>4, Zenon DEF Exchanged

\* A request is sent.
LEMMA SentExchange ==
  ASSUME NEW S, flight \in Seq(S), NEW r \in S, Send(r)
  PROVE  flight' \in Seq(S) /\ Exchanged({}, {r})
<1> DEFINE n == Len(flight)
           f == [k \in 1..(n + 1) |-> IF k = n + 1 THEN 0 ELSE k]
<1>1. /\ flight' \in Seq(S) /\ Len(flight') = n + 1 /\ flight'[n + 1] = r
      /\ \A k \in 1..n : flight'[k] = flight[k]
  BY DEF Send
<1>2. n \in Nat
  BY LenProperties
<1> HIDE DEF n
<1>3. /\ n + 1 \in 1..(n + 1) /\ f[n + 1] = 0
      /\ \A k \in 1..n : k \in 1..(n + 1) /\ f[k] = k
      /\ \A k \in 1..(n + 1) : k = n + 1 \/ k \in 1..n
      /\ 0 \notin 1..n
  BY <1>2
<1> HIDE DEF f
<1>4. \A k, l \in 1..(n + 1) : f[k] = f[l] => k = l
  BY <1>3
<1>5. \A k \in 1..(n + 1) : \/ f[k] \in 1..n /\ flight'[k] = flight[f[k]]
                            \/ f[k] = 0 /\ flight'[k] \in {r}
  BY <1>1, <1>3
<1>6. \A l \in 1..n : \E k \in 1..(n + 1) : f[k] = l
  BY <1>3
<1>7. Exchanged({}, {r})
  <2>1. Len(flight') = n + 1
    BY <1>1
  <2>2. \A k \in 1..Len(flight') :
          \/ f[k] \in (1..n) \ {} /\ flight'[k] = flight[f[k]]
          \/ f[k] = 0 /\ flight'[k] \in {r}
    BY <2>1, <1>1, <1>3, <1>4, <1>5, <1>6
  <2>3. /\ \A k, l \in 1..Len(flight') : f[k] = f[l] => k = l
        /\ \A l \in (1..n) \ {} : \E k \in 1..Len(flight') : f[k] = l
        /\ \A x \in {r} : \E k \in 1..Len(flight') : f[k] = 0 /\ flight'[k] = x
    BY <2>1, <1>1, <1>3, <1>4, <1>5, <1>6
  <2> QED
    BY <2>2, <2>3 DEF n, Exchanged
<1> QED
  BY <1>1, <1>7

\* A request reaches the server: another is on its way back.
LEMMA ReturnedExchange ==
  ASSUME NEW S, flight \in Seq(S), NEW i \in 1..Len(flight), NEW r \in S, Return(i, r)
  PROVE  flight' \in Seq(S) /\ Exchanged({i}, {r})
<1> DEFINE n == Len(flight)
           f == [k \in 1..n |-> IF k = i THEN 0 ELSE k]
<1>1. /\ flight' \in Seq(S) /\ Len(flight') = n /\ flight'[i] = r
      /\ \A k \in 1..n : k # i => flight'[k] = flight[k]
  BY DEF Return
<1>2. n \in Nat /\ i \in 1..n
  BY LenProperties
<1> HIDE DEF n
<1>3. f[i] = 0 /\ (\A k \in 1..n : k # i => f[k] = k) /\ 0 \notin 1..n
  BY <1>2
<1> HIDE DEF f
<1>4. \A k, l \in 1..n : f[k] = f[l] => k = l
  BY <1>2, <1>3
<1>5. \A k \in 1..n : \/ f[k] \in (1..n) \ {i} /\ flight'[k] = flight[f[k]]
                      \/ f[k] = 0 /\ flight'[k] \in {r}
  BY <1>1, <1>3
<1>6. \A l \in (1..n) \ {i} : \E k \in 1..n : f[k] = l
  BY <1>3
<1>7. Exchanged({i}, {r})
  <2>1. Len(flight') = n
    BY <1>1
  <2>2. \A k \in 1..Len(flight') :
          \/ f[k] \in (1..n) \ {i} /\ flight'[k] = flight[f[k]]
          \/ f[k] = 0 /\ flight'[k] \in {r}
    BY <2>1, <1>1, <1>2, <1>3, <1>4, <1>5, <1>6
  <2>3. /\ \A k, l \in 1..Len(flight') : f[k] = f[l] => k = l
        /\ \A l \in (1..n) \ {i} : \E k \in 1..Len(flight') : f[k] = l
        /\ \A x \in {r} : \E k \in 1..Len(flight') : f[k] = 0 /\ flight'[k] = x
    BY <2>1, <1>1, <1>2, <1>3, <1>4, <1>5, <1>6
  <2> QED
    BY <2>2, <2>3 DEF n, Exchanged
<1> QED
  BY <1>1, <1>7

\* A request is answered.
LEMMA LandedExchange ==
  ASSUME NEW S, flight \in Seq(S), NEW i \in 1..Len(flight), Land(i)
  PROVE  flight' \in Seq(S) /\ Exchanged({i}, {})
<1> DEFINE n == Len(flight)
           f == [k \in 1..n |-> IF k < i THEN k ELSE k + 1]
<1>1. /\ flight' \in Seq(S) /\ Len(flight') = n - 1
      /\ \A k \in 1..(n - 1) : flight'[k] = IF k < i THEN flight[k] ELSE flight[k + 1]
  BY RemoveAtFacts DEF Land
<1>2. n \in Nat /\ i \in 1..n
  BY LenProperties
<1> HIDE DEF n
<1>3. /\ \A k \in 1..(n - 1) : k < i => k \in (1..n) \ {i} /\ f[k] = k
      /\ \A k \in 1..(n - 1) : ~(k < i) => k + 1 \in (1..n) \ {i} /\ f[k] = k + 1
  BY <1>2
<1>4. \A k, l \in 1..(n - 1) : f[k] = f[l] => k = l
  BY <1>2, <1>3
<1>5. \A l \in (1..n) \ {i} : \E k \in 1..(n - 1) : f[k] = l
  <2> SUFFICES ASSUME NEW l \in (1..n) \ {i} PROVE \E k \in 1..(n - 1) : f[k] = l
    OBVIOUS
  <2>1. CASE l < i
    <3>1. l \in 1..(n - 1)
      BY <1>2, <2>1
    <3> QED
      BY <1>3, <2>1, <3>1
  <2>2. CASE ~(l < i)
    <3>1. l - 1 \in 1..(n - 1) /\ ~(l - 1 < i) /\ (l - 1) + 1 = l
      BY <1>2, <2>2
    <3>2. f[l - 1] = (l - 1) + 1
      BY <1>3, <3>1
    <3> QED
      BY <3>1, <3>2
  <2> QED
    BY <2>1, <2>2
<1> HIDE DEF f
<1>6. \A k \in 1..(n - 1) : f[k] \in (1..n) \ {i} /\ flight'[k] = flight[f[k]]
  BY <1>1, <1>3
<1>7. Exchanged({i}, {})
  <2>1. Len(flight') = n - 1
    BY <1>1
  <2>2. \A k \in 1..Len(flight') :
          \/ f[k] \in (1..n) \ {i} /\ flight'[k] = flight[f[k]]
          \/ f[k] = 0 /\ flight'[k] \in {}
    BY <2>1, <1>1, <1>4, <1>5, <1>6
  <2>3. /\ \A k, l \in 1..Len(flight') : f[k] = f[l] => k = l
        /\ \A l \in (1..n) \ {i} : \E k \in 1..Len(flight') : f[k] = l
        /\ \A x \in {} : \E k \in 1..Len(flight') : f[k] = 0 /\ flight'[k] = x
    BY <2>1, <1>1, <1>4, <1>5, <1>6
  <2> QED
    BY <2>2, <2>3 DEF n, Exchanged
<1> QED
  BY <1>1, <1>7

\* A sequence, and one more element.
LEMMA OneMore ==
  ASSUME NEW S, NEW s \in Seq(S), NEW r \in S
  PROVE  /\ s \o <<r>> \in Seq(S) /\ Len(s \o <<r>>) = Len(s) + 1
         /\ (s \o <<r>>)[Len(s) + 1] = r
         /\ \A k \in 1..Len(s) : (s \o <<r>>)[k] = s[k]
<1>1. s \o <<r>> = Append(s, r)
  BY AppendIsConcat
<1>2. /\ Append(s, r) \in Seq(S) /\ Len(Append(s, r)) = Len(s) + 1
      /\ Append(s, r)[Len(s) + 1] = r
      /\ \A k \in 1..Len(s) : Append(s, r)[k] = s[k]
  BY AppendProperties
<1> QED
  BY <1>1, <1>2, Zenon

\* A request is answered, and another one sent.
LEMMA FollowedExchange ==
  ASSUME NEW S, flight \in Seq(S), NEW i \in 1..Len(flight), NEW r \in S,
         flight' = RemoveAt(flight, i) \o <<r>>
  PROVE  flight' \in Seq(S) /\ Exchanged({i}, {r})
<1> DEFINE n == Len(flight)
           rest == RemoveAt(flight, i)
           f == [k \in 1..n |-> IF k = n THEN 0 ELSE IF k < i THEN k ELSE k + 1]
<1>1. /\ rest \in Seq(S) /\ Len(rest) = n - 1
      /\ \A k \in 1..(n - 1) : rest[k] = IF k < i THEN flight[k] ELSE flight[k + 1]
  BY RemoveAtFacts
<1>2. n \in Nat /\ i \in 1..n
  BY LenProperties
<1>3. /\ flight' \in Seq(S) /\ Len(flight') = Len(rest) + 1
      /\ flight'[Len(rest) + 1] = r
      /\ \A k \in 1..Len(rest) : flight'[k] = rest[k]
  <2> HIDE DEF rest
  <2> DEFINE t == rest \o <<r>>
  <2>1. /\ t \in Seq(S) /\ Len(t) = Len(rest) + 1 /\ t[Len(rest) + 1] = r
        /\ \A k \in 1..Len(rest) : t[k] = rest[k]
    BY <1>1, OneMore
  <2>2. flight' = t
    BY DEF rest
  <2> HIDE DEF t
  <2> QED
    BY <2>1, <2>2
<1> HIDE DEF n, rest
<1>4. /\ flight' \in Seq(S) /\ Len(flight') = n /\ flight'[n] = r
      /\ \A k \in 1..(n - 1) : flight'[k] = rest[k]
  <2>1. Len(rest) = n - 1 /\ (n - 1) + 1 = n
    BY <1>1, <1>2
  <2> QED
    BY <1>3, <2>1, Zenon
<1>5. /\ f[n] = 0
      /\ \A k \in 1..(n - 1) : k < i => k \in (1..n) \ {i} /\ f[k] = k
      /\ \A k \in 1..(n - 1) : ~(k < i) => k + 1 \in (1..n) \ {i} /\ f[k] = k + 1
      /\ \A k \in 1..n : k = n \/ k \in 1..(n - 1)
      /\ \A k \in 1..(n - 1) : k \in 1..n
  BY <1>2
<1>6. \A k, l \in 1..n : f[k] = f[l] => k = l
  BY <1>2
<1>7. \A l \in (1..n) \ {i} : \E k \in 1..n : f[k] = l
  <2> SUFFICES ASSUME NEW l \in (1..n) \ {i} PROVE \E k \in 1..n : f[k] = l
    OBVIOUS
  <2>1. CASE l < i
    <3>1. l \in 1..(n - 1)
      BY <1>2, <2>1
    <3> QED
      BY <1>5, <2>1, <3>1
  <2>2. CASE ~(l < i)
    <3>1. l - 1 \in 1..(n - 1) /\ ~(l - 1 < i) /\ (l - 1) + 1 = l
      BY <1>2, <2>2
    <3>2. f[l - 1] = (l - 1) + 1
      BY <1>5, <3>1
    <3> QED
      BY <1>5, <3>1, <3>2
  <2> QED
    BY <2>1, <2>2
<1> HIDE DEF f
<1>8. \A k \in 1..(n - 1) : f[k] \in (1..n) \ {i} /\ flight'[k] = flight[f[k]]
  BY <1>1, <1>4, <1>5
<1>9. \A k \in 1..n : \/ f[k] \in (1..n) \ {i} /\ flight'[k] = flight[f[k]]
                      \/ f[k] = 0 /\ flight'[k] \in {r}
  BY <1>4, <1>5, <1>8
<1>10. Exchanged({i}, {r})
  <2>1. Len(flight') = n
    BY <1>4
  <2>2. \A k \in 1..Len(flight') :
          \/ f[k] \in (1..n) \ {i} /\ flight'[k] = flight[f[k]]
          \/ f[k] = 0 /\ flight'[k] \in {r}
    BY <2>1, <1>2, <1>4, <1>5, <1>6, <1>7, <1>9
  <2>3. /\ \A k, l \in 1..Len(flight') : f[k] = f[l] => k = l
        /\ \A l \in (1..n) \ {i} : \E k \in 1..Len(flight') : f[k] = l
    BY <2>1, <1>6, <1>7
  <2>4. \A x \in {r} : \E k \in 1..Len(flight') : f[k] = 0 /\ flight'[k] = x
    <3>1. n \in 1..Len(flight')
      BY <2>1, <1>2
    <3> QED
      BY <3>1, <1>4, <1>5
  <2> QED
    BY <2>2, <2>3, <2>4 DEF n, Exchanged
<1> QED
  BY <1>4, <1>10

\* What is under way after the step.
LEMMA ExchangedLeft ==
  ASSUME NEW gone, NEW new, Exchanged(gone, new)
  PROVE  Left({})' = Left(gone) \cup new
<1>1. PICK f : /\ \A k \in 1..Len(flight') :
                    \/ f[k] \in (1..Len(flight)) \ gone /\ flight'[k] = flight[f[k]]
                    \/ f[k] = 0 /\ flight'[k] \in new
               /\ \A l \in (1..Len(flight)) \ gone : \E k \in 1..Len(flight') : f[k] = l
               /\ \A r \in new : \E k \in 1..Len(flight') : f[k] = 0 /\ flight'[k] = r
  BY DEF Exchanged
<1>2. ASSUME NEW r \in Left({})' PROVE r \in Left(gone) \cup new
  <2>1. PICK k \in 1..Len(flight') : r = flight'[k]
    BY DEF Left
  <2> QED
    BY <1>1, <2>1 DEF Left
<1>3. ASSUME NEW l \in (1..Len(flight)) \ gone PROVE flight[l] \in Left({})'
  <2>1. PICK k \in 1..Len(flight') : f[k] = l
    BY <1>1
  <2>2. flight'[k] = flight[l]
    <3>1. \/ flight'[k] = flight[l]
          \/ l = 0
      BY <1>1, <2>1
    <3>2. l # 0
      OBVIOUS
    <3> QED
      BY <3>1, <3>2
  <2> QED
    BY <2>2 DEF Left
<1>4. ASSUME NEW r \in new PROVE r \in Left({})'
  BY <1>1 DEF Left
<1> QED
  BY <1>2, <1>3, <1>4 DEF Left

\* A request, and what is left without it.
LEMMA LeftOne ==
  ASSUME NEW i \in 1..Len(flight)
  PROVE  Left({}) = Left({i}) \cup {flight[i]}
BY DEF Left

-----------------------------------------------------------------------------
(***************************************************************************)
(* The catalog.                                                            *)
(***************************************************************************)
\* The pages of the list are in order; the last is not after ui.page, which
\* on a category page stays at one.
PagesRise ==
  /\ \A i, j \in 1..Len(ui.list) : i < j => ui.list[i].page < ui.list[j].page
  /\ \A i \in 1..Len(ui.list) : ui.list[i].page <= ui.page
  /\ ui.page >= 1
  /\ ui.at = "category" => ui.page = 1

\* A load asks for page one; a continuation for one that is not yet shown.
AsksAhead(r) ==
  \/ r.op = "load" /\ r.page = 1
  \/ /\ r.op = "more" /\ r.page > 1
     /\ ui.at = "browse" /\ ui.loadingMore
     /\ \A i \in 1..Len(ui.list) : ui.list[i].page < r.page

OneContinuation ==
  \A k, l \in 1..Len(flight) :
    flight[k].op = "more" /\ flight[l].op = "more" => k = l

CatalogInv ==
  /\ CatalogTypeOK
  /\ PagesRise
  /\ \A k \in 1..Len(flight) : AsksAhead(flight[k])
  /\ OneContinuation

-----------------------------------------------------------------------------
\* The requests that are left have been under way before, each at one place.
LEMMA LandKeeps ==
  ASSUME CatalogTypeOK, OneContinuation, NEW i \in DOMAIN flight, Land(i)
  PROVE  /\ flight' \in Seq(CatalogRequests)
         /\ OneContinuation'
         /\ \A k \in 1..Len(flight') :
              \E l \in 1..Len(flight) : l # i /\ flight'[k] = flight[l]
<1>1. flight \in Seq(CatalogRequests) /\ i \in 1..Len(flight)
  BY DEF CatalogTypeOK
<1>2. /\ flight' \in Seq(CatalogRequests) /\ Len(flight') = Len(flight) - 1
      /\ \A j \in 1..(Len(flight) - 1) :
           flight'[j] = IF j < i THEN flight[j] ELSE flight[j + 1]
  BY <1>1, RemoveAtFacts DEF Land
<1>3. OneContinuation'
  <2> SUFFICES ASSUME NEW k \in 1..Len(flight'), NEW l \in 1..Len(flight'),
                      flight'[k].op = "more", flight'[l].op = "more"
               PROVE  k = l
    BY DEF OneContinuation
  <2> DEFINE At0(j) == IF j < i THEN j ELSE j + 1
  <2>1. ASSUME NEW j \in 1..Len(flight')
        PROVE  At0(j) \in 1..Len(flight) /\ flight'[j] = flight[At0(j)]
    <3>1. /\ j \in 1..(Len(flight) - 1) /\ j \in 1..Len(flight)
          /\ j + 1 \in 1..Len(flight)
      BY <1>1, <1>2
    <3>2. flight'[j] = IF j < i THEN flight[j] ELSE flight[j + 1]
      BY <1>2, <3>1
    <3>3. At0(j) = IF j < i THEN j ELSE j + 1
      OBVIOUS
    <3> HIDE DEF At0
    <3> QED
      BY <3>1, <3>2, <3>3
  <2>2. At0(k) = At0(l)
    <3> HIDE DEF At0
    <3>1. /\ At0(k) \in 1..Len(flight) /\ flight[At0(k)].op = "more"
          /\ At0(l) \in 1..Len(flight) /\ flight[At0(l)].op = "more"
      BY <2>1
    <3> QED
      BY <3>1 DEF OneContinuation
  <2> QED
    BY <1>1, <1>2, <2>2
<1>4. ASSUME NEW k \in 1..Len(flight')
      PROVE  \E l \in 1..Len(flight) : l # i /\ flight'[k] = flight[l]
  <2>1. CASE k < i
    BY <1>1, <1>2, <2>1
  <2>2. CASE k >= i
    BY <1>1, <1>2, <2>2
  <2> QED
    BY <1>1, <1>2, <2>1, <2>2
<1> QED
  BY <1>2, <1>3, <1>4

\* One more request under way, a load, or the only continuation.
LEMMA SendKeeps ==
  ASSUME CatalogTypeOK, OneContinuation, NEW r \in CatalogRequests, Send(r),
         r.op = "more" => \A k \in 1..Len(flight) : flight[k].op # "more"
  PROVE  /\ flight' \in Seq(CatalogRequests)
         /\ OneContinuation'
         /\ \A k \in 1..Len(flight') :
              flight'[k] = r \/ \E l \in 1..Len(flight) : flight'[k] = flight[l]
<1>1. flight \in Seq(CatalogRequests) /\ flight' = Append(flight, r)
  BY DEF CatalogTypeOK, Send
<1>2. /\ flight' \in Seq(CatalogRequests) /\ Len(flight') = Len(flight) + 1
      /\ flight'[Len(flight) + 1] = r
      /\ \A j \in 1..Len(flight) : flight'[j] = flight[j]
  BY <1>1
<1>3. ASSUME NEW k \in 1..Len(flight')
      PROVE  k \in 1..Len(flight) \/ k = Len(flight) + 1
  BY <1>1, <1>2
<1>4. OneContinuation'
  BY <1>2, <1>3 DEF OneContinuation
<1> QED
  BY <1>2, <1>3, <1>4

\* Normalizing changes the price only.
LEMMA NormalizedType == \A f \in Filters : Normalized(f) \in Filters
BY DEF Normalized, Filters

\* An answer holds one page, or nothing: the one asked for.
LEMMA ItemsFacts ==
  ASSUME NEW r \in CatalogRequests
  PROVE  /\ Items(r) \in Seq(Pages)
         /\ Len(Items(r)) <= 1
         /\ \A i \in 1..Len(Items(r)) : Items(r)[i].page = r.page
<1>1. [of |-> r.of, page |-> r.page] \in Pages
  BY DEF CatalogRequests, Pages
<1>2. CASE r.page <= LastPage
  BY <1>1, <1>2 DEF Items
<1>3. CASE ~(r.page <= LastPage)
  BY <1>3 DEF Items
<1> QED
  BY <1>2, <1>3

\* What is known of a request under way.
LEMMA RequestFacts ==
  ASSUME CatalogInv, NEW i \in DOMAIN flight
  PROVE  /\ i \in 1..Len(flight) /\ flight[i] \in CatalogRequests
         /\ flight[i].op \in {"load", "more"} /\ flight[i].page \in Nat
         /\ AsksAhead(flight[i])
<1>1. flight \in Seq(CatalogRequests)
  BY DEF CatalogInv, CatalogTypeOK
<1>2. i \in 1..Len(flight) /\ flight[i] \in CatalogRequests
  BY <1>1
<1>3. AsksAhead(flight[i])
  BY <1>2 DEF CatalogInv
<1> QED
  BY <1>2, <1>3 DEF CatalogRequests

-----------------------------------------------------------------------------
\* The empty list, and nothing under way.
LEMMA CatalogInitInv == CatalogInit => CatalogInv
<1> SUFFICES ASSUME CatalogInit PROVE CatalogInv
  OBVIOUS
<1>1. flight = <<>> /\ ui.list = <<>> /\ ui.page = 1
  BY DEF CatalogInit, Booted
<1>2. CatalogTypeOK
  BY <1>1 DEF CatalogInit, CatalogTypeOK, CatalogUI, Filters
<1>3. PagesRise /\ OneContinuation
  BY <1>1 DEF PagesRise, OneContinuation
<1> QED
  BY <1>1, <1>2, <1>3 DEF CatalogInv

\* A step that keeps the list, or empties it, and does not lower ui.page
\* below what is left of it; requests that are new are loads.
LEMMA ListKept ==
  ASSUME CatalogInv, CatalogTypeOK', OneContinuation',
         ui'.at = ui.at, ui'.loadingMore = ui.loadingMore,
         \/ ui'.list = ui.list /\ ui'.page = ui.page
         \/ ui'.list = <<>> /\ ui'.page = 1,
         \A k \in 1..Len(flight') :
           \/ flight'[k].op = "load" /\ flight'[k].page = 1
           \/ \E l \in 1..Len(flight) : flight'[k] = flight[l]
  PROVE  CatalogInv'
<1>1. PagesRise'
  BY DEF CatalogInv, PagesRise
<1>2. ASSUME NEW k \in 1..Len(flight') PROVE AsksAhead(flight[k])'
  BY DEF CatalogInv, AsksAhead
<1> QED
  BY <1>1, <1>2 DEF CatalogInv
\* An effect of a render, a filter, the address or another try.
LEMMA LoadSent ==
  ASSUME CatalogInv, Send(LoadRequest),
         ui' \in CatalogUI, ui'.at = ui.at, ui'.loadingMore = ui.loadingMore,
         ui'.list = ui.list, ui'.page = ui.page
  PROVE  CatalogInv'
<1>1. LoadRequest \in CatalogRequests /\ LoadRequest.op = "load" /\ LoadRequest.page = 1
  BY NormalizedType DEF CatalogInv, CatalogTypeOK, CatalogUI, LoadRequest, CatalogRequests
<1> HIDE DEF LoadRequest
<1>2. /\ flight' \in Seq(CatalogRequests) /\ OneContinuation'
      /\ \A k \in 1..Len(flight') :
           flight'[k] = LoadRequest \/ \E l \in 1..Len(flight) : flight'[k] = flight[l]
  BY <1>1, SendKeeps DEF CatalogInv
<1> QED
  BY <1>1, <1>2, ListKept DEF CatalogTypeOK

\* The browse page asks for its filters.
LEMMA BrowseEffectInv == CatalogInv /\ BrowseEffect => CatalogInv'
<1> SUFFICES ASSUME CatalogInv, BrowseEffect PROVE CatalogInv'
  OBVIOUS
<1>1. /\ ui' \in CatalogUI /\ ui'.at = ui.at /\ ui'.loadingMore = ui.loadingMore
      /\ ui'.list = ui.list /\ ui'.page = ui.page
  BY DEF CatalogInv, CatalogTypeOK, CatalogUI, BrowseEffect
<1> QED
  BY <1>1, LoadSent DEF BrowseEffect

\* A category page asks for its filters, from page one.
LEMMA CategoryEffectInv == CatalogInv /\ CategoryEffect => CatalogInv'
<1> SUFFICES ASSUME CatalogInv, CategoryEffect PROVE CatalogInv'
  OBVIOUS
<1>1. /\ ui' \in CatalogUI /\ ui'.at = ui.at /\ ui'.loadingMore = ui.loadingMore
      /\ ui'.list = ui.list /\ ui'.page = ui.page
  BY DEF CatalogInv, CatalogTypeOK, CatalogUI, CategoryEffect, PagesRise, At
<1> QED
  BY <1>1, LoadSent DEF CategoryEffect

\* The user tries again.
LEMMA TryAgainInv == CatalogInv /\ TryAgain => CatalogInv'
<1> SUFFICES ASSUME CatalogInv, TryAgain PROVE CatalogInv'
  OBVIOUS
<1>1. /\ ui' \in CatalogUI /\ ui'.at = ui.at /\ ui'.loadingMore = ui.loadingMore
      /\ ui'.list = ui.list /\ ui'.page = ui.page
  BY DEF CatalogInv, CatalogTypeOK, CatalogUI, TryAgain
<1> QED
  BY <1>1, LoadSent DEF TryAgain

\* The address, the filters: nothing is sent.
LEMMA NothingSentInv ==
  CatalogInv /\ (SlugEffect \/ AddressEffect \/ ChangeFilters \/ Navigate) => CatalogInv'
<1> SUFFICES ASSUME CatalogInv, SlugEffect \/ AddressEffect \/ ChangeFilters \/ Navigate
             PROVE  CatalogInv'
  OBVIOUS
<1>1. flight' = flight /\ OneContinuation'
  BY DEF CatalogInv, OneContinuation, SlugEffect, AddressEffect, ChangeFilters,
     Navigate
<1>2. /\ ui' \in CatalogUI /\ ui'.at = ui.at /\ ui'.loadingMore = ui.loadingMore
      /\ \/ ui'.list = ui.list /\ ui'.page = ui.page
         \/ ui'.list = <<>> /\ ui'.page = 1
  <2>1. CASE SlugEffect
    <3> DEFINE g == [ui.filters EXCEPT !.category = ui.slug]
    <3>1. ui' = [ui EXCEPT !.filters = g, !.dirty = TRUE, !.list = <<>>, !.page = 1]
      BY <2>1 DEF SlugEffect
    <3>2. g \in Filters
      BY DEF CatalogInv, CatalogTypeOK, CatalogUI, Filters
    <3> HIDE DEF g
    <3>3. <<>> \in Seq(Pages) /\ ui \in CatalogUI
      BY DEF CatalogInv, CatalogTypeOK
    <3> QED
      BY <3>1, <3>2, <3>3 DEF CatalogUI
  <2>2. CASE ChangeFilters
    BY <2>2 DEF ChangeFilters, CatalogInv, CatalogTypeOK, CatalogUI
  <2>3. CASE Navigate
    BY <2>3 DEF Navigate, CatalogInv, CatalogTypeOK, CatalogUI
  <2>4. CASE AddressEffect
    <3> DEFINE g == [ui.filters EXCEPT !.category = ui.slug]
    <3>1. ui' = [ui EXCEPT !.linked = FALSE, !.filters = g, !.dirty = TRUE]
      BY <2>4 DEF AddressEffect
    <3>2. g \in Filters
      BY DEF CatalogInv, CatalogTypeOK, CatalogUI, Filters
    <3> HIDE DEF g
    <3>3. ui \in CatalogUI
      BY DEF CatalogInv, CatalogTypeOK
    <3> QED
      BY <3>1, <3>2, <3>3 DEF CatalogUI
  <2> QED
    BY <2>1, <2>2, <2>3, <2>4
<1>3. CatalogTypeOK'
  BY <1>1, <1>2 DEF CatalogInv, CatalogTypeOK
<1> QED
  BY <1>1, <1>2, <1>3, ListKept DEF CatalogInv

\* The only continuation asks for the page after ui.page, so after all shown.
LEMMA LoadMoreInv == CatalogInv /\ LoadMore => CatalogInv'
<1> SUFFICES ASSUME CatalogInv, LoadMore PROVE CatalogInv'
  OBVIOUS
<1> DEFINE r == [op |-> "more", of |-> Normalized(ui.filters), page |-> ui.page + 1]
<1>1. /\ ui' \in CatalogUI /\ ui'.at = "browse" /\ ui'.at = ui.at /\ ui'.loadingMore
      /\ ui'.list = ui.list /\ ui'.page = ui.page /\ ~ui.loadingMore
  BY DEF CatalogInv, CatalogTypeOK, CatalogUI, LoadMore, MayLoadMore, At
<1>2. r \in CatalogRequests /\ r.op = "more" /\ r.page = ui.page + 1 /\ Send(r)
  BY NormalizedType DEF CatalogInv, CatalogTypeOK, CatalogUI, LoadMore, CatalogRequests
<1> HIDE DEF r
<1>3. \A k \in 1..Len(flight) : flight[k].op # "more"
  BY <1>1 DEF CatalogInv, AsksAhead
<1>4. /\ flight' \in Seq(CatalogRequests) /\ OneContinuation'
      /\ \A k \in 1..Len(flight') :
           flight'[k] = r \/ \E l \in 1..Len(flight) : flight'[k] = flight[l]
  BY <1>2, <1>3, SendKeeps DEF CatalogInv
<1>5. CatalogTypeOK' /\ PagesRise'
  BY <1>1, <1>4 DEF CatalogInv, CatalogTypeOK, PagesRise
<1>6. ui.list \in Seq(Pages) /\ ui.page \in Nat
  BY DEF CatalogInv, CatalogTypeOK, CatalogUI
<1>7. \A i \in 1..Len(ui.list) : ui.list[i].page \in Nat
  <2>1. \A i \in 1..Len(ui.list) : ui.list[i] \in Pages
    BY <1>6
  <2> QED
    BY <2>1 DEF Pages
<1>8. ASSUME NEW k \in 1..Len(flight') PROVE AsksAhead(flight[k])'
  <2>1. CASE flight'[k] = r
    BY <1>1, <1>2, <1>6, <1>7, <2>1 DEF CatalogInv, PagesRise, AsksAhead
  <2>2. CASE \E l \in 1..Len(flight) : flight'[k] = flight[l]
    BY <1>1, <2>2 DEF CatalogInv, AsksAhead
  <2> QED
    BY <1>4, <2>1, <2>2
<1> QED
  BY <1>4, <1>5, <1>8 DEF CatalogInv

\* A load has been answered: the list starts again.
LEMMA ListReplaced ==
  ASSUME CatalogInv, NEW i \in DOMAIN flight, Land(i), flight[i].op = "load",
         ui' \in CatalogUI, ui'.at = ui.at, ui'.loadingMore = ui.loadingMore,
         ui'.list = Items(flight[i]), ui'.page = 1
  PROVE  CatalogInv'
<1>1. flight[i] \in CatalogRequests /\ flight[i].page = 1
  BY DEF CatalogInv, CatalogTypeOK, AsksAhead
<1>2. /\ flight' \in Seq(CatalogRequests) /\ OneContinuation'
      /\ \A k \in 1..Len(flight') :
           \E l \in 1..Len(flight) : l # i /\ flight'[k] = flight[l]
  BY LandKeeps DEF CatalogInv
<1>3. /\ ui'.list \in Seq(Pages) /\ Len(ui'.list) <= 1
      /\ \A j \in 1..Len(ui'.list) : ui'.list[j].page = 1
  BY <1>1, ItemsFacts
<1>4. CatalogTypeOK'
  BY <1>2 DEF CatalogTypeOK
<1>5. PagesRise'
  BY <1>3 DEF PagesRise
<1>6. ASSUME NEW k \in 1..Len(flight') PROVE AsksAhead(flight[k])'
  BY <1>2, <1>3 DEF CatalogInv, AsksAhead
<1> QED
  BY <1>2, <1>4, <1>5, <1>6 DEF CatalogInv

\* A place beyond a, of a and at most one more, is the one after a.
LEMMA OneBeyond ==
  ASSUME NEW a \in Nat, NEW b \in Nat, b <= 1, NEW j \in 1..(a + b), ~(j <= a)
  PROVE  j = a + 1 /\ j - a = 1 /\ b = 1
OBVIOUS

\* The continuation has been answered: its page comes after those shown.
LEMMA ListContinued ==
  ASSUME CatalogInv, NEW i \in DOMAIN flight, Land(i), flight[i].op = "more",
         ui' \in CatalogUI, ui'.at = ui.at,
         ui'.list = ui.list \o Items(flight[i]), ui'.page = flight[i].page
  PROVE  CatalogInv'
<1> DEFINE r == flight[i]
           t == Items(r)
<1>1. /\ r \in CatalogRequests /\ r.op = "more" /\ r.page \in Nat /\ r.page > 1
      /\ ui.at = "browse" /\ \A j \in 1..Len(ui.list) : ui.list[j].page < r.page
  <2>1. r \in CatalogRequests /\ r.op = "more" /\ r.page \in Nat /\ AsksAhead(r)
    BY RequestFacts
  <2> HIDE DEF r
  <2> QED
    BY <2>1 DEF AsksAhead
<1>2. /\ flight' \in Seq(CatalogRequests) /\ OneContinuation'
      /\ \A k \in 1..Len(flight') :
           \E l \in 1..Len(flight) : l # i /\ flight'[k] = flight[l]
  BY LandKeeps DEF CatalogInv
<1>3. t \in Seq(Pages) /\ Len(t) <= 1 /\ \A j \in 1..Len(t) : t[j].page = r.page
  BY <1>1, ItemsFacts
<1>4. /\ ui.list \in Seq(Pages)
      /\ \A j, k \in 1..Len(ui.list) : j < k => ui.list[j].page < ui.list[k].page
  BY DEF CatalogInv, CatalogTypeOK, CatalogUI, PagesRise
<1>5. ui'.list = ui.list \o t /\ ui'.page = r.page /\ ui'.at = ui.at
  OBVIOUS
<1> HIDE DEF r, t
<1>6. /\ Len(ui'.list) = Len(ui.list) + Len(t)
      /\ \A j \in 1..Len(ui'.list) :
           ui'.list[j] = IF j <= Len(ui.list) THEN ui.list[j] ELSE t[j - Len(ui.list)]
  BY <1>3, <1>4, <1>5, ConcatProperties
<1>7. Len(ui.list) \in Nat /\ Len(t) \in Nat /\ Len(t) <= 1
  BY <1>3, <1>4, LenProperties
<1>8. ASSUME NEW j \in 1..Len(ui'.list)
      PROVE  \/ j \in 1..Len(ui.list) /\ ui'.list[j] = ui.list[j]
             \/ j = Len(ui.list) + 1 /\ ui'.list[j].page = r.page
  <2>1. CASE j <= Len(ui.list)
    BY <1>6, <1>7, <2>1
  <2>2. CASE ~(j <= Len(ui.list))
    <3>1. j \in 1..(Len(ui.list) + Len(t))
      BY <1>6
    <3>2. j = Len(ui.list) + 1 /\ j - Len(ui.list) = 1 /\ Len(t) = 1
      BY <1>7, <2>2, <3>1, OneBeyond
    <3> QED
      BY <1>3, <1>6, <2>2, <3>2
  <2> QED
    BY <2>1, <2>2
<1>9. CatalogTypeOK'
  BY <1>2 DEF CatalogTypeOK
<1>10. PagesRise'
  <2>1. ASSUME NEW j \in 1..Len(ui'.list), NEW k \in 1..Len(ui'.list), j < k
        PROVE  ui'.list[j].page < ui'.list[k].page
    BY <1>1, <1>4, <1>7, <1>8, <2>1
  <2>2. ASSUME NEW j \in 1..Len(ui'.list) PROVE ui'.list[j].page <= r.page
    <3>1. CASE j \in 1..Len(ui.list) /\ ui'.list[j] = ui.list[j]
      <4>1. ui.list[j] \in Pages
        BY <1>4, <3>1
      <4> QED
        BY <1>1, <3>1, <4>1 DEF Pages
    <3>2. CASE ui'.list[j].page = r.page
      BY <1>1, <3>2
    <3> QED
      BY <1>8, <3>1, <3>2
  <2> QED
    BY <1>1, <1>5, <2>1, <2>2 DEF PagesRise
<1>11. ASSUME NEW k \in 1..Len(flight') PROVE AsksAhead(flight[k])'
  <2>1. PICK l \in 1..Len(flight) : l # i /\ flight'[k] = flight[l]
    BY <1>2
  <2>2. flight[l].op = "load" /\ flight[l].page = 1
    BY <1>1, <2>1 DEF CatalogInv, OneContinuation, AsksAhead, r
  <2> QED
    BY <2>1, <2>2 DEF AsksAhead
<1> QED
  BY <1>2, <1>9, <1>10, <1>11 DEF CatalogInv

\* The page with another list and other flags.
LEMMA LoadedTyped ==
  ASSUME NEW u \in CatalogUI, NEW t \in Seq(Pages), NEW p \in Nat,
         NEW full \in BOOLEAN, NEW spin \in BOOLEAN, NEW first \in BOOLEAN,
         NEW more \in BOOLEAN
  PROVE  [u EXCEPT !.list = t, !.page = p, !.hasMore = full, !.loading = spin,
                   !.first = first, !.loadingMore = more] \in CatalogUI
BY DEF CatalogUI

\* An answer on the browse page.
LEMMA BrowseAnsweredInv ==
  ASSUME CatalogInv, NEW i \in DOMAIN flight, BrowseAnswered(i)
  PROVE  CatalogInv'
<1> DEFINE r == flight[i]
           load == r.op = "load"
<1>1. /\ r \in CatalogRequests /\ (load => r.page = 1) /\ (~load => r.op = "more")
      /\ ui \in CatalogUI
  <2>1. r \in CatalogRequests /\ r.op \in {"load", "more"} /\ AsksAhead(r)
    BY RequestFacts
  <2> HIDE DEF r
  <2> QED
    BY <2>1 DEF AsksAhead, CatalogInv, CatalogTypeOK
<1>2. Items(r) \in Seq(Pages) /\ ui.list \o Items(r) \in Seq(Pages)
  BY <1>1, ItemsFacts, ConcatProperties DEF CatalogUI
<1>3. Full(r.page) \in BOOLEAN /\ r.page \in Nat /\ StillLoading(load) \in BOOLEAN
  BY <1>1 DEF CatalogRequests, Full, StillLoading
<1>4. CASE load
  <2> DEFINE t == Items(r)
             full == Full(r.page)
             spin == StillLoading(load)
             first == ui.first /\ ~load
             more == ui.loadingMore /\ load
  <2>1. ui' = [ui EXCEPT !.list = t, !.page = r.page, !.hasMore = full,
                         !.loading = spin, !.first = first, !.loadingMore = more]
    BY <1>4 DEF BrowseAnswered
  <2>2. t \in Seq(Pages) /\ full \in BOOLEAN /\ spin \in BOOLEAN
    BY <1>2, <1>3
  <2>3. first \in BOOLEAN /\ more \in BOOLEAN
    OBVIOUS
  <2>4. more = ui.loadingMore
    <3>1. ui.loadingMore \in BOOLEAN
      BY <1>1 DEF CatalogUI
    <3> QED
      BY <1>4, <3>1
  <2> HIDE DEF t, full, spin, first, more, r
  <2>5. ui' \in CatalogUI
    <3>1. PICK u \in CatalogUI, n \in Nat : u = ui /\ n = r.page
      BY <1>1, <1>3
    <3>2. [u EXCEPT !.list = t, !.page = n, !.hasMore = full, !.loading = spin,
                    !.first = first, !.loadingMore = more] \in CatalogUI
      BY <2>2, <2>3, LoadedTyped, ZenonT(60)
    <3> QED
      BY <2>1, <3>1, <3>2
  <2>6. ui'.at = ui.at /\ ui'.list = t /\ ui'.page = r.page
    BY <1>1, <2>1 DEF CatalogUI
  <2>7. ui'.loadingMore = more
    BY <1>1, <2>1 DEF CatalogUI
  <2> QED
    BY <1>1, <1>4, <2>4, <2>5, <2>6, <2>7, ListReplaced DEF BrowseAnswered, t, r
<1>5. CASE ~load
  <2> DEFINE t == ui.list \o Items(r)
             full == Full(r.page)
             spin == StillLoading(load)
             first == ui.first /\ ~load
             more == ui.loadingMore /\ load
  <2>1. ui' = [ui EXCEPT !.list = t, !.page = r.page, !.hasMore = full,
                         !.loading = spin, !.first = first, !.loadingMore = more]
    BY <1>5 DEF BrowseAnswered
  <2>2. t \in Seq(Pages) /\ full \in BOOLEAN /\ spin \in BOOLEAN
    BY <1>2, <1>3
  <2>3. first \in BOOLEAN /\ more \in BOOLEAN
    OBVIOUS
  <2> HIDE DEF t, full, spin, first, more, r
  <2>4. ui' \in CatalogUI
    <3>1. PICK u \in CatalogUI, n \in Nat : u = ui /\ n = r.page
      BY <1>1, <1>3
    <3>2. [u EXCEPT !.list = t, !.page = n, !.hasMore = full, !.loading = spin,
                    !.first = first, !.loadingMore = more] \in CatalogUI
      BY <2>2, <2>3, LoadedTyped, ZenonT(60)
    <3> QED
      BY <2>1, <3>1, <3>2
  <2>5. ui'.at = ui.at /\ ui'.list = t /\ ui'.page = r.page
    BY <1>1, <2>1 DEF CatalogUI
  <2> QED
    BY <1>1, <1>5, <2>4, <2>5, ListContinued DEF BrowseAnswered, t, r
<1> QED
  BY <1>4, <1>5

\* An answer on a category page, which only loads.
LEMMA CategoryAnsweredInv ==
  ASSUME CatalogInv, NEW i \in DOMAIN flight, CategoryAnswered(i)
  PROVE  CatalogInv'
<1> DEFINE r == flight[i]
<1>1. r \in CatalogRequests /\ r.op = "load" /\ ui \in CatalogUI /\ ui.page = 1
  <2>1. r \in CatalogRequests /\ AsksAhead(r)
    BY RequestFacts
  <2>2. ui.at = "category" /\ ui.page = 1 /\ ui \in CatalogUI
    BY DEF CategoryAnswered, At, CatalogInv, PagesRise, CatalogTypeOK
  <2> HIDE DEF r
  <2> QED
    BY <2>1, <2>2 DEF AsksAhead
<1>2. Items(r) \in Seq(Pages) /\ (Total(r) > 1) \in BOOLEAN
  BY <1>1, ItemsFacts
<1>3. /\ ui' \in CatalogUI /\ ui'.at = ui.at /\ ui'.loadingMore = ui.loadingMore
      /\ ui'.list = Items(r) /\ ui'.page = 1
  BY <1>1, <1>2 DEF CategoryAnswered, CatalogUI
<1> QED
  BY <1>1, <1>3, ListReplaced DEF CategoryAnswered

\* A request that failed leaves the list; a continuation may follow.
LEMMA CatalogFailedInv ==
  ASSUME CatalogInv, NEW i \in DOMAIN flight, CatalogFailed(i)
  PROVE  CatalogInv'
<1> DEFINE load == flight[i].op = "load"
<1>1. /\ ui' \in CatalogUI /\ ui'.at = ui.at
      /\ ui'.loadingMore = (ui.loadingMore /\ load)
      /\ ui'.list = ui.list /\ ui'.page = ui.page
  <2> DEFINE error == load \/ ui.error
             spin == StillLoading(load)
             first == ui.first /\ ~(load /\ At("browse"))
             more == ui.loadingMore /\ load
  <2>1. ui' = [ui EXCEPT !.error = error, !.loading = spin, !.first = first,
                         !.loadingMore = more]
    BY DEF CatalogFailed
  <2>2. error \in BOOLEAN /\ spin \in BOOLEAN /\ first \in BOOLEAN /\ more \in BOOLEAN
    BY DEF StillLoading
  <2>3. ui \in CatalogUI
    BY DEF CatalogInv, CatalogTypeOK
  <2>4. more = (ui.loadingMore /\ load)
    OBVIOUS
  <2> HIDE DEF error, spin, first, more, load
  <2>5. ui' \in CatalogUI
    BY <2>1, <2>2, <2>3, ZenonT(60) DEF CatalogUI
  <2>6. ui'.at = ui.at /\ ui'.list = ui.list /\ ui'.page = ui.page
    BY <2>1, <2>3 DEF CatalogUI
  <2>7. ui'.loadingMore = more
    BY <2>1, <2>3 DEF CatalogUI
  <2> QED
    BY <2>4, <2>5, <2>6, <2>7
<1>2. /\ flight' \in Seq(CatalogRequests) /\ OneContinuation'
      /\ \A k \in 1..Len(flight') :
           \E l \in 1..Len(flight) : l # i /\ flight'[k] = flight[l]
  BY LandKeeps DEF CatalogInv, CatalogFailed
<1>3. CatalogTypeOK' /\ PagesRise'
  BY <1>1, <1>2 DEF CatalogTypeOK, CatalogInv, PagesRise
<1>4. ASSUME NEW k \in 1..Len(flight') PROVE AsksAhead(flight[k])'
  <2>1. PICK l \in 1..Len(flight) : l # i /\ flight'[k] = flight[l]
    BY <1>2
  <2>2. CASE load
    BY <1>1, <2>1, <2>2 DEF CatalogInv, AsksAhead
  <2>3. CASE ~load
    <3>1. flight[l].op = "load" /\ flight[l].page = 1
      BY <2>1, <2>3 DEF CatalogInv, OneContinuation, AsksAhead
    <3> QED
      BY <2>1, <3>1 DEF AsksAhead
  <2> QED
    BY <2>2, <2>3
<1> QED
  BY <1>2, <1>3, <1>4 DEF CatalogInv

\* Every step of the pages keeps the invariant.
LEMMA CatalogNextInv == CatalogInv /\ [CatalogNext]_pageVars => CatalogInv'
<1> SUFFICES ASSUME CatalogInv, [CatalogNext]_pageVars PROVE CatalogInv'
  OBVIOUS
<1>1. CASE BrowseEffect
  BY <1>1, BrowseEffectInv
<1>2. CASE CategoryEffect
  BY <1>2, CategoryEffectInv
<1>3. CASE SlugEffect \/ AddressEffect \/ ChangeFilters \/ Navigate
  BY <1>3, NothingSentInv
<1>4. CASE TryAgain
  BY <1>4, TryAgainInv
<1>5. CASE LoadMore
  BY <1>5, LoadMoreInv
<1>6. CASE CatalogAnswer
  BY <1>6, BrowseAnsweredInv, CategoryAnsweredInv, CatalogFailedInv DEF CatalogAnswer
<1>7. CASE UNCHANGED pageVars
  BY <1>7 DEF pageVars, CatalogInv, CatalogTypeOK, PagesRise, AsksAhead, OneContinuation
<1> QED
  BY <1>1, <1>2, <1>3, <1>4, <1>5, <1>6, <1>7 DEF CatalogNext, CatalogEffect

\* Pages whose numbers rise differ.
LEMMA RisingDiffer == CatalogInv => NoPageTwice
<1> SUFFICES ASSUME CatalogInv,
                    NEW i \in DOMAIN ui.list, NEW j \in DOMAIN ui.list,
                    ui.list[i] = ui.list[j]
             PROVE  i = j
  BY DEF NoPageTwice, IsInjective
<1>1. ui.list \in Seq(Pages)
  BY DEF CatalogInv, CatalogTypeOK, CatalogUI
<1>2. i \in 1..Len(ui.list) /\ j \in 1..Len(ui.list) /\ ui.list[i] \in Pages
  BY <1>1
<1>3. ui.list[i].page \in Nat /\ ui.list[j].page = ui.list[i].page
  BY <1>2 DEF Pages
<1> QED
  BY <1>2, <1>3 DEF CatalogInv, PagesRise

\* CatalogInv holds in every state of the browse page and of a category page.
LEMMA CatalogInvariant == CatalogSpec => []CatalogInv
BY CatalogInitInv, CatalogNextInv, PTL DEF CatalogSpec

-----------------------------------------------------------------------------
\* The state of the pages and of the requests is of the kind they keep.
THEOREM CatalogTyped == CatalogSpec => []CatalogTypeOK
<1>1. CatalogInv => CatalogTypeOK
  BY DEF CatalogInv
<1> QED
  BY <1>1, CatalogInvariant, PTL

\* The browse page and the category pages never show a page of one search
\* twice, in whatever order loads, continuations and failures arrive while the
\* user changes the filters.
THEOREM PagesDiffer == CatalogSpec => []NoPageTwice
BY CatalogInvariant, RisingDiffer, PTL

-----------------------------------------------------------------------------
\* The search page.

\* What is under way is what was asked for last.
AsksLast ==
  ~past.overtaken /\ ui.current # Null => ui.current = past.asked

SearchInv ==
  /\ SearchTypeOK
  /\ ui.at = "search"
  /\ AsksLast
  /\ LastSearchShown

-----------------------------------------------------------------------------
\* The results are shown when nothing is loading, nothing failed and a search
\* has been performed.
LEMMA ResultsShown ==
  SearchView = "results" <=> (~ui.loading /\ ~ui.error /\ ui.searched)
BY DEF SearchView

\* The same of the state after a step.
LEMMA ResultsShownNext ==
  (SearchView = "results")' <=> (~ui'.loading /\ ~ui'.error /\ ui'.searched)
BY DEF SearchView

\* An address, an empty box, nothing searched for.
LEMMA SearchInitInv == SearchInit => SearchInv
<1> SUFFICES ASSUME SearchInit PROVE SearchInv
  OBVIOUS
<1> USE SearchAssumption
<1>1. ui \in SearchUI
  BY DEF SearchInit, SearchUI
<1>2. /\ ui.at = "search" /\ ui.cache = <<>> /\ ui.current = Null /\ ~ui.searched
      /\ past = [asked |-> Null, overtaken |-> FALSE]
  BY DEF SearchInit
<1>3. SearchTypeOK
  BY <1>1, <1>2 DEF SearchTypeOK, SearchPast, IsInjective
<1>4. AsksLast /\ LastSearchShown
  BY <1>2, ResultsShown DEF AsksLast, LastSearchShown
<1> QED
  BY <1>2, <1>3, <1>4 DEF SearchInv

\* A step that concerns the box, the address or the filters only.
LEMMA SearchKept ==
  ASSUME SearchInv, ui' \in SearchUI, UNCHANGED past,
         ui'.at = ui.at, ui'.cache = ui.cache, ui'.current = ui.current,
         \/ /\ ui'.results = ui.results /\ ui'.loading = ui.loading
            /\ ui'.searched = ui.searched /\ ui'.error = ui.error
         \/ ~ui'.searched
  PROVE  SearchInv'
<1>1. SearchTypeOK'
  BY DEF SearchInv, SearchTypeOK
<1>2. AsksLast'
  BY DEF SearchInv, AsksLast
<1>3. LastSearchShown'
  BY ResultsShown, ResultsShownNext DEF SearchInv, LastSearchShown, At
<1> QED
  BY <1>1, <1>2, <1>3 DEF SearchInv

\* A search is performed, after updates that concern the box, the address and
\* the filters.
LEMMA PerformSearchInv ==
  ASSUME SearchInv, NEW k \in Searches, NEW u \in SearchUI,
         u.at = ui.at, u.cache = ui.cache, u.current = ui.current,
         u.results = ui.results, u.loading = ui.loading,
         u.searched = ui.searched, u.error = ui.error,
         PerformSearch(u, k)
  PROVE  SearchInv'
<1>1. CASE k.query \in Refused
  <2>1. ui' = [u EXCEPT !.refused = TRUE] /\ UNCHANGED past
    BY <1>1 DEF PerformSearch
  <2>2. /\ ui' \in SearchUI /\ ui'.at = ui.at /\ ui'.cache = ui.cache
        /\ ui'.current = ui.current /\ ui'.results = ui.results
        /\ ui'.loading = ui.loading /\ ui'.searched = ui.searched
        /\ ui'.error = ui.error
    BY <2>1 DEF SearchUI
  <2> QED
    BY <2>1, <2>2, SearchKept
<1>2. CASE k.query \notin Refused
  <2> DEFINE current == UnderWayAfter(k)
             results == IF Cached(k) THEN k ELSE u.results
             loading == ~Cached(k)
             overtaken == Cached(k) /\ ui.current # Null
  <2>1. /\ ui' = [u EXCEPT !.searched = TRUE, !.error = FALSE, !.current = current,
                           !.results = results, !.loading = loading]
        /\ past' = [asked |-> k, overtaken |-> overtaken]
    BY <1>2 DEF PerformSearch
  <2>2. ui.current \in Searches \cup {Null}
    BY DEF SearchInv, SearchTypeOK, SearchUI
  <2>3. u.results \in Searches \cup {Null}
    BY DEF SearchUI
  <2>4. /\ current \in Searches \cup {Null} /\ results \in Searches \cup {Null}
        /\ loading \in BOOLEAN /\ overtaken \in BOOLEAN
    BY <2>2, <2>3 DEF UnderWayAfter
  <2>5. /\ ~overtaken /\ current # Null => current = k
        /\ ~loading => results = k
    BY DEF UnderWayAfter
  <2> HIDE DEF current, results, loading, overtaken
  <2>6. /\ ui' \in SearchUI /\ ui'.at = ui.at /\ ui'.cache = ui.cache
        /\ ui'.current = current /\ ui'.results = results /\ ui'.loading = loading
    BY <2>1, <2>4 DEF SearchUI
  <2>7. past' \in SearchPast /\ past'.asked = k /\ past'.overtaken = overtaken
    BY <2>1, <2>4 DEF SearchPast
  <2>8. SearchTypeOK'
    BY <2>6, <2>7 DEF SearchInv, SearchTypeOK
  <2>9. AsksLast' /\ LastSearchShown'
    BY <2>5, <2>6, <2>7, ResultsShownNext DEF AsksLast, LastSearchShown
  <2> QED
    BY <2>6, <2>8, <2>9 DEF SearchInv
<1> QED
  BY <1>1, <1>2

\* The address has changed, or the page is new.
LEMMA UrlEffectInv == SearchInv /\ UrlEffect => SearchInv'
<1> SUFFICES ASSUME SearchInv, UrlEffect PROVE SearchInv'
  OBVIOUS
<1>1. ui \in SearchUI /\ ui.url \in Searches \cup {Null}
  BY DEF SearchInv, SearchTypeOK, SearchUI
<1>2. CASE ui.url = Null
  <2>1. ui' = [ui EXCEPT !.arrived = FALSE] /\ UNCHANGED past
    BY <1>2 DEF UrlEffect
  <2> QED
    BY <1>1, <2>1, SearchKept DEF SearchUI
<1>3. CASE ui.url # Null
  <2> DEFINE u == [ui EXCEPT !.arrived = FALSE, !.query = ui.url.query,
                             !.filters = ui.url.filters]
  <2>1. PerformSearch(u, ui.url) /\ ui.url \in Searches
    BY <1>1, <1>3 DEF UrlEffect
  <2>2. ui.url.query \in Queries /\ ui.url.filters \in FilterSets
    BY <2>1 DEF Searches
  <2>3. /\ u \in SearchUI /\ u.at = ui.at /\ u.cache = ui.cache
        /\ u.current = ui.current /\ u.results = ui.results
        /\ u.loading = ui.loading /\ u.searched = ui.searched /\ u.error = ui.error
    BY <1>1, <2>2 DEF SearchUI
  <2> QED
    BY <2>1, <2>3, PerformSearchInv
<1> QED
  BY <1>2, <1>3

\* The user types, opens the panel, chooses filters or asks for a search.
LEMMA BoxInv ==
  SearchInv /\ (Type \/ ToggleFilters \/ HandleFilterChange \/ ExecuteSearch)
    => SearchInv'
<1> SUFFICES ASSUME SearchInv,
                    Type \/ ToggleFilters \/ HandleFilterChange \/ ExecuteSearch
             PROVE  SearchInv'
  OBVIOUS
<1>1. ui \in SearchUI
  BY DEF SearchInv, SearchTypeOK
<1>2. CASE Type
  <2>1. PICK q \in Queries \cup {Null} :
          ui' = [ui EXCEPT !.query = q, !.refused = q \in Refused]
    BY <1>2 DEF Type
  <2>2. UNCHANGED past
    BY <1>2 DEF Type
  <2> DEFINE refused == q \in Refused
  <2>3. ui' = [ui EXCEPT !.query = q, !.refused = refused] /\ refused \in BOOLEAN
    BY <2>1
  <2> HIDE DEF refused
  <2> QED
    BY <1>1, <2>2, <2>3, SearchKept DEF SearchUI
<1>3. CASE ToggleFilters
  BY <1>1, <1>3, SearchKept DEF ToggleFilters, SearchUI
<1>4. CASE HandleFilterChange
  BY <1>1, <1>4, SearchKept DEF HandleFilterChange, SearchUI
<1>5. CASE ExecuteSearch
  <2>1. CASE ui.query \in Refused
    BY <1>1, <1>5, <2>1, SearchKept DEF ExecuteSearch, SearchUI
  <2>2. CASE ui.query \notin Refused
    <3> DEFINE k == [query |-> ui.query, filters |-> ui.filters]
               arrived == ui.arrived \/ k # ui.url
    <3>1. ui' = [ui EXCEPT !.url = k, !.arrived = arrived] /\ UNCHANGED past
      BY <1>5, <2>2 DEF ExecuteSearch, Push
    <3>2. k \in Searches /\ arrived \in BOOLEAN
      BY <1>1, <1>5 DEF ExecuteSearch, SearchUI, Searches
    <3> HIDE DEF k, arrived
    <3> QED
      BY <1>1, <3>1, <3>2, SearchKept DEF SearchUI
  <2> QED
    BY <2>1, <2>2
<1> QED
  BY <1>2, <1>3, <1>4, <1>5

\* The box is emptied: no results are shown, whatever is under way.
LEMMA ClearSearchInv == SearchInv /\ ClearSearch => SearchInv'
<1> SUFFICES ASSUME SearchInv, ClearSearch PROVE SearchInv'
  OBVIOUS
<1> DEFINE arrived == ui.arrived \/ Null # ui.url
<1>1. ui \in SearchUI
  BY DEF SearchInv, SearchTypeOK
<1>2. /\ ui' = [ui EXCEPT !.query = Null, !.results = Null, !.searched = FALSE,
                          !.error = FALSE, !.filters = DefaultFilters,
                          !.url = Null, !.arrived = arrived]
      /\ UNCHANGED past
  BY <1>1 DEF ClearSearch, Push, SearchUI
<1>3. arrived \in BOOLEAN
  OBVIOUS
<1> HIDE DEF arrived
<1> QED
  BY <1>1, <1>2, <1>3, SearchAssumption, SearchKept DEF SearchUI

\* The filters go back to their defaults, and the text is searched for again.
LEMMA ResetFiltersInv == SearchInv /\ ResetFilters => SearchInv'
<1> SUFFICES ASSUME SearchInv, ResetFilters PROVE SearchInv'
  OBVIOUS
<1> DEFINE u == [ui EXCEPT !.filters = DefaultFilters]
           k == [query |-> ui.query, filters |-> DefaultFilters]
<1>1. ui \in SearchUI /\ ui.query \in Queries \cup {Null}
  BY DEF SearchInv, SearchTypeOK, SearchUI
<1>2. /\ u \in SearchUI /\ u.at = ui.at /\ u.cache = ui.cache
      /\ u.current = ui.current /\ u.results = ui.results
      /\ u.loading = ui.loading /\ u.searched = ui.searched /\ u.error = ui.error
  BY <1>1, SearchAssumption DEF SearchUI
<1>3. CASE ui.query = Null
  <2>1. ui' = u /\ UNCHANGED past
    BY <1>3 DEF ResetFilters
  <2> QED
    BY <1>2, <2>1, SearchKept
<1>4. CASE ui.query # Null
  <2>1. PerformSearch(u, k)
    BY <1>4 DEF ResetFilters
  <2>2. k \in Searches
    BY <1>1, <1>4, SearchAssumption DEF Searches
  <2> QED
    BY <1>2, <2>1, <2>2, PerformSearchInv
<1> QED
  BY <1>3, <1>4

\* A search that failed is tried again.
LEMMA RetryInv == SearchInv /\ Retry => SearchInv'
<1> SUFFICES ASSUME SearchInv, Retry PROVE SearchInv'
  OBVIOUS
<1> DEFINE k == [query |-> ui.query, filters |-> ui.filters]
<1>1. ui \in SearchUI /\ PerformSearch(ui, k)
  BY DEF SearchInv, SearchTypeOK, Retry
<1>2. k \in Searches
  BY <1>1 DEF Retry, SearchUI, Searches
<1> QED
  BY <1>1, <1>2, PerformSearchInv

\* The answer is one not yet kept, or kept already; the bound holds.
LEMMA EvictedFacts ==
  ASSUME SearchTypeOK, ui.current \in Searches
  PROVE  LET kept == IF Cached(ui.current) THEN ui.cache
                                           ELSE Append(ui.cache, ui.current)
         IN  /\ Evicted(kept) \in Seq(Searches)
             /\ Len(Evicted(kept)) <= CacheMax /\ IsInjective(Evicted(kept))
<1> DEFINE kept == IF Cached(ui.current) THEN ui.cache ELSE Append(ui.cache, ui.current)
<1>1. ui.cache \in Seq(Searches) /\ Len(ui.cache) <= CacheMax /\ IsInjective(ui.cache)
  BY DEF SearchTypeOK, SearchUI
<1>2. kept \in Seq(Searches) /\ Len(kept) <= CacheMax + 1 /\ IsInjective(kept)
  <2>1. CASE Cached(ui.current)
    BY <1>1, <2>1, SearchAssumption
  <2>2. CASE ~Cached(ui.current)
    <3>1. \A i \in 1..Len(ui.cache) : ui.cache[i] # ui.current
      BY <1>1, <2>2 DEF Cached, ToSet
    <3>2. kept = Append(ui.cache, ui.current)
      BY <2>2
    <3>3. IsInjective(kept)
      BY <1>1, <3>1, <3>2 DEF IsInjective
    <3> QED
      BY <1>1, <3>2, <3>3, SearchAssumption
  <2> QED
    BY <2>1, <2>2
<1> HIDE DEF kept
<1>3. CASE Len(kept) > CacheMax
  <2>1. Len(kept) = CacheMax + 1 /\ kept # <<>>
    BY <1>2, <1>3, SearchAssumption
  <2>2. /\ Tail(kept) \in Seq(Searches) /\ Len(Tail(kept)) = CacheMax
        /\ \A i \in 1..CacheMax : Tail(kept)[i] = kept[i + 1]
    BY <1>2, <2>1, SearchAssumption
  <2>3. IsInjective(Tail(kept))
    BY <1>2, <2>1, <2>2, SearchAssumption DEF IsInjective
  <2> QED
    BY <1>3, <2>2, <2>3, SearchAssumption DEF Evicted, kept
<1>4. CASE ~(Len(kept) > CacheMax)
  <2>1. Evicted(kept) = kept /\ Len(kept) <= CacheMax
    BY <1>2, <1>4, SearchAssumption DEF Evicted
  <2> QED
    BY <1>2, <2>1 DEF kept
<1> QED
  BY <1>3, <1>4

\* The answer is shown: it is to what was asked for last, or overtaken.
LEMMA SearchAnsweredInv == SearchInv /\ SearchAnswered => SearchInv'
<1> SUFFICES ASSUME SearchInv, SearchAnswered PROVE SearchInv'
  OBVIOUS
<1> DEFINE kept == IF Cached(ui.current) THEN ui.cache ELSE Append(ui.cache, ui.current)
           cache == Evicted(kept)
<1>1. ui \in SearchUI /\ ui.current \in Searches
  BY DEF SearchInv, SearchTypeOK, SearchUI, SearchAnswered
<1>2. cache \in Seq(Searches) /\ Len(cache) <= CacheMax /\ IsInjective(cache)
  BY <1>1, EvictedFacts DEF SearchInv
<1>3. /\ ui' = [ui EXCEPT !.cache = cache, !.results = ui.current, !.current = Null,
                          !.loading = FALSE]
      /\ UNCHANGED past /\ ui.current # Null
  BY DEF SearchAnswered
<1> HIDE DEF cache
<1>4. /\ ui' \in SearchUI /\ ui'.at = ui.at /\ ui'.cache = cache
      /\ ui'.current = Null /\ ui'.results = ui.current
  BY <1>1, <1>2, <1>3 DEF SearchUI
<1>5. SearchTypeOK'
  BY <1>2, <1>3, <1>4 DEF SearchInv, SearchTypeOK
<1>6. AsksLast' /\ LastSearchShown'
  BY <1>3, <1>4 DEF SearchInv, AsksLast, LastSearchShown
<1> QED
  BY <1>4, <1>5, <1>6 DEF SearchInv

\* The error takes the place of the results.
LEMMA SearchFailedInv == SearchInv /\ SearchFailed => SearchInv'
<1> SUFFICES ASSUME SearchInv, SearchFailed PROVE SearchInv'
  OBVIOUS
<1>1. ui \in SearchUI
  BY DEF SearchInv, SearchTypeOK
<1>2. /\ ui' \in SearchUI /\ ui'.at = ui.at /\ ui'.cache = ui.cache
      /\ ui'.current = Null /\ ui'.error /\ UNCHANGED past
  BY <1>1 DEF SearchFailed, SearchUI
<1>3. SearchTypeOK'
  BY <1>2 DEF SearchInv, SearchTypeOK
<1>4. AsksLast' /\ LastSearchShown'
  BY <1>2, ResultsShownNext DEF AsksLast, LastSearchShown
<1> QED
  BY <1>2, <1>3, <1>4 DEF SearchInv

\* Every step of the page keeps the invariant.
LEMMA SearchNextInv == SearchInv /\ [SearchNext]_pageVars => SearchInv'
<1> SUFFICES ASSUME SearchInv, [SearchNext]_pageVars PROVE SearchInv'
  OBVIOUS
<1>1. CASE UNCHANGED pageVars
  BY <1>1 DEF pageVars, SearchInv, SearchTypeOK, AsksLast, LastSearchShown, At, SearchView
<1>2. CASE SearchNext
  BY <1>2, UrlEffectInv, BoxInv, ClearSearchInv, ResetFiltersInv, RetryInv,
     SearchAnsweredInv, SearchFailedInv DEF SearchNext
<1> QED
  BY <1>1, <1>2

\* SearchInv holds in every state of the search page.
LEMMA SearchInvariant == SearchSpec => []SearchInv
BY SearchInitInv, SearchNextInv, PTL DEF SearchSpec

-----------------------------------------------------------------------------
\* The state of the page is of the kind it keeps; in particular no search is in
\* the cache twice, and no more than CacheMax are.
THEOREM SearchTyped == SearchSpec => []SearchTypeOK
<1>1. SearchInv => SearchTypeOK
  BY DEF SearchInv
<1> QED
  BY <1>1, SearchInvariant, PTL

\* The search page shows the results of the search asked for last, in whatever
\* order addresses, answers, failures and cached results come, unless a cached
\* result was shown while another request was under way.
THEOREM ShowsLastSearch == SearchSpec => []LastSearchShown
<1>1. SearchInv => LastSearchShown
  BY DEF SearchInv
<1> QED
  BY <1>1, SearchInvariant, PTL
-----------------------------------------------------------------------------
\* The pages with hearts.
-----------------------------------------------------------------------------
\* What was fetched of the favourites is what the server keeps.
Fetched(pending, favs) ==
  \A r \in pending : r.op = "favs" /\ r.phase = "done" => r.favs = favs

\* A heart that was clicked shows what the server will keep.
Wished(r, hearts, favs) ==
  IF r.add THEN r.good \notin favs /\ hearts = favs \cup {r.good}
           ELSE r.good \in favs /\ hearts = favs \ {r.good}

\* On the page of a listing nobody clicks before the load has answered; then
\* the heart is right, or one click is on its way.
OnListing(pending, u, favs) ==
  /\ Fetched(pending, favs)
  /\ u.due \/ ~u.signedIn \/ (\E r \in pending : r.op = "favs") =>
       \A r \in pending : r.op # "toggle"
  /\ ~u.due /\ u.signedIn /\ (\A r \in pending : r.op # "favs") =>
       /\ (\A r \in pending : r.op = "toggle" => r.phase = "done") => u.hearts = favs
       /\ \A r \in pending : r.op = "toggle" /\ r.phase = "sent" =>
            Wished(r, u.hearts, favs)

\* A listing is being removed; it will be, when what is under way has ended.
Dropping(pending, good) == \E r \in pending : r.op = "drop" /\ r.good = good
WillDrop(pending, good) ==
  \E r \in pending : /\ r.good = good
                     /\ (r.op = "toggle" /\ r.phase = "done")
                          \/ (r.op = "drop" /\ r.phase = "sent")

\* In the lists of the favourites whatever differs from the server is removed
\* yet, from the list or from the favourites.
OnLists(pending, u, favs) ==
  IF u.loading
    THEN /\ Fetched(pending, favs)
         /\ \A r \in pending : r.op \notin {"toggle", "drop"}
    ELSE /\ \A r \in pending : r.op # "favs"
         /\ \A g \in u.shown \ favs : Dropping(pending, g) \/ WillDrop(pending, g)
         /\ \A g \in favs : g \notin u.shown \/ Dropping(pending, g) =>
              WillDrop(pending, g)
         /\ \A g \in u.shown \ u.hearts : Dropping(pending, g)

\* On a card, a click the server has served carries the heart to be shown; with
\* none on its way back the heart of a card it has told of is right.
OnCards(pending, u, favs, told) ==
  /\ \A r \in pending : r.op = "toggle" /\ r.phase = "done" =>
       (r.add <=> r.good \in favs)
  /\ \A g \in told :
       (\A r \in pending : r.op = "toggle" /\ r.good = g => r.phase = "sent") =>
         (g \in u.hearts <=> g \in favs)

\* A click keeps its heart disabled: there is one of a listing at most, and one at
\* all on the page of a listing.  The lists load their favourites once at a time,
\* and they alone remove.
Pressed ==
  /\ \A k \in 1..Len(flight) : flight[k].op = "toggle" => flight[k].good \in ui.toggling
  /\ \A k, l \in 1..Len(flight) :
       flight[k].op = "toggle" /\ flight[l].op = "toggle" =>
         (At("listing") \/ flight[k].good = flight[l].good => k = l)
  /\ Favourites => \A k, l \in 1..Len(flight) :
       flight[k].op = "favs" /\ flight[l].op = "favs" => k = l
  /\ \A k \in 1..Len(flight) : flight[k].op = "drop" => Favourites

HeartInv ==
  /\ ListingTypeOK
  /\ Pressed
  /\ past.odd = {} =>
       /\ At("listing") => OnListing(Left({}), ui, server.favs)
       /\ Favourites => OnLists(Left({}), ui, server.favs)
       /\ At("cards") \/ At("seller") => OnCards(Left({}), ui, server.favs, past.told)

-----------------------------------------------------------------------------
HeartKinds == {"favs", "toggle", "drop"}

\* A page nobody has clicked on, and no request yet.
LEMMA ListingInitInv == ListingInit => HeartInv
<1> SUFFICES ASSUME ListingInit PROVE HeartInv
  OBVIOUS
<1>1. PICK at \in {"listing", "favorites", "watchlist", "cards", "seller"},
           signedIn \in BOOLEAN :
        ui = [at |-> at, signedIn |-> signedIn, loading |-> at # "cards",
              error |-> FALSE, shown |-> IF at = "cards" THEN Goods ELSE {},
              due |-> at = "listing", hearts |-> {}, toggling |-> {}, busy |-> {},
              parts |-> {}, leaving |-> FALSE]
  BY DEF ListingInit
<1>2. PICK favs \in SUBSET Goods : server = [favs |-> favs]
  BY DEF ListingInit
<1>3. past = [odd |-> {}, told |-> {}] /\ flight = <<>>
  BY DEF ListingInit, Booted
<1> DEFINE loading == at # "cards"
           shown == IF at = "cards" THEN Goods ELSE {}
           due == at = "listing"
<1>4. loading \in BOOLEAN /\ due \in BOOLEAN /\ shown \in SUBSET Goods
  OBVIOUS
<1>5. /\ ui = [at |-> at, signedIn |-> signedIn, loading |-> loading,
               error |-> FALSE, shown |-> shown,
               due |-> due, hearts |-> {}, toggling |-> {}, busy |-> {},
               parts |-> {}, leaving |-> FALSE]
      /\ at \in {"favorites", "watchlist"} => loading
      /\ at = "listing" => due
  BY <1>1
<1> HIDE DEF loading, shown, due
<1>6. ui \in ListingUI
  BY <1>4, <1>5 DEF ListingUI
<1>7. /\ ui.at = at /\ (at \in {"favorites", "watchlist"} => ui.loading)
      /\ (at = "listing" => ui.due)
  BY <1>5
<1>8. ListingTypeOK
  BY <1>2, <1>3, <1>6 DEF ListingTypeOK, ListingPast
<1>9. Left({}) = {} /\ Len(flight) = 0
  BY <1>3 DEF Left
<1>10. Pressed
  BY <1>9 DEF Pressed
<1>11. /\ At("listing") => OnListing({}, ui, server.favs)
       /\ Favourites => OnLists({}, ui, server.favs)
       /\ OnCards({}, ui, server.favs, {})
  BY <1>7 DEF At, Favourites, OnListing, OnLists, OnCards, Fetched
<1> QED
  BY <1>3, <1>8, <1>9, <1>10, <1>11 DEF HeartInv

\* What is known of a request under way.
LEMMA HeartRequest ==
  ASSUME HeartInv, NEW i \in DOMAIN flight
  PROVE  /\ flight \in Seq(ListingRequests) /\ i \in 1..Len(flight)
         /\ flight[i] \in ListingRequests /\ flight[i].phase \in {"sent", "done"}
         /\ flight[i].op = "favs" =>
              flight[i] \in [op : {"favs"}, phase : {"sent", "done"}, favs : SUBSET Goods]
         /\ flight[i].op \in {"toggle", "drop"} =>
              flight[i] \in [op : {"toggle", "drop"}, phase : {"sent", "done"},
                             good : Goods, add : BOOLEAN]
         /\ flight[i].op \notin HeartKinds =>
              flight[i] \in [op : {"load", "profile", "products", "reviews", "chat", "delete"},
                             phase : {"sent", "done"}]
         /\ Left({}) = Left({i}) \cup {flight[i]}
<1>1. flight \in Seq(ListingRequests)
  BY DEF HeartInv, ListingTypeOK
<1>2. i \in 1..Len(flight)
  BY <1>1
<1>3. flight[i] \in ListingRequests
  BY <1>1, <1>2, ElementOfSeq
<1>4. Left({}) = Left({i}) \cup {flight[i]}
  BY <1>2, LeftOne
<1> QED
  BY <1>1, <1>2, <1>3, <1>4 DEF ListingRequests, HeartKinds

\* Every request under way is of the kind they are.
LEMMA LeftTyped ==
  ASSUME HeartInv, NEW gone
  PROVE  /\ \A r \in Left(gone) : r.phase \in {"sent", "done"}
         /\ \A op : UnderWay(op) <=> \E r \in Left({}) : r.op = op
<1>1. ASSUME NEW r \in Left(gone) PROVE r.phase \in {"sent", "done"}
  <2>1. PICK k \in 1..Len(flight) : r = flight[k]
    BY DEF Left
  <2>2. flight \in Seq(ListingRequests)
    BY DEF HeartInv, ListingTypeOK
  <2>3. DOMAIN flight = 1..Len(flight)
    BY <2>2
  <2> QED
    BY <2>1, <2>3, HeartRequest
<1>2. flight \in Seq(ListingRequests)
  BY DEF HeartInv, ListingTypeOK
<1>3. DOMAIN flight = 1..Len(flight)
  BY <1>2
<1> QED
  BY <1>1, <1>3 DEF UnderWay, Left

\* A step takes requests away and adds one.  The clicks that stay are of disabled
\* hearts, and what is new is of its kind alone.
LEMMA PressedNext ==
  ASSUME Pressed, NEW gone, NEW new, Exchanged(gone, new), ui'.at = ui.at,
         \A l \in (1..Len(flight)) \ gone :
           flight[l].op = "toggle" => flight[l].good \in ui'.toggling,
         \A r \in new :
           /\ r.op = "drop" => Favourites
           /\ r.op = "toggle" =>
                /\ r.good \in ui'.toggling
                /\ \A l \in (1..Len(flight)) \ gone : flight[l].op = "toggle" =>
                     ~At("listing") /\ flight[l].good # r.good
           /\ r.op = "favs" /\ Favourites =>
                \A l \in (1..Len(flight)) \ gone : flight[l].op # "favs"
  PROVE  Pressed'
<1>1. PICK f : /\ \A k \in 1..Len(flight') :
                    \/ f[k] \in (1..Len(flight)) \ gone /\ flight'[k] = flight[f[k]]
                    \/ f[k] = 0 /\ flight'[k] \in new
               /\ \A k, l \in 1..Len(flight') : f[k] = f[l] => k = l
  BY DEF Exchanged
<1>2. /\ Favourites' <=> Favourites
      /\ At("listing")' <=> At("listing")
  BY DEF Favourites, At
<1>3. ASSUME NEW k \in 1..Len(flight')
      PROVE  /\ flight'[k].op = "toggle" => flight'[k].good \in ui'.toggling
             /\ flight'[k].op = "drop" => Favourites
  <2>1. CASE f[k] \in (1..Len(flight)) \ gone /\ flight'[k] = flight[f[k]]
    BY <2>1 DEF Pressed
  <2>2. CASE flight'[k] \in new
    BY <2>2
  <2> QED
    BY <1>1, <2>1, <2>2
<1>4. ASSUME NEW k \in 1..Len(flight'), NEW l \in 1..Len(flight'), f[k] # f[l]
      PROVE  /\ flight'[k].op = "toggle" /\ flight'[l].op = "toggle" =>
                  ~At("listing") /\ flight'[k].good # flight'[l].good
             /\ Favourites => ~(flight'[k].op = "favs" /\ flight'[l].op = "favs")
  <2>1. CASE /\ f[k] \in (1..Len(flight)) \ gone /\ flight'[k] = flight[f[k]]
             /\ f[l] \in (1..Len(flight)) \ gone /\ flight'[l] = flight[f[l]]
    BY <1>4, <2>1 DEF Pressed
  <2>2. CASE /\ f[k] \in (1..Len(flight)) \ gone /\ flight'[k] = flight[f[k]]
             /\ flight'[l] \in new
    BY <2>2
  <2>3. CASE /\ f[l] \in (1..Len(flight)) \ gone /\ flight'[l] = flight[f[l]]
             /\ flight'[k] \in new
    BY <2>3
  <2> QED
    BY <1>1, <1>4, <2>1, <2>2, <2>3
<1>5. ASSUME NEW k \in 1..Len(flight'), NEW l \in 1..Len(flight'), f[k] = f[l]
      PROVE  k = l
  BY <1>1, <1>5
<1> QED
  BY <1>2, <1>3, <1>4, <1>5 DEF Pressed

\* The parts of the invariant after a step.
LEMMA HeartNext ==
  ASSUME HeartInv, NEW gone, NEW new, Exchanged(gone, new),
         flight' \in Seq(ListingRequests), ui' \in ListingUI, ui'.at = ui.at,
         server' \in [favs : SUBSET Goods], past' \in ListingPast,
         past.odd \subseteq past'.odd, Pressed',
         past'.odd = {} /\ past.odd = {} =>
           /\ At("listing") => OnListing(Left(gone) \cup new, ui', server'.favs)
           /\ Favourites => OnLists(Left(gone) \cup new, ui', server'.favs)
           /\ At("cards") \/ At("seller") =>
                OnCards(Left(gone) \cup new, ui', server'.favs, past'.told)
  PROVE  HeartInv'
<1>1. Left({})' = Left(gone) \cup new
  BY ExchangedLeft
<1>2. ListingTypeOK'
  BY DEF ListingTypeOK
<1> DEFINE P == Left(gone) \cup new
<1>3. past'.odd = {} =>
           /\ At("listing") => OnListing(P, ui', server'.favs)
           /\ Favourites => OnLists(P, ui', server'.favs)
           /\ At("cards") \/ At("seller") => OnCards(P, ui', server'.favs, past'.told)
  OBVIOUS
<1>4. Left({})' = P
  BY <1>1
<1> HIDE DEF P
<1>5. /\ (ui'.at = "listing") <=> At("listing")
      /\ (ui'.at = "favorites" \/ ui'.at = "watchlist") <=> Favourites
      /\ (ui'.at = "cards" \/ ui'.at = "seller") <=> (At("cards") \/ At("seller"))
  BY DEF At, Favourites
<1> QED
  BY <1>2, <1>3, <1>4, <1>5 DEF HeartInv, At, Favourites, OnListing, OnLists, OnCards

\* Requests that are not about hearts do not concern the page's hearts.
LEMMA QuietPages ==
  ASSUME NEW P, NEW Q, NEW u, NEW v, NEW favs, NEW told,
         \A r : r.op \in HeartKinds => (r \in P <=> r \in Q),
         v.hearts = u.hearts
  PROVE  /\ OnListing(P, u, favs) /\ v.due = u.due /\ v.signedIn = u.signedIn =>
              OnListing(Q, v, favs)
         /\ OnLists(P, u, favs) /\ v.loading = u.loading /\ v.shown = u.shown =>
              OnLists(Q, v, favs)
         /\ OnCards(P, u, favs, told) => OnCards(Q, v, favs, told)
<1>1. ASSUME OnListing(P, u, favs), v.due = u.due, v.signedIn = u.signedIn
      PROVE  OnListing(Q, v, favs)
  BY <1>1 DEF OnListing, Fetched, Wished, HeartKinds
<1>2. ASSUME OnLists(P, u, favs), v.loading = u.loading, v.shown = u.shown
      PROVE  OnLists(Q, v, favs)
  <2>1. \A g : /\ Dropping(P, g) <=> Dropping(Q, g)
               /\ WillDrop(P, g) <=> WillDrop(Q, g)
    BY DEF Dropping, WillDrop, HeartKinds
  <2> QED
    BY <1>2, <2>1 DEF OnLists, Fetched, HeartKinds
<1>3. ASSUME OnCards(P, u, favs, told) PROVE OnCards(Q, v, favs, told)
  BY <1>3 DEF OnCards, HeartKinds
<1> QED
  BY <1>1, <1>2, <1>3

\* A step that is not about hearts.
LEMMA QuietInv ==
  ASSUME HeartInv, NEW gone, NEW new, Exchanged(gone, new), gone \subseteq 1..Len(flight),
         flight' \in Seq(ListingRequests), ui' \in ListingUI, UNCHANGED <<server, past>>,
         \A l \in gone : flight[l].op \notin HeartKinds,
         \A r \in new : r.op \notin HeartKinds,
         ui'.at = ui.at, ui'.hearts = ui.hearts, ui'.toggling = ui.toggling,
         At("listing") => ui'.due = ui.due /\ ui'.signedIn = ui.signedIn,
         Favourites => ui'.loading = ui.loading /\ ui'.shown = ui.shown
  PROVE  HeartInv'
<1> DEFINE P == Left({})
           Q == Left(gone) \cup new
<1>1. \A r : r.op \in HeartKinds => (r \in P <=> r \in Q)
  BY DEF Left
<1>2. Pressed'
  <2>1. \A r \in new : r.op \notin {"favs", "toggle", "drop"}
    BY DEF HeartKinds
  <2>2. Pressed /\ \A l \in (1..Len(flight)) \ gone :
           flight[l].op = "toggle" => flight[l].good \in ui'.toggling
    BY DEF HeartInv, Pressed
  <2> QED
    BY <2>1, <2>2, PressedNext
<1>3. /\ server' = server /\ past' = past
      /\ server' \in [favs : SUBSET Goods] /\ past' \in ListingPast
  BY DEF HeartInv, ListingTypeOK
<1>4. past.odd = {} =>
        /\ At("listing") => OnListing(P, ui, server.favs)
        /\ Favourites => OnLists(P, ui, server.favs)
        /\ At("cards") \/ At("seller") => OnCards(P, ui, server.favs, past.told)
  BY DEF HeartInv
<1> HIDE DEF P, Q
<1>5. past.odd = {} =>
        /\ At("listing") => OnListing(Q, ui', server'.favs)
        /\ Favourites => OnLists(Q, ui', server'.favs)
        /\ At("cards") \/ At("seller") => OnCards(Q, ui', server'.favs, past'.told)
  BY <1>1, <1>3, <1>4, QuietPages
<1> QED
  BY <1>2, <1>3, <1>5, HeartNext DEF Q

\* A page asks for what it is about; the user asks for a chat, or deletes.
LEMMA AskedInv ==
  ASSUME HeartInv,
         ListingEffect \/ SellerEffect \/ HandleContactSeller \/ HandleDeleteListing
  PROVE  HeartInv'
<1>1. ui \in ListingUI /\ flight \in Seq(ListingRequests) /\ UNCHANGED <<server, past>>
  BY DEF HeartInv, ListingTypeOK, ListingEffect, SellerEffect, HandleContactSeller,
         HandleDeleteListing, Untold
<1>2. PICK op \in {"load", "profile", "chat", "delete"} : Send(Asked(op))
  BY DEF ListingEffect, SellerEffect, HandleContactSeller, HandleDeleteListing
<1>3. \E busy \in SUBSET {"chat", "delete"} : ui' = [ui EXCEPT !.busy = busy]
  <2>1. ui.busy \in SUBSET {"chat", "delete"} /\ ui = [ui EXCEPT !.busy = ui.busy]
    BY <1>1 DEF ListingUI
  <2>2. CASE ListingEffect \/ SellerEffect
    BY <2>1, <2>2 DEF ListingEffect, SellerEffect
  <2>3. CASE HandleContactSeller
    <3>1. ui.busy \cup {"chat"} \in SUBSET {"chat", "delete"}
      BY <2>1
    <3> QED
      BY <2>3, <3>1 DEF HandleContactSeller
  <2>4. CASE HandleDeleteListing
    <3>1. ui.busy \cup {"delete"} \in SUBSET {"chat", "delete"}
      BY <2>1
    <3> QED
      BY <2>4, <3>1 DEF HandleDeleteListing
  <2> QED
    BY <2>2, <2>3, <2>4
<1>4. /\ ui' \in ListingUI /\ ui'.at = ui.at /\ ui'.hearts = ui.hearts
      /\ ui'.toggling = ui.toggling /\ ui'.due = ui.due /\ ui'.signedIn = ui.signedIn
      /\ ui'.loading = ui.loading /\ ui'.shown = ui.shown
  BY <1>1, <1>3 DEF ListingUI
<1>5. Asked(op) \in ListingRequests /\ Asked(op).op = op /\ op \notin HeartKinds
  BY DEF Asked, ListingRequests, HeartKinds
<1>6. flight' \in Seq(ListingRequests) /\ Exchanged({}, {Asked(op)})
  BY <1>1, <1>2, <1>5, SentExchange
<1> QED
  BY <1>1, <1>4, <1>5, <1>6, QuietInv

\* A page that is left, or whose store is read after it was drawn.
LEMMA SessionInv == HeartInv /\ (RequireAuth \/ Hydrated) => HeartInv'
<1> SUFFICES ASSUME HeartInv, RequireAuth \/ Hydrated PROVE HeartInv'
  OBVIOUS
<1>1. /\ ui \in ListingUI /\ flight' \in Seq(ListingRequests)
      /\ UNCHANGED <<server, past, flight>>
  BY DEF HeartInv, ListingTypeOK, RequireAuth, Hydrated, Untold
<1>2. Exchanged({}, {})
  BY <1>1, SameExchange
<1>3. CASE RequireAuth
  <2>1. ui' = [ui EXCEPT !.leaving = TRUE]
    BY <1>3 DEF RequireAuth
  <2>2. /\ ui' \in ListingUI /\ ui'.at = ui.at /\ ui'.hearts = ui.hearts
        /\ ui'.toggling = ui.toggling /\ ui'.due = ui.due /\ ui'.signedIn = ui.signedIn
        /\ ui'.loading = ui.loading /\ ui'.shown = ui.shown
    BY <1>1, <2>1 DEF ListingUI
  <2> QED
    BY <1>1, <1>2, <2>2, QuietInv
<1>4. CASE Hydrated
  <2>1. /\ ui' = [ui EXCEPT !.signedIn = TRUE, !.due = TRUE]
        /\ At("listing") /\ ~ui.signedIn
    BY <1>4 DEF Hydrated
  <2>2. /\ ui' \in ListingUI /\ ui'.at = ui.at /\ ui'.hearts = ui.hearts
        /\ ui'.toggling = ui.toggling /\ ui'.due
    BY <1>1, <2>1 DEF ListingUI
  <2>3. Pressed'
    <3>1. Pressed /\ \A l \in (1..Len(flight)) \ {} :
             flight[l].op = "toggle" => flight[l].good \in ui'.toggling
      BY <2>2 DEF HeartInv, Pressed
    <3> QED
      BY <1>2, <2>2, <3>1, PressedNext
  <2>4. past.odd = {} => OnListing(Left({}) \cup {}, ui', server'.favs)
    <3> DEFINE P == Left({})
    <3>1. past.odd = {} => OnListing(P, ui, server.favs)
      BY <2>1 DEF HeartInv
    <3> HIDE DEF P
    <3>2. past.odd = {} => OnListing(P, ui', server'.favs)
      BY <1>1, <2>1, <2>2, <3>1 DEF OnListing, Fetched
    <3>3. P \cup {} = P
      OBVIOUS
    <3> QED
      BY <3>2, <3>3 DEF P
  <2>5. ~Favourites /\ ~At("cards") /\ ~At("seller")
    BY <2>1 DEF At, Favourites
  <2>6. /\ server' \in [favs : SUBSET Goods] /\ past' \in ListingPast
        /\ past.odd \subseteq past'.odd
    BY <1>1 DEF HeartInv, ListingTypeOK
  <2> QED
    BY <1>1, <1>2, <2>2, <2>3, <2>4, <2>5, <2>6, HeartNext
<1> QED
  BY <1>3, <1>4

\* The server answers what is not about hearts.
LEMMA AnswerInv ==
  ASSUME HeartInv, NEW i \in DOMAIN flight, Answer(i)
  PROVE  HeartInv'
<1> DEFINE r == [flight[i] EXCEPT !.phase = "done"]
<1>1. /\ flight \in Seq(ListingRequests) /\ i \in 1..Len(flight)
      /\ flight[i].op \notin HeartKinds
      /\ flight[i] \in [op : {"load", "profile", "products", "reviews", "chat", "delete"},
                        phase : {"sent", "done"}]
  BY HeartRequest DEF Answer, HeartKinds
<1>2. r \in ListingRequests /\ r.op \notin HeartKinds
  BY <1>1 DEF ListingRequests
<1>3. Return(i, r) /\ UNCHANGED <<ui, server, past>>
  BY DEF Answer
<1> HIDE DEF r
<1>4. flight' \in Seq(ListingRequests) /\ Exchanged({i}, {r})
  BY <1>1, <1>2, <1>3, ReturnedExchange
<1>5. ui' \in ListingUI
  BY <1>3 DEF HeartInv, ListingTypeOK
<1> QED
  BY <1>1, <1>2, <1>3, <1>4, <1>5, QuietInv

\* What is not about hearts arrives, or fails.
LEMMA ArrivedInv ==
  ASSUME HeartInv, NEW i \in DOMAIN flight, ListingLoaded(i) \/ SellerFailed(i) \/ Acted(i)
  PROVE  HeartInv'
<1>1. /\ ui \in ListingUI /\ flight \in Seq(ListingRequests) /\ i \in 1..Len(flight)
      /\ Land(i) /\ UNCHANGED <<server, past>> /\ flight[i].op \notin HeartKinds
  BY HeartRequest
     DEF HeartInv, ListingTypeOK, ListingLoaded, SellerFailed, Acted, Untold, HeartKinds
<1>2. flight' \in Seq(ListingRequests) /\ Exchanged({i}, {})
  BY <1>1, LandedExchange
<1>3. /\ ui' \in ListingUI /\ ui'.at = ui.at /\ ui'.hearts = ui.hearts
      /\ ui'.toggling = ui.toggling /\ ui'.due = ui.due /\ ui'.signedIn = ui.signedIn
      /\ Favourites => ui'.loading = ui.loading /\ ui'.shown = ui.shown
  <2>1. CASE ListingLoaded(i)
    <3> DEFINE ok == flight[i].phase = "done"
    <3>1. PICK good \in Goods :
            ui' = [ui EXCEPT !.loading = FALSE, !.error = ~ok,
                             !.shown = IF ok THEN {good} ELSE @]
      BY <2>1 DEF ListingLoaded
    <3> DEFINE shown == IF ok THEN {good} ELSE ui.shown
               error == ~ok
    <3>2. ui' = [ui EXCEPT !.loading = FALSE, !.error = error, !.shown = shown]
      BY <3>1
    <3>3. shown \in SUBSET Goods /\ error \in BOOLEAN
      BY <1>1 DEF ListingUI
    <3>4. ~Favourites
      BY <2>1 DEF ListingLoaded, At, Favourites
    <3> HIDE DEF shown, error
    <3> QED
      BY <1>1, <3>2, <3>3, <3>4 DEF ListingUI
  <2>2. CASE SellerFailed(i)
    <3> DEFINE error == flight[i].op # "reviews"
    <3>1. ui' = [ui EXCEPT !.loading = FALSE, !.error = error] /\ error \in BOOLEAN
      BY <2>2 DEF SellerFailed
    <3>2. ~Favourites
      BY <2>2 DEF SellerFailed, At, Favourites
    <3> HIDE DEF error
    <3> QED
      BY <1>1, <3>1, <3>2 DEF ListingUI
  <2>3. CASE Acted(i)
    <3> DEFINE busy == ui.busy \ {flight[i].op}
               leaving == ui.leaving \/ flight[i].phase = "done"
    <3>1. ui' = [ui EXCEPT !.busy = busy, !.leaving = leaving]
      BY <2>3 DEF Acted
    <3>2. busy \in SUBSET {"chat", "delete"} /\ leaving \in BOOLEAN
      BY <1>1 DEF ListingUI
    <3> HIDE DEF busy, leaving
    <3> QED
      BY <1>1, <3>1, <3>2 DEF ListingUI
  <2> QED
    BY <2>1, <2>2, <2>3
<1> QED
  BY <1>1, <1>2, <1>3, QuietInv

\* A part of the page of a seller, and the request for the next.
LEMMA SellerLoadedInv ==
  ASSUME HeartInv, NEW i \in DOMAIN flight, SellerLoaded(i)
  PROVE  HeartInv'
<1> DEFINE op == flight[i].op
<1>1. /\ ui \in ListingUI /\ flight \in Seq(ListingRequests) /\ i \in 1..Len(flight)
      /\ UNCHANGED <<server, past>> /\ op \in {"profile", "products", "reviews"}
      /\ At("seller")
  BY HeartRequest DEF HeartInv, ListingTypeOK, SellerLoaded, Untold
<1> DEFINE parts == ui.parts \cup {op}
           loading == op # "reviews"
           shown == IF op = "products" THEN Goods ELSE ui.shown
<1>2. ui' = [ui EXCEPT !.parts = parts, !.loading = loading, !.shown = shown]
  BY DEF SellerLoaded
<1>3. /\ parts \in SUBSET {"profile", "products", "reviews"} /\ loading \in BOOLEAN
      /\ shown \in SUBSET Goods
  BY <1>1 DEF ListingUI
<1> HIDE DEF parts, loading, shown
<1>4. /\ ui' \in ListingUI /\ ui'.at = ui.at /\ ui'.hearts = ui.hearts
      /\ ui'.toggling = ui.toggling /\ ui'.due = ui.due /\ ui'.signedIn = ui.signedIn
  BY <1>1, <1>2, <1>3 DEF ListingUI
<1>5. ~Favourites
  BY <1>1 DEF At, Favourites
<1>6. op \notin HeartKinds
  BY <1>1 DEF HeartKinds
<1>7. CASE op = "reviews"
  <2>1. flight' = RemoveAt(flight, i) \o <<>>
    BY <1>7 DEF SellerLoaded
  <2>2. RemoveAt(flight, i) \in Seq(ListingRequests)
    BY <1>1, RemoveAtFacts
  <2>3. RemoveAt(flight, i) \o <<>> = RemoveAt(flight, i)
    BY <2>2, ConcatEmptySeq
  <2>4. flight' \in Seq(ListingRequests) /\ Exchanged({i}, {})
    BY <1>1, <2>1, <2>3, LandedExchange DEF Land
  <2> QED
    BY <1>1, <1>4, <1>5, <1>6, <2>4, QuietInv
<1>8. CASE op # "reviews"
  <2> DEFINE r == Asked(SellerNextPart(op))
  <2>1. flight' = RemoveAt(flight, i) \o <<r>>
    BY <1>8 DEF SellerLoaded
  <2>2. SellerNextPart(op) \in {"products", "reviews"}
    BY <1>1, <1>8 DEF SellerNextPart
  <2>3. r \in ListingRequests /\ r.op \notin HeartKinds
    BY <2>2 DEF Asked, ListingRequests, HeartKinds
  <2> HIDE DEF r
  <2>4. flight' \in Seq(ListingRequests) /\ Exchanged({i}, {r})
    BY <1>1, <2>1, <2>3, FollowedExchange
  <2> QED
    BY <1>1, <1>4, <1>5, <1>6, <2>3, <2>4, QuietInv
<1> QED
  BY <1>7, <1>8

-----------------------------------------------------------------------------
\* The load of the favourites is sent.
LEMMA FavoriteEffectInv == HeartInv /\ FavoriteEffect => HeartInv'
<1> SUFFICES ASSUME HeartInv, FavoriteEffect PROVE HeartInv'
  OBVIOUS
<1> DEFINE P == Left({})
           r == [op |-> "favs", phase |-> "sent", favs |-> {}]
           hearts == IF ui.signedIn THEN ui.hearts ELSE {}
<1>1. /\ ui \in ListingUI /\ flight \in Seq(ListingRequests) /\ Pressed
      /\ UNCHANGED <<server, past>> /\ ui.at = "listing" /\ ui.due
      /\ server' \in [favs : SUBSET Goods] /\ past' \in ListingPast
  BY DEF HeartInv, ListingTypeOK, FavoriteEffect, Untold, At
<1>2. ~Favourites /\ At("listing") /\ ~At("cards") /\ ~At("seller")
  BY <1>1 DEF Favourites, At
<1>3. ui' = [ui EXCEPT !.due = FALSE, !.hearts = hearts]
  BY DEF FavoriteEffect
<1>4. hearts \in SUBSET Goods
  BY <1>1 DEF ListingUI
<1> HIDE DEF hearts
<1>5. /\ ui' \in ListingUI /\ ui'.at = ui.at /\ ui'.toggling = ui.toggling
      /\ ui'.signedIn = ui.signedIn
  BY <1>1, <1>3, <1>4 DEF ListingUI
<1>6. past.odd = {} => OnListing(P, ui, server.favs)
  BY <1>2 DEF HeartInv
<1>7. \A l \in (1..Len(flight)) \ {} :
        flight[l].op = "toggle" => flight[l].good \in ui'.toggling
  BY <1>1, <1>5 DEF Pressed
<1>8. CASE ui.signedIn
  <2>1. Send(r)
    BY <1>8 DEF FavoriteEffect
  <2>2. r \in ListingRequests /\ r.op = "favs" /\ r.phase = "sent"
    BY DEF ListingRequests
  <2> HIDE DEF P, r
  <2>3. flight' \in Seq(ListingRequests) /\ Exchanged({}, {r})
    BY <1>1, <2>1, <2>2, SentExchange
  <2>4. Pressed'
    BY <1>1, <1>2, <1>5, <1>7, <2>2, <2>3, PressedNext
  <2>5. past.odd = {} => OnListing(P \cup {r}, ui', server'.favs)
    BY <1>1, <1>6, <2>2 DEF OnListing, Fetched
  <2> QED
    BY <1>1, <1>2, <1>5, <2>3, <2>4, <2>5, HeartNext DEF P
<1>9. CASE ~ui.signedIn
  <2>1. UNCHANGED flight
    BY <1>9 DEF FavoriteEffect
  <2>2. flight' \in Seq(ListingRequests) /\ Exchanged({}, {})
    BY <1>1, <2>1, SameExchange
  <2>3. Pressed'
    BY <1>1, <1>5, <1>7, <2>2, PressedNext
  <2> HIDE DEF P
  <2>4. past.odd = {} => OnListing(P \cup {}, ui', server'.favs)
    BY <1>1, <1>5, <1>6, <1>9 DEF OnListing, Fetched
  <2> QED
    BY <1>1, <1>2, <1>5, <2>2, <2>3, <2>4, HeartNext DEF P
<1> QED
  BY <1>8, <1>9

\* The lists load their favourites.
LEMMA FavoritesEffectInv == HeartInv /\ FavoritesEffect => HeartInv'
<1> SUFFICES ASSUME HeartInv, FavoritesEffect PROVE HeartInv'
  OBVIOUS
<1> DEFINE P == Left({})
           r == [op |-> "favs", phase |-> "sent", favs |-> {}]
<1>1. /\ ui \in ListingUI /\ flight \in Seq(ListingRequests) /\ Pressed
      /\ UNCHANGED <<ui, server, past>> /\ Favourites /\ ui.loading
      /\ ui' \in ListingUI /\ server' \in [favs : SUBSET Goods] /\ past' \in ListingPast
      /\ Send(r) /\ ~UnderWay("favs")
  BY DEF HeartInv, ListingTypeOK, FavoritesEffect, Untold
<1>2. ~At("listing") /\ ~At("cards") /\ ~At("seller")
  BY <1>1 DEF Favourites, At
<1>3. r \in ListingRequests /\ r.op = "favs" /\ r.phase = "sent"
  BY DEF ListingRequests
<1>4. past.odd = {} => OnLists(P, ui, server.favs)
  BY <1>1 DEF HeartInv
<1> HIDE DEF P, r
<1>5. flight' \in Seq(ListingRequests) /\ Exchanged({}, {r})
  BY <1>1, <1>3, SentExchange
<1>6. DOMAIN flight = 1..Len(flight)
  BY <1>1
<1>7. /\ \A l \in (1..Len(flight)) \ {} : flight[l].op # "favs"
      /\ \A l \in (1..Len(flight)) \ {} :
           flight[l].op = "toggle" => flight[l].good \in ui'.toggling
  BY <1>1, <1>6 DEF Pressed, UnderWay
<1>8. Pressed'
  BY <1>1, <1>3, <1>5, <1>7, PressedNext
<1>9. past.odd = {} => OnLists(P \cup {r}, ui', server'.favs)
  BY <1>1, <1>3, <1>4 DEF OnLists, Fetched
<1> QED
  BY <1>1, <1>2, <1>5, <1>8, <1>9, HeartNext DEF P

\* A click that crosses no load: past remembers if it does.
LEMMA ClickedFacts ==
  ASSUME HeartInv, Clicked
  PROVE  /\ past' \in ListingPast /\ past.odd \subseteq past'.odd
         /\ past'.told = past.told
         /\ past'.odd = {} =>
              past.odd = {} /\ ~ui.due /\ \A r \in Left({}) : r.op # "favs"
<1> DEFINE odd == past.odd \cup (IF ui.due \/ UnderWay("favs") THEN {"crossed"} ELSE {})
<1>1. past' = [past EXCEPT !.odd = odd] /\ past \in ListingPast
  BY DEF HeartInv, ListingTypeOK, Clicked
<1>2. odd \in SUBSET {"lost", "crossed", "blind", "kept"} /\ past.odd \subseteq odd
  BY <1>1 DEF ListingPast
<1>3. odd = {} => past.odd = {} /\ ~ui.due /\ ~UnderWay("favs")
  OBVIOUS
<1> HIDE DEF odd
<1>4. past' \in ListingPast /\ past'.odd = odd /\ past'.told = past.told
  BY <1>1, <1>2 DEF ListingPast
<1> QED
  BY <1>2, <1>3, <1>4, LeftTyped

\* The heart of a listing is clicked: it shows at once what is wished.
LEMMA HandleFavoriteToggleInv == HeartInv /\ HandleFavoriteToggle => HeartInv'
<1> SUFFICES ASSUME HeartInv, HandleFavoriteToggle PROVE HeartInv'
  OBVIOUS
<1>1. PICK good \in ui.shown :
        LET add == good \notin ui.hearts IN
        /\ ui' = [ui EXCEPT !.hearts = IF add THEN @ \cup {good} ELSE @ \ {good},
                            !.toggling = {good}]
        /\ Send(ToggleFavorite("toggle", good, add))
        /\ Clicked
  BY DEF HandleFavoriteToggle
<1> DEFINE P == Left({})
           add == good \notin ui.hearts
           r == ToggleFavorite("toggle", good, add)
           hearts == IF add THEN ui.hearts \cup {good} ELSE ui.hearts \ {good}
<1>2. /\ ui \in ListingUI /\ flight \in Seq(ListingRequests) /\ Pressed /\ UNCHANGED server
      /\ ui.at = "listing" /\ ui.signedIn /\ ui.toggling = {}
      /\ server' \in [favs : SUBSET Goods]
  BY DEF HeartInv, ListingTypeOK, HandleFavoriteToggle, ListingView, At
<1>3. ~Favourites /\ At("listing") /\ ~At("cards") /\ ~At("seller")
  BY <1>2 DEF Favourites, At
<1>4. good \in Goods /\ ui.hearts \in SUBSET Goods
  BY <1>2 DEF ListingUI
<1>5. ui' = [ui EXCEPT !.hearts = hearts, !.toggling = {good}] /\ Send(r)
  BY <1>1
<1>6. hearts \in SUBSET Goods
  BY <1>4
<1>7. /\ r \in ListingRequests /\ r.op = "toggle" /\ r.phase = "sent" /\ r.good = good
      /\ r.add <=> good \notin ui.hearts
  BY <1>4 DEF ToggleFavorite, ListingRequests
<1>8. Wished(r, hearts, ui.hearts)
  BY <1>7 DEF Wished
<1>9. past.odd = {} => OnListing(P, ui, server.favs)
  BY <1>3 DEF HeartInv
<1>10. \A l \in 1..Len(flight) : flight[l].op # "toggle"
  BY <1>2 DEF Pressed
<1>11. \A x \in P : x.op # "toggle"
  BY <1>10 DEF Left
<1>12. /\ past' \in ListingPast /\ past.odd \subseteq past'.odd
       /\ past'.odd = {} => past.odd = {} /\ ~ui.due /\ \A x \in P : x.op # "favs"
  BY <1>1, ClickedFacts
<1> HIDE DEF P, r, add, hearts
<1>13. /\ ui' \in ListingUI /\ ui'.at = ui.at /\ ui'.toggling = {good}
       /\ ui'.signedIn /\ ui'.due = ui.due /\ ui'.hearts = hearts
  BY <1>2, <1>4, <1>5, <1>6 DEF ListingUI
<1>14. flight' \in Seq(ListingRequests) /\ Exchanged({}, {r})
  BY <1>2, <1>5, <1>7, SentExchange
<1>15. Pressed'
  BY <1>2, <1>3, <1>7, <1>10, <1>13, <1>14, PressedNext
<1>16. past'.odd = {} => OnListing(P \cup {r}, ui', server'.favs)
  <2> SUFFICES ASSUME past'.odd = {} PROVE OnListing(P \cup {r}, ui', server'.favs)
    OBVIOUS
  <2>1. ui.hearts = server.favs /\ Fetched(P, server.favs)
    BY <1>2, <1>9, <1>11, <1>12 DEF OnListing
  <2>2. Fetched(P \cup {r}, server.favs)
    BY <1>7, <2>1 DEF Fetched
  <2>3. Wished(r, ui'.hearts, server'.favs)
    BY <1>2, <1>8, <1>13, <2>1
  <2> QED
    BY <1>2, <1>7, <1>11, <1>12, <1>13, <2>2, <2>3 DEF OnListing
<1> QED
  BY <1>2, <1>3, <1>12, <1>13, <1>14, <1>15, <1>16, HeartNext DEF P

\* The heart of a card is clicked, and shows it with the answer.
LEMMA HandleFavoriteClickInv == HeartInv /\ HandleFavoriteClick => HeartInv'
<1> SUFFICES ASSUME HeartInv, HandleFavoriteClick PROVE HeartInv'
  OBVIOUS
<1>1. PICK good \in Goods \ ui.toggling :
        /\ Card(good)
        /\ ui' = [ui EXCEPT !.toggling = @ \cup {good}]
        /\ Send(ToggleFavorite("toggle", good, good \notin ui.hearts))
        /\ Clicked
  BY DEF HandleFavoriteClick
<1> DEFINE P == Left({})
           add == good \notin ui.hearts
           r == ToggleFavorite("toggle", good, add)
           toggling == ui.toggling \cup {good}
<1>2. /\ ui \in ListingUI /\ flight \in Seq(ListingRequests) /\ Pressed /\ UNCHANGED server
      /\ server' \in [favs : SUBSET Goods]
  BY DEF HeartInv, ListingTypeOK, HandleFavoriteClick
<1>3. ~At("listing") /\ (Favourites => ~ui.loading)
  BY <1>1 DEF Card, FavoritesView, SellerView, Favourites, At
<1>4. ui' = [ui EXCEPT !.toggling = toggling] /\ Send(r)
  BY <1>1
<1>5. toggling \in SUBSET Goods /\ ui.toggling \subseteq toggling /\ good \in toggling
  BY <1>2 DEF ListingUI
<1>6. r \in ListingRequests /\ r.op = "toggle" /\ r.phase = "sent" /\ r.good = good
  BY DEF ToggleFavorite, ListingRequests
<1>7. past.odd = {} => /\ Favourites => OnLists(P, ui, server.favs)
                       /\ At("cards") \/ At("seller") =>
                            OnCards(P, ui, server.favs, past.told)
  BY DEF HeartInv
<1>8. \A l \in (1..Len(flight)) \ {} : flight[l].op = "toggle" =>
        flight[l].good \in toggling /\ flight[l].good # good
  BY <1>2, <1>5 DEF Pressed
<1>9. /\ past' \in ListingPast /\ past.odd \subseteq past'.odd
      /\ past'.told = past.told
  BY <1>1, ClickedFacts
<1> HIDE DEF P, r, add, toggling
<1>10. /\ ui' \in ListingUI /\ ui'.at = ui.at /\ ui'.toggling = toggling
       /\ ui'.hearts = ui.hearts /\ ui'.shown = ui.shown /\ ui'.loading = ui.loading
  BY <1>2, <1>4, <1>5 DEF ListingUI
<1>11. flight' \in Seq(ListingRequests) /\ Exchanged({}, {r})
  BY <1>2, <1>4, <1>6, SentExchange
<1>12. Pressed'
  BY <1>2, <1>3, <1>5, <1>6, <1>8, <1>10, <1>11, PressedNext
<1>13. past.odd = {} /\ Favourites => OnLists(P \cup {r}, ui', server'.favs)
  <2>1. \A g : /\ Dropping(P \cup {r}, g) <=> Dropping(P, g)
               /\ WillDrop(P \cup {r}, g) <=> WillDrop(P, g)
    BY <1>6 DEF Dropping, WillDrop
  <2> QED
    BY <1>2, <1>3, <1>6, <1>7, <1>10, <2>1 DEF OnLists
<1>14. past.odd = {} /\ (At("cards") \/ At("seller")) =>
         OnCards(P \cup {r}, ui', server'.favs, past'.told)
  BY <1>2, <1>6, <1>7, <1>9, <1>10 DEF OnCards
<1> QED
  BY <1>2, <1>3, <1>9, <1>10, <1>11, <1>12, <1>13, <1>14, HeartNext DEF P

-----------------------------------------------------------------------------
\* The server reads the favourites.
LEMMA GetMineInv ==
  ASSUME HeartInv, NEW i \in DOMAIN flight, GetMine(i)
  PROVE  HeartInv'
<1> DEFINE r == [flight[i] EXCEPT !.phase = "done", !.favs = server.favs]
           Q == Left({i})
<1>1. /\ flight \in Seq(ListingRequests) /\ i \in 1..Len(flight) /\ Pressed
      /\ flight[i] \in [op : {"favs"}, phase : {"sent", "done"}, favs : SUBSET Goods]
      /\ UNCHANGED <<ui, server, past>> /\ Return(i, r)
      /\ Left({}) = Q \cup {flight[i]}
      /\ server \in [favs : SUBSET Goods] /\ past \in ListingPast /\ ui \in ListingUI
  BY HeartRequest DEF HeartInv, ListingTypeOK, GetMine
<1>2. r \in ListingRequests /\ r.op = "favs" /\ r.favs = server.favs
  BY <1>1 DEF ListingRequests
<1> HIDE DEF r
<1>3. flight' \in Seq(ListingRequests) /\ Exchanged({i}, {r})
  BY <1>1, <1>2, ReturnedExchange
<1>4. /\ \A l \in (1..Len(flight)) \ {i} :
           flight[l].op = "toggle" => flight[l].good \in ui'.toggling
      /\ Favourites => \A l \in (1..Len(flight)) \ {i} : flight[l].op # "favs"
  BY <1>1 DEF Pressed
<1>5. Pressed'
  BY <1>1, <1>2, <1>3, <1>4, PressedNext, SMTT(30)
<1>6. past.odd = {} =>
        /\ At("listing") => OnListing(Q \cup {flight[i]}, ui, server.favs)
        /\ Favourites => OnLists(Q \cup {flight[i]}, ui, server.favs)
        /\ At("cards") \/ At("seller") =>
             OnCards(Q \cup {flight[i]}, ui, server.favs, past.told)
  BY <1>1 DEF HeartInv
<1> HIDE DEF Q
<1>7. OnListing(Q \cup {flight[i]}, ui, server.favs) => OnListing(Q \cup {r}, ui, server.favs)
  BY <1>1, <1>2 DEF OnListing, Fetched
<1>8. OnLists(Q \cup {flight[i]}, ui, server.favs) => OnLists(Q \cup {r}, ui, server.favs)
  BY <1>1, <1>2 DEF OnLists, Fetched
<1>9. OnCards(Q \cup {flight[i]}, ui, server.favs, past.told) =>
        OnCards(Q \cup {r}, ui, server.favs, past.told)
  BY <1>1, <1>2 DEF OnCards
<1> QED
  BY <1>1, <1>3, <1>5, <1>6, <1>7, <1>8, <1>9, HeartNext DEF Q

\* The others under way are clicks on other hearts, on the page of a listing none.
LEMMA OtherClicks ==
  ASSUME HeartInv, NEW i \in DOMAIN flight, flight[i].op = "toggle"
  PROVE  /\ \A l \in (1..Len(flight)) \ {i} : flight[l].op = "toggle" =>
              ~At("listing") /\ flight[l].good # flight[i].good
         /\ \A x \in Left({i}) : x.op = "toggle" =>
              ~At("listing") /\ x.good # flight[i].good
<1>1. i \in 1..Len(flight) /\ Pressed
  BY HeartRequest DEF HeartInv
<1>2. \A l \in (1..Len(flight)) \ {i} : flight[l].op = "toggle" =>
        ~At("listing") /\ flight[l].good # flight[i].good
  BY <1>1 DEF Pressed
<1> QED
  BY <1>2 DEF Left

\* The server adds a favourite, or removes one.
LEMMA ServedHeartInv ==
  ASSUME HeartInv, NEW i \in DOMAIN flight, AddFavorite(i) \/ RemoveFavorite(i)
  PROVE  HeartInv'
<1> DEFINE q == flight[i]
           r == [q EXCEPT !.phase = "done"]
           Q == Left({i})
           favs == IF q.add THEN server.favs \cup {q.good} ELSE server.favs \ {q.good}
<1>1. /\ flight \in Seq(ListingRequests) /\ i \in 1..Len(flight) /\ Pressed
      /\ q \in [op : {"toggle", "drop"}, phase : {"sent", "done"}, good : Goods,
                add : BOOLEAN]
      /\ UNCHANGED <<ui, past>> /\ Return(i, r) /\ q.phase = "sent"
      /\ Left({}) = Q \cup {q}
      /\ server \in [favs : SUBSET Goods] /\ past \in ListingPast /\ ui \in ListingUI
      /\ q.op = "drop" => ~q.add
  BY HeartRequest DEF HeartInv, ListingTypeOK, AddFavorite, RemoveFavorite
<1>2. server' = [favs |-> favs]
  BY DEF AddFavorite, RemoveFavorite
<1>3. favs \in SUBSET Goods
  BY <1>1
<1>4. /\ r \in ListingRequests /\ r.op = q.op /\ r.phase = "done" /\ r.good = q.good
      /\ r.add = q.add
  BY <1>1 DEF ListingRequests
<1>5. q.op = "toggle" =>
        /\ \A l \in (1..Len(flight)) \ {i} : flight[l].op = "toggle" =>
             ~At("listing") /\ flight[l].good # q.good
        /\ \A x \in Q : x.op = "toggle" => ~At("listing") /\ x.good # q.good
  BY OtherClicks
<1>6. /\ q.op = "drop" => Favourites
      /\ q.op = "toggle" => q.good \in ui.toggling
      /\ \A l \in (1..Len(flight)) \ {i} :
           flight[l].op = "toggle" => flight[l].good \in ui'.toggling
  BY <1>1 DEF Pressed
<1>7. /\ q.op \in {"toggle", "drop"} /\ q.good \in Goods /\ q.add \in BOOLEAN
      /\ favs = IF q.add THEN server.favs \cup {q.good} ELSE server.favs \ {q.good}
  BY <1>1
<1>8. past.odd = {} =>
        /\ At("listing") => OnListing(Q \cup {q}, ui, server.favs)
        /\ Favourites => OnLists(Q \cup {q}, ui, server.favs)
        /\ At("cards") \/ At("seller") => OnCards(Q \cup {q}, ui, server.favs, past.told)
  BY <1>1 DEF HeartInv
<1>9. \A x \in Q : x.phase \in {"sent", "done"}
  BY LeftTyped
<1> HIDE DEF r, q, Q, favs
<1>10. flight' \in Seq(ListingRequests) /\ Exchanged({i}, {r})
  BY <1>1, <1>4, ReturnedExchange
<1>11. Pressed'
  BY <1>1, <1>4, <1>5, <1>6, <1>7, <1>10, PressedNext, SMTT(30)
<1>12. ASSUME At("listing"), OnListing(Q \cup {q}, ui, server.favs)
       PROVE  OnListing(Q \cup {r}, ui, favs)
  <2>1. q.op = "toggle" /\ \A x \in Q : x.op # "toggle"
    BY <1>5, <1>6, <1>7, <1>12 DEF At, Favourites
  <2>2. ~ui.due /\ ui.signedIn /\ \A x \in Q : x.op # "favs"
    BY <1>1, <1>12, <2>1 DEF OnListing, ListingUI
  <2>3. Wished(q, ui.hearts, server.favs)
    BY <1>1, <1>12, <2>1, <2>2 DEF OnListing
  <2>4. ui.hearts = favs
    BY <1>7, <2>3 DEF Wished
  <2> QED
    BY <1>4, <2>1, <2>2, <2>4 DEF OnListing, Fetched
<1>13. ASSUME OnLists(Q \cup {q}, ui, server.favs) PROVE OnLists(Q \cup {r}, ui, favs)
  <2>1. ~ui.loading /\ \A x \in Q : x.op # "favs"
    BY <1>7, <1>13 DEF OnLists
  <2>2. \A g : Dropping(Q \cup {q}, g) <=> Dropping(Q \cup {r}, g)
    BY <1>4 DEF Dropping
  <2>3. /\ \A g : g # q.good => (WillDrop(Q \cup {q}, g) <=> WillDrop(Q \cup {r}, g))
        /\ q.op = "toggle" => WillDrop(Q \cup {r}, q.good)
        /\ q.op = "drop" => Dropping(Q \cup {r}, q.good) /\ q.good \notin favs
    BY <1>1, <1>4, <1>7 DEF WillDrop, Dropping
  <2>4. \A g \in ui.shown \ favs :
          Dropping(Q \cup {r}, g) \/ WillDrop(Q \cup {r}, g)
    <3> SUFFICES ASSUME NEW g \in ui.shown \ favs
                 PROVE  Dropping(Q \cup {r}, g) \/ WillDrop(Q \cup {r}, g)
      OBVIOUS
    <3>1. CASE g = q.good
      BY <1>7, <2>3, <3>1
    <3>2. CASE g # q.good
      <4>1. g \in ui.shown \ server.favs
        BY <1>7, <3>2
      <4> QED
        BY <1>13, <2>1, <2>2, <2>3, <3>2, <4>1 DEF OnLists
    <3> QED
      BY <3>1, <3>2
  <2>5. \A g \in favs : g \notin ui.shown \/ Dropping(Q \cup {r}, g) =>
          WillDrop(Q \cup {r}, g)
    <3> SUFFICES ASSUME NEW g \in favs, g \notin ui.shown \/ Dropping(Q \cup {r}, g)
                 PROVE  WillDrop(Q \cup {r}, g)
      OBVIOUS
    <3>1. CASE g = q.good
      BY <1>7, <2>3, <3>1
    <3>2. CASE g # q.good
      <4>1. g \in server.favs
        BY <1>7, <3>2
      <4> QED
        BY <1>13, <2>1, <2>2, <2>3, <3>2, <4>1 DEF OnLists
    <3> QED
      BY <3>1, <3>2
  <2>6. \A g \in ui.shown \ ui.hearts : Dropping(Q \cup {r}, g)
    BY <1>13, <2>1, <2>2 DEF OnLists
  <2>7. \A x \in Q \cup {r} : x.op # "favs"
    BY <1>4, <1>7, <2>1
  <2> QED
    BY <2>1, <2>4, <2>5, <2>6, <2>7 DEF OnLists
<1>14. ASSUME At("cards") \/ At("seller"), OnCards(Q \cup {q}, ui, server.favs, past.told)
       PROVE  OnCards(Q \cup {r}, ui, favs, past.told)
  <2>1. q.op = "toggle" /\ \A x \in Q : x.op = "toggle" => x.good # q.good
    BY <1>5, <1>6, <1>7, <1>14 DEF At, Favourites
  <2>2. \A x \in Q \cup {r} : x.op = "toggle" /\ x.phase = "done" =>
          (x.add <=> x.good \in favs)
    BY <1>4, <1>7, <1>14, <2>1 DEF OnCards
  <2>3. ASSUME NEW g \in past.told,
               \A x \in Q \cup {r} : x.op = "toggle" /\ x.good = g => x.phase = "sent"
        PROVE  g \in ui.hearts <=> g \in favs
    <3>1. g # q.good
      BY <1>4, <2>1, <2>3
    <3>2. \A x \in Q \cup {q} : x.op = "toggle" /\ x.good = g => x.phase = "sent"
      BY <2>3, <3>1
    <3>3. g \in ui.hearts <=> g \in server.favs
      BY <1>14, <3>2 DEF OnCards
    <3> QED
      BY <1>7, <3>1, <3>3
  <2> QED
    BY <2>2, <2>3 DEF OnCards
<1> QED
  BY <1>1, <1>2, <1>3, <1>8, <1>10, <1>11, <1>12, <1>13, <1>14, HeartNext DEF Q

\* What is answered is under way no more, and the disabled hearts stay so.
LEMMA LandPressed ==
  ASSUME HeartInv, NEW i \in DOMAIN flight, Land(i), ui'.at = ui.at,
         ui'.toggling = ui.toggling
  PROVE  /\ flight' \in Seq(ListingRequests) /\ Exchanged({i}, {}) /\ Pressed'
<1>1. flight \in Seq(ListingRequests) /\ i \in 1..Len(flight) /\ Pressed
  BY HeartRequest DEF HeartInv
<1>2. flight' \in Seq(ListingRequests) /\ Exchanged({i}, {})
  BY <1>1, LandedExchange
<1>3. \A l \in (1..Len(flight)) \ {i} :
        flight[l].op = "toggle" => flight[l].good \in ui'.toggling
  BY <1>1 DEF Pressed
<1> QED
  BY <1>1, <1>2, <1>3, PressedNext

\* A step that leaves an oddity behind has nothing else to explain.
LEMMA OddInv ==
  ASSUME HeartInv, NEW i \in DOMAIN flight, HeartUnknown(i) \/ RemoveFailed(i)
  PROVE  HeartInv'
<1>1. ui \in ListingUI /\ past \in ListingPast /\ server \in [favs : SUBSET Goods]
      /\ UNCHANGED server /\ Land(i)
  BY DEF HeartInv, ListingTypeOK, HeartUnknown, RemoveFailed
<1>2. ui' \in ListingUI /\ ui'.at = ui.at /\ ui'.toggling = ui.toggling
  <2>1. CASE HeartUnknown(i)
    BY <1>1, <2>1 DEF HeartUnknown
  <2>2. CASE RemoveFailed(i)
    <3> DEFINE error == ui.error \/ At("favorites")
    <3>1. ui' = [ui EXCEPT !.error = error] /\ error \in BOOLEAN
      BY <1>1, <2>2 DEF RemoveFailed, ListingUI
    <3> HIDE DEF error
    <3> QED
      BY <1>1, <3>1 DEF ListingUI
  <2> QED
    BY <2>1, <2>2
<1>3. /\ past' \in ListingPast /\ past.odd \subseteq past'.odd /\ past'.odd # {}
  BY <1>1 DEF HeartUnknown, RemoveFailed, ListingPast
<1>4. flight' \in Seq(ListingRequests) /\ Exchanged({i}, {}) /\ Pressed'
  BY <1>1, <1>2, LandPressed
<1> QED
  BY <1>1, <1>2, <1>3, <1>4, HeartNext

\* The favourites arrive.
LEMMA HeartLoadedInv ==
  ASSUME HeartInv, NEW i \in DOMAIN flight, HeartLoaded(i) \/ FavoritesLoaded(i)
  PROVE  HeartInv'
<1> DEFINE q == flight[i]
           Q == Left({i})
           ok == q.phase = "done"
           error == ~ok
           shown == IF ok THEN q.favs ELSE ui.shown
           hearts == IF ok THEN q.favs ELSE ui.hearts
           odd == IF ok THEN past.odd ELSE past.odd \cup {"blind"}
<1>1. /\ ui \in ListingUI /\ past \in ListingPast /\ server \in [favs : SUBSET Goods]
      /\ UNCHANGED server /\ Land(i) /\ Pressed /\ i \in 1..Len(flight)
      /\ q \in [op : {"favs"}, phase : {"sent", "done"}, favs : SUBSET Goods]
      /\ Left({}) = Q \cup {q}
  BY HeartRequest DEF HeartInv, ListingTypeOK, HeartLoaded, FavoritesLoaded, Untold
<1>2. q.favs \in SUBSET Goods /\ q.op = "favs"
  BY <1>1
<1>3. CASE HeartLoaded(i)
  <2>1. /\ ui' = [ui EXCEPT !.hearts = q.favs] /\ UNCHANGED past /\ ok /\ At("listing")
    BY <1>3 DEF HeartLoaded, Untold
  <2>2. ~Favourites /\ ~At("cards") /\ ~At("seller")
    BY <2>1 DEF Favourites, At
  <2>3. past.odd = {} => OnListing(Q \cup {q}, ui, server.favs)
    BY <1>1, <2>1 DEF HeartInv
  <2> HIDE DEF q, Q
  <2>4. /\ ui' \in ListingUI /\ ui'.at = ui.at /\ ui'.toggling = ui.toggling
        /\ ui'.hearts = q.favs /\ ui'.due = ui.due /\ ui'.signedIn = ui.signedIn
    BY <1>1, <1>2, <2>1 DEF ListingUI
  <2>5. flight' \in Seq(ListingRequests) /\ Exchanged({i}, {}) /\ Pressed'
    BY <1>1, <2>4, LandPressed
  <2>6. past.odd = {} => OnListing(Q \cup {}, ui', server'.favs)
    <3> SUFFICES ASSUME past.odd = {} PROVE OnListing(Q, ui', server.favs)
      BY <1>1
    <3>1. q.favs = server.favs /\ Fetched(Q, server.favs)
      BY <1>2, <2>1, <2>3 DEF OnListing, Fetched
    <3>2. \A x \in Q : x.op # "toggle"
      BY <1>2, <2>3 DEF OnListing
    <3> QED
      BY <2>4, <3>1, <3>2 DEF OnListing
  <2> QED
    BY <1>1, <2>1, <2>2, <2>4, <2>5, <2>6, HeartNext DEF Q
<1>4. CASE FavoritesLoaded(i)
  <2>1. /\ ui' = [ui EXCEPT !.loading = FALSE, !.error = error, !.shown = shown,
                            !.hearts = hearts]
        /\ past' = [past EXCEPT !.odd = odd] /\ Favourites
    BY <1>4 DEF FavoritesLoaded
  <2>2. ~At("listing") /\ ~At("cards") /\ ~At("seller")
    BY <2>1 DEF Favourites, At
  <2>3. /\ error \in BOOLEAN /\ shown \in SUBSET Goods /\ hearts \in SUBSET Goods
        /\ odd \in SUBSET {"lost", "crossed", "blind", "kept"} /\ past.odd \subseteq odd
        /\ odd = {} => ok /\ shown = q.favs /\ hearts = q.favs
    BY <1>1, <1>2 DEF ListingUI, ListingPast
  <2>4. past.odd = {} => OnLists(Q \cup {q}, ui, server.favs)
    BY <1>1, <2>1 DEF HeartInv
  <2>5. \A x \in Q : x.op # "favs"
    BY <1>1, <1>2, <2>1 DEF Pressed, Left
  <2> HIDE DEF q, Q, error, shown, hearts, odd
  <2>6. /\ ui' \in ListingUI /\ ui'.at = ui.at /\ ui'.toggling = ui.toggling
        /\ ui'.hearts = hearts /\ ui'.shown = shown /\ ~ui'.loading
    BY <1>1, <2>1, <2>3 DEF ListingUI
  <2>7. /\ past' \in ListingPast /\ past'.odd = odd
    BY <1>1, <2>1, <2>3 DEF ListingPast
  <2>8. flight' \in Seq(ListingRequests) /\ Exchanged({i}, {}) /\ Pressed'
    BY <1>1, <2>6, LandPressed
  <2>9. odd = {} => OnLists(Q \cup {}, ui', server'.favs)
    <3> SUFFICES ASSUME odd = {} PROVE OnLists(Q, ui', server.favs)
      BY <1>1
    <3>1. ui.loading
      BY <1>2, <2>3, <2>4 DEF OnLists
    <3>2. q.favs = server.favs /\ \A x \in Q : x.op \notin {"toggle", "drop"}
      BY <1>2, <2>3, <2>4, <3>1 DEF OnLists, Fetched
    <3>3. ui'.shown = server.favs /\ ui'.hearts = server.favs
      BY <2>3, <2>6, <3>2
    <3>4. \A g : ~Dropping(Q, g)
      BY <3>2 DEF Dropping
    <3> QED
      BY <2>5, <2>6, <3>3, <3>4 DEF OnLists
  <2> QED
    BY <1>1, <2>1, <2>2, <2>3, <2>6, <2>7, <2>8, <2>9, HeartNext DEF Q
<1> QED
  BY <1>3, <1>4

\* The click of the page of a listing is answered, or failed and is rolled back.
LEMMA ToggleEndedInv ==
  ASSUME HeartInv, NEW i \in DOMAIN flight, ToggleAnswered(i) \/ ToggleFailed(i)
  PROVE  HeartInv'
<1> DEFINE q == flight[i]
           Q == Left({i})
           hearts == IF ToggleAnswered(i) THEN ui.hearts ELSE RolledBack(q)
           odd == IF ~ToggleAnswered(i) /\ q.phase = "done" THEN past.odd \cup {"lost"}
                                                            ELSE past.odd
<1>1. /\ ui \in ListingUI /\ past \in ListingPast /\ server \in [favs : SUBSET Goods]
      /\ flight \in Seq(ListingRequests) /\ i \in 1..Len(flight)
      /\ UNCHANGED server /\ Land(i) /\ Pressed /\ At("listing")
      /\ q \in [op : {"toggle", "drop"}, phase : {"sent", "done"}, good : Goods,
                add : BOOLEAN]
      /\ q.op = "toggle" /\ Left({}) = Q \cup {q}
  BY HeartRequest DEF HeartInv, ListingTypeOK, ToggleAnswered, ToggleFailed, Untold
<1>2. ~Favourites /\ ~At("cards") /\ ~At("seller")
  BY <1>1 DEF Favourites, At
<1>3. /\ \A l \in (1..Len(flight)) \ {i} : flight[l].op # "toggle"
      /\ \A x \in Q : x.op # "toggle"
  BY <1>1, OtherClicks
<1>4. ui' = [ui EXCEPT !.toggling = {}, !.hearts = hearts]
  <2>1. CASE ToggleAnswered(i)
    BY <1>1, <2>1 DEF ToggleAnswered, ListingUI
  <2>2. CASE ~ToggleAnswered(i)
    BY <2>2 DEF ToggleFailed
  <2> QED
    BY <2>1, <2>2
<1>5. past' = [past EXCEPT !.odd = odd]
  <2>1. CASE ToggleAnswered(i)
    BY <1>1, <2>1 DEF ToggleAnswered, Untold, ListingPast
  <2>2. CASE ~ToggleAnswered(i)
    BY <2>2 DEF ToggleFailed
  <2> QED
    BY <2>1, <2>2
<1>6. /\ hearts \in SUBSET Goods
      /\ odd \in SUBSET {"lost", "crossed", "blind", "kept"} /\ past.odd \subseteq odd
  BY <1>1 DEF ListingUI, ListingPast, RolledBack
<1>7. odd = {} => \/ q.phase = "done" /\ hearts = ui.hearts
                  \/ q.phase = "sent" /\ hearts = RolledBack(q)
  BY <1>1 DEF ToggleAnswered
<1>8. past.odd = {} => OnListing(Q \cup {q}, ui, server.favs)
  BY <1>1 DEF HeartInv
<1>9. Wished(q, ui.hearts, server.favs) => RolledBack(q) = server.favs
  BY <1>1 DEF Wished, RolledBack
<1> HIDE DEF q, Q, hearts, odd
<1>10. /\ ui' \in ListingUI /\ ui'.at = ui.at /\ ui'.toggling = {} /\ ui'.hearts = hearts
       /\ ui'.due = ui.due /\ ui'.signedIn = ui.signedIn
  BY <1>1, <1>4, <1>6 DEF ListingUI
<1>11. past' \in ListingPast /\ past'.odd = odd
  BY <1>1, <1>5, <1>6 DEF ListingPast
<1>12. flight' \in Seq(ListingRequests) /\ Exchanged({i}, {})
  BY <1>1, LandedExchange
<1>13. Pressed'
  BY <1>1, <1>3, <1>10, <1>12, PressedNext
<1>14. odd = {} => OnListing(Q \cup {}, ui', server'.favs)
  <2> SUFFICES ASSUME odd = {} PROVE OnListing(Q, ui', server.favs)
    BY <1>1
  <2>1. /\ OnListing(Q \cup {q}, ui, server.favs) /\ Fetched(Q, server.favs)
        /\ ~ui.due /\ ui.signedIn /\ \A x \in Q : x.op # "favs"
    BY <1>1, <1>6, <1>8 DEF OnListing, Fetched, ListingUI
  <2>2. hearts = server.favs
    BY <1>1, <1>3, <1>7, <1>9, <2>1 DEF OnListing
  <2> QED
    BY <1>3, <1>10, <2>1, <2>2 DEF OnListing
<1> QED
  BY <1>1, <1>2, <1>6, <1>10, <1>11, <1>12, <1>13, <1>14, HeartNext DEF Q

\* The click on a card failed: the heart stays.
LEMMA ClickFailedInv ==
  ASSUME HeartInv, NEW i \in DOMAIN flight, ClickFailed(i)
  PROVE  HeartInv'
<1> DEFINE q == flight[i]
           Q == Left({i})
           toggling == ui.toggling \ {q.good}
           odd == IF q.phase = "done" THEN past.odd \cup {"lost"} ELSE past.odd
<1>1. /\ ui \in ListingUI /\ past \in ListingPast /\ server \in [favs : SUBSET Goods]
      /\ flight \in Seq(ListingRequests) /\ i \in 1..Len(flight)
      /\ UNCHANGED server /\ Land(i) /\ Pressed /\ ~At("listing")
      /\ q \in [op : {"toggle", "drop"}, phase : {"sent", "done"}, good : Goods,
                add : BOOLEAN]
      /\ q.op = "toggle" /\ Left({}) = Q \cup {q}
  BY HeartRequest DEF HeartInv, ListingTypeOK, ClickFailed
<1>2. /\ \A l \in (1..Len(flight)) \ {i} : flight[l].op = "toggle" => flight[l].good # q.good
      /\ \A x \in Q : x.op = "toggle" => x.good # q.good
  BY <1>1, OtherClicks
<1>3. /\ ui' = [ui EXCEPT !.toggling = toggling]
      /\ past' = [past EXCEPT !.odd = odd]
  BY DEF ClickFailed
<1>4. /\ toggling \in SUBSET Goods
      /\ odd \in SUBSET {"lost", "crossed", "blind", "kept"} /\ past.odd \subseteq odd
      /\ odd = {} => q.phase = "sent"
      /\ \A l \in (1..Len(flight)) \ {i} : flight[l].op = "toggle" =>
           flight[l].good \in toggling
  BY <1>1, <1>2 DEF ListingUI, ListingPast, Pressed
<1>5. past.odd = {} =>
        /\ Favourites => OnLists(Q \cup {q}, ui, server.favs)
        /\ At("cards") \/ At("seller") => OnCards(Q \cup {q}, ui, server.favs, past.told)
  BY <1>1 DEF HeartInv
<1> HIDE DEF q, Q, toggling, odd
<1>6. /\ ui' \in ListingUI /\ ui'.at = ui.at /\ ui'.toggling = toggling
      /\ ui'.hearts = ui.hearts /\ ui'.shown = ui.shown /\ ui'.loading = ui.loading
  BY <1>1, <1>3, <1>4 DEF ListingUI
<1>7. past' \in ListingPast /\ past'.odd = odd /\ past'.told = past.told
  BY <1>1, <1>3, <1>4 DEF ListingPast
<1>8. flight' \in Seq(ListingRequests) /\ Exchanged({i}, {})
  BY <1>1, LandedExchange
<1>9. Pressed'
  BY <1>1, <1>4, <1>6, <1>8, PressedNext
<1>10. odd = {} /\ Favourites => OnLists(Q, ui', server'.favs)
  <2> SUFFICES ASSUME odd = {}, Favourites PROVE OnLists(Q, ui', server.favs)
    BY <1>1
  <2>1. OnLists(Q \cup {q}, ui, server.favs) /\ q.phase = "sent"
    BY <1>4, <1>5
  <2>2. \A g : /\ Dropping(Q \cup {q}, g) <=> Dropping(Q, g)
               /\ WillDrop(Q \cup {q}, g) <=> WillDrop(Q, g)
    BY <1>1, <2>1 DEF Dropping, WillDrop
  <2> QED
    BY <1>1, <1>6, <2>1, <2>2 DEF OnLists
<1>11. odd = {} /\ (At("cards") \/ At("seller")) =>
         OnCards(Q, ui', server'.favs, past'.told)
  <2> SUFFICES ASSUME odd = {}, At("cards") \/ At("seller")
               PROVE  OnCards(Q, ui', server.favs, past.told)
    BY <1>1, <1>7
  <2>1. OnCards(Q \cup {q}, ui, server.favs, past.told) /\ q.phase = "sent"
    BY <1>4, <1>5
  <2> QED
    BY <1>6, <2>1 DEF OnCards
<1>12. Q \cup {} = Q
  OBVIOUS
<1> QED
  BY <1>1, <1>4, <1>6, <1>7, <1>8, <1>9, <1>10, <1>11, <1>12, HeartNext DEF Q

\* The click on a card is answered: the heart shows it, a list removes the listing.
LEMMA ClickAnsweredInv ==
  ASSUME HeartInv, NEW i \in DOMAIN flight, ClickAnswered(i)
  PROVE  HeartInv'
<1> DEFINE q == flight[i]
           Q == Left({i})
           good == q.good
           toggling == ui.toggling \ {good}
           hearts == IF q.add THEN ui.hearts \cup {good} ELSE ui.hearts \ {good}
           shown == IF At("watchlist") THEN ui.shown \ {good} ELSE ui.shown
           told == past.told \cup {good}
           d == ToggleFavorite("drop", good, FALSE)
<1>1. /\ ui \in ListingUI /\ past \in ListingPast /\ server \in [favs : SUBSET Goods]
      /\ flight \in Seq(ListingRequests) /\ i \in 1..Len(flight)
      /\ UNCHANGED server /\ Pressed /\ ~At("listing")
      /\ q \in [op : {"toggle", "drop"}, phase : {"sent", "done"}, good : Goods,
                add : BOOLEAN]
      /\ q.op = "toggle" /\ q.phase = "done" /\ Left({}) = Q \cup {q}
  BY HeartRequest DEF HeartInv, ListingTypeOK, ClickAnswered
<1>2. /\ \A l \in (1..Len(flight)) \ {i} : flight[l].op = "toggle" => flight[l].good # good
      /\ \A x \in Q : x.op = "toggle" => x.good # good
  BY <1>1, OtherClicks
<1>3. /\ ui' = [ui EXCEPT !.toggling = toggling, !.hearts = hearts, !.shown = shown]
      /\ past' = [past EXCEPT !.told = told]
  BY DEF ClickAnswered
<1>4. good \in Goods
  BY <1>1
<1>5. /\ toggling \in SUBSET Goods /\ hearts \in SUBSET Goods /\ shown \in SUBSET Goods
      /\ told \in SUBSET Goods
      /\ \A l \in (1..Len(flight)) \ {i} : flight[l].op = "toggle" =>
           flight[l].good \in toggling
  BY <1>1, <1>2, <1>4 DEF ListingUI, ListingPast, Pressed
<1>6. /\ \A g : g # good => (g \in hearts <=> g \in ui.hearts)
      /\ good \in hearts <=> q.add
      /\ shown \subseteq ui.shown
      /\ \A g : g # good => (g \in shown <=> g \in ui.shown)
      /\ \A g \in told : g = good \/ g \in past.told
  BY <1>1
<1>7. /\ d \in ListingRequests /\ d.op = "drop" /\ d.phase = "sent" /\ d.good = good
  BY <1>4 DEF ToggleFavorite, ListingRequests
<1>8. /\ Favourites => flight' = RemoveAt(flight, i) \o <<d>>
      /\ ~Favourites => flight' = RemoveAt(flight, i) \o <<>>
  BY DEF ClickAnswered
<1>9. past.odd = {} =>
        /\ Favourites => OnLists(Q \cup {q}, ui, server.favs)
        /\ At("cards") \/ At("seller") => OnCards(Q \cup {q}, ui, server.favs, past.told)
  BY <1>1 DEF HeartInv
<1>10. /\ q.good = good
       /\ Favourites => ~At("cards") /\ ~At("seller")
  BY DEF Favourites, At
<1> HIDE DEF q, Q, good, toggling, hearts, shown, told, d
<1>11. /\ ui' \in ListingUI /\ ui'.at = ui.at /\ ui'.toggling = toggling
       /\ ui'.hearts = hearts /\ ui'.shown = shown /\ ui'.loading = ui.loading
  BY <1>1, <1>3, <1>5 DEF ListingUI
<1>12. /\ past' \in ListingPast /\ past'.odd = past.odd /\ past'.told = told
  BY <1>1, <1>3, <1>5 DEF ListingPast
<1>13. CASE Favourites
  <2>1. flight' \in Seq(ListingRequests) /\ Exchanged({i}, {d})
    BY <1>1, <1>7, <1>8, <1>13, FollowedExchange
  <2>2. Pressed'
    BY <1>1, <1>5, <1>7, <1>11, <1>13, <2>1, PressedNext
  <2>3. past.odd = {} => OnLists(Q \cup {d}, ui', server'.favs)
    <3> SUFFICES ASSUME past.odd = {} PROVE OnLists(Q \cup {d}, ui', server.favs)
      BY <1>1
    <3>1. OnLists(Q \cup {q}, ui, server.favs)
      BY <1>9, <1>13
    <3>2. ~ui.loading /\ \A x \in Q \cup {d} : x.op # "favs"
      BY <1>1, <1>7, <3>1 DEF OnLists
    <3>3. \A g : g # good =>
            /\ Dropping(Q \cup {q}, g) <=> Dropping(Q \cup {d}, g)
            /\ WillDrop(Q \cup {q}, g) <=> WillDrop(Q \cup {d}, g)
      BY <1>7, <1>10 DEF Dropping, WillDrop
    <3>4. Dropping(Q \cup {d}, good) /\ WillDrop(Q \cup {d}, good)
      BY <1>7 DEF Dropping, WillDrop
    <3>5. /\ \A g \in shown \ server.favs :
               Dropping(Q \cup {d}, g) \/ WillDrop(Q \cup {d}, g)
          /\ \A g \in shown \ hearts : Dropping(Q \cup {d}, g)
          /\ \A g \in server.favs : g \notin shown \/ Dropping(Q \cup {d}, g) =>
               WillDrop(Q \cup {d}, g)
      BY <1>6, <3>1, <3>2, <3>3, <3>4 DEF OnLists
    <3> QED
      BY <1>11, <3>2, <3>5 DEF OnLists
  <2> QED
    BY <1>1, <1>10, <1>11, <1>12, <1>13, <2>1, <2>2, <2>3, HeartNext DEF Q
<1>14. CASE ~Favourites
  <2>1. RemoveAt(flight, i) \in Seq(ListingRequests)
    BY <1>1, RemoveAtFacts
  <2>2. RemoveAt(flight, i) \o <<>> = RemoveAt(flight, i)
    BY <2>1, ConcatEmptySeq
  <2>3. flight' \in Seq(ListingRequests) /\ Exchanged({i}, {})
    BY <1>1, <1>8, <1>14, <2>2, LandedExchange DEF Land
  <2>4. Pressed'
    BY <1>1, <1>5, <1>11, <2>3, PressedNext
  <2>5. past.odd = {} /\ (At("cards") \/ At("seller")) =>
          OnCards(Q, ui', server'.favs, past'.told)
    <3> SUFFICES ASSUME past.odd = {}, At("cards") \/ At("seller")
                 PROVE  OnCards(Q, ui', server.favs, told)
      BY <1>1, <1>12
    <3>1. OnCards(Q \cup {q}, ui, server.favs, past.told)
      BY <1>9
    <3>2. good \in hearts <=> good \in server.favs
      BY <1>1, <1>6, <1>10, <3>1 DEF OnCards
    <3>3. ASSUME NEW g \in told, g # good,
                 \A x \in Q : x.op = "toggle" /\ x.good = g => x.phase = "sent"
          PROVE  g \in hearts <=> g \in server.favs
      <4>1. \A x \in Q \cup {q} : x.op = "toggle" /\ x.good = g => x.phase = "sent"
        BY <1>10, <3>3
      <4>2. g \in past.told
        BY <1>6, <3>3
      <4> QED
        BY <1>6, <3>1, <3>3, <4>1, <4>2 DEF OnCards
    <3>4. \A x \in Q : x.op = "toggle" /\ x.phase = "done" =>
            (x.add <=> x.good \in server.favs)
      BY <3>1 DEF OnCards
    <3> QED
      BY <1>11, <3>2, <3>3, <3>4 DEF OnCards
  <2>6. Q \cup {} = Q
    OBVIOUS
  <2> QED
    BY <1>1, <1>11, <1>12, <1>14, <2>3, <2>4, <2>5, <2>6, HeartNext DEF Q
<1> QED
  BY <1>13, <1>14

\* A list forgets what was removed.
LEMMA HandleRemoveFavoriteInv ==
  ASSUME HeartInv, NEW i \in DOMAIN flight, HandleRemoveFavorite(i)
  PROVE  HeartInv'
<1> DEFINE q == flight[i]
           Q == Left({i})
           shown == ui.shown \ {q.good}
<1>1. /\ ui \in ListingUI /\ server' \in [favs : SUBSET Goods] /\ past' \in ListingPast
      /\ UNCHANGED <<server, past>> /\ Land(i) /\ Favourites
      /\ q.op = "drop" /\ q.phase = "done" /\ Left({}) = Q \cup {q}
  BY HeartRequest DEF HeartInv, ListingTypeOK, HandleRemoveFavorite, Untold
<1>2. ~At("listing") /\ ~At("cards") /\ ~At("seller")
  BY <1>1 DEF Favourites, At
<1>3. ui' = [ui EXCEPT !.shown = shown]
  BY DEF HandleRemoveFavorite
<1>4. /\ shown \in SUBSET Goods /\ q.good \notin shown /\ shown \subseteq ui.shown
      /\ \A g : g # q.good => (g \in shown <=> g \in ui.shown)
  BY <1>1 DEF ListingUI
<1>5. past.odd = {} => OnLists(Q \cup {q}, ui, server.favs)
  BY <1>1 DEF HeartInv
<1> HIDE DEF q, Q, shown
<1>6. /\ ui' \in ListingUI /\ ui'.at = ui.at /\ ui'.toggling = ui.toggling
      /\ ui'.hearts = ui.hearts /\ ui'.shown = shown /\ ui'.loading = ui.loading
  BY <1>1, <1>3, <1>4 DEF ListingUI
<1>7. flight' \in Seq(ListingRequests) /\ Exchanged({i}, {}) /\ Pressed'
  BY <1>1, <1>6, LandPressed
<1>8. past.odd = {} => OnLists(Q \cup {}, ui', server'.favs)
  <2> SUFFICES ASSUME past.odd = {} PROVE OnLists(Q, ui', server.favs)
    BY <1>1
  <2>1. OnLists(Q \cup {q}, ui, server.favs)
    BY <1>5
  <2>2. ~ui.loading /\ \A x \in Q : x.op # "favs"
    BY <1>1, <2>1 DEF OnLists
  <2>3. \A g : /\ WillDrop(Q \cup {q}, g) <=> WillDrop(Q, g)
               /\ g # q.good => (Dropping(Q \cup {q}, g) <=> Dropping(Q, g))
               /\ Dropping(Q, g) => Dropping(Q \cup {q}, g)
    BY <1>1 DEF Dropping, WillDrop
  <2>4. Dropping(Q \cup {q}, q.good)
    BY <1>1 DEF Dropping
  <2>5. /\ \A g \in shown \ server.favs : Dropping(Q, g) \/ WillDrop(Q, g)
        /\ \A g \in shown \ ui.hearts : Dropping(Q, g)
        /\ \A g \in server.favs : g \notin shown \/ Dropping(Q, g) => WillDrop(Q, g)
    BY <1>4, <2>1, <2>2, <2>3, <2>4 DEF OnLists
  <2> QED
    BY <1>6, <2>2, <2>5 DEF OnLists
<1> QED
  BY <1>1, <1>2, <1>6, <1>7, <1>8, HeartNext DEF Q

\* Every step of the pages keeps the invariant.
LEMMA ListingNextInv == HeartInv /\ [ListingNext]_pageVars => HeartInv'
<1> SUFFICES ASSUME HeartInv, [ListingNext]_pageVars PROVE HeartInv'
  OBVIOUS
<1>1. CASE UNCHANGED pageVars
  BY <1>1 DEF pageVars, HeartInv, ListingTypeOK, Pressed, OnListing, OnLists, OnCards,
     At, Favourites, Left
<1>2. CASE ListingNext
  BY <1>2, AskedInv, SessionInv, AnswerInv, ArrivedInv, SellerLoadedInv,
     FavoriteEffectInv, FavoritesEffectInv, HandleFavoriteToggleInv,
     HandleFavoriteClickInv, GetMineInv, ServedHeartInv, OddInv, HeartLoadedInv,
     ToggleEndedInv, ClickFailedInv, ClickAnsweredInv, HandleRemoveFavoriteInv
     DEF ListingNext
<1> QED
  BY <1>1, <1>2

\* With nothing under way nothing is left to explain.
LEMMA RestExplained == HeartInv => HeartExplained
<1> SUFFICES ASSUME HeartInv, flight = <<>>, ~ui.loading, ~ui.due, past.odd = {}
             PROVE  /\ At("listing") /\ ui.signedIn => ui.hearts = server.favs
                    /\ Favourites => ui.shown = server.favs /\ ui.shown \subseteq ui.hearts
                    /\ At("cards") \/ At("seller") =>
                         past.told \cap ui.hearts = past.told \cap server.favs
  BY DEF HeartExplained
<1>1. Left({}) = {}
  BY DEF Left
<1>2. /\ At("listing") => OnListing({}, ui, server.favs)
      /\ Favourites => OnLists({}, ui, server.favs)
      /\ At("cards") \/ At("seller") => OnCards({}, ui, server.favs, past.told)
  BY <1>1 DEF HeartInv
<1>3. OnListing({}, ui, server.favs) /\ ui.signedIn => ui.hearts = server.favs
  BY DEF OnListing
<1>4. OnLists({}, ui, server.favs) =>
        ui.shown = server.favs /\ ui.shown \subseteq ui.hearts
  <2>1. \A g : ~Dropping({}, g) /\ ~WillDrop({}, g)
    BY DEF Dropping, WillDrop
  <2>2. OnLists({}, ui, server.favs) =>
          /\ \A g \in ui.shown : g \in server.favs /\ g \in ui.hearts
          /\ \A g \in server.favs : g \in ui.shown
    BY <2>1 DEF OnLists
  <2> QED
    BY <2>2
<1>5. OnCards({}, ui, server.favs, past.told) =>
        past.told \cap ui.hearts = past.told \cap server.favs
  BY DEF OnCards
<1> QED
  BY <1>2, <1>3, <1>4, <1>5

\* HeartInv holds in every state of the pages that show listings.
LEMMA HeartInvariant == ListingSpec => []HeartInv
BY ListingInitInv, ListingNextInv, PTL DEF ListingSpec

-----------------------------------------------------------------------------
\* The state of the pages that show listings is of the kind they keep.
THEOREM ListingTyped == ListingSpec => []ListingTypeOK
<1>1. HeartInv => ListingTypeOK
  BY DEF HeartInv
<1> QED
  BY <1>1, HeartInvariant, PTL

\* Hearts and lists of favourites end up as the server keeps them, whatever is
\* clicked and in whatever order loads, clicks and removals are served, answered
\* or lost, but for the reasons past.odd records.
THEOREM HeartsStayExplained == ListingSpec => []HeartExplained
BY HeartInvariant, RestExplained, PTL
=============================================================================
