----------------------------- MODULE ChatProofs -----------------------------
(***************************************************************************)
(* For any number of calls and messages: the server does to the messages   *)
(* what ChatLog does, and read flags stick as long as calls do not overlap.*)
(*                                                                         *)
(* The invariant adds where a call is and whose message it is about        *)
(* (Phase), that a time on the clock is given to one call (OneSender), and *)
(* that a call by itself acts on what it has read (OneAtATime).  A step    *)
(* either moves one call and leaves the messages alone (MoveInv), or       *)
(* writes messages and leaves what the calls know alone (WriteInv).        *)
(***************************************************************************)
EXTENDS Chat, FiniteSetTheorems, WellFoundedInduction, TLAPS

\* A set of times has a greatest one.
LEMMA GreatestTime ==
  ASSUME NEW S \in SUBSET (0..MaxMessages), S # {}
  PROVE  Max(S) \in S /\ \A x \in S : Max(S) >= x
<1> DEFINE R == {p \in Nat \X Nat : p[1] < p[2]}
           T == {MaxMessages - x : x \in S}
<1> USE ChatAssumption
<1>1. IsWellFoundedOn(R, Nat)
  BY NatLessThanWellFounded DEF OpToRel
<1>2. T \subseteq Nat /\ T # {}
  <2>1. ASSUME NEW x \in S PROVE MaxMessages - x \in Nat
    OBVIOUS
  <2>2. PICK x \in S : TRUE
    OBVIOUS
  <2> QED
    BY <2>1, <2>2
<1>3. PICK t \in T : \A y \in T : <<y, t>> \notin R
  <2> HIDE DEF R, T
  <2> QED
    BY <1>1, <1>2, WFMin
<1>4. PICK x \in S : t = MaxMessages - x
  OBVIOUS
<1>5. ASSUME NEW y \in S PROVE x >= y
  <2>1. MaxMessages - y \in T /\ MaxMessages - y \in Nat /\ t \in Nat
    BY <1>2
  <2>2. ~(MaxMessages - y < t)
    BY <1>3, <2>1
  <2> QED
    BY <1>4, <2>2
<1> QED
  BY <1>5 DEF Max

\* The clock has been read once by each call that sends.
LEMMA ClockType ==
  ASSUME NEW S \in SUBSET Calls
  PROVE  IsFiniteSet(S) /\ Cardinality(S) \in Nat
<1>1. IsFiniteSet(S)
  BY FS_Subset, ChatAssumption
<1> QED
  BY <1>1, FS_CardinalityType

\* The clock stands still unless a call to send arrives.
LEMMA ClockStands ==
  ASSUME \A c \in Calls : call'[c].op = call[c].op
  PROVE  Clock' = Clock
<1>1. {c \in Calls : call'[c].op = "send"} = {c \in Calls : call[c].op = "send"}
  OBVIOUS
<1> QED
  BY <1>1 DEF Clock

\* The messages sent before the run have the first times of the clock.
LEMMA InitInv == Init => Inv
<1> SUFFICES ASSUME Init PROVE Inv
  OBVIOUS
<1> USE ChatAssumption
<1>1. PICK rows \in [1..Earlier -> [sender : Users, read : BOOLEAN]] :
        message = [m \in Messages |->
                     IF m <= Earlier
                     THEN [state |-> "there", sender |-> rows[m].sender,
                           read |-> rows[m].read]
                     ELSE [state |-> "none", sender |-> "buyer",
                           read |-> FALSE]]
  BY DEF Init
<1>2. ASSUME NEW m \in Messages
      PROVE  message[m] \in Rows /\ (message[m].state # "none" => m <= Earlier)
  BY <1>1, <1>2 DEF Messages, Rows, Users
<1>3. TypeOK
  <2>1. message \in [Messages -> Rows]
    BY <1>1, <1>2
  <2>2. Blank \in Handlers
    BY DEF Blank, Handlers, Users
  <2> QED
    BY <2>1, <2>2 DEF Init, TypeOK
<1>4. \A c \in Calls : Phase(c)
  BY DEF Init, Phase, InFlight, Blank
<1>5. Clock \in Nat /\ Clock > Earlier
  BY ClockType DEF Clock
<1>6. OneSender /\ OneAtATime
  BY <1>2, <1>5 DEF Init, OneSender, OneAtATime, Unsent, InFlight, Messages
<1> QED
  BY <1>3, <1>4, <1>6 DEF Inv

\* A call arrives: to send, it is given the time the clock shows, which no
\* message and no other call has.
LEMMA PostInv ==
  ASSUME Inv, NEW c \in Calls, NEW op \in {"send", "edit", "delete", "mark"},
         NEW u \in Users, NEW m \in Messages, Post(c, op, u, m)
  PROVE  Inv'
<1> DEFINE h == [call[c] EXCEPT !.op = op, !.user = u, !.msg = m]
           place == IF op = "send" THEN "touch" ELSE "look"
<1>1. /\ call' = [call EXCEPT ![c] = h]
      /\ pc' = [pc EXCEPT ![c] = place]
      /\ alone' = (alone /\ \A d \in Calls : ~InFlight(d))
      /\ UNCHANGED <<message, lastAt>>
      /\ pc[c] = "idle" /\ (op = "send" => m = Clock)
      /\ op # "send" => message[m].state # "none"
      /\ op \in {"edit", "delete"} => message[m].sender = u
  BY DEF Post, Goto
<1>2. TypeOK /\ Phase(c) /\ OneSender
  BY DEF Inv
<1>3. /\ h \in Handlers /\ h.op = op /\ h.user = u /\ h.msg = m
      /\ call[c].op = "none"
  <2>1. call[c] \in Handlers
    BY <1>2 DEF TypeOK
  <2>2. call[c].op = "none"
    BY <1>1, <1>2 DEF Phase, Blank
  <2> QED
    BY <2>1, <2>2 DEF Handlers
<1> HIDE DEF h
<1>4. TypeOK'
  BY <1>1, <1>2, <1>3 DEF TypeOK
<1>5. ASSUME NEW d \in Calls PROVE Phase(d)'
  <2>1. CASE d = c
    BY <1>1, <1>2, <1>3, <2>1 DEF TypeOK, Phase, InFlight
  <2>2. CASE d # c
    BY <1>1, <1>2, <2>2 DEF Inv, TypeOK, Phase, InFlight
  <2> QED
    BY <2>1, <2>2
<1>6. Clock \in Int /\ Clock' = IF op = "send" THEN Clock + 1 ELSE Clock
  <2> DEFINE S == {d \in Calls : call[d].op = "send"}
             T == {d \in Calls : call'[d].op = "send"}
  <2>1. IsFiniteSet(S) /\ Cardinality(S) \in Nat
    BY ClockType
  <2>2. T = IF op = "send" THEN S \cup {c} ELSE S
    BY <1>1, <1>2, <1>3 DEF TypeOK
  <2>3. c \notin S
    BY <1>3
  <2>4. Cardinality(T) = IF op = "send" THEN Cardinality(S) + 1 ELSE Cardinality(S)
    <3> HIDE DEF S, T
    <3> QED
      BY <2>1, <2>2, <2>3, FS_AddElement
  <2>5. Clock = Earlier + Cardinality(S) + 1 /\ Clock' = Earlier + Cardinality(T) + 1
    BY DEF Clock
  <2> HIDE DEF S, T
  <2> QED
    BY <2>1, <2>4, <2>5, ChatAssumption
<1>7. OneSender'
  <2>1. \A x \in Messages : message'[x].state # "none" => x < Clock'
    BY <1>1, <1>2, <1>6 DEF OneSender, Messages
  <2>2. ASSUME NEW d \in Calls, Unsent(d)'
        PROVE  IF d = c THEN op = "send" /\ call'[d].msg = Clock
               ELSE Unsent(d) /\ call'[d] = call[d]
    BY <1>1, <1>2, <1>3, <2>2 DEF TypeOK, Unsent
  <2>3. ASSUME NEW d \in Calls, Unsent(d)'
        PROVE  /\ call'[d].msg < Clock'
               /\ message'[call'[d].msg].state = "none"
    <3>1. CASE d = c
      BY <1>1, <1>2, <1>6, <2>2, <2>3, <3>1 DEF OneSender, Messages
    <3>2. CASE d # c
      <4>1. call[d].msg \in Int
        BY <1>2, ChatAssumption DEF TypeOK, Handlers, Messages
      <4> QED
        BY <1>1, <1>2, <1>6, <2>2, <2>3, <3>2, <4>1 DEF OneSender
    <3> QED
      BY <3>1, <3>2
  <2>4. ASSUME NEW d \in Calls, NEW e \in Calls \ {d}, Unsent(d)', Unsent(e)'
        PROVE  call'[e].msg # call'[d].msg
    <3>1. \A x \in Calls : call[x].msg \in Int
      BY <1>2, ChatAssumption DEF TypeOK, Handlers, Messages
    <3> QED
      BY <1>2, <1>6, <2>2, <2>4, <3>1 DEF OneSender
  <2> QED
    BY <2>1, <2>3, <2>4 DEF OneSender
<1>8. OneAtATime'
  <2> SUFFICES ASSUME alone', NEW d \in Calls, InFlight(d)'
               PROVE  /\ \A e \in Calls \ {d} : ~InFlight(e)'
                      /\ pc'[d] # "write"
    BY DEF OneAtATime
  <2> QED
    BY <1>1, <1>2 DEF TypeOK, InFlight
<1> QED
  BY <1>4, <1>5, <1>7, <1>8 DEF Inv

\* A call moves on and no message changes.
LEMMA MoveInv ==
  ASSUME Inv, NEW c \in Calls, InFlight(c), NEW h \in Handlers, NEW place,
         call' = [call EXCEPT ![c] = h], h.op = call[c].op,
         Goto(c, place), UNCHANGED <<message, alone>>,
         TypeOK', Phase(c)',
         Unsent(c)' => Unsent(c) /\ h.msg = call[c].msg,
         place = "write" => h.read = message[h.msg].read
  PROVE  Inv'
<1>1. pc' = [pc EXCEPT ![c] = place] /\ TypeOK
  BY DEF Goto, Inv
<1>2. \A d \in Calls \ {c} : pc'[d] = pc[d] /\ call'[d] = call[d]
  BY <1>1 DEF TypeOK
<1>3. pc'[c] = place /\ call'[c] = h
  BY <1>1 DEF TypeOK
<1>4. ASSUME NEW d \in Calls PROVE Phase(d)'
  BY <1>2 DEF Inv, Phase, InFlight
<1>5. Clock' = Clock
  BY <1>2, <1>3, ClockStands
<1>6. \A d \in Calls : Unsent(d)' => Unsent(d) /\ call'[d].msg = call[d].msg
  BY <1>2, <1>3 DEF Unsent
<1>7. OneSender'
  BY <1>5, <1>6 DEF Inv, OneSender
<1>8. OneAtATime'
  BY <1>2, <1>3 DEF Inv, OneAtATime, InFlight
<1> QED
  BY <1>4, <1>7, <1>8 DEF Inv

\* A call writes messages: it inserts at most the one it is about to send, and
\* leaves who sent the others.
LEMMA WriteInv ==
  ASSUME Inv, NEW c \in Calls, InFlight(c), NEW place \in {"tell", "latest"},
         Goto(c, place), UNCHANGED <<call, alone>>,
         TypeOK', Phase(c)',
         \A m \in Messages :
           IF message[m].state = "none"
           THEN message'[m].state # "none" => Unsent(c) /\ m = call[c].msg
           ELSE message'[m].state # "none" /\ message'[m].sender = message[m].sender
  PROVE  Inv'
<1>1. pc' = [pc EXCEPT ![c] = place] /\ TypeOK
  BY DEF Goto, Inv
<1>2. \A d \in Calls \ {c} : pc'[d] = pc[d]
  BY <1>1 DEF TypeOK
<1>3. pc'[c] = place
  BY <1>1 DEF TypeOK
<1>4. ASSUME NEW d \in Calls \ {c} PROVE Phase(d)'
  BY <1>2 DEF Inv, Phase, InFlight
<1>5. Clock' = Clock
  BY ClockStands
<1>6. \A d \in Calls : Unsent(d)' => d # c /\ Unsent(d)
  BY <1>2, <1>3 DEF Unsent
<1>7. ASSUME NEW d \in Calls, Unsent(d) PROVE call[d].msg \in Messages
  BY <1>7 DEF Inv, Phase, Unsent, InFlight
<1>8. OneSender'
  <2>1. \A m \in Messages : message'[m].state # "none" => m < Clock'
    BY <1>5 DEF Inv, OneSender
  <2>2. ASSUME NEW d \in Calls, Unsent(d)'
        PROVE  message'[call'[d].msg].state = "none"
    BY <1>6, <1>7, <2>2 DEF Inv, OneSender
  <2> QED
    BY <1>5, <1>6, <2>1, <2>2 DEF Inv, OneSender
<1>9. OneAtATime'
  BY <1>2, <1>3 DEF Inv, OneAtATime, InFlight
<1> QED
  BY <1>4, <1>8, <1>9 DEF Inv

\* The end of a call, by itself or given up: its locals are gone.
LEMMA EndInv ==
  ASSUME Inv, NEW c \in Calls, NEW place \in {"ok", "failed"}, InFlight(c),
         End(c, place), UNCHANGED <<message, lastAt, alone>>
  PROVE  Inv'
<1> DEFINE h == [Blank EXCEPT !.op = call[c].op]
<1>1. TypeOK
  BY DEF Inv
<1>2. h \in Handlers /\ h.op = call[c].op
  <2>1. call[c] \in Handlers
    BY <1>1 DEF TypeOK
  <2>2. call[c].op \in {"none", "send", "edit", "delete", "mark"}
    BY <2>1 DEF Handlers
  <2>3. Blank \in Handlers
    BY ChatAssumption DEF Blank, Handlers, Users
  <2> HIDE DEF Blank
  <2> QED
    BY <2>2, <2>3 DEF Handlers
<1>3. /\ call' = [call EXCEPT ![c] = h]
      /\ pc' = [pc EXCEPT ![c] = place]
  BY DEF End, Goto
<1> HIDE DEF h
<1>4. TypeOK'
  BY <1>1, <1>2, <1>3 DEF TypeOK
<1>5. pc'[c] = place
  BY <1>1, <1>3 DEF TypeOK
<1>6. Phase(c)' /\ ~Unsent(c)'
  BY <1>5 DEF Phase, Unsent, InFlight
<1> QED
  BY <1>2, <1>3, <1>4, <1>6, MoveInv DEF Goto

\* The steps that move a call and keep what it knows.
LEMMA GotoInv ==
  ASSUME Inv, NEW c \in Calls, InFlight(c), NEW place \in {"insert", "tell"},
         Goto(c, place), UNCHANGED <<message, call, alone>>,
         lastAt' \in 0..MaxMessages,
         place = "insert" => call[c].op = "send" /\ pc[c] = "touch"
  PROVE  Inv'
<1>1. TypeOK /\ Phase(c)
  BY DEF Inv
<1>2. pc' = [pc EXCEPT ![c] = place] /\ pc'[c] = place
  BY <1>1 DEF Goto, TypeOK
<1>3. TypeOK'
  BY <1>1, <1>2 DEF TypeOK
<1>4. Phase(c)'
  BY <1>1, <1>2 DEF Phase, InFlight
<1>5. Unsent(c)' => Unsent(c)
  BY <1>2 DEF Unsent
<1>6. call[c] \in Handlers /\ call' = [call EXCEPT ![c] = call[c]]
  BY <1>1 DEF TypeOK
<1> QED
  BY <1>3, <1>4, <1>5, <1>6, MoveInv

\* last_message_at is written, before an insert or after a removal.
LEMMA TouchInv ==
  ASSUME Inv, NEW c \in Calls, SendTouch(c) \/ DeleteTouch(c)
  PROVE  Inv'
<1>1. TypeOK /\ InFlight(c) /\ Phase(c)
  BY DEF Inv, SendTouch, DeleteTouch, InFlight
<1>2. call[c].msg \in 1..MaxMessages /\ call[c].upTo \in 0..MaxMessages
  BY <1>1 DEF TypeOK, Handlers, Phase, Messages
<1>3. CASE SendTouch(c)
  BY <1>1, <1>2, <1>3, GotoInv, ChatAssumption DEF SendTouch
<1>4. CASE DeleteTouch(c)
  BY <1>1, <1>2, <1>4, GotoInv DEF DeleteTouch
<1> QED
  BY <1>3, <1>4

\* The message of a call is read, or is gone.
LEMMA LookInv ==
  ASSUME Inv, NEW c \in Calls, Look(c)
  PROVE  Inv'
<1> DEFINE m == call[c].msg
           h == [call[c] EXCEPT !.read = message[m].read, !.upTo = m]
           place == CASE call[c].op = "edit" -> "write"
                      [] call[c].op = "delete" -> "remove"
                      [] call[c].op = "mark" -> "mark"
<1>1. /\ pc[c] = "look" /\ InFlight(c)
      /\ TypeOK /\ Phase(c)
      /\ UNCHANGED <<message, lastAt, alone>>
  BY DEF Look, InFlight, Inv
<1>2. m \in Messages /\ call[c].op \in {"edit", "delete", "mark"}
  BY <1>1 DEF Phase
<1>3. CASE message[m].state = "there" /\ call' = [call EXCEPT ![c] = h]
           /\ Goto(c, place)
  <2>1. message[m].read \in BOOLEAN /\ m \in 0..MaxMessages
    BY <1>1, <1>2, ChatAssumption DEF TypeOK, Rows, Messages
  <2>2. /\ h \in Handlers /\ h.op = call[c].op /\ h.msg = m /\ h.upTo = m
        /\ h.user = call[c].user /\ h.read = message[m].read
    BY <1>1, <2>1 DEF TypeOK, Handlers
  <2>3. /\ place \in {"write", "remove", "mark"}
        /\ place = "write" <=> call[c].op = "edit"
        /\ place = "remove" <=> call[c].op = "delete"
        /\ place = "mark" <=> call[c].op = "mark"
    BY <1>2
  <2> HIDE DEF h, place
  <2>4. /\ pc' = [pc EXCEPT ![c] = place] /\ pc'[c] = place
        /\ call'[c] = h
    BY <1>1, <1>3 DEF Goto, TypeOK
  <2>5. TypeOK'
    BY <1>1, <1>3, <2>2, <2>3, <2>4 DEF TypeOK
  <2>6. Phase(c)'
    BY <1>1, <1>2, <2>2, <2>3, <2>4 DEF Phase, InFlight
  <2>7. ~Unsent(c)'
    BY <2>3, <2>4 DEF Unsent
  <2> QED
    BY <1>1, <1>3, <2>2, <2>5, <2>6, <2>7, MoveInv
<1>4. CASE message[m].state = "gone" /\ End(c, "failed")
  BY <1>1, <1>4, EndInv
<1> QED
  BY <1>3, <1>4 DEF Look

\* The message that is left is read.
LEMMA DeleteLatestInv ==
  ASSUME Inv, NEW c \in Calls, DeleteLatest(c), Latest \in 0..MaxMessages
  PROVE  Inv'
<1> DEFINE h == [call[c] EXCEPT !.upTo = Latest]
<1>1. /\ pc[c] = "latest" /\ InFlight(c)
      /\ TypeOK /\ Phase(c)
      /\ call' = [call EXCEPT ![c] = h]
      /\ pc' = [pc EXCEPT ![c] = "touch"]
      /\ UNCHANGED <<message, lastAt, alone>>
  BY DEF DeleteLatest, InFlight, Inv, Goto
<1>2. /\ h \in Handlers /\ h.op = call[c].op /\ h.msg = call[c].msg
      /\ h.user = call[c].user
  BY <1>1 DEF TypeOK, Handlers
<1> HIDE DEF h
<1>3. pc'[c] = "touch" /\ call'[c] = h
  BY <1>1 DEF TypeOK
<1>4. TypeOK'
  BY <1>1, <1>2 DEF TypeOK
<1>5. Phase(c)' /\ ~Unsent(c)'
  BY <1>1, <1>2, <1>3 DEF Phase, InFlight, Unsent
<1> QED
  BY <1>1, <1>2, <1>4, <1>5, MoveInv DEF Goto

\* Newest is a message of the chat, or 0 if there is none.
LEMMA NewestFacts ==
  /\ Newest \in There \cup {0}
  /\ Newest \in 0..MaxMessages
  /\ \A m \in There : Newest >= m
<1>1. There \cup {0} \subseteq 0..MaxMessages
  BY ChatAssumption DEF There, Messages
<1>2. There \cup {0} # {}
  OBVIOUS
<1> QED
  BY <1>1, <1>2, GreatestTime DEF Newest

\* Whatever is as great as any message, and one itself or 0, is Newest.
LEMMA NewestUnique ==
  ASSUME NEW n \in There \cup {0}, \A m \in There \cup {0} : n >= m
  PROVE  n = Newest
<1>1. Newest >= n /\ n >= Newest
  BY NewestFacts DEF There, Messages
<1>2. n \in Int /\ Newest \in Int
  BY NewestFacts, ChatAssumption DEF There, Messages
<1> QED
  BY <1>1, <1>2

\* DeleteMessageAsync finds the newest message.
LEMMA LatestIsNewest == Latest = Newest
<1>1. CASE There = {}
  BY <1>1, NewestFacts DEF Latest
<1>2. CASE There # {}
  <2>1. There \subseteq 0..MaxMessages
    BY ChatAssumption DEF There, Messages
  <2>2. Max(There) \in There /\ \A x \in There : Max(There) >= x
    BY <1>2, <2>1, GreatestTime
  <2>3. Max(There) >= 0
    <3>1. Max(There) \in 0..MaxMessages
      BY <2>1, <2>2
    <3> QED
      BY <3>1
  <2>4. Max(There) = Newest
    BY <2>2, <2>3, NewestUnique
  <2> QED
    BY <1>2, <2>4 DEF Latest
<1> QED
  BY <1>1, <1>2

\* What a call that changes a message knows of it.
LEMMA WriterFacts ==
  ASSUME Inv, NEW c \in Calls,
         SendInsert(c) \/ EditWrite(c) \/ DeleteRemove(c) \/ MarkUpTo(c)
  PROVE  /\ TypeOK /\ Phase(c) /\ InFlight(c)
         /\ call[c] \in Handlers
         /\ call[c].msg \in Messages /\ message[call[c].msg] \in Rows
<1>1. TypeOK /\ Phase(c) /\ InFlight(c)
  BY DEF Inv, SendInsert, EditWrite, DeleteRemove, MarkUpTo, InFlight
<1>2. call[c] \in Handlers
  BY <1>1 DEF TypeOK
<1>3. call[c].msg \in Messages
  BY <1>1 DEF Phase
<1> QED
  BY <1>1, <1>2, <1>3 DEF TypeOK

\* A message is inserted under its time, which is new.
LEMMA SendInsertInv ==
  ASSUME Inv, NEW c \in Calls, SendInsert(c)
  PROVE  Inv'
<1> DEFINE m == call[c].msg
           row == [state |-> "there", sender |-> call[c].user, read |-> FALSE]
<1>1. TypeOK /\ Phase(c) /\ InFlight(c) /\ call[c] \in Handlers /\ m \in Messages
  BY WriterFacts
<1>2. /\ pc[c] = "insert"
      /\ message' = [message EXCEPT ![m] = row]
      /\ lastAt' = m
      /\ pc' = [pc EXCEPT ![c] = "tell"]
      /\ UNCHANGED <<call, alone>>
  BY DEF SendInsert, Goto
<1>3. call[c].op = "send" /\ Unsent(c)
  BY <1>1, <1>2 DEF Phase, Unsent
<1>4. row \in Rows /\ row.state = "there"
  BY <1>1 DEF Handlers, Rows
<1> HIDE DEF row
<1>5. TypeOK'
  BY <1>1, <1>2, <1>4 DEF TypeOK, Messages
<1>6. Phase(c)'
  BY <1>1, <1>2, <1>3 DEF TypeOK, Phase
<1>7. message[m].state = "none"
  BY <1>3 DEF Inv, OneSender
<1>8. ASSUME NEW x \in Messages
      PROVE  IF message[x].state = "none"
             THEN message'[x].state # "none" => Unsent(c) /\ x = m
             ELSE message'[x].state # "none" /\ message'[x].sender = message[x].sender
  BY <1>1, <1>2, <1>3, <1>7 DEF TypeOK
<1> QED
  BY <1>1, <1>2, <1>5, <1>6, <1>8, WriteInv DEF Goto

\* An edit writes the row, a removal takes it away: of the same sender.
LEMMA EditWriteInv ==
  ASSUME Inv, NEW c \in Calls, EditWrite(c)
  PROVE  Inv'
<1> DEFINE m == call[c].msg
           row == [message[m] EXCEPT !.read = call[c].read]
<1>1. /\ TypeOK /\ Phase(c) /\ InFlight(c)
      /\ call[c] \in Handlers /\ m \in Messages /\ message[m] \in Rows
  BY WriterFacts
<1>2. CASE message[m].state = "there" /\ message' = [message EXCEPT ![m] = row]
           /\ Goto(c, "tell") /\ UNCHANGED call
  <2>1. /\ row \in Rows /\ row.state = message[m].state
        /\ row.sender = message[m].sender
    BY <1>1 DEF Handlers, Rows
  <2> HIDE DEF row
  <2>2. /\ pc' = [pc EXCEPT ![c] = "tell"] /\ UNCHANGED <<lastAt, alone>>
        /\ call[c].op = "edit"
    BY <1>1, <1>2 DEF EditWrite, Goto, Phase
  <2>3. TypeOK'
    BY <1>1, <1>2, <2>1, <2>2 DEF TypeOK
  <2>4. ASSUME NEW x \in Messages
        PROVE  message'[x].state = message[x].state
               /\ message'[x].sender = message[x].sender
    BY <1>1, <1>2, <2>1 DEF TypeOK
  <2>5. Phase(c)'
    BY <1>1, <1>2, <2>2, <2>4 DEF TypeOK, Phase
  <2> QED
    BY <1>1, <1>2, <2>2, <2>3, <2>4, <2>5, WriteInv
<1>3. CASE End(c, "failed") /\ UNCHANGED message
  BY <1>1, <1>3, EndInv DEF EditWrite
<1> QED
  BY <1>2, <1>3 DEF EditWrite, Written

LEMMA DeleteRemoveInv ==
  ASSUME Inv, NEW c \in Calls, DeleteRemove(c)
  PROVE  Inv'
<1> DEFINE m == call[c].msg
           row == [message[m] EXCEPT !.state = "gone"]
<1>1. /\ TypeOK /\ Phase(c) /\ InFlight(c)
      /\ call[c] \in Handlers /\ m \in Messages /\ message[m] \in Rows
  BY WriterFacts
<1>2. CASE message[m].state = "there" /\ message' = [message EXCEPT ![m] = row]
           /\ Goto(c, "latest") /\ UNCHANGED call
  <2>1. row \in Rows /\ row.state = "gone" /\ row.sender = message[m].sender
    BY <1>1 DEF Rows
  <2> HIDE DEF row
  <2>2. /\ pc' = [pc EXCEPT ![c] = "latest"] /\ UNCHANGED <<lastAt, alone>>
        /\ call[c].op = "delete"
    BY <1>1, <1>2 DEF DeleteRemove, Goto, Phase
  <2>3. TypeOK'
    BY <1>1, <1>2, <2>1, <2>2 DEF TypeOK
  <2>4. ASSUME NEW x \in Messages
        PROVE  /\ message'[x].state # "none" <=> message[x].state # "none"
               /\ message'[x].sender = message[x].sender
    BY <1>1, <1>2, <2>1 DEF TypeOK
  <2>5. Phase(c)'
    BY <1>1, <1>2, <2>2, <2>4 DEF TypeOK, Phase
  <2> QED
    BY <1>1, <1>2, <2>2, <2>3, <2>4, <2>5, WriteInv
<1>3. CASE End(c, "failed") /\ UNCHANGED message
  BY <1>1, <1>3, EndInv DEF DeleteRemove
<1> QED
  BY <1>2, <1>3 DEF DeleteRemove

\* A mark changes nothing but the read flags.
LEMMA MarkUpToInv ==
  ASSUME Inv, NEW c \in Calls, MarkUpTo(c)
  PROVE  Inv'
<1>1. /\ TypeOK /\ Phase(c) /\ InFlight(c)
      /\ call[c] \in Handlers /\ call[c].msg \in Messages
  BY WriterFacts
<1>2. /\ pc' = [pc EXCEPT ![c] = "tell"] /\ Goto(c, "tell")
      /\ call[c].op = "mark"
      /\ UNCHANGED <<lastAt, call, alone>>
  BY <1>1 DEF MarkUpTo, Goto, Phase
<1>3. ASSUME NEW x \in Messages
      PROVE  /\ message'[x] \in Rows
             /\ message'[x].state = message[x].state
             /\ message'[x].sender = message[x].sender
  <2>1. message[x] \in Rows
    BY <1>1 DEF TypeOK
  <2>2. message'[x] = IF Marks(c, x) THEN [message[x] EXCEPT !.read = TRUE]
                      ELSE message[x]
    BY DEF MarkUpTo
  <2> QED
    BY <2>1, <2>2 DEF Rows
<1>4. message' \in [Messages -> Rows]
  BY <1>3 DEF MarkUpTo
<1>5. TypeOK'
  BY <1>1, <1>2, <1>4 DEF TypeOK
<1>6. Phase(c)'
  BY <1>1, <1>2 DEF TypeOK, Phase
<1> QED
  BY <1>1, <1>2, <1>3, <1>5, <1>6, WriteInv

LEMMA NextInv == Inv /\ [Next]_vars => Inv'
<1> SUFFICES ASSUME Inv, [Next]_vars PROVE Inv'
  OBVIOUS
<1>1. ASSUME NEW c \in Calls, NEW op \in {"send", "edit", "delete", "mark"},
             NEW u \in Users, NEW m \in Messages, Post(c, op, u, m)
      PROVE  Inv'
  BY <1>1, PostInv
<1>2. ASSUME NEW c \in Calls, SendTouch(c) \/ DeleteTouch(c) PROVE Inv'
  BY <1>2, TouchInv
<1>3. ASSUME NEW c \in Calls, SendInsert(c) PROVE Inv'
  BY <1>3, SendInsertInv
<1>4. ASSUME NEW c \in Calls, Look(c) PROVE Inv'
  BY <1>4, LookInv
<1>5. ASSUME NEW c \in Calls, EditWrite(c) PROVE Inv'
  BY <1>5, EditWriteInv
<1>6. ASSUME NEW c \in Calls, MarkUpTo(c) PROVE Inv'
  BY <1>6, MarkUpToInv
<1>7. ASSUME NEW c \in Calls, DeleteRemove(c) PROVE Inv'
  BY <1>7, DeleteRemoveInv
<1>8. ASSUME NEW c \in Calls, DeleteLatest(c) PROVE Inv'
  BY <1>8, DeleteLatestInv, LatestIsNewest, NewestFacts
<1>9. ASSUME NEW c \in Calls, Tell(c) PROVE Inv'
  <2>1. TypeOK /\ Phase(c) /\ InFlight(c)
    BY <1>9 DEF Inv, Tell, InFlight
  <2> QED
    BY <1>9, <2>1, EndInv DEF Tell
<1>10. ASSUME NEW c \in Calls, Fail(c) PROVE Inv'
  BY <1>10, EndInv DEF Fail
<1>11. CASE UNCHANGED vars
  <2>1. Clock' = Clock
    BY <1>11 DEF vars, Clock
  <2>2. \A c \in Calls : Phase(c)'
    BY <1>11 DEF Inv, vars, Phase, InFlight
  <2>3. OneSender' /\ OneAtATime'
    BY <1>11, <2>1 DEF Inv, vars, OneSender, OneAtATime, Unsent, InFlight
  <2> QED
    BY <1>11, <2>2, <2>3 DEF Inv, vars, TypeOK
<1> QED
  BY <1>1, <1>2, <1>3, <1>4, <1>5, <1>6, <1>7, <1>8, <1>9, <1>10, <1>11
  DEF Next, Handle, Quiet

\* The tables, the calls and what they know keep their types, whatever
\* ChatService handles at once.
THEOREM TypeCorrect == Spec => []TypeOK
<1>1. Inv => TypeOK
  BY DEF Inv
<1> QED
  BY InitInv, NextInv, <1>1, PTL DEF Spec

-----------------------------------------------------------------------------
Owed == {EventOf(c) : c \in {d \in Calls : Owes(d)}}

\* The chat begins as a log of the earlier messages, with no event owed.
LEMMA InitLog == Init => Log!LogInit
<1> SUFFICES ASSUME Init PROVE Log!LogInit
  OBVIOUS
<1> USE ChatAssumption
<1>1. PICK sent \in [1..Earlier -> [sender : Users, read : BOOLEAN]] :
        message = [m \in Messages |->
                     IF m <= Earlier
                     THEN [state |-> "there", sender |-> sent[m].sender,
                           read |-> sent[m].read]
                     ELSE [state |-> "none", sender |-> "buyer",
                           read |-> FALSE]]
  BY DEF Init
<1> DEFINE rows == [m \in 1..Earlier |->
                      [state |-> "there", sender |-> sent[m].sender,
                       read |-> sent[m].read]]
<1>2. rows \in [1..Earlier -> {row \in Log!Rows : row.state = "there"}]
  BY <1>1 DEF Log!Rows, Log!Users, Users
<1>3. message = [m \in Log!Messages |-> IF m <= Earlier THEN rows[m] ELSE Log!NoRow]
  BY <1>1 DEF Log!Messages, Messages, Log!NoRow
<1>4. Owed = {}
  BY DEF Init, Owed, Owes
<1> HIDE DEF rows
<1>5. Earlier \in 0..Earlier
  OBVIOUS
<1> QED
  BY <1>2, <1>3, <1>4, <1>5 DEF Log!LogInit, Owed

\* No event is added or taken away.
LEMMA OwedStays ==
  ASSUME \A d \in Calls : /\ Owes(d)' <=> Owes(d)
                          /\ Owes(d) => EventOf(d)' = EventOf(d)
  PROVE  Owed' = Owed
<1>1. Owed' = {EventOf(d)' : d \in {d \in Calls : Owes(d)'}}
  BY DEF Owed
<1> QED
  BY <1>1 DEF Owed

\* The calls other than the one that moves owe what they owed.
LEMMA OthersOwe ==
  ASSUME TypeOK, NEW c \in Calls, NEW h, NEW place,
         call' = [call EXCEPT ![c] = h], pc' = [pc EXCEPT ![c] = place]
  PROVE  /\ \A d \in Calls \ {c} : EventOf(d)' = EventOf(d) /\ (Owes(d)' <=> Owes(d))
         /\ call'[c] = h /\ pc'[c] = place
<1>1. \A d \in Calls \ {c} : call'[d] = call[d] /\ pc'[d] = pc[d]
  BY DEF TypeOK
<1>2. ASSUME NEW d \in Calls \ {c} PROVE EventOf(d)' = EventOf(d)
  BY <1>1 DEF EventOf
<1>3. ASSUME NEW d \in Calls \ {c} PROVE Owes(d)' <=> Owes(d)
  BY <1>1 DEF Owes
<1> QED
  BY <1>2, <1>3 DEF TypeOK

\* A change of a message adds the event of the call.
LEMMA WriteOwes ==
  ASSUME Inv, NEW c \in Calls, ~Owes(c), NEW place \in {"tell", "latest"},
         place = "latest" => call[c].op = "delete",
         Goto(c, place), UNCHANGED call
  PROVE  Owed' = Owed \cup {EventOf(c)}
<1>1. TypeOK
  BY DEF Inv
<1>2. call' = [call EXCEPT ![c] = call[c]]
  BY <1>1 DEF TypeOK
<1>3. /\ \A d \in Calls \ {c} : EventOf(d)' = EventOf(d) /\ (Owes(d)' <=> Owes(d))
      /\ call'[c] = call[c] /\ pc'[c] = place
  BY <1>1, <1>2, OthersOwe DEF Goto
<1>4. Owes(c)' /\ EventOf(c)' = EventOf(c)
  BY <1>3 DEF Owes, EventOf
<1>5. Owed' = {EventOf(d)' : d \in {d \in Calls : Owes(d)'}}
  BY DEF Owed
<1> QED
  BY <1>3, <1>4, <1>5 DEF Owed

\* A step that changes no message, after which the call owes what it did, or
\* nothing any more, is a step of the log or none.
LEMMA QuietStep ==
  ASSUME Inv, NEW c \in Calls, NEW h, NEW place,
         call' = [call EXCEPT ![c] = h], Goto(c, place), UNCHANGED message,
         Owes(c)' => Owes(c) /\ EventOf(c)' = EventOf(c)
  PROVE  Log!LogNext \/ UNCHANGED Log!logVars
<1>1. TypeOK
  BY DEF Inv
<1>2. \A d \in Calls \ {c} : EventOf(d)' = EventOf(d) /\ (Owes(d)' <=> Owes(d))
  BY <1>1, OthersOwe DEF Goto
<1>3. Owed' = {EventOf(d)' : d \in {d \in Calls : Owes(d)'}}
  BY DEF Owed
<1>4. CASE Owed' = Owed
  BY <1>4 DEF Owed, Log!logVars
<1>5. CASE Owed' # Owed
  <2>1. Owes(c) /\ ~Owes(c)'
    BY <1>2, <1>3, <1>5 DEF Owed
  <2>2. Owed = Owed' \cup {EventOf(c)}
    BY <1>2, <1>3, <2>1 DEF Owed
  <2>3. EventOf(c) \in Owed /\ Owed' = Owed \ {EventOf(c)}
    BY <1>5, <2>2
  <2>4. \E e \in Owed : Log!Forget(e)
    BY <2>3 DEF Log!Forget, Owed
  <2> QED
    BY <2>4 DEF Log!LogNext, Owed
<1> QED
  BY <1>4, <1>5

\* SendAsync adds a message, in the name of its call.
LEMMA SendInsertStep ==
  ASSUME Inv, NEW c \in Calls, SendInsert(c)
  PROVE  Log!LogNext
<1> DEFINE m == call[c].msg
<1>1. TypeOK /\ Phase(c) /\ call[c] \in Handlers /\ m \in Messages
  BY WriterFacts
<1>2. /\ pc[c] = "insert" /\ call[c].op = "send"
      /\ Goto(c, "tell") /\ UNCHANGED call
      /\ message' = [message EXCEPT ![m] = [state |-> "there",
                                            sender |-> call[c].user,
                                            read |-> FALSE]]
  BY <1>1 DEF SendInsert, Phase
<1>3. message[m].state = "none"
  BY <1>2 DEF Inv, OneSender, Unsent
<1>4. Owed' = Owed \cup {EventOf(c)}
  BY <1>2, WriteOwes DEF Owes
<1>5. EventOf(c) = Log!Event("new", call[c].user, m, FALSE)
  BY <1>2 DEF EventOf, Log!Event
<1>6. Log!Add(call[c].user, m)
  BY <1>2, <1>3, <1>4, <1>5 DEF Log!Add, Log!Owes, Owed
<1>7. call[c].user \in Log!Users /\ m \in Log!Messages
  BY <1>1 DEF Handlers, Users, Log!Users, Messages, Log!Messages
<1> QED
  BY <1>6, <1>7 DEF Log!LogNext

\* UpdateMessageAsync rewrites a message of the caller, or finds it gone.
LEMMA EditWriteStep ==
  ASSUME Inv, NEW c \in Calls, EditWrite(c)
  PROVE  Log!LogNext \/ UNCHANGED Log!logVars
<1> DEFINE m == call[c].msg
<1>1. /\ TypeOK /\ Phase(c) /\ InFlight(c) /\ call[c] \in Handlers
      /\ m \in Messages /\ message[m] \in Rows
  BY WriterFacts
<1>2. pc[c] = "write" /\ call[c].op = "edit" /\ message[m].sender = call[c].user
  BY <1>1 DEF EditWrite, Phase
<1>3. CASE message[m].state = "there" /\ message' = [message EXCEPT ![m] = Written(c)]
           /\ Goto(c, "tell") /\ UNCHANGED call
  <2>1. Owed' = Owed \cup {EventOf(c)}
    BY <1>2, <1>3, WriteOwes DEF Owes
  <2>2. call[c].read \in BOOLEAN
    BY <1>1 DEF Handlers
  <2>3. EventOf(c) = Log!Event("updated", message[m].sender, m, call[c].read)
    BY <1>2, <2>2 DEF EventOf, Log!Event
  <2>4. message' = [message EXCEPT ![m].read = call[c].read]
    BY <1>1, <1>3 DEF Written
  <2>5. m \in Log!Messages /\ m \in Log!There
    BY <1>1, <1>3 DEF Messages, Log!Messages, Log!There
  <2>6. Log!Rewrite(m, call[c].read)
    BY <2>1, <2>3, <2>4, <2>5 DEF Log!Rewrite, Log!Owes, Owed
  <2> QED
    BY <2>2, <2>5, <2>6 DEF Log!LogNext
<1>4. CASE End(c, "failed") /\ UNCHANGED message
  <2>1. ~Owes(c)'
    BY <1>1, <1>4 DEF End, Goto, TypeOK, Owes
  <2> QED
    BY <1>4, <2>1, QuietStep DEF End
<1> QED
  BY <1>3, <1>4 DEF EditWrite

\* DeleteMessageAsync removes a message of the caller, or finds it gone.
LEMMA DeleteRemoveStep ==
  ASSUME Inv, NEW c \in Calls, DeleteRemove(c)
  PROVE  Log!LogNext \/ UNCHANGED Log!logVars
<1> DEFINE m == call[c].msg
<1>1. /\ TypeOK /\ Phase(c) /\ InFlight(c) /\ call[c] \in Handlers
      /\ m \in Messages
  BY WriterFacts
<1>2. /\ pc[c] = "remove" /\ call[c].op = "delete"
      /\ message[m].sender = call[c].user
  BY <1>1 DEF DeleteRemove, Phase
<1>3. CASE message[m].state = "there" /\ message' = [message EXCEPT ![m].state = "gone"]
           /\ Goto(c, "latest") /\ UNCHANGED call
  <2>1. Owed' = Owed \cup {EventOf(c)}
    BY <1>2, <1>3, WriteOwes DEF Owes
  <2>2. EventOf(c) = Log!Event("deleted", message[m].sender, m, FALSE)
    BY <1>2 DEF EventOf, Log!Event
  <2>3. m \in Log!Messages /\ m \in Log!There
    BY <1>1, <1>3 DEF Messages, Log!Messages, Log!There
  <2>4. Log!Delete(m)
    BY <1>3, <2>1, <2>2, <2>3 DEF Log!Delete, Log!Owes, Owed
  <2> QED
    BY <2>3, <2>4 DEF Log!LogNext
<1>4. CASE End(c, "failed") /\ UNCHANGED message
  <2>1. ~Owes(c)'
    BY <1>1, <1>4 DEF End, Goto, TypeOK, Owes
  <2> QED
    BY <1>4, <2>1, QuietStep DEF End
<1> QED
  BY <1>3, <1>4 DEF DeleteRemove

\* MarkReadUpToAsync marks what the caller has received, up to its message.
LEMMA MarkUpToStep ==
  ASSUME Inv, NEW c \in Calls, MarkUpTo(c)
  PROVE  Log!LogNext
<1> DEFINE m == call[c].msg
           u == call[c].user
<1>1. TypeOK /\ Phase(c) /\ call[c] \in Handlers /\ m \in Messages
  BY WriterFacts
<1>2. /\ pc[c] = "mark" /\ call[c].op = "mark" /\ call[c].upTo = m
      /\ Goto(c, "tell") /\ UNCHANGED call
  BY <1>1 DEF MarkUpTo, Phase
<1>3. Owed' = Owed \cup {EventOf(c)}
  BY <1>2, WriteOwes DEF Owes
<1>4. EventOf(c) = Log!Event("read", u, m, FALSE)
  BY <1>2 DEF EventOf, Log!Event
<1>5. \A x \in Messages : Marks(c, x) <=> /\ x \in Log!There /\ x <= m
                                          /\ message[x].sender = Log!Other(u)
  BY <1>2 DEF Marks, There, Log!There, Messages, Log!Messages, Other, Log!Other
<1>6. message' = [x \in Messages |->
                    IF Marks(c, x) THEN [message[x] EXCEPT !.read = TRUE]
                    ELSE message[x]]
  BY DEF MarkUpTo
<1>7. Messages = Log!Messages
  BY DEF Messages, Log!Messages
<1>8. message' = Log!Marked(u, m)
  BY <1>5, <1>6, <1>7 DEF Log!Marked
<1>9. Log!Mark(u, m)
  BY <1>3, <1>4, <1>8 DEF Log!Mark, Log!Owes, Owed
<1>10. u \in Log!Users /\ m \in Log!Messages
  BY <1>1 DEF Handlers, Users, Log!Users, Messages, Log!Messages
<1> QED
  BY <1>9, <1>10 DEF Log!LogNext

\* The other steps of a call.
LEMMA OtherStep ==
  ASSUME Inv, NEW c \in Calls,
         \/ \E op \in {"send", "edit", "delete", "mark"}, u \in Users,
              m \in Messages : Post(c, op, u, m)
         \/ SendTouch(c) \/ Look(c) \/ DeleteLatest(c) \/ DeleteTouch(c)
         \/ Tell(c) \/ Fail(c)
  PROVE  Log!LogNext \/ UNCHANGED Log!logVars
<1>1. TypeOK /\ Phase(c)
  BY DEF Inv
<1>2. call' = [call EXCEPT ![c] = call[c]] <=> call' = call
  BY <1>1 DEF TypeOK
<1>3. ASSUME NEW op \in {"send", "edit", "delete", "mark"}, NEW u \in Users,
             NEW m \in Messages, Post(c, op, u, m)
      PROVE  Log!LogNext \/ UNCHANGED Log!logVars
  <2> DEFINE h == [call[c] EXCEPT !.op = op, !.user = u, !.msg = m]
  <2>1. /\ call' = [call EXCEPT ![c] = h] /\ UNCHANGED message
        /\ Goto(c, IF op = "send" THEN "touch" ELSE "look")
    BY <1>3 DEF Post
  <2>2. h.op = op
    <3>1. call[c] \in Handlers
      BY <1>1 DEF TypeOK
    <3> QED
      BY <3>1 DEF Handlers
  <2>3. ~Owes(c)'
    BY <1>1, <2>1, <2>2 DEF Goto, TypeOK, Owes
  <2> QED
    BY <2>1, <2>3, QuietStep
<1>4. CASE SendTouch(c)
  <2>1. Goto(c, "insert") /\ UNCHANGED <<message, call>>
    BY <1>4 DEF SendTouch
  <2>2. ~Owes(c)'
    BY <1>1, <2>1 DEF Goto, TypeOK, Owes
  <2> QED
    BY <1>2, <2>1, <2>2, QuietStep
<1>5. CASE Look(c)
  <2> DEFINE m == call[c].msg
             h == [call[c] EXCEPT !.read = message[m].read, !.upTo = m]
             place == CASE call[c].op = "edit" -> "write"
                        [] call[c].op = "delete" -> "remove"
                        [] call[c].op = "mark" -> "mark"
  <2>1. CASE call' = [call EXCEPT ![c] = h] /\ Goto(c, place)
    <3>1. place \in {"write", "remove", "mark"}
      BY <1>1, <1>5 DEF Phase, Look
    <3> HIDE DEF place
    <3>2. ~Owes(c)'
      BY <1>1, <2>1, <3>1 DEF Goto, TypeOK, Owes
    <3> QED
      BY <1>5, <2>1, <3>2, QuietStep DEF Look
  <2>2. CASE End(c, "failed")
    <3>1. ~Owes(c)'
      BY <1>1, <2>2 DEF End, Goto, TypeOK, Owes
    <3> QED
      BY <1>5, <2>2, <3>1, QuietStep DEF End, Look
  <2> QED
    BY <1>5, <2>1, <2>2 DEF Look
<1>6. CASE DeleteLatest(c)
  <2> DEFINE h == [call[c] EXCEPT !.upTo = Latest]
  <2>1. /\ call' = [call EXCEPT ![c] = h] /\ Goto(c, "touch") /\ UNCHANGED message
        /\ Owes(c)
    BY <1>1, <1>6 DEF DeleteLatest, Owes, Phase
  <2>2. call[c] \in Handlers /\ call'[c] = h
    BY <1>1, <2>1 DEF TypeOK
  <2>3. /\ h.op = call[c].op /\ h.user = call[c].user /\ h.msg = call[c].msg
        /\ h.read = call[c].read
    BY <2>2 DEF Handlers
  <2> HIDE DEF h
  <2>4. EventOf(c)' = EventOf(c)
    BY <2>2, <2>3 DEF EventOf
  <2> QED
    BY <2>1, <2>4, QuietStep
<1>7. CASE DeleteTouch(c)
  <2>1. Goto(c, "tell") /\ UNCHANGED <<message, call>> /\ Owes(c)
    BY <1>7 DEF DeleteTouch, Owes
  <2>2. EventOf(c)' = EventOf(c)
    BY <2>1 DEF EventOf
  <2> QED
    BY <1>2, <2>1, <2>2, QuietStep
<1>8. ASSUME NEW place \in {"ok", "failed"}, End(c, place), UNCHANGED message
      PROVE  Log!LogNext \/ UNCHANGED Log!logVars
  <2>1. ~Owes(c)'
    BY <1>1, <1>8 DEF End, Goto, TypeOK, Owes
  <2> QED
    BY <1>8, <2>1, QuietStep DEF End
<1> QED
  BY <1>3, <1>4, <1>5, <1>6, <1>7, <1>8 DEF Tell, Fail

\* ChatService implements ChatLog: overlapping calls do to the messages of a
\* chat what some order of whole calls does, each with at most one event.
THEOREM KeepsLog == Spec => ImplementsChatLog
<1>1. Inv /\ [Next]_vars => [Log!LogNext]_(Log!logVars)
  <2> SUFFICES ASSUME Inv, [Next]_vars
               PROVE  Log!LogNext \/ UNCHANGED Log!logVars
    OBVIOUS
  <2>1. CASE UNCHANGED vars
    <3>1. \A d \in Calls : (Owes(d)' <=> Owes(d)) /\ EventOf(d)' = EventOf(d)
      BY <2>1 DEF vars, Owes, EventOf
    <3>2. Owed' = Owed
      BY <3>1, OwedStays
    <3> QED
      BY <2>1, <3>2 DEF vars, Log!logVars, Owed
  <2> QED
    BY <2>1, SendInsertStep, EditWriteStep, DeleteRemoveStep, MarkUpToStep,
       OtherStep
    DEF Next, Handle, Quiet
<1> QED
  BY InitLog, InitInv, NextInv, <1>1, PTL DEF Spec, ImplementsChatLog, Log!LogSpec

\* As long as calls do not overlap, no read message becomes unread: an edit by
\* itself writes back the is_read it has read.
THEOREM ReadStays == Spec => ReadSticks
<1>1. Inv /\ [Next]_vars =>
        [alone' => \A m \in There : message[m].read => message'[m].read]_vars
  <2> SUFFICES ASSUME Inv, Next, alone', NEW m \in There, message[m].read
               PROVE  message'[m].read
    BY DEF There
  <2>1. TypeOK /\ m \in Messages /\ message[m].state = "there"
    BY DEF Inv, There
  <2>2. ASSUME NEW c \in Calls, SendInsert(c) PROVE message'[m].read
    <3>1. /\ message' = [message EXCEPT ![call[c].msg] =
               [state |-> "there", sender |-> call[c].user, read |-> FALSE]]
          /\ Unsent(c)
      BY <2>2 DEF SendInsert, Unsent, Inv, Phase
    <3>2. message[call[c].msg].state = "none"
      BY <3>1 DEF Inv, OneSender
    <3> QED
      BY <2>1, <3>1, <3>2 DEF TypeOK
  <2>3. ASSUME NEW c \in Calls, EditWrite(c) PROVE message'[m].read
    <3>1. /\ Phase(c) /\ InFlight(c) /\ call[c].msg \in Messages
          /\ message[call[c].msg] \in Rows
      BY <2>3, WriterFacts
    <3>2. CASE message' = [message EXCEPT ![call[c].msg] = Written(c)]
      <4>1. alone
        BY <2>3 DEF EditWrite
      <4>2. call[c].read = message[call[c].msg].read
        BY <2>3, <3>1, <4>1 DEF Inv, OneAtATime, EditWrite
      <4>3. Written(c).read = call[c].read
        BY <3>1 DEF Written, Rows
      <4> QED
        BY <2>1, <3>2, <4>2, <4>3 DEF TypeOK
    <3> QED
      BY <2>3, <3>2 DEF EditWrite
  <2>4. ASSUME NEW c \in Calls, DeleteRemove(c) PROVE message'[m].read
    <3>1. call[c].msg \in Messages /\ message[call[c].msg] \in Rows
      BY <2>4, WriterFacts
    <3>2. CASE message' = [message EXCEPT ![call[c].msg].state = "gone"]
      BY <2>1, <3>1, <3>2 DEF TypeOK, Rows
    <3> QED
      BY <2>4, <3>2 DEF DeleteRemove
  <2>5. ASSUME NEW c \in Calls, MarkUpTo(c) PROVE message'[m].read
    <3>1. message[m] \in Rows
      BY <2>1 DEF TypeOK
    <3> QED
      BY <2>1, <2>5, <3>1 DEF MarkUpTo, Rows
  <2>6. CASE UNCHANGED message
    BY <2>6
  <2> QED
    BY <2>2, <2>3, <2>4, <2>5, <2>6
    DEF Next, Handle, Quiet, vars, Post, SendTouch, Look, DeleteLatest,
        DeleteTouch, Tell, Fail
<1> QED
  BY InitInv, NextInv, <1>1, PTL DEF Spec, ReadSticks

-----------------------------------------------------------------------------
\* The chat begins with last_message_at the time of its newest message.
LEMMA InitInbox == Init => InboxInSteps
<1> SUFFICES ASSUME Init PROVE InboxInSteps
  OBVIOUS
<1> USE ChatAssumption
<1>1. \A m \in Messages : message[m].state = IF m <= Earlier THEN "there" ELSE "none"
  BY DEF Init, Messages
<1>2. There = 1..Earlier
  BY <1>1 DEF There, Messages
<1>3. Newest = Earlier
  BY <1>2, NewestUnique
<1>4. \A c \in Calls : pc[c] = "idle"
  BY DEF Init
<1> QED
  BY <1>3, <1>4 DEF Init, InboxInSteps, Unsent

\* A call by itself moves: what is left to show is about that call.
LEMMA InboxAlone ==
  ASSUME TypeOK, NEW c \in Calls, NEW h, NEW place,
         call' = [call EXCEPT ![c] = h], Goto(c, place),
         \A d \in Calls \ {c} : ~InFlight(d),
         lastAt' >= Newest',
         \/ place = "failed" \/ \E d \in Calls \ {c} : pc[d] = "failed"
         \/ HalfDone(c)' \/ lastAt' = Newest',
         Unsent(c)' => \A m \in There' : m < call'[c].msg,
         pc'[c] = "insert" => lastAt' = call'[c].msg,
         call'[c].op = "delete" /\ pc'[c] = "touch" => call'[c].upTo = Newest'
  PROVE  InboxInSteps'
<1>1. /\ \A d \in Calls \ {c} : call'[d] = call[d] /\ pc'[d] = pc[d]
      /\ call'[c] = h /\ pc'[c] = place
  BY DEF Goto, TypeOK
<1>2. (\A d \in Calls : pc'[d] # "failed" /\ ~HalfDone(d)') => lastAt' = Newest'
  BY <1>1
<1>3. ASSUME NEW d \in Calls \ {c} PROVE ~Unsent(d)' /\ pc'[d] \notin {"insert", "touch"}
  BY <1>1 DEF Unsent, InFlight
<1> QED
  BY <1>2, <1>3 DEF InboxInSteps

\* The same for a step that writes neither lastAt nor the set of messages, is
\* not half-way, and does not end a call that is.
LEMMA InboxStays ==
  ASSUME Inv, InboxInSteps, alone, NEW c \in Calls, NEW h, NEW place,
         call' = [call EXCEPT ![c] = h], Goto(c, place),
         \A d \in Calls \ {c} : ~InFlight(d),
         lastAt' = lastAt, There' = There,
         place \in {"look", "write", "remove", "mark", "tell", "ok", "failed"},
         place = "failed" \/ (pc[c] # "failed" /\ ~HalfDone(c))
  PROVE  InboxInSteps'
<1>1. TypeOK
  BY DEF Inv
<1>2. Newest' = Newest
  BY DEF Newest
<1>3. pc'[c] = place
  BY <1>1 DEF Goto, TypeOK
<1>4. place = "failed" \/ (\E d \in Calls \ {c} : pc[d] = "failed") \/ lastAt = Newest
  BY DEF InboxInSteps, HalfDone, InFlight
<1>5. lastAt' >= Newest'
  BY <1>2 DEF InboxInSteps
<1>6. ~Unsent(c)'
  BY <1>3 DEF Unsent
<1> QED
  BY <1>1, <1>2, <1>3, <1>4, <1>5, <1>6, InboxAlone

\* A call arrives, later than every message there is.
LEMMA PostInbox ==
  ASSUME Inv, InboxInSteps, alone', NEW c \in Calls,
         NEW op \in {"send", "edit", "delete", "mark"},
         NEW u \in Users, NEW m \in Messages, Post(c, op, u, m)
  PROVE  InboxInSteps'
<1> DEFINE h == [call[c] EXCEPT !.op = op, !.user = u, !.msg = m]
<1>1. /\ call' = [call EXCEPT ![c] = h]
      /\ Goto(c, IF op = "send" THEN "touch" ELSE "look")
      /\ alone /\ \A d \in Calls : ~InFlight(d)
      /\ UNCHANGED <<message, lastAt>>
      /\ pc[c] = "idle" /\ (op = "send" => m = Clock)
  BY DEF Post
<1>2. TypeOK /\ OneSender /\ There' = There
  BY <1>1 DEF Inv, There
<1>3. CASE op # "send"
  BY <1>1, <1>2, <1>3, InboxStays DEF HalfDone
<1>4. CASE op = "send"
  <2>1. h.op = "send" /\ h.msg = m
    <3>1. call[c] \in Handlers
      BY <1>2 DEF TypeOK
    <3> QED
      BY <1>4, <3>1 DEF Handlers
  <2> HIDE DEF h
  <2>2. pc'[c] = "touch" /\ call'[c] = h
    BY <1>1, <1>2, <1>4 DEF Goto, TypeOK
  <2>3. Newest' = Newest
    BY <1>2 DEF Newest
  <2>4. \A x \in There' : x < call'[c].msg
    BY <1>1, <1>2, <1>4, <2>1, <2>2 DEF OneSender, There
  <2>5. (\E d \in Calls \ {c} : pc[d] = "failed") \/ lastAt = Newest
    BY <1>1 DEF InboxInSteps, HalfDone, InFlight
  <2>6. lastAt' >= Newest'
    BY <1>1, <2>3 DEF InboxInSteps
  <2> QED
    BY <1>1, <1>2, <1>4, <2>1, <2>2, <2>3, <2>4, <2>5, <2>6, InboxAlone
<1> QED
  BY <1>3, <1>4

\* A send writes its time, later than every message, and then the message.
LEMMA SendInbox ==
  ASSUME Inv, InboxInSteps, alone, NEW c \in Calls,
         SendTouch(c) \/ SendInsert(c),
         \A d \in Calls \ {c} : ~InFlight(d)
  PROVE  InboxInSteps'
<1> DEFINE m == call[c].msg
<1>1. /\ TypeOK /\ Phase(c) /\ InFlight(c)
      /\ call' = [call EXCEPT ![c] = call[c]] /\ UNCHANGED call /\ lastAt' = m
  BY DEF Inv, SendTouch, SendInsert, InFlight, TypeOK
<1>2. Unsent(c) /\ m \in Messages /\ call[c].op = "send"
  BY <1>1 DEF SendTouch, SendInsert, Unsent, Phase
<1>3. \A x \in There : x < m
  BY <1>2 DEF InboxInSteps
<1>4. CASE SendTouch(c)
  <2>1. Goto(c, "insert") /\ There' = There /\ pc'[c] = "insert"
    BY <1>1, <1>4 DEF SendTouch, Goto, There, TypeOK
  <2>2. Newest' = Newest
    BY <2>1 DEF Newest
  <2>3. m >= Newest
    BY <1>2, <1>3, NewestFacts DEF Messages
  <2> QED
    BY <1>1, <1>2, <1>3, <2>1, <2>2, <2>3, InboxAlone DEF HalfDone
<1>5. CASE SendInsert(c)
  <2>1. /\ Goto(c, "tell") /\ pc'[c] = "tell"
        /\ message' = [message EXCEPT ![m] = [state |-> "there",
                                              sender |-> call[c].user,
                                              read |-> FALSE]]
    BY <1>1, <1>5 DEF SendInsert, Goto, TypeOK
  <2>2. There' = There \cup {m}
    BY <1>1, <1>2, <2>1 DEF There, TypeOK
  <2>3. Newest' = Max(There \cup {m, 0})
    <3>1. There' \cup {0} = There \cup {m, 0}
      BY <2>2
    <3> QED
      BY <3>1 DEF Newest
  <2>4. Newest' = m
    <3> DEFINE S == There \cup {m, 0}
    <3>1. S \subseteq 0..MaxMessages /\ S # {}
      BY <1>2, ChatAssumption DEF There, Messages
    <3>2. Max(S) \in S /\ \A x \in S : Max(S) >= x
      BY <3>1, GreatestTime
    <3>3. \A x \in S : m >= x
      BY <1>2, <1>3, <3>1 DEF Messages
    <3>4. m \in S /\ Max(S) \in Int /\ m \in Int
      BY <3>1, <3>2
    <3> QED
      BY <2>3, <3>2, <3>3, <3>4
  <2>5. ~Unsent(c)' /\ m >= m
    BY <1>2, <2>1 DEF Unsent, Messages
  <2> QED
    BY <1>1, <2>1, <2>4, <2>5, InboxAlone
<1> QED
  BY <1>4, <1>5

\* A removal takes a message away, reads the newest that is left, and writes
\* its time.
LEMMA DeleteInbox ==
  ASSUME Inv, Inv', InboxInSteps, alone, NEW c \in Calls,
         DeleteRemove(c) \/ DeleteLatest(c) \/ DeleteTouch(c),
         \A d \in Calls \ {c} : ~InFlight(d)
  PROVE  InboxInSteps'
<1>1. TypeOK /\ TypeOK' /\ Phase(c) /\ InFlight(c)
  BY DEF Inv, DeleteRemove, DeleteLatest, DeleteTouch, InFlight
<1>2. call' = call => call' = [call EXCEPT ![c] = call[c]]
  BY <1>1 DEF TypeOK
<1>3. CASE DeleteRemove(c) /\ pc'[c] = "failed"
  <2> DEFINE h == [Blank EXCEPT !.op = call[c].op]
  <2>1. /\ Goto(c, "failed") /\ call' = [call EXCEPT ![c] = h]
        /\ UNCHANGED <<message, lastAt>>
    BY <1>1, <1>3 DEF DeleteRemove, End, Goto, TypeOK
  <2>2. There' = There
    BY <2>1 DEF There
  <2> HIDE DEF h
  <2> QED
    BY <2>1, <2>2, InboxStays
<1>4. CASE DeleteRemove(c) /\ pc'[c] # "failed"
  <2> DEFINE m == call[c].msg
  <2>1. /\ message' = [message EXCEPT ![m].state = "gone"]
        /\ Goto(c, "latest") /\ pc'[c] = "latest"
        /\ UNCHANGED <<lastAt, call>> /\ call[c].op = "delete"
    BY <1>1, <1>4 DEF DeleteRemove, End, Goto, TypeOK, Phase
  <2>2. There' \subseteq There
    <3>1. m \in Messages /\ message[m] \in Rows
      BY <1>4, WriterFacts
    <3> QED
      BY <1>1, <2>1, <3>1 DEF There, TypeOK, Rows
  <2>3. Newest' \in There' \cup {0} /\ Newest' \in 0..MaxMessages
    <3>1. There' \cup {0} \subseteq 0..MaxMessages
      BY ChatAssumption DEF There, Messages
    <3>2. There' \cup {0} # {}
      OBVIOUS
    <3> QED
      BY <3>1, <3>2, GreatestTime DEF Newest
  <2>4. Newest >= Newest'
    <3>1. Newest >= 0 /\ \A x \in There : Newest >= x
      BY NewestFacts
    <3> QED
      BY <2>2, <2>3, <3>1
  <2>5. lastAt' >= Newest'
    <3>1. lastAt >= Newest /\ lastAt \in Int /\ Newest \in Int
      BY <1>1, NewestFacts, ChatAssumption DEF InboxInSteps, TypeOK
    <3> QED
      BY <2>1, <2>3, <2>4, <3>1
  <2> QED
    BY <1>1, <1>2, <2>1, <2>5, InboxAlone DEF HalfDone, Unsent
<1>5. CASE DeleteLatest(c)
  <2> DEFINE h == [call[c] EXCEPT !.upTo = Latest]
  <2>1. /\ call' = [call EXCEPT ![c] = h] /\ Goto(c, "touch")
        /\ pc'[c] = "touch" /\ call'[c] = h
        /\ UNCHANGED <<message, lastAt>> /\ call[c].op = "delete"
    BY <1>1, <1>5 DEF DeleteLatest, Goto, TypeOK, Phase
  <2>2. h.op = "delete" /\ h.upTo = Newest
    <3>1. call[c] \in Handlers
      BY <1>1 DEF TypeOK
    <3> QED
      BY <2>1, <3>1, LatestIsNewest DEF Handlers
  <2> HIDE DEF h
  <2>3. There' = There /\ Newest' = Newest
    BY <2>1 DEF There, Newest
  <2>4. lastAt' >= Newest'
    BY <2>1, <2>3 DEF InboxInSteps
  <2> QED
    BY <1>1, <2>1, <2>2, <2>3, <2>4, InboxAlone DEF HalfDone, Unsent
<1>6. CASE DeleteTouch(c)
  <2>1. /\ Goto(c, "tell") /\ pc'[c] = "tell" /\ UNCHANGED <<message, call>>
        /\ lastAt' = Newest
    BY <1>1, <1>6 DEF DeleteTouch, Goto, TypeOK, InboxInSteps
  <2>2. There' = There /\ Newest' = Newest
    BY <2>1 DEF There, Newest
  <2>3. Newest >= Newest /\ ~Unsent(c)'
    BY <2>1, NewestFacts DEF Unsent
  <2> QED
    BY <1>1, <1>2, <2>1, <2>2, <2>3, InboxAlone
<1> QED
  BY <1>3, <1>4, <1>5, <1>6

\* The other steps write neither last_message_at nor which messages there are.
LEMMA OtherInbox ==
  ASSUME Inv, InboxInSteps, alone, NEW c \in Calls,
         Look(c) \/ EditWrite(c) \/ MarkUpTo(c) \/ Tell(c) \/ Fail(c),
         \A d \in Calls \ {c} : ~InFlight(d)
  PROVE  InboxInSteps'
<1>1. TypeOK /\ Phase(c)
  BY DEF Inv
<1>2. call' = call => call' = [call EXCEPT ![c] = call[c]]
  BY <1>1 DEF TypeOK
<1>3. ASSUME NEW place \in {"ok", "failed"}, End(c, place), UNCHANGED <<message, lastAt>>,
             place = "failed" \/ pc[c] = "tell"
      PROVE  InboxInSteps'
  <2> DEFINE h == [Blank EXCEPT !.op = call[c].op]
  <2>1. /\ There' = There /\ lastAt' = lastAt
        /\ call' = [call EXCEPT ![c] = h] /\ Goto(c, place)
        /\ place = "failed" \/ (pc[c] # "failed" /\ ~HalfDone(c))
    BY <1>3 DEF There, End, HalfDone
  <2> HIDE DEF h
  <2> QED
    BY <2>1, InboxStays
<1>4. CASE Look(c)
  <2> DEFINE m == call[c].msg
             h == [call[c] EXCEPT !.read = message[m].read, !.upTo = m]
             place == CASE call[c].op = "edit" -> "write"
                        [] call[c].op = "delete" -> "remove"
                        [] call[c].op = "mark" -> "mark"
  <2>1. There' = There /\ UNCHANGED <<message, lastAt>>
    BY <1>4 DEF There, Look
  <2>2. CASE call' = [call EXCEPT ![c] = h] /\ Goto(c, place)
    <3>1. place \in {"write", "remove", "mark"}
      BY <1>1, <1>4 DEF Phase, Look
    <3> HIDE DEF place
    <3> QED
      BY <1>4, <2>1, <2>2, <3>1, InboxStays DEF Look, HalfDone
  <2> QED
    BY <1>3, <1>4, <2>1, <2>2 DEF Look
<1>5. CASE (EditWrite(c) \/ MarkUpTo(c)) /\ Goto(c, "tell") /\ UNCHANGED call
  <2>1. /\ UNCHANGED lastAt /\ pc[c] \in {"write", "mark"}
        /\ call[c].msg \in Messages /\ message[call[c].msg] \in Rows
    BY <1>5, WriterFacts DEF EditWrite, MarkUpTo
  <2>2. There' = There
    <3>1. ASSUME NEW x \in Messages PROVE message'[x].state = message[x].state
      <4>1. message[x] \in Rows
        BY <1>1 DEF TypeOK
      <4>2. CASE MarkUpTo(c)
        BY <4>1, <4>2 DEF MarkUpTo, Rows
      <4>3. CASE EditWrite(c)
        <5>1. Written(c).state = message[call[c].msg].state
          BY <2>1 DEF Written, Rows
        <5> QED
          BY <1>1, <4>3, <5>1 DEF EditWrite, TypeOK
      <4> QED
        BY <1>5, <4>2, <4>3
    <3> QED
      BY <3>1 DEF There
  <2> QED
    BY <1>2, <1>5, <2>1, <2>2, InboxStays DEF HalfDone
<1> QED
  BY <1>3, <1>4, <1>5 DEF EditWrite, MarkUpTo, Tell, Fail

\* As long as calls do not overlap, the chat's place in the inbox is never
\* behind its newest message, and at it if no call has failed.
THEOREM InboxOrdered == Spec => []InboxFollowsNewest
<1>1. Inv /\ Inv' /\ InboxInSteps /\ [Next]_vars => InboxInSteps'
  <2> SUFFICES ASSUME Inv, Inv', InboxInSteps, [Next]_vars, alone'
               PROVE  InboxInSteps'
    BY DEF InboxInSteps
  <2>1. ASSUME NEW c \in Calls, NEW op \in {"send", "edit", "delete", "mark"},
               NEW u \in Users, NEW m \in Messages, Post(c, op, u, m)
        PROVE  InboxInSteps'
    BY <2>1, PostInbox
  <2>2. ASSUME NEW c \in Calls, Handle(c) \/ Fail(c) PROVE InboxInSteps'
    <3>1. alone /\ InFlight(c)
      BY <2>2
      DEF Handle, Fail, InFlight, SendTouch, SendInsert, Look, EditWrite,
          MarkUpTo, DeleteRemove, DeleteLatest, DeleteTouch, Tell
    <3>2. \A d \in Calls \ {c} : ~InFlight(d)
      BY <3>1 DEF Inv, OneAtATime
    <3> QED
      BY <2>2, <3>1, <3>2, SendInbox, DeleteInbox, OtherInbox DEF Handle
  <2>3. CASE UNCHANGED vars
    <3>1. Newest' = Newest /\ There' = There
      BY <2>3 DEF vars, Newest, There
    <3> QED
      BY <2>3, <3>1 DEF vars, InboxInSteps, HalfDone, Unsent
  <2> QED
    BY <2>1, <2>2, <2>3 DEF Next, Quiet
<1>2. InboxInSteps => InboxFollowsNewest
  BY DEF InboxInSteps, InboxFollowsNewest, InFlight, HalfDone
<1> QED
  BY InitInv, NextInv, InitInbox, <1>1, <1>2, PTL DEF Spec
=============================================================================
