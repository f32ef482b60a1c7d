------------------------- MODULE RefreshTokensProofs -------------------------
(***************************************************************************)
(* For any number of calls: a session never forks, a logout ends it unless *)
(* a refresh overtook it, and the endpoints implement SessionLine.         *)
(*                                                                         *)
(* The invariant adds to the properties where a call is and what it        *)
(* presents (Phase) and that sessions are named after tokens (Rooted).     *)
(* Only Rotate and LogoutRevoke write rows that exist; the rest of a step  *)
(* is about the row the call inserts, which no one else knows.             *)
(***************************************************************************)
EXTENDS RefreshTokens, TLAPS

\* Nothing is in the table, nobody has called.
LEMMA InitInv == Init => Inv
<1> SUFFICES ASSUME Init PROVE Inv
  OBVIOUS
<1>1. TypeOK
  BY DEF Init, TypeOK, Rows, NoRow, Handlers
<1>2. \A c \in Calls : Phase(c)
  BY DEF Init, Phase, NoRow
<1>3. Rooted /\ OneActive /\ LastRevoked /\ LogoutEndsOrOvertaken
  BY DEF Init, Rooted, OneActive, LastRevoked, LogoutEndsOrOvertaken, NoRow
<1> QED
  BY <1>1, <1>2, <1>3 DEF Inv

\* A step that leaves the table alone and keeps what calls present.
LEMMA TableUnchanged ==
  ASSUME Inv, TypeOK', UNCHANGED token, \A c \in Calls : Phase(c)',
         \A c \in Calls : pc'[c] = "ok" /\ call'[c].op = "logout"
                          /\ call'[c].found => pc[c] = "ok" /\ call'[c] = call[c]
  PROVE  Inv'
<1>1. Rooted' /\ OneActive' /\ LastRevoked'
  BY DEF Inv, Rooted, OneActive, LastRevoked, Active
<1>2. LogoutEndsOrOvertaken'
  BY DEF Inv, LogoutEndsOrOvertaken, Active
<1> QED
  BY <1>1, <1>2 DEF Inv

\* A call arrives, with a token that is in the table or with none.
LEMMA PostInv ==
  ASSUME Inv, NEW c \in Calls, NEW op \in {"login", "refresh", "logout"},
         NEW t \in Calls \cup {Null}, Post(c, op, t)
  PROVE  Inv'
<1> DEFINE h == [call[c] EXCEPT !.op = op, !.presents = t]
<1>1. /\ call' = [call EXCEPT ![c] = h]
      /\ pc' = [pc EXCEPT ![c] = "posted"]
      /\ UNCHANGED token
      /\ pc[c] = "idle" /\ (t # Null => token[t].state # "none")
  BY DEF Post, Goto
<1>2. call[c] \in Handlers
  BY DEF Inv, TypeOK
<1>3. h \in Handlers /\ h.found = call[c].found /\ h.presents = t /\ h.op = op
  BY <1>2 DEF Handlers
<1> HIDE DEF h
<1>4. TypeOK'
  BY <1>1, <1>3 DEF Inv, TypeOK
<1>5. ASSUME NEW d \in Calls PROVE Phase(d)'
  BY <1>1, <1>3 DEF Inv, TypeOK, Phase
<1>6. ASSUME NEW d \in Calls, pc'[d] = "ok", call'[d].op = "logout",
             call'[d].found
      PROVE  pc[d] = "ok" /\ call'[d] = call[d]
  BY <1>1, <1>6 DEF Inv, TypeOK
<1> QED
  BY <1>1, <1>4, <1>5, <1>6, TableUnchanged

\* A call is answered, refused or given up without having changed anything.
LEMMA GotoInv ==
  ASSUME Inv, NEW c \in Calls, InFlight(c),
         NEW place \in {"ok", "refused", "failed", "rotate"}, Goto(c, place),
         place = "ok" => ~call[c].found,
         place = "rotate" => /\ call[c].op = "refresh"
                             /\ call[c].presents # Null
                             /\ token[call[c].presents].state # "none",
         UNCHANGED <<token, call>>
  PROVE  Inv'
<1>1. TypeOK'
  BY DEF Inv, TypeOK, Goto
<1>2. ASSUME NEW d \in Calls PROVE Phase(d)'
  BY DEF Inv, TypeOK, Phase, Goto, InFlight
<1>3. ASSUME NEW d \in Calls, pc'[d] = "ok", call'[d].op = "logout",
             call'[d].found
      PROVE  pc[d] = "ok" /\ call'[d] = call[d]
  BY <1>3 DEF Inv, TypeOK, Goto
<1> QED
  BY <1>1, <1>2, <1>3, TableUnchanged

\* A call finds its token good, to exchange it or to log it out.
LEMMA LogoutLookInv ==
  ASSUME Inv, NEW c \in Calls, LogoutLook(c)
  PROVE  Inv'
<1> DEFINE t == call[c].presents
           h == [call[c] EXCEPT !.found = TRUE]
<1>1. CASE /\ t # Null /\ token[t].state = "active"
           /\ call' = [call EXCEPT ![c].found = TRUE]
           /\ Goto(c, "revoke")
  <2>1. /\ call' = [call EXCEPT ![c] = h]
        /\ pc' = [pc EXCEPT ![c] = "revoke"]
        /\ UNCHANGED token
        /\ pc[c] = "posted" /\ call[c].op = "logout"
    BY <1>1 DEF LogoutLook, Goto
  <2>2. call[c] \in Handlers
    BY DEF Inv, TypeOK
  <2>3. h \in Handlers /\ h.presents = t /\ h.op = call[c].op
    BY <2>2 DEF Handlers
  <2>7. h.found = TRUE
    BY <2>2 DEF Handlers
  <2> HIDE DEF h
  <2>4. TypeOK'
    BY <2>1, <2>3 DEF Inv, TypeOK
  <2>5. ASSUME NEW d \in Calls PROVE Phase(d)'
    BY <1>1, <2>1, <2>3, <2>7 DEF Inv, TypeOK, Phase
  <2>6. ASSUME NEW d \in Calls, pc'[d] = "ok", call'[d].op = "logout",
               call'[d].found
        PROVE  pc[d] = "ok" /\ call'[d] = call[d]
    BY <2>1, <2>6 DEF Inv, TypeOK
  <2> QED
    BY <2>1, <2>4, <2>5, <2>6, TableUnchanged
<1>2. CASE Goto(c, "ok") /\ UNCHANGED call
  <2>1. pc[c] = "posted" /\ UNCHANGED token
    BY DEF LogoutLook
  <2>2. ~call[c].found
    BY <2>1 DEF Inv, Phase
  <2> QED
    BY <1>2, <2>1, <2>2, GotoInv DEF InFlight
<1> QED
  BY <1>1, <1>2 DEF LogoutLook

\* What NewRow is, for the provers.
LEMMA NewRowType ==
  ASSUME NEW s \in Calls
  PROVE  /\ NewRow(s) \in Rows
         /\ NewRow(s).state = "active" /\ NewRow(s).session = s
         /\ NewRow(s).next = Null
BY DEF NewRow, NoRow, Rows

\* A login begins a session with the only token of it.
LEMMA LoginInv ==
  ASSUME Inv, NEW c \in Calls, Login(c)
  PROVE  Inv'
<1>1. CASE /\ token' = [token EXCEPT ![c] = NewRow(c)]
           /\ Goto(c, "ok")
  <2> DEFINE row == NewRow(c)
  <2>1. /\ token' = [token EXCEPT ![c] = row]
        /\ pc' = [pc EXCEPT ![c] = "ok"]
        /\ UNCHANGED call
        /\ pc[c] = "posted" /\ call[c].op = "login"
    BY <1>1 DEF Login, Goto
  <2>2. /\ row \in Rows /\ row.state = "active"
        /\ row.session = c /\ row.next = Null
    BY NewRowType
  <2> HIDE DEF row
  <2>3. token[c].state = "none" /\ token[c].next = Null
    BY <2>1 DEF Inv, Phase
  <2>4. TypeOK'
    BY <2>1, <2>2 DEF Inv, TypeOK
  <2>5. ASSUME NEW d \in Calls PROVE Phase(d)'
    BY <2>1, <2>2, <2>3, TokensAssumption DEF Inv, TypeOK, Phase
  <2>6. Rooted'
    BY <2>1, <2>2, <2>3 DEF Inv, TypeOK, Rooted
  <2>7. \A t \in Calls : token[t].state # "none" => token[t].session # c
    BY <2>3 DEF Inv, Rooted
  <2>8. OneActive'
    BY <2>1, <2>2, <2>7 DEF Inv, TypeOK, OneActive
  <2>9. \A s \in Calls \ {c} : Active(s)' = Active(s)
    BY <2>1, <2>2, <2>3 DEF Inv, TypeOK, Active
  <2>10. LastRevoked'
    BY <2>1, <2>2, <2>7, <2>9 DEF Inv, TypeOK, LastRevoked, Rooted
  <2>11. ASSUME NEW d \in Calls, pc[d] = "ok", call[d].op = "logout",
                call[d].found
         PROVE  LET t == call[d].presents
                IN t \in Calls \ {c} /\ token[t].session \in Calls \ {c}
    BY <2>3, <2>7, <2>11 DEF Inv, TypeOK, Phase, Rooted, Handlers
  <2>12. LogoutEndsOrOvertaken'
    BY <2>1, <2>9, <2>11 DEF Inv, TypeOK, LogoutEndsOrOvertaken
  <2> QED
    BY <2>4, <2>5, <2>6, <2>8, <2>10, <2>12 DEF Inv
<1>2. CASE Goto(c, "refused") /\ UNCHANGED token
  BY <1>2, GotoInv DEF Login, InFlight
<1> QED
  BY <1>1, <1>2 DEF Login

\* The time of a token comes: no property is about that.
LEMMA ExpireInv ==
  ASSUME Inv, NEW c \in Calls, Expire(c)
  PROVE  Inv'
<1> DEFINE row == [token[c] EXCEPT !.expired = TRUE]
<1>1. /\ token' = [token EXCEPT ![c] = row]
      /\ UNCHANGED <<pc, call>>
  BY DEF Expire
<1>2. token[c] \in Rows
  BY DEF Inv, TypeOK
<1>3. /\ row \in Rows /\ row.state = token[c].state
      /\ row.session = token[c].session /\ row.next = token[c].next
  BY <1>2 DEF Rows
<1> HIDE DEF row
<1>4. TypeOK'
  BY <1>1, <1>3 DEF Inv, TypeOK
<1>5. \A d \in Calls : /\ token'[d].state = token[d].state
                       /\ token'[d].session = token[d].session
                       /\ token'[d].next = token[d].next
  BY <1>1, <1>3 DEF Inv, TypeOK
<1>6. ASSUME NEW d \in Calls PROVE Phase(d)'
  BY <1>1, <1>5 DEF Inv, TypeOK, Phase, Handlers
<1>7. Rooted'
  BY <1>1, <1>5 DEF Inv, Rooted
<1>8. OneActive'
  BY <1>1, <1>5 DEF Inv, OneActive
<1>9. ASSUME NEW s PROVE Active(s)' = Active(s)
  BY <1>5 DEF Active
<1>10. LastRevoked'
  BY <1>1, <1>5, <1>9 DEF Inv, LastRevoked
<1>11. LogoutEndsOrOvertaken'
  <2> SUFFICES ASSUME NEW d \in Calls, pc[d] = "ok", call[d].op = "logout",
                      call[d].found
               PROVE  \/ Active(token[call[d].presents].session)' = {}
                      \/ token'[call[d].presents].next # Null
    BY <1>1 DEF LogoutEndsOrOvertaken
  <2>1. call[d].presents \in Calls
    BY DEF Inv, TypeOK, Phase, Handlers
  <2>2. \/ Active(token[call[d].presents].session) = {}
        \/ token[call[d].presents].next # Null
    BY DEF Inv, LogoutEndsOrOvertaken
  <2> QED
    BY <1>1, <1>5, <1>9, <2>1, <2>2
<1> QED
  BY <1>4, <1>6, <1>7, <1>8, <1>10, <1>11 DEF Inv

\* An exchange of a good token: it is revoked and points at its replacement,
\* which takes its place in the session.
LEMMA RotateInv ==
  ASSUME Inv, NEW c \in Calls, Rotate(c)
  PROVE  Inv'
<1> DEFINE t == call[c].presents
           old == [token[t] EXCEPT !.state = "revoked", !.next = c]
           new == NewRow(token[t].session)
<1>1. /\ pc[c] = "rotate" /\ call[c].op = "refresh"
      /\ t \in Calls /\ token[t].state # "none"
  BY DEF Inv, TypeOK, Handlers, Rotate, Phase
<1>2. CASE StillActive(t)
  <2>1. /\ token' = [token EXCEPT ![t] = old, ![c] = new]
        /\ pc' = [pc EXCEPT ![c] = "ok"]
        /\ UNCHANGED call
        /\ token[t].state = "active"
    BY <1>1, <1>2 DEF Rotate, Goto, StillActive
  <2>2. token[t] \in Rows /\ token[t].session \in Calls
    BY <1>1 DEF Inv, TypeOK, Rooted
  <2>3. /\ old \in Rows /\ old.state = "revoked"
        /\ old.session = token[t].session /\ old.next = c
    BY <2>2 DEF Rows
  <2>4. /\ new \in Rows /\ new.state = "active"
        /\ new.session = token[t].session /\ new.next = Null
    BY <2>2, NewRowType
  <2>5. token[c].state = "none" /\ token[c].next = Null
    BY <1>1 DEF Inv, Phase
  <2>6. t # c /\ c # Null
    BY <2>1, <2>5, TokensAssumption
  <2> HIDE DEF t, old, new
  <2>7. token[t].next = Null
    BY <1>1, <2>1 DEF Inv, Phase
  <2>8. TypeOK'
    BY <1>1, <2>1, <2>3, <2>4 DEF Inv, TypeOK
  <2>9. /\ token'[t] = old /\ token'[c] = new
        /\ \A d \in Calls \ {t, c} : token'[d] = token[d]
    BY <1>1, <2>1, <2>6 DEF Inv, TypeOK
  <2>10. pc[t] = "ok" /\ call[t].op # "logout"
    BY <1>1 DEF Inv, Phase
  <2>11. ASSUME NEW d \in Calls PROVE Phase(d)'
    <3>1. \A e \in Calls : token[e].state # "none" => token'[e].state # "none"
      BY <2>3, <2>4, <2>9
    <3>2. CASE d = t
      BY <1>1, <2>1, <2>2, <2>3, <2>6, <2>9, <2>10, <3>1, <3>2,
         TokensAssumption DEF Inv, TypeOK, Phase, Handlers
    <3>3. CASE d = c
      BY <1>1, <2>1, <2>2, <2>4, <2>9, <3>1, <3>3, TokensAssumption
      DEF Inv, TypeOK, Phase, Handlers
    <3>4. CASE d \notin {t, c}
      BY <2>1, <2>9, <3>1, <3>4 DEF Inv, TypeOK, Phase, Handlers
    <3> QED
      BY <3>2, <3>3, <3>4
  <2>12. Rooted'
    BY <1>1, <2>2, <2>3, <2>4, <2>9 DEF Inv, Rooted
  <2>13. OneActive'
    BY <1>1, <2>1, <2>3, <2>4, <2>9 DEF Inv, OneActive
  <2>14. \A s \in Calls \ {token[t].session} : Active(s)' = Active(s)
    <3> SUFFICES ASSUME NEW s \in Calls \ {token[t].session}, NEW d \in Calls
                 PROVE  (token'[d].state = "active" /\ token'[d].session = s)
                        <=> (token[d].state = "active" /\ token[d].session = s)
      BY DEF Active
    <3>1. CASE d = t
      BY <2>3, <2>9, <3>1
    <3>2. CASE d = c
      BY <2>4, <2>5, <2>9, <3>2
    <3>3. CASE d \notin {t, c}
      BY <2>9, <3>3
    <3> QED
      BY <3>1, <3>2, <3>3
  <2>15. t \in Active(token[t].session)
    BY <1>1, <2>1 DEF Active
  <2>16. LastRevoked'
    <3> SUFFICES ASSUME NEW u \in Calls, token'[u].state = "revoked",
                        token'[u].next = Null
                 PROVE  Active(token[u].session)' = {}
      BY DEF LastRevoked
    <3>1. u \notin {t, c}
      BY <2>3, <2>4, <2>6, <2>9
    <3>2. token'[u] = token[u] /\ Active(token[u].session) = {}
      BY <2>9, <3>1 DEF Inv, LastRevoked
    <3>3. token[u].session \in Calls \ {token[t].session}
      BY <2>9, <2>15, <3>1, <3>2 DEF Inv, Rooted
    <3> QED
      BY <2>14, <3>2, <3>3
  <2>17. LogoutEndsOrOvertaken'
    <3> SUFFICES ASSUME NEW d \in Calls, pc'[d] = "ok", call'[d].op = "logout",
                        call'[d].found
                 PROVE  \/ Active(token[call[d].presents].session)' = {}
                        \/ token'[call'[d].presents].next # Null
      BY DEF LogoutEndsOrOvertaken
    <3> DEFINE u == call[d].presents
    <3>1. d # c /\ pc[d] = "ok" /\ call'[d] = call[d]
      BY <1>1, <2>1 DEF Inv, TypeOK
    <3>2. u \in Calls /\ token[u].state # "none"
      BY <3>1, <2>1 DEF Inv, TypeOK, Phase, Handlers
    <3>3. \/ Active(token[u].session) = {}
          \/ token[u].next # Null
      BY <2>1, <3>1 DEF Inv, LogoutEndsOrOvertaken
    <3>4. CASE u = t
      BY <2>3, <2>6, <2>9, <3>1, <3>4
    <3>5. CASE u # t
      <4>1. token'[u] = token[u]
        BY <2>5, <2>9, <3>2, <3>5
      <4>2. CASE token[u].next # Null
        BY <3>1, <4>1, <4>2
      <4>3. CASE Active(token[u].session) = {}
        BY <2>14, <2>15, <3>1, <3>2, <4>1, <4>3 DEF Inv, Rooted
      <4> QED
        BY <3>3, <4>2, <4>3
    <3> QED
      BY <3>4, <3>5
  <2> QED
    BY <2>8, <2>11, <2>12, <2>13, <2>16, <2>17 DEF Inv
<1>3. CASE ~StillActive(t)
  BY <1>1, <1>3, GotoInv DEF Rotate, InFlight
<1> QED
  BY <1>2, <1>3

\* The write of a logout.
LEMMA LogoutRevokeInv ==
  ASSUME Inv, NEW c \in Calls, LogoutRevoke(c)
  PROVE  Inv'
<1>0. PICK t \in Calls : t = call[c].presents
  BY DEF Inv, TypeOK, Handlers, LogoutRevoke, Phase
<1> DEFINE row == Revoked(token[t])
<1>1. /\ pc[c] = "revoke" /\ call[c].op = "logout" /\ call[c].found
      /\ t \in Calls /\ token[t].state # "none"
  BY <1>0 DEF Inv, LogoutRevoke, Phase
<1>2. /\ token' = [token EXCEPT ![t] = row]
      /\ pc' = [pc EXCEPT ![c] = "ok"]
      /\ UNCHANGED call
  BY <1>0 DEF LogoutRevoke, Goto
<1>3. token[t] \in Rows
  BY <1>1 DEF Inv, TypeOK
<1>4. /\ row \in Rows /\ row.state = "revoked"
      /\ row.session = token[t].session /\ row.next = token[t].next
  BY <1>3 DEF Rows, Revoked
<1> HIDE DEF row
<1>5. /\ token'[t] = row
      /\ \A d \in Calls \ {t} : token'[d] = token[d]
  BY <1>1, <1>2 DEF Inv, TypeOK
<1>6. TypeOK'
  BY <1>1, <1>2, <1>4 DEF Inv, TypeOK
<1>7. ASSUME NEW d \in Calls PROVE Phase(d)'
  <2>1. \A e \in Calls : /\ token'[e].state # "none" <=> token[e].state # "none"
                         /\ token'[e].session = token[e].session
                         /\ token'[e].next = token[e].next
    BY <1>1, <1>4, <1>5
  <2>2. token'[d].next # Null => token'[d].state = "revoked"
    BY <1>4, <1>5 DEF Inv, Phase
  <2> QED
    BY <1>1, <1>2, <2>1, <2>2 DEF Inv, TypeOK, Phase, Handlers
<1>8. Rooted'
  BY <1>1, <1>4, <1>5 DEF Inv, Rooted
<1>9. OneActive'
  BY <1>1, <1>4, <1>5 DEF Inv, OneActive
<1>10. ASSUME NEW s PROVE Active(s)' \subseteq Active(s)
  BY <1>1, <1>4, <1>5 DEF Active
<1>11. token[t].next = Null => Active(token[t].session)' = {}
  <2>1. CASE token[t].state = "active"
    BY <1>1, <1>4, <1>5, <2>1 DEF Inv, OneActive, Active
  <2>2. CASE token[t].state # "active"
    <3>1. token[t].state = "revoked"
      BY <1>1, <1>3, <2>2 DEF Rows
    <3>2. token[t].next = Null => Active(token[t].session) = {}
      BY <1>1, <3>1 DEF Inv, LastRevoked
    <3> QED
      BY <1>1, <1>4, <1>5, <3>2 DEF Active
  <2> QED
    BY <2>1, <2>2
<1>12. LastRevoked'
  <2> SUFFICES ASSUME NEW u \in Calls, token'[u].state = "revoked",
                      token'[u].next = Null
               PROVE  Active(token[u].session)' = {}
    BY DEF LastRevoked
  <2>1. CASE u = t
    BY <1>4, <1>5, <1>11, <2>1
  <2>2. CASE u # t
    <3>1. token'[u] = token[u] /\ Active(token[u].session) = {}
      BY <1>5, <2>2 DEF Inv, LastRevoked
    <3> QED
      BY <1>10, <3>1
  <2> QED
    BY <2>1, <2>2
<1>13. LogoutEndsOrOvertaken'
  <2> SUFFICES ASSUME NEW d \in Calls, pc'[d] = "ok", call'[d].op = "logout",
                      call'[d].found
               PROVE  \/ Active(token[call[d].presents].session)' = {}
                      \/ token'[call'[d].presents].next # Null
    BY DEF LogoutEndsOrOvertaken
  <2>1. PICK u \in Calls : u = call[d].presents
    BY <1>2 DEF Inv, TypeOK, Phase, Handlers
  <2>2. u = call'[d].presents
    BY <1>2, <2>1
  <2>3. Active(token[u].session)' = {} \/ token'[u].next # Null
    <3>1. CASE d = c
      BY <1>0, <1>4, <1>5, <1>11, <2>1, <3>1
    <3>2. CASE d # c
      <4>1. Active(token[u].session) = {} \/ token[u].next # Null
        BY <1>2, <2>1, <3>2 DEF Inv, TypeOK, LogoutEndsOrOvertaken
      <4>2. /\ token'[u].session = token[u].session
            /\ token'[u].next = token[u].next
        BY <1>1, <1>4, <1>5
      <4> QED
        BY <1>10, <4>1, <4>2
    <3> QED
      BY <3>1, <3>2
  <2> QED
    BY <2>2, <2>3 DEF Active
<1> QED
  BY <1>6, <1>7, <1>8, <1>9, <1>12, <1>13 DEF Inv
-----------------------------------------------------------------------------
\* Every step keeps Inv.
LEMMA NextInv == Inv /\ [Next]_vars => Inv'
<1> SUFFICES ASSUME Inv, [Next]_vars PROVE Inv'
  OBVIOUS
<1>1. ASSUME NEW c \in Calls, NEW op \in {"login", "refresh", "logout"},
             NEW t \in Calls \cup {Null}, Post(c, op, t)
      PROVE  Inv'
  BY <1>1, PostInv
<1>2. ASSUME NEW c \in Calls, Login(c) PROVE Inv'
  BY <1>2, LoginInv
<1>3. ASSUME NEW c \in Calls, RefreshLook(c) PROVE Inv'
  BY <1>3, GotoInv DEF RefreshLook, InFlight, Usable
<1>4. ASSUME NEW c \in Calls, Rotate(c) PROVE Inv'
  BY <1>4, RotateInv
<1>5. ASSUME NEW c \in Calls, LogoutLook(c) PROVE Inv'
  BY <1>5, LogoutLookInv
<1>6. ASSUME NEW c \in Calls, LogoutRevoke(c) PROVE Inv'
  BY <1>6, LogoutRevokeInv
<1>7. ASSUME NEW c \in Calls, Fail(c) PROVE Inv'
  BY <1>7, GotoInv DEF Fail
<1>8. ASSUME NEW c \in Calls, Expire(c) PROVE Inv'
  BY <1>8, ExpireInv
<1>9. CASE UNCHANGED vars
  <2>1. TypeOK' /\ \A c \in Calls : Phase(c)'
    BY <1>9 DEF Inv, TypeOK, Phase, vars
  <2> QED
    BY <1>9, <2>1, TableUnchanged DEF vars
<1> QED
  BY <1>1, <1>2, <1>3, <1>4, <1>5, <1>6, <1>7, <1>8, <1>9
  DEF Next, Handle, Quiet

LEMMA Invariance == Spec => []Inv
BY InitInv, NextInv, PTL DEF Spec

\* The table and the calls keep their types for any set of calls.
THEOREM TypeCorrect == Spec => []TypeOK
<1>1. Inv => TypeOK
  BY DEF Inv
<1> QED
  BY <1>1, Invariance, PTL

\* However many calls of Refresh present one token together, with logouts and
\* failures in between, no session ever has two good tokens.
THEOREM NeverForks == Spec => []OneActive
<1>1. Inv => OneActive
  BY DEF Inv
<1> QED
  BY <1>1, Invariance, PTL

\* A logout ends the session whose token it found good, or that token has been
\* exchanged between the lookup and the write of the logout.
THEOREM LogoutEnds == Spec => []LogoutEndsOrOvertaken
<1>1. Inv => LogoutEndsOrOvertaken
  BY DEF Inv
<1> QED
  BY <1>1, Invariance, PTL
-----------------------------------------------------------------------------
\* The variables of SessionLine, as RefreshTokens maps them.
InUse == {t \in Calls : token[t].state # "none"}
Holders == [s \in Calls |-> Active(s)]

\* A login begins a line.
LEMMA LoginLine ==
  ASSUME Inv, NEW c \in Calls, Login(c)
  PROVE  Line!Next \/ UNCHANGED Line!vars
<1>1. CASE UNCHANGED token
  BY <1>1 DEF Line!vars, Active
<1>2. CASE token' = [token EXCEPT ![c] = NewRow(c)]
  <2> DEFINE row == NewRow(c)
  <2>1. row.state = "active" /\ row.session = c
    BY NewRowType
  <2> HIDE DEF row
  <2>2. token[c].state = "none"
    BY DEF Login, Inv, Phase
  <2>3. /\ token'[c] = row
        /\ \A d \in Calls \ {c} : token'[d] = token[d]
    BY <1>2 DEF Inv, TypeOK, row
  <2>4. InUse' = InUse \cup {c}
    BY <2>1, <2>2, <2>3 DEF InUse
  <2>5. \A d \in Calls : token[d].state # "none" => token[d].session # c
    BY <2>2 DEF Inv, Rooted
  <2>6. ASSUME NEW s \in Calls
        PROVE  Active(s)' = IF s = c THEN {c} ELSE Active(s)
    BY <2>1, <2>2, <2>3, <2>5 DEF Active
  <2>7. Holders' = [Holders EXCEPT ![c] = {c}]
    BY <2>6 DEF Holders
  <2>8. Line!Begin(c)
    BY <2>2, <2>4, <2>7 DEF Line!Begin, InUse, Holders
  <2> QED
    BY <2>8 DEF Line!Next
<1> QED
  BY <1>1, <1>2 DEF Login

\* An exchange passes the line on, to a token never used before.
LEMMA RotateLine ==
  ASSUME Inv, NEW c \in Calls, Rotate(c)
  PROVE  Line!Next \/ UNCHANGED Line!vars
<1>1. CASE UNCHANGED token
  BY <1>1 DEF Line!vars, Active
<1>2. CASE ~UNCHANGED token
  <2>1. PICK t \in Calls : t = call[c].presents
    BY DEF Inv, TypeOK, Handlers, Rotate, Phase
  <2>2. token[t].state = "active" /\ token[t] \in Rows
    BY <1>2, <2>1 DEF Rotate, StillActive, Inv, TypeOK
  <2>3. PICK s \in Calls : s = token[t].session
    BY <2>2 DEF Inv, Rooted
  <2> DEFINE old == [token[t] EXCEPT !.state = "revoked", !.next = c]
             new == NewRow(s)
  <2>4. token' = [token EXCEPT ![t] = old, ![c] = new]
    BY <1>2, <2>1, <2>3 DEF Rotate
  <2>5. old.state = "revoked" /\ old.session = s
    BY <2>2, <2>3 DEF Rows
  <2>6. new.state = "active" /\ new.session = s
    BY NewRowType
  <2>7. token[c].state = "none"
    BY DEF Rotate, Inv, Phase
  <2> HIDE DEF old, new
  <2>8. /\ token'[t] = old /\ token'[c] = new /\ t # c
        /\ \A d \in Calls \ {t, c} : token'[d] = token[d]
    BY <2>2, <2>4, <2>7 DEF Inv, TypeOK
  <2>9. InUse' = InUse \cup {c}
    BY <2>2, <2>5, <2>6, <2>8 DEF InUse
  <2>10. ASSUME NEW d \in Calls, token[d].state = "active", token[d].session = s
         PROVE  d = t
    BY <2>2, <2>3, <2>10 DEF Inv, OneActive
  <2>11. ASSUME NEW z \in Calls
         PROVE  Active(z)' = IF z = s THEN {c} ELSE Active(z)
    <3> SUFFICES ASSUME NEW d \in Calls
                 PROVE  (token'[d].state = "active" /\ token'[d].session = z)
                        <=> IF z = s THEN d = c
                            ELSE token[d].state = "active" /\ token[d].session = z
      BY DEF Active
    <3>1. CASE d = t
      BY <2>3, <2>5, <2>8, <3>1
    <3>2. CASE d = c
      BY <2>6, <2>7, <2>8, <3>2
    <3>3. CASE d \notin {t, c}
      BY <2>8, <2>10, <3>3
    <3> QED
      BY <3>1, <3>2, <3>3
  <2>12. Holders' = [Holders EXCEPT ![s] = {c}]
    BY <2>11 DEF Holders
  <2>13. Holders[s] # {} /\ c \in Calls \ InUse
    BY <2>2, <2>3, <2>7 DEF Holders, InUse, Active
  <2>14. Line!Exchange(s)
    BY <2>9, <2>12, <2>13 DEF Line!Exchange, InUse, Holders
  <2> QED
    BY <2>14 DEF Line!Next
<1> QED
  BY <1>1, <1>2

\* A logout ends the line of a good token, and does nothing to another.
LEMMA LogoutRevokeLine ==
  ASSUME Inv, NEW c \in Calls, LogoutRevoke(c)
  PROVE  Line!Next \/ UNCHANGED Line!vars
<1>1. PICK t \in Calls : t = call[c].presents
  BY DEF Inv, TypeOK, Handlers, LogoutRevoke, Phase
<1>2. token[t].state # "none" /\ token[t] \in Rows
  BY <1>1 DEF LogoutRevoke, Inv, TypeOK, Phase
<1>3. PICK s \in Calls : s = token[t].session
  BY <1>2 DEF Inv, Rooted
<1> DEFINE row == Revoked(token[t])
<1>4. token' = [token EXCEPT ![t] = row]
  BY <1>1 DEF LogoutRevoke
<1>5. row.state = "revoked" /\ row.session = s
  BY <1>2, <1>3 DEF Rows, Revoked
<1> HIDE DEF row
<1>6. /\ token'[t] = row
      /\ \A d \in Calls \ {t} : token'[d] = token[d]
  BY <1>4 DEF Inv, TypeOK
<1>7. InUse' = InUse
  BY <1>2, <1>5, <1>6 DEF InUse
<1>8. CASE token[t].state = "active"
  <2>1. ASSUME NEW d \in Calls, token[d].state = "active", token[d].session = s
        PROVE  d = t
    BY <1>3, <1>8, <2>1 DEF Inv, OneActive
  <2>2. ASSUME NEW z \in Calls
        PROVE  Active(z)' = IF z = s THEN {} ELSE Active(z)
    BY <1>3, <1>5, <1>6, <2>1 DEF Active
  <2>3. Holders' = [Holders EXCEPT ![s] = {}]
    BY <2>2 DEF Holders
  <2>4. Holders[s] # {}
    BY <1>3, <1>8 DEF Holders, Active
  <2>5. Line!End(s)
    BY <1>7, <2>3, <2>4 DEF Line!End, InUse, Holders
  <2> QED
    BY <2>5 DEF Line!Next
<1>9. CASE token[t].state # "active"
  <2>1. ASSUME NEW z \in Calls PROVE Active(z)' = Active(z)
    BY <1>5, <1>6, <1>9 DEF Active
  <2>2. Holders' = Holders
    BY <2>1 DEF Holders
  <2> QED
    BY <1>7, <2>2 DEF Line!vars, InUse, Holders
<1> QED
  BY <1>8, <1>9

\* The time of a token is not seen by SessionLine.
LEMMA ExpireLine ==
  ASSUME Inv, NEW c \in Calls, Expire(c)
  PROVE  UNCHANGED Line!vars
<1>1. token[c] \in Rows
  BY DEF Inv, TypeOK
<1> DEFINE row == [token[c] EXCEPT !.expired = TRUE]
<1>2. row.state = token[c].state /\ row.session = token[c].session
  BY <1>1 DEF Rows
<1>3. token' = [token EXCEPT ![c] = row]
  BY DEF Expire
<1> HIDE DEF row
<1>4. \A d \in Calls : /\ token'[d].state = token[d].state
                       /\ token'[d].session = token[d].session
  BY <1>2, <1>3 DEF Inv, TypeOK
<1>5. InUse' = InUse
  BY <1>4 DEF InUse
<1>6. ASSUME NEW z \in Calls PROVE Active(z)' = Active(z)
  BY <1>4 DEF Active
<1>7. Holders' = Holders
  BY <1>6 DEF Holders
<1> QED
  BY <1>5, <1>7 DEF Line!vars, InUse, Holders

\* The endpoints implement SessionLine, for any number of calls: a token is
\* exchanged at most once, and a session that ended stays ended.
THEOREM KeepsLine == Spec => ImplementsSessionLine
<1>1. Init => Line!Init
  BY DEF Init, Line!Init, NoRow, Active
<1>2. Inv /\ [Next]_vars => Line!Next \/ UNCHANGED Line!vars
  <2> SUFFICES ASSUME Inv, [Next]_vars PROVE Line!Next \/ UNCHANGED Line!vars
    OBVIOUS
  <2>1. CASE UNCHANGED token
    BY <2>1 DEF Line!vars, Active
  <2>2. ASSUME NEW c \in Calls, Login(c) PROVE Line!Next \/ UNCHANGED Line!vars
    BY <2>2, LoginLine
  <2>3. ASSUME NEW c \in Calls, Rotate(c) PROVE Line!Next \/ UNCHANGED Line!vars
    BY <2>3, RotateLine
  <2>4. ASSUME NEW c \in Calls, LogoutRevoke(c)
        PROVE  Line!Next \/ UNCHANGED Line!vars
    BY <2>4, LogoutRevokeLine
  <2>5. ASSUME NEW c \in Calls, Expire(c) PROVE UNCHANGED Line!vars
    BY <2>5, ExpireLine
  <2> QED
    BY <2>1, <2>2, <2>3, <2>4, <2>5
    DEF Next, Quiet, Handle, Post, RefreshLook, LogoutLook, Fail, vars
<1> QED
  BY <1>1, <1>2, Invariance, PTL DEF Spec, ImplementsSessionLine, Line!Spec
==============================================================================
