---------------------------- MODULE RefreshTokens ----------------------------
(***************************************************************************)
(* The session endpoints of AuthController (Register and Login, Refresh,   *)
(* Logout) over the refresh_tokens table, called concurrently.             *)
(*                                                                         *)
(* A call is handled in the steps other calls can see: the lookup of the   *)
(* presented token, then the write.  Refresh revokes by a conditional      *)
(* UPDATE and inserts the replacement in the same transaction; other       *)
(* UPDATEs of the row wait for it, so the two are one step.  Logout writes *)
(* the entity it looked up.                                                *)
(*                                                                         *)
(* The token a call hands out bears the name of the call: 64 random bytes  *)
(* do not come up twice.  Passwords, rate limits and the JWT of the answer *)
(* change nothing here.  No endpoint deletes users or refresh tokens.      *)
(***************************************************************************)
CONSTANTS
  Calls,   \* calls of the endpoints
  Null     \* a string that is no token; no replacement

ASSUME TokensAssumption == Null \notin Calls

VARIABLES
  token,   \* the refresh_tokens table, by the call that inserted the row
  pc,      \* where each call is, and how it was answered
  call     \* what each call is and which token it presents

vars == <<token, pc, call>>

-----------------------------------------------------------------------------
\* "session" is no column: it names the login the token goes back to, which
\* the table only records as replaced_by_token_hash, from the other end.
Rows == [state : {"none", "active", "revoked"}, expired : BOOLEAN,
         next : Calls \cup {Null}, session : Calls \cup {Null}]

Handlers == [op : {"none", "login", "refresh", "logout"},
             presents : Calls \cup {Null}, found : BOOLEAN]

NoRow == [state |-> "none", expired |-> FALSE, next |-> Null, session |-> Null]

\* A row as CreateRefreshToken makes it.
NewRow(s) == [NoRow EXCEPT !.state = "active", !.session = s]

\* What the token table and the calls of the endpoints may hold.
TypeOK ==
  /\ token \in [Calls -> Rows]
  /\ pc \in [Calls -> {"idle", "posted", "rotate", "revoke",
                       "ok", "refused", "failed"}]
  /\ call \in [Calls -> Handlers]

Init ==
  /\ token = [c \in Calls |-> NoRow]
  /\ pc = [c \in Calls |-> "idle"]
  /\ call = [c \in Calls |->
               [op |-> "none", presents |-> Null, found |-> FALSE]]

InFlight(c) == pc[c] \in {"posted", "rotate", "revoke"}

Goto(c, place) == pc' = [pc EXCEPT ![c] = place]

\* A client sends a call: with a token it was given, or anything else.
Post(c, op, t) ==
  /\ pc[c] = "idle"
  /\ t # Null => token[t].state # "none"
  /\ op = "login" => t = Null
  /\ call' = [call EXCEPT ![c] = [@ EXCEPT !.op = op, !.presents = t]]
  /\ Goto(c, "posted")
  /\ UNCHANGED token

-----------------------------------------------------------------------------
\* Register and Login: the insert of the first token of a session, or a
\* refusal (bad password, too many attempts).
Login(c) ==
  /\ pc[c] = "posted" /\ call[c].op = "login"
  /\ \/ /\ token' = [token EXCEPT ![c] = NewRow(c)]
        /\ Goto(c, "ok")
     \/ /\ Goto(c, "refused")
        /\ UNCHANGED token
  /\ UNCHANGED call

\* The lookup of Refresh finds the token, not revoked and not expired.
Usable(t) ==
  t # Null /\ token[t].state = "active" /\ ~token[t].expired

\* Refresh up to its transaction.
RefreshLook(c) ==
  /\ pc[c] = "posted" /\ call[c].op = "refresh"
  /\ Goto(c, IF Usable(call[c].presents) THEN "rotate" ELSE "refused")
  /\ UNCHANGED <<token, call>>

\* Mutated: the UPDATE has no WHERE revoked_at IS NULL; the lookup said so.
StillActiveAsRead(t) == TRUE

\* The WHERE clause of RevokeActiveAsync.  It compares the expiry with the
\* time the call began, so only revocation can have changed since the lookup.
StillActive(t) == token[t].state = "active"

\* The transaction of Refresh: revoke, point at the replacement, insert it.
Rotate(c) ==
  LET t == call[c].presents
  IN /\ pc[c] = "rotate"
     /\ \/ /\ StillActive(t)
           /\ token' = [token EXCEPT ![t].state = "revoked", ![t].next = c,
                                     ![c] = NewRow(token[t].session)]
           /\ Goto(c, "ok")
        \/ /\ ~StillActive(t)
           /\ Goto(c, "refused")
           /\ UNCHANGED token
     /\ UNCHANGED call

\* Logout up to its write; without a token that is known and not revoked it
\* answers NoContent at once.
LogoutLook(c) ==
  LET t == call[c].presents
      live == t # Null /\ token[t].state = "active"
  IN /\ pc[c] = "posted" /\ call[c].op = "logout"
     /\ \/ /\ live
           /\ call' = [call EXCEPT ![c].found = TRUE]
           /\ Goto(c, "revoke")
        \/ /\ ~live
           /\ Goto(c, "ok")
           /\ UNCHANGED call
     /\ UNCHANGED token

\* Mutated: the token is put back in use by its logout.
RevokedStays(row) == row

\* SET revoked_at, whatever the row has become; the other columns stay.
Revoked(row) == [row EXCEPT !.state = "revoked"]

\* Logout: the write.
LogoutRevoke(c) ==
  /\ pc[c] = "revoke"
  /\ token' = [token EXCEPT ![call[c].presents] = Revoked(@)]
  /\ Goto(c, "ok")
  /\ UNCHANGED call

\* What the server does by itself with a call.
Handle(c) ==
  Login(c) \/ RefreshLook(c) \/ Rotate(c) \/ LogoutLook(c) \/ LogoutRevoke(c)

\* A call is given up before its write commits: it never arrives, it is
\* cancelled, a statement throws or the process stops.
Fail(c) ==
  /\ InFlight(c)
  /\ Goto(c, "failed")
  /\ UNCHANGED <<token, call>>

\* The time of expires_at comes.
Expire(t) ==
  /\ token[t].state # "none" /\ ~token[t].expired
  /\ token' = [token EXCEPT ![t].expired = TRUE]
  /\ UNCHANGED <<pc, call>>

\* Every call has been answered and every token has expired.
Quiet ==
  /\ \A c \in Calls : /\ pc[c] \in {"ok", "refused", "failed"}
                      /\ token[c].state # "none" => token[c].expired
  /\ UNCHANGED vars

Next ==
  \/ \E c \in Calls :
       \/ \E op \in {"login", "refresh", "logout"}, t \in Calls \cup {Null} :
            Post(c, op, t)
       \/ Handle(c) \/ Fail(c) \/ Expire(c)
  \/ Quiet

Spec == Init /\ [][Next]_vars

-----------------------------------------------------------------------------
Active(s) == {t \in Calls : token[t].state = "active" /\ token[t].session = s}

\* However many calls present one token together, a session never forks: no
\* two of its tokens are good.
OneActive ==
  \A s, t \in Calls :
    /\ token[s].state = "active" /\ token[t].state = "active"
    /\ token[s].session = token[t].session
    => s = t

\* A logout that found its token good has ended the session, unless a Refresh
\* of the same token went between its lookup and its write: then the
\* replacement lives on, and the row says so.
LogoutEndsOrOvertaken ==
  \A c \in Calls :
    LET t == call[c].presents
    IN pc[c] = "ok" /\ call[c].op = "logout" /\ call[c].found
         => Active(token[t].session) = {} \/ token[t].next # Null

\* The endpoints keep SessionLine: every good token came of a login or of one
\* exchange of the good token before it, and what ended stays ended.
Line == INSTANCE SessionLine WITH
  Tokens <- Calls,
  used <- {t \in Calls : token[t].state # "none"},
  holder <- [s \in Calls |-> Active(s)]

ImplementsSessionLine == Line!Spec
-----------------------------------------------------------------------------
\* Where a call is says what it presents.
Phase(c) ==
  /\ token[c].state # "none" => pc[c] = "ok" /\ call[c].op # "logout"
  /\ token[c].state # "none" <=> token[c].session # Null
  /\ token[c].next # Null => token[c].state = "revoked"
  /\ pc[c] \in {"idle", "posted"} => ~call[c].found
  /\ pc[c] \in {"rotate", "revoke"} =>
       /\ call[c].presents # Null
       /\ token[call[c].presents].state # "none"
  /\ pc[c] = "revoke" => call[c].op = "logout" /\ call[c].found
  /\ pc[c] = "rotate" => call[c].op = "refresh"
  /\ call[c].found => /\ call[c].presents # Null
                      /\ token[call[c].presents].state # "none"

\* The session a token belongs to has begun: its first token is in the table.
Rooted ==
  \A t \in Calls : token[t].state # "none" =>
    /\ token[t].session \in Calls
    /\ token[token[t].session].state # "none"

\* A token that was revoked without a replacement was the last of its session.
LastRevoked ==
  \A t \in Calls : token[t].state = "revoked" /\ token[t].next = Null
                     => Active(token[t].session) = {}

Inv ==
  /\ TypeOK
  /\ \A c \in Calls : Phase(c)
  /\ Rooted
  /\ OneActive
  /\ LastRevoked
  /\ LogoutEndsOrOvertaken
==============================================================================
