------------------------------- MODULE Browser -------------------------------
(***************************************************************************)
(* One tab of the web client against the session endpoints: the axios      *)
(* instance of lib/api.ts with its 401 interceptor, the auth store of      *)
(* lib/store.ts and the login page, with RefreshTokens as the server.      *)
(*                                                                         *)
(* A task of the event loop is one step: the send of a request, which      *)
(* reads the access token from localStorage, and each answer that arrives. *)
(* Between two of them any other task may run and localStorage change.     *)
(* Whether an access token is still good when it arrives is left open:     *)
(* any request may be answered 401.  The retry of requests after network   *)
(* errors is left out, and so is the expiry of refresh tokens: to the page *)
(* a refresh that fails is like any other.  The JWT of an answer bears the *)
(* name of the refresh token it came with.                                 *)
(***************************************************************************)
CONSTANTS
  Requests,   \* requests the pages send through the axios instance
  Calls,      \* calls of the session endpoints
  Earlier,    \* the call by which the user signed in before the page loaded
  Null

ASSUME BrowserAssumption == Earlier \in Calls /\ Null \notin Calls

VARIABLES
  token, pc, call,   \* the server, see RefreshTokens
  storage,   \* localStorage: token and refreshToken
  signedIn,  \* isAuthenticated of the auth store
  page,      \* "auth" on /auth/login, otherwise "app"
  leaving,   \* window.location.href is set, the page not yet unloaded
  request,   \* the requests and what their promise chain holds
  lost       \* history: calls the page no longer waits for, unanswered

server == <<token, pc, call>>
client == <<storage, signedIn, page, leaving, request, lost>>
vars == <<server, client>>

Server == INSTANCE RefreshTokens

-----------------------------------------------------------------------------
NoTokens == [access |-> Null, refresh |-> Null]
Pair(c) == [access |-> c, refresh |-> c]

\* The login page's request is a call of the session endpoints; a "refused" one
\* is answered 401 whatever its access token, as change-password does when the
\* current password is wrong.
Kinds == {"api", "refused", "login"}

\* "via" is the call of the session endpoints a request waits for, "retried"
\* its _retry flag.
Promises == [kind : Kinds, phase : {"idle", "sent", "refreshing", "done"},
             retried : BOOLEAN, via : Calls \cup {Null}]

\* What one tab may hold.  The two keys of localStorage are of one answer, or
\* both are gone: whichever of logins, refreshes, sign-outs and 401s (one of
\* which removes the access token alone) comes between, neither key is left
\* behind without the other.
TypeOK ==
  /\ Server!TypeOK
  /\ storage \in [access : Calls \cup {Null}, refresh : Calls \cup {Null}]
  /\ storage.access = storage.refresh
  /\ signedIn \in BOOLEAN /\ leaving \in BOOLEAN
  /\ page \in {"app", "auth"}
  /\ request \in [Requests -> Promises]
  /\ lost \subseteq Calls

\* The page has been loaded, by a visitor or by a user signed in Earlier.
Init ==
  /\ storage \in {NoTokens, Pair(Earlier)}
  /\ signedIn = (storage # NoTokens)
  /\ token = [c \in Calls |-> IF signedIn /\ c = Earlier
                              THEN Server!NewRow(c) ELSE Server!NoRow]
  /\ pc = [c \in Calls |-> IF c = Earlier THEN "ok" ELSE "idle"]
  /\ call = [c \in Calls |->
               [op |-> IF c = Earlier THEN "login" ELSE "none",
                presents |-> Null, found |-> FALSE]]
  /\ page = "app" /\ leaving = FALSE
  /\ request = [q \in Requests |->
                  [kind |-> "api", phase |-> "idle", retried |-> FALSE,
                   via |-> Null]]
  /\ lost = {}

\* The next call: which name it gets does not matter.
SomeCallLeft == \E c \in Calls : pc[c] = "idle"
NextCall == CHOOSE c \in Calls : pc[c] = "idle"

\* A request is put on the wire.
Sent(q, kind, retried) ==
  \/ /\ kind # "login"
     /\ request' = [request EXCEPT
                      ![q] = [kind |-> kind, phase |-> "sent",
                              retried |-> retried, via |-> Null]]
     /\ UNCHANGED server
  \/ /\ kind = "login" /\ SomeCallLeft
     /\ request' = [request EXCEPT
                      ![q] = [kind |-> kind, phase |-> "sent",
                              retried |-> retried, via |-> NextCall]]
     /\ Server!Post(NextCall, "login", Null)

Send(q, kind) ==
  /\ request[q].phase = "idle"
  /\ kind = "login" => page = "auth"
  /\ Sent(q, kind, FALSE)
  /\ UNCHANGED <<storage, signedIn, page, leaving, lost>>

Settle(q) == request' = [request EXCEPT ![q].phase = "done"]

-----------------------------------------------------------------------------
\* The server accepts a request: its access token is good, or none is needed.
AnswerOk(q) ==
  /\ request[q].phase = "sent" /\ request[q].kind = "api"
  /\ Settle(q)
  /\ UNCHANGED <<server, storage, signedIn, page, leaving, lost>>

\* The login page gets its answer: login() of the store, router.push.
LoginOk(q) ==
  /\ request[q].phase = "sent" /\ request[q].kind = "login"
  /\ pc[request[q].via] = "ok"
  /\ storage' = Pair(request[q].via)
  /\ signedIn' = TRUE
  /\ page' = "app"
  /\ Settle(q)
  /\ UNCHANGED <<server, leaving, lost>>

\* Mutated: the refresh token is left behind.
SignOutKeeps(keepRefresh) ==
  /\ storage' = [storage EXCEPT !.access = Null]
  /\ leaving' = (leaving \/ page # "auth")

\* Tokens are removed and the browser told to go to the login page.
SignOutHere(keepRefresh) ==
  /\ storage' = IF keepRefresh THEN [storage EXCEPT !.access = Null]
                               ELSE NoTokens
  /\ leaving' = (leaving \/ page # "auth")

\* Mutated: the interceptor does not remember that it has been here.
MayRefreshAlways(q) == TRUE

MayRefresh(q) == ~request[q].retried

\* A 401: the access token is missing or expired, or the password is wrong, or
\* the endpoint itself answers so.  The interceptor presents the refresh token
\* stored now, once in the life of a request.
Answer401(q) ==
  /\ request[q].phase = "sent"
  /\ request[q].kind = "login" => pc[request[q].via] = "refused"
  /\ \/ /\ MayRefresh(q) /\ storage.refresh # Null
        /\ SomeCallLeft
        /\ request' = [request EXCEPT ![q].phase = "refreshing",
                                      ![q].retried = TRUE, ![q].via = NextCall]
        /\ Server!Post(NextCall, "refresh", storage.refresh)
        /\ UNCHANGED <<storage, leaving>>
     \/ /\ MayRefresh(q) /\ storage.refresh = Null
        /\ SignOutHere(TRUE)
        /\ Settle(q)
        /\ UNCHANGED server
     \/ /\ ~MayRefresh(q)
        /\ Settle(q)
        /\ UNCHANGED <<server, storage, leaving>>
  /\ UNCHANGED <<signedIn, page, lost>>

\* Mutated: only the access token of the answer is stored.
KeptAccess(c) == [storage EXCEPT !.access = c]

\* Both tokens of an answer of Refresh replace what is stored.
Kept(c) == Pair(c)

\* The refresh token was exchanged: both new tokens are stored and the request
\* is sent again.
RefreshOk(q) ==
  LET c == request[q].via
  IN /\ request[q].phase = "refreshing"
     /\ pc[c] = "ok"
     /\ storage' = Kept(c)
     /\ Sent(q, request[q].kind, TRUE)
     /\ UNCHANGED <<signedIn, page, leaving, lost>>

\* The refresh was refused, or the connection was lost, whatever the server
\* made of the call: both tokens are removed.
RefreshFailed(q) ==
  LET c == request[q].via
  IN /\ request[q].phase = "refreshing"
     /\ SignOutHere(FALSE)
     /\ Settle(q)
     /\ lost' = IF pc[c] \in {"refused", "failed"} THEN lost ELSE lost \cup {c}
     /\ UNCHANGED <<server, signedIn, page>>

\* The call of the login page was given up by the server.
LoginFailed(q) ==
  /\ request[q].phase = "sent" /\ request[q].kind = "login"
  /\ pc[request[q].via] = "failed"
  /\ Settle(q)
  /\ UNCHANGED <<server, storage, signedIn, page, leaving, lost>>

\* The connection is lost, or the timeout of the axios instance comes.
RequestFailed(q) ==
  LET c == request[q].via
  IN /\ request[q].phase = "sent"
     /\ Settle(q)
     /\ lost' = IF request[q].kind = "login" THEN lost \cup {c} ELSE lost
     /\ UNCHANGED <<server, storage, signedIn, page, leaving>>

-----------------------------------------------------------------------------
\* The user signs out in the header: logout() of the store.  The server is not
\* told and requests in flight go on.
Logout ==
  /\ signedIn
  /\ storage' = NoTokens
  /\ signedIn' = FALSE
  /\ page' = "app"
  /\ UNCHANGED <<server, leaving, request, lost>>

\* The user follows a link inside the application.
Visit(where) ==
  /\ page # where
  /\ page' = where
  /\ UNCHANGED <<server, storage, signedIn, leaving, request, lost>>

\* The calls whose answers the page still waits for.
Awaited ==
  {request[q].via : q \in {p \in Requests :
     request[p].phase \in {"sent", "refreshing"} /\ request[p].via # Null}}

\* The page is unloaded (a reload by the user, or the way to the login page)
\* and loaded again: its requests are gone, the store rehydrates.
Reload ==
  /\ page' = IF leaving THEN "auth" ELSE page
  /\ leaving' = FALSE
  /\ signedIn' = (storage.access # Null)
  /\ lost' = lost \cup Awaited
  /\ request' = [q \in Requests |->
                   IF request[q].phase = "idle" THEN request[q]
                   ELSE [request[q] EXCEPT !.phase = "done"]]
  /\ UNCHANGED <<server, storage>>

ServerStep ==
  /\ \E c \in Calls : Server!Handle(c) \/ Server!Fail(c)
  /\ UNCHANGED client

\* What arrives at a request that waits.
Arrive(q) ==
  \/ AnswerOk(q) \/ LoginOk(q) \/ LoginFailed(q) \/ Answer401(q)
  \/ RefreshOk(q) \/ RefreshFailed(q)

Next ==
  \/ \E q \in Requests :
       \/ \E kind \in Kinds : Send(q, kind)
       \/ Arrive(q) \/ RequestFailed(q)
  \/ Logout \/ Reload
  \/ \E where \in {"app", "auth"} : Visit(where)
  \/ ServerStep

Spec == Init /\ [][Next]_vars

\* The server handles what reaches it and answers come back.  Nothing else is
\* certain: no timeout, no user, no expiry.
Fairness ==
  /\ \A c \in Calls : WF_vars(Server!Handle(c) /\ UNCHANGED client)
  /\ \A q \in Requests : WF_vars(Arrive(q))

FairSpec == Spec /\ Fairness

-----------------------------------------------------------------------------
\* If the refresh token in localStorage is used up, then by an exchange whose
\* answer this page still waits for, or will never get: no order in which
\* answers, logins, logouts and reloads come leaves a used token behind
\* another way.
StoredTokenExplained ==
  LET t == storage.refresh
  IN t # Null /\ token[t].state = "revoked" =>
       \/ token[t].next \in lost
       \/ \E q \in Requests : /\ request[q].phase = "refreshing"
                              /\ request[q].via = token[t].next

\* Every request the page sends comes to an end, even one that is answered 401
\* each time: it waits for one refresh and is sent again once, never round and
\* round.
EveryRequestSettles ==
  \A q \in Requests : request[q].phase = "sent" ~> request[q].phase = "done"

\* After the user has signed out, tokens come into localStorage by a login.
LogoutSticks ==
  [][~signedIn /\ storage = NoTokens /\ storage' # NoTokens => signedIn']_vars
==============================================================================
