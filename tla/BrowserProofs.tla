---------------------------- MODULE BrowserProofs ----------------------------
(***************************************************************************)
(* The tab of Browser for any number of requests and calls: what it holds  *)
(* is of its kind, and a used refresh token stays in localStorage for one  *)
(* of two reasons only.                                                    *)
(*                                                                         *)
(* A token used up was presented by a call of Refresh, and so was in       *)
(* localStorage then.  It is there still, so the call's answer has not     *)
(* been stored: storing it would have replaced the token.  That the token  *)
(* has not come back since is the heart of the matter: what a request      *)
(* waits for is waited for by it alone (ViaDiffers), and has neither been  *)
(* stored nor presented before its answer arrives (Unseen).                *)
(*                                                                         *)
(* The server of the tab is RefreshTokens, found in a state of its         *)
(* invariant: every step of the composition is one of its steps or leaves  *)
(* it alone.  What is proved of RefreshTokens thus holds of it here.       *)
(***************************************************************************)
EXTENDS Browser, TLAPS

\* A call of the session endpoints: a token has come of one that was answered,
\* and what it presents is the name of an earlier call.
CallPlace(c) ==
  /\ token[c].state # "none" => pc[c] = "ok"
  /\ pc[c] = "idle" => call[c].op = "none"
  /\ pc[c] = "rotate" => call[c].op = "refresh"
  /\ call[c].op # "logout" /\ pc[c] # "revoke"
  /\ call[c].presents # Null => pc[call[c].presents] # "idle"
  /\ call[c].op = "refresh" => call[c].presents # Null

\* A used token was used by the call it points at.
UsedBy(t) ==
  token[t].state = "revoked" =>
    /\ token[t].next \in Calls
    /\ pc[token[t].next] = "ok"
    /\ call[token[t].next].op = "refresh" /\ call[token[t].next].presents = t

\* The page is waiting for a call of the session endpoints.
Waits(q) == request[q].phase \in {"sent", "refreshing"} /\ request[q].via # Null

\* A token nobody has stored and nobody has presented.
Unseen(t) == t # storage.refresh /\ \A c \in Calls : call[c].presents # t

RequestPlace(q) ==
  /\ request[q].phase = "refreshing" => request[q].via # Null
  /\ request[q].phase = "sent" => (request[q].via # Null <=> request[q].kind = "login")
  /\ Waits(q) => pc[request[q].via] # "idle" /\ Unseen(request[q].via)

ViaDiffers ==
  \A p, q \in Requests : Waits(p) /\ Waits(q) /\ request[p].via = request[q].via => p = q

\* The answer of c has not arrived, or will not.
Owed(c) ==
  \/ c \in lost
  \/ \E q \in Requests : request[q].phase = "refreshing" /\ request[q].via = c

\* A refresh with the token now stored has brought nothing yet.
StoredIsUnanswered ==
  \A c \in Calls : call[c].op = "refresh" /\ call[c].presents = storage.refresh =>
    Owed(c) \/ pc[c] \in {"refused", "failed"}

BrowserInv ==
  /\ TypeOK
  /\ \A c \in Calls : CallPlace(c) /\ UsedBy(c)
  /\ storage.refresh # Null => pc[storage.refresh] # "idle"
  /\ \A q \in Requests : RequestPlace(q)
  /\ ViaDiffers
  /\ StoredIsUnanswered

-----------------------------------------------------------------------------
\* A name that no call has had.
LEMMA NextCallIdle ==
  ASSUME SomeCallLeft
  PROVE  NextCall \in Calls /\ pc[NextCall] = "idle"
BY DEF SomeCallLeft, NextCall

\* The page has been loaded.
LEMMA InitInv == Init => BrowserInv
<1> SUFFICES ASSUME Init PROVE BrowserInv
  OBVIOUS
<1> USE BrowserAssumption
<1>1. TypeOK
  <2>1. Server!NewRow(Earlier) \in Server!Rows /\ Server!NoRow \in Server!Rows
    BY DEF Server!NewRow, Server!NoRow, Server!Rows
  <2>2. token \in [Calls -> Server!Rows]
    BY <2>1 DEF Init
  <2>3. pc \in [Calls -> {"idle", "posted", "rotate", "revoke", "ok", "refused", "failed"}]
    BY DEF Init
  <2>4. call \in [Calls -> Server!Handlers]
    BY DEF Init, Server!Handlers
  <2>5. /\ storage \in [access : Calls \cup {Null}, refresh : Calls \cup {Null}]
        /\ storage.access = storage.refresh
    BY DEF Init, NoTokens, Pair
  <2>6. request \in [Requests -> Promises]
    BY DEF Init, Promises, Kinds
  <2>7. /\ signedIn \in BOOLEAN /\ leaving \in BOOLEAN /\ page \in {"app", "auth"}
        /\ lost \subseteq Calls
    BY DEF Init
  <2> QED
    BY <2>2, <2>3, <2>4, <2>5, <2>6, <2>7 DEF TypeOK, Server!TypeOK
<1>2. ASSUME NEW c \in Calls PROVE CallPlace(c) /\ UsedBy(c)
  BY DEF Init, CallPlace, UsedBy, Server!NewRow, Server!NoRow
<1>3. storage.refresh # Null => pc[storage.refresh] # "idle"
  BY DEF Init, NoTokens, Pair
<1>4. \A q \in Requests : RequestPlace(q) /\ ~Waits(q)
  BY DEF Init, RequestPlace, Waits
<1>5. StoredIsUnanswered
  BY DEF Init, StoredIsUnanswered
<1> QED
  BY <1>1, <1>2, <1>3, <1>4, <1>5 DEF BrowserInv, ViaDiffers

-----------------------------------------------------------------------------
\* A step of the page that calls no session endpoint and stores no new refresh
\* token: what waits after it has waited before, what is owed is owed still.
LEMMA PageInv ==
  ASSUME BrowserInv, UNCHANGED server, TypeOK',
         storage'.refresh \in {storage.refresh, Null},
         \A q \in Requests :
           /\ Waits(q)' => request'[q] = request[q]
           /\ request'[q].phase = "refreshing" => request'[q].via # Null
           /\ request'[q].phase = "sent" =>
                (request'[q].via # Null <=> request'[q].kind = "login"),
         \A c \in Calls : Owed(c) => Owed(c)' \/ pc[c] \in {"refused", "failed"}
  PROVE  BrowserInv'
<1> USE DEF server
<1>1. \A c \in Calls : (CallPlace(c) /\ UsedBy(c))'
  BY DEF BrowserInv, CallPlace, UsedBy
<1>2. (storage.refresh # Null => pc[storage.refresh] # "idle")'
  BY DEF BrowserInv
<1>3. ASSUME NEW q \in Requests, Waits(q)' 
      PROVE  Waits(q) /\ request'[q].via = request[q].via
  BY <1>3 DEF Waits
<1>4. ASSUME NEW t, Unseen(t), t # Null PROVE Unseen(t)'
  BY <1>4 DEF Unseen
<1>5. ASSUME NEW q \in Requests PROVE RequestPlace(q)'
  <2>1. CASE Waits(q)'
    <3>1. /\ pc[request[q].via] # "idle" /\ Unseen(request[q].via)
          /\ request[q].via # Null /\ request'[q].via = request[q].via
      BY <1>3, <2>1 DEF BrowserInv, RequestPlace, Waits
    <3> QED
      BY <1>4, <3>1 DEF RequestPlace
  <2>2. CASE ~Waits(q)'
    BY <2>2 DEF RequestPlace
  <2> QED
    BY <2>1, <2>2
<1>6. ViaDiffers'
  BY <1>3 DEF BrowserInv, ViaDiffers
<1>7. StoredIsUnanswered'
  BY DEF BrowserInv, StoredIsUnanswered, CallPlace
<1> QED
  BY <1>1, <1>2, <1>5, <1>6, <1>7 DEF BrowserInv

\* The answer to what q waited for is stored, and calls no session endpoint.
LEMMA StoreInv ==
  ASSUME BrowserInv, UNCHANGED server, TypeOK',
         NEW q \in Requests, Waits(q), storage' = Pair(request[q].via),
         request'[q].phase \in {"sent", "done"},
         request'[q].phase = "sent" =>
           request'[q].via = Null /\ request'[q].kind # "login",
         \A p \in Requests \ {q} : request'[p] = request[p]
  PROVE  BrowserInv'
<1> USE DEF server
<1>1. \A c \in Calls : (CallPlace(c) /\ UsedBy(c))'
  BY DEF BrowserInv, CallPlace, UsedBy
<1>2. storage'.refresh = request[q].via
  BY DEF Pair
<1>3. pc[request[q].via] # "idle" /\ Unseen(request[q].via)
  BY DEF BrowserInv, RequestPlace
<1>4. ~Waits(q)'
  BY DEF Waits
<1>5. ASSUME NEW p \in Requests, Waits(p)'
      PROVE  p # q /\ Waits(p) /\ request'[p] = request[p]
  BY <1>4, <1>5 DEF Waits
<1>6. ASSUME NEW p \in Requests PROVE RequestPlace(p)'
  <2>1. CASE p = q
    BY <1>4, <2>1 DEF RequestPlace
  <2>2. CASE p # q
    <3>1. request'[p] = request[p] /\ (Waits(p)' <=> Waits(p))
      BY <2>2 DEF Waits
    <3>2. Waits(p) => request[p].via # request[q].via
      BY <2>2 DEF BrowserInv, ViaDiffers
    <3>3. Waits(p) => Unseen(request[p].via)'
      BY <1>2, <3>1, <3>2 DEF BrowserInv, RequestPlace, Unseen
    <3> QED
      BY <3>1, <3>3 DEF BrowserInv, RequestPlace
  <2> QED
    BY <2>1, <2>2
<1>7. ViaDiffers'
  BY <1>5 DEF BrowserInv, ViaDiffers
<1>8. StoredIsUnanswered'
  BY <1>2, <1>3 DEF StoredIsUnanswered, Unseen
<1> QED
  BY <1>1, <1>2, <1>3, <1>6, <1>7, <1>8 DEF BrowserInv

-----------------------------------------------------------------------------
\* A call is posted under a name that no call has had: no request waits for it,
\* nobody has its token, and it uses up none.
LEMMA PostFacts ==
  ASSUME BrowserInv, SomeCallLeft, NEW op \in {"login", "refresh"},
         NEW t \in Calls \cup {Null}, Server!Post(NextCall, op, t),
         t # Null => pc[t] # "idle", op = "refresh" => t # Null
  PROVE  /\ Server!TypeOK'
         /\ \A c \in Calls : (CallPlace(c) /\ UsedBy(c))'
         /\ \A c \in Calls : pc[c] # "idle" => pc'[c] = pc[c]
         /\ NextCall \in Calls /\ pc[NextCall] = "idle" /\ pc'[NextCall] = "posted"
         /\ Unseen(NextCall)
         /\ call'[NextCall].op = op /\ call'[NextCall].presents = t
         /\ \A c \in Calls \ {NextCall} : call'[c] = call[c]
<1> DEFINE n == NextCall
<1>1. n \in Calls /\ pc[n] = "idle" /\ n # Null
  BY NextCallIdle, BrowserAssumption
<1>2. Server!TypeOK
  BY DEF BrowserInv, TypeOK
<1>3. t # n
  BY <1>1
<1> HIDE DEF n
<1>4. /\ call' = [call EXCEPT ![n] = [@ EXCEPT !.op = op, !.presents = t]]
      /\ pc' = [pc EXCEPT ![n] = "posted"] /\ UNCHANGED token
  BY DEF Server!Post, Server!Goto, n
<1>5. Server!TypeOK'
  BY <1>1, <1>2, <1>4 DEF Server!TypeOK, Server!Handlers
<1>6. /\ call'[n].op = op /\ call'[n].presents = t /\ pc'[n] = "posted"
      /\ \A c \in Calls \ {n} : call'[c] = call[c] /\ pc'[c] = pc[c]
  BY <1>1, <1>2, <1>4 DEF Server!TypeOK, Server!Handlers
<1>7. Unseen(n)
  BY <1>1 DEF BrowserInv, CallPlace, Unseen
<1>8. ASSUME NEW c \in Calls PROVE CallPlace(c)'
  <2>1. \A x \in Calls : pc[x] # "idle" => pc'[x] # "idle"
    BY <1>1, <1>6
  <2>2. CASE c = n
    <3>1. token[n].state = "none"
      BY <1>1, <1>2 DEF BrowserInv, CallPlace
    <3> QED
      BY <1>4, <1>6, <2>1, <2>2, <3>1 DEF CallPlace
  <2>3. CASE c # n
    <3>1. CallPlace(c) /\ call[c].presents \in Calls \cup {Null}
      BY <1>2 DEF BrowserInv, Server!TypeOK, Server!Handlers
    <3> QED
      BY <1>4, <1>6, <2>1, <2>3, <3>1 DEF CallPlace
  <2> QED
    BY <2>2, <2>3
<1>9. ASSUME NEW c \in Calls PROVE UsedBy(c)'
  <2>1. UsedBy(c)
    BY DEF BrowserInv
  <2> QED
    BY <1>1, <1>4, <1>6, <2>1 DEF UsedBy
<1> QED
  BY <1>1, <1>5, <1>6, <1>7, <1>8, <1>9 DEF n

\* What request q waits for now is a call just posted; what the others wait for
\* stays unseen, unless it is stored.
LEMMA PostPlaces ==
  ASSUME BrowserInv, SomeCallLeft, NEW op \in {"login", "refresh"},
         NEW t \in Calls \cup {Null}, Server!Post(NextCall, op, t),
         t # Null => t = storage.refresh, op = "refresh" => t # Null,
         NEW q \in Requests, request'[q].via = NextCall,
         request'[q].phase = "sent" => request'[q].kind = "login",
         \A p \in Requests \ {q} : request'[p] = request[p],
         \/ storage' = storage
         \/ Waits(q) /\ storage' = Pair(request[q].via)
  PROVE  /\ \A p \in Requests : RequestPlace(p)'
         /\ ViaDiffers'
         /\ (storage.refresh # Null => pc[storage.refresh] # "idle")'
<1>0. PICK n : n = NextCall
  OBVIOUS
<1>1. t # Null => pc[t] # "idle"
  BY DEF BrowserInv
<1>2. /\ n \in Calls /\ pc[n] = "idle" /\ pc'[n] = "posted"
      /\ Unseen(n) /\ call'[n].presents = t
      /\ \A c \in Calls : pc[c] # "idle" => pc'[c] = pc[c]
      /\ \A c \in Calls \ {n} : call'[c] = call[c]
  BY <1>0, <1>1, PostFacts
<1>3. n # Null
  BY <1>2, BrowserAssumption
<1>4. storage'.refresh # n
  BY <1>2 DEF BrowserInv, RequestPlace, Unseen, Pair
<1>5. storage'.refresh # Null => /\ storage'.refresh \in Calls
                                 /\ pc'[storage'.refresh] # "idle"
  <2>1. CASE storage' = storage
    <3>1. storage.refresh \in Calls \cup {Null}
      BY DEF BrowserInv, TypeOK
    <3> QED
      BY <1>2, <2>1, <3>1 DEF BrowserInv
  <2>2. CASE Waits(q) /\ storage' = Pair(request[q].via)
    <3>1. request[q].via \in Calls /\ pc[request[q].via] # "idle"
      BY <2>2 DEF BrowserInv, TypeOK, Promises, RequestPlace, Waits
    <3> QED
      BY <1>2, <2>2, <3>1 DEF Pair
  <2> QED
    BY <2>1, <2>2
<1>6. ASSUME NEW p \in Requests, p # q, Waits(p)'
      PROVE  /\ Waits(p) /\ request'[p].via = request[p].via
             /\ request[p].via \in Calls /\ pc'[request[p].via] # "idle"
             /\ Unseen(request[p].via)'
  <2>1. Waits(p) /\ request'[p] = request[p] /\ RequestPlace(p)
    BY <1>6 DEF Waits, BrowserInv
  <2>2. request[p].via \in Calls /\ pc[request[p].via] # "idle"
    BY <2>1 DEF BrowserInv, TypeOK, Promises, Waits, RequestPlace
  <2>3. storage'.refresh # request[p].via
    BY <1>6, <2>1 DEF BrowserInv, ViaDiffers, RequestPlace, Unseen, Pair
  <2>4. call'[n].presents # request[p].via
    BY <1>2, <2>1 DEF RequestPlace, Unseen, Waits
  <2> QED
    BY <1>2, <2>1, <2>2, <2>3, <2>4 DEF RequestPlace, Unseen
<1>7. Unseen(n)'
  BY <1>1, <1>2, <1>4, <1>3 DEF Unseen
<1>8. ASSUME NEW p \in Requests PROVE RequestPlace(p)'
  <2>1. CASE p = q
    BY <1>0, <1>2, <1>3, <1>7, <2>1 DEF RequestPlace, Waits
  <2>2. CASE p # q
    <3>1. RequestPlace(p) /\ request'[p] = request[p]
      BY <2>2 DEF BrowserInv
    <3> QED
      BY <1>6, <2>2, <3>1 DEF RequestPlace
  <2> QED
    BY <2>1, <2>2
<1>9. ViaDiffers'
  <2> SUFFICES ASSUME NEW p \in Requests, NEW r \in Requests, Waits(p)', Waits(r)',
                      request'[p].via = request'[r].via
               PROVE  p = r
    BY DEF ViaDiffers
  <2>1. ASSUME NEW s \in Requests, s # q, Waits(s)' PROVE request'[s].via # n
    BY <1>2, <1>6, <2>1 DEF BrowserInv, RequestPlace
  <2>2. CASE p = q \/ r = q
    BY <1>0, <2>1, <2>2
  <2>3. CASE p # q /\ r # q
    BY <1>6, <2>3 DEF BrowserInv, ViaDiffers
  <2> QED
    BY <2>2, <2>3
<1> QED
  BY <1>5, <1>8, <1>9

\* Nothing that was owed of a call is forgotten by posting another one.
LEMMA PostInv ==
  ASSUME BrowserInv, SomeCallLeft, NEW op \in {"login", "refresh"},
         NEW t \in Calls \cup {Null}, Server!Post(NextCall, op, t),
         t # Null => t = storage.refresh, op = "refresh" => t # Null,
         NEW q \in Requests, request'[q].via = NextCall, TypeOK',
         request'[q].phase = IF op = "login" THEN "sent" ELSE "refreshing",
         op = "login" => request'[q].kind = "login",
         \A p \in Requests \ {q} : request'[p] = request[p],
         UNCHANGED lost,
         \/ storage' = storage /\ request[q].phase # "refreshing"
         \/ op = "login" /\ Waits(q) /\ storage' = Pair(request[q].via)
  PROVE  BrowserInv'
<1>1. t # Null => pc[t] # "idle"
  BY DEF BrowserInv
<1>2. PICK n : n = NextCall
  OBVIOUS
<1>3. /\ n \in Calls
      /\ \A c \in Calls : (CallPlace(c) /\ UsedBy(c))'
      /\ \A c \in Calls : pc[c] # "idle" => pc'[c] = pc[c]
      /\ call'[n].op = op /\ call'[n].presents = t
      /\ \A c \in Calls \ {n} : call'[c] = call[c]
  BY <1>1, <1>2, PostFacts
<1>4. /\ \A p \in Requests : RequestPlace(p)'
      /\ ViaDiffers'
      /\ (storage.refresh # Null => pc[storage.refresh] # "idle")'
  BY PostPlaces
<1>5. ASSUME NEW c \in Calls, call'[c].op = "refresh",
             call'[c].presents = storage'.refresh
      PROVE  Owed(c)' \/ pc'[c] \in {"refused", "failed"}
  <2>1. CASE c = n
    <3>1. request'[q].phase = "refreshing" /\ request'[q].via = c
      BY <1>2, <1>3, <1>5, <2>1
    <3> QED
      BY <3>1 DEF Owed
  <2>2. CASE c # n
    <3>1. call[c].op = "refresh" /\ call[c].presents = storage'.refresh
      BY <1>3, <1>5, <2>2
    <3>2. storage' = storage /\ request[q].phase # "refreshing"
      BY <3>1 DEF BrowserInv, RequestPlace, Unseen, Pair
    <3>3. Owed(c) \/ pc[c] \in {"refused", "failed"}
      BY <3>1, <3>2 DEF BrowserInv, StoredIsUnanswered
    <3>4. Owed(c) => Owed(c)'
      BY <3>2 DEF Owed
    <3> QED
      BY <1>3, <3>3, <3>4
  <2> QED
    BY <2>1, <2>2
<1> QED
  BY <1>3, <1>4, <1>5 DEF BrowserInv, StoredIsUnanswered

-----------------------------------------------------------------------------
\* A request goes out, as a new one or for the second time.
LEMMA SentType ==
  ASSUME BrowserInv, NEW q \in Requests, NEW kind \in Kinds, NEW retried \in BOOLEAN,
         Sent(q, kind, retried)
  PROVE  /\ request' \in [Requests -> Promises] /\ Server!TypeOK'
         /\ request'[q].phase = "sent" /\ request'[q].kind = kind
         /\ \A p \in Requests \ {q} : request'[p] = request[p]
         /\ \/ kind # "login" /\ request'[q].via = Null /\ UNCHANGED server
            \/ /\ kind = "login" /\ request'[q].via = NextCall
               /\ SomeCallLeft /\ Server!Post(NextCall, "login", Null)
<1>1. Server!TypeOK /\ request \in [Requests -> Promises]
  BY DEF BrowserInv, TypeOK
<1>2. CASE kind # "login"
  <2>1. /\ request' = [request EXCEPT ![q] = [kind |-> kind, phase |-> "sent",
                                              retried |-> retried, via |-> Null]]
        /\ UNCHANGED server
    BY <1>2 DEF Sent
  <2> QED
    BY <1>1, <1>2, <2>1 DEF server, Server!TypeOK, Promises
<1>3. CASE kind = "login"
  <2>1. /\ request' = [request EXCEPT ![q] = [kind |-> kind, phase |-> "sent",
                                              retried |-> retried, via |-> NextCall]]
        /\ SomeCallLeft /\ Server!Post(NextCall, "login", Null)
    BY <1>3 DEF Sent
  <2>2. NextCall \in Calls /\ Server!TypeOK'
    BY <2>1, PostFacts
  <2> QED
    BY <1>1, <1>3, <2>1, <2>2 DEF Promises
<1> QED
  BY <1>2, <1>3

\* The page sends a request.
LEMMA SendInv ==
  ASSUME BrowserInv, NEW q \in Requests, NEW kind \in Kinds, Send(q, kind)
  PROVE  BrowserInv'
<1>1. /\ request[q].phase = "idle" /\ Sent(q, kind, FALSE)
      /\ UNCHANGED <<storage, signedIn, page, leaving, lost>>
  BY DEF Send
<1>2. /\ request'[q].phase = "sent" /\ request'[q].kind = kind
      /\ \A p \in Requests \ {q} : request'[p] = request[p]
      /\ \/ kind # "login" /\ request'[q].via = Null /\ UNCHANGED server
         \/ /\ kind = "login" /\ request'[q].via = NextCall
            /\ SomeCallLeft /\ Server!Post(NextCall, "login", Null)
  BY <1>1, SentType
<1>3. TypeOK'
  BY <1>1, SentType DEF BrowserInv, TypeOK
<1>4. CASE kind = "login"
  BY <1>1, <1>2, <1>3, <1>4, PostInv
<1>5. CASE kind # "login"
  <2>1. UNCHANGED server /\ request'[q].via = Null
    BY <1>2, <1>5
  <2>2. \A p \in Requests :
          /\ Waits(p)' => request'[p] = request[p]
          /\ request'[p].phase = "refreshing" => request'[p].via # Null
          /\ request'[p].phase = "sent" =>
               (request'[p].via # Null <=> request'[p].kind = "login")
    BY <1>2, <1>5, <2>1 DEF BrowserInv, RequestPlace, Waits
  <2>3. \A c \in Calls : Owed(c) => Owed(c)'
    BY <1>1, <1>2 DEF Owed
  <2> QED
    BY <1>1, <1>3, <2>1, <2>2, <2>3, PageInv
<1> QED
  BY <1>4, <1>5

\* A request has come to its end without storing anything: whatever it waited for
\* is lost, if it was not refused.
LEMMA SettleInv ==
  ASSUME BrowserInv, NEW q \in Requests, Settle(q), UNCHANGED server, TypeOK',
         storage'.refresh \in {storage.refresh, Null},
         lost \subseteq lost',
         request[q].phase = "refreshing" =>
           request[q].via \in lost' \/ pc[request[q].via] \in {"refused", "failed"}
  PROVE  BrowserInv'
<1>1. request \in [Requests -> Promises]
  BY DEF BrowserInv, TypeOK
<1>2. /\ request'[q].phase = "done"
      /\ \A p \in Requests \ {q} : request'[p] = request[p]
  BY <1>1 DEF Settle, Promises
<1>3. \A p \in Requests :
        /\ Waits(p)' => request'[p] = request[p]
        /\ request'[p].phase = "refreshing" => request'[p].via # Null
        /\ request'[p].phase = "sent" =>
             (request'[p].via # Null <=> request'[p].kind = "login")
  BY <1>2 DEF BrowserInv, RequestPlace, Waits
<1>4. \A c \in Calls : Owed(c) => Owed(c)' \/ pc[c] \in {"refused", "failed"}
  BY <1>2 DEF Owed
<1> QED
  BY <1>3, <1>4, PageInv

-----------------------------------------------------------------------------
\* A request that has settled is of its kind still.
LEMMA SettleType ==
  ASSUME TypeOK, NEW q \in Requests, Settle(q)
  PROVE  request' \in [Requests -> Promises]
BY DEF TypeOK, Settle, Promises

\* Answers, and the news that there is none, after which the request has ended
\* and nothing new is stored.
LEMMA EndsInv ==
  ASSUME BrowserInv, NEW q \in Requests,
         AnswerOk(q) \/ LoginFailed(q) \/ RequestFailed(q) \/ RefreshFailed(q)
  PROVE  BrowserInv'
<1>1. TypeOK
  BY DEF BrowserInv
<1>2. Settle(q) /\ UNCHANGED server /\ signedIn' = signedIn /\ page' = page
  BY DEF AnswerOk, LoginFailed, RequestFailed, RefreshFailed
<1>3. request' \in [Requests -> Promises]
  BY <1>1, <1>2, SettleType
<1>4. storage' \in {storage, NoTokens}
  BY DEF AnswerOk, LoginFailed, RequestFailed, RefreshFailed, SignOutHere
<1>5. storage'.refresh \in {storage.refresh, Null}
      /\ storage' \in [access : Calls \cup {Null}, refresh : Calls \cup {Null}]
      /\ storage'.access = storage'.refresh
  BY <1>1, <1>4 DEF NoTokens, TypeOK
<1>6. leaving' \in BOOLEAN
  BY <1>1 DEF AnswerOk, LoginFailed, RequestFailed, RefreshFailed, SignOutHere, TypeOK
<1>7. request[q].phase \in {"sent", "refreshing"} =>
        request[q].via \in Calls \cup {Null}
  BY <1>1 DEF TypeOK, Promises
<1>8. /\ lost' \subseteq Calls /\ lost \subseteq lost'
      /\ request[q].phase = "refreshing" =>
           request[q].via \in lost' \/ pc[request[q].via] \in {"refused", "failed"}
  <2>1. CASE AnswerOk(q) \/ LoginFailed(q)
    BY <1>1, <2>1 DEF AnswerOk, LoginFailed, TypeOK
  <2>2. CASE RequestFailed(q)
    <3>1. request[q].kind = "login" => request[q].via \in Calls
      BY <1>7, <2>2 DEF RequestFailed, BrowserInv, RequestPlace
    <3> QED
      BY <1>1, <2>2, <3>1 DEF RequestFailed, TypeOK
  <2>3. CASE RefreshFailed(q)
    <3>1. request[q].via \in Calls
      BY <1>7, <2>3 DEF RefreshFailed, BrowserInv, RequestPlace
    <3> QED
      BY <1>1, <2>3, <3>1 DEF RefreshFailed, TypeOK
  <2> QED
    BY <2>1, <2>2, <2>3
<1>9. TypeOK'
  BY <1>1, <1>2, <1>3, <1>5, <1>6, <1>8 DEF TypeOK, server, Server!TypeOK
<1> QED
  BY <1>2, <1>5, <1>8, <1>9, SettleInv

\* The login page stores the tokens of the answer it has waited for.
LEMMA LoginOkInv ==
  ASSUME BrowserInv, NEW q \in Requests, LoginOk(q)
  PROVE  BrowserInv'
<1>1. TypeOK /\ Settle(q) /\ UNCHANGED server /\ storage' = Pair(request[q].via)
  BY DEF LoginOk, BrowserInv
<1>2. Waits(q) /\ request[q].via \in Calls
  BY <1>1 DEF LoginOk, Waits, BrowserInv, RequestPlace, TypeOK, Promises
<1>3. request'[q].phase = "done" /\ \A p \in Requests \ {q} : request'[p] = request[p]
  BY <1>1 DEF Settle, TypeOK, Promises
<1>4. TypeOK'
  BY <1>1, <1>2, SettleType DEF LoginOk, TypeOK, server, Server!TypeOK, Pair
<1> QED
  BY <1>1, <1>2, <1>3, <1>4, StoreInv

\* A 401: the request ends, or waits for a refresh with the token stored now.
LEMMA Answer401Inv ==
  ASSUME BrowserInv, NEW q \in Requests, Answer401(q)
  PROVE  BrowserInv'
<1>1. /\ TypeOK /\ request[q].phase = "sent" /\ UNCHANGED <<signedIn, page, lost>>
      /\ storage.refresh \in Calls \cup {Null}
  BY DEF Answer401, BrowserInv, TypeOK
<1>2. CASE /\ storage.refresh # Null /\ SomeCallLeft
           /\ request' = [request EXCEPT ![q].phase = "refreshing",
                                         ![q].retried = TRUE, ![q].via = NextCall]
           /\ Server!Post(NextCall, "refresh", storage.refresh)
           /\ UNCHANGED <<storage, leaving>>
  <2>1. pc[storage.refresh] # "idle"
    BY <1>2 DEF BrowserInv
  <2>2. Server!TypeOK' /\ NextCall \in Calls
    BY <1>1, <1>2, <2>1, PostFacts
  <2>3. /\ request' \in [Requests -> Promises]
        /\ request'[q].phase = "refreshing" /\ request'[q].via = NextCall
        /\ \A p \in Requests \ {q} : request'[p] = request[p]
    <3> DEFINE n == NextCall
               kept == request[q]
               new == [kept EXCEPT !.phase = "refreshing", !.retried = TRUE, !.via = n]
    <3>1. request \in [Requests -> Promises] /\ kept \in Promises /\ n \in Calls
      BY <1>1, <2>2 DEF TypeOK
    <3>2. request' = [request EXCEPT ![q] = new]
      BY <1>2
    <3> HIDE DEF n, kept
    <3>3. new \in Promises /\ new.phase = "refreshing" /\ new.via = n
      BY <3>1 DEF Promises
    <3> HIDE DEF new
    <3> QED
      BY <3>1, <3>2, <3>3 DEF n
  <2>4. TypeOK'
    BY <1>1, <1>2, <2>2, <2>3 DEF TypeOK
  <2> QED
    BY <1>1, <1>2, <2>3, <2>4, PostInv
<1>3. CASE /\ Settle(q) /\ UNCHANGED server
           /\ \/ storage.refresh = Null /\ SignOutHere(TRUE)
              \/ UNCHANGED <<storage, leaving>>
  <2>1. /\ storage' \in [access : Calls \cup {Null}, refresh : Calls \cup {Null}]
        /\ storage'.refresh = storage.refresh /\ leaving' \in BOOLEAN
        /\ storage'.access = storage'.refresh
    BY <1>1, <1>3 DEF SignOutHere, TypeOK
  <2>2. TypeOK'
    BY <1>1, <1>3, <2>1, SettleType DEF TypeOK, server, Server!TypeOK
  <2> QED
    BY <1>1, <1>3, <2>1, <2>2, SettleInv
<1> QED
  BY <1>2, <1>3 DEF Answer401

\* The answer of a refresh is stored and the request sent again.
LEMMA RefreshOkInv ==
  ASSUME BrowserInv, NEW q \in Requests, RefreshOk(q)
  PROVE  BrowserInv'
<1>1. /\ TypeOK /\ request[q].phase = "refreshing"
      /\ storage' = Pair(request[q].via) /\ Sent(q, request[q].kind, TRUE)
      /\ UNCHANGED <<signedIn, page, leaving, lost>>
  BY DEF RefreshOk, Kept, BrowserInv
<1>2. Waits(q) /\ request[q].via \in Calls /\ request[q].kind \in Kinds
  BY <1>1 DEF BrowserInv, RequestPlace, Waits, TypeOK, Promises
<1>3. /\ request' \in [Requests -> Promises] /\ Server!TypeOK'
      /\ request'[q].phase = "sent" /\ request'[q].kind = request[q].kind
      /\ \A p \in Requests \ {q} : request'[p] = request[p]
      /\ \/ request[q].kind # "login" /\ request'[q].via = Null /\ UNCHANGED server
         \/ /\ request[q].kind = "login" /\ request'[q].via = NextCall
            /\ SomeCallLeft /\ Server!Post(NextCall, "login", Null)
  BY <1>1, <1>2, SentType
<1>4. TypeOK'
  BY <1>1, <1>2, <1>3 DEF TypeOK, Pair
<1>5. CASE request[q].kind = "login"
  BY <1>1, <1>2, <1>3, <1>4, <1>5, PostInv
<1>6. CASE request[q].kind # "login"
  BY <1>1, <1>2, <1>3, <1>4, <1>6, StoreInv
<1> QED
  BY <1>5, <1>6

-----------------------------------------------------------------------------
\* The user signs out, or follows a link.
LEMMA UserInv ==
  ASSUME BrowserInv, Logout \/ \E where \in {"app", "auth"} : Visit(where)
  PROVE  BrowserInv'
<1>1. /\ TypeOK /\ UNCHANGED <<server, leaving, request, lost>>
      /\ storage' \in {storage, NoTokens}
      /\ signedIn' \in BOOLEAN /\ page' \in {"app", "auth"}
  BY DEF Logout, Visit, BrowserInv, TypeOK
<1>2. storage'.refresh \in {storage.refresh, Null} /\ TypeOK'
  BY <1>1 DEF TypeOK, NoTokens, server, Server!TypeOK
<1>3. \A p \in Requests :
        /\ request[p].phase = "refreshing" => request[p].via # Null
        /\ request[p].phase = "sent" =>
             (request[p].via # Null <=> request[p].kind = "login")
  BY DEF BrowserInv, RequestPlace
<1>4. \A c \in Calls : Owed(c) => Owed(c)'
  BY <1>1 DEF Owed
<1> QED
  BY <1>1, <1>2, <1>3, <1>4, PageInv

\* A reload ends all requests; what they waited for is lost.
LEMMA ReloadInv == BrowserInv /\ Reload => BrowserInv'
<1> SUFFICES ASSUME BrowserInv, Reload PROVE BrowserInv'
  OBVIOUS
<1>1. TypeOK /\ UNCHANGED <<server, storage>>
  BY DEF Reload, BrowserInv
<1>2. \A q \in Requests :
        /\ request'[q] \in Promises
        /\ request'[q].phase \in {"idle", "done"}
  BY <1>1 DEF Reload, TypeOK, Promises
<1>3. Awaited \subseteq Calls /\ lost' = lost \cup Awaited
  BY <1>1 DEF Reload, Awaited, TypeOK, Promises
<1>4. request' \in [Requests -> Promises]
  BY <1>2 DEF Reload
<1>5. signedIn' \in BOOLEAN /\ leaving' \in BOOLEAN /\ page' \in {"app", "auth"}
  BY <1>1 DEF Reload, TypeOK
<1>6. TypeOK'
  BY <1>1, <1>3, <1>4, <1>5 DEF TypeOK, server, Server!TypeOK
<1>7. \A c \in Calls : Owed(c) => Owed(c)'
  BY <1>3 DEF Owed, Awaited, BrowserInv, RequestPlace
<1> QED
  BY <1>1, <1>2, <1>6, <1>7, PageInv DEF Waits

-----------------------------------------------------------------------------
\* The server moves a call it has got; the tab does not know.
LEMMA HandledInv ==
  ASSUME BrowserInv, UNCHANGED client, UNCHANGED call, NEW c \in Calls,
         NEW place \in {"rotate", "ok", "refused", "failed"},
         pc[c] \in {"posted", "rotate"}, Server!Goto(c, place),
         place = "rotate" => call[c].op = "refresh",
         token' \in [Calls -> Server!Rows],
         \A t \in Calls : token'[t].state # "none" =>
           token[t].state # "none" \/ (t = c /\ place = "ok"),
         \A t \in Calls : UsedBy(t)'
  PROVE  BrowserInv'
<1>1. TypeOK
  BY DEF BrowserInv
<1>2. /\ pc' \in [Calls -> {"idle", "posted", "rotate", "revoke", "ok", "refused", "failed"}]
      /\ pc'[c] = place /\ \A x \in Calls \ {c} : pc'[x] = pc[x]
      /\ \A x \in Calls : pc'[x] = "idle" <=> pc[x] = "idle"
      /\ \A x \in Calls : pc[x] \in {"refused", "failed"} => pc'[x] = pc[x]
  BY <1>1 DEF TypeOK, Server!TypeOK, Server!Goto
<1>3. TypeOK'
  BY <1>1, <1>2 DEF TypeOK, Server!TypeOK, client
<1>4. ASSUME NEW x \in Calls PROVE CallPlace(x)'
  <2>1. CallPlace(x) /\ call[x].presents \in Calls \cup {Null}
    BY <1>1 DEF BrowserInv, TypeOK, Server!TypeOK, Server!Handlers
  <2>2. token'[x].state # "none" => pc'[x] = "ok"
    BY <1>2, <2>1 DEF CallPlace
  <2>3. /\ pc'[x] = "idle" => call[x].op = "none"
        /\ pc'[x] = "rotate" => call[x].op = "refresh"
        /\ pc'[x] # "revoke"
    BY <1>2, <2>1 DEF CallPlace
  <2>4. call[x].presents # Null => pc'[call[x].presents] # "idle"
    BY <1>2, <2>1 DEF CallPlace
  <2> QED
    BY <2>1, <2>2, <2>3, <2>4 DEF CallPlace
<1>5. (storage.refresh # Null => pc[storage.refresh] # "idle")'
  BY <1>1, <1>2 DEF BrowserInv, TypeOK, client
<1>6. ASSUME NEW q \in Requests PROVE RequestPlace(q)'
  <2>1. RequestPlace(q) /\ request[q].via \in Calls \cup {Null}
    BY <1>1 DEF BrowserInv, TypeOK, Promises
  <2>2. Waits(q) => pc'[request[q].via] # "idle"
    BY <1>2, <2>1 DEF RequestPlace, Waits
  <2> QED
    BY <2>1, <2>2 DEF RequestPlace, Waits, Unseen, client
<1>7. ViaDiffers'
  BY DEF BrowserInv, ViaDiffers, Waits, client
<1>8. StoredIsUnanswered'
  BY <1>2 DEF BrowserInv, StoredIsUnanswered, Owed, client
<1> QED
  BY <1>3, <1>4, <1>5, <1>6, <1>7, <1>8 DEF BrowserInv

\* The server refuses or gives up a call, looks up a token, or opens a session.
LEMMA NoExchangeInv ==
  ASSUME BrowserInv, UNCHANGED client, NEW c \in Calls,
         Server!Login(c) \/ Server!RefreshLook(c) \/ Server!Fail(c)
  PROVE  BrowserInv'
<1>1. Server!TypeOK /\ CallPlace(c) /\ UNCHANGED call
  BY DEF BrowserInv, TypeOK, Server!Login, Server!RefreshLook, Server!Fail
<1>2. CASE UNCHANGED token
  <2>1. PICK place \in {"rotate", "ok", "refused", "failed"} :
          /\ Server!Goto(c, place) /\ pc[c] \in {"posted", "rotate"}
          /\ place = "rotate" => call[c].op = "refresh"
    <3>1. CASE Server!Login(c)
      BY <1>1, <1>2, <3>1 DEF Server!Login
    <3>2. CASE Server!RefreshLook(c)
      BY <3>2 DEF Server!RefreshLook
    <3>3. CASE Server!Fail(c)
      BY <1>1, <3>3 DEF Server!Fail, Server!InFlight, CallPlace
    <3> QED
      BY <3>1, <3>2, <3>3
  <2>2. ASSUME NEW t \in Calls PROVE UsedBy(t)'
    <3>1. \A x \in Calls : pc[x] = "ok" => pc'[x] = "ok"
      BY <1>1, <2>1 DEF Server!Goto, Server!TypeOK
    <3> QED
      BY <1>1, <1>2, <3>1 DEF BrowserInv, UsedBy
  <2> QED
    BY <1>1, <1>2, <2>1, <2>2, HandledInv DEF Server!TypeOK
<1>3. CASE /\ Server!Goto(c, "ok") /\ pc[c] = "posted"
           /\ token' = [token EXCEPT ![c] = Server!NewRow(c)]
  <2>1. Server!NewRow(c) \in Server!Rows /\ Server!NewRow(c).state = "active"
    BY DEF Server!NewRow, Server!NoRow, Server!Rows
  <2>2. /\ token' \in [Calls -> Server!Rows] /\ token'[c].state = "active"
        /\ \A t \in Calls \ {c} : token'[t] = token[t]
    BY <1>1, <1>3, <2>1 DEF Server!TypeOK
  <2>3. ASSUME NEW t \in Calls PROVE UsedBy(t)'
    <3>1. \A x \in Calls : pc[x] = "ok" => pc'[x] = "ok"
      BY <1>1, <1>3 DEF Server!Goto, Server!TypeOK
    <3> QED
      BY <1>1, <2>2, <3>1 DEF BrowserInv, UsedBy
  <2> QED
    BY <1>1, <1>3, <2>2, <2>3, HandledInv
<1> QED
  BY <1>2, <1>3 DEF Server!Login, Server!RefreshLook, Server!Fail

\* A token is exchanged by the call that presents it.
LEMMA RotateInv ==
  ASSUME BrowserInv, UNCHANGED client, NEW c \in Calls, Server!Rotate(c)
  PROVE  BrowserInv'
<1> DEFINE t == call[c].presents
<1>1. /\ Server!TypeOK /\ CallPlace(c) /\ UNCHANGED call /\ pc[c] = "rotate"
      /\ call[c].op = "refresh" /\ t \in Calls
  BY DEF BrowserInv, TypeOK, Server!Rotate, CallPlace, Server!TypeOK, Server!Handlers
<1>2. CASE UNCHANGED token /\ Server!Goto(c, "refused")
  <2>1. ASSUME NEW x \in Calls PROVE UsedBy(x)'
    <3>1. \A y \in Calls : pc[y] = "ok" => pc'[y] = "ok"
      BY <1>1, <1>2 DEF Server!Goto, Server!TypeOK
    <3> QED
      BY <1>1, <1>2, <3>1 DEF BrowserInv, UsedBy
  <2> QED
    BY <1>1, <1>2, <2>1, HandledInv DEF Server!TypeOK
<1>3. CASE /\ Server!Goto(c, "ok") /\ token[t].state = "active"
           /\ token' = [token EXCEPT ![t].state = "revoked", ![t].next = c,
                                     ![c] = Server!NewRow(token[t].session)]
  <2>1. token[c].state = "none" /\ t # c
    BY <1>1, <1>3 DEF CallPlace
  <2> DEFINE s == token[t].session
             new == Server!NewRow(s)
  <2>2. s \in Calls \cup {Null}
    BY <1>1 DEF Server!TypeOK, Server!Rows
  <2>3. new \in Server!Rows /\ new.state = "active"
    BY <2>2 DEF Server!NewRow, Server!NoRow, Server!Rows
  <2> HIDE DEF s, new
  <2>4. token' = [token EXCEPT ![t].state = "revoked", ![t].next = c, ![c] = new]
    BY <1>3 DEF s, new
  <2> HIDE DEF t
  <2>5. /\ token' \in [Calls -> Server!Rows]
        /\ token'[c] = new
        /\ token'[t].state = "revoked" /\ token'[t].next = c
        /\ \A x \in Calls \ {c, t} : token'[x] = token[x]
    BY <1>1, <2>1, <2>3, <2>4 DEF Server!TypeOK, Server!Rows
  <2>6. pc'[c] = "ok" /\ \A x \in Calls : pc[x] = "ok" => pc'[x] = "ok"
    BY <1>1, <1>3 DEF Server!Goto, Server!TypeOK
  <2>7. ASSUME NEW x \in Calls PROVE UsedBy(x)'
    <3>1. CASE x = c
      BY <2>3, <2>5, <3>1 DEF UsedBy
    <3>2. CASE x = t
      BY <1>1, <2>5, <2>6, <3>2 DEF UsedBy, t
    <3>3. CASE x # c /\ x # t
      BY <1>1, <2>5, <2>6, <3>3 DEF UsedBy, BrowserInv
    <3> QED
      BY <3>1, <3>2, <3>3
  <2>8. \A x \in Calls : token'[x].state # "none" => token[x].state # "none" \/ x = c
    BY <1>3, <2>5
  <2> QED
    BY <1>1, <1>3, <2>5, <2>7, <2>8, HandledInv
<1> QED
  BY <1>2, <1>3 DEF Server!Rotate, Server!StillActive

-----------------------------------------------------------------------------
\* Every step of the tab and of the server keeps the invariant.
LEMMA NextInv == BrowserInv /\ [Next]_vars => BrowserInv'
<1> SUFFICES ASSUME BrowserInv, [Next]_vars PROVE BrowserInv'
  OBVIOUS
<1>1. ASSUME NEW q \in Requests, NEW kind \in Kinds, Send(q, kind) PROVE BrowserInv'
  BY <1>1, SendInv
<1>2. ASSUME NEW q \in Requests, Arrive(q) \/ RequestFailed(q) PROVE BrowserInv'
  BY <1>2, EndsInv, LoginOkInv, Answer401Inv, RefreshOkInv DEF Arrive
<1>3. CASE Logout \/ \E where \in {"app", "auth"} : Visit(where)
  BY <1>3, UserInv
<1>4. CASE Reload
  BY <1>4, ReloadInv
<1>5. CASE ServerStep
  <2>1. PICK c \in Calls : Server!Handle(c) \/ Server!Fail(c)
    BY <1>5 DEF ServerStep
  <2>2. UNCHANGED client /\ ~Server!LogoutLook(c) /\ ~Server!LogoutRevoke(c)
    BY <1>5 DEF ServerStep, BrowserInv, CallPlace, Server!LogoutLook, Server!LogoutRevoke
  <2> QED
    BY <2>1, <2>2, NoExchangeInv, RotateInv DEF Server!Handle
<1>6. CASE UNCHANGED vars
  <2>1. UNCHANGED <<server, client>>
    BY <1>6 DEF vars
  <2> QED
    BY <2>1 DEF server, client, BrowserInv, TypeOK, Server!TypeOK, CallPlace, UsedBy,
                RequestPlace, ViaDiffers, StoredIsUnanswered, Owed, Waits, Unseen
<1> QED
  BY <1>1, <1>2, <1>3, <1>4, <1>5, <1>6 DEF Next

\* BrowserInv is an invariant of the tab.
LEMMA BrowserInvariant == Spec => []BrowserInv
BY InitInv, NextInv, PTL DEF Spec

\* The tab and the server's tables hold what they may hold.
THEOREM TabTyped == Spec => []TypeOK
<1>1. BrowserInv => TypeOK
  BY DEF BrowserInv
<1> QED
  BY <1>1, BrowserInvariant, PTL

\* No order of answers, logins, logouts and reloads leaves a used refresh token
\* in localStorage, except while the answer with its replacement is on its way
\* or after that answer was lost.
THEOREM UsedTokensExplained == Spec => []StoredTokenExplained
<1>1. BrowserInv => StoredTokenExplained
  <2> SUFFICES ASSUME BrowserInv, storage.refresh # Null,
                      token[storage.refresh].state = "revoked"
               PROVE  Owed(token[storage.refresh].next)
    BY DEF StoredTokenExplained, Owed
  <2>1. storage.refresh \in Calls
    BY DEF BrowserInv, TypeOK
  <2>2. UsedBy(storage.refresh)
    BY <2>1 DEF BrowserInv
  <2> QED
    BY <2>2 DEF UsedBy, BrowserInv, StoredIsUnanswered
<1> QED
  BY <1>1, BrowserInvariant, PTL
-----------------------------------------------------------------------------
\* The sessions of the server, with the tab as its client.
-----------------------------------------------------------------------------
Session == INSTANCE RefreshTokensProofs

\* The invariant proved of RefreshTokens is that of the server of the tab.
LEMMA SameInv == Session!Inv <=> Server!Inv
BY DEF Session!Inv, Session!TypeOK, Session!Rows, Session!Handlers, Session!Phase,
   Session!Rooted, Session!OneActive, Session!LastRevoked, Session!Active,
   Session!LogoutEndsOrOvertaken, Server!Inv, Server!TypeOK, Server!Rows,
   Server!Handlers, Server!Phase, Server!Rooted, Server!OneActive, Server!LastRevoked,
   Server!Active, Server!LogoutEndsOrOvertaken

\* The steps of RefreshTokens are those of the server of the tab.
LEMMA SameNext == [Session!Next]_server <=> [Server!Next]_server
BY DEF Session!Next, Session!Post, Session!Handle, Session!Login, Session!RefreshLook,
   Session!Rotate, Session!LogoutLook, Session!LogoutRevoke, Session!Fail,
   Session!Expire, Session!Quiet, Session!Goto, Session!InFlight, Session!NewRow,
   Session!NoRow, Session!Usable, Session!StillActive, Session!Revoked, Session!vars,
   Server!Next, Server!Post, Server!Handle, Server!Login, Server!RefreshLook,
   Server!Rotate, Server!LogoutLook, Server!LogoutRevoke, Server!Fail,
   Server!Expire, Server!Quiet, Server!Goto, Server!InFlight, Server!NewRow,
   Server!NoRow, Server!Usable, Server!StillActive, Server!Revoked, Server!vars

\* The user who signed in before the page was loaded has a session of one token.
LEMMA InitServer == Init => Server!Inv
<1> SUFFICES ASSUME Init PROVE Server!Inv
  OBVIOUS
<1>1. Server!TypeOK
  BY InitInv DEF BrowserInv, TypeOK
<1>2. ASSUME NEW c \in Calls
      PROVE  /\ token[c].state # "none" =>
                  token[c].state = "active" /\ c = Earlier /\ token[c].session = c
             /\ token[c].state = "none" => token[c].session = Null
             /\ token[c].next = Null
             /\ pc[c] = IF c = Earlier THEN "ok" ELSE "idle"
             /\ call[c].op # "logout" /\ ~call[c].found
  <2>1. /\ Server!NoRow.state = "none" /\ Server!NoRow.next = Null
        /\ Server!NoRow.session = Null
        /\ Server!NewRow(c).state = "active" /\ Server!NewRow(c).next = Null
        /\ Server!NewRow(c).session = c
    BY DEF Server!NewRow, Server!NoRow
  <2>2. token[c] = IF signedIn /\ c = Earlier THEN Server!NewRow(c) ELSE Server!NoRow
    BY DEF Init
  <2>3. /\ pc[c] = IF c = Earlier THEN "ok" ELSE "idle"
        /\ call[c].op # "logout" /\ ~call[c].found
    BY DEF Init
  <2> QED
    BY <2>1, <2>2, <2>3
<1>3. \A c \in Calls : Server!Phase(c)
  BY <1>2, BrowserAssumption DEF Server!Phase
<1>4. Server!Rooted /\ Server!OneActive /\ Server!LastRevoked
  BY <1>2 DEF Server!Rooted, Server!OneActive, Server!LastRevoked
<1>5. Server!LogoutEndsOrOvertaken
  BY <1>2 DEF Server!LogoutEndsOrOvertaken
<1> QED
  BY <1>1, <1>3, <1>4, <1>5 DEF Server!Inv

\* A call that a request makes is one the server may be sent.
LEMMA SentServer ==
  ASSUME NEW q \in Requests, NEW kind \in Kinds, NEW retried \in BOOLEAN,
         Sent(q, kind, retried)
  PROVE  [Server!Next]_server
BY NextCallIdle DEF Sent, Server!Next, server

\* The tab does to the server what its endpoints allow any client, and nothing else.
LEMMA StepServer == BrowserInv /\ [Next]_vars => [Server!Next]_server
<1> SUFFICES ASSUME BrowserInv, [Next]_vars PROVE [Server!Next]_server
  OBVIOUS
<1>1. ASSUME NEW q \in Requests, NEW kind \in Kinds, Send(q, kind)
      PROVE  [Server!Next]_server
  BY <1>1, SentServer DEF Send
<1>2. ASSUME NEW q \in Requests, Answer401(q) PROVE [Server!Next]_server
  <2>1. CASE /\ SomeCallLeft
             /\ Server!Post(NextCall, "refresh", storage.refresh)
    <3>1. storage.refresh \in Calls \cup {Null}
      BY DEF BrowserInv, TypeOK
    <3> QED
      BY <2>1, <3>1, NextCallIdle DEF Server!Next
  <2>2. CASE UNCHANGED server
    BY <2>2
  <2> QED
    BY <1>2, <2>1, <2>2 DEF Answer401
<1>3. ASSUME NEW q \in Requests, RefreshOk(q) PROVE [Server!Next]_server
  <2>1. request[q].kind \in Kinds
    BY DEF BrowserInv, TypeOK, Promises
  <2> QED
    BY <1>3, <2>1, SentServer DEF RefreshOk
<1>4. ASSUME NEW q \in Requests,
             \/ AnswerOk(q) \/ LoginOk(q) \/ LoginFailed(q) \/ RefreshFailed(q)
             \/ RequestFailed(q)
      PROVE  UNCHANGED server
  BY <1>4 DEF AnswerOk, LoginOk, LoginFailed, RefreshFailed, RequestFailed
<1>5. CASE Logout \/ Reload \/ (\E where \in {"app", "auth"} : Visit(where))
  BY <1>5 DEF Logout, Reload, Visit
<1>6. CASE ServerStep
  BY <1>6 DEF ServerStep, Server!Next
<1>7. CASE UNCHANGED vars
  BY <1>7 DEF vars
<1> QED
  BY <1>1, <1>2, <1>3, <1>4, <1>5, <1>6, <1>7 DEF Next, Arrive

\* The tab and the server together: a step of the composition is one of RefreshTokens,
\* or leaves the server alone (the session endpoints, called by the interceptor and
\* the login page).
THEOREM CallsAreServed == Spec => [][Server!Next]_server
BY BrowserInvariant, StepServer, PTL DEF Spec

\* Although the interceptor starts a refresh for each request that is answered 401,
\* with one token and all at once, and though answers are lost and the page is loaded
\* again, no session of the tab ever has two good tokens.
THEOREM TabNeverForks == Spec => []Server!OneActive
<1>1. Server!Inv /\ [Server!Next]_server => Server!Inv'
  <2>1. Session!Inv /\ [Session!Next]_server => Session!Inv'
    BY Session!NextInv, BrowserAssumption DEF Session!vars, server
  <2>2. Session!Inv' <=> Server!Inv'
    BY SameInv, PTL
  <2> QED
    BY <2>1, <2>2, SameInv, SameNext
<1>2. Server!Inv => Server!OneActive
  BY DEF Server!Inv
<1> QED
  BY <1>1, <1>2, InitServer, CallsAreServed, PTL DEF Spec
==============================================================================
