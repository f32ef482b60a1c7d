---------------------------- MODULE AccountProofs ----------------------------
(***************************************************************************)
(* The pages about the user himself: his passwords, his orders, and his    *)
(* profile.                                                                *)
(*                                                                         *)
(* Passwords.  For any bound on failures: the keys a user set his password *)
(* with let him in, or there is one of three reasons why not.  The         *)
(* invariant says what the password in force has to do with the keys it    *)
(* was set with (KeptIsSet), the same of fields and requests (Keyed), and  *)
(* that a page waits for its only request: no password is set while a      *)
(* sign-in is under way.                                                   *)
(*                                                                         *)
(* Orders.  For any number of orders and tabs: a page at rest shows each   *)
(* order as it is, but for four reasons, and what it offers is refused     *)
(* only when the order has moved.  The invariant says of every row, shown  *)
(* or on its way, that it is right or that an update of it is done and not *)
(* answered (Sound).  An answer makes the row right only if nothing was    *)
(* loaded meanwhile: so an update that met nothing is alone (Alone).       *)
(*                                                                         *)
(* Profile.  For any phone numbers, pictures and reviews: the store and a  *)
(* closed form show the user as he is kept, his reviews are counted, and a *)
(* save changes what he entered and nothing else, but for the reasons the  *)
(* properties name.  The invariant follows a form from where it was filled *)
(* (Entered) through the copy of the row the server reads (Carried) to the *)
(* store (Known) and the closed form (Closed); there is one save at a time.*)
(*                                                                         *)
(* A tab.  A behaviour of a tab is one of the component of its first page: *)
(* every step is guarded by its page, and no link leaves the component.    *)
(* What was proved of the components, here and in the modules before, then *)
(* holds of the tab.                                                       *)
(***************************************************************************)
EXTENDS MCPages, SellProofs

-----------------------------------------------------------------------------
\* Passwords.
-----------------------------------------------------------------------------
\* What a page keeps of keys, and what is in force.
KeptOf(where, keys) ==
  IF keys = Null THEN Null
  ELSE IF where = "register" THEN SanitizeInput(keys) ELSE keys

KeptIsSet == server.password = KeptOf(past.where, past.set)

Keyed(r) == r.field = KeptOf(r.op, r.keys)

\* Requests that set a password, or ask for it, carry one.
NotEmpty(r) == r.op \in {"register", "login", "change"} => r.keys # Null

\* A sign-in with the keys of the password was refused for a reason.
RefusalExplained(r) ==
  r.op = "login" /\ r.keys = past.set /\ r.phase = "refused" =>
    server.limited \/ (past.where = "register" /\ past.set = "trimmed")

\* The same of a step: what explains it is there afterwards.
ExplainedNext(r) ==
  r.op = "login" /\ r.keys = past'.set /\ r.phase = "refused" =>
    server'.limited \/ (past'.where = "register" /\ past'.set = "trimmed")

SignInInv ==
  /\ SignInTypeOK
  /\ KeptIsSet
  /\ ui.field = KeptOf(ui.at, ui.keys)
  /\ Len(flight) <= 1 /\ (Len(flight) = 1 => ui.busy)
  /\ \A i \in 1..Len(flight) :
       Keyed(flight[i]) /\ NotEmpty(flight[i]) /\ RefusalExplained(flight[i])

-----------------------------------------------------------------------------
\* A page nobody has typed into yet.
LEMMA EmptyPageFacts ==
  \A at \in {"register", "login", "security", "forgot", "reset"} :
    /\ EmptyPage(at) \in SignInUI
    /\ EmptyPage(at).field = KeptOf(EmptyPage(at).at, EmptyPage(at).keys)
BY DEF EmptyPage, SignInUI, Kept, Keys, KeptOf

\* What is left of keys is something, and only "trimmed" keys are not kept.
LEMMA KeptOfFacts ==
  ASSUME NEW k \in Keys
  PROVE  /\ k # Null /\ k \in Kept /\ SanitizeInput(k) \in Kept
         /\ SanitizeInput(k) # Null
         /\ k # "trimmed" => SanitizeInput(k) = k
BY SignInAssumption DEF Kept, Keys, SanitizeInput

\* The page of who registers, no password yet.
LEMMA SignInInitInv == SignInInit => SignInInv
<1> SUFFICES ASSUME SignInInit PROVE SignInInv
  OBVIOUS
<1>1. /\ ui = EmptyPage("register") /\ flight = <<>>
      /\ server = [password |-> Null, failures |-> 0, limited |-> FALSE]
      /\ past = [set |-> Null, where |-> "register"]
  BY DEF SignInInit, Booted
<1>2. SignInTypeOK
  BY <1>1, EmptyPageFacts, SignInAssumption DEF SignInTypeOK, SignInPast
<1>3. KeptIsSet /\ ui.field = KeptOf(ui.at, ui.keys)
  BY <1>1, EmptyPageFacts DEF KeptIsSet, KeptOf
<1> QED
  BY <1>1, <1>2, <1>3 DEF SignInInv

\* At most one.
LEMMA AtMostOne ==
  ASSUME NEW n \in Nat, n <= 1
  PROVE  (n # 1 => n = 0) /\ \A k \in 1..n : k = 1 /\ n = 1
OBVIOUS

\* What is known of a request under way: it is the only one.
LEMMA OnlyRequest ==
  ASSUME SignInInv, NEW i \in DOMAIN flight
  PROVE  /\ flight \in Seq(SignInRequests) /\ i = 1 /\ Len(flight) = 1
         /\ flight[i] \in SignInRequests /\ ui.busy
         /\ Keyed(flight[i]) /\ NotEmpty(flight[i]) /\ RefusalExplained(flight[i])
<1>1. flight \in Seq(SignInRequests) /\ Len(flight) \in Nat /\ Len(flight) <= 1
  BY LenProperties DEF SignInInv, SignInTypeOK
<1>2. i \in 1..Len(flight)
  BY <1>1
<1>3. i = 1 /\ Len(flight) = 1
  BY <1>1, <1>2, AtMostOne
<1>4. flight[i] \in SignInRequests
  BY <1>1, <1>2
<1>5. /\ Len(flight) = 1 => ui.busy
      /\ \A k \in 1..Len(flight) :
           Keyed(flight[k]) /\ NotEmpty(flight[k]) /\ RefusalExplained(flight[k])
  BY DEF SignInInv
<1> QED
  BY <1>1, <1>2, <1>3, <1>4, <1>5

\* A step of the page alone.
LEMMA PageAlone ==
  ASSUME SignInInv, UNCHANGED <<server, past, flight>>, ui' \in SignInUI,
         ui'.field = KeptOf(ui'.at, ui'.keys), ui'.busy = ui.busy
  PROVE  SignInInv'
<1>1. SignInTypeOK' /\ KeptIsSet'
  BY DEF SignInInv, SignInTypeOK, KeptIsSet
<1> QED
  BY <1>1 DEF SignInInv, RefusalExplained

\* The user types.
LEMMA TypedInv ==
  SignInInv /\ (RegisterChange \/ LoginChange \/ UpdatePasswordField \/ ClearPassword
                  \/ ResetChange)
    => SignInInv'
<1> SUFFICES ASSUME SignInInv,
                    RegisterChange \/ LoginChange \/ UpdatePasswordField
                      \/ ClearPassword \/ ResetChange
             PROVE  SignInInv'
  OBVIOUS
<1>1. ui \in SignInUI
  BY DEF SignInInv, SignInTypeOK
<1>2. CASE RegisterChange
  <2>1. PICK k \in Keys : ui' = [ui EXCEPT !.keys = k, !.field = SanitizeInput(k)]
    BY <1>2 DEF RegisterChange
  <2>2. ui.at = "register" /\ UNCHANGED <<server, past, flight>>
    BY <1>2 DEF RegisterChange, RegisterForm, At, Untold
  <2>3. /\ ui' \in SignInUI /\ ui'.at = "register" /\ ui'.busy = ui.busy
        /\ ui'.keys = k /\ ui'.field = SanitizeInput(k)
    BY <1>1, <2>1, <2>2, KeptOfFacts DEF SignInUI
  <2> QED
    BY <2>2, <2>3, PageAlone, KeptOfFacts DEF KeptOf
<1>3. CASE LoginChange \/ ResetChange
  <2>1. PICK k \in Keys : ui' = [ui EXCEPT !.keys = k, !.field = k]
    BY <1>3 DEF LoginChange, ResetChange
  <2>2. ui.at # "register" /\ UNCHANGED <<server, past, flight>>
    BY <1>3 DEF LoginChange, LoginForm, ResetChange, ResetForm, At, Untold
  <2>3. /\ ui' \in SignInUI /\ ui'.at = ui.at /\ ui'.busy = ui.busy
        /\ ui'.keys = k /\ ui'.field = k
    BY <1>1, <2>1, KeptOfFacts DEF SignInUI
  <2> QED
    BY <2>2, <2>3, PageAlone, KeptOfFacts DEF KeptOf
<1>4. CASE UpdatePasswordField
  <2>1. PICK k \in Keys, c \in Kept :
          ui' = [ui EXCEPT !.keys = k, !.field = k, !.current = c]
    BY <1>4 DEF UpdatePasswordField, SecurityField
  <2>2. ui.at # "register" /\ UNCHANGED <<server, past, flight>>
    BY <1>4 DEF UpdatePasswordField, SecurityForm, At, Untold
  <2>3. /\ ui' \in SignInUI /\ ui'.at = ui.at /\ ui'.busy = ui.busy
        /\ ui'.keys = k /\ ui'.field = k
    BY <1>1, <2>1, KeptOfFacts DEF SignInUI
  <2> QED
    BY <2>2, <2>3, PageAlone, KeptOfFacts DEF KeptOf
<1>5. CASE ClearPassword
  <2>1. /\ ui' = [ui EXCEPT !.keys = Null, !.field = Null]
        /\ UNCHANGED <<server, past, flight>>
    BY <1>5 DEF ClearPassword, Untold
  <2>2. /\ ui' \in SignInUI /\ ui'.at = ui.at /\ ui'.busy = ui.busy
        /\ ui'.keys = Null /\ ui'.field = Null
    BY <1>1, <2>1 DEF SignInUI
  <2> QED
    BY <2>1, <2>2, PageAlone DEF KeptOf
<1> QED
  BY <1>2, <1>3, <1>4, <1>5

\* A link, or the page the last one led to: nothing is under way.
LEMMA LeftInv ==
  ASSUME SignInInv,
         Leave \/ \E to \in {"register", "login", "forgot", "reset"} : Follows(to)
  PROVE  SignInInv'
<1>1. PICK to \in {"register", "login", "security", "forgot", "reset"} :
        ui' = EmptyPage(to)
  BY DEF Leave, Follows
<1>2. UNCHANGED <<server, past, flight>> /\ flight = <<>>
  BY DEF Leave, Follows, Untold
<1>3. SignInTypeOK' /\ KeptIsSet'
  BY <1>1, <1>2, EmptyPageFacts DEF SignInInv, SignInTypeOK, KeptIsSet
<1>4. ui'.field = KeptOf(ui'.at, ui'.keys)
  BY <1>1, EmptyPageFacts
<1> QED
  BY <1>2, <1>3, <1>4 DEF SignInInv

\* The only request there is afterwards is as it should be.
LEMMA OneRequest ==
  ASSUME NEW r \in SignInRequests, Keyed(r), NotEmpty(r), ExplainedNext(r),
         flight' \in Seq(SignInRequests), Len(flight') = 1, flight'[1] = r,
         ui' \in SignInUI, ui'.field = KeptOf(ui'.at, ui'.keys), ui'.busy,
         server' \in [password : Kept \cup {Null}, failures : 0 .. MaxLoginAttempts,
                      limited : BOOLEAN],
         past' \in SignInPast, KeptIsSet'
  PROVE  SignInInv'
<1>1. SignInTypeOK'
  BY DEF SignInTypeOK
<1>2. ASSUME NEW k \in 1..Len(flight')
      PROVE  Keyed(flight[k])' /\ NotEmpty(flight[k])' /\ RefusalExplained(flight[k])'
  <2>1. k = 1
    OBVIOUS
  <2>2. flight'[k] = r
    BY <2>1
  <2> QED
    BY <2>2 DEF Keyed, NotEmpty, RefusalExplained, ExplainedNext
<1> QED
  BY <1>1, <1>2 DEF SignInInv

\* A form is sent by a page that has nothing under way.
LEMMA PostInv ==
  ASSUME SignInInv, NEW op \in {"register", "login", "change", "forgot", "reset"},
         Post(op), ~ui.busy, op = "register" <=> ui.at = "register",
         op \in {"register", "login", "change"} => ui.field # Null
  PROVE  SignInInv'
<1> DEFINE r == [op |-> op, keys |-> ui.keys, field |-> ui.field, current |-> ui.current,
                 phase |-> "sent"]
<1>1. /\ ui' = [ui EXCEPT !.busy = TRUE, !.apiError = FALSE]
      /\ Send(r) /\ UNCHANGED <<server, past>>
  BY DEF Post, Untold
<1>2. /\ ui \in SignInUI /\ flight \in Seq(SignInRequests)
      /\ ui.field = KeptOf(ui.at, ui.keys)
  BY DEF SignInInv, SignInTypeOK
<1>3. r \in SignInRequests
  BY <1>2 DEF SignInUI, SignInRequests
<1>4. Keyed(r) /\ NotEmpty(r) /\ ExplainedNext(r)
  BY <1>2 DEF Keyed, NotEmpty, ExplainedNext, KeptOf
<1> HIDE DEF r
<1>5. flight = <<>>
  <2>1. Len(flight) \in Nat /\ Len(flight) <= 1 /\ Len(flight) # 1
    BY <1>2, LenProperties DEF SignInInv
  <2>2. Len(flight) = 0
    BY <2>1, AtMostOne
  <2> QED
    BY <1>2, <2>2, EmptySeq
<1>6. flight' \in Seq(SignInRequests) /\ Len(flight') = 1 /\ flight'[1] = r
  BY <1>1, <1>3, <1>5 DEF Send
<1>7. /\ ui' \in SignInUI /\ ui'.busy /\ ui'.at = ui.at
      /\ ui'.keys = ui.keys /\ ui'.field = ui.field
  BY <1>1, <1>2 DEF SignInUI
<1>8. KeptIsSet'
  BY <1>1 DEF SignInInv, KeptIsSet
<1>9. /\ server' \in [password : Kept \cup {Null}, failures : 0 .. MaxLoginAttempts,
                      limited : BOOLEAN]
      /\ past' \in SignInPast
  BY <1>1 DEF SignInInv, SignInTypeOK
<1> QED
  BY <1>2, <1>3, <1>4, <1>6, <1>7, <1>8, <1>9, OneRequest

\* The forms.
LEMMA SubmitInv ==
  SignInInv /\ (RegisterSubmit \/ LoginSubmit \/ HandlePasswordSave \/ ForgotSubmit
                  \/ ResetSubmit)
    => SignInInv'
<1> SUFFICES ASSUME SignInInv,
                    RegisterSubmit \/ LoginSubmit \/ HandlePasswordSave
                      \/ ForgotSubmit \/ ResetSubmit
             PROVE  SignInInv'
  OBVIOUS
<1>1. CASE RegisterSubmit
  BY <1>1, PostInv DEF RegisterSubmit, RegisterForm, RegisterValid, At
<1>2. CASE LoginSubmit
  BY <1>2, PostInv DEF LoginSubmit, LoginForm, LoginValid, At
<1>3. CASE HandlePasswordSave
  BY <1>3, PostInv DEF HandlePasswordSave, SecurityForm, PasswordValid, At
<1>4. CASE ForgotSubmit
  BY <1>4, PostInv DEF ForgotSubmit, ForgotForm, At
<1>5. CASE ResetSubmit
  BY <1>5, PostInv DEF ResetSubmit, ResetForm, At
<1> QED
  BY <1>1, <1>2, <1>3, <1>4, <1>5

-----------------------------------------------------------------------------
\* A request on its way back is under way still.
LEMMA ComesBack ==
  ASSUME flight \in Seq(SignInRequests), NEW i \in 1..Len(flight),
         NEW r \in SignInRequests, Return(i, r)
  PROVE  flight' \in Seq(SignInRequests) /\ Len(flight') = Len(flight) /\ flight'[i] = r
BY DEF Return

\* The server handles the request under way, or it is sent again.
LEMMA HandledInv ==
  ASSUME SignInInv, NEW i \in DOMAIN flight, UNCHANGED ui,
         NEW phase \in {"sent", "done", "refused"},
         Return(i, [flight[i] EXCEPT !.phase = phase]),
         server' \in [password : Kept \cup {Null}, failures : 0 .. MaxLoginAttempts,
                      limited : BOOLEAN],
         past' \in SignInPast, KeptIsSet',
         ExplainedNext([flight[i] EXCEPT !.phase = phase])
  PROVE  SignInInv'
<1> DEFINE r == [flight[i] EXCEPT !.phase = phase]
<1>1. /\ flight \in Seq(SignInRequests) /\ i = 1 /\ Len(flight) = 1
      /\ flight[i] \in SignInRequests /\ ui.busy
      /\ Keyed(flight[i]) /\ NotEmpty(flight[i])
  BY OnlyRequest
<1>2. r \in SignInRequests /\ Keyed(r) /\ NotEmpty(r)
  BY <1>1 DEF SignInRequests, Keyed, NotEmpty
<1>3. Return(i, r) /\ ExplainedNext(r)
  OBVIOUS
<1> HIDE DEF r
<1>4. flight' \in Seq(SignInRequests) /\ Len(flight') = 1 /\ flight'[1] = r
  <2>1. i \in 1..Len(flight)
    BY <1>1
  <2>2. /\ flight' \in Seq(SignInRequests) /\ Len(flight') = Len(flight)
        /\ flight'[i] = r
    BY <1>1, <1>2, <1>3, <2>1, ComesBack
  <2> QED
    BY <1>1, <2>2
<1>5. ui \in SignInUI /\ ui.field = KeptOf(ui.at, ui.keys)
  BY DEF SignInInv, SignInTypeOK
<1> QED
  BY <1>1, <1>2, <1>3, <1>4, <1>5, OneRequest

\* A registration sets the password to what is left of its keys.
LEMMA RegisterInv ==
  ASSUME SignInInv, NEW i \in DOMAIN flight, Register(i)
  PROVE  SignInInv'
<1> DEFINE free == server.password = Null
           phase == IF free THEN "done" ELSE "refused"
<1>1. /\ flight[i] \in SignInRequests /\ flight[i].op = "register"
      /\ Keyed(flight[i]) /\ flight[i].keys # Null
  BY OnlyRequest DEF Register, NotEmpty
<1>2. UNCHANGED ui /\ Return(i, [flight[i] EXCEPT !.phase = phase])
  BY DEF Register
<1>3. phase \in {"sent", "done", "refused"}
  OBVIOUS
<1>4. [flight[i] EXCEPT !.phase = phase].op = "register"
  BY <1>1 DEF SignInRequests
<1>5. ExplainedNext([flight[i] EXCEPT !.phase = phase])
  BY <1>4 DEF ExplainedNext
<1>6. /\ server \in [password : Kept \cup {Null}, failures : 0 .. MaxLoginAttempts,
                     limited : BOOLEAN]
      /\ past \in SignInPast /\ KeptIsSet
  BY DEF SignInInv, SignInTypeOK
<1>7. CASE free
  <2>1. /\ server' = [server EXCEPT !.password = flight[i].field]
        /\ past' = [set |-> flight[i].keys, where |-> "register"]
    BY <1>7 DEF Register
  <2>2. flight[i].field \in Kept \cup {Null} /\ flight[i].keys \in Keys
    BY <1>1 DEF SignInRequests
  <2>3. /\ server' \in [password : Kept \cup {Null}, failures : 0 .. MaxLoginAttempts,
                        limited : BOOLEAN]
        /\ server'.password = flight[i].field
    BY <1>6, <2>1, <2>2
  <2>4. past' \in SignInPast /\ KeptIsSet'
    BY <1>1, <2>1, <2>2, <2>3 DEF SignInPast, KeptIsSet, Keyed
  <2> HIDE DEF phase
  <2> QED
    BY <1>2, <1>3, <1>5, <2>3, <2>4, HandledInv
<1>8. CASE ~free
  <2>1. server' = server /\ past' = past
    BY <1>6, <1>8 DEF Register
  <2>2. KeptIsSet'
    BY <1>6, <2>1 DEF KeptIsSet
  <2> HIDE DEF phase
  <2> QED
    BY <1>2, <1>3, <1>5, <1>6, <2>1, <2>2, HandledInv
<1> QED
  BY <1>7, <1>8

\* A sign-in with the password is let in, unless the address is held off; one
\* with the keys of the password has it, unless characters were taken out.
LEMMA LoginInv ==
  ASSUME SignInInv, NEW i \in DOMAIN flight, Login(i)
  PROVE  SignInInv'
<1> DEFINE held == IsLoginRateLimited
           ok == ~held /\ server.password # Null /\ server.password = flight[i].field
           phase == IF ok THEN "done" ELSE "refused"
           failures == IF held THEN server.failures ELSE IF ok THEN 0
                       ELSE server.failures + 1
<1>1. /\ flight[i] \in SignInRequests /\ flight[i].op = "login"
      /\ Keyed(flight[i]) /\ flight[i].keys # Null
  BY OnlyRequest DEF Login, NotEmpty
<1>2. /\ UNCHANGED <<ui, past>> /\ Return(i, [flight[i] EXCEPT !.phase = phase])
      /\ server' = [server EXCEPT !.limited = held, !.failures = failures]
  BY DEF Login
<1>3. /\ server \in [password : Kept \cup {Null}, failures : 0 .. MaxLoginAttempts,
                     limited : BOOLEAN]
      /\ past \in SignInPast /\ KeptIsSet
  BY DEF SignInInv, SignInTypeOK
<1>4. failures \in 0 .. MaxLoginAttempts
  BY <1>3, SignInAssumption DEF IsLoginRateLimited
<1>5. held \in BOOLEAN
  BY DEF IsLoginRateLimited
<1>6. phase \in {"sent", "done", "refused"}
  OBVIOUS
<1>7. ok \/ phase = "refused"
  OBVIOUS
<1>8. ASSUME flight[i].keys = past.set, ~held, phase = "refused"
      PROVE  past.where = "register" /\ past.set = "trimmed"
  <2>1. past.set \in Keys /\ flight[i].field = past.set
    BY <1>1, <1>8 DEF SignInRequests, Keyed, KeptOf
  <2>2. ~(server.password # Null /\ server.password = past.set)
    BY <1>8, <2>1
  <2>3. server.password = IF past.where = "register" THEN SanitizeInput(past.set)
                                                     ELSE past.set
    BY <1>3, <2>1, KeptOfFacts DEF KeptIsSet, KeptOf
  <2> QED
    BY <2>1, <2>2, <2>3, KeptOfFacts
<1> HIDE DEF failures, held, ok, phase
<1>9. /\ server' \in [password : Kept \cup {Null}, failures : 0 .. MaxLoginAttempts,
                      limited : BOOLEAN]
      /\ server'.password = server.password /\ server'.limited = held
  BY <1>2, <1>3, <1>4, <1>5
<1>10. KeptIsSet' /\ past' \in SignInPast
  BY <1>2, <1>3, <1>9 DEF KeptIsSet
<1> DEFINE r == [flight[i] EXCEPT !.phase = phase]
<1>11. r.keys = flight[i].keys /\ r.phase = phase
  BY <1>1 DEF SignInRequests
<1>12. ExplainedNext(r)
  BY <1>2, <1>8, <1>9, <1>11 DEF ExplainedNext
<1> QED
  BY <1>2, <1>6, <1>9, <1>10, <1>12, HandledInv

\* A change sets the password to its keys.
LEMMA ChangePasswordInv ==
  ASSUME SignInInv, NEW i \in DOMAIN flight, ChangePassword(i)
  PROVE  SignInInv'
<1> DEFINE ok == server.password = flight[i].current
           phase == IF ok THEN "done" ELSE "refused"
<1>1. /\ flight[i] \in SignInRequests /\ flight[i].op = "change"
      /\ Keyed(flight[i]) /\ flight[i].keys # Null
  BY OnlyRequest DEF ChangePassword, NotEmpty
<1>2. UNCHANGED ui /\ Return(i, [flight[i] EXCEPT !.phase = phase])
  BY DEF ChangePassword
<1>3. phase \in {"sent", "done", "refused"}
  OBVIOUS
<1>4. [flight[i] EXCEPT !.phase = phase].op = "change"
  BY <1>1 DEF SignInRequests
<1>5. ExplainedNext([flight[i] EXCEPT !.phase = phase])
  BY <1>4 DEF ExplainedNext
<1>6. /\ server \in [password : Kept \cup {Null}, failures : 0 .. MaxLoginAttempts,
                     limited : BOOLEAN]
      /\ past \in SignInPast /\ KeptIsSet
  BY DEF SignInInv, SignInTypeOK
<1>7. CASE ok
  <2>1. /\ server' = [server EXCEPT !.password = flight[i].field]
        /\ past' = [set |-> flight[i].keys, where |-> "security"]
    BY <1>7 DEF ChangePassword
  <2>2. flight[i].field \in Kept \cup {Null} /\ flight[i].keys \in Keys
    BY <1>1 DEF SignInRequests
  <2>3. /\ server' \in [password : Kept \cup {Null}, failures : 0 .. MaxLoginAttempts,
                        limited : BOOLEAN]
        /\ server'.password = flight[i].field
    BY <1>6, <2>1, <2>2
  <2>4. past' \in SignInPast /\ KeptIsSet'
    BY <1>1, <2>1, <2>2, <2>3 DEF SignInPast, KeptIsSet, Keyed, KeptOf
  <2> HIDE DEF phase
  <2> QED
    BY <1>2, <1>3, <1>5, <2>3, <2>4, HandledInv
<1>8. CASE ~ok
  <2>1. server' = server /\ past' = past
    BY <1>6, <1>8 DEF ChangePassword
  <2>2. KeptIsSet'
    BY <1>6, <2>1 DEF KeptIsSet
  <2> HIDE DEF phase
  <2> QED
    BY <1>2, <1>3, <1>5, <1>6, <2>1, <2>2, HandledInv
<1> QED
  BY <1>7, <1>8

\* No endpoint, or the same request once more: passwords stay.
LEMMA NotHandledInv ==
  ASSUME SignInInv, NEW i \in DOMAIN flight, NoEndpoint(i) \/ SentAgain(i)
  PROVE  SignInInv'
<1>1. flight[i] \in SignInRequests /\ UNCHANGED <<ui, server, past>>
  BY OnlyRequest DEF NoEndpoint, SentAgain
<1>2. /\ server \in [password : Kept \cup {Null}, failures : 0 .. MaxLoginAttempts,
                     limited : BOOLEAN]
      /\ past \in SignInPast /\ KeptIsSet'
  BY <1>1 DEF SignInInv, SignInTypeOK, KeptIsSet
<1>3. CASE NoEndpoint(i)
  <2>1. /\ Return(i, [flight[i] EXCEPT !.phase = "refused"])
        /\ flight[i].op \in {"forgot", "reset"}
    BY <1>3 DEF NoEndpoint
  <2>2. ExplainedNext([flight[i] EXCEPT !.phase = "refused"])
    BY <1>1, <2>1 DEF ExplainedNext, SignInRequests
  <2> QED
    BY <1>1, <1>2, <2>1, <2>2, HandledInv
<1>4. CASE SentAgain(i)
  <2>1. Return(i, [flight[i] EXCEPT !.phase = "sent"])
    BY <1>4 DEF SentAgain
  <2>2. ExplainedNext([flight[i] EXCEPT !.phase = "sent"])
    BY <1>1 DEF ExplainedNext, SignInRequests
  <2> QED
    BY <1>1, <1>2, <2>1, <2>2, HandledInv
<1> QED
  BY <1>3, <1>4

\* The window of the failures is over: no reason is forgotten.
LEMMA AttemptsResetInv == SignInInv /\ AttemptsReset => SignInInv'
<1> SUFFICES ASSUME SignInInv, AttemptsReset PROVE SignInInv'
  OBVIOUS
<1>1. /\ server' = [server EXCEPT !.failures = 0] /\ UNCHANGED <<ui, flight, past>>
      /\ server \in [password : Kept \cup {Null}, failures : 0 .. MaxLoginAttempts,
                     limited : BOOLEAN]
  BY DEF AttemptsReset, SignInInv, SignInTypeOK
<1>2. /\ server' \in [password : Kept \cup {Null}, failures : 0 .. MaxLoginAttempts,
                      limited : BOOLEAN]
      /\ server'.password = server.password /\ server'.limited = server.limited
  BY <1>1, SignInAssumption
<1>3. SignInTypeOK' /\ KeptIsSet'
  BY <1>1, <1>2 DEF SignInInv, SignInTypeOK, KeptIsSet
<1> QED
  BY <1>1, <1>2, <1>3 DEF SignInInv, RefusalExplained

\* The only request is answered: nothing is under way.
LEMMA AnsweredInv ==
  ASSUME SignInInv, NEW i \in DOMAIN flight, Accepted(i) \/ Denied(i) \/ SignedOut(i)
  PROVE  SignInInv'
<1>1. flight \in Seq(SignInRequests) /\ i = 1 /\ Len(flight) = 1
  BY OnlyRequest
<1>2. Land(i) /\ UNCHANGED <<server, past>>
  BY DEF Accepted, Denied, SignedOut, Untold
<1>3. flight' \in Seq(SignInRequests) /\ Len(flight') = 0
  <2>1. i \in 1..Len(flight)
    BY <1>1
  <2>2. flight' \in Seq(SignInRequests) /\ Len(flight') = Len(flight) - 1
    BY <1>1, <1>2, <2>1, RemoveAtFacts DEF Land
  <2> QED
    BY <1>1, <2>2
<1>4. ui \in SignInUI /\ ui.field = KeptOf(ui.at, ui.keys)
  BY DEF SignInInv, SignInTypeOK
<1>5. ui' \in SignInUI /\ ui'.field = KeptOf(ui'.at, ui'.keys)
  <2>1. CASE ui' = EmptyPage("security") \/ ui' = EmptyPage("login")
    BY <2>1, EmptyPageFacts
  <2>2. CASE \/ ui' = [ui EXCEPT !.busy = FALSE, !.leaving = TRUE]
             \/ ui' = [ui EXCEPT !.busy = FALSE, !.apiError = TRUE]
    BY <1>4, <2>2 DEF SignInUI
  <2> QED
    BY <2>1, <2>2 DEF Accepted, Denied, SignedOut
<1>6. SignInTypeOK' /\ KeptIsSet'
  BY <1>2, <1>3, <1>5 DEF SignInInv, SignInTypeOK, KeptIsSet
<1> QED
  BY <1>3, <1>5, <1>6 DEF SignInInv

\* Every step of the pages keeps the invariant.
LEMMA SignInNextInv == SignInInv /\ [SignInNext]_pageVars => SignInInv'
<1> SUFFICES ASSUME SignInInv, [SignInNext]_pageVars PROVE SignInInv'
  OBVIOUS
<1>1. CASE UNCHANGED pageVars
  BY <1>1 DEF pageVars, SignInInv, SignInTypeOK, KeptIsSet, RefusalExplained
<1>2. CASE SignInNext
  BY <1>2, TypedInv, SubmitInv, LeftInv, AttemptsResetInv, RegisterInv, LoginInv,
     ChangePasswordInv, NotHandledInv, AnsweredInv DEF SignInNext
<1> QED
  BY <1>1, <1>2

\* What the user is told follows from the invariant.
LEMMA ReasonsFollow == SignInInv => SignInExplained
<1> SUFFICES ASSUME SignInInv PROVE SignInExplained
  OBVIOUS
<1>1. \A i \in DOMAIN flight : RefusalExplained(flight[i])
  BY OnlyRequest
<1>2. LoginForm /\ past.set # Null /\ ui.keys = past.set =>
        LoginValid \/ past.set = "refused"
  BY DEF SignInInv, LoginForm, LoginValid, At, KeptOf, TextValid
<1> QED
  BY <1>1, <1>2 DEF SignInExplained, RefusalExplained

\* SignInInv holds in every state of the pages of passwords.
LEMMA SignInInvariant == SignInSpec => []SignInInv
BY SignInInitInv, SignInNextInv, PTL DEF SignInSpec

\* The pages of passwords, the requests they send and the password in force keep
\* their types, wherever the links between the pages lead.
THEOREM SignInTyped == SignInSpec => []SignInTypeOK
<1>1. SignInInv => SignInTypeOK
  BY DEF SignInInv
<1> QED
  BY <1>1, SignInInvariant, PTL

-----------------------------------------------------------------------------
\* The keys a user set his password with let him in, whatever he set, changed
\* and tried before: unless he is held off, or they were trimmed at registration,
\* or are refused by the form that signs in.
THEOREM KeysLetIn == SignInSpec => []SignInExplained
BY SignInInvariant, ReasonsFollow, PTL
-----------------------------------------------------------------------------
\* Orders.
-----------------------------------------------------------------------------
\* A row shows its order as it is, unless someone else has moved it.
Right(row, moved, kept) == row.id \in moved \/ row.status = NormalizeStatus[kept[row.id]]

\* What is shown, or is about to be, is right: but for a row whose update is done
\* and not yet answered.
Sound(pending, orders, moved, kept) ==
  /\ \A k \in 1..Len(orders) :
       \/ Right(orders[k], moved, kept)
       \/ \E r \in pending : /\ r.op \in Updates /\ r.phase = "done"
                             /\ r.id = orders[k].id
  /\ \A r \in pending : r.op = "load" =>
       \A k \in 1..Len(r.rows) : Right(r.rows[k], moved, kept)
  /\ \A r \in pending : r.op \in Updates /\ r.phase = "done" =>
       Right([id |-> r.id, status |-> r.to], moved, kept)

\* What an update asks for was offered for what its user saw.
Offered(r) ==
  /\ r.op = "set" => r.to \in SalesOffer(r.seen)
  /\ r.op = "cancel" => r.to = "cancelled" /\ r.seen = "pending"

\* An update that met nothing else is under way alone.
Alone ==
  ~past.overlapped =>
    \A k, l \in 1..Len(flight) : flight[k].op \in Updates => k = l

\* The page of an order is loaded once, and then changes it once at a time.
OneAtATime(pending, u) ==
  /\ u.dirty => pending = {} /\ u.orders = <<>>
  /\ \A r \in pending : IF r.op = "load" THEN u.orders = <<>>
                        ELSE u.updating # 0 /\ r.op = "cancel"

OrdersInv ==
  /\ OrdersTypeOK
  /\ Alone
  /\ At("order") => /\ ~past.overlapped /\ OneAtATime(Left({}), ui)
                    /\ \A k, l \in 1..Len(flight) : k = l
  /\ At("purchases") => \A r \in Left({}) : r.op = "load"
  /\ \A r \in Left({}) : Offered(r)
  /\ \/ past.lost
     \/ past.overlapped /\ At("sales")
     \/ Sound(Left({}), ui.orders, past.moved, server)

-----------------------------------------------------------------------------
\* The pages have a name for each status of the server, and the way back.
LEMMA StatusNames ==
  /\ \A s \in ServerStatuses :
       /\ NormalizeStatus[s] \in OrderStatuses
       /\ ToBackendStatus[NormalizeStatus[s]] = s
  /\ \A t \in OrderStatuses :
       /\ ToBackendStatus[t] \in ServerStatuses
       /\ NormalizeStatus[ToBackendStatus[t]] = t
BY DEF ServerStatuses, OrderStatuses, NormalizeStatus, ToBackendStatus

\* An empty page, and every order as it was placed.
LEMMA OrdersInitInv == OrdersInit => OrdersInv
<1> SUFFICES ASSUME OrdersInit PROVE OrdersInv
  OBVIOUS
<1> USE OrdersAssumption
<1>1. /\ ui \in OrdersUI /\ ui.orders = <<>> /\ ui.updating = 0
  <2>0. PICK at \in {"sales", "purchases", "order"} :
          \E as \in Parties(at) :
            ui = [at |-> at, as |-> as, orders |-> <<>>, page |-> 1, filter |-> "all",
                  dirty |-> TRUE, hasMore |-> TRUE, loading |-> TRUE, error |-> FALSE,
                  updating |-> 0]
    BY DEF OrdersInit
  <2>1. PICK as \in Parties(at) :
          ui = [at |-> at, as |-> as, orders |-> <<>>, page |-> 1, filter |-> "all",
                dirty |-> TRUE, hasMore |-> TRUE, loading |-> TRUE, error |-> FALSE,
                updating |-> 0]
    BY <2>0
  <2>2. as \in {"seller", "buyer"}
    BY <2>1 DEF Parties
  <2>3. <<>> \in Seq(Rows)
    OBVIOUS
  <2> QED
    BY <2>1, <2>2, <2>3 DEF OrdersUI
<1>2. /\ flight = <<>> /\ past = [moved |-> {}, overlapped |-> FALSE, lost |-> FALSE]
      /\ server = [o \in OrderIds |-> "Pending"]
  BY DEF OrdersInit, Booted
<1>3. OrdersTypeOK
  BY <1>1, <1>2 DEF OrdersTypeOK, OrdersPast, ServerStatuses
<1>4. Left({}) = {} /\ Len(flight) = 0 /\ Len(ui.orders) = 0
  BY <1>1, <1>2 DEF Left
<1>5. Sound({}, ui.orders, past.moved, server)
  BY <1>4 DEF Sound
<1>6. Alone /\ \A k, l \in 1..Len(flight) : k = l
  BY <1>4 DEF Alone
<1>7. OneAtATime({}, ui) /\ past.overlapped = FALSE
  BY <1>1, <1>2 DEF OneAtATime
<1> QED
  BY <1>3, <1>4, <1>5, <1>6, <1>7 DEF OrdersInv

\* What is known of a request under way.
LEMMA OrderRequest ==
  ASSUME OrdersInv, NEW i \in DOMAIN flight
  PROVE  /\ flight \in Seq(OrderRequests) /\ i \in 1..Len(flight)
         /\ flight[i] \in OrderRequests /\ Offered(flight[i])
         /\ flight[i].op = "load" =>
              flight[i] \in [op : {"load"}, page : Nat, filter : Tabs,
                             phase : {"sent", "done"}, rows : Seq(Rows)]
         /\ flight[i].op # "load" =>
              flight[i] \in [op : {"set", "cancel"}, id : OrderIds, to : OrderStatuses,
                             seen : OrderStatuses, phase : {"sent", "done", "refused"}]
         /\ Left({}) = Left({i}) \cup {flight[i]}
<1>1. flight \in Seq(OrderRequests)
  BY DEF OrdersInv, OrdersTypeOK
<1>2. i \in 1..Len(flight)
  BY <1>1
<1>3. flight[i] \in OrderRequests
  BY <1>1, <1>2, ElementOfSeq
<1>4. Left({}) = Left({i}) \cup {flight[i]}
  BY <1>2, LeftOne
<1>5. Offered(flight[i])
  BY <1>4 DEF OrdersInv
<1> QED
  BY <1>1, <1>2, <1>3, <1>4, <1>5 DEF OrderRequests

\* The kinds there are.
LEMMA OrderKinds ==
  ASSUME OrdersInv, NEW gone
  PROVE  \A r \in Left(gone) : r.op = "load" \/ r.op \in Updates
<1> SUFFICES ASSUME NEW r \in Left(gone) PROVE r.op = "load" \/ r.op \in Updates
  OBVIOUS
<1>1. PICK k \in 1..Len(flight) : r = flight[k]
  BY DEF Left
<1>2. flight \in Seq(OrderRequests)
  BY DEF OrdersInv, OrdersTypeOK
<1>3. DOMAIN flight = 1..Len(flight)
  BY <1>2
<1> QED
  BY <1>1, <1>3, OrderRequest DEF Updates

\* The others under way beside an update or a load, when nothing met an update.
LEMMA AloneFacts ==
  ASSUME OrdersInv, NEW i \in DOMAIN flight, ~past.overlapped \/ At("order")
  PROVE  /\ \A l \in (1..Len(flight)) \ {i} :
              flight[i].op \notin Updates /\ flight[l].op \notin Updates
         /\ flight[i].op \in Updates => Left({i}) = {}
         /\ At("order") => (1..Len(flight)) \ {i} = {} /\ Left({i}) = {}
<1>1. i \in 1..Len(flight)
  BY OrderRequest
<1>2. \A l \in (1..Len(flight)) \ {i} :
        flight[i].op \notin Updates /\ flight[l].op \notin Updates
  BY <1>1 DEF OrdersInv, Alone
<1>3. At("order") => (1..Len(flight)) \ {i} = {}
  BY <1>1 DEF OrdersInv
<1> QED
  BY <1>2, <1>3 DEF Left

\* The parts of the invariant after a step.
LEMMA OrdersStep ==
  ASSUME OrdersInv, NEW gone, NEW new, Exchanged(gone, new),
         flight' \in Seq(OrderRequests), ui' \in OrdersUI, ui'.at = ui.at,
         server' \in [OrderIds -> ServerStatuses], past' \in OrdersPast,
         past.overlapped => past'.overlapped,
         \A r \in new : Offered(r),
         ~past'.overlapped =>
           \A r \in new : \A l \in (1..Len(flight)) \ gone :
             r.op \notin Updates /\ flight[l].op \notin Updates,
         At("purchases") => \A r \in new : r.op = "load",
         At("order") =>
           /\ ~past'.overlapped /\ OneAtATime(Left(gone) \cup new, ui')
           /\ new = {} \/ (1..Len(flight)) \ gone = {},
         \/ past'.lost
         \/ past'.overlapped /\ At("sales")
         \/ Sound(Left(gone) \cup new, ui'.orders, past'.moved, server')
  PROVE  OrdersInv'
<1>1. Left({})' = Left(gone) \cup new
  BY ExchangedLeft
<1>2. OrdersTypeOK'
  BY DEF OrdersTypeOK
<1>3. PICK f : /\ \A k \in 1..Len(flight') :
                    \/ f[k] \in (1..Len(flight)) \ gone /\ flight'[k] = flight[f[k]]
                    \/ f[k] = 0 /\ flight'[k] \in new
               /\ \A k, l \in 1..Len(flight') : f[k] = f[l] => k = l
  BY DEF Exchanged
<1>4. Alone'
  <2> SUFFICES ASSUME ~past'.overlapped, NEW k \in 1..Len(flight'),
                      NEW l \in 1..Len(flight'), flight'[k].op \in Updates, f[k] # f[l]
               PROVE  FALSE
    BY <1>3 DEF Alone, Updates
  <2>1. CASE f[k] \in (1..Len(flight)) \ gone /\ flight'[k] = flight[f[k]]
    <3>1. CASE f[l] \in (1..Len(flight)) \ gone
      BY <2>1, <3>1 DEF OrdersInv, Alone
    <3>2. CASE flight'[l] \in new
      BY <2>1, <3>2
    <3> QED
      BY <1>3, <3>1, <3>2
  <2>2. CASE f[k] = 0 /\ flight'[k] \in new
    <3>1. f[l] \in (1..Len(flight)) \ gone
      BY <1>3, <2>2
    <3> QED
      BY <2>2, <3>1
  <2> QED
    BY <1>3, <2>1, <2>2
<1>5. At("order") => \A k, l \in 1..Len(flight') : k = l
  <2> SUFFICES ASSUME At("order"), NEW k \in 1..Len(flight'), NEW l \in 1..Len(flight')
               PROVE  f[k] = f[l]
    BY <1>3
  <2>1. CASE new = {}
    <3>1. f[k] \in 1..Len(flight) /\ f[l] \in 1..Len(flight)
      BY <1>3, <2>1
    <3> QED
      BY <3>1 DEF OrdersInv
  <2>2. CASE (1..Len(flight)) \ gone = {}
    BY <1>3, <2>2
  <2> QED
    BY <2>1, <2>2
<1> DEFINE P == Left(gone) \cup new
<1>6. /\ At("order") => ~past'.overlapped /\ OneAtATime(P, ui')
      /\ At("purchases") => \A r \in P : r.op = "load"
      /\ \A r \in P : Offered(r)
      /\ \/ past'.lost
         \/ past'.overlapped /\ At("sales")
         \/ Sound(P, ui'.orders, past'.moved, server')
  BY DEF OrdersInv, Left
<1>7. Left({})' = P
  BY <1>1
<1>8. /\ At("order")' <=> At("order")
      /\ At("purchases")' <=> At("purchases")
      /\ At("sales")' <=> At("sales")
  BY DEF At
<1> HIDE DEF P
<1> QED
  BY <1>2, <1>4, <1>5, <1>6, <1>7, <1>8
     DEF OrdersInv, OneAtATime, Offered, Sound, Right

\* Requests that stay explain what they did; those taken away were no update that
\* was done.
LEMMA SoundLess ==
  ASSUME NEW P, NEW Q, NEW orders, NEW moved, NEW kept, Sound(P, orders, moved, kept),
         Q \subseteq P, \A r \in P \ Q : ~(r.op \in Updates /\ r.phase = "done")
  PROVE  Sound(Q, orders, moved, kept)
BY DEF Sound

\* What is sent, or comes back, is a load of what is right, or an update that was
\* not done.
LEMMA SoundMore ==
  ASSUME NEW P, NEW x, NEW orders, NEW moved, NEW kept, Sound(P, orders, moved, kept),
         \/ x.op = "load" /\ \A k \in 1..Len(x.rows) : Right(x.rows[k], moved, kept)
         \/ x.op \in Updates /\ x.phase # "done",
         x.op = "load" => x.op \notin Updates,
         x.op \in Updates => x.op # "load"
  PROVE  Sound(P \cup {x}, orders, moved, kept)
BY DEF Sound

\* A load is sent: it does not meet an update unnoticed.
LEMMA OrdersLoadInv ==
  ASSUME OrdersInv, NEW page \in Nat, StartLoad(page), UNCHANGED server,
         ui' \in OrdersUI, ui'.at = ui.at, ui'.orders = ui.orders,
         At("order") => ui.dirty /\ ~ui'.dirty
  PROVE  OrdersInv'
<1> DEFINE P == Left({})
           r == [op |-> "load", page |-> page, filter |-> ui.filter, phase |-> "sent",
                 rows |-> <<>>]
           overlapped == past.overlapped \/ Updating
<1>1. /\ ui \in OrdersUI /\ flight \in Seq(OrderRequests) /\ past \in OrdersPast
      /\ server' \in [OrderIds -> ServerStatuses] /\ server' = server
      /\ Send(r) /\ past' = [past EXCEPT !.overlapped = overlapped]
  BY DEF OrdersInv, OrdersTypeOK, StartLoad
<1>2. overlapped \in BOOLEAN /\ (past.overlapped => overlapped)
  BY <1>1 DEF OrdersPast
<1>3. /\ r.op = "load" /\ r.rows = <<>> /\ r.op \notin Updates /\ r.op # "set"
      /\ r.op # "cancel"
  BY DEF Updates
<1>4. r \in OrderRequests
  <2>1. <<>> \in Seq(Rows) /\ ui.filter \in Tabs
    BY <1>1 DEF OrdersUI
  <2> QED
    BY <2>1 DEF OrderRequests
<1>5. ~overlapped => \A l \in (1..Len(flight)) \ {} : flight[l].op \notin Updates
  <2>1. DOMAIN flight = 1..Len(flight)
    BY <1>1
  <2> QED
    BY <2>1 DEF Updating, UnderWay
<1>6. At("order") => ~past.overlapped /\ P = {} /\ ui.orders = <<>>
  BY DEF OrdersInv, OneAtATime
<1>7. At("order") => ~overlapped /\ (1..Len(flight)) \ {} = {}
  <2>1. At("order") => (1..Len(flight)) \ {} = {}
    BY <1>6 DEF Left
  <2>2. DOMAIN flight = 1..Len(flight)
    BY <1>1
  <2> QED
    BY <1>6, <2>1, <2>2 DEF Updating, UnderWay
<1>8. \/ past.lost
      \/ past.overlapped /\ At("sales")
      \/ Sound(P, ui.orders, past.moved, server)
  BY DEF OrdersInv
<1> HIDE DEF P, r, overlapped
<1>9. /\ past' \in OrdersPast /\ past'.overlapped = overlapped
      /\ past'.lost = past.lost /\ past'.moved = past.moved
  BY <1>1, <1>2 DEF OrdersPast
<1>10. flight' \in Seq(OrderRequests) /\ Exchanged({}, {r})
  BY <1>1, <1>4, SentExchange
<1>11. Sound(P, ui.orders, past.moved, server) =>
         Sound(P \cup {r}, ui.orders, past.moved, server)
  BY <1>3, SoundMore
<1>12. At("order") => OneAtATime(P \cup {r}, ui')
  BY <1>3, <1>6 DEF OneAtATime
<1>13. Offered(r)
  BY <1>3 DEF Offered
<1>14. /\ \A x \in {r} : Offered(x) /\ x.op = "load"
       /\ ~past'.overlapped =>
            \A x \in {r} : \A l \in (1..Len(flight)) \ {} :
              x.op \notin Updates /\ flight[l].op \notin Updates
       /\ At("order") =>
            /\ ~past'.overlapped /\ OneAtATime(Left({}) \cup {r}, ui')
            /\ {r} = {} \/ (1..Len(flight)) \ {} = {}
  BY <1>3, <1>5, <1>7, <1>9, <1>12, <1>13 DEF P
<1>15. \/ past'.lost
       \/ past'.overlapped /\ At("sales")
       \/ Sound(Left({}) \cup {r}, ui'.orders, past'.moved, server')
  BY <1>1, <1>2, <1>8, <1>9, <1>11 DEF P
<1> QED
  BY <1>1, <1>2, <1>9, <1>10, <1>14, <1>15, OrdersStep

\* The pages load what they show.
LEMMA EffectsInv ==
  ASSUME OrdersInv, SalesEffect \/ PurchasesEffect \/ OrderEffect \/ PurchasesLoadMore
  PROVE  OrdersInv'
<1>1. ui \in OrdersUI /\ UNCHANGED server /\ ui.page \in Nat
  BY DEF OrdersInv, OrdersTypeOK, OrdersUI, SalesEffect, PurchasesEffect, OrderEffect,
         PurchasesLoadMore
<1>2. PICK page \in Nat : StartLoad(page)
  BY <1>1 DEF SalesEffect, PurchasesEffect, OrderEffect, PurchasesLoadMore
<1>3. CASE SalesEffect \/ PurchasesEffect \/ OrderEffect
  <2>1. ui' = [ui EXCEPT !.dirty = FALSE, !.loading = TRUE] /\ ui.dirty
    BY <1>3 DEF SalesEffect, PurchasesEffect, OrderEffect
  <2>2. /\ ui' \in OrdersUI /\ ui'.at = ui.at /\ ui'.orders = ui.orders /\ ~ui'.dirty
    BY <1>1, <2>1 DEF OrdersUI
  <2> QED
    BY <1>1, <1>2, <2>1, <2>2, OrdersLoadInv
<1>4. CASE PurchasesLoadMore
  <2> DEFINE next == ui.page + 1
  <2>1. ui' = [ui EXCEPT !.page = next, !.dirty = TRUE, !.loading = TRUE]
    BY <1>4 DEF PurchasesLoadMore
  <2>2. next \in Nat
    BY <1>1
  <2>3. ~At("order")
    BY <1>4 DEF PurchasesLoadMore, PurchasesMore, At
  <2> HIDE DEF next
  <2>4. /\ ui' \in OrdersUI /\ ui'.at = ui.at /\ ui'.orders = ui.orders
    BY <1>1, <2>1, <2>2 DEF OrdersUI
  <2> QED
    BY <1>1, <1>2, <2>3, <2>4, OrdersLoadInv
<1> QED
  BY <1>3, <1>4

\* A filter is picked, or more asked for: a load will follow.
LEMMA PickedInv ==
  ASSUME OrdersInv, SalesTab \/ PurchasesTab \/ SalesLoadMore
  PROVE  OrdersInv'
<1>1. /\ ui \in OrdersUI /\ UNCHANGED <<server, past, flight>>
      /\ flight' \in Seq(OrderRequests) /\ server' \in [OrderIds -> ServerStatuses]
      /\ past' \in OrdersPast
  BY DEF OrdersInv, OrdersTypeOK, SalesTab, PurchasesTab, SalesLoadMore
<1>2. ~At("order")
  BY DEF SalesTab, PurchasesTab, SalesLoadMore, SalesMore, At
<1>3. ui' \in OrdersUI /\ ui'.at = ui.at /\ ui'.orders = ui.orders
  <2>1. CASE SalesTab
    <3>1. PICK t \in Tabs : ui' = [ui EXCEPT !.filter = t, !.page = 1, !.dirty = TRUE]
      BY <2>1 DEF SalesTab
    <3> QED
      BY <1>1, <3>1 DEF OrdersUI
  <2>2. CASE PurchasesTab
    <3>1. PICK t \in Tabs : ui' = [ui EXCEPT !.filter = t, !.dirty = TRUE]
      BY <2>2 DEF PurchasesTab
    <3> QED
      BY <1>1, <3>1 DEF OrdersUI
  <2>3. CASE SalesLoadMore
    <3> DEFINE next == ui.page + 1
    <3>1. ui' = [ui EXCEPT !.page = next, !.dirty = TRUE] /\ next \in Nat
      BY <1>1, <2>3 DEF SalesLoadMore, OrdersUI
    <3> HIDE DEF next
    <3> QED
      BY <1>1, <3>1 DEF OrdersUI
  <2> QED
    BY <2>1, <2>2, <2>3
<1> DEFINE none == {}
<1>4. Exchanged(none, none)
  BY <1>1, SameExchange
<1>5. \/ past'.lost
      \/ past'.overlapped /\ At("sales")
      \/ Sound(Left(none) \cup none, ui'.orders, past'.moved, server')
  <2> DEFINE P == Left({})
  <2>1. \/ past.lost
        \/ past.overlapped /\ At("sales")
        \/ Sound(P, ui.orders, past.moved, server)
    BY DEF OrdersInv
  <2>2. P \cup none = P
    OBVIOUS
  <2> HIDE DEF P
  <2> QED
    BY <1>1, <1>3, <2>1, <2>2 DEF P
<1>6. \A r : r \notin none
  OBVIOUS
<1> HIDE DEF none
<1> QED
  BY <1>1, <1>2, <1>3, <1>4, <1>5, <1>6, OrdersStep

\* An update is sent: it does not meet anything unnoticed.
LEMMA UpdateSentInv ==
  ASSUME OrdersInv, NEW op \in Updates, NEW row \in Rows, NEW to \in OrderStatuses,
         StartUpdate(op, row, to), UNCHANGED server, ~At("purchases"),
         ui' = [ui EXCEPT !.updating = row.id],
         op = "set" => At("sales") /\ to \in SalesOffer(row.status),
         op = "cancel" => to = "cancelled" /\ row.status = "pending",
         At("order") => ui.orders # <<>> /\ ui.updating = 0
  PROVE  OrdersInv'
<1> DEFINE P == Left({})
           r == [op |-> op, id |-> row.id, to |-> to, seen |-> row.status, phase |-> "sent"]
           overlapped == past.overlapped \/ flight # <<>>
<1>1. /\ ui \in OrdersUI /\ flight \in Seq(OrderRequests) /\ past \in OrdersPast
      /\ server' \in [OrderIds -> ServerStatuses] /\ server' = server
      /\ Send(r) /\ past' = [past EXCEPT !.overlapped = overlapped]
  BY DEF OrdersInv, OrdersTypeOK, StartUpdate
<1>2. overlapped \in BOOLEAN /\ (past.overlapped => overlapped)
  BY <1>1 DEF OrdersPast
<1>3. /\ row.id \in OrderIds /\ row.status \in OrderStatuses
      /\ op \in {"set", "cancel"} /\ row.id # 0
  BY OrdersAssumption DEF Rows, Updates, OrderIds
<1>4. /\ r \in OrderRequests /\ r.op = op /\ r.op \in Updates /\ r.op # "load"
      /\ r.phase = "sent" /\ r.to = to /\ r.seen = row.status
  BY <1>3 DEF OrderRequests, Updates
<1>5. Offered(r)
  BY <1>4 DEF Offered
<1>6. ~overlapped => (1..Len(flight)) \ {} = {}
  BY <1>1
<1>7. At("order") => ~overlapped /\ (1..Len(flight)) \ {} = {} /\ ~ui.dirty /\ P = {}
  <2>1. At("order") => ~past.overlapped /\ ~ui.dirty /\ P = {}
    BY OrderKinds DEF OrdersInv, OneAtATime, Updates
  <2>2. At("order") => \A l \in 1..Len(flight) : FALSE
    BY <2>1 DEF Left
  <2>3. flight # <<>> => 1 \in 1..Len(flight)
    BY <1>1
  <2> QED
    BY <2>1, <2>2, <2>3
<1>8. \/ past.lost
      \/ past.overlapped /\ At("sales")
      \/ Sound(P, ui.orders, past.moved, server)
  BY DEF OrdersInv
<1> HIDE DEF P, r, overlapped
<1>9. /\ past' \in OrdersPast /\ past'.overlapped = overlapped
      /\ past'.lost = past.lost /\ past'.moved = past.moved
  BY <1>1, <1>2 DEF OrdersPast
<1>10. flight' \in Seq(OrderRequests) /\ Exchanged({}, {r})
  BY <1>1, <1>4, SentExchange
<1>11. /\ ui' \in OrdersUI /\ ui'.at = ui.at /\ ui'.orders = ui.orders
       /\ ui'.updating = row.id /\ ui'.dirty = ui.dirty
  BY <1>1, <1>3 DEF OrdersUI
<1>12. Sound(P, ui.orders, past.moved, server) =>
         Sound(P \cup {r}, ui.orders, past.moved, server)
  BY <1>4, SoundMore
<1>13. At("order") => OneAtATime(P \cup {r}, ui')
  <2>1. At("order") => r.op = "cancel"
    BY <1>3, <1>4 DEF At
  <2> QED
    BY <1>3, <1>4, <1>7, <1>11, <2>1 DEF OneAtATime
<1>14. /\ \A x \in {r} : Offered(x)
       /\ ~past'.overlapped =>
            \A x \in {r} : \A l \in (1..Len(flight)) \ {} :
              x.op \notin Updates /\ flight[l].op \notin Updates
       /\ At("order") =>
            /\ ~past'.overlapped /\ OneAtATime(Left({}) \cup {r}, ui')
            /\ {r} = {} \/ (1..Len(flight)) \ {} = {}
  BY <1>5, <1>6, <1>7, <1>9, <1>13 DEF P
<1>15. \/ past'.lost
       \/ past'.overlapped /\ At("sales")
       \/ Sound(Left({}) \cup {r}, ui'.orders, past'.moved, server')
  BY <1>1, <1>2, <1>8, <1>9, <1>11, <1>12 DEF P
<1> QED
  BY <1>1, <1>2, <1>9, <1>10, <1>11, <1>14, <1>15, OrdersStep

\* The seller moves an order on, or the buyer cancels his.
LEMMA ClickedInv ==
  ASSUME OrdersInv, HandleUpdateStatus \/ HandleCancelOrder
  PROVE  OrdersInv'
<1>1. ui.orders \in Seq(Rows)
  BY DEF OrdersInv, OrdersTypeOK, OrdersUI
<1>2. CASE HandleUpdateStatus
  <2>0. PICK k \in DOMAIN ui.orders : \E to \in SalesOffer(ui.orders[k].status) :
          /\ ui' = [ui EXCEPT !.updating = ui.orders[k].id]
          /\ StartUpdate("set", ui.orders[k], to)
    BY <1>2 DEF HandleUpdateStatus
  <2>1. PICK to \in SalesOffer(ui.orders[k].status) :
          /\ ui' = [ui EXCEPT !.updating = ui.orders[k].id]
          /\ StartUpdate("set", ui.orders[k], to)
    BY <2>0
  <2>2. k \in 1..Len(ui.orders)
    BY <1>1
  <2>3. ui.orders[k] \in Rows
    BY <1>1, <2>2, ElementOfSeq
  <2>4. to \in OrderStatuses
    BY DEF SalesOffer, OrderStatuses
  <2>5. At("sales") /\ ~At("purchases") /\ ~At("order") /\ UNCHANGED server
    BY <1>2 DEF HandleUpdateStatus, SalesCards, At
  <2>6. "set" \in Updates
    BY DEF Updates
  <2> QED
    BY <2>1, <2>3, <2>4, <2>5, <2>6, UpdateSentInv
<1>3. CASE HandleCancelOrder
  <2>1. /\ ui' = [ui EXCEPT !.updating = ui.orders[1].id] /\ UNCHANGED server
        /\ StartUpdate("cancel", ui.orders[1], "cancelled")
        /\ ui.orders # <<>> /\ ui.updating = 0 /\ ui.orders[1].status = "pending"
        /\ ~At("purchases")
    BY <1>3 DEF HandleCancelOrder, OrderShown, At
  <2>2. 1 \in 1..Len(ui.orders)
    BY <1>1, <2>1
  <2>3. ui.orders[1] \in Rows
    BY <1>1, <2>2, ElementOfSeq
  <2>4. "cancelled" \in OrderStatuses /\ "cancel" \in Updates
    BY DEF OrderStatuses, Updates
  <2> QED
    BY <2>1, <2>3, <2>4, UpdateSentInv
<1> QED
  BY <1>2, <1>3

\* A page of orders is read as the orders are.
LEMMA LoadInv ==
  ASSUME OrdersInv, NEW i \in DOMAIN flight, Load(i)
  PROVE  OrdersInv'
<1> DEFINE rows == IF flight[i].page \in OrderIds
                     THEN <<[id |-> flight[i].page,
                             status |-> NormalizeStatus[server[flight[i].page]]]>>
                     ELSE <<>>
           x == [flight[i] EXCEPT !.phase = "done", !.rows = rows]
           P == Left({})
           Q == Left({i})
<1>1. /\ ui \in OrdersUI /\ past \in OrdersPast /\ server \in [OrderIds -> ServerStatuses]
      /\ UNCHANGED <<ui, server, past>> /\ Return(i, x)
      /\ flight[i].op = "load" /\ flight[i].phase = "sent"
  BY DEF OrdersInv, OrdersTypeOK, Load
<1>2. /\ rows \in Seq(Rows)
      /\ \A k \in 1..Len(rows) : Right(rows[k], past.moved, server)
  <2>1. CASE flight[i].page \in OrderIds
    <3> DEFINE s == NormalizeStatus[server[flight[i].page]]
               row == [id |-> flight[i].page, status |-> s]
    <3>1. s \in OrderStatuses
      BY <1>1, <2>1, StatusNames
    <3>2. Right(row, past.moved, server)
      BY DEF Right
    <3>3. row \in Rows
      BY <2>1, <3>1 DEF Rows
    <3>4. rows = <<row>>
      BY <2>1
    <3> HIDE DEF row, rows
    <3>5. Len(rows) = 1 /\ rows[1] = row
      BY <3>4
    <3> QED
      BY <3>2, <3>3, <3>4, <3>5
  <2>2. CASE flight[i].page \notin OrderIds
    BY <2>2
  <2> QED
    BY <2>1, <2>2
<1>3. /\ flight[i] \in [op : {"load"}, page : Nat, filter : Tabs,
                        phase : {"sent", "done"}, rows : Seq(Rows)]
      /\ flight \in Seq(OrderRequests) /\ i \in 1..Len(flight) /\ P = Q \cup {flight[i]}
  BY <1>1, OrderRequest
<1> HIDE DEF rows
<1>4. /\ x \in OrderRequests /\ x.op = "load" /\ x.rows = rows /\ x.phase = "done"
  BY <1>2, <1>3 DEF OrderRequests
<1>5. Offered(x) /\ x.op \notin Updates /\ flight[i].op \notin Updates
  BY <1>1, <1>4 DEF Offered, Updates
<1>6. At("order") => Q = {} /\ (1..Len(flight)) \ {i} = {}
  BY AloneFacts
<1>7. ~past.overlapped => \A l \in (1..Len(flight)) \ {i} : flight[l].op \notin Updates
  BY AloneFacts
<1>8. At("order") => ~past.overlapped /\ ~ui.dirty /\ ui.orders = <<>>
  BY <1>1, <1>3 DEF OrdersInv, OneAtATime
<1>9. Sound(P, ui.orders, past.moved, server) \/ past.lost
        \/ (past.overlapped /\ At("sales"))
  BY DEF OrdersInv
<1> HIDE DEF x, P, Q
<1>10. flight' \in Seq(OrderRequests) /\ Exchanged({i}, {x})
  BY <1>1, <1>3, <1>4, ReturnedExchange
<1>11. Sound(P, ui.orders, past.moved, server) => Sound(Q, ui.orders, past.moved, server)
  BY <1>3, <1>5, SoundLess
<1>12. Sound(Q, ui.orders, past.moved, server) =>
         Sound(Q \cup {x}, ui.orders, past.moved, server)
  BY <1>2, <1>4, <1>5, SoundMore
<1>13. At("order") => OneAtATime(Q \cup {x}, ui)
  BY <1>4, <1>6, <1>8 DEF OneAtATime
<1>14. /\ \A r \in {x} : Offered(r) /\ r.op = "load"
       /\ ~past'.overlapped =>
            \A r \in {x} : \A l \in (1..Len(flight)) \ {i} :
              r.op \notin Updates /\ flight[l].op \notin Updates
       /\ At("order") =>
            /\ ~past'.overlapped /\ OneAtATime(Left({i}) \cup {x}, ui')
            /\ {x} = {} \/ (1..Len(flight)) \ {i} = {}
  BY <1>1, <1>4, <1>5, <1>6, <1>7, <1>8, <1>13 DEF Q
<1>15. \/ past'.lost
       \/ past'.overlapped /\ At("sales")
       \/ Sound(Left({i}) \cup {x}, ui'.orders, past'.moved, server')
  BY <1>1, <1>9, <1>11, <1>12 DEF Q
<1> QED
  BY <1>1, <1>10, <1>14, <1>15, OrdersStep

\* An update that is made is right, and it is alone, or remembered to have met
\* another; one that is refused changes nothing.
LEMMA UpdateOrderInv ==
  ASSUME OrdersInv, NEW i \in DOMAIN flight, UpdateOrder(i)
  PROVE  OrdersInv'
<1> DEFINE to == ToBackendStatus[flight[i].to]
           from == server[flight[i].id]
           ok == IF flight[i].op = "set"
                   THEN ui.as = "seller" /\ (from = to \/ IsAllowedTransition(from, to))
                   ELSE ui.as = "buyer" /\ from = "Pending"
           phase == IF ok THEN "done" ELSE "refused"
           x == [flight[i] EXCEPT !.phase = phase]
           kept == IF ok THEN [server EXCEPT ![flight[i].id] = to] ELSE server
           P == Left({})
           Q == Left({i})
<1>1. /\ ui \in OrdersUI /\ past \in OrdersPast /\ server \in [OrderIds -> ServerStatuses]
      /\ UNCHANGED <<ui, past>> /\ Return(i, x) /\ server' = kept
      /\ flight[i].op \in Updates /\ flight[i].phase = "sent" /\ ~At("purchases")
  BY DEF OrdersInv, OrdersTypeOK, UpdateOrder, At
<1>2. flight[i].op # "load"
  BY <1>1 DEF Updates
<1>3. /\ flight[i] \in [op : {"set", "cancel"}, id : OrderIds, to : OrderStatuses,
                        seen : OrderStatuses, phase : {"sent", "done", "refused"}]
      /\ flight \in Seq(OrderRequests) /\ i \in 1..Len(flight) /\ P = Q \cup {flight[i]}
      /\ Offered(flight[i])
  BY <1>2, OrderRequest
<1>4. to \in ServerStatuses /\ NormalizeStatus[to] = flight[i].to
  BY <1>3, StatusNames
<1>5. /\ phase \in {"done", "refused"}
      /\ phase = "refused" => kept = server
      /\ phase = "done" => kept = [server EXCEPT ![flight[i].id] = to]
  OBVIOUS
<1> HIDE DEF to, from, ok, phase, kept
<1>6. /\ x \in OrderRequests /\ x.op = flight[i].op /\ x.id = flight[i].id
      /\ x.to = flight[i].to /\ x.seen = flight[i].seen /\ x.phase = phase
  BY <1>3, <1>5 DEF OrderRequests
<1>7. Offered(x)
  BY <1>3, <1>6 DEF Offered
<1>8. /\ kept \in [OrderIds -> ServerStatuses]
      /\ \A o \in OrderIds : o # flight[i].id => kept[o] = server[o]
      /\ phase = "done" => kept[flight[i].id] = to
  BY <1>1, <1>3, <1>4, <1>5
<1>9. ~past.overlapped \/ At("order") => Q = {} /\ (1..Len(flight)) \ {i} = {}
  <2>1. ~past.overlapped \/ At("order") => Q = {}
    BY <1>1, AloneFacts
  <2>2. ~past.overlapped => \A l \in (1..Len(flight)) \ {i} : FALSE
    BY <1>1, AloneFacts
  <2>3. At("order") => (1..Len(flight)) \ {i} = {}
    BY AloneFacts
  <2> QED
    BY <2>1, <2>2, <2>3
<1>10. At("order") => ~past.overlapped /\ ~ui.dirty /\ ui.updating # 0
  BY <1>2, <1>3 DEF OrdersInv, OneAtATime
<1>11. Sound(P, ui.orders, past.moved, server) \/ past.lost
         \/ (past.overlapped /\ At("sales"))
  BY DEF OrdersInv
<1>12. At("sales") \/ At("order")
  BY DEF UpdateOrder
<1> HIDE DEF x, P, Q
<1>13. flight' \in Seq(OrderRequests) /\ Exchanged({i}, {x})
  BY <1>1, <1>3, <1>6, ReturnedExchange
<1>14. ASSUME Sound(P, ui.orders, past.moved, server), Q = {}
       PROVE  Sound(Q \cup {x}, ui.orders, past.moved, kept)
  <2>1. CASE phase = "refused"
    <3>1. Sound(Q, ui.orders, past.moved, server)
      BY <1>1, <1>3, <1>14, SoundLess
    <3>2. Sound(Q \cup {x}, ui.orders, past.moved, server)
      BY <1>1, <1>2, <1>6, <2>1, <3>1, SoundMore
    <3> QED
      BY <1>5, <2>1, <3>2
  <2>2. CASE phase = "done"
    <3>1. \A k \in 1..Len(ui.orders) : Right(ui.orders[k], past.moved, server)
      BY <1>1, <1>3, <1>14 DEF Sound
    <3>2. \A k \in 1..Len(ui.orders) :
            \/ Right(ui.orders[k], past.moved, kept)
            \/ ui.orders[k].id = x.id
      <4> SUFFICES ASSUME NEW k \in 1..Len(ui.orders)
                   PROVE  \/ Right(ui.orders[k], past.moved, kept)
                          \/ ui.orders[k].id = x.id
        OBVIOUS
      <4>1. ui.orders \in Seq(Rows)
        BY <1>1 DEF OrdersUI
      <4>2. ui.orders[k] \in Rows
        BY <4>1, ElementOfSeq
      <4>3. ui.orders[k].id \in OrderIds
        BY <4>2 DEF Rows
      <4>4. ui.orders[k].id # x.id => kept[ui.orders[k].id] = server[ui.orders[k].id]
        BY <1>6, <1>8, <4>3
      <4>5. Right(ui.orders[k], past.moved, server)
        BY <3>1
      <4> QED
        BY <4>4, <4>5 DEF Right
    <3>3. Right([id |-> x.id, status |-> x.to], past.moved, kept)
      BY <1>4, <1>6, <1>8, <2>2 DEF Right
    <3>4. Q \cup {x} = {x} /\ x.op \in Updates /\ x.phase = "done" /\ x.op # "load"
      BY <1>1, <1>2, <1>6, <1>14, <2>2
    <3>5. Sound({x}, ui.orders, past.moved, kept)
      BY <3>2, <3>3, <3>4 DEF Sound
    <3> QED
      BY <3>4, <3>5
  <2> QED
    BY <1>5, <2>1, <2>2
<1>15. At("order") => OneAtATime(Q \cup {x}, ui)
  <2>1. At("order") => OneAtATime(P, ui)
    BY DEF OrdersInv, P
  <2>2. flight[i] \in P
    BY <1>3
  <2>3. At("order") => flight[i].op = "cancel"
    BY <1>2, <2>1, <2>2 DEF OneAtATime
  <2> QED
    BY <1>2, <1>6, <1>9, <1>10, <2>3 DEF OneAtATime
<1>16. /\ \A r \in {x} : Offered(r)
       /\ ~past'.overlapped =>
            \A r \in {x} : \A l \in (1..Len(flight)) \ {i} :
              r.op \notin Updates /\ flight[l].op \notin Updates
       /\ At("order") =>
            /\ ~past'.overlapped /\ OneAtATime(Left({i}) \cup {x}, ui')
            /\ {x} = {} \/ (1..Len(flight)) \ {i} = {}
  BY <1>1, <1>7, <1>9, <1>10, <1>15 DEF Q
<1>17. \/ past'.lost
       \/ past'.overlapped /\ At("sales")
       \/ Sound(Left({i}) \cup {x}, ui'.orders, past'.moved, server')
  BY <1>1, <1>9, <1>11, <1>12, <1>14 DEF Q
<1>18. /\ ui' \in OrdersUI /\ ui'.at = ui.at /\ past' \in OrdersPast
       /\ past.overlapped => past'.overlapped
       /\ server' \in [OrderIds -> ServerStatuses] /\ ~At("purchases")
  BY <1>1, <1>8
<1> QED
  BY <1>13, <1>16, <1>17, <1>18, OrdersStep

\* An order someone else moves is remembered.
LEMMA OtherMovesInv ==
  ASSUME OrdersInv, OtherMoves
  PROVE  OrdersInv'
<1> DEFINE none == {}
           P == Left({})
<1>1. /\ ui \in OrdersUI /\ past \in OrdersPast /\ server \in [OrderIds -> ServerStatuses]
      /\ flight \in Seq(OrderRequests) /\ UNCHANGED <<ui, flight>>
  BY DEF OrdersInv, OrdersTypeOK, OtherMoves
<1>2. PICK o \in OrderIds : \E to \in ServerStatuses :
        /\ server' = [server EXCEPT ![o] = to]
        /\ past' = [past EXCEPT !.moved = @ \cup {o}]
  BY DEF OtherMoves
<1>3. /\ server' \in [OrderIds -> ServerStatuses]
      /\ \A p \in OrderIds : p # o => server'[p] = server[p]
  BY <1>1, <1>2
<1>4. /\ past' \in OrdersPast /\ past'.overlapped = past.overlapped
      /\ past'.lost = past.lost /\ past'.moved = past.moved \cup {o}
  BY <1>1, <1>2 DEF OrdersPast
<1>5. ASSUME NEW row \in Rows, Right(row, past.moved, server)
      PROVE  Right(row, past'.moved, server')
  BY <1>3, <1>4, <1>5 DEF Right, Rows
<1>6. /\ \A k \in 1..Len(ui.orders) : ui.orders[k] \in Rows
      /\ \A r \in P : r.op = "load" => \A k \in 1..Len(r.rows) : r.rows[k] \in Rows
      /\ \A r \in P : r.op \in Updates => [id |-> r.id, status |-> r.to] \in Rows
  <2>1. ui.orders \in Seq(Rows)
    BY <1>1 DEF OrdersUI
  <2>2. \A k \in 1..Len(ui.orders) : ui.orders[k] \in Rows
    BY <2>1, ElementOfSeq
  <2> SUFFICES ASSUME NEW r \in P
               PROVE  /\ r.op = "load" => \A k \in 1..Len(r.rows) : r.rows[k] \in Rows
                      /\ r.op \in Updates => [id |-> r.id, status |-> r.to] \in Rows
    BY <2>2
  <2>3. PICK l \in DOMAIN flight : r = flight[l]
    BY <1>1 DEF Left
  <2>4. CASE r.op = "load"
    <3>1. r.rows \in Seq(Rows)
      BY <2>3, <2>4, OrderRequest
    <3>2. \A k \in 1..Len(r.rows) : r.rows[k] \in Rows
      BY <3>1, ElementOfSeq
    <3> QED
      BY <2>4, <3>2 DEF Updates
  <2>5. CASE r.op # "load"
    BY <2>3, <2>5, OrderRequest DEF Rows
  <2> QED
    BY <2>4, <2>5
<1>7. \/ past.lost
      \/ past.overlapped /\ At("sales")
      \/ Sound(P, ui.orders, past.moved, server)
  BY DEF OrdersInv
<1>8. At("order") => ~past.overlapped /\ OneAtATime(P, ui)
  BY DEF OrdersInv
<1>9. P \cup none = P
  OBVIOUS
<1> HIDE DEF P
<1>10. Sound(P, ui.orders, past.moved, server) => Sound(P, ui.orders, past'.moved, server')
  BY <1>5, <1>6 DEF Sound
<1>11. Exchanged(none, none)
  BY <1>1, SameExchange
<1>12. /\ \A r : r \notin none
       /\ At("order") => OneAtATime(Left(none) \cup none, ui')
  BY <1>1, <1>8, <1>9 DEF P
<1>13. \/ past'.lost
       \/ past'.overlapped /\ At("sales")
       \/ Sound(Left(none) \cup none, ui'.orders, past'.moved, server')
  BY <1>1, <1>4, <1>7, <1>9, <1>10 DEF P
<1>14. At("order") => ~past'.overlapped
  BY <1>4, <1>8
<1> HIDE DEF none
<1> QED
  BY <1>1, <1>3, <1>4, <1>11, <1>12, <1>13, <1>14, OrdersStep

\* An answer, or the news that there is none, arrives.
LEMMA LandedInv ==
  ASSUME OrdersInv, NEW i \in DOMAIN flight, Land(i), UNCHANGED server,
         ui' \in OrdersUI, ui'.at = ui.at, ui'.dirty = ui.dirty,
         past' \in OrdersPast, past'.overlapped = past.overlapped,
         \/ past'.lost
         \/ past.overlapped /\ At("sales")
         \/ Sound(Left({i}), ui'.orders, past'.moved, server)
  PROVE  OrdersInv'
<1> DEFINE none == {}
           Q == Left({i})
<1>1. /\ server \in [OrderIds -> ServerStatuses] /\ server' = server
      /\ flight \in Seq(OrderRequests) /\ i \in 1..Len(flight)
      /\ Left({}) = Q \cup {flight[i]}
  BY OrderRequest DEF OrdersInv, OrdersTypeOK
<1>2. At("order") => Q = {} /\ ~past.overlapped /\ ~ui.dirty
  BY <1>1, AloneFacts DEF OrdersInv, OneAtATime
<1>3. Exchanged({i}, none) /\ flight' \in Seq(OrderRequests)
  BY <1>1, LandedExchange
<1>4. Q \cup none = Q /\ \A r : r \notin none
  OBVIOUS
<1>5. none = {}
  OBVIOUS
<1> HIDE DEF none
<1>6. At("order") => ~past'.overlapped /\ OneAtATime(Left({i}) \cup none, ui')
  <2> HIDE DEF Q
  <2>1. At("order") => OneAtATime(Q, ui')
    BY <1>2 DEF OneAtATime
  <2> QED
    BY <1>2, <1>4, <2>1 DEF Q
<1>7. \/ past'.lost
      \/ past'.overlapped /\ At("sales")
      \/ Sound(Left({i}) \cup none, ui'.orders, past'.moved, server')
  BY <1>1, <1>4
<1> QED
  BY <1>1, <1>3, <1>4, <1>5, <1>6, <1>7, OrdersStep

\* What a sequence followed by another holds.
LEMMA Followed ==
  ASSUME NEW S, NEW s \in Seq(S), NEW t \in Seq(S), NEW u, u = s \o t
  PROVE  /\ u \in Seq(S)
         /\ \A k \in 1..Len(u) : \/ \E l \in 1..Len(s) : u[k] = s[l]
                                 \/ \E l \in 1..Len(t) : u[k] = t[l]
<1>1. u \in Seq(S) /\ Len(u) = Len(s) + Len(t)
  OBVIOUS
<1>2. \A k \in 1..(Len(s) + Len(t)) : u[k] = IF k <= Len(s) THEN s[k] ELSE t[k - Len(s)]
  OBVIOUS
<1>3. Len(s) \in Nat /\ Len(t) \in Nat
  OBVIOUS
<1> SUFFICES ASSUME NEW k \in 1..(Len(s) + Len(t))
             PROVE  \/ \E l \in 1..Len(s) : u[k] = s[l]
                    \/ \E l \in 1..Len(t) : u[k] = t[l]
  BY <1>1
<1>4. CASE k <= Len(s)
  <2>1. k \in 1..Len(s)
    BY <1>3, <1>4
  <2> QED
    BY <1>2, <1>4, <2>1
<1>5. CASE ~(k <= Len(s))
  <2>1. k - Len(s) \in 1..Len(t)
    BY <1>3, <1>5
  <2> QED
    BY <1>2, <1>5, <2>1
<1> QED
  BY <1>4, <1>5

\* A page arrives: what it holds was right when it was read.
LEMMA LoadedInv ==
  ASSUME OrdersInv, NEW i \in DOMAIN flight,
         SalesLoaded(i) \/ PurchasesLoaded(i) \/ OrderLoaded(i)
  PROVE  OrdersInv'
<1> DEFINE P == Left({})
           Q == Left({i})
           rows == flight[i].rows
           shown == Filtered(flight[i])
           more == OrderCount > flight[i].page
<1>1. /\ ui \in OrdersUI /\ past \in OrdersPast /\ Land(i) /\ flight[i].op = "load"
      /\ UNCHANGED <<server, past>> /\ ui.orders \in Seq(Rows)
  BY DEF OrdersInv, OrdersTypeOK, OrdersUI, SalesLoaded, PurchasesLoaded, OrderLoaded
<1>2. /\ flight[i] \in [op : {"load"}, page : Nat, filter : Tabs,
                        phase : {"sent", "done"}, rows : Seq(Rows)]
      /\ P = Q \cup {flight[i]}
  BY <1>1, OrderRequest
<1>3. rows \in Seq(Rows) /\ flight[i].op \notin Updates /\ more \in BOOLEAN
  BY <1>1, <1>2 DEF Updates
<1>4. shown \in Seq(Rows) /\ (shown = rows \/ shown = <<>>)
  BY <1>3 DEF Filtered
<1>5. \E s : /\ s \in {shown, rows, ui.orders \o shown}
             /\ \/ ui' = [ui EXCEPT !.orders = s, !.hasMore = more,
                                    !.error = FALSE, !.loading = FALSE]
                \/ ui' = [ui EXCEPT !.orders = s, !.error = FALSE, !.loading = FALSE]
  <2>1. CASE SalesLoaded(i)
    <3>1. CASE flight[i].page > 1
      BY <2>1, <3>1 DEF SalesLoaded
    <3>2. CASE ~(flight[i].page > 1)
      BY <2>1, <3>2 DEF SalesLoaded
    <3> QED
      BY <3>1, <3>2
  <2>2. CASE PurchasesLoaded(i)
    BY <2>2 DEF PurchasesLoaded
  <2>3. CASE OrderLoaded(i)
    BY <2>3 DEF OrderLoaded
  <2> QED
    BY <2>1, <2>2, <2>3
<1>6. PICK s : /\ s \in {shown, rows, ui.orders \o shown}
               /\ \/ ui' = [ui EXCEPT !.orders = s, !.hasMore = more,
                                      !.error = FALSE, !.loading = FALSE]
                  \/ ui' = [ui EXCEPT !.orders = s, !.error = FALSE, !.loading = FALSE]
  BY <1>5
<1>7. PICK a, b, c : a = ui.orders /\ b = rows /\ c = shown
  OBVIOUS
<1> HIDE DEF P, Q, rows, shown, more
<1>8. /\ a \in Seq(Rows) /\ b \in Seq(Rows) /\ c \in Seq(Rows)
      /\ c = b \/ c = <<>>
      /\ s = c \/ s = b \/ s = a \o c
  BY <1>1, <1>3, <1>4, <1>6, <1>7
<1>9. /\ s \in Seq(Rows)
      /\ \A k \in 1..Len(s) : \/ \E l \in 1..Len(a) : s[k] = a[l]
                              \/ \E l \in 1..Len(b) : s[k] = b[l]
  <2>1. CASE s = a \o c
    <3>1. /\ s \in Seq(Rows)
          /\ \A k \in 1..Len(s) : \/ \E l \in 1..Len(a) : s[k] = a[l]
                                  \/ \E l \in 1..Len(c) : s[k] = c[l]
      BY <1>8, <2>1, Followed
    <3>2. \A l \in 1..Len(c) : c = b
      BY <1>8
    <3> QED
      BY <3>1, <3>2
  <2>2. CASE s = b \/ s = <<>>
    BY <1>8, <2>2
  <2> QED
    BY <1>8, <2>1, <2>2
<1>10. ui' \in OrdersUI /\ ui'.at = ui.at /\ ui'.dirty = ui.dirty /\ ui'.orders = s
  BY <1>1, <1>3, <1>6, <1>9 DEF OrdersUI
<1>11. \/ past.lost
       \/ past.overlapped /\ At("sales")
       \/ Sound(P, ui.orders, past.moved, server)
  BY DEF OrdersInv, P
<1>12. ASSUME Sound(P, ui.orders, past.moved, server)
       PROVE  Sound(Q, s, past.moved, server)
  <2>1. Sound(Q, a, past.moved, server)
    BY <1>2, <1>3, <1>7, <1>12, SoundLess
  <2>2. \A l \in 1..Len(b) : Right(b[l], past.moved, server)
    BY <1>1, <1>2, <1>7, <1>12 DEF Sound, rows
  <2>3. \A k \in 1..Len(s) :
          \/ Right(s[k], past.moved, server)
          \/ \E r \in Q : r.op \in Updates /\ r.phase = "done" /\ r.id = s[k].id
    BY <1>9, <2>1, <2>2 DEF Sound
  <2> QED
    BY <2>1, <2>3 DEF Sound
<1> QED
  BY <1>1, <1>10, <1>11, <1>12, LandedInv DEF Q

\* A load that fails changes nothing, nor does an update that is refused, or one
\* whose answer is lost: but that one is remembered.
LEMMA FailedInv ==
  ASSUME OrdersInv, NEW i \in DOMAIN flight, LoadFailed(i) \/ UpdateLost(i)
  PROVE  OrdersInv'
<1> DEFINE P == Left({})
           Q == Left({i})
           lost == past.lost \/ flight[i].phase = "done"
<1>1. /\ ui \in OrdersUI /\ past \in OrdersPast /\ Land(i) /\ UNCHANGED server
  BY DEF OrdersInv, OrdersTypeOK, LoadFailed, UpdateLost
<1>2. P = Q \cup {flight[i]}
  BY OrderRequest
<1>3. \/ past.lost
      \/ past.overlapped /\ At("sales")
      \/ Sound(P, ui.orders, past.moved, server)
  BY DEF OrdersInv
<1>4. \/ /\ flight[i].op = "load" /\ UNCHANGED past
         /\ ui' = [ui EXCEPT !.error = TRUE, !.loading = FALSE]
      \/ /\ past' = [past EXCEPT !.lost = lost]
         /\ ui' = [ui EXCEPT !.updating = 0]
  BY DEF LoadFailed, UpdateLost
<1>5. ~lost => ~past.lost /\ flight[i].phase # "done"
  BY <1>1 DEF OrdersPast
<1>6. lost \in BOOLEAN
  BY <1>1 DEF OrdersPast
<1> HIDE DEF P, Q, lost
<1>7. /\ ui' \in OrdersUI /\ ui'.at = ui.at /\ ui'.dirty = ui.dirty
      /\ ui'.orders = ui.orders
  BY <1>1, <1>4 DEF OrdersUI
<1>8. /\ past' \in OrdersPast /\ past'.overlapped = past.overlapped
      /\ past'.moved = past.moved
      /\ \/ flight[i].op = "load" /\ past' = past
         \/ past'.lost = lost
  BY <1>1, <1>4, <1>6 DEF OrdersPast
<1>9. ~past'.lost => /\ ~past.lost
                     /\ ~(flight[i].op \in Updates /\ flight[i].phase = "done")
  BY <1>5, <1>6, <1>8 DEF Updates
<1>10. ~past'.lost /\ Sound(P, ui.orders, past.moved, server) =>
         Sound(Q, ui.orders, past.moved, server)
  BY <1>2, <1>9, SoundLess
<1> QED
  BY <1>1, <1>3, <1>7, <1>8, <1>9, <1>10, LandedInv DEF Q

\* An update is answered: it was alone, and its row shows what it did.
LEMMA StatusUpdatedInv ==
  ASSUME OrdersInv, NEW i \in DOMAIN flight, StatusUpdated(i) \/ OrderCancelled(i)
  PROVE  OrdersInv'
<1> DEFINE P == Left({})
           Q == Left({i})
           r == flight[i]
           set == [k \in 1..Len(ui.orders) |->
                     IF ui.orders[k].id = r.id THEN [ui.orders[k] EXCEPT !.status = r.to]
                                               ELSE ui.orders[k]]
           cancelled == <<[id |-> r.id, status |-> "cancelled"]>>
           orders == IF r.phase = "refused" THEN ui.orders
                     ELSE IF r.op = "set" THEN set ELSE cancelled
<1>1. /\ ui \in OrdersUI /\ past \in OrdersPast /\ Land(i) /\ UNCHANGED <<server, past>>
      /\ ui.orders \in Seq(Rows) /\ r.op \in Updates /\ r.phase \in {"done", "refused"}
  BY DEF OrdersInv, OrdersTypeOK, OrdersUI, StatusUpdated, OrderCancelled, Updates
<1>2. /\ r \in [op : {"set", "cancel"}, id : OrderIds, to : OrderStatuses,
                seen : OrderStatuses, phase : {"sent", "done", "refused"}]
      /\ P = Q \cup {r} /\ Offered(r)
  BY <1>1, OrderRequest DEF Updates
<1>3. DOMAIN ui.orders = 1..Len(ui.orders)
  BY <1>1
<1>4. ui' = [ui EXCEPT !.updating = 0, !.orders = orders]
  <2>1. CASE StatusUpdated(i)
    BY <1>3, <2>1 DEF StatusUpdated, IsRow
  <2>2. CASE OrderCancelled(i)
    BY <2>2 DEF OrderCancelled
  <2> QED
    BY <2>1, <2>2
<1>5. \A k \in 1..Len(ui.orders) : ui.orders[k] \in Rows
  BY <1>1, ElementOfSeq
<1>6. set \in Seq(Rows)
  <2>1. \A k \in 1..Len(ui.orders) : [ui.orders[k] EXCEPT !.status = r.to] \in Rows
    BY <1>2, <1>5 DEF Rows
  <2>2. \A k \in 1..Len(ui.orders) :
          (IF ui.orders[k].id = r.id THEN [ui.orders[k] EXCEPT !.status = r.to]
                                     ELSE ui.orders[k]) \in Rows
    BY <1>5, <2>1
  <2>3. set \in [1..Len(ui.orders) -> Rows]
    BY <2>2
  <2>4. Len(ui.orders) \in Nat
    BY <1>1
  <2> QED
    BY <2>3, <2>4
<1>7. /\ Len(set) = Len(ui.orders)
      /\ \A k \in 1..Len(ui.orders) :
           set[k] = IF ui.orders[k].id = r.id THEN [ui.orders[k] EXCEPT !.status = r.to]
                                              ELSE ui.orders[k]
  <2>1. Len(ui.orders) \in Nat /\ DOMAIN set = 1..Len(ui.orders)
    BY <1>1
  <2>2. Len(set) = Len(ui.orders)
    BY <1>6, <2>1
  <2> QED
    BY <2>2
<1>8. /\ cancelled \in Seq(Rows) /\ Len(cancelled) = 1
      /\ cancelled[1] = [id |-> r.id, status |-> "cancelled"]
  <2>1. [id |-> r.id, status |-> "cancelled"] \in Rows
    BY <1>2 DEF Rows, OrderStatuses
  <2> QED
    BY <2>1
<1>9. \/ past.lost
      \/ past.overlapped /\ At("sales")
      \/ Sound(P, ui.orders, past.moved, server)
  BY DEF OrdersInv
<1>10. At("sales") \/ At("order")
  BY DEF StatusUpdated, OrderCancelled
<1>11. ~past.overlapped \/ At("order") => Q = {}
  BY <1>1, AloneFacts
<1>12. r.op = "cancel" => r.to = "cancelled"
  BY <1>2 DEF Offered
<1>13. orders \in Seq(Rows)
  BY <1>1, <1>6, <1>8
<1>14. /\ r.phase = "refused" => orders = ui.orders
       /\ r.phase = "done" => orders = IF r.op = "set" THEN set ELSE cancelled
  OBVIOUS
<1> HIDE DEF P, Q, r, set, cancelled, orders
<1>15. ASSUME Sound(P, ui.orders, past.moved, server), Q = {}
       PROVE  Sound(Q, orders, past.moved, server)
  <2>1. CASE r.phase = "refused"
    <3>1. Sound(Q, ui.orders, past.moved, server)
      BY <1>2, <1>15, <2>1, SoundLess
    <3> QED
      BY <1>14, <2>1, <3>1
  <2>2. CASE r.phase = "done"
    <3>1. Right([id |-> r.id, status |-> r.to], past.moved, server)
      BY <1>1, <1>2, <1>15, <2>2 DEF Sound
    <3>2. \A k \in 1..Len(ui.orders) : ui.orders[k].id # r.id =>
            Right(ui.orders[k], past.moved, server)
      BY <1>2, <1>15 DEF Sound
    <3>3. \A k \in 1..Len(set) : Right(set[k], past.moved, server)
      <4> SUFFICES ASSUME NEW k \in 1..Len(set)
                   PROVE  Right(set[k], past.moved, server)
        OBVIOUS
      <4>1. k \in 1..Len(ui.orders)
        BY <1>7
      <4>2. CASE ui.orders[k].id = r.id
        <5>1. set[k].id = r.id /\ set[k].status = r.to
          BY <1>5, <1>7, <4>1, <4>2 DEF Rows
        <5> QED
          BY <3>1, <5>1 DEF Right
      <4>3. CASE ui.orders[k].id # r.id
        BY <1>7, <3>2, <4>1, <4>3
      <4> QED
        BY <4>2, <4>3
    <3>4. r.op = "cancel" => \A k \in 1..Len(cancelled) :
            Right(cancelled[k], past.moved, server)
      BY <1>8, <1>12, <3>1
    <3>5. \A k \in 1..Len(orders) : Right(orders[k], past.moved, server)
      BY <1>2, <1>14, <2>2, <3>3, <3>4
    <3> QED
      BY <1>15, <3>5 DEF Sound
  <2> QED
    BY <1>1, <2>1, <2>2
<1>16. ui' \in OrdersUI /\ ui'.at = ui.at /\ ui'.dirty = ui.dirty /\ ui'.orders = orders
  BY <1>1, <1>4, <1>13 DEF OrdersUI
<1> QED
  BY <1>1, <1>9, <1>10, <1>11, <1>15, <1>16, LandedInv DEF Q

-----------------------------------------------------------------------------
\* Every step keeps the invariant.
LEMMA OrdersNextInv ==
  ASSUME OrdersInv, [OrdersNext]_pageVars
  PROVE  OrdersInv'
<1>1. CASE UNCHANGED pageVars
  <2> DEFINE none == {}
  <2>1. UNCHANGED <<ui, server, flight, past>>
    BY <1>1 DEF pageVars
  <2>2. Exchanged(none, none)
    BY <2>1, SameExchange
  <2>3. (\A r : r \notin none) /\ Left({}) = Left(none) \cup none
    OBVIOUS
  <2>4. /\ flight \in Seq(OrderRequests) /\ ui \in OrdersUI /\ past \in OrdersPast
        /\ server \in [OrderIds -> ServerStatuses]
        /\ At("order") => ~past.overlapped /\ OneAtATime(Left(none) \cup none, ui)
        /\ \/ past.lost
           \/ past.overlapped /\ At("sales")
           \/ Sound(Left(none) \cup none, ui.orders, past.moved, server)
    BY <2>3 DEF OrdersInv, OrdersTypeOK
  <2> HIDE DEF none
  <2> QED
    BY <2>1, <2>2, <2>3, <2>4, OrdersStep
<1>2. CASE SalesEffect \/ PurchasesEffect \/ OrderEffect \/ PurchasesLoadMore
  BY <1>2, EffectsInv
<1>3. CASE SalesTab \/ PurchasesTab \/ SalesLoadMore
  BY <1>3, PickedInv
<1>4. CASE HandleUpdateStatus \/ HandleCancelOrder
  BY <1>4, ClickedInv
<1>5. CASE OtherMoves
  BY <1>5, OtherMovesInv
<1>6. ASSUME NEW i \in DOMAIN flight, Load(i) PROVE OrdersInv'
  BY <1>6, LoadInv
<1>7. ASSUME NEW i \in DOMAIN flight, UpdateOrder(i) PROVE OrdersInv'
  BY <1>7, UpdateOrderInv
<1>8. ASSUME NEW i \in DOMAIN flight,
             SalesLoaded(i) \/ PurchasesLoaded(i) \/ OrderLoaded(i)
      PROVE  OrdersInv'
  BY <1>8, LoadedInv
<1>9. ASSUME NEW i \in DOMAIN flight, LoadFailed(i) \/ UpdateLost(i) PROVE OrdersInv'
  BY <1>9, FailedInv
<1>10. ASSUME NEW i \in DOMAIN flight, StatusUpdated(i) \/ OrderCancelled(i)
       PROVE  OrdersInv'
  BY <1>10, StatusUpdatedInv
<1> QED
  BY <1>1, <1>2, <1>3, <1>4, <1>5, <1>6, <1>7, <1>8, <1>9, <1>10 DEF OrdersNext

\* The pages of the orders keep the invariant.
LEMMA OrdersInvariant == OrdersSpec => []OrdersInv
<1>1. OrdersInit => OrdersInv
  BY OrdersInitInv
<1>2. OrdersInv /\ [OrdersNext]_pageVars => OrdersInv'
  BY OrdersNextInv
<1> QED
  BY <1>1, <1>2, PTL DEF OrdersSpec

\* The pages of the orders, their requests and what is remembered of them keep
\* their types (the records of the sales, the purchases and the page of an order).
THEOREM OrderPagesTyped == OrdersSpec => []OrdersTypeOK
<1>1. OrdersInv => OrdersTypeOK
  BY DEF OrdersInv
<1> QED
  BY <1>1, OrdersInvariant, PTL

\* With nothing under way a row is right, but for the reasons of the property.
LEMMA RestIsRight == OrdersInv => StatusExplained
<1> SUFFICES ASSUME OrdersInv, At("sales") \/ At("purchases") \/ At("order"),
                    flight = <<>>, NEW k \in DOMAIN ui.orders
             PROVE  \/ ui.orders[k].status = NormalizeStatus[server[ui.orders[k].id]]
                    \/ ui.orders[k].id \in past.moved
                    \/ past.lost
                    \/ past.overlapped /\ At("sales")
  BY DEF StatusExplained
<1>1. ui.orders \in Seq(Rows) /\ Left({}) = {}
  BY DEF OrdersInv, OrdersTypeOK, OrdersUI, Left
<1>2. k \in 1..Len(ui.orders)
  BY <1>1
<1>3. Sound({}, ui.orders, past.moved, server) => Right(ui.orders[k], past.moved, server)
  BY <1>2 DEF Sound
<1> QED
  BY <1>1, <1>3 DEF OrdersInv, Right

\* At rest, a page shows each order as the server has it, but for the reasons the
\* property names (what the loads, updates and answers of the pages do to it).
THEOREM StatusStaysExplained == OrdersSpec => []StatusExplained
BY RestIsRight, OrdersInvariant, PTL

\* What is offered for a status is allowed from it.
LEMMA OfferedIsAllowed ==
  ASSUME NEW from \in ServerStatuses, NEW to \in SalesOffer(NormalizeStatus[from])
  PROVE  IsAllowedTransition(from, ToBackendStatus[to])
BY DEF ServerStatuses, NormalizeStatus, SalesOffer, IsAllowedTransition, ToBackendStatus

\* An update is refused when the order is not what its user saw, or the seller
\* cancels: at the sales it is the seller who sets a status, and the page of an
\* order only cancels.
LEMMA RefusedWhenStale ==
  ASSUME OrdersInv, NEW i \in DOMAIN flight, UpdateOrder(i), flight'[i].phase = "refused"
  PROVE  \/ NormalizeStatus[server[flight[i].id]] # flight[i].seen
         \/ SellersCancel(flight[i])
<1> DEFINE to == ToBackendStatus[flight[i].to]
           from == server[flight[i].id]
           ok == IF flight[i].op = "set"
                   THEN ui.as = "seller" /\ (from = to \/ IsAllowedTransition(from, to))
                   ELSE ui.as = "buyer" /\ from = "Pending"
           x == [flight[i] EXCEPT !.phase = IF ok THEN "done" ELSE "refused"]
<1>1. /\ Return(i, x) /\ flight[i].op \in Updates
      /\ server \in [OrderIds -> ServerStatuses]
  BY DEF UpdateOrder, OrdersInv, OrdersTypeOK
<1>2. flight[i].op # "load" /\ flight[i].op \in {"set", "cancel"}
  BY <1>1 DEF Updates
<1>3. /\ flight[i] \in [op : {"set", "cancel"}, id : OrderIds, to : OrderStatuses,
                        seen : OrderStatuses, phase : {"sent", "done", "refused"}]
      /\ flight \in Seq(OrderRequests) /\ i \in 1..Len(flight) /\ Offered(flight[i])
  BY <1>2, OrderRequest
<1>4. from \in ServerStatuses
  BY <1>1, <1>3
<1>5. x.phase = IF ok THEN "done" ELSE "refused"
  BY <1>3
<1>6. flight'[i] = x
  BY <1>1, <1>3 DEF Return
<1>7. ~ok
  BY <1>5, <1>6
<1>8. CASE flight[i].op = "set"
  <2>0. ui.as = "seller"
    <3>1. At("sales") \/ At("order")
      BY DEF UpdateOrder
    <3>2. flight[i] \in Left({})
      BY <1>3 DEF Left
    <3>3. ~At("order")
      BY <1>8, <3>2 DEF OrdersInv, OneAtATime
    <3> QED
      BY <3>1, <3>3 DEF At, OrdersInv, OrdersTypeOK, OrdersUI, Parties
  <2>1. ~IsAllowedTransition(from, to) /\ flight[i].to \in SalesOffer(flight[i].seen)
    BY <1>3, <1>7, <1>8, <2>0 DEF Offered
  <2> QED
    BY <1>4, <2>1, OfferedIsAllowed
<1>9. CASE flight[i].op = "cancel"
  <2>1. /\ from # "Pending" \/ ui.as # "buyer"
        /\ flight[i].seen = "pending" /\ ui.as \in {"seller", "buyer"}
    BY <1>3, <1>7, <1>9 DEF Offered, OrdersInv, OrdersTypeOK, OrdersUI
  <2> QED
    BY <1>4, <1>9, <2>1 DEF ServerStatuses, NormalizeStatus, SellersCancel
<1> QED
  BY <1>2, <1>8, <1>9

\* No other step refuses an update.
LEMMA OnlyUpdateRefuses ==
  ASSUME OrdersInv, [OrdersNext]_pageVars, NEW i \in DOMAIN flight,
         Len(flight') = Len(flight), flight[i].phase = "sent",
         flight'[i].phase = "refused"
  PROVE  UpdateOrder(i)
<1>1. flight \in Seq(OrderRequests) /\ i \in 1..Len(flight)
  BY OrderRequest
<1>2. ASSUME NEW r, Send(r) PROVE FALSE
  BY <1>1, <1>2 DEF Send
<1>3. ASSUME NEW j \in DOMAIN flight, Land(j) PROVE FALSE
  <2>1. j \in 1..Len(flight)
    BY <1>1
  <2>2. Len(flight') = Len(flight) - 1
    BY <1>1, <1>3, <2>1, RemoveAtFacts DEF Land
  <2> QED
    BY <1>1, <2>2
<1>4. ASSUME UNCHANGED flight PROVE FALSE
  BY <1>4
<1>5. ASSUME NEW j \in DOMAIN flight, Load(j) PROVE FALSE
  <2> DEFINE rows == IF flight[j].page \in OrderIds
                       THEN <<[id |-> flight[j].page,
                               status |-> NormalizeStatus[server[flight[j].page]]]>>
                       ELSE <<>>
             x == [flight[j] EXCEPT !.phase = "done", !.rows = rows]
  <2>1. Return(j, x) /\ flight[j].op = "load"
    BY <1>5 DEF Load
  <2>2. flight[j] \in [op : {"load"}, page : Nat, filter : Tabs,
                       phase : {"sent", "done"}, rows : Seq(Rows)]
    BY <2>1, OrderRequest
  <2> HIDE DEF rows
  <2>3. x.phase = "done"
    BY <2>2
  <2> HIDE DEF x
  <2>4. flight'[i] = IF i = j THEN x ELSE flight[i]
    BY <1>1, <2>1 DEF Return
  <2> QED
    BY <2>3, <2>4
<1>6. ASSUME NEW j \in DOMAIN flight, UpdateOrder(j) PROVE i = j
  <2>1. PICK x : Return(j, x)
    BY <1>6 DEF UpdateOrder
  <2>2. i # j => flight'[i] = flight[i]
    BY <1>1, <2>1 DEF Return
  <2> QED
    BY <2>2
<1>7. ASSUME SalesEffect \/ PurchasesEffect \/ OrderEffect \/ PurchasesLoadMore PROVE FALSE
  <2>1. \E page : StartLoad(page)
    BY <1>7 DEF SalesEffect, PurchasesEffect, OrderEffect, PurchasesLoadMore
  <2> QED
    BY <1>2, <2>1 DEF StartLoad
<1>8. ASSUME HandleUpdateStatus \/ HandleCancelOrder PROVE FALSE
  <2>1. \E op, row, to : StartUpdate(op, row, to)
    BY <1>8 DEF HandleUpdateStatus, HandleCancelOrder
  <2> QED
    BY <1>2, <2>1 DEF StartUpdate
<1>9. ASSUME SalesTab \/ PurchasesTab \/ SalesLoadMore \/ OtherMoves \/ UNCHANGED pageVars
      PROVE  FALSE
  BY <1>4, <1>9 DEF SalesTab, PurchasesTab, SalesLoadMore, OtherMoves, pageVars
<1>10. ASSUME NEW j \in DOMAIN flight,
              \/ SalesLoaded(j) \/ PurchasesLoaded(j) \/ OrderLoaded(j) \/ LoadFailed(j)
              \/ StatusUpdated(j) \/ OrderCancelled(j) \/ UpdateLost(j)
       PROVE  FALSE
  BY <1>3, <1>10 DEF SalesLoaded, PurchasesLoaded, OrderLoaded, LoadFailed, StatusUpdated,
     OrderCancelled, UpdateLost
<1> QED
  BY <1>5, <1>6, <1>7, <1>8, <1>9, <1>10 DEF OrdersNext

\* A step that refuses an update finds the order moved, or the seller cancelling.
RefusesStale ==
  \A i \in DOMAIN flight :
    (/\ Len(flight') = Len(flight)
     /\ flight[i].op \in Updates
     /\ flight'[i].phase = "refused" /\ flight[i].phase = "sent")
    => \/ NormalizeStatus[server[flight[i].id]] # flight[i].seen
       \/ SellersCancel(flight[i])

\* Every step of the pages of the orders does.
LEMMA RefusalsAreStale == OrdersInv /\ [OrdersNext]_pageVars => RefusesStale
BY OnlyUpdateRefuses, RefusedWhenStale DEF RefusesStale

\* What the pages offer the server allows: an update is refused only when the order
\* is no longer what the user saw, or when the seller presses the button that the
\* page of an order has for the buyer (the buttons of the sales and of an order,
\* IsAllowedTransition and the checks of the caller at the server).
THEOREM OffersAreAllowed == OrdersSpec => RefusedOnlyWhenStale
<1>1. OrdersInv /\ [OrdersNext]_pageVars => [RefusesStale]_pageVars
  BY RefusalsAreStale
<1>2. OrdersSpec => [][RefusesStale]_pageVars
  BY <1>1, OrdersInvariant, PTL DEF OrdersSpec
<1> QED
  BY <1>2 DEF RefusedOnlyWhenStale, RefusesStale
-----------------------------------------------------------------------------
\* The profile.
-----------------------------------------------------------------------------
\* The profile shows a city by the name it is listed under.
ShownAs(f, v) == IF f = "city" THEN NormalCity[v] ELSE v
ProfileFormOf(user) == [f \in ProfileFields |-> ShownAs(f, user[f])]

\* What is not sent, or a blank that the server does not take.
NotSaved(at, f, v) ==
  \/ f = "city" /\ at = "personal"
  \/ v = Null /\ (f \in {"name", "phone"} \/ at = "personal")

\* The update that the page at sends makes of what the server knew.
UpdatedAt(at, old, sent) ==
  [f \in ProfileFields |-> IF NotSaved(at, f, sent[f]) THEN old[f] ELSE sent[f]]

\* The page never read the profile, an answer was lost, or the profile was written
\* back.
Spoilt(odd) == odd \cap {"blind", "lost", "reverted"} # {}

\* The field of a form changes nothing, the user entered it, or it is sent as the
\* page makes it of what is there.
Meant(at, f, v, row, odd, given) ==
  \/ NotSaved(at, f, SentAs(f, v))
  \/ <<f, v>> \in given
  \/ SentAs(f, v) = row.profile[f]
  \/ SentAs(f, v) = SentAs(f, ShownAs(f, row.profile[f]))
  \/ Spoilt(odd)

\* The profile is loaded first, alone; then a save keeps its button.
Held(pending, u) ==
  \A r \in pending : /\ r.op = "me" <=> u.loading
                     /\ r.op = "save" => u.saving

\* What a request brings back, or writes, is the profile as it is.
Carried(pending, u, row, odd) ==
  /\ \A r \in pending : "reverted" \notin odd =>
       /\ r.op = "me" /\ r.phase = "done" => r.user = row.profile
       /\ r.op = "save" /\ r.phase = "read" => r.copy.profile = row.profile
       /\ r.op = "save" /\ r.phase = "done" => r.user = row.profile
  /\ \A r \in pending : r.op = "save" =>
       /\ r.sent = Outgoing(r.form)
       /\ r.phase = "done" => r.user = UpdatedAt(u.at, r.copy.profile, r.sent)

\* The store knows the user as he is, or is about to.
Known(pending, u, row, odd) ==
  \/ u.loading
  \/ u.user = row.profile
  \/ Spoilt(odd)
  \/ \E r \in pending : r.op = "save" /\ r.phase = "done"

\* A form that is closed shows the user.
Closed(u, odd) ==
  ~u.editing => /\ u.at = "profile" /\ ~u.saving
                /\ \/ u.form = ProfileFormOf(u.user)
                   \/ odd \ {"miscounted"} # {}

\* The form, and the one that is being saved, change what the user entered.
Entered(pending, u, row, odd, given) ==
  /\ u.loading \/ \A f \in ProfileFields : Meant(u.at, f, u.form[f], row, odd, given)
  /\ \A r \in pending : r.op = "save" =>
       \A f \in ProfileFields : /\ Meant(u.at, f, r.form[f], row, odd, given)
                                /\ u.form[f] = r.form[f] \/ <<f, u.form[f]>> \in given

Story(pending, u, row, odd, given) ==
  /\ Held(pending, u)
  /\ Carried(pending, u, row, odd)
  /\ Known(pending, u, row, odd)
  /\ Closed(u, odd)
  /\ Entered(pending, u, row, odd, given)

\* One save is under way, or one load.
OneSave ==
  \A k, l \in 1..Len(flight) :
    flight[k].op # "upload" /\ flight[l].op # "upload" => k = l

\* The reviews are counted, unless a count was written back.
Counted ==
  /\ IsFiniteSet(server.reviews)
  /\ \/ server.row.reviewCount = Cardinality(server.reviews)
     \/ "miscounted" \in past.odd

ProfileInv ==
  /\ ProfileTypeOK
  /\ OneSave
  /\ Counted
  /\ Story(Left({}), ui, server.row, past.odd, past.given)
-----------------------------------------------------------------------------
\* A profile has its fields, each with its values.
LEMMA FieldsOf ==
  ASSUME NEW p, NEW q, p \in Profiles, q \in Profiles
  PROVE  /\ \A f \in ProfileFields : p[f] \in Values(f)
         /\ (\A f \in ProfileFields : p[f] = q[f]) => p = q
BY DEF Profiles

\* A field is entered.
LEMMA FieldEntered ==
  ASSUME NEW p \in Profiles, NEW f \in ProfileFields, NEW v \in Values(f)
  PROVE  LET q == [p EXCEPT ![f] = v] IN
         /\ q \in Profiles /\ q[f] = v
         /\ \A g \in ProfileFields : g # f => q[g] = p[g]
BY DEF Profiles, Values

\* A picture is taken.
LEMMA PictureTaken ==
  ASSUME NEW p \in Profiles, NEW v \in Pictures
  PROVE  LET q == [p EXCEPT !.avatar = v] IN
         /\ q \in Profiles /\ q.avatar = v
         /\ \A g \in ProfileFields : g # "avatar" => q[g] = p[g]
BY DEF Profiles, Values, ProfileFields

\* What is sent of a form, and shown of a user, is a profile again.
LEMMA SentAndShown ==
  /\ \A f \in ProfileFields : \A v \in Values(f) :
       SentAs(f, v) \in Values(f) /\ ShownAs(f, v) \in Values(f)
  /\ Blank \in Profiles /\ ProfileFormOf(Blank) = Blank
  /\ \A p \in Profiles :
       /\ Outgoing(p) \in Profiles
       /\ \A f \in ProfileFields : Outgoing(p)[f] = SentAs(f, p[f])
       /\ ProfileFormOf(p) \in Profiles
       /\ \A f \in ProfileFields : ProfileFormOf(p)[f] = ShownAs(f, p[f])
<1>1. \A f \in ProfileFields : \A v \in Values(f) :
        SentAs(f, v) \in Values(f) /\ ShownAs(f, v) \in Values(f)
  BY ProfileAssumption DEF SentAs, ShownAs, Values, ProfileFields
<1>2. \A p \in Profiles : \A f \in ProfileFields : p[f] \in Values(f)
  BY FieldsOf
<1>3. ASSUME NEW p \in Profiles PROVE Outgoing(p) \in Profiles
  BY <1>1, <1>2 DEF Outgoing, Profiles, Values
<1>4. ASSUME NEW p \in Profiles PROVE ProfileFormOf(p) \in Profiles
  BY <1>1, <1>2 DEF ProfileFormOf, Profiles, Values
<1>5. Blank \in Profiles
  BY DEF Blank, Profiles, Values
<1>6. ProfileFormOf(Blank) = Blank
  BY ProfileAssumption DEF ProfileFormOf, Blank, ShownAs, ProfileFields
<1> QED
  BY <1>1, <1>3, <1>4, <1>5, <1>6 DEF Outgoing, ProfileFormOf

\* The form of a user shows him; that of the settings without his city.
LEMMA FormOfUser ==
  ASSUME NEW user \in Profiles
  PROVE  /\ FormOf(user) \in Profiles
         /\ \A f \in ProfileFields : \/ FormOf(user)[f] = ShownAs(f, user[f])
                                     \/ f = "city" /\ ui.at = "personal"
         /\ ui.at = "profile" => FormOf(user) = ProfileFormOf(user)
<1>1. \A f \in ProfileFields : user[f] \in Values(f) /\ ShownAs(f, user[f]) \in Values(f)
  BY FieldsOf, SentAndShown
<1>2. \A f \in ProfileFields :
        FormOf(user)[f] = IF f = "city" /\ ui.at = "personal" THEN Null
                                                            ELSE ShownAs(f, user[f])
  BY DEF FormOf, PageFields, ShownAs, ProfileFields, At
<1>3. \A f \in ProfileFields : FormOf(user)[f] \in Values(f)
  BY <1>1, <1>2 DEF Values
<1>4. FormOf(user) \in Profiles
  BY <1>3 DEF FormOf, Profiles, Values
<1>5. ui.at = "profile" => FormOf(user) = ProfileFormOf(user)
  BY <1>2 DEF FormOf, ProfileFormOf
<1> QED
  BY <1>2, <1>4, <1>5

\* What is shown of a user as he is changes nothing but the way he is written.
LEMMA ShownIsMeant ==
  ASSUME NEW user \in Profiles, NEW row, NEW odd, NEW given,
         user = row.profile \/ Spoilt(odd)
  PROVE  \A f \in ProfileFields : Meant(ui.at, f, FormOf(user)[f], row, odd, given)
BY FormOfUser DEF Meant, NotSaved

\* The page is one of the two.
LEMMA OnProfile == ProfileInv => AtProfile
BY DEF ProfileInv, ProfileTypeOK, ProfileUI, AtProfile, At

\* What is known of a request under way.
LEMMA ProfileRequest ==
  ASSUME ProfileInv, NEW i \in DOMAIN flight
  PROVE  /\ flight \in Seq(ProfileRequests) /\ i \in 1..Len(flight)
         /\ flight[i].op = "me" =>
              flight[i] \in [op : {"me"}, phase : {"sent", "done"}, user : Profiles]
         /\ flight[i].op = "save" =>
              flight[i] \in [op : {"save"}, phase : {"sent", "read", "done"},
                             form : Profiles, sent : Profiles, user : Profiles,
                             copy : UserRow]
         /\ flight[i].op = "upload" =>
              flight[i] \in [op : {"upload"}, phase : {"sent", "done"}, avatar : Pictures]
         /\ flight[i].op \in {"me", "save", "upload"}
         /\ Left({}) = Left({i}) \cup {flight[i]}
<1>1. flight \in Seq(ProfileRequests)
  BY DEF ProfileInv, ProfileTypeOK
<1>2. i \in 1..Len(flight)
  BY <1>1
<1>3. flight[i] \in ProfileRequests
  BY <1>1, <1>2, ElementOfSeq
<1>4. Left({}) = Left({i}) \cup {flight[i]}
  BY <1>2, LeftOne
<1> QED
  BY <1>1, <1>2, <1>3, <1>4 DEF ProfileRequests

\* Beside a load or a save, only pictures are under way.
LEMMA OthersUpload ==
  ASSUME ProfileInv, NEW i \in DOMAIN flight, flight[i].op # "upload"
  PROVE  /\ \A l \in (1..Len(flight)) \ {i} : flight[l].op = "upload"
         /\ \A r \in Left({i}) : r.op = "upload"
<1>1. i \in 1..Len(flight)
  BY ProfileRequest
<1>2. \A l \in (1..Len(flight)) \ {i} : flight[l].op = "upload"
  BY <1>1 DEF ProfileInv, OneSave
<1> QED
  BY <1>2 DEF Left

\* The parts of the invariant after a step.
LEMMA ProfileStep ==
  ASSUME ProfileInv, NEW gone, NEW new, Exchanged(gone, new),
         flight' \in Seq(ProfileRequests), ui' \in ProfileUI,
         server' \in ProfileServer, past' \in ProfilePast, Counted',
         \A r \in new : r.op # "upload" =>
           \A l \in (1..Len(flight)) \ gone : flight[l].op = "upload",
         Story(Left(gone) \cup new, ui', server'.row, past'.odd, past'.given)
  PROVE  ProfileInv'
<1>1. Left({})' = Left(gone) \cup new
  BY ExchangedLeft
<1>2. ProfileTypeOK'
  BY DEF ProfileTypeOK
<1>3. PICK f : /\ \A k \in 1..Len(flight') :
                    \/ f[k] \in (1..Len(flight)) \ gone /\ flight'[k] = flight[f[k]]
                    \/ f[k] = 0 /\ flight'[k] \in new
               /\ \A k, l \in 1..Len(flight') : f[k] = f[l] => k = l
  BY DEF Exchanged
<1>4. OneSave'
  <2> SUFFICES ASSUME NEW k \in 1..Len(flight'), NEW l \in 1..Len(flight'),
                      flight'[k].op # "upload", flight'[l].op # "upload", f[k] # f[l]
               PROVE  FALSE
    BY <1>3 DEF OneSave
  <2>1. CASE f[k] \in (1..Len(flight)) \ gone /\ flight'[k] = flight[f[k]]
    <3>1. CASE f[l] \in (1..Len(flight)) \ gone /\ flight'[l] = flight[f[l]]
      BY <2>1, <3>1 DEF ProfileInv, OneSave
    <3>2. CASE flight'[l] \in new
      BY <2>1, <3>2
    <3> QED
      BY <1>3, <3>1, <3>2
  <2>2. CASE f[k] = 0 /\ flight'[k] \in new
    <3>1. f[l] \in (1..Len(flight)) \ gone /\ flight'[l] = flight[f[l]]
      BY <1>3, <2>2
    <3> QED
      BY <2>2, <3>1
  <2> QED
    BY <1>3, <2>1, <2>2
<1> DEFINE P == Left(gone) \cup new
<1>5. Left({})' = P /\ Story(P, ui', server'.row, past'.odd, past'.given)
  BY <1>1
<1> HIDE DEF P
<1> QED
  BY <1>2, <1>4, <1>5 DEF ProfileInv, Story, Held, Carried, Known, Closed, Entered, Meant,
     NotSaved, Spoilt, UpdatedAt, ShownAs, ProfileFormOf, SentAs, Outgoing

\* What is remembered explains what it did, and what is written back is remembered.
LEMMA StoryOdd ==
  ASSUME NEW P, NEW u, NEW row, NEW row2, NEW odd, NEW odd2, NEW given,
         Story(P, u, row, odd, given), odd \subseteq odd2,
         row2.profile = row.profile \/ "reverted" \in odd2
  PROVE  Story(P, u, row2, odd2, given)
<1>1. Spoilt(odd) => Spoilt(odd2)
  BY DEF Spoilt
<1>2. "reverted" \in odd2 => Spoilt(odd2)
  BY DEF Spoilt
<1>3. Held(P, u)
  BY DEF Story
<1>4. Carried(P, u, row2, odd2)
  BY DEF Story, Carried
<1>5. Known(P, u, row2, odd2)
  BY <1>1, <1>2 DEF Story, Known
<1>6. Closed(u, odd2)
  BY DEF Story, Closed
<1>7. \A f, v : Meant(u.at, f, v, row, odd, given) => Meant(u.at, f, v, row2, odd2, given)
  BY <1>1, <1>2 DEF Meant
<1>8. Entered(P, u, row2, odd2, given)
  BY <1>7 DEF Story, Entered
<1> QED
  BY <1>3, <1>4, <1>5, <1>6, <1>8 DEF Story

\* A request that is no save on its way back takes nothing of the story with it.
LEMMA StoryLess ==
  ASSUME NEW P, NEW Q, NEW u, NEW row, NEW odd, NEW given, Story(P, u, row, odd, given),
         Q \subseteq P, \A r \in P \ Q : ~(r.op = "save" /\ r.phase = "done")
  PROVE  Story(Q, u, row, odd, given)
BY DEF Story, Held, Carried, Known, Closed, Entered

\* A picture adds nothing to it, until it arrives.
LEMMA StoryMore ==
  ASSUME NEW P, NEW x, NEW u, NEW row, NEW odd, NEW given, Story(P, u, row, odd, given),
         x.op = "upload", ~u.loading
  PROVE  Story(P \cup {x}, u, row, odd, given)
BY DEF Story, Held, Carried, Known, Closed, Entered

\* The page opens, with one review counted.
LEMMA ProfileInitInv == ProfileInit => ProfileInv
<1> SUFFICES ASSUME ProfileInit PROVE ProfileInv
  OBVIOUS
<1> USE ProfileAssumption
<1>1. AnyReviewed \in CompletedOrders
  BY DEF AnyReviewed
<1>2. PICK p \in StoredProfiles :
        server = [row |-> [profile |-> p, reviewCount |-> 1],
                  reviews |-> {AnyReviewed}, writing |-> <<>>]
  BY DEF ProfileInit
<1>3. server \in ProfileServer /\ server.row.profile \in Profiles
  <2>1. p \in Profiles
    BY <1>2
  <2>2. <<>> \in Seq([what : {"create", "update", "delete"}, order : CompletedOrders,
                      copy : UserRow])
    OBVIOUS
  <2> QED
    BY <1>1, <1>2, <2>1, <2>2 DEF ProfileServer, UserRow
<1>4. Blank \in Profiles
  BY SentAndShown
<1>5. PICK at \in {"profile", "personal"}, old \in {server.row.profile, Blank} :
        ui = [at |-> at, loading |-> TRUE, editing |-> at = "personal",
              form |-> IF at = "profile" THEN [old EXCEPT !.city = NormalCity[@]] ELSE Blank,
              user |-> old, refused |-> {}, saving |-> FALSE, uploading |-> FALSE]
  BY DEF ProfileInit
<1> DEFINE form == IF at = "profile" THEN [old EXCEPT !.city = NormalCity[@]] ELSE Blank
<1>51. old \in Profiles
  BY <1>3, <1>4
<1>52. [old EXCEPT !.city = NormalCity[@]] = ProfileFormOf(old)
  BY <1>51 DEF Profiles, ProfileFormOf, ShownAs, ProfileFields
<1>53. form \in Profiles /\ (at = "profile" => form = ProfileFormOf(old))
  BY <1>4, <1>51, <1>52, SentAndShown
<1>54. ui = [at |-> at, loading |-> TRUE, editing |-> at = "personal", form |-> form,
             user |-> old, refused |-> {}, saving |-> FALSE, uploading |-> FALSE]
  BY <1>5
<1> HIDE DEF form
<1>6. /\ ui \in ProfileUI /\ ui.loading /\ (~ui.editing => /\ ui.at = "profile"
                                                           /\ ui.form = ProfileFormOf(ui.user))
      /\ ~ui.saving
  BY <1>51, <1>53, <1>54 DEF ProfileUI
<1>7. flight = <<>> /\ past = [odd |-> {}, given |-> {}]
  BY DEF ProfileInit, Booted
<1>8. ProfileTypeOK
  BY <1>3, <1>6, <1>7 DEF ProfileTypeOK, ProfilePast
<1>9. Left({}) = {} /\ Len(flight) = 0 /\ OneSave
  BY <1>7 DEF Left, OneSave
<1>10. IsFiniteSet({AnyReviewed}) /\ Cardinality({AnyReviewed}) = 1
  BY FS_Singleton
<1>11. Counted
  BY <1>2, <1>10 DEF Counted
<1>12. Story({}, ui, server.row, past.odd, past.given)
  BY <1>6 DEF Story, Held, Carried, Known, Closed, Entered
<1> QED
  BY <1>8, <1>9, <1>11, <1>12 DEF ProfileInv

\* The page stays as it is.
LEMMA Aside ==
  ASSUME ProfileInv, UNCHANGED <<ui, flight>>, server' \in ProfileServer,
         past' \in ProfilePast, past.odd \subseteq past'.odd, past'.given = past.given,
         server'.row.profile = server.row.profile \/ "reverted" \in past'.odd, Counted'
  PROVE  ProfileInv'
<1> DEFINE none == {}
           P == Left({})
<1>1. ui \in ProfileUI /\ flight \in Seq(ProfileRequests)
  BY DEF ProfileInv, ProfileTypeOK
<1>2. Story(P, ui, server.row, past.odd, past.given)
  BY DEF ProfileInv
<1>3. Exchanged(none, none)
  BY SameExchange
<1>4. (\A r : r \notin none) /\ Left(none) \cup none = P
  OBVIOUS
<1> HIDE DEF none, P
<1>5. PICK p, u, row, row2, odd, odd2, given :
        /\ p = P /\ u = ui /\ row = server.row /\ row2 = server'.row
        /\ odd = past.odd /\ odd2 = past'.odd /\ given = past.given
  OBVIOUS
<1>6. Story(p, u, row2, odd2, given)
  BY <1>2, <1>5, StoryOdd
<1>7. Story(Left(none) \cup none, ui', server'.row, past'.odd, past'.given)
  BY <1>4, <1>5, <1>6
<1> QED
  BY <1>1, <1>3, <1>4, <1>7, ProfileStep

\* What is read of the row, before it is written.
LEMMA ServerFacts ==
  ASSUME ProfileInv
  PROVE  /\ server \in ProfileServer /\ server.row \in UserRow
         /\ server.row.profile \in Profiles /\ server.row.reviewCount \in Nat
         /\ server.reviews \in SUBSET CompletedOrders
         /\ server.writing \in Seq([what : {"create", "update", "delete"},
                                    order : CompletedOrders, copy : UserRow])
         /\ past \in ProfilePast /\ ui \in ProfileUI
BY DEF ProfileInv, ProfileTypeOK, ProfileServer, UserRow

\* A review is begun, or given up.
LEMMA ReviewingInv ==
  ASSUME ProfileInv, CreateReview \/ UpdateReview \/ DeleteReview \/ ReviewFails
  PROVE  ProfileInv'
<1> DEFINE Writing == [what : {"create", "update", "delete"}, order : CompletedOrders,
                       copy : UserRow]
<1>1. /\ server \in ProfileServer /\ server.row \in UserRow
      /\ server.writing \in Seq(Writing) /\ server.reviews \subseteq CompletedOrders
      /\ past \in ProfilePast
  BY ServerFacts
<1>2. \E s \in Seq(Writing) : server' = [server EXCEPT !.writing = s]
  <2>1. ASSUME NEW what \in {"create", "update", "delete"}, NEW o \in CompletedOrders,
               Reviewing(what, o)
        PROVE  \E s \in Seq(Writing) : server' = [server EXCEPT !.writing = s]
    <3> DEFINE w == [what |-> what, order |-> o, copy |-> server.row]
    <3>1. w \in Writing
      BY <1>1
    <3>2. server' = [server EXCEPT !.writing = Append(server.writing, w)]
      BY <2>1 DEF Reviewing
    <3> HIDE DEF Writing, w
    <3>3. Append(server.writing, w) \in Seq(Writing)
      BY <1>1, <3>1
    <3> QED
      BY <3>2, <3>3
  <2>2. CASE ReviewFails
    <3>1. PICK k \in DOMAIN server.writing :
            server' = [server EXCEPT !.writing = RemoveAt(server.writing, k)]
      BY <2>2 DEF ReviewFails
    <3>2. k \in 1..Len(server.writing)
      BY <1>1
    <3>3. RemoveAt(server.writing, k) \in Seq(Writing)
      BY <1>1, <3>2, RemoveAtFacts
    <3> QED
      BY <3>1, <3>3
  <2>3. CASE CreateReview
    BY <2>1, <2>3 DEF CreateReview
  <2>4. CASE UpdateReview
    BY <1>1, <2>1, <2>4 DEF UpdateReview
  <2>5. CASE DeleteReview
    BY <1>1, <2>1, <2>5 DEF DeleteReview
  <2> QED
    BY <2>2, <2>3, <2>4, <2>5
<1>3. PICK s \in Seq(Writing) : server' = [server EXCEPT !.writing = s]
  BY <1>2
<1>4. /\ server' \in ProfileServer /\ server'.row = server.row
      /\ server'.reviews = server.reviews
  BY <1>1, <1>3 DEF ProfileServer
<1>5. UNCHANGED <<ui, flight, past>>
  BY DEF CreateReview, UpdateReview, DeleteReview, Reviewing, ReviewFails
<1>6. Counted'
  BY <1>4, <1>5 DEF ProfileInv, Counted
<1> QED
  BY <1>1, <1>4, <1>5, <1>6, Aside

\* What a write of the row is remembered to have overwritten.
LEMMA Overwritten ==
  ASSUME ProfileInv, NEW copy \in UserRow, Overwrites(copy)
  PROVE  /\ past' \in ProfilePast /\ past'.given = past.given
         /\ past.odd \subseteq past'.odd
         /\ past'.odd \subseteq past.odd \cup {"miscounted", "reverted"}
         /\ copy.reviewCount = server.row.reviewCount \/ "miscounted" \in past'.odd
         /\ copy.profile = server.row.profile \/ "reverted" \in past'.odd
<1> DEFINE over == (IF copy.reviewCount # server.row.reviewCount THEN {"miscounted"} ELSE {})
                     \cup (IF copy.profile # server.row.profile THEN {"reverted"} ELSE {})
           odd == past.odd \cup over
<1>1. past' = [past EXCEPT !.odd = odd]
  BY DEF Overwrites
<1>2. past \in ProfilePast
  BY ServerFacts
<1>3. /\ over \subseteq {"miscounted", "reverted"}
      /\ copy.reviewCount # server.row.reviewCount => "miscounted" \in over
      /\ copy.profile # server.row.profile => "reverted" \in over
  OBVIOUS
<1> HIDE DEF over
<1>4. /\ odd \subseteq past.odd \cup {"miscounted", "reverted"} /\ past.odd \subseteq odd
      /\ over \subseteq odd
  BY <1>3
<1> HIDE DEF odd
<1>5. past' \in ProfilePast /\ past'.given = past.given /\ past'.odd = odd
  BY <1>1, <1>2, <1>4 DEF ProfilePast
<1> QED
  BY <1>3, <1>4, <1>5

\* A review is written, and counted.
LEMMA ReviewWritesInv ==
  ASSUME ProfileInv, ReviewWrites
  PROVE  ProfileInv'
<1> DEFINE Writing == [what : {"create", "update", "delete"}, order : CompletedOrders,
                       copy : UserRow]
<1>1. /\ server \in ProfileServer /\ server.row \in UserRow
      /\ server.writing \in Seq(Writing) /\ server.reviews \subseteq CompletedOrders
      /\ past \in ProfilePast
  BY ServerFacts
<1>2. PICK k \in DOMAIN server.writing :
        /\ server.writing[k].order \in server.reviews <=> server.writing[k].what # "create"
        /\ server' =
             [row |-> [server.writing[k].copy EXCEPT
                         !.reviewCount = ReviewCount(server.writing[k].what, @)],
              reviews |-> CASE server.writing[k].what = "create" ->
                                 server.reviews \cup {server.writing[k].order}
                            [] server.writing[k].what = "update" -> server.reviews
                            [] server.writing[k].what = "delete" ->
                                 server.reviews \ {server.writing[k].order},
              writing |-> RemoveAt(server.writing, k)]
        /\ Overwrites(server.writing[k].copy)
  BY DEF ReviewWrites
<1>3. k \in 1..Len(server.writing)
  BY <1>1
<1>4. PICK w : w = server.writing[k]
  OBVIOUS
<1>5. w \in Writing
  BY <1>1, <1>3, <1>4, ElementOfSeq
<1>6. RemoveAt(server.writing, k) \in Seq(Writing)
  BY <1>1, <1>3, RemoveAtFacts
<1> DEFINE count == ReviewCount(w.what, w.copy.reviewCount)
           row == [w.copy EXCEPT !.reviewCount = count]
           reviews == CASE w.what = "create" -> server.reviews \cup {w.order}
                        [] w.what = "update" -> server.reviews
                        [] w.what = "delete" -> server.reviews \ {w.order}
           rest == RemoveAt(server.writing, k)
<1>7. /\ server' = [row |-> row, reviews |-> reviews, writing |-> rest]
      /\ w.order \in server.reviews <=> w.what # "create"
      /\ Overwrites(w.copy)
  BY <1>2, <1>4
<1>8. /\ w.what \in {"create", "update", "delete"} /\ w.order \in CompletedOrders
      /\ w.copy \in UserRow /\ w.copy.reviewCount \in Nat
  BY <1>5 DEF UserRow
<1>9. /\ w.what = "create" => count = w.copy.reviewCount + 1
      /\ w.what = "update" => count = w.copy.reviewCount
      /\ w.what = "delete" =>
           count = IF w.copy.reviewCount <= 1 THEN 0 ELSE w.copy.reviewCount - 1
  BY <1>8 DEF ReviewCount
<1>10. /\ w.what = "create" => reviews = server.reviews \cup {w.order}
       /\ w.what = "update" => reviews = server.reviews
       /\ w.what = "delete" => reviews = server.reviews \ {w.order}
  BY <1>8
<1> HIDE DEF count, reviews, rest
<1>11. count \in Nat
  BY <1>8, <1>9
<1>12. row \in UserRow /\ row.profile = w.copy.profile /\ row.reviewCount = count
  BY <1>8, <1>11 DEF UserRow
<1> HIDE DEF row
<1>13. reviews \subseteq CompletedOrders /\ rest \in Seq(Writing)
  BY <1>1, <1>6, <1>8, <1>10 DEF rest
<1>14. /\ server' \in ProfileServer /\ server'.row = row /\ server'.reviews = reviews
  BY <1>7, <1>12, <1>13 DEF ProfileServer
<1>15. /\ past' \in ProfilePast /\ past'.given = past.given /\ past.odd \subseteq past'.odd
       /\ w.copy.reviewCount = server.row.reviewCount \/ "miscounted" \in past'.odd
       /\ w.copy.profile = server.row.profile \/ "reverted" \in past'.odd
  BY <1>7, <1>8, Overwritten
<1>16. IsFiniteSet(server.reviews) /\ Cardinality(server.reviews) \in Nat
  BY FS_CardinalityType DEF ProfileInv, Counted
<1>17. IsFiniteSet(reviews)
       /\ (w.copy.reviewCount = Cardinality(server.reviews) => count = Cardinality(reviews))
  <2>1. CASE w.what = "create"
    <3>1. /\ IsFiniteSet(server.reviews \cup {w.order})
          /\ Cardinality(server.reviews \cup {w.order}) = Cardinality(server.reviews) + 1
      BY <1>7, <1>16, <2>1, FS_AddElement
    <3> QED
      BY <1>9, <1>10, <2>1, <3>1
  <2>2. CASE w.what = "update"
    BY <1>9, <1>10, <1>16, <2>2
  <2>3. CASE w.what = "delete"
    <3>1. /\ IsFiniteSet(server.reviews \ {w.order})
          /\ Cardinality(server.reviews \ {w.order}) = Cardinality(server.reviews) - 1
      BY <1>7, <1>16, <2>3, FS_RemoveElement
    <3>2. Cardinality(server.reviews \ {w.order}) \in Nat
      BY <3>1, FS_CardinalityType
    <3> QED
      BY <1>8, <1>9, <1>10, <1>16, <2>3, <3>1, <3>2
  <2> QED
    BY <1>8, <2>1, <2>2, <2>3
<1>18. \/ server.row.reviewCount = Cardinality(server.reviews)
       \/ "miscounted" \in past.odd
  BY DEF ProfileInv, Counted
<1>19. Counted'
  BY <1>12, <1>14, <1>15, <1>17, <1>18 DEF Counted
<1>20. server'.row.profile = server.row.profile \/ "reverted" \in past'.odd
  BY <1>12, <1>14, <1>15
<1>21. UNCHANGED <<ui, flight>>
  BY DEF ReviewWrites
<1> QED
  BY <1>14, <1>15, <1>19, <1>20, <1>21, Aside

\* The reviews stay counted while the server keeps what it has.
LEMMA StillCounted ==
  ASSUME ProfileInv, UNCHANGED server,
         "miscounted" \in past.odd => "miscounted" \in past'.odd
  PROVE  Counted'
BY DEF ProfileInv, Counted

\* The user does something, and nothing is sent.
LEMMA ClickStep ==
  ASSUME ProfileInv, UNCHANGED <<server, flight>>, ui' \in ProfileUI, past' \in ProfilePast,
         "miscounted" \in past.odd => "miscounted" \in past'.odd,
         Story(Left({}), ui', server.row, past'.odd, past'.given)
  PROVE  ProfileInv'
<1> DEFINE none == {}
           P == Left({})
<1>1. /\ server' \in ProfileServer /\ flight' \in Seq(ProfileRequests)
      /\ server'.row = server.row
  BY DEF ProfileInv, ProfileTypeOK
<1>2. Exchanged(none, none) /\ Counted'
  BY SameExchange, StillCounted
<1>3. (\A r : r \notin none) /\ Left(none) \cup none = P
  OBVIOUS
<1>4. Story(P, ui', server.row, past'.odd, past'.given)
  OBVIOUS
<1> HIDE DEF none, P
<1>5. Story(Left(none) \cup none, ui', server'.row, past'.odd, past'.given)
  BY <1>1, <1>3, <1>4
<1> QED
  BY <1>1, <1>2, <1>3, <1>5, ProfileStep

\* Something is sent.
LEMMA SendStep ==
  ASSUME ProfileInv, UNCHANGED <<server, past>>, ui' \in ProfileUI,
         NEW x \in ProfileRequests, Send(x),
         x.op # "upload" => \A r \in Left({}) : r.op = "upload",
         Story(Left({}) \cup {x}, ui', server.row, past.odd, past.given)
  PROVE  ProfileInv'
<1>1. /\ server \in ProfileServer /\ past \in ProfilePast
      /\ flight \in Seq(ProfileRequests)
  BY DEF ProfileInv, ProfileTypeOK
<1>2. flight' \in Seq(ProfileRequests) /\ Exchanged({}, {x}) /\ Counted'
  BY <1>1, SentExchange, StillCounted
<1>3. x.op # "upload" => \A l \in (1..Len(flight)) \ {} : flight[l].op = "upload"
  BY DEF Left
<1>4. Story(Left({}) \cup {x}, ui', server'.row, past'.odd, past'.given)
  OBVIOUS
<1> QED
  BY <1>1, <1>2, <1>3, <1>4, ProfileStep

\* A request is answered, or reaches the server in part.
LEMMA ReturnStep ==
  ASSUME ProfileInv, UNCHANGED ui, server' \in ProfileServer, past' \in ProfilePast,
         Counted', NEW i \in DOMAIN flight, NEW x \in ProfileRequests, Return(i, x),
         x.op = flight[i].op,
         Story(Left({i}) \cup {x}, ui, server'.row, past'.odd, past'.given)
  PROVE  ProfileInv'
<1>1. ui \in ProfileUI /\ flight \in Seq(ProfileRequests) /\ i \in 1..Len(flight)
  BY ProfileRequest DEF ProfileInv, ProfileTypeOK
<1>2. flight' \in Seq(ProfileRequests) /\ Exchanged({i}, {x})
  BY <1>1, ReturnedExchange
<1>3. x.op # "upload" => \A l \in (1..Len(flight)) \ {i} : flight[l].op = "upload"
  BY OthersUpload
<1>4. Story(Left({i}) \cup {x}, ui', server'.row, past'.odd, past'.given)
  OBVIOUS
<1>5. ui' \in ProfileUI
  BY <1>1
<1>6. \A r \in {x} : r.op # "upload" =>
        \A l \in (1..Len(flight)) \ {i} : flight[l].op = "upload"
  BY <1>3
<1> QED
  BY <1>2, <1>4, <1>5, <1>6, ProfileStep

\* An answer, or the news that there is none, arrives.
LEMMA LandStep ==
  ASSUME ProfileInv, UNCHANGED server, ui' \in ProfileUI, past' \in ProfilePast,
         "miscounted" \in past.odd => "miscounted" \in past'.odd,
         NEW i \in DOMAIN flight, Land(i),
         Story(Left({i}), ui', server.row, past'.odd, past'.given)
  PROVE  ProfileInv'
<1> DEFINE none == {}
           Q == Left({i})
<1>1. /\ server' \in ProfileServer /\ server'.row = server.row
      /\ flight \in Seq(ProfileRequests) /\ i \in 1..Len(flight)
  BY ProfileRequest DEF ProfileInv, ProfileTypeOK
<1>2. flight' \in Seq(ProfileRequests) /\ Exchanged({i}, none) /\ Counted'
  BY <1>1, LandedExchange, StillCounted
<1>3. (\A r : r \notin none) /\ Left({i}) \cup none = Q
  OBVIOUS
<1>4. Story(Q, ui', server.row, past'.odd, past'.given)
  OBVIOUS
<1> HIDE DEF none, Q
<1>5. Story(Left({i}) \cup none, ui', server'.row, past'.odd, past'.given)
  BY <1>1, <1>3, <1>4
<1> QED
  BY <1>1, <1>2, <1>3, <1>5, ProfileStep

-----------------------------------------------------------------------------
\* The profile is asked for.
LEMMA LoadUserDataInv == ASSUME ProfileInv, LoadUserData PROVE ProfileInv'
<1> DEFINE P == Left({})
           x == [op |-> "me", phase |-> "sent", user |-> ui.user]
<1>1. /\ ui.loading /\ flight = <<>> /\ Send(x) /\ UNCHANGED <<server, past, ui>>
      /\ ui \in ProfileUI
  BY ServerFacts DEF LoadUserData, Untold
<1>2. x \in ProfileRequests /\ x.op = "me" /\ x.phase = "sent"
  BY <1>1 DEF ProfileRequests, ProfileUI
<1>3. P = {}
  BY <1>1 DEF Left
<1>4. Story(P, ui, server.row, past.odd, past.given)
  BY DEF ProfileInv
<1> HIDE DEF P, x
<1>5. Story(P \cup {x}, ui, server.row, past.odd, past.given)
  BY <1>1, <1>2, <1>3, <1>4 DEF Story, Held, Carried, Known, Closed, Entered
<1> QED
  BY <1>1, <1>2, <1>3, <1>5, SendStep DEF P

\* The form of the profile is opened.
LEMMA EditProfileInv == ASSUME ProfileInv, EditProfile PROVE ProfileInv'
<1> DEFINE P == Left({})
<1>1. /\ ui' = [ui EXCEPT !.editing = TRUE] /\ UNCHANGED <<server, past, flight>>
      /\ ui \in ProfileUI /\ past \in ProfilePast
  BY ServerFacts DEF EditProfile, Untold
<1>2. /\ ui' \in ProfileUI /\ ui'.editing /\ ui'.at = ui.at /\ ui'.form = ui.form
      /\ ui'.user = ui.user /\ ui'.loading = ui.loading /\ ui'.saving = ui.saving
  BY <1>1 DEF ProfileUI
<1>3. Story(P, ui, server.row, past.odd, past.given)
  BY DEF ProfileInv
<1> HIDE DEF P
<1>4. Story(P, ui', server.row, past.odd, past.given)
  BY <1>2, <1>3 DEF Story, Held, Carried, Known, Closed, Entered
<1> QED
  BY <1>1, <1>2, <1>4, ClickStep DEF P

\* An open form is of a profile that was loaded, or could not be.
LEMMA FormOpen ==
  ASSUME ProfileInv, ProfileForm
  PROVE  ~ui.loading /\ ui.editing /\ \A r \in Left({}) : r.op # "me"
<1> DEFINE P == Left({})
<1>1. ~ui.loading /\ ui.editing
  BY DEF ProfileForm, ProfileView, PersonalView, At, ProfileInv, Story, Closed
<1>2. Held(P, ui)
  BY DEF ProfileInv, Story
<1> HIDE DEF P
<1> QED
  BY <1>1, <1>2 DEF Held, P

\* A text is entered.
LEMMA FieldChangeInv == ASSUME ProfileInv, HandleProfileFieldChange PROVE ProfileInv'
<1> DEFINE P == Left({})
<1>1. ui \in ProfileUI /\ ui.form \in Profiles /\ past \in ProfilePast
  BY ServerFacts DEF ProfileUI
<1>20. PICK f \in PageFields \ {"avatar"} :
         \E v \in (IF f = "city" THEN CityOptions ELSE Texts) \cup {Null} :
           /\ ui' = [ui EXCEPT !.form[f] = v,
                               !.refused = IF Objected(v) THEN @ \cup {f} ELSE @ \ {f}]
           /\ past' = [past EXCEPT !.given = @ \cup {<<f, v>>}]
  BY DEF HandleProfileFieldChange
<1>2. PICK v \in (IF f = "city" THEN CityOptions ELSE Texts) \cup {Null} :
        /\ ui' = [ui EXCEPT !.form[f] = v,
                            !.refused = IF Objected(v) THEN @ \cup {f} ELSE @ \ {f}]
        /\ past' = [past EXCEPT !.given = @ \cup {<<f, v>>}]
  BY <1>20
<1>3. f \in ProfileFields /\ v \in Values(f)
  BY <1>2, <1>20, ProfileAssumption DEF PageFields, Values
<1> DEFINE form == [ui.form EXCEPT ![f] = v]
           refused == IF Objected(v) THEN ui.refused \cup {f} ELSE ui.refused \ {f}
<1>31. ui' = [ui EXCEPT !.form = form, !.refused = refused]
  BY <1>1, <1>2 DEF ProfileUI
<1>32. refused \in SUBSET ProfileFields
  BY <1>1, <1>3 DEF ProfileUI
<1>4. form \in Profiles /\ form[f] = v /\ \A g \in ProfileFields : g # f => form[g] = ui.form[g]
  BY <1>1, <1>3, FieldEntered
<1> HIDE DEF form, refused
<1>5. /\ ui' \in ProfileUI /\ ui'.editing = ui.editing /\ ui'.at = ui.at /\ ui'.form = form
      /\ ui'.user = ui.user /\ ui'.loading = ui.loading /\ ui'.saving = ui.saving
  BY <1>1, <1>31, <1>32, <1>4 DEF ProfileUI
<1>6. /\ past' \in ProfilePast /\ past'.odd = past.odd
      /\ past'.given = past.given \cup {<<f, v>>}
  <2>1. <<f, v>> \in ProfileFields \X (Texts \cup Pictures \cup {Null})
    BY <1>3 DEF Values
  <2> QED
    BY <1>1, <1>2, <2>1 DEF ProfilePast
<1>7. ~ui.loading /\ ui.editing /\ UNCHANGED <<server, flight>>
  BY FormOpen DEF HandleProfileFieldChange
<1>8. Story(P, ui, server.row, past.odd, past.given)
  BY DEF ProfileInv
<1> HIDE DEF P
<1>9. \A g, w : Meant(ui.at, g, w, server.row, past.odd, past.given) =>
                  Meant(ui.at, g, w, server.row, past.odd, past'.given)
  BY <1>6 DEF Meant
<1>10. \A g \in ProfileFields : form[g] = ui.form[g] \/ <<g, form[g]>> \in past'.given
  BY <1>4, <1>6
<1>11. Entered(P, ui', server.row, past.odd, past'.given)
  <2>1. \A g \in ProfileFields :
          Meant(ui.at, g, form[g], server.row, past.odd, past'.given)
    BY <1>7, <1>8, <1>9, <1>10 DEF Story, Entered, Meant
  <2>2. \A r \in P : r.op = "save" =>
          \A g \in ProfileFields :
            /\ Meant(ui.at, g, r.form[g], server.row, past.odd, past'.given)
            /\ form[g] = r.form[g] \/ <<g, form[g]>> \in past'.given
    <3>1. \A r \in P : r.op = "save" =>
            \A g \in ProfileFields :
              /\ Meant(ui.at, g, r.form[g], server.row, past.odd, past.given)
              /\ ui.form[g] = r.form[g] \/ <<g, ui.form[g]>> \in past.given
      BY <1>8 DEF Story, Entered
    <3> QED
      BY <1>6, <1>9, <1>10, <3>1
  <2> QED
    BY <1>5, <2>1, <2>2 DEF Entered
<1>12. Story(P, ui', server.row, past'.odd, past'.given)
  BY <1>5, <1>6, <1>7, <1>8, <1>11 DEF Story, Held, Carried, Known, Closed
<1> QED
  BY <1>5, <1>6, <1>7, <1>12, ClickStep DEF P

\* The form is sent, or refused.
LEMMA ProfileSaveInv == ASSUME ProfileInv, HandleProfileSave PROVE ProfileInv'
<1> DEFINE P == Left({})
           x == [op |-> "save", phase |-> "sent", form |-> ui.form,
                 sent |-> Outgoing(ui.form), user |-> ui.user, copy |-> server.row]
<1>1. /\ ui \in ProfileUI /\ past \in ProfilePast /\ UNCHANGED <<server, past>>
      /\ ui.form \in Profiles /\ ui.user \in Profiles /\ server.row \in UserRow
  BY ServerFacts DEF HandleProfileSave, Untold, ProfileUI
<1>2. ~ui.loading /\ ui.editing /\ ~ui.saving /\ \A r \in P : r.op # "me"
  BY FormOpen DEF HandleProfileSave
<1>3. Story(P, ui, server.row, past.odd, past.given)
  BY DEF ProfileInv
<1>4. \A r \in P : r.op \in {"me", "save", "upload"}
  <2> SUFFICES ASSUME NEW r \in P PROVE r.op \in {"me", "save", "upload"}
    OBVIOUS
  <2>1. DOMAIN flight = 1..Len(flight)
    BY DEF ProfileInv, ProfileTypeOK
  <2>2. PICK k \in DOMAIN flight : r = flight[k]
    BY <2>1 DEF Left
  <2> QED
    BY <2>2, ProfileRequest
<1>5. CASE ValidateProfile = {}
  <2>1. ui' = [ui EXCEPT !.refused = {}, !.saving = TRUE] /\ Send(x)
    BY <1>5 DEF HandleProfileSave
  <2>2. /\ ui' \in ProfileUI /\ ui'.editing = ui.editing /\ ui'.at = ui.at
        /\ ui'.form = ui.form /\ ui'.user = ui.user /\ ui'.loading = ui.loading
        /\ ui'.saving
    BY <1>1, <2>1 DEF ProfileUI
  <2>3. x \in ProfileRequests /\ x.op = "save" /\ x.phase = "sent" /\ x.form = ui.form
        /\ x.sent = Outgoing(x.form)
    BY <1>1, SentAndShown DEF ProfileRequests
  <2> HIDE DEF P, x
  <2>4. \A r \in P : r.op = "upload"
    BY <1>2, <1>3, <1>4 DEF Story, Held
  <2>5. Story(P \cup {x}, ui', server.row, past.odd, past.given)
    BY <1>2, <1>3, <2>2, <2>3, <2>4 DEF Story, Held, Carried, Known, Closed, Entered
  <2> QED
    BY <1>1, <2>1, <2>2, <2>3, <2>4, <2>5, SendStep DEF P
<1>6. CASE ValidateProfile # {}
  <2>1. ui' = [ui EXCEPT !.refused = ValidateProfile, !.saving = FALSE]
        /\ UNCHANGED flight
    BY <1>6 DEF HandleProfileSave
  <2>11. ValidateProfile \in SUBSET ProfileFields
    BY DEF ValidateProfile
  <2>2. /\ ui' \in ProfileUI /\ ui'.editing = ui.editing /\ ui'.at = ui.at
        /\ ui'.form = ui.form /\ ui'.user = ui.user /\ ui'.loading = ui.loading
        /\ ~ui'.saving
    BY <1>1, <2>1, <2>11 DEF ProfileUI
  <2> HIDE DEF P
  <2>3. Story(P, ui', server.row, past.odd, past.given)
    BY <1>2, <1>3, <2>2 DEF Story, Held, Carried, Known, Closed, Entered
  <2> QED
    BY <1>1, <2>1, <2>2, <2>3, ClickStep DEF P
<1> QED
  BY <1>5, <1>6

\* The form is given up: it shows the user the store knows.
LEMMA CancelInv == ASSUME ProfileInv, HandleCancel PROVE ProfileInv'
<1> DEFINE P == Left({})
           editing == At("personal")
           odd == past.odd \ {"late", "unsent", "kept", "rewritten"}
           form == FormOf(ui.user)
<1>1. /\ ui \in ProfileUI /\ past \in ProfilePast /\ UNCHANGED <<server, flight>>
      /\ ui.user \in Profiles /\ ~ui.saving
  BY ServerFacts DEF HandleCancel, ProfileUI
<1>2. ~ui.loading /\ ui.editing
  BY FormOpen DEF HandleCancel
<1>3. Story(P, ui, server.row, past.odd, past.given)
  BY DEF ProfileInv
<1>4. /\ ui' = [ui EXCEPT !.form = form, !.editing = editing, !.refused = {}]
      /\ past' = [past EXCEPT !.odd = odd]
  BY DEF HandleCancel, UserForm
<1>5. editing \in BOOLEAN /\ (~editing => ui.at = "profile")
  BY <1>1 DEF At, ProfileUI
<1>6. /\ odd \subseteq past.odd /\ (Spoilt(past.odd) => Spoilt(odd))
      /\ "miscounted" \in past.odd => "miscounted" \in odd
      /\ "reverted" \in past.odd => "reverted" \in odd
  BY DEF Spoilt
<1>61. /\ form \in Profiles
       /\ ui.at = "profile" => form = ProfileFormOf(ui.user)
  BY <1>1, FormOfUser
<1>62. \A row, o, given : ui.user = row.profile \/ Spoilt(o) =>
         \A f \in ProfileFields : Meant(ui.at, f, form[f], row, o, given)
  BY <1>1, ShownIsMeant
<1> HIDE DEF P, editing, odd, form
<1>7. /\ ui' \in ProfileUI /\ ui'.editing = editing /\ ui'.at = ui.at
      /\ ui'.form = form /\ ui'.user = ui.user /\ ui'.loading = ui.loading
      /\ ui'.saving = ui.saving
  BY <1>1, <1>4, <1>5, <1>61 DEF ProfileUI
<1>8. past' \in ProfilePast /\ past'.odd = odd /\ past'.given = past.given
  BY <1>1, <1>4, <1>6 DEF ProfilePast
<1>9. \A r \in P : r.op # "save"
  BY <1>1, <1>3 DEF Story, Held
<1>10. ui.user = server.row.profile \/ Spoilt(odd)
  BY <1>2, <1>3, <1>6, <1>9 DEF Story, Known
<1>11. /\ Held(P, ui') /\ Known(P, ui', server.row, odd) /\ Closed(ui', odd)
  BY <1>1, <1>3, <1>5, <1>61, <1>7, <1>9, <1>10 DEF Story, Held, Known, Closed
<1>12. Carried(P, ui', server.row, odd)
  BY <1>3, <1>6, <1>7, <1>9 DEF Story, Carried
<1>13. Entered(P, ui', server.row, odd, past.given)
  BY <1>62, <1>7, <1>9, <1>10 DEF Entered
<1> QED
  BY <1>1, <1>6, <1>7, <1>8, <1>11, <1>12, <1>13, ClickStep DEF Story, P

\* A picture is chosen.
LEMMA AvatarChangeInv == ASSUME ProfileInv, HandleAvatarChange PROVE ProfileInv'
<1> DEFINE P == Left({})
<1>1. /\ ui \in ProfileUI /\ UNCHANGED <<server, past>>
      /\ ui' = [ui EXCEPT !.uploading = TRUE]
  BY ServerFacts DEF HandleAvatarChange, Untold
<1>2. PICK a \in Pictures : Send([op |-> "upload", phase |-> "sent", avatar |-> a])
  BY DEF HandleAvatarChange
<1>3. ~ui.loading
  BY FormOpen DEF HandleAvatarChange
<1> DEFINE x == [op |-> "upload", phase |-> "sent", avatar |-> a]
<1>4. x \in ProfileRequests /\ x.op = "upload" /\ Send(x)
  BY <1>2 DEF ProfileRequests
<1>5. Story(P, ui, server.row, past.odd, past.given)
  BY DEF ProfileInv
<1>6. /\ ui' \in ProfileUI /\ ui'.editing = ui.editing /\ ui'.at = ui.at
      /\ ui'.form = ui.form /\ ui'.user = ui.user /\ ui'.loading = ui.loading
      /\ ui'.saving = ui.saving
  BY <1>1 DEF ProfileUI
<1> HIDE DEF P, x
<1>7. Story(P \cup {x}, ui', server.row, past.odd, past.given)
  BY <1>3, <1>4, <1>5, <1>6 DEF Story, Held, Carried, Known, Closed, Entered
<1> QED
  BY <1>1, <1>4, <1>6, <1>7, SendStep DEF P

-----------------------------------------------------------------------------
\* The profile is read for the page, or for a save; a picture is stored.
LEMMA ProfileServedInv ==
  ASSUME ProfileInv, NEW i \in DOMAIN flight, GetMe(i) \/ UpdateMeReads(i) \/ StorePicture(i)
  PROVE  ProfileInv'
<1> DEFINE P == Left({})
           Q == Left({i})
<1>1. /\ server \in ProfileServer /\ past \in ProfilePast /\ server.row \in UserRow
      /\ server.row.profile \in Profiles /\ UNCHANGED <<ui, server, past>>
  BY ServerFacts DEF GetMe, UpdateMeReads, StorePicture
<1>2. P = Q \cup {flight[i]} /\ Story(P, ui, server.row, past.odd, past.given)
  BY ProfileRequest DEF ProfileInv
<1>3. Counted'
  BY <1>1, StillCounted
<1> HIDE DEF P, Q
<1>4. CASE GetMe(i)
  <2> DEFINE x == [flight[i] EXCEPT !.phase = "done", !.user = server.row.profile]
  <2>1. flight[i].op = "me" /\ Return(i, x)
    BY <1>4 DEF GetMe
  <2>2. flight[i] \in [op : {"me"}, phase : {"sent", "done"}, user : Profiles]
    BY <2>1, ProfileRequest
  <2>3. /\ x \in ProfileRequests /\ x.op = "me" /\ x.phase = "done"
        /\ x.user = server.row.profile
    BY <1>1, <2>2 DEF ProfileRequests
  <2> HIDE DEF x
  <2>4. Story(Q \cup {x}, ui, server.row, past.odd, past.given)
    BY <1>2, <2>1, <2>3 DEF Story, Held, Carried, Known, Closed, Entered
  <2> QED
    BY <1>1, <1>3, <2>1, <2>3, <2>4, ReturnStep DEF Q
<1>5. CASE UpdateMeReads(i)
  <2> DEFINE x == [flight[i] EXCEPT !.phase = "read", !.copy = server.row]
  <2>1. flight[i].op = "save" /\ Return(i, x) /\ flight[i].phase = "sent"
    BY <1>5 DEF UpdateMeReads
  <2>2. flight[i] \in [op : {"save"}, phase : {"sent", "read", "done"}, form : Profiles,
                       sent : Profiles, user : Profiles, copy : UserRow]
    BY <2>1, ProfileRequest
  <2>3. /\ x \in ProfileRequests /\ x.op = "save" /\ x.phase = "read"
        /\ x.copy = server.row /\ x.form = flight[i].form
        /\ x.sent = flight[i].sent
    BY <1>1, <2>2 DEF ProfileRequests
  <2> HIDE DEF x
  <2>4. Story(Q \cup {x}, ui, server.row, past.odd, past.given)
    BY <1>2, <2>1, <2>3 DEF Story, Held, Carried, Known, Closed, Entered
  <2> QED
    BY <1>1, <1>3, <2>1, <2>3, <2>4, ReturnStep DEF Q
<1>6. CASE StorePicture(i)
  <2> DEFINE x == [flight[i] EXCEPT !.phase = "done"]
  <2>1. flight[i].op = "upload" /\ Return(i, x)
    BY <1>6 DEF StorePicture
  <2>2. flight[i] \in [op : {"upload"}, phase : {"sent", "done"}, avatar : Pictures]
    BY <2>1, ProfileRequest
  <2>3. x \in ProfileRequests /\ x.op = "upload"
    BY <2>2 DEF ProfileRequests
  <2> HIDE DEF x
  <2>4. Story(Q \cup {x}, ui, server.row, past.odd, past.given)
    BY <1>2, <2>1, <2>3 DEF Story, Held, Carried, Known, Closed, Entered
  <2> QED
    BY <1>1, <1>3, <2>1, <2>3, <2>4, ReturnStep DEF Q
<1> QED
  BY <1>4, <1>5, <1>6

\* What is sent makes of a profile its fields, but for those the server leaves.
LEMMA UpdatedFields ==
  ASSUME NEW old \in Profiles, NEW sent \in Profiles, ui.at \in {"profile", "personal"}
  PROVE  /\ Updated(old, sent) = UpdatedAt(ui.at, old, sent)
         /\ \A at : /\ UpdatedAt(at, old, sent) \in Profiles
                    /\ \A f \in ProfileFields :
                         IF NotSaved(at, f, sent[f])
                           THEN UpdatedAt(at, old, sent)[f] = old[f]
                           ELSE UpdatedAt(at, old, sent)[f] = sent[f]
<1>1. \A f \in ProfileFields : old[f] \in Values(f) /\ sent[f] \in Values(f)
  BY FieldsOf
<1>2. \A at : \A f \in ProfileFields :
        UpdatedAt(at, old, sent)[f] = IF NotSaved(at, f, sent[f]) THEN old[f] ELSE sent[f]
  BY DEF UpdatedAt
<1>3. ASSUME NEW at PROVE UpdatedAt(at, old, sent) \in Profiles
  BY <1>1 DEF UpdatedAt, Profiles, Values
<1>4. \A f \in ProfileFields :
        (\/ f \notin PageFields
         \/ sent[f] = Null /\ (f \in {"name", "phone"} \/ At("personal")))
        <=> NotSaved(ui.at, f, sent[f])
  BY DEF PageFields, NotSaved, ProfileFields, At
<1>5. Updated(old, sent) = UpdatedAt(ui.at, old, sent)
  BY <1>4 DEF Updated, UpdatedAt
<1> QED
  BY <1>2, <1>3, <1>5

\* The profile is written: what was read was right, or what it overwrites is
\* remembered.
LEMMA UpdateMeWritesInv ==
  ASSUME ProfileInv, NEW i \in DOMAIN flight, UpdateMeWrites(i)
  PROVE  ProfileInv'
<1> DEFINE P == Left({})
           Q == Left({i})
           r == flight[i]
           user == Updated(r.copy.profile, r.sent)
           x == [r EXCEPT !.phase = "done", !.user = user]
           row == IF user = r.copy.profile THEN server.row
                                           ELSE [r.copy EXCEPT !.profile = user]
<1>1. /\ server \in ProfileServer /\ past \in ProfilePast /\ server.row \in UserRow
      /\ server.row.profile \in Profiles /\ ui \in ProfileUI /\ UNCHANGED ui
      /\ r.op = "save" /\ r.phase = "read" /\ Return(i, x)
  BY ServerFacts DEF UpdateMeWrites
<1>2. /\ r \in [op : {"save"}, phase : {"sent", "read", "done"}, form : Profiles,
                sent : Profiles, user : Profiles, copy : UserRow]
      /\ P = Q \cup {r}
  BY <1>1, ProfileRequest
<1>3. /\ r.copy \in UserRow /\ r.copy.profile \in Profiles /\ r.form \in Profiles
      /\ r.sent \in Profiles
  BY <1>2 DEF UserRow
<1>4. PICK old, sent, at : old = r.copy.profile /\ sent = r.sent /\ at = ui.at
  OBVIOUS
<1>5. /\ user = UpdatedAt(at, old, sent) /\ user \in Profiles
      /\ \A f \in ProfileFields : IF NotSaved(at, f, sent[f]) THEN user[f] = old[f]
                                                              ELSE user[f] = sent[f]
  <2>1. old \in Profiles /\ sent \in Profiles /\ ui.at \in {"profile", "personal"}
    BY <1>1, <1>3, <1>4 DEF ProfileUI
  <2>2. user = Updated(old, sent)
    BY <1>4
  <2> HIDE DEF user, row, x, r
  <2>3. Updated(old, sent) = UpdatedAt(at, old, sent)
    BY <1>4, <2>1, UpdatedFields
  <2> DEFINE new == UpdatedAt(at, old, sent)
  <2>4. /\ new \in Profiles
        /\ \A f \in ProfileFields : IF NotSaved(at, f, sent[f]) THEN new[f] = old[f]
                                                                ELSE new[f] = sent[f]
    BY <2>1, UpdatedFields
  <2> HIDE DEF new
  <2> QED
    BY <2>2, <2>3, <2>4 DEF new
<1>6. /\ past' \in ProfilePast /\ past'.given = past.given /\ past.odd \subseteq past'.odd
      /\ \/ user = r.copy.profile /\ UNCHANGED <<server, past>>
         \/ /\ user # r.copy.profile
            /\ server' = [server EXCEPT !.row = row]
            /\ r.copy.reviewCount = server.row.reviewCount \/ "miscounted" \in past'.odd
            /\ r.copy.profile = server.row.profile \/ "reverted" \in past'.odd
  <2>1. CASE user = r.copy.profile
    BY <1>1, <2>1 DEF UpdateMeWrites, Untold
  <2>2. CASE user # r.copy.profile
    <3>1. server' = [server EXCEPT !.row = row] /\ Overwrites(r.copy)
      BY <2>2 DEF UpdateMeWrites
    <3> HIDE DEF user, row, r
    <3> QED
      BY <1>3, <2>2, <3>1, Overwritten
  <2> QED
    BY <2>1, <2>2
<1>7. /\ row \in UserRow
      /\ user = r.copy.profile => row = server.row
      /\ user # r.copy.profile => row.profile = user /\ row.reviewCount = r.copy.reviewCount
  BY <1>1, <1>3, <1>5 DEF UserRow
<1>8. /\ x \in ProfileRequests /\ x.op = "save" /\ x.phase = "done" /\ x.form = r.form
      /\ x.sent = r.sent /\ x.user = user /\ x.copy = r.copy
  BY <1>2, <1>5 DEF ProfileRequests
<1>9. Story(P, ui, server.row, past.odd, past.given)
  BY DEF ProfileInv
<1>10. \A y \in Q : y.op = "upload"
  BY <1>1, OthersUpload
<1> HIDE DEF P, Q, r, user, x, row
<1>11. /\ server' \in ProfileServer /\ server'.row = row
       /\ server'.reviews = server.reviews
  <2>1. CASE user = r.copy.profile
    BY <1>1, <1>6, <1>7, <2>1
  <2>2. CASE user # r.copy.profile
    <3>1. server' = [server EXCEPT !.row = row]
      BY <1>6, <2>2
    <3> QED
      BY <1>1, <1>7, <3>1 DEF ProfileServer
  <2> QED
    BY <2>1, <2>2
<1>12. Counted'
  BY <1>6, <1>7, <1>11 DEF ProfileInv, Counted
<1>13. "reverted" \notin past'.odd => /\ row.profile = user
                                      /\ r.copy.profile = server.row.profile
  BY <1>1, <1>2, <1>6, <1>7, <1>9 DEF Story, Carried
<1>131. r.sent = Outgoing(r.form)
  BY <1>1, <1>2, <1>9 DEF Story, Carried
<1>14. \A f \in ProfileFields :
         /\ Meant(ui.at, f, r.form[f], row, past'.odd, past.given)
         /\ ui.form[f] = r.form[f] \/ <<f, ui.form[f]>> \in past.given
  <2>1. \A f \in ProfileFields : ui.form[f] = r.form[f] \/ <<f, ui.form[f]>> \in past.given
    BY <1>1, <1>2, <1>9 DEF Story, Entered
  <2>2. \A f \in ProfileFields : \/ NotSaved(ui.at, f, SentAs(f, r.form[f]))
                                 \/ user[f] = SentAs(f, r.form[f])
    BY <1>3, <1>4, <1>5, <1>131, SentAndShown
  <2>3. "reverted" \in past'.odd => Spoilt(past'.odd)
    BY DEF Spoilt
  <2> QED
    BY <1>13, <2>1, <2>2, <2>3 DEF Meant
<1>15. Held(Q \cup {x}, ui)
  BY <1>1, <1>2, <1>8, <1>9 DEF Story, Held
<1>16. Carried(Q \cup {x}, ui, row, past'.odd)
  BY <1>4, <1>5, <1>8, <1>10, <1>13, <1>131 DEF Carried
<1>17. Known(Q \cup {x}, ui, row, past'.odd)
  BY <1>8 DEF Known
<1>18. Closed(ui, past'.odd)
  BY <1>6, <1>9 DEF Story, Closed
<1>19. Entered(Q \cup {x}, ui, row, past'.odd, past.given)
  BY <1>8, <1>10, <1>14 DEF Entered, Meant
<1>20. Story(Q \cup {x}, ui, server'.row, past'.odd, past'.given)
  BY <1>6, <1>11, <1>15, <1>16, <1>17, <1>18, <1>19 DEF Story
<1> QED
  BY <1>1, <1>6, <1>8, <1>11, <1>12, <1>20, ReturnStep DEF Q, r

-----------------------------------------------------------------------------
\* The profile arrives, or does not.
LEMMA UserDataInv ==
  ASSUME ProfileInv, NEW i \in DOMAIN flight, UserDataLoaded(i) \/ UserDataFailed(i)
  PROVE  ProfileInv'
<1> DEFINE P == Left({})
           Q == Left({i})
           r == flight[i]
           odd == past.odd \cup {"blind"}
           form == FormOf(r.user)
<1>1. /\ past \in ProfilePast /\ ui \in ProfileUI /\ UNCHANGED server /\ r.op = "me"
      /\ Land(i)
  BY ServerFacts DEF UserDataLoaded, UserDataFailed, Untold
<1>2. /\ r \in [op : {"me"}, phase : {"sent", "done"}, user : Profiles]
      /\ P = Q \cup {r}
  BY <1>1, ProfileRequest
<1>3. Story(P, ui, server.row, past.odd, past.given)
  BY DEF ProfileInv
<1>4. \A y \in Q : y.op = "upload"
  BY <1>1, OthersUpload
<1>5. /\ UserDataLoaded(i) => /\ r.phase = "done" /\ UNCHANGED past
                              /\ ui' = [ui EXCEPT !.loading = FALSE, !.user = r.user,
                                                  !.form = form]
      /\ UserDataFailed(i) => /\ ui' = [ui EXCEPT !.loading = FALSE]
                              /\ past' = [past EXCEPT !.odd = odd]
  BY DEF UserDataLoaded, UserDataFailed, Untold
<1>6. "blind" \in odd /\ past.odd \subseteq odd /\ odd \subseteq past.odd \cup {"blind"}
  OBVIOUS
<1>61. /\ form \in Profiles
       /\ ui.at = "profile" => form = ProfileFormOf(r.user)
  BY <1>2, FormOfUser
<1>62. \A row, o, given : r.user = row.profile \/ Spoilt(o) =>
         \A f \in ProfileFields : Meant(ui.at, f, form[f], row, o, given)
  BY <1>2, ShownIsMeant
<1> HIDE DEF P, Q, r, odd, form
<1>7. ui.loading /\ Q = {}
  BY <1>1, <1>2, <1>3, <1>4 DEF Story, Held
<1>8. CASE UserDataLoaded(i)
  <2>1. /\ ui' \in ProfileUI /\ ui'.editing = ui.editing /\ ui'.at = ui.at
        /\ ui'.form = form /\ ui'.user = r.user /\ ~ui'.loading
        /\ ui'.saving = ui.saving
    BY <1>1, <1>2, <1>5, <1>61, <1>8 DEF ProfileUI
  <2>2. r.user = server.row.profile \/ Spoilt(past.odd)
    BY <1>1, <1>2, <1>3, <1>5, <1>8 DEF Story, Carried, Spoilt
  <2>3. Story(Q, ui', server.row, past.odd, past.given)
    BY <1>3, <1>61, <1>62, <1>7, <2>1, <2>2 DEF Story, Held, Carried, Known, Closed, Entered
  <2> QED
    BY <1>1, <1>5, <1>8, <2>1, <2>3, LandStep DEF Q
<1>9. CASE UserDataFailed(i)
  <2>1. /\ ui' \in ProfileUI /\ ui'.editing = ui.editing /\ ui'.at = ui.at
        /\ ui'.form = ui.form /\ ui'.user = ui.user /\ ~ui'.loading
        /\ ui'.saving = ui.saving
    BY <1>1, <1>5, <1>9 DEF ProfileUI
  <2>2. past' \in ProfilePast /\ past'.odd = odd /\ past'.given = past.given
    BY <1>1, <1>5, <1>6, <1>9 DEF ProfilePast
  <2>3. Spoilt(odd)
    BY <1>6 DEF Spoilt
  <2>4. Story(Q, ui', server.row, odd, past.given)
    BY <1>3, <1>6, <1>7, <2>1, <2>3 DEF Story, Held, Carried, Known, Closed, Entered, Meant
  <2> QED
    BY <1>1, <1>6, <2>1, <2>2, <2>4, LandStep DEF Q
<1> QED
  BY <1>8, <1>9

\* A save is answered: the store knows the user, and a form that was closed by it
\* shows him, or what it had is remembered.
LEMMA ProfileSavedInv ==
  ASSUME ProfileInv, NEW i \in DOMAIN flight, ProfileSaved(i)
  PROVE  ProfileInv'
<1> DEFINE P == Left({})
           Q == Left({i})
           r == flight[i]
           editing == At("personal")
           kept == \E f \in {"name", "phone"} : r.sent[f] = Null /\ r.user[f] # Null
           rewritten == r.sent # r.form \/ r.form.city # NormalCity[r.form.city]
           odd == (past.odd \cap {"miscounted", "reverted"})
                    \cup (IF ui.form # r.form THEN {"unsent"} ELSE {})
                    \cup (IF kept THEN {"kept"} ELSE {})
                    \cup (IF rewritten THEN {"rewritten"} ELSE {})
<1>1. /\ past \in ProfilePast /\ ui \in ProfileUI /\ UNCHANGED server /\ r.op = "save"
      /\ Land(i) /\ r.phase = "done"
      /\ ui' = [ui EXCEPT !.user = r.user, !.editing = editing, !.saving = FALSE]
      /\ past' = [past EXCEPT !.odd = odd]
  BY ServerFacts DEF ProfileSaved
<1>2. /\ r \in [op : {"save"}, phase : {"sent", "read", "done"}, form : Profiles,
                sent : Profiles, user : Profiles, copy : UserRow]
      /\ P = Q \cup {r}
  BY <1>1, ProfileRequest
<1>3. Story(P, ui, server.row, past.odd, past.given)
  BY DEF ProfileInv
<1>4. \A y \in Q : y.op = "upload"
  BY <1>1, OthersUpload
<1>5. editing \in BOOLEAN /\ (~editing => ui.at = "profile")
  BY <1>1 DEF At, ProfileUI
<1>6. /\ odd \subseteq {"miscounted", "reverted", "unsent", "kept", "rewritten"}
      /\ "miscounted" \in past.odd => "miscounted" \in odd
      /\ "reverted" \in past.odd => "reverted" \in odd
      /\ ui.form # r.form => "unsent" \in odd
      /\ kept => "kept" \in odd
      /\ rewritten => "rewritten" \in odd
  OBVIOUS
<1> HIDE DEF P, Q, r, odd, editing, kept, rewritten
<1>7. /\ ui' \in ProfileUI /\ ui'.editing = editing /\ ui'.at = ui.at
      /\ ui'.form = ui.form /\ ui'.user = r.user /\ ui'.loading = ui.loading
      /\ ~ui'.saving
  BY <1>1, <1>2, <1>5 DEF ProfileUI
<1>8. past' \in ProfilePast /\ past'.odd = odd /\ past'.given = past.given
  BY <1>1, <1>6 DEF ProfilePast
<1>9. r.user = server.row.profile \/ "reverted" \in odd
  BY <1>1, <1>2, <1>3, <1>6 DEF Story, Carried
<1>10. PICK old, form, sent, at :
         old = r.copy.profile /\ form = r.form /\ sent = r.sent /\ at = ui.at
  OBVIOUS
<1>11. /\ old \in Profiles /\ form \in Profiles /\ r.user \in Profiles
       /\ sent \in Profiles /\ ui.at \in {"profile", "personal"}
  BY <1>1, <1>2, <1>10 DEF UserRow, ProfileUI
<1>12. r.user = UpdatedAt(at, old, sent) /\ sent = Outgoing(form)
  BY <1>1, <1>2, <1>3, <1>10 DEF Story, Carried
<1>121. \A f \in ProfileFields : sent[f] = SentAs(f, form[f])
  BY <1>11, <1>12, SentAndShown
<1>13. \A f \in ProfileFields : NotSaved(at, f, sent[f]) \/ r.user[f] = sent[f]
  <2> DEFINE new == UpdatedAt(at, old, sent)
  <2>1. \A f \in ProfileFields : NotSaved(at, f, sent[f]) \/ new[f] = sent[f]
    BY <1>11, UpdatedFields
  <2> HIDE DEF new
  <2> QED
    BY <1>12, <2>1 DEF new
<1>14. "reverted" \in odd => Spoilt(odd)
  BY DEF Spoilt
<1>15. \A f \in ProfileFields : ui.form[f] = form[f] \/ <<f, ui.form[f]>> \in past.given
  BY <1>1, <1>2, <1>3, <1>10 DEF Story, Entered
<1>16. Held(Q, ui') /\ Carried(Q, ui', server.row, odd)
  BY <1>2, <1>3, <1>4, <1>7 DEF Story, Held, Carried
<1>17. Known(Q, ui', server.row, odd)
  BY <1>7, <1>9, <1>14 DEF Known
<1>18. Closed(ui', odd)
  <2> SUFFICES ASSUME ~editing
               PROVE  ui.form = ProfileFormOf(r.user) \/ odd \ {"miscounted"} # {}
    BY <1>5, <1>7 DEF Closed
  <2>1. CASE ui.form # r.form
    BY <1>6, <2>1
  <2>2. CASE kept
    BY <1>6, <2>2
  <2>3. CASE rewritten
    BY <1>6, <2>3
  <2>4. CASE ui.form = r.form /\ ~kept /\ ~rewritten
    <3>1. at = "profile" /\ sent = form /\ form.city = NormalCity[form.city]
      BY <1>5, <1>10, <2>4 DEF rewritten
    <3>2. \A f \in {"name", "phone"} : sent[f] # Null \/ r.user[f] = Null
      BY <1>10, <2>4 DEF kept
    <3>3. \A f \in ProfileFields : r.user[f] = form[f]
      BY <1>13, <3>1, <3>2 DEF NotSaved
    <3>4. r.user = form
      BY <1>11, <3>3, FieldsOf
    <3>5. \A f \in ProfileFields : ProfileFormOf(form)[f] = form[f]
      BY <1>11, <3>1, SentAndShown DEF ShownAs
    <3>6. ProfileFormOf(form) = form
      BY <1>11, <3>5, FieldsOf, SentAndShown
    <3> QED
      BY <1>10, <2>4, <3>4, <3>6
  <2> QED
    BY <2>1, <2>2, <2>3, <2>4
<1>19. Entered(Q, ui', server.row, odd, past.given)
  <2>1. \A f \in ProfileFields : Meant(at, f, ui.form[f], server.row, odd, past.given)
    BY <1>9, <1>121, <1>13, <1>14, <1>15 DEF Meant
  <2> QED
    BY <1>4, <1>7, <1>10, <2>1 DEF Entered
<1>20. Story(Q, ui', server.row, past'.odd, past'.given)
  BY <1>8, <1>16, <1>17, <1>18, <1>19 DEF Story
<1> QED
  BY <1>1, <1>6, <1>7, <1>8, <1>20, LandStep DEF Q

\* A save fails: if it was written, its answer is lost.
LEMMA ProfileSaveFailedInv ==
  ASSUME ProfileInv, NEW i \in DOMAIN flight, ProfileSaveFailed(i)
  PROVE  ProfileInv'
<1> DEFINE P == Left({})
           Q == Left({i})
           r == flight[i]
           odd == IF r.phase = "done" THEN past.odd \cup {"lost"} ELSE past.odd
<1>1. /\ past \in ProfilePast /\ ui \in ProfileUI /\ UNCHANGED server /\ r.op = "save"
      /\ Land(i) /\ ui' = [ui EXCEPT !.saving = FALSE]
      /\ past' = [past EXCEPT !.odd = odd]
  BY ServerFacts DEF ProfileSaveFailed
<1>2. P = Q \cup {r} /\ Story(P, ui, server.row, past.odd, past.given)
  BY ProfileRequest DEF ProfileInv
<1>3. \A y \in Q : y.op = "upload"
  BY <1>1, OthersUpload
<1>4. /\ odd \subseteq past.odd \cup {"lost"} /\ past.odd \subseteq odd
      /\ r.phase = "done" => Spoilt(odd)
  BY DEF Spoilt
<1> HIDE DEF P, Q, r, odd
<1>5. /\ ui' \in ProfileUI /\ ui'.editing = ui.editing /\ ui'.at = ui.at
      /\ ui'.form = ui.form /\ ui'.user = ui.user /\ ui'.loading = ui.loading
      /\ ~ui'.saving
  BY <1>1 DEF ProfileUI
<1>6. past' \in ProfilePast /\ past'.odd = odd /\ past'.given = past.given
  BY <1>1, <1>4 DEF ProfilePast
<1>7. PICK p, u, row, odd1, odd2, given :
        /\ p = P /\ u = ui /\ row = server.row /\ odd1 = past.odd /\ odd2 = odd
        /\ given = past.given
  OBVIOUS
<1>8. Story(p, u, row, odd2, given)
  BY <1>2, <1>4, <1>7, StoryOdd
<1>9. Known(Q, ui', server.row, odd)
  BY <1>2, <1>3, <1>4, <1>5, <1>7, <1>8 DEF Story, Known
<1>10. Story(Q, ui', server.row, odd, past.given)
  BY <1>2, <1>3, <1>5, <1>7, <1>8, <1>9 DEF Story, Held, Carried, Closed, Entered
<1> QED
  BY <1>1, <1>4, <1>5, <1>6, <1>10, LandStep DEF Q

\* A picture arrives in the form, open or not, or does not.
LEMMA AvatarInv ==
  ASSUME ProfileInv, NEW i \in DOMAIN flight, AvatarUploaded(i) \/ AvatarFailed(i)
  PROVE  ProfileInv'
<1> DEFINE P == Left({})
           Q == Left({i})
           r == flight[i]
           odd == IF ProfileForm THEN past.odd ELSE past.odd \cup {"late"}
           given == past.given \cup {<<"avatar", r.avatar>>}
           form == [ui.form EXCEPT !.avatar = r.avatar]
<1>1. /\ past \in ProfilePast /\ ui \in ProfileUI /\ UNCHANGED server /\ r.op = "upload"
      /\ Land(i)
  BY ServerFacts DEF AvatarUploaded, AvatarFailed, Untold
<1>2. /\ r \in [op : {"upload"}, phase : {"sent", "done"}, avatar : Pictures]
      /\ P = Q \cup {r} /\ Q \subseteq P
  BY <1>1, ProfileRequest
<1>3. Story(P, ui, server.row, past.odd, past.given)
  BY DEF ProfileInv
<1>4. /\ AvatarUploaded(i) => /\ ui' = [ui EXCEPT !.form = form, !.uploading = FALSE]
                              /\ past' = [past EXCEPT !.odd = odd, !.given = given]
      /\ AvatarFailed(i) => UNCHANGED past /\ ui' = [ui EXCEPT !.uploading = FALSE]
  BY DEF AvatarUploaded, AvatarFailed, Untold
<1>5. /\ odd \subseteq past.odd \cup {"late"} /\ past.odd \subseteq odd
      /\ Spoilt(odd) <=> Spoilt(past.odd)
      /\ "reverted" \in odd <=> "reverted" \in past.odd
  BY DEF Spoilt
<1>6. ~ui.loading
  BY <1>1, <1>2, <1>3 DEF Story, Held
<1>7. ~ui.editing => "late" \in odd
  BY <1>3 DEF ProfileForm, ProfileView, PersonalView, At, Story, Closed
<1>8. /\ form \in Profiles /\ form.avatar = r.avatar
      /\ \A f \in ProfileFields : f # "avatar" => form[f] = ui.form[f]
      /\ <<"avatar", r.avatar>> \in given /\ past.given \subseteq given
      /\ given \in SUBSET (ProfileFields \X (Texts \cup Pictures \cup {Null}))
  <2>1. ui.form \in Profiles /\ "avatar" \in ProfileFields /\ r.avatar \in Pictures
    BY <1>1, <1>2 DEF ProfileUI, ProfileFields
  <2>2. /\ form \in Profiles /\ form.avatar = r.avatar
        /\ \A f \in ProfileFields : f # "avatar" => form[f] = ui.form[f]
    BY <2>1, PictureTaken
  <2>3. <<"avatar", r.avatar>> \in ProfileFields \X (Texts \cup Pictures \cup {Null})
    BY <2>1
  <2> QED
    BY <1>1, <2>2, <2>3 DEF ProfilePast
<1> HIDE DEF P, Q, r, odd, given, form
<1>9. CASE AvatarUploaded(i)
  <2>1. /\ ui' \in ProfileUI /\ ui'.editing = ui.editing /\ ui'.at = ui.at
        /\ ui'.form = form /\ ui'.user = ui.user /\ ui'.loading = ui.loading
        /\ ui'.saving = ui.saving
    BY <1>1, <1>4, <1>8, <1>9 DEF ProfileUI
  <2>2. past' \in ProfilePast /\ past'.odd = odd /\ past'.given = given
    <3>1. past' = [past EXCEPT !.odd = odd, !.given = given]
      BY <1>4, <1>9
    <3>2. odd \in SUBSET {"blind", "lost", "late", "unsent", "kept", "rewritten",
                          "miscounted", "reverted"}
      BY <1>1, <1>5 DEF ProfilePast
    <3>3. given \in SUBSET (ProfileFields \X (Texts \cup Pictures \cup {Null}))
      BY <1>8
    <3> QED
      BY <1>1, <3>1, <3>2, <3>3 DEF ProfilePast
  <2>3. \A f \in ProfileFields : form[f] = ui.form[f] \/ <<f, form[f]>> \in given
    BY <1>8
  <2>4. \A f, v : Meant(ui.at, f, v, server.row, past.odd, past.given) =>
                    Meant(ui.at, f, v, server.row, odd, given)
    BY <1>5, <1>8 DEF Meant
  <2>5. Entered(Q, ui', server.row, odd, given)
    <3>1. \A f \in ProfileFields : Meant(ui.at, f, form[f], server.row, odd, given)
      BY <1>3, <1>6, <2>3, <2>4 DEF Story, Entered, Meant
    <3>2. \A y \in Q : y.op = "save" =>
            \A f \in ProfileFields : /\ Meant(ui.at, f, y.form[f], server.row, odd, given)
                                     /\ form[f] = y.form[f] \/ <<f, form[f]>> \in given
      <4>1. \A y \in Q : y.op = "save" =>
              \A f \in ProfileFields :
                /\ Meant(ui.at, f, y.form[f], server.row, past.odd, past.given)
                /\ ui.form[f] = y.form[f] \/ <<f, ui.form[f]>> \in past.given
        BY <1>2, <1>3 DEF Story, Entered
      <4> QED
        BY <1>8, <2>3, <2>4, <4>1
    <3> QED
      BY <2>1, <3>1, <3>2 DEF Entered
  <2>6. Held(Q, ui') /\ Carried(Q, ui', server.row, odd) /\ Known(Q, ui', server.row, odd)
    BY <1>1, <1>2, <1>3, <1>5, <2>1 DEF Story, Held, Carried, Known
  <2>7. Closed(ui', odd)
    BY <1>3, <1>5, <1>7, <2>1 DEF Story, Closed
  <2>8. Story(Q, ui', server.row, odd, given)
    BY <2>5, <2>6, <2>7 DEF Story
  <2> QED
    BY <1>1, <1>5, <2>1, <2>2, <2>8, LandStep DEF Q
<1>10. CASE AvatarFailed(i)
  <2>1. /\ ui' \in ProfileUI /\ ui'.editing = ui.editing /\ ui'.at = ui.at
        /\ ui'.form = ui.form /\ ui'.user = ui.user /\ ui'.loading = ui.loading
        /\ ui'.saving = ui.saving
    BY <1>1, <1>4, <1>10 DEF ProfileUI
  <2>2. Story(Q, ui', server.row, past.odd, past.given)
    BY <1>1, <1>2, <1>3, <2>1 DEF Story, Held, Carried, Known, Closed, Entered
  <2> QED
    BY <1>1, <1>4, <1>10, <2>1, <2>2, LandStep DEF Q
<1> QED
  BY <1>9, <1>10

\* Every step keeps the invariant.
LEMMA ProfileNextInv ==
  ASSUME ProfileInv, [ProfileNext]_pageVars
  PROVE  ProfileInv'
<1>1. CASE UNCHANGED pageVars
  <2>1. UNCHANGED <<ui, server, flight, past>>
    BY <1>1 DEF pageVars
  <2>2. Story(Left({}), ui', server.row, past'.odd, past'.given)
    BY <2>1 DEF ProfileInv
  <2>3. ui' \in ProfileUI /\ past' \in ProfilePast
    BY <2>1, ServerFacts
  <2> QED
    BY <2>1, <2>2, <2>3, ClickStep
<1>2. ASSUME NEW i \in DOMAIN flight, GetMe(i) \/ UpdateMeReads(i) \/ StorePicture(i)
      PROVE  ProfileInv'
  BY <1>2, ProfileServedInv
<1>3. ASSUME NEW i \in DOMAIN flight, UpdateMeWrites(i) PROVE ProfileInv'
  BY <1>3, UpdateMeWritesInv
<1>4. ASSUME NEW i \in DOMAIN flight, UserDataLoaded(i) \/ UserDataFailed(i)
      PROVE  ProfileInv'
  BY <1>4, UserDataInv
<1>5. ASSUME NEW i \in DOMAIN flight, ProfileSaved(i) PROVE ProfileInv'
  BY <1>5, ProfileSavedInv
<1>6. ASSUME NEW i \in DOMAIN flight, ProfileSaveFailed(i) PROVE ProfileInv'
  BY <1>6, ProfileSaveFailedInv
<1>7. ASSUME NEW i \in DOMAIN flight, AvatarUploaded(i) \/ AvatarFailed(i)
      PROVE  ProfileInv'
  BY <1>7, AvatarInv
<1>8. CASE CreateReview \/ UpdateReview \/ DeleteReview \/ ReviewFails
  BY <1>8, ReviewingInv
<1> QED
  BY <1>1, <1>2, <1>3, <1>4, <1>5, <1>6, <1>7, <1>8, LoadUserDataInv, EditProfileInv,
     FieldChangeInv, ProfileSaveInv, CancelInv, AvatarChangeInv, ReviewWritesInv
     DEF ProfileNext

\* The pages of the profile keep the invariant.
LEMMA ProfileInvariant == ProfileSpec => []ProfileInv
<1>1. ProfileInit => ProfileInv
  BY ProfileInitInv
<1>2. ProfileInv /\ [ProfileNext]_pageVars => ProfileInv'
  BY ProfileNextInv
<1> QED
  BY <1>1, <1>2, PTL DEF ProfileSpec

\* The pages of the profile, their requests, the row of the user and the reviews
\* being written keep their types.
THEOREM ProfileTyped == ProfileSpec => []ProfileTypeOK
<1>1. ProfileInv => ProfileTypeOK
  BY DEF ProfileInv
<1> QED
  BY <1>1, ProfileInvariant, PTL

\* What the store and the form show of the user is explained.
LEMMA ShownIsKept == ProfileInv => ProfileExplained
<1> SUFFICES ASSUME ProfileInv PROVE ProfileExplained
  OBVIOUS
<1>1. /\ \/ server.row.reviewCount = Cardinality(server.reviews)
         \/ "miscounted" \in past.odd
  BY DEF ProfileInv, Counted
<1>2. ASSUME flight = <<>>, ~ui.loading
      PROVE  /\ \/ ui.user = server.row.profile
                \/ past.odd \cap {"blind", "lost", "reverted"} # {}
             /\ At("profile") /\ ~ui.editing =>
                  \/ ui.form = FormOf(ui.user) /\ HeaderShows = server.row.profile
                  \/ past.odd \ {"miscounted"} # {}
  <2>1. Left({}) = {}
    BY <1>2 DEF Left
  <2>2. Story({}, ui, server.row, past.odd, past.given)
    BY <2>1 DEF ProfileInv
  <2>3. ui.user = server.row.profile \/ Spoilt(past.odd)
    BY <1>2, <2>2 DEF Story, Known
  <2>31. ui.user \in Profiles /\ ui.user = [f \in ProfileFields |-> ui.user[f]]
    BY ServerFacts DEF ProfileUI, Profiles
  <2>4. ~ui.editing => ui.form = FormOf(ui.user) \/ past.odd \ {"miscounted"} # {}
    <3>1. ~ui.editing => /\ ui.at = "profile"
                         /\ \/ ui.form = ProfileFormOf(ui.user)
                            \/ past.odd \ {"miscounted"} # {}
      BY <2>2 DEF Story, Closed
    <3> QED
      BY <2>31, <3>1, FormOfUser
  <2>5. ASSUME ~ui.editing, ui.form = FormOf(ui.user) PROVE HeaderShows = ui.user
    <3>1. ui.form.avatar = ui.user.avatar
      BY <2>31, <2>5, FormOfUser DEF ShownAs, ProfileFields
    <3>2. HeaderShows = [f \in ProfileFields |-> ui.user[f]]
      BY <2>5, <3>1 DEF HeaderShows
    <3> QED
      BY <2>31, <3>2
  <2> QED
    BY <2>3, <2>4, <2>5 DEF Spoilt
<1> QED
  BY <1>1, <1>2 DEF ProfileExplained

\* At rest the store and a closed form show the user as the server keeps him, and
\* his reviews are counted, but for the reasons the property names (loads, saves,
\* uploads and reviews, each of which writes what it read).
THEOREM ProfileStaysExplained == ProfileSpec => []ProfileExplained
BY ShownIsKept, ProfileInvariant, PTL

\* Only a save, or a review, writes the row of the user.
LEMMA WritesOfRow ==
  ASSUME ProfileInv, [ProfileNext]_pageVars, server'.row.profile # server.row.profile
  PROVE  \/ ReviewWrites
         \/ \E i \in DOMAIN flight : UpdateMeWrites(i)
<1>1. server \in ProfileServer
  BY ServerFacts
<1>2. ASSUME NEW what, NEW o, Reviewing(what, o) PROVE FALSE
  BY <1>1, <1>2 DEF Reviewing, ProfileServer
<1>3. CASE CreateReview \/ UpdateReview \/ DeleteReview
  BY <1>2, <1>3 DEF CreateReview, UpdateReview, DeleteReview
<1>4. CASE ReviewFails
  BY <1>1, <1>4 DEF ReviewFails, ProfileServer
<1>5. ASSUME NEW i \in DOMAIN flight,
             \/ GetMe(i) \/ UpdateMeReads(i) \/ StorePicture(i) \/ UserDataLoaded(i)
             \/ UserDataFailed(i) \/ ProfileSaved(i) \/ ProfileSaveFailed(i)
             \/ AvatarUploaded(i) \/ AvatarFailed(i)
      PROVE  FALSE
  BY <1>5 DEF GetMe, UpdateMeReads, StorePicture, UserDataLoaded, UserDataFailed,
     ProfileSaved, ProfileSaveFailed, AvatarUploaded, AvatarFailed, Untold
<1>6. CASE \/ LoadUserData \/ EditProfile \/ HandleProfileFieldChange
           \/ HandleProfileSave \/ HandleCancel \/ HandleAvatarChange
           \/ UNCHANGED pageVars
  BY <1>6 DEF LoadUserData, EditProfile, HandleProfileFieldChange, HandleProfileSave,
     HandleCancel, HandleAvatarChange, Untold, pageVars
<1> QED
  BY <1>3, <1>4, <1>5, <1>6 DEF ProfileNext

\* A save of a field is as it was, as it was entered, or as the page makes it of what
\* was there.
Allowed(f, old, new, given, odd, odd2) ==
  \/ new = old
  \/ \E v \in Values(f) : <<f, v>> \in given /\ new = SentAs(f, v)
  \/ f \in PageFields /\ new = SentAs(f, IF f = "city" THEN NormalCity[old] ELSE old)
  \/ odd \cap {"blind", "lost"} # {}
  \/ "reverted" \in odd2

\* A save writes such fields.
LEMMA SaveWritesGiven ==
  ASSUME ProfileInv, NEW i \in DOMAIN flight, UpdateMeWrites(i), NEW f \in ProfileFields
  PROVE  Allowed(f, server.row.profile[f], server'.row.profile[f], past.given, past.odd,
                 past'.odd)
<1> DEFINE r == flight[i]
           user == Updated(r.copy.profile, r.sent)
           P == Left({})
<1>1. /\ server \in ProfileServer /\ r.op = "save" /\ r.phase = "read"
      /\ ui.at \in {"profile", "personal"}
  BY ServerFacts DEF UpdateMeWrites, ProfileUI
<1>2. /\ r \in [op : {"save"}, phase : {"sent", "read", "done"}, form : Profiles,
                sent : Profiles, user : Profiles, copy : UserRow]
      /\ r \in P
  BY <1>1, ProfileRequest
<1>3. /\ r.copy \in UserRow /\ r.copy.profile \in Profiles /\ r.form \in Profiles
      /\ r.sent \in Profiles
  BY <1>2 DEF UserRow
<1>4. PICK old, form, sent, at :
        old = r.copy.profile /\ form = r.form /\ sent = r.sent /\ at = ui.at
  OBVIOUS
<1>5. user = Updated(old, sent) /\ old \in Profiles /\ form \in Profiles /\ sent \in Profiles
  BY <1>3, <1>4
<1>51. Carried(P, ui, server.row, past.odd)
       /\ Entered(P, ui, server.row, past.odd, past.given)
  BY DEF ProfileInv, Story
<1>52. sent[f] = SentAs(f, form[f]) /\ form[f] \in Values(f)
  <2>1. sent = Outgoing(form)
    BY <1>1, <1>2, <1>4, <1>51 DEF Carried
  <2> QED
    BY <1>5, <2>1, SentAndShown, FieldsOf
<1>53. Meant(at, f, form[f], server.row, past.odd, past.given)
  BY <1>1, <1>2, <1>4, <1>51 DEF Entered
<1>6. user[f] = old[f] \/ (user[f] = sent[f] /\ ~NotSaved(at, f, sent[f]))
  <2> HIDE DEF user, r
  <2> DEFINE new == UpdatedAt(at, old, sent)
  <2>1. new[f] = old[f] \/ (new[f] = sent[f] /\ ~NotSaved(at, f, sent[f]))
    BY <1>1, <1>5, UpdatedFields
  <2>2. user = new
    BY <1>1, <1>4, <1>5, UpdatedFields
  <2> HIDE DEF new
  <2> QED
    BY <2>1, <2>2
<1>7. CASE user = r.copy.profile
  BY <1>7 DEF UpdateMeWrites, Untold, Allowed
<1>8. CASE user # r.copy.profile
  <2> DEFINE row == [r.copy EXCEPT !.profile = user]
  <2>1. server' = [server EXCEPT !.row = row] /\ Overwrites(r.copy)
    BY <1>8 DEF UpdateMeWrites
  <2>2. row.profile = user
    BY <1>3 DEF UserRow
  <2> HIDE DEF row
  <2>3. server'.row = row
    BY <1>1, <2>1 DEF ProfileServer
  <2>4. PICK copy \in UserRow : copy = r.copy
    BY <1>3
  <2>5. /\ past.odd \subseteq past'.odd
        /\ copy.profile = server.row.profile \/ "reverted" \in past'.odd
    BY <2>1, <2>4, Overwritten
  <2>6. /\ server'.row.profile[f] = user[f]
        /\ old = server.row.profile \/ "reverted" \in past'.odd
    BY <1>4, <2>2, <2>3, <2>4, <2>5
  <2> HIDE DEF user, r, P
  <2>7. Spoilt(past.odd) => \/ past.odd \cap {"blind", "lost"} # {}
                            \/ "reverted" \in past'.odd
    BY <2>5 DEF Spoilt
  <2>8. CASE user[f] = old[f]
    BY <2>6, <2>8 DEF Allowed
  <2>9. CASE user[f] = sent[f] /\ ~NotSaved(at, f, sent[f])
    <3>1. f \in PageFields
      BY <1>4, <2>9 DEF NotSaved, PageFields, At
    <3>2. \/ <<f, form[f]>> \in past.given \/ sent[f] = server.row.profile[f]
          \/ sent[f] = SentAs(f, ShownAs(f, server.row.profile[f])) \/ Spoilt(past.odd)
      BY <1>52, <1>53, <2>9 DEF Meant
    <3> QED
      BY <1>52, <2>6, <2>7, <2>9, <3>1, <3>2 DEF Allowed, ShownAs
  <2> QED
    BY <1>6, <2>8, <2>9
<1> QED
  BY <1>7, <1>8

\* What a step changes of the profile is allowed.
ChangesGiven ==
  AtProfile =>
    \A f \in ProfileFields :
      Allowed(f, server.row.profile[f], server'.row.profile[f], past.given, past.odd,
              past'.odd)

\* A save, or a review, changes nothing else.
LEMMA ChangesAreGiven == ProfileInv /\ [ProfileNext]_pageVars => ChangesGiven
<1>2. ASSUME ProfileInv, ReviewWrites
      PROVE  server'.row.profile = server.row.profile \/ "reverted" \in past'.odd
  <2>1. PICK k \in DOMAIN server.writing :
          /\ server'.row = [server.writing[k].copy EXCEPT
                              !.reviewCount = ReviewCount(server.writing[k].what, @)]
          /\ Overwrites(server.writing[k].copy)
    BY <1>2 DEF ReviewWrites
  <2>2. server.writing \in Seq([what : {"create", "update", "delete"},
                                order : CompletedOrders, copy : UserRow])
    BY <1>2, ServerFacts
  <2>3. k \in 1..Len(server.writing)
    BY <2>2
  <2>4. server.writing[k] \in [what : {"create", "update", "delete"},
                               order : CompletedOrders, copy : UserRow]
    BY <2>2, <2>3, ElementOfSeq
  <2>5. PICK copy \in UserRow : copy = server.writing[k].copy
    BY <2>4
  <2>6. server'.row.profile = copy.profile
    BY <2>1, <2>5 DEF UserRow
  <2>7. copy.profile = server.row.profile \/ "reverted" \in past'.odd
    BY <1>2, <2>1, <2>5, Overwritten
  <2> QED
    BY <2>6, <2>7
<1> QED
  BY <1>2, WritesOfRow, SaveWritesGiven DEF ChangesGiven, Allowed

\* What a save changes the user has entered, but for the reasons the property names
\* (UpdateMe, and the forms of the profile and the settings).
THEOREM SavesStayMeant == ProfileSpec => SavesWhatWasGiven
<1>1. ProfileInv /\ [ProfileNext]_pageVars => [ChangesGiven]_pageVars
  BY ChangesAreGiven
<1>2. ProfileSpec => [][ChangesGiven]_pageVars
  BY <1>1, ProfileInvariant, PTL DEF ProfileSpec
<1> QED
  BY <1>2 DEF SavesWhatWasGiven, ChangesGiven, Allowed
-----------------------------------------------------------------------------
\* A tab: its page is of one of the components.
-----------------------------------------------------------------------------
OnCatalog == ui.at \in {"browse", "category"}
OnSearch == ui.at = "search"
OnOrders == ui.at \in {"sales", "purchases", "order"}
OnSell == ui.at = "sell"

\* No page is of two components.
LEMMA PagesApart ==
  /\ OnCatalog => ~OnSearch /\ ~OnOrders /\ ~OnSell /\ ~AtDesk /\ ~AtListings
                  /\ ~AtSignIn /\ ~AtProfile
  /\ OnSearch => ~OnOrders /\ ~OnSell /\ ~AtDesk /\ ~AtListings /\ ~AtSignIn /\ ~AtProfile
  /\ OnOrders => ~OnSell /\ ~AtDesk /\ ~AtListings /\ ~AtSignIn /\ ~AtProfile
  /\ OnSell => ~AtDesk /\ ~AtListings /\ ~AtSignIn /\ ~AtProfile
  /\ AtDesk => ~AtListings /\ ~AtSignIn /\ ~AtProfile
  /\ AtListings => ~AtSignIn /\ ~AtProfile
  /\ AtSignIn => ~AtProfile
BY DEF OnCatalog, OnSearch, OnOrders, OnSell, AtDesk, AtListings, Favourites, AtSignIn,
   AtProfile, At

\* The steps of a component are taken on its pages.
LEMMA CatalogPlace == CatalogNext => OnCatalog
BY Zenon DEF CatalogNext, CatalogEffect, BrowseEffect, CategoryEffect, SlugEffect, AddressEffect,
   ChangeFilters, FiltersShown, Navigate, TryAgain, LoadMore, CatalogAnswer, BrowseAnswered,
   CategoryAnswered, CatalogFailed, OnCatalog, At

\* The search page.
LEMMA SearchPlace == SearchNext => OnSearch
BY Zenon DEF SearchNext, UrlEffect, Type, ToggleFilters, HandleFilterChange, ExecuteSearch,
   ClearSearch, ResetFilters, Retry, SearchAnswered, SearchFailed, OnSearch, At

\* The pages of the orders.
LEMMA OrdersPlace == OrdersNext => OnOrders
<1>1. ASSUME NEW i \in DOMAIN flight,
             \/ Load(i) \/ UpdateOrder(i) \/ SalesLoaded(i) \/ PurchasesLoaded(i)
             \/ OrderLoaded(i) \/ LoadFailed(i) \/ StatusUpdated(i) \/ OrderCancelled(i)
             \/ UpdateLost(i)
      PROVE  OnOrders
  BY <1>1, Zenon DEF Load, UpdateOrder, SalesLoaded, PurchasesLoaded, OrderLoaded, LoadFailed,
     StatusUpdated, OrderCancelled, UpdateLost, OnOrders, At
<1>2. CASE \/ SalesEffect \/ PurchasesEffect \/ OrderEffect \/ SalesTab \/ PurchasesTab
           \/ SalesLoadMore \/ PurchasesLoadMore \/ HandleUpdateStatus \/ HandleCancelOrder
           \/ OtherMoves
  BY <1>2, Zenon DEF SalesEffect, PurchasesEffect, OrderEffect, SalesTab, PurchasesTab,
     SalesLoadMore, SalesMore, PurchasesLoadMore, PurchasesMore, HandleUpdateStatus,
     SalesCards, HandleCancelOrder, OrderShown, OtherMoves, OnOrders, At
<1> QED
  BY <1>1, <1>2 DEF OrdersNext

\* The page that offers a listing.
LEMMA SellPlace == SellNext => OnSell
BY Zenon DEF SellNext, HandleFiles, RemoveImage, DropZone, HandleChange, FieldsEnabled,
   SelectBoost, OptionsEnabled, HandleSubmit, Uploaded, UploadFailed, CreateListing,
   CreateBoostPayment, GetCurrentUser, Again, Chained, Broken, OnSell, At

\* The desk.
LEMMA DeskPlace == DeskNext => AtDesk
<1>1. ASSUME NEW i \in DOMAIN flight,
             \/ ServeLoad(i) \/ SoftDelete(i) \/ CreateBoost(i) \/ UpdateReads(i)
             \/ ReplaceImages(i) \/ UpdateWrites(i) \/ UpdateFails(i) \/ ListingsLoaded(i)
             \/ FormLoaded(i) \/ DeskLoadFails(i) \/ Deleted(i) \/ Boosted(i)
             \/ EditAnswered(i)
      PROVE  AtDesk
  BY <1>1, Zenon DEF ServeLoad, SoftDelete, CreateBoost, UpdateReads, ReplaceImages, UpdateWrites,
     UpdateFails, ListingsLoaded, FormLoaded, DeskLoadFails, Deleted, Boosted,
     EditAnswered, AtDesk
<1>2. CASE \/ LoadListings \/ LoadListing \/ Ask \/ HandleDelete \/ HandleBoost
           \/ CloseDialog \/ ChangeStock \/ SubmitEdit \/ CleanupReads \/ CleanupDeletes
           \/ ReserveStock \/ ReleaseStock \/ DeletedElsewhere \/ WebhookReads
           \/ WebhookWrites
  BY <1>2, Zenon DEF LoadListings, LoadListing, Ask, CardShown, HandleDelete, HandleBoost,
     CloseDialog, ChangeStock, SubmitEdit, EditFields, EditShown, CleanupReads,
     CleanupDeletes, ReserveStock, ReleaseStock, DeletedElsewhere, WebhookReads,
     WebhookWrites, AtDesk
<1> QED
  BY <1>1, <1>2 DEF DeskNext

\* The pages with hearts.
LEMMA ListingPlace == ListingNext => AtListings
<1>1. ASSUME NEW i \in DOMAIN flight,
             \/ GetMine(i) \/ AddFavorite(i) \/ RemoveFavorite(i) \/ Answer(i)
             \/ ListingLoaded(i) \/ HeartLoaded(i) \/ HeartUnknown(i)
             \/ FavoritesLoaded(i) \/ SellerLoaded(i) \/ SellerFailed(i)
             \/ ToggleAnswered(i) \/ ToggleFailed(i) \/ ClickAnswered(i) \/ ClickFailed(i)
             \/ HandleRemoveFavorite(i) \/ RemoveFailed(i) \/ Acted(i)
      PROVE  AtListings
  BY <1>1, Zenon DEF GetMine, AddFavorite, RemoveFavorite, Answer, ListingLoaded, HeartLoaded,
     HeartUnknown, FavoritesLoaded, SellerLoaded, SellerFailed, ToggleAnswered,
     ToggleFailed, ClickAnswered, ClickFailed, HandleRemoveFavorite, RemoveFailed, Acted,
     AtListings
<1>2. CASE \/ ListingEffect \/ FavoriteEffect \/ Hydrated \/ FavoritesEffect
           \/ SellerEffect \/ RequireAuth \/ HandleFavoriteToggle \/ HandleFavoriteClick
           \/ HandleContactSeller \/ HandleDeleteListing
  BY <1>2, Zenon DEF ListingEffect, FavoriteEffect, Hydrated, FavoritesEffect, SellerEffect,
     RequireAuth, ListingView, Card, FavoritesView, SellerView, HandleFavoriteToggle,
     HandleFavoriteClick, HandleContactSeller, HandleDeleteListing, AtListings
<1> QED
  BY <1>1, <1>2 DEF ListingNext

\* The pages of passwords.
LEMMA SignInPlace == SignInNext => AtSignIn
<1>1. ASSUME NEW i \in DOMAIN flight,
             \/ Register(i) \/ Login(i) \/ ChangePassword(i) \/ NoEndpoint(i)
             \/ SentAgain(i) \/ Accepted(i) \/ Denied(i) \/ SignedOut(i)
      PROVE  AtSignIn
  BY <1>1, Zenon DEF Register, Login, ChangePassword, NoEndpoint, SentAgain, Accepted, Denied,
     SignedOut, AtSignIn, At
<1>2. CASE \/ RegisterChange \/ LoginChange \/ UpdatePasswordField \/ ClearPassword
           \/ ResetChange \/ RegisterSubmit \/ LoginSubmit \/ HandlePasswordSave
           \/ ForgotSubmit \/ ResetSubmit \/ Leave \/ AttemptsReset
  BY <1>2, Zenon DEF RegisterChange, LoginChange, UpdatePasswordField, ClearPassword, ResetChange,
     RegisterSubmit, LoginSubmit, HandlePasswordSave, ForgotSubmit, ResetSubmit, Leave,
     AttemptsReset, RegisterForm, LoginForm, SecurityForm, ForgotForm, ResetForm,
     AtSignIn, At
<1>3. CASE \E to \in {"register", "login", "forgot", "reset"} : Follows(to)
  BY <1>3 DEF Follows
<1> QED
  BY <1>1, <1>2, <1>3 DEF SignInNext

\* The pages of the profile.
LEMMA ProfilePlace == ProfileNext => AtProfile
<1>1. ASSUME NEW i \in DOMAIN flight,
             \/ GetMe(i) \/ UpdateMeReads(i) \/ UpdateMeWrites(i) \/ StorePicture(i)
             \/ UserDataLoaded(i) \/ UserDataFailed(i) \/ ProfileSaved(i)
             \/ ProfileSaveFailed(i) \/ AvatarUploaded(i) \/ AvatarFailed(i)
      PROVE  AtProfile
  BY <1>1, Zenon DEF GetMe, UpdateMeReads, UpdateMeWrites, StorePicture, UserDataLoaded,
     UserDataFailed, ProfileSaved, ProfileSaveFailed, AvatarUploaded, AvatarFailed
<1>2. CASE \/ LoadUserData \/ EditProfile \/ HandleProfileFieldChange
           \/ HandleProfileSave \/ HandleCancel \/ HandleAvatarChange \/ CreateReview
           \/ UpdateReview \/ DeleteReview \/ ReviewWrites \/ ReviewFails
  BY <1>2, Zenon DEF LoadUserData, EditProfile, HandleProfileFieldChange, HandleProfileSave,
     HandleCancel, HandleAvatarChange, CreateReview, UpdateReview, DeleteReview,
     ReviewWrites, ReviewFails, ProfileForm, ProfileView, PersonalView, AtProfile
<1> QED
  BY <1>1, <1>2 DEF ProfileNext

\* A step of the tab on a page of a component is one of that component.
LEMMA StepOfItsPage ==
  ASSUME [Next]_pageVars
  PROVE  /\ OnCatalog => [CatalogNext]_pageVars
         /\ OnSearch => [SearchNext]_pageVars
         /\ OnOrders => [OrdersNext]_pageVars
         /\ OnSell => [SellNext]_pageVars
         /\ AtDesk => [DeskNext]_pageVars
         /\ AtListings => [ListingNext]_pageVars
         /\ AtSignIn => [SignInNext]_pageVars
         /\ AtProfile => [ProfileNext]_pageVars
<1> USE PagesApart
<1>1. CASE UNCHANGED pageVars
  BY <1>1
<1>2. CASE CatalogNext \/ SearchNext \/ OrdersNext \/ SellNext
  BY <1>2, CatalogPlace, SearchPlace, OrdersPlace, SellPlace
<1>3. CASE DeskNext \/ ListingNext \/ SignInNext \/ ProfileNext
  BY <1>3, DeskPlace, ListingPlace, SignInPlace, ProfilePlace
<1> QED
  BY <1>1, <1>2, <1>3 DEF Next

\* What a component keeps includes that its page is one of its own.
LEMMA InvPlace ==
  /\ CatalogInv => OnCatalog
  /\ SearchInv => OnSearch
  /\ OrdersInv => OnOrders
  /\ SellInv => OnSell
  /\ DeskInv => AtDesk
  /\ HeartInv => AtListings
  /\ SignInInv => AtSignIn
  /\ ProfileInv => AtProfile
<1>1. CatalogInv => OnCatalog
  BY DEF CatalogInv, CatalogTypeOK, CatalogUI, OnCatalog
<1>2. SearchInv => OnSearch
  BY DEF SearchInv, OnSearch
<1>3. OrdersInv => OnOrders
  BY DEF OrdersInv, OrdersTypeOK, OrdersUI, OnOrders
<1>4. SellInv => OnSell
  BY DEF SellInv, SellTypeOK, SellUI, OnSell
<1>5. DeskInv => AtDesk
  BY DEF DeskInv, DeskTypeOK, DeskUI, AtDesk, At
<1>6. HeartInv => AtListings
  BY DEF HeartInv, ListingTypeOK, ListingUI, AtListings, Favourites, At
<1>7. SignInInv => AtSignIn
  BY DEF SignInInv, SignInTypeOK, SignInUI, AtSignIn
<1>8. ProfileInv => AtProfile
  BY OnProfile
<1> QED
  BY <1>1, <1>2, <1>3, <1>4, <1>5, <1>6, <1>7, <1>8

\* A tab behaves as the component of its page does, from its first page on: the
\* composition adds no behaviour, and no component disturbs another one.
THEOREM TabIsOneComponent ==
  Spec => \/ CatalogSpec \/ SearchSpec \/ OrdersSpec \/ SellSpec
          \/ DeskSpec \/ ListingSpec \/ SignInSpec \/ ProfileSpec
<1>1. CatalogInv /\ [Next]_pageVars => [CatalogNext]_pageVars /\ CatalogInv'
  BY StepOfItsPage, InvPlace, CatalogNextInv
<1>2. SearchInv /\ [Next]_pageVars => [SearchNext]_pageVars /\ SearchInv'
  BY StepOfItsPage, InvPlace, SearchNextInv
<1>3. OrdersInv /\ [Next]_pageVars => [OrdersNext]_pageVars /\ OrdersInv'
  BY StepOfItsPage, InvPlace, OrdersNextInv
<1>4. SellInv /\ [Next]_pageVars => [SellNext]_pageVars /\ SellInv'
  BY StepOfItsPage, InvPlace, SellNextInv
<1>5. DeskInv /\ [Next]_pageVars => [DeskNext]_pageVars /\ DeskInv'
  BY StepOfItsPage, InvPlace, DeskNextInv
<1>6. HeartInv /\ [Next]_pageVars => [ListingNext]_pageVars /\ HeartInv'
  BY StepOfItsPage, InvPlace, ListingNextInv
<1>7. SignInInv /\ [Next]_pageVars => [SignInNext]_pageVars /\ SignInInv'
  BY StepOfItsPage, InvPlace, SignInNextInv
<1>8. ProfileInv /\ [Next]_pageVars => [ProfileNext]_pageVars /\ ProfileInv'
  BY StepOfItsPage, InvPlace, ProfileNextInv
<1>9. CatalogInit /\ [][Next]_pageVars => CatalogSpec
  BY <1>1, CatalogInitInv, PTL DEF CatalogSpec
<1>10. SearchInit /\ [][Next]_pageVars => SearchSpec
  BY <1>2, SearchInitInv, PTL DEF SearchSpec
<1>11. OrdersInit /\ [][Next]_pageVars => OrdersSpec
  BY <1>3, OrdersInitInv, PTL DEF OrdersSpec
<1>12. SellInit /\ [][Next]_pageVars => SellSpec
  BY <1>4, SellInitInv, PTL DEF SellSpec
<1>13. DeskInit /\ [][Next]_pageVars => DeskSpec
  BY <1>5, DeskInitInv, PTL DEF DeskSpec
<1>14. ListingInit /\ [][Next]_pageVars => ListingSpec
  BY <1>6, ListingInitInv, PTL DEF ListingSpec
<1>15. SignInInit /\ [][Next]_pageVars => SignInSpec
  BY <1>7, SignInInitInv, PTL DEF SignInSpec
<1>16. ProfileInit /\ [][Next]_pageVars => ProfileSpec
  BY <1>8, ProfileInitInv, PTL DEF ProfileSpec
<1> QED
  BY <1>9, <1>10, <1>11, <1>12, <1>13, <1>14, <1>15, <1>16, PTL DEF Spec, Init

\* The state of a tab is of the kind the component of its page keeps.
THEOREM TabTyped == Spec => []TypeOK
<1>1. /\ CatalogTypeOK => TypeOK
      /\ SearchTypeOK => TypeOK
      /\ OrdersTypeOK => TypeOK
      /\ SellTypeOK => TypeOK
      /\ DeskTypeOK => TypeOK
      /\ ListingTypeOK => TypeOK
      /\ SignInTypeOK => TypeOK
      /\ ProfileTypeOK => TypeOK
  BY DEF TypeOK
<1> QED
  BY <1>1, SignInTyped, TabIsOneComponent, CatalogTyped, SearchTyped, OrderPagesTyped, SellTyped,
     DeskTyped, ListingTyped, ProfileTyped, PTL

\* What the pages promise, those of every component.
TabSafe ==
  /\ NoPageTwice /\ LastSearchShown /\ StatusExplained
  /\ ImagesAsWanted /\ OneListingPerForm /\ ListingExplained /\ BoostMatchesPayment
  /\ HeartExplained /\ SignInExplained /\ ProfileExplained

\* A page of one component has nothing to do with what another one promises.
LEMMA PromiseElsewhere ==
  /\ ~OnCatalog => NoPageTwice
  /\ ~OnSearch => LastSearchShown
  /\ ~OnOrders => StatusExplained
  /\ ~OnSell => ImagesAsWanted /\ OneListingPerForm
  /\ ~AtDesk => ListingExplained /\ BoostMatchesPayment
  /\ ~AtListings => HeartExplained
  /\ ~AtSignIn => SignInExplained
  /\ ~AtProfile => ProfileExplained
<1>1. /\ ~OnCatalog => NoPageTwice
      /\ ~OnSearch => LastSearchShown
  BY Zenon DEF OnCatalog, NoPageTwice, FiltersShown, OnSearch, LastSearchShown, At
<1>2. /\ ~OnOrders => StatusExplained
      /\ ~OnSell => ImagesAsWanted /\ OneListingPerForm
  BY Zenon DEF OnOrders, StatusExplained, OnSell, ImagesAsWanted, OneListingPerForm, At
<1>3. /\ ~AtDesk => ListingExplained /\ BoostMatchesPayment
      /\ ~AtListings => HeartExplained
      /\ ~AtSignIn => SignInExplained
      /\ ~AtProfile => ProfileExplained
  BY Zenon DEF ListingExplained, BoostMatchesPayment, HeartExplained, SignInExplained,
     ProfileExplained
<1> QED
  BY <1>1, <1>2, <1>3

\* Whatever page a tab shows first and wherever its links lead, each page keeps what
\* its component promises: the lists, hearts, forms and statuses a user sees are what
\* the server keeps, but for the reasons the properties name.
THEOREM TabKeepsPromises == Spec => []TabSafe
<1> USE PagesApart, InvPlace, PromiseElsewhere
<1>1. CatalogInv => TabSafe
  BY RisingDiffer DEF TabSafe
<1>2. SearchInv => TabSafe
  BY DEF SearchInv, TabSafe
<1>3. OrdersInv => TabSafe
  BY RestIsRight DEF TabSafe
<1>4. SellInv => TabSafe
  BY FormKeepsPromises DEF TabSafe
<1>5. DeskInv => TabSafe
  BY DeskKeepsPromises DEF TabSafe
<1>6. HeartInv => TabSafe
  BY RestExplained DEF TabSafe
<1>7. SignInInv => TabSafe
  BY ReasonsFollow DEF TabSafe
<1>8. ProfileInv => TabSafe
  BY ShownIsKept DEF TabSafe
<1> HIDE PagesApart, InvPlace, PromiseElsewhere
<1> QED
  BY <1>1, <1>2, <1>3, <1>4, <1>5, <1>6, <1>7, <1>8, TabIsOneComponent,
     CatalogInvariant, SearchInvariant, OrdersInvariant, SellInvariant, DeskKeepsInv,
     HeartInvariant, SignInInvariant, ProfileInvariant, PTL

\* The requests of the search page are not of the flight: one aborts another.
SearchIdle == flight = <<>>

\* The search page keeps nothing else under way.
LEMMA SearchStaysIdle == SearchSpec => []SearchIdle
<1>1. SearchInit => SearchIdle
  BY DEF SearchInit, Booted, SearchIdle
<1>2. SearchIdle /\ [SearchNext]_pageVars => SearchIdle'
  <2>1. SearchNext => NoRequest
    BY Zenon DEF SearchNext, UrlEffect, Type, ToggleFilters, HandleFilterChange,
       ExecuteSearch, ClearSearch, ResetFilters, Retry, SearchAnswered, SearchFailed
  <2> QED
    BY <2>1 DEF NoRequest, SearchIdle, pageVars
<1> QED
  BY <1>1, <1>2, PTL DEF SearchSpec

\* Only the pages of the orders send updates.
LEMMA UpdatesElsewhere ==
  ASSUME \/ CatalogInv \/ SearchIdle \/ SellInv \/ DeskInv \/ HeartInv \/ SignInInv
         \/ ProfileInv,
         NEW i \in DOMAIN flight
  PROVE  flight[i].op \notin Updates
<1>1. CASE CatalogInv
  <2>1. flight \in Seq(CatalogRequests)
    BY <1>1 DEF CatalogInv, CatalogTypeOK
  <2>2. flight[i] \in CatalogRequests
    BY <2>1, ElementOfSeq
  <2> QED
    BY <2>2 DEF CatalogRequests, Updates
<1>2. CASE SearchIdle
  BY <1>2 DEF SearchIdle
<1>3. CASE SellInv
  <2>1. flight \in Seq(SellRequests)
    BY <1>3 DEF SellInv, SellTypeOK
  <2>2. flight[i] \in SellRequests
    BY <2>1, ElementOfSeq
  <2> QED
    BY <2>2 DEF SellRequests, Updates
<1>4. CASE DeskInv
  <2>1. flight \in Seq(DeskRequests)
    BY <1>4 DEF DeskInv, DeskTypeOK
  <2>2. flight[i] \in DeskRequests
    BY <2>1, ElementOfSeq
  <2> QED
    BY <2>2 DEF DeskRequests, Updates
<1>5. CASE HeartInv
  <2>1. flight \in Seq(ListingRequests)
    BY <1>5 DEF HeartInv, ListingTypeOK
  <2>2. flight[i] \in ListingRequests
    BY <2>1, ElementOfSeq
  <2> QED
    BY <2>2 DEF ListingRequests, Updates
<1>6. CASE SignInInv
  <2>1. flight \in Seq(SignInRequests)
    BY <1>6 DEF SignInInv, SignInTypeOK
  <2>2. flight[i] \in SignInRequests
    BY <2>1, ElementOfSeq
  <2> QED
    BY <2>2 DEF SignInRequests, Updates
<1>7. CASE ProfileInv
  <2>1. flight \in Seq(ProfileRequests)
    BY <1>7 DEF ProfileInv, ProfileTypeOK
  <2>2. flight[i] \in ProfileRequests
    BY <2>1, ElementOfSeq
  <2> QED
    BY <2>2 DEF ProfileRequests, Updates
<1> QED
  BY <1>1, <1>2, <1>3, <1>4, <1>5, <1>6, <1>7

\* The same of the steps of a tab: an update is refused only when the order is no
\* longer what the user saw, and the profile changes as the pages make of what the
\* user entered, but for the reasons the properties name.
THEOREM TabStepsAsPromised == Spec => RefusedOnlyWhenStale /\ SavesWhatWasGiven
<1> DEFINE Others == \/ CatalogInv \/ (SearchInv /\ SearchIdle) \/ SellInv \/ DeskInv
                     \/ HeartInv \/ SignInInv
           Promised == RefusesStale /\ ChangesGiven
<1>1. ProfileInv => RefusesStale
  BY UpdatesElsewhere DEF RefusesStale
<1>2. Others => RefusesStale /\ ~AtProfile
  <2>1. Others => RefusesStale
    BY UpdatesElsewhere DEF RefusesStale
  <2>2. Others => ~AtProfile
    BY PagesApart, InvPlace
  <2> QED
    BY <2>1, <2>2
<1>3. OrdersInv => ~AtProfile
  BY PagesApart, InvPlace
<1>4. ~AtProfile => ChangesGiven
  BY DEF ChangesGiven
<1>5. OrdersInv /\ [OrdersNext]_pageVars => [Promised]_pageVars
  BY <1>3, <1>4, RefusalsAreStale
<1>6. ProfileInv /\ [ProfileNext]_pageVars => [Promised]_pageVars
  BY <1>1, ChangesAreGiven
<1>7. Others => [Promised]_pageVars
  BY <1>2, <1>4
<1>8. OrdersSpec => [][OrdersNext]_pageVars
  BY PTL DEF OrdersSpec
<1>9. ProfileSpec => [][ProfileNext]_pageVars
  BY PTL DEF ProfileSpec
<1> HIDE DEF Promised
<1>10. /\ CatalogInv => [Promised]_pageVars
       /\ SearchInv /\ SearchIdle => [Promised]_pageVars
       /\ SellInv => [Promised]_pageVars
       /\ DeskInv => [Promised]_pageVars
       /\ HeartInv => [Promised]_pageVars
       /\ SignInInv => [Promised]_pageVars
  BY <1>7
<1>11. Spec => [][Next]_pageVars
  BY PTL DEF Spec
<1>12. Spec => [][Promised]_pageVars
  BY <1>5, <1>6, <1>8, <1>9, <1>10, <1>11, TabIsOneComponent,
     CatalogInvariant, SearchInvariant, SearchStaysIdle, OrdersInvariant, SellInvariant,
     DeskKeepsInv, HeartInvariant, SignInInvariant, ProfileInvariant, PTL
<1>13. Promised => RefusesStale /\ ChangesGiven
  BY DEF Promised
<1>14. Spec => [][RefusesStale]_pageVars /\ [][ChangesGiven]_pageVars
  BY <1>12, <1>13, PTL
<1>15. [][RefusesStale]_pageVars => RefusedOnlyWhenStale
  BY DEF RefusedOnlyWhenStale, RefusesStale
<1>16. [][ChangesGiven]_pageVars => SavesWhatWasGiven
  BY DEF SavesWhatWasGiven, ChangesGiven, Allowed
<1> QED
  BY <1>14, <1>15, <1>16
=============================================================================
