----------------------------- MODULE SignInPages -----------------------------
(***************************************************************************)
(* The pages that set a password and the page that asks for it: the user   *)
(* registers, signs in, changes his password in the settings, and is shown *)
(* the pages of a forgotten one, for which the server has no endpoint.     *)
(*                                                                         *)
(* What the user keys in is not always what a page sends: registration     *)
(* sanitizes each field as it is typed, the others keep the keys; the page *)
(* that signs in refuses texts the pages that set a password accept.       *)
(***************************************************************************)
EXTENDS Page

CONSTANT MaxLoginAttempts     \* failures after which an address is held off

\* Kinds of keys: plain ones, with characters sanitizeInput takes out, with
\* words the validator of texts refuses.
Keys == {"plain", "trimmed", "refused"}

\* What a field may hold: the keys, or what is left of them.
Kept == Keys \cup {"left"}

ASSUME SignInAssumption == MaxLoginAttempts \in Nat /\ Null \notin Kept

SanitizeInput(keys) == IF keys = "trimmed" THEN "left" ELSE keys
TextValid(text) == text # "refused"

SignInUI ==
  [at : {"register", "login", "security", "forgot", "reset"},
   keys : Keys \cup {Null}, field : Kept \cup {Null},    \* password, next
   current : Kept,               \* of the settings
   busy : BOOLEAN,               \* isLoading, passwordSaving
   apiError : BOOLEAN, leaving : BOOLEAN]

SignInRequests ==
  [op : {"register", "login", "change", "forgot", "reset"},
   keys : Keys \cup {Null}, field : Kept \cup {Null}, current : Kept,
   phase : {"sent", "done", "refused"}]

\* The keys of the last password that was set, and where.
SignInPast == [set : Keys \cup {Null}, where : {"register", "security"}]

\* limited: the last sign-in was refused for too many failures.
SignInTypeOK ==
  /\ ui \in SignInUI
  /\ server \in [password : Kept \cup {Null}, failures : 0 .. MaxLoginAttempts,
                 limited : BOOLEAN]
  /\ flight \in Seq(SignInRequests)
  /\ past \in SignInPast

EmptyPage(at) ==
  [at |-> at, keys |-> Null, field |-> Null, current |-> "plain", busy |-> FALSE,
   apiError |-> FALSE, leaving |-> FALSE]

SignInInit ==
  /\ ui = EmptyPage("register")
  /\ server = [password |-> Null, failures |-> 0, limited |-> FALSE]
  /\ past = [set |-> Null, where |-> "register"]
  /\ Booted

AtSignIn == ui.at \in {"register", "login", "security", "forgot", "reset"}

\* The fields and the buttons of the forms are disabled while a request of
\* theirs is under way; those of the settings are not, but for the buttons.
RegisterForm == At("register") /\ ~ui.busy
LoginForm == At("login") /\ ~ui.busy
SecurityForm == At("security")
ForgotForm == At("forgot") /\ ~ui.busy
ResetForm == At("reset") /\ ~ui.busy
-----------------------------------------------------------------------------
RegisterChange ==
  /\ RegisterForm
  /\ \E k \in Keys : ui' = [ui EXCEPT !.keys = k, !.field = SanitizeInput(k)]
  /\ Untold /\ UNCHANGED <<flight, inputs>>

LoginChange ==
  /\ LoginForm
  /\ \E k \in Keys : ui' = [ui EXCEPT !.keys = k, !.field = k]
  /\ Untold /\ UNCHANGED <<flight, inputs>>

\* Mutated: the next password is sanitized, like that of a registration.
SecurityFieldSanitized(k) == SanitizeInput(k)

\* The password in force, as well as the user knows it, and the next one.
SecurityField(k) == k

UpdatePasswordField ==
  /\ SecurityForm
  /\ \E k \in Keys, c \in Kept :
       ui' = [ui EXCEPT !.keys = k, !.field = SecurityField(k), !.current = c]
  /\ Untold /\ UNCHANGED <<flight, inputs>>

\* "Cancel" empties the three fields.
ClearPassword ==
  /\ SecurityForm /\ ~ui.busy
  /\ ui' = [ui EXCEPT !.keys = Null, !.field = Null]
  /\ Untold /\ UNCHANGED <<flight, inputs>>

ResetChange ==
  /\ ResetForm
  /\ \E k \in Keys : ui' = [ui EXCEPT !.keys = k, !.field = k]
  /\ Untold /\ UNCHANGED <<flight, inputs>>

Post(op) ==
  /\ ui' = [ui EXCEPT !.busy = TRUE, !.apiError = FALSE]
  /\ Send([op |-> op, keys |-> ui.keys, field |-> ui.field, current |-> ui.current,
           phase |-> "sent"])
  /\ Untold /\ UNCHANGED inputs

RegisterValid == ui.field # Null
LoginValid == ui.field # Null /\ TextValid(ui.field)
PasswordValid == ui.field # Null
ResetValid == ui.field # Null /\ TextValid(ui.field)

RegisterSubmit == RegisterForm /\ RegisterValid /\ Post("register")
LoginSubmit == LoginForm /\ LoginValid /\ Post("login")
HandlePasswordSave == SecurityForm /\ ~ui.busy /\ PasswordValid /\ Post("change")
ForgotSubmit == ForgotForm /\ Post("forgot")
ResetSubmit == ResetForm /\ ResetValid /\ Post("reset")

\* The links between the pages, and the settings of who has signed in.
Links(at) ==
  CASE at = "register" -> {"login"}
    [] at = "login" -> {"register", "forgot"}
    [] at = "security" -> {"login"}
    [] at = "forgot" -> {"login"}
    [] at = "reset" -> {"login", "forgot"}

\* The link of a mail leads to the page that sets another password.
Follows(to) ==
  /\ AtSignIn /\ ~ui.leaving /\ flight = <<>>
  /\ to \in Links(ui.at) \/ (At("forgot") /\ to = "reset")
  /\ ui' = EmptyPage(to)
  /\ Untold /\ UNCHANGED <<flight, inputs>>

Leave ==
  /\ AtSignIn /\ ui.leaving /\ flight = <<>>
  /\ ui' = EmptyPage(IF At("register") THEN "login" ELSE "security")
  /\ Untold /\ UNCHANGED <<flight, inputs>>
-----------------------------------------------------------------------------
\* AuthController.
Register(i) ==
  LET r == flight[i]
      free == server.password = Null IN
  /\ AtSignIn /\ r.op = "register" /\ r.phase = "sent"
  /\ Return(i, [r EXCEPT !.phase = IF free THEN "done" ELSE "refused"])
  /\ server' = [server EXCEPT !.password = IF free THEN r.field ELSE @]
  /\ past' = IF free THEN [set |-> r.keys, where |-> "register"] ELSE past
  /\ UNCHANGED <<ui, inputs>>

IsLoginRateLimited == server.failures >= MaxLoginAttempts

Login(i) ==
  LET r == flight[i]
      held == IsLoginRateLimited
      ok == ~held /\ server.password # Null /\ server.password = r.field IN
  /\ AtSignIn /\ r.op = "login" /\ r.phase = "sent"
  /\ Return(i, [r EXCEPT !.phase = IF ok THEN "done" ELSE "refused"])
  /\ server' = [server EXCEPT !.limited = held,
                              !.failures = IF held THEN @ ELSE IF ok THEN 0 ELSE @ + 1]
  /\ UNCHANGED <<ui, past, inputs>>

\* The window of the failures is over.
AttemptsReset ==
  /\ AtSignIn /\ server.failures > 0
  /\ server' = [server EXCEPT !.failures = 0]
  /\ UNCHANGED <<ui, flight, past, inputs>>

ChangePassword(i) ==
  LET r == flight[i]
      ok == server.password = r.current IN
  /\ AtSignIn /\ r.op = "change" /\ r.phase = "sent"
  /\ Return(i, [r EXCEPT !.phase = IF ok THEN "done" ELSE "refused"])
  /\ server' = [server EXCEPT !.password = IF ok THEN r.field ELSE @]
  /\ past' = IF ok THEN [set |-> r.keys, where |-> "security"] ELSE past
  /\ UNCHANGED <<ui, inputs>>

NoEndpoint(i) ==
  /\ AtSignIn /\ flight[i].op \in {"forgot", "reset"} /\ flight[i].phase = "sent"
  /\ Return(i, [flight[i] EXCEPT !.phase = "refused"])
  /\ UNCHANGED <<ui, server, past, inputs>>

\* The interceptor sends a request again whose answer is lost, or, while the tab
\* has a refresh token, one that was refused: a wrong password then counts twice.
SentAgain(i) ==
  /\ AtSignIn /\ flight[i].phase # "sent"
  /\ Return(i, [flight[i] EXCEPT !.phase = "sent"])
  /\ UNCHANGED <<ui, server, past, inputs>>
-----------------------------------------------------------------------------
\* A registration leaves for the page that signs in, a sign-in for the page the
\* user came from; a changed password empties its fields.
Accepted(i) ==
  LET r == flight[i] IN
  /\ AtSignIn /\ r.phase = "done"
  /\ ui' = IF r.op = "change" THEN EmptyPage("security")
                              ELSE [ui EXCEPT !.busy = FALSE, !.leaving = TRUE]
  /\ Land(i)
  /\ Untold /\ UNCHANGED inputs

Denied(i) ==
  /\ AtSignIn /\ flight[i].phase = "refused"
  /\ ui' = [ui EXCEPT !.busy = FALSE, !.apiError = TRUE]
  /\ Land(i)
  /\ Untold /\ UNCHANGED inputs

\* Without a refresh token, or when that is refused, a 401 ends the session: a
\* wrong current password in the settings leads to the page that signs in.
SignedOut(i) ==
  /\ At("security") /\ flight[i].phase = "refused"
  /\ ui' = EmptyPage("login")
  /\ Land(i)
  /\ Untold /\ UNCHANGED inputs

SignInNext ==
  \/ RegisterChange \/ LoginChange \/ UpdatePasswordField \/ ClearPassword \/ ResetChange
  \/ RegisterSubmit \/ LoginSubmit \/ HandlePasswordSave \/ ForgotSubmit \/ ResetSubmit
  \/ \E to \in {"register", "login", "forgot", "reset"} : Follows(to)
  \/ Leave \/ AttemptsReset
  \/ \E i \in DOMAIN flight : Register(i)
  \/ \E i \in DOMAIN flight : Login(i)
  \/ \E i \in DOMAIN flight : ChangePassword(i)
  \/ \E i \in DOMAIN flight : NoEndpoint(i)
  \/ \E i \in DOMAIN flight : SentAgain(i)
  \/ \E i \in DOMAIN flight : Accepted(i)
  \/ \E i \in DOMAIN flight : Denied(i)
  \/ \E i \in DOMAIN flight : SignedOut(i)

SignInSpec == SignInInit /\ [][SignInNext]_pageVars
-----------------------------------------------------------------------------
\* The keys with which a user set his password let him in.  When they do not,
\* he is held off after too many failures; or he set it at registration, which
\* took characters out; or the form that signs in refuses words that
\* registration and the settings accept.
SignInExplained ==
  AtSignIn =>
    /\ \A i \in DOMAIN flight :
         LET r == flight[i] IN
         r.op = "login" /\ r.keys = past.set /\ r.phase = "refused" =>
           \/ server.limited
           \/ past.where = "register" /\ past.set = "trimmed"
    /\ LoginForm /\ past.set # Null /\ ui.keys = past.set =>
         LoginValid \/ past.set = "refused"
=============================================================================
