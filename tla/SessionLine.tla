----------------------------- MODULE SessionLine -----------------------------
(***************************************************************************)
(* What the auth endpoints promise about sessions: a login begins a line   *)
(* of refresh tokens; each is good for one exchange, which passes the line *)
(* on to a token never seen before; the line may end, and then for good.   *)
(* There are no forks: at most one token of a line is good at a time.      *)
(***************************************************************************)
CONSTANT Tokens   \* also names the lines: a line has the name of its first

VARIABLES
  used,    \* tokens that were ever handed out
  holder   \* of each line, the token that is good: a set of at most one

vars == <<used, holder>>

Init ==
  /\ used = {}
  /\ holder = [s \in Tokens |-> {}]

Begin(s) ==
  /\ s \notin used
  /\ used' = used \cup {s}
  /\ holder' = [holder EXCEPT ![s] = {s}]

Exchange(s) ==
  /\ holder[s] # {}
  /\ \E c \in Tokens \ used :
       /\ used' = used \cup {c}
       /\ holder' = [holder EXCEPT ![s] = {c}]

End(s) ==
  /\ holder[s] # {}
  /\ holder' = [holder EXCEPT ![s] = {}]
  /\ UNCHANGED used

Next == \E s \in Tokens : Begin(s) \/ Exchange(s) \/ End(s)

Spec == Init /\ [][Next]_vars
==============================================================================
