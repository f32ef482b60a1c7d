-------------------------------- MODULE Page --------------------------------
(***************************************************************************)
(* What the pages of the web client have in common.  A page is one React   *)
(* component: a record of the values of its useState and useRef calls.     *)
(* What it asks of the server is under way until its answer, or the news   *)
(* that there is none, arrives; answers arrive in any order.               *)
(***************************************************************************)
EXTENDS Naturals, SequencesExt

CONSTANTS
  Null,         \* nothing
  MaxFlight,    \* requests under way when the user may still act
  MaxInput      \* things the user does in a behaviour

ASSUME PageAssumption == MaxFlight \in Nat \ {0} /\ MaxInput \in Nat

VARIABLES
  ui,           \* the state of the component; ui.at is the page
  server,       \* what the server keeps of the things the page is about
  flight,       \* the requests under way, in the order they were sent
  past,         \* what the properties need of the past
  inputs

pageVars == <<ui, server, flight, past, inputs>>

At(page) == ui.at = page

Booted == flight = <<>> /\ inputs = 0

Send(r) == flight' = Append(flight, r)
Land(i) == flight' = RemoveAt(flight, i)

\* The user does something, while the page still has room for a request.
Input == inputs < MaxInput /\ inputs' = inputs + 1 /\ Len(flight) < MaxFlight

\* Neither the server nor what the properties remember is concerned.
Untold == UNCHANGED <<server, past>>

\* A request under way reaches the server: it is on its way back as r.
Return(i, r) == flight' = [flight EXCEPT ![i] = r]

UnderWay(op) == \E i \in DOMAIN flight : flight[i].op = op
=============================================================================
