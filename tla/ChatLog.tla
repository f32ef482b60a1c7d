------------------------------- MODULE ChatLog -------------------------------
(***************************************************************************)
(* What the server of one chat does to its messages, each call in one step,*)
(* and the events it owes the participants for it.  Chat is the detailed   *)
(* server; ChatPage puts this one behind a page.                           *)
(*                                                                         *)
(* A message is named by its created_at.  Messages may appear in another   *)
(* order than the one of their times; an edit may set is_read to whatever  *)
(* it was once; an event is owed until it is sent, or never sent.          *)
(***************************************************************************)
EXTENDS Integers, FiniteSetsExt

CONSTANTS
  MaxMessages,  \* bound: messages ever sent in the chat
  Earlier       \* how many of them may have been sent before

VARIABLES
  message,  \* what the chat holds, by created_at
  owed      \* events of changes made, not yet sent

logVars == <<message, owed>>

Users == {"buyer", "seller"}
Messages == 1..MaxMessages

Other(user) == IF user = "buyer" THEN "seller" ELSE "buyer"

Rows == [state : {"none", "there", "gone"}, sender : Users, read : BOOLEAN]
NoRow == [state |-> "none", sender |-> "buyer", read |-> FALSE]

Event(kind, user, m, read) ==
  [kind |-> kind, user |-> user, msg |-> m, read |-> read]

Events ==
  {Event(k, u, m, b) : k \in {"new", "updated", "deleted", "read"}, u \in Users,
                       m \in Messages, b \in BOOLEAN}

There == {m \in Messages : message[m].state = "there"}

Owes(e) == owed' = owed \cup {e}

LogInit ==
  /\ \E n \in 0..Earlier :
     \E rows \in [1..n -> {row \in Rows : row.state = "there"}] :
       message = [m \in Messages |-> IF m <= n THEN rows[m] ELSE NoRow]
  /\ owed = {}

Add(user, m) ==
  /\ message[m].state = "none"
  /\ message' = [message EXCEPT ![m] = [state |-> "there", sender |-> user,
                                        read |-> FALSE]]
  /\ Owes(Event("new", user, m, FALSE))

Rewrite(m, read) ==
  /\ m \in There
  /\ message' = [message EXCEPT ![m].read = read]
  /\ Owes(Event("updated", message[m].sender, m, read))

Delete(m) ==
  /\ m \in There
  /\ message' = [message EXCEPT ![m].state = "gone"]
  /\ Owes(Event("deleted", message[m].sender, m, FALSE))

Marked(user, upTo) ==
  [m \in Messages |->
     IF m \in There /\ m <= upTo /\ message[m].sender = Other(user)
     THEN [message[m] EXCEPT !.read = TRUE] ELSE message[m]]

Mark(user, upTo) ==
  /\ message' = Marked(user, upTo)
  /\ Owes(Event("read", user, upTo, FALSE))

Forget(e) ==
  /\ e \in owed
  /\ owed' = owed \ {e}
  /\ UNCHANGED message

LogNext ==
  \/ \E m \in Messages :
       \/ \E u \in Users : Add(u, m) \/ Mark(u, m)
       \/ \E b \in BOOLEAN : Rewrite(m, b)
       \/ Delete(m)
  \/ \E e \in owed : Forget(e)

LogSpec == LogInit /\ [][LogNext]_logVars
==============================================================================
