-------------------------------- MODULE Chat --------------------------------
(***************************************************************************)
(* One chat on the server: ChatService over the messages and chats tables. *)
(*                                                                         *)
(* A call is handled in the steps other calls can see.  There is no        *)
(* transaction around them: the raw UPDATE of chats.last_message_at        *)
(* commits by itself, the SaveChanges before or after it by itself, and    *)
(* the events follow.  An edit writes every column of the message it read. *)
(*                                                                         *)
(* A message is named by its created_at, the time its call read from the   *)
(* clock: no two messages are of one time.  Contents, push notifications,  *)
(* archiving and the opening of chats are left out.                        *)
(***************************************************************************)
EXTENDS Integers, FiniteSetsExt

CONSTANTS
  MaxMessages,  \* bound: messages ever sent in the chat
  Earlier,      \* how many of them were sent before the run
  Calls         \* calls of the chat endpoints

Users == {"buyer", "seller"}
Messages == 1..MaxMessages

ASSUME ChatAssumption ==
  /\ MaxMessages \in Nat /\ Earlier \in 0..MaxMessages
  /\ IsFiniteSet(Calls)

VARIABLES
  message,  \* the rows of the messages table
  lastAt,   \* chats.last_message_at, 0 for the time the chat was opened
  pc,       \* where each call is
  call,     \* what each call is about and what it has read
  alone     \* history: no two calls have been in flight together

vars == <<message, lastAt, pc, call, alone>>

-----------------------------------------------------------------------------
Rows == [state : {"none", "there", "gone"}, sender : Users, read : BOOLEAN]

\* "read" is the is_read column in the copy of the message the call has read,
\* "upTo" the time a mark reaches to, or the one to write to last_message_at.
Handlers == [op : {"none", "send", "edit", "delete", "mark"}, user : Users,
             msg : Messages \cup {0}, read : BOOLEAN, upTo : 0..MaxMessages]

Blank == [op |-> "none", user |-> "buyer", msg |-> 0, read |-> FALSE,
          upTo |-> 0]

\* What the tables of a chat and the calls may hold.
TypeOK ==
  /\ message \in [Messages -> Rows]
  /\ lastAt \in 0..MaxMessages
  /\ pc \in [Calls -> {"idle", "look", "touch", "insert", "write", "remove",
                       "latest", "mark", "tell", "ok", "failed"}]
  /\ call \in [Calls -> Handlers]
  /\ alone \in BOOLEAN

Init ==
  /\ \E rows \in [1..Earlier -> [sender : Users, read : BOOLEAN]] :
       message = [m \in Messages |->
                    IF m <= Earlier
                    THEN [state |-> "there", sender |-> rows[m].sender,
                          read |-> rows[m].read]
                    ELSE [state |-> "none", sender |-> "buyer", read |-> FALSE]]
  /\ lastAt = Earlier
  /\ pc = [c \in Calls |-> "idle"]
  /\ call = [c \in Calls |-> Blank]
  /\ alone = TRUE

There == {m \in Messages : message[m].state = "there"}

\* Mutated: ORDER BY created_at without DESC.
LatestAscending == IF There = {} THEN 0 ELSE Min(There)

\* created_at of the message GetMessagesAsync puts first, or of the chat.
Latest == IF There = {} THEN 0 ELSE Max(There)

InFlight(c) == pc[c] \notin {"idle", "ok", "failed"}
Goto(c, place) == pc' = [pc EXCEPT ![c] = place]

\* The end of a call: its locals are gone.
End(c, place) ==
  /\ Goto(c, place)
  /\ call' = [call EXCEPT ![c] = [Blank EXCEPT !.op = call[c].op]]

\* The time a call that sends now would read from the clock.
Clock == Earlier + Cardinality({c \in Calls : call[c].op = "send"}) + 1

Other(user) == IF user = "buyer" THEN "seller" ELSE "buyer"

\* A call arrives.  A user edits and deletes messages of his own, and marks up
\* to one he has received: anything else is refused and changes nothing.
Post(c, op, user, m) ==
  /\ pc[c] = "idle"
  /\ \/ op = "send" /\ m = Clock /\ m \in Messages
     \/ /\ op \in {"edit", "delete", "mark"}
        /\ m \in Messages /\ message[m].state # "none"
        /\ message[m].sender = IF op = "mark" THEN Other(user) ELSE user
  /\ call' = [call EXCEPT ![c] = [@ EXCEPT !.op = op, !.user = user, !.msg = m]]
  /\ Goto(c, IF op = "send" THEN "touch" ELSE "look")
  /\ alone' = (alone /\ \A d \in Calls : ~InFlight(d))
  /\ UNCHANGED <<message, lastAt>>

-----------------------------------------------------------------------------
\* SendAsync: UPDATE chats SET last_message_at, committed at once.
SendTouch(c) ==
  /\ pc[c] = "touch" /\ call[c].op = "send"
  /\ lastAt' = call[c].msg
  /\ Goto(c, "insert")
  /\ UNCHANGED <<message, call, alone>>

\* SendAsync: the insert, with the trigger that updates last_message_at.
SendInsert(c) ==
  LET m == call[c].msg
  IN /\ pc[c] = "insert"
     /\ message' = [message EXCEPT ![m] = [state |-> "there",
                                           sender |-> call[c].user,
                                           read |-> FALSE]]
     /\ lastAt' = m
     /\ Goto(c, "tell")
     /\ UNCHANGED <<call, alone>>

\* The message of an edit, a removal or a mark is read; NotFound if it is gone.
Look(c) ==
  LET m == call[c].msg
  IN /\ pc[c] = "look"
     /\ \/ /\ message[m].state = "there"
           /\ call' = [call EXCEPT ![c].read = message[m].read, ![c].upTo = m]
           /\ Goto(c, CASE call[c].op = "edit" -> "write"
                        [] call[c].op = "delete" -> "remove"
                        [] call[c].op = "mark" -> "mark")
        \/ /\ message[m].state = "gone"
           /\ End(c, "failed")
     /\ UNCHANGED <<message, lastAt, alone>>

\* Mutated: the edit makes a new entity of the message, unread.
WrittenAfresh(c) == [message[call[c].msg] EXCEPT !.read = FALSE]

\* The row an edit writes: every column from the copy, is_read too.
Written(c) == [message[call[c].msg] EXCEPT !.read = call[c].read]

\* UpdateMessageAsync: an UPDATE that matches no row throws.
EditWrite(c) ==
  LET m == call[c].msg
  IN /\ pc[c] = "write"
     /\ \/ /\ message[m].state = "there"
           /\ message' = [message EXCEPT ![m] = Written(c)]
           /\ Goto(c, "tell")
           /\ UNCHANGED call
        \/ /\ message[m].state = "gone"
           /\ End(c, "failed")
           /\ UNCHANGED message
     /\ UNCHANGED <<lastAt, alone>>

\* DeleteMessageAsync: the row goes; a DELETE that matches no row throws.
DeleteRemove(c) ==
  LET m == call[c].msg
  IN /\ pc[c] = "remove"
     /\ \/ /\ message[m].state = "there"
           /\ message' = [message EXCEPT ![m].state = "gone"]
           /\ Goto(c, "latest")
           /\ UNCHANGED call
        \/ /\ message[m].state = "gone"
           /\ End(c, "failed")
           /\ UNCHANGED message
     /\ UNCHANGED <<lastAt, alone>>

\* DeleteMessageAsync: the latest message that is left.
DeleteLatest(c) ==
  /\ pc[c] = "latest"
  /\ call' = [call EXCEPT ![c].upTo = Latest]
  /\ Goto(c, "touch")
  /\ UNCHANGED <<message, lastAt, alone>>

\* DeleteMessageAsync: last_message_at goes back to it.
DeleteTouch(c) ==
  /\ pc[c] = "touch" /\ call[c].op = "delete"
  /\ lastAt' = call[c].upTo
  /\ Goto(c, "tell")
  /\ UNCHANGED <<message, call, alone>>

\* Mutated: whoever sent the message.
MarksAnySender(c, m) == m \in There /\ m <= call[c].upTo

\* The WHERE clause of MarkReadUpToAsync; of messages already read it skips.
Marks(c, m) ==
  m \in There /\ m <= call[c].upTo /\ message[m].sender = Other(call[c].user)

\* MarkReadUpToAsync: one conditional UPDATE.
MarkUpTo(c) ==
  /\ pc[c] = "mark"
  /\ message' = [m \in Messages |->
                   IF Marks(c, m) THEN [message[m] EXCEPT !.read = TRUE]
                   ELSE message[m]]
  /\ Goto(c, "tell")
  /\ UNCHANGED <<lastAt, call, alone>>

-----------------------------------------------------------------------------
EventOf(c) ==
  [kind |-> CASE call[c].op = "send" -> "new"
              [] call[c].op = "edit" -> "updated"
              [] call[c].op = "delete" -> "deleted"
              [] call[c].op = "mark" -> "read",
   user |-> call[c].user, msg |-> call[c].msg,
   read |-> call[c].op = "edit" /\ call[c].read]

\* The call has changed a message and not yet sent the event.
Owes(c) ==
  \/ pc[c] = "tell"
  \/ call[c].op = "delete" /\ pc[c] \in {"latest", "touch"}

\* ChatEvents, to the groups of the chat and of both users.
Tell(c) ==
  /\ pc[c] = "tell"
  /\ End(c, "ok")
  /\ UNCHANGED <<message, lastAt, alone>>

\* What the server does by itself with a call.
Handle(c) ==
  \/ SendTouch(c) \/ SendInsert(c)
  \/ Look(c) \/ EditWrite(c) \/ MarkUpTo(c)
  \/ DeleteRemove(c) \/ DeleteLatest(c) \/ DeleteTouch(c)
  \/ Tell(c)

\* A call is refused (too many messages, blocked, too late for an edit) before
\* its first write, or given up anywhere: cancelled, an exception, a crash.
\* What it has written stays.
Fail(c) ==
  /\ InFlight(c)
  /\ End(c, "failed")
  /\ UNCHANGED <<message, lastAt, alone>>

\* Every call has been answered.
Quiet == (\A c \in Calls : pc[c] \in {"ok", "failed"}) /\ UNCHANGED vars

Next ==
  \/ \E c \in Calls :
       \/ \E op \in {"send", "edit", "delete", "mark"}, u \in Users,
            m \in Messages : Post(c, op, u, m)
       \/ Handle(c) \/ Fail(c)
  \/ Quiet

Spec == Init /\ [][Next]_vars

-----------------------------------------------------------------------------
Newest == Max(There \cup {0})

\* The inbox is ordered by last_message_at.  As long as no two calls overlap it
\* is never behind the newest message, whatever calls fail half-way, and is its
\* time if none has failed.
InboxFollowsNewest ==
  alone /\ (\A c \in Calls : ~InFlight(c)) =>
    /\ lastAt >= Newest
    /\ (\A c \in Calls : pc[c] # "failed") => lastAt = Newest

\* As long as no two calls overlap, what has been read is never unread again,
\* although an edit writes is_read with all the other columns.
ReadSticks ==
  [][alone' => \A m \in There : message[m].read => message'[m].read]_vars

\* Overlapping calls do nothing to the messages that ChatLog does not: one
\* change and one event each, or, for a call that fails, less.
Log == INSTANCE ChatLog WITH
  owed <- {EventOf(c) : c \in {d \in Calls : Owes(d)}}

ImplementsChatLog == Log!LogSpec

-----------------------------------------------------------------------------
\* What a call is about, by where it is.
Phase(c) ==
  LET h == call[c]
      row == message[h.msg]
  IN /\ pc[c] = "idle" => h = Blank
     /\ pc[c] = "look" => h.op \in {"edit", "delete", "mark"}
     /\ pc[c] = "touch" => h.op \in {"send", "delete"}
     /\ pc[c] = "insert" => h.op = "send"
     /\ pc[c] = "write" => h.op = "edit"
     /\ pc[c] \in {"remove", "latest"} => h.op = "delete"
     /\ pc[c] = "mark" => h.op = "mark" /\ h.upTo = h.msg
     /\ InFlight(c) =>
          /\ h.msg \in Messages
          /\ h.op # "none"
          /\ h.op \in {"edit", "delete"} =>
               row.state # "none" /\ row.sender = h.user

Unsent(c) == call[c].op = "send" /\ pc[c] \in {"touch", "insert"}

\* A message has one sender: its time has been on the clock, and no other call
\* is about to insert it.
OneSender ==
  /\ \A m \in Messages : message[m].state # "none" => m < Clock
  /\ \A c \in Calls : Unsent(c) =>
       /\ call[c].msg < Clock
       /\ message[call[c].msg].state = "none"
       /\ \A d \in Calls \ {c} : Unsent(d) => call[d].msg # call[c].msg

\* A call by itself: nobody has changed what it has read.
OneAtATime ==
  alone =>
    \A c \in Calls : InFlight(c) =>
      /\ \A d \in Calls \ {c} : ~InFlight(d)
      /\ pc[c] = "write" => call[c].read = message[call[c].msg].read

\* The inductive invariant of ChatProofs.
Inv == TypeOK /\ (\A c \in Calls : Phase(c)) /\ OneSender /\ OneAtATime

\* The call has written one of lastAt and the messages, and not yet the other.
HalfDone(c) ==
  \/ pc[c] = "insert"
  \/ call[c].op = "delete" /\ pc[c] \in {"latest", "touch"}

\* What lastAt is while a call by itself is being handled: the invariant of
\* InboxFollowsNewest, on top of Inv.
InboxInSteps ==
  alone =>
    /\ lastAt >= Newest
    /\ (\A c \in Calls : pc[c] # "failed" /\ ~HalfDone(c)) => lastAt = Newest
    /\ \A c \in Calls :
         /\ Unsent(c) => \A m \in There : m < call[c].msg
         /\ pc[c] = "insert" => lastAt = call[c].msg
         /\ call[c].op = "delete" /\ pc[c] = "touch" => call[c].upTo = Newest
=============================================================================
