------------------------------ MODULE ChatPage ------------------------------
(***************************************************************************)
(* The page of one chat in one tab (messages/[chatId].tsx) with ChatLog as *)
(* the server: the first load, the poll every five seconds, the events of  *)
(* the hub and the answers to the user's own calls all change one list.    *)
(*                                                                         *)
(* A task of the event loop is one step.  State updates are functions of   *)
(* the state before, so "list" is the state with all of them applied; the  *)
(* refs follow it in an effect, after the next render.  The tab is visible *)
(* and stays on this chat; the chat has fewer than the 50 messages that    *)
(* one fetch brings, and is among the 100 chats that the page asks for     *)
(* first, in the same call here as its messages.  Contents are left out:   *)
(* of what an edit does, the is_read it writes is kept.                    *)
(***************************************************************************)
EXTENDS ChatLog, SequencesExt

CONSTANTS
  Me,        \* the user of the tab
  MaxCalls   \* bound: sends, edits, deletes and marks, the page's marks apart

ASSUME PageAssumption ==
  MaxMessages \in Nat /\ MaxCalls \in Nat /\ Me \in Users

VARIABLES
  calls,   \* how many calls have been made
  wire,    \* events on their way to the page, in order
  list,    \* messages: what the page shows
  drawn,   \* messagesRef.current
  lastRef, \* lastMessageIdRef.current, 0 for null
  fetch,   \* getMessages of the first load and of fetchLatest
  marks,   \* calls of markAsRead on their way
  waiting, \* changes the user has made whose answer the page awaits
  view,    \* what is rendered: a spinner, the list, or the card of an error
  opening  \* the mark that loadChat awaits, 0 for none

openVars == <<view, opening>>
vars == <<logVars, calls, wire, list, drawn, lastRef, fetch, marks, waiting, openVars>>

-----------------------------------------------------------------------------
Shown == [msg : Messages, read : BOOLEAN]
Lists == Seq(Shown)
Fetches == {"load", "poll"}

\* What the page may hold: it marks and shows messages of the chat, and refers
\* to no other.
TypeOK ==
  /\ message \in [Messages -> Rows] /\ owed \subseteq Events
  /\ calls \in 0..MaxCalls
  /\ wire \in Seq(Events)
  /\ list \in Lists /\ drawn \in Lists
  /\ lastRef \in Messages \cup {0}
  /\ fetch \in [Fetches -> [phase : {"idle", "asked", "answered", "done"},
                            rows : Lists]]
  /\ marks \subseteq Messages
  /\ waiting \subseteq Events
  /\ view \in {"loading", "shown", "error"} /\ opening \in Messages \cup {0}

\* The k-th of a set of numbers.
Nth(S, k) == CHOOSE n \in S : Cardinality({i \in S : i <= n}) = k

\* The server reads the messages for a fetch; the page sorts them.
Served ==
  [k \in 1..Cardinality(There) |->
     LET m == Nth(There, k) IN [msg |-> m, read |-> message[m].read]]

\* The model starts when the first load has been served: everything else may
\* still come before its answer.
Init ==
  /\ LogInit /\ \A m \in There : ~message[m].read
  /\ calls = 0
  /\ wire = <<>>
  /\ list = <<>> /\ drawn = <<>> /\ lastRef = 0
  /\ fetch = [f \in Fetches |->
                IF f = "load" THEN [phase |-> "answered", rows |-> Served]
                ELSE [phase |-> "idle", rows |-> <<>>]]
  /\ marks = {} /\ waiting = {}
  /\ view = "loading" /\ opening = 0

\* Array.sort: the place of a row is how many are not after it.
Upto(rows, i) ==
  {j \in DOMAIN rows :
     \/ rows[j].msg < rows[i].msg
     \/ rows[j].msg = rows[i].msg /\ j <= i}
ByTime(rows) ==
  [k \in DOMAIN rows |->
     rows[CHOOSE i \in DOMAIN rows : Cardinality(Upto(rows, i)) = k]]

LastId(rows) == IF rows = <<>> THEN 0 ELSE Last(rows).msg
Ids(rows) == {rows[i].msg : i \in DOMAIN rows}

\* Mutated: also when there is none.
MarkAsReadAnyway(m) == marks' = marks \cup {m}

\* The page marks what it received as read, up to message m if there is one,
\* and does not look at what becomes of the call; loadChat alone does.
MarkAsRead(m) == marks' = marks \cup ({m} \ {0})

LastIncoming(rows) ==
  LET incoming == {m \in Ids(rows) : message[m].sender # Me}
  IN IF incoming = {} THEN 0 ELSE Max(incoming)

-----------------------------------------------------------------------------
\* The timer of fetchLatest.  A fetch that is under way is not doubled.
PollStart ==
  /\ fetch["poll"].phase = "idle"
  /\ fetch' = [fetch EXCEPT !["poll"].phase = "asked"]
  /\ UNCHANGED <<logVars, calls, wire, list, drawn, lastRef, marks, waiting, openVars>>

PollServed ==
  /\ fetch["poll"].phase = "asked"
  /\ fetch' = [fetch EXCEPT !["poll"] = [phase |-> "answered", rows |-> Served]]
  /\ UNCHANGED <<logVars, calls, wire, list, drawn, lastRef, marks, waiting, openVars>>

Settled(f) ==
  fetch' = [fetch EXCEPT
              ![f] = [phase |-> IF f = "load" THEN "done" ELSE "idle",
                      rows |-> <<>>]]

\* setMessages(ordered) and the mark that follows.
Replace(rows) ==
  /\ list' = rows
  /\ MarkAsRead(LastIncoming(rows))

\* Mutated: only the last message is compared.
SkipsSameLatest(rows) == LastId(rows) = lastRef

\* Mutated: the number of messages is compared, not the last one.
SkipsSameLength(rows) ==
  /\ Len(drawn) = Len(rows)
  /\ \A i \in DOMAIN rows : drawn[i].read = rows[i].read

\* fetchLatest skips an answer with the last message it knows of, unless the
\* read flags have changed.
Skips(rows) ==
  /\ LastId(rows) = lastRef
  /\ ~ /\ Len(drawn) = Len(rows)
       /\ \E i \in DOMAIN rows : drawn[i].read # rows[i].read

PollArrives ==
  LET rows == fetch["poll"].rows
  IN /\ fetch["poll"].phase = "answered"
     /\ Settled("poll")
     /\ \/ Skips(rows) /\ UNCHANGED <<list, lastRef, marks>>
        \/ ~Skips(rows) /\ lastRef' = LastId(rows) /\ Replace(rows)
     /\ UNCHANGED <<logVars, calls, wire, drawn, waiting, openVars>>

\* loadChat takes what it got, and the page stays closed until what it received
\* is marked as read.
LoadArrives ==
  LET rows == fetch["load"].rows
  IN /\ fetch["load"].phase = "answered"
     /\ Settled("load")
     /\ list' = rows
     /\ opening' = LastIncoming(rows)
     /\ view' = IF LastIncoming(rows) = 0 THEN "shown" ELSE "loading"
     /\ UNCHANGED <<logVars, calls, wire, drawn, lastRef, marks, waiting>>

\* A fetch fails, whether or not the server has seen it.  fetchLatest ignores
\* it; loadChat shows an error, and nothing takes it away.
FetchFails(f) ==
  /\ fetch[f].phase = "answered"
  /\ Settled(f)
  /\ view' = IF f = "load" THEN "error" ELSE view
  /\ UNCHANGED <<logVars, calls, wire, list, drawn, lastRef, marks, waiting, opening>>

\* The effect after a render: the refs follow the state.
Effect ==
  /\ drawn # list \/ lastRef # LastId(list)
  /\ drawn' = list
  /\ lastRef' = LastId(list)
  /\ UNCHANGED <<logVars, calls, wire, list, fetch, marks, waiting, openVars>>

-----------------------------------------------------------------------------
\* Mutated: attachMessage trusts that no event comes twice.
AttachedAlways(m, read) == ByTime(Append(list, [msg |-> m, read |-> read]))

\* attachMessage.
Attached(m, read) ==
  IF m \in Ids(list) THEN list
  ELSE ByTime(Append(list, [msg |-> m, read |-> read]))

Updated(m, read) ==
  [i \in DOMAIN list |->
     IF list[i].msg = m THEN [list[i] EXCEPT !.read = read] ELSE list[i]]

Without(m) ==
  LET kept == {i \in DOMAIN list : list[i].msg # m}
  IN [k \in 1..Cardinality(kept) |-> list[Nth(kept, k)]]

\* attachRead: everything the user has sent.
AllRead ==
  [i \in DOMAIN list |->
     IF message[list[i].msg].sender = Me THEN [list[i] EXCEPT !.read = TRUE]
     ELSE list[i]]

\* The handlers of the hub's events.  attachRead also calls fetchLatest, which
\* asks unless it is waiting for an answer.
Handled(e) ==
  /\ list' = CASE e.kind = "new" -> Attached(e.msg, e.read)
               [] e.kind = "updated" -> Updated(e.msg, e.read)
               [] e.kind = "deleted" -> Without(e.msg)
               [] e.kind = "read" -> AllRead
  /\ MarkAsRead(IF e.kind = "new" /\ e.user # Me THEN e.msg ELSE 0)
  /\ fetch' = IF e.kind = "read" /\ fetch["poll"].phase = "idle"
              THEN [fetch EXCEPT !["poll"].phase = "asked"] ELSE fetch

\* An event arrives.  It may come again: the server sends it to the group of the
\* chat and to those of the users, and the connection may be in both.
OnEvent ==
  /\ wire # <<>>
  /\ wire' \in {wire, Tail(wire)}
  /\ Handled(Head(wire))
  /\ UNCHANGED <<logVars, calls, drawn, lastRef, waiting, openVars>>

\* The server sends an event; or fails to, or there is no connection.  Those
\* of the user's own reads, which the page ignores, are left out.
SendEvent(e) ==
  /\ Forget(e)
  /\ wire' = Append(wire, e)
  /\ UNCHANGED <<calls, list, drawn, lastRef, fetch, marks, waiting, openVars>>

LoseEvent(e) ==
  /\ Forget(e)
  /\ UNCHANGED <<calls, wire, list, drawn, lastRef, fetch, marks, waiting, openVars>>

\* The connection breaks, with what is on its way.  Once it is back the page
\* joins again and asks for the messages, which the timer does at any time.
Disconnect ==
  /\ wire # <<>>
  /\ wire' = <<>>
  /\ UNCHANGED <<logVars, calls, list, drawn, lastRef, fetch, marks, waiting, openVars>>

-----------------------------------------------------------------------------
Counted == calls < MaxCalls /\ calls' = calls + 1

\* The is_read an edit writes: that of the row, or of before a mark it overlaps.
\* (With two overlapping edits a read flag may also come back; left out here.)
Copied(m) == {FALSE, message[m].read}

\* A change of the user's reaches the server.  The page lets one send or edit
\* at a time; a call that never reaches it changes nothing.
Sending == \E e \in waiting : e.kind \in {"new", "updated"}

UserSends(m) == ~Sending /\ Add(Me, m) /\ waiting' = waiting \cup (owed' \ owed)
UserEdits(m, read) ==
  /\ ~Sending /\ m \in Ids(list) /\ message[m].sender = Me
  /\ Rewrite(m, read)
  /\ waiting' = waiting \cup {Event("updated", Me, m, read)}
UserDeletes(m) ==
  /\ m \in Ids(list) /\ message[m].sender = Me
  /\ Delete(m)
  /\ waiting' = waiting \cup {Event("deleted", Me, m, FALSE)}

UserCalls ==
  /\ Counted /\ view = "shown"
  /\ \E m \in Messages :
       \/ UserSends(m) \/ UserDeletes(m) \/ \E b \in Copied(m) : UserEdits(m, b)
  /\ UNCHANGED <<wire, list, drawn, lastRef, fetch, marks, openVars>>

\* The answer: a message sent is added at the end of the list, if no event or
\* fetch has brought it, one edited is replaced, one deleted taken out.
Answer(e) ==
  /\ e \in waiting \ owed
  /\ list' = CASE e.kind = "new" ->
                    IF e.msg \in Ids(list) THEN list
                    ELSE Append(list, [msg |-> e.msg, read |-> FALSE])
               [] e.kind = "updated" -> Updated(e.msg, e.read)
               [] e.kind = "deleted" -> Without(e.msg)
  /\ waiting' = waiting \ {e}
  /\ UNCHANGED <<logVars, calls, wire, drawn, lastRef, fetch, marks, openVars>>

\* The call fails after its change, or its answer is lost.
NoAnswer(e) ==
  /\ e \in waiting
  /\ waiting' = waiting \ {e}
  /\ UNCHANGED <<logVars, calls, wire, list, drawn, lastRef, fetch, marks, openVars>>

\* The other participant's clients.
OthersCall ==
  /\ Counted
  /\ \E m \in Messages :
       \/ Add(Other(Me), m) \/ Mark(Other(Me), m)
       \/ /\ message[m].sender = Other(Me)
          /\ Delete(m) \/ \E b \in Copied(m) : Rewrite(m, b)
  /\ UNCHANGED <<wire, list, drawn, lastRef, fetch, marks, waiting, openVars>>

\* What the server makes of a mark: there is no boundary without the message.
UpTo(m) == IF m \in There THEN Marked(Me, m) ELSE message

\* A mark of the page's reaches the server, or does not, or is too late.
MarkServed(m) ==
  /\ m \in marks
  /\ marks' = marks \ {m}
  /\ message' \in {message, UpTo(m)}
  /\ UNCHANGED <<owed, calls, wire, list, drawn, lastRef, fetch, waiting, openVars>>

\* The mark of loadChat is served and answered.  If it is refused, since the
\* message is gone, or fails on either way, the whole load has failed.
LoadMarked ==
  /\ opening # 0
  /\ opening' = 0
  /\ \/ opening \in There /\ message' = UpTo(opening) /\ view' = "shown"
     \/ message' \in {message, UpTo(opening)} /\ view' = "error"
  /\ UNCHANGED <<owed, calls, wire, list, drawn, lastRef, fetch, marks, waiting>>

Next ==
  \/ PollStart \/ PollServed \/ PollArrives \/ LoadArrives \/ LoadMarked
  \/ \E f \in Fetches : FetchFails(f)
  \/ Effect \/ OnEvent
  \/ \E e \in owed : SendEvent(e) \/ LoseEvent(e)
  \/ Disconnect
  \/ UserCalls \/ OthersCall
  \/ \E e \in waiting : Answer(e) \/ NoAnswer(e)
  \/ \E m \in marks : MarkServed(m)

Spec == Init /\ [][Next]_vars

\* Renders are followed by their effects, the timer ticks, not all polls fail,
\* and no event comes again and again.  Every event may be lost or late.  The
\* calls of loadChat end, since axios gives each of them a time, but may fail.
Fairness ==
  /\ WF_vars(Effect)
  /\ WF_vars(OnEvent /\ wire' = Tail(wire))
  /\ WF_vars(PollStart \/ PollServed) /\ SF_vars(PollArrives)
  /\ WF_vars(LoadArrives \/ FetchFails("load") \/ LoadMarked)

FairSpec == Spec /\ Fairness

-----------------------------------------------------------------------------
Once(rows) == \A i, j \in DOMAIN rows : rows[i].msg = rows[j].msg => i = j

\* A message is in the list once, whichever of the event, its second copy, the
\* answer to the page's own call and the fetches comes first.
NoDuplicates == Once(list)

\* The page opens, and ends up with the newest message of the chat at the end of
\* what it shows, whatever events are lost and however late a fetch answers; or
\* the first load, its mark included, has failed, and the card of its error is
\* what the page shows from then on, although the polls repair the list behind it.
NewestShown ==
  <>[] \/ view = "error"
       \/ view = "shown" /\ LastId(list) = (IF There = {} THEN 0 ELSE Max(There))

\* If the page shows the messages there are, it ends up with their read flags,
\* although an event marks everything the user has sent and answers are late.
ReceiptsSettle ==
  <>[](Ids(list) = There =>
         \A i \in DOMAIN list : list[i].read = message[list[i].msg].read)
=============================================================================
