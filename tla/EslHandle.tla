------------------------------ MODULE EslHandle ------------------------------
(***************************************************************************)
(* The client handle of the event socket (src/esl/esl.c): threads that     *)
(* send commands (esl_send_recv_timed), receive events (esl_recv_event,    *)
(* esl_recv_event_timed) and disconnect share one connection, one packet   *)
(* buffer, one queue of events that overtook a reply (race_event) and one  *)
(* recursive mutex.                                                        *)
(*                                                                         *)
(* The server sends messages as chunks: a header block, and for events and *)
(* disconnect notices a body block.  `transit' holds the chunks on their   *)
(* way, which have not arrived whole: the bytes of a block that is still   *)
(* incomplete, in the kernel or in the buffer, count as under way, because *)
(* esl_recv_event goes back to handle_recv for the rest.  A step of a      *)
(* thread ends where another thread can notice it: at a lock, an unlock, a *)
(* poll or a recv; what runs between a lock and its unlock without a poll  *)
(* is one step.  esl_disconnect, whose locks and unlocks are there for the *)
(* other threads to notice, has each of them as a step.                    *)
(***************************************************************************)
EXTENDS Integers, Sequences, FiniteSets

CONSTANTS
  Sender, Receiver, Closer,  \* the threads that make each kind of call
  Timed,       \* subset of BOOLEAN: is ms zero (FALSE) or not (TRUE)
  MaxEvents,   \* bound: events the server publishes
  MaxCommands, \* bound: commands sent
  NoThread, None

Thread == Sender \cup Receiver \cup Closer

\* A message as a call holds or queues it: its header.
Message == [part : {"header"}, kind : {"event", "reply", "notice"}, id : Nat]

ASSUME HandleAssumption ==
  /\ NoThread \notin Thread
  /\ None \notin Message
  /\ Timed \subseteq BOOLEAN
  /\ MaxEvents \in Nat /\ MaxCommands \in Nat

VARIABLES
  pc, call,       \* where each thread is, and in which call
  status,         \* the value the innermost function of the thread returns
  revent,         \* the message the thread has read and not yet handed over
  returned,       \* the command each thread got back from with success, else 0
  owner, depth,   \* the recursive mutex: its holder and its lock count
  mutex,          \* "live", or "freed" by esl_mutex_destroy
  overlap,        \* history: two esl_disconnect ran at the same time
  connected, sock,            \* handle->connected; handle->sock # ESL_SOCK_INVALID
  purged, destroyed,          \* esl_disconnect freed the events; it is done
  race_event, last_sr_event,  \* the handle's queue of overtaking events, last reply
  packet_buf,     \* the chunks received and not yet read
  transit, eof,   \* the chunks under way; the server closed its side
  commands,       \* the commands the server has not answered
  published, issued,  \* how many events were published, commands sent
  delivered       \* the events handed over by a receiving call, in order

threadVars == <<pc, call, status, revent, returned>>
mutexVars  == <<owner, depth, mutex>>
handleVars == <<connected, sock, purged, destroyed, overlap, race_event, last_sr_event,
                packet_buf>>
serverVars == <<transit, eof, commands, published, issued>>
vars == <<threadVars, mutexVars, handleVars, serverVars, delivered>>

Header(kind, id) == [part |-> "header", kind |-> kind, id |-> id]
Body(kind, id)   == [part |-> "body", kind |-> kind, id |-> id]
Event(n) == Header("event", n)
Reply(c) == Header("reply", c)
Notice   == Header("notice", 0)

\* A call: its arguments, whether it got the lock by trylock, and whether the
\* handle was up when it began (which no code reads).
NoCall == [op |-> "none", timed |-> FALSE, tried |-> FALSE, cmd |-> 0, up |-> FALSE]

\* handle->connected && handle->sock != ESL_SOCK_INVALID
Up == connected /\ sock

SavesEvent(t)  == call[t].op = "send_recv"   \* save_event # NULL
ChecksQueue(t) == call[t].op = "recv"        \* check_q
-----------------------------------------------------------------------------
(* The recursive mutex and the flow of control.                             *)

\* The mutex as t finds it: esl_disconnect has a copy of the pointer, the other
\* calls read handle->mutex, which the wipe sets to NULL.
Usable(t) == mutex = "live" /\ (destroyed => call[t].op = "disconnect")

Free(t)   == Usable(t) /\ owner \in {t, NoThread}
Lock(t)   == Free(t) /\ owner' = t /\ depth' = depth + 1 /\ UNCHANGED mutex
Unlock(t) == /\ Usable(t)
             /\ depth' = depth - 1
             /\ owner' = IF depth = 1 THEN NoThread ELSE owner
             /\ UNCHANGED mutex

Goto(t, label) == pc' = [pc EXCEPT ![t] = label]
At(t, label)   == pc[t] = label

\* The call of t returns s to the program.
Finish(t, s) ==
  /\ Goto(t, "idle")
  /\ returned' = [returned EXCEPT ![t] = IF s = "success" THEN call[t].cmd ELSE 0]
  /\ call' = [call EXCEPT ![t] = NoCall]
  /\ status' = [status EXCEPT ![t] = "success"]

Begin(t, op, timed, cmd, label) ==
  /\ Goto(t, label)
  /\ call' = [call EXCEPT ![t] = [op |-> op, timed |-> timed, tried |-> FALSE,
                                  cmd |-> cmd, up |-> Up]]
  /\ returned' = [returned EXCEPT ![t] = 0]
  /\ UNCHANGED revent

\* Inside a call: go on at label.
Continue(t, label) == Goto(t, label) /\ UNCHANGED <<call, status, returned>>

\* esl_recv_event_timed returns s to its caller.
TimedReturn(t, s) ==
  \/ /\ call[t].op = "recv"
     /\ Finish(t, s)
  \/ /\ call[t].op = "send_recv"
     /\ Goto(t, "sr_check")
     /\ status' = [status EXCEPT ![t] = s]
     /\ call' = [call EXCEPT ![t].tried = FALSE]
     /\ UNCHANGED returned

\* esl_recv_event returns s to its caller.
EventReturn(t, s) ==
  \/ /\ call[t].tried
     /\ Goto(t, "rt_unlock")
     /\ status' = [status EXCEPT ![t] = s]
     /\ UNCHANGED <<call, returned>>
  \/ /\ ~call[t].tried
     /\ TimedReturn(t, s)
-----------------------------------------------------------------------------
(* esl_send_recv_timed                                                      *)

SendRecv(t, timed) ==
  /\ At(t, "idle")
  /\ \/ /\ ~Up
        /\ returned' = [returned EXCEPT ![t] = 0]
        /\ UNCHANGED <<pc, call, status, revent, mutexVars, handleVars, serverVars,
                       delivered>>
     \/ /\ Up
        /\ issued < MaxCommands
        /\ issued' = issued + 1
        /\ Begin(t, "send_recv", timed, issued + 1, "sr_lock")
        /\ UNCHANGED <<status, mutexVars, handleVars, transit, eof, commands, published,
                       delivered>>

\* Lock, look again, send.  Once the server is gone send() may fail.
Send(t) ==
  /\ At(t, "sr_lock")
  /\ Lock(t)
  /\ Up
  /\ last_sr_event' = None
  /\ commands' = Append(commands, call[t].cmd)
  /\ Continue(t, "sr_recv")
  /\ UNCHANGED <<revent, connected, sock, purged, destroyed, overlap, race_event, packet_buf,
                 transit, eof, published, issued, delivered>>

SendFails(t) ==
  /\ At(t, "sr_lock")
  /\ Free(t)
  /\ ~Up \/ eof
  /\ connected' = FALSE
  /\ last_sr_event' = IF Up THEN None ELSE last_sr_event
  /\ Finish(t, "fail")
  /\ UNCHANGED <<revent, mutexVars, sock, purged, destroyed, overlap, race_event, packet_buf,
                 serverVars, delivered>>

\* The label recv: forget the previous message and read the next.
AwaitReply(t) ==
  /\ At(t, "sr_recv")
  /\ last_sr_event' = None
  /\ Continue(t, IF call[t].timed THEN "rt_enter" ELSE "re_enter")
  /\ UNCHANGED <<revent, mutexVars, connected, sock, purged, destroyed, overlap, race_event,
                 packet_buf, serverVars, delivered>>

\* Mutant: any message counts as the reply.
IsAnything(m) == m # None

IsReply(m) == m # None /\ m.kind = "reply"

\* Mutant: the event takes the place of the whole queue.
OvertakenReplacing(t) ==
  /\ At(t, "sr_check")
  /\ last_sr_event # None /\ ~IsReply(last_sr_event)
  /\ race_event' = <<last_sr_event>>
  /\ last_sr_event' = None
  /\ Unlock(t)
  /\ Continue(t, "sr_relock")
  /\ UNCHANGED <<revent, connected, sock, purged, destroyed, overlap, packet_buf, serverVars,
                 delivered>>

\* An event that overtook the reply goes to the end of race_event; the lock
\* is given up for a moment before the next message is read.
Overtaken(t) ==
  /\ At(t, "sr_check")
  /\ last_sr_event # None /\ ~IsReply(last_sr_event)
  /\ race_event' = Append(race_event, last_sr_event)
  /\ last_sr_event' = None
  /\ Unlock(t)
  /\ Continue(t, "sr_relock")
  /\ UNCHANGED <<revent, connected, sock, purged, destroyed, overlap, packet_buf, serverVars,
                 delivered>>

SendRecvReturns(t) ==
  /\ At(t, "sr_check")
  /\ last_sr_event = None \/ IsReply(last_sr_event)
  /\ Unlock(t)
  /\ Finish(t, status[t])
  /\ UNCHANGED <<revent, handleVars, serverVars, delivered>>

Relock(t) ==
  /\ At(t, "sr_relock")
  /\ Lock(t)
  /\ Up
  /\ Continue(t, "sr_recv")
  /\ UNCHANGED <<revent, handleVars, serverVars, delivered>>

RelockFails(t) ==
  /\ At(t, "sr_relock")
  /\ Free(t)
  /\ ~Up
  /\ connected' = FALSE
  /\ Finish(t, "fail")
  /\ UNCHANGED <<revent, mutexVars, sock, purged, destroyed, overlap, race_event,
                 last_sr_event, packet_buf, serverVars, delivered>>
-----------------------------------------------------------------------------
(* esl_recv_event_timed, for a call with ms > 0                             *)

Recv(t, timed) ==
  /\ At(t, "idle")
  /\ Begin(t, "recv", timed, 0, IF timed THEN "rt_enter" ELSE "re_enter")
  /\ UNCHANGED <<status, mutexVars, handleVars, serverVars, delivered>>

TimedEnter(t) ==
  /\ At(t, "rt_enter")
  /\ \/ ~Up /\ TimedReturn(t, "fail")
     \/ Up /\ Continue(t, IF ChecksQueue(t) THEN "rt_queue" ELSE "rt_poll")
  /\ UNCHANGED <<revent, mutexVars, handleVars, serverVars, delivered>>

\* A look, under the lock, whether a message can be had without the socket.
LookAtQueue(t) ==
  /\ At(t, "rt_queue")
  /\ Free(t)
  /\ Continue(t, IF race_event # <<>> \/ packet_buf # <<>> THEN "re_enter"
                 ELSE "rt_poll")
  /\ UNCHANGED <<revent, mutexVars, handleVars, serverVars, delivered>>

\* The poll, without the lock: something to read, the time is up, or the
\* socket was closed by esl_disconnect.
PollReadable(t) ==
  /\ At(t, "rt_poll")
  /\ packet_buf # <<>> \/ (sock /\ (transit # <<>> \/ eof))
  /\ Continue(t, "rt_trylock")
  /\ UNCHANGED <<revent, mutexVars, handleVars, serverVars, delivered>>

PollTimesOut(t) ==
  /\ At(t, "rt_poll")
  /\ packet_buf = <<>> /\ sock /\ ~(eof /\ transit = <<>>)
  /\ TimedReturn(t, "break")
  /\ UNCHANGED <<revent, mutexVars, handleVars, serverVars, delivered>>

PollFails(t) ==
  /\ At(t, "rt_poll")
  /\ packet_buf = <<>> /\ ~sock
  /\ connected' = FALSE
  /\ TimedReturn(t, "fail")
  /\ UNCHANGED <<revent, mutexVars, sock, purged, destroyed, overlap, race_event,
                 last_sr_event, packet_buf, serverVars, delivered>>

TryLock(t) ==
  /\ At(t, "rt_trylock")
  /\ \/ /\ Lock(t)
        /\ Goto(t, "re_enter")
        /\ call' = [call EXCEPT ![t].tried = TRUE]
        /\ UNCHANGED <<status, returned>>
     \/ /\ Usable(t) /\ ~Free(t)
        /\ TimedReturn(t, "break")
        /\ UNCHANGED mutexVars
  /\ UNCHANGED <<revent, handleVars, serverVars, delivered>>

\* Mutant: the lock of the trylock is not released.
TimedKeepsLock(t) ==
  /\ At(t, "rt_unlock")
  /\ TimedReturn(t, status[t])
  /\ UNCHANGED <<revent, mutexVars, handleVars, serverVars, delivered>>

TimedUnlock(t) ==
  /\ At(t, "rt_unlock")
  /\ Unlock(t)
  /\ TimedReturn(t, status[t])
  /\ UNCHANGED <<revent, handleVars, serverVars, delivered>>
-----------------------------------------------------------------------------
(* esl_recv_event                                                           *)

\* Mutant: no look at the connection before the lock.
EventEnterUnchecked(t) ==
  /\ At(t, "re_enter")
  /\ Continue(t, "re_lock")
  /\ UNCHANGED <<revent, mutexVars, handleVars, serverVars, delivered>>

EventEnter(t) ==
  /\ At(t, "re_enter")
  /\ \/ ~Up /\ EventReturn(t, "fail")
     \/ Up /\ Continue(t, "re_lock")
  /\ UNCHANGED <<revent, mutexVars, handleVars, serverVars, delivered>>

\* Mutant: the connection is not looked at again under the lock.
EventLockUnchecked(t) ==
  /\ At(t, "re_lock")
  /\ Lock(t)
  /\ \/ /\ ChecksQueue(t) /\ race_event # <<>>
        /\ revent' = [revent EXCEPT ![t] = Head(race_event)]
        /\ race_event' = Tail(race_event)
        /\ Continue(t, "re_parse")
     \/ /\ ~(ChecksQueue(t) /\ race_event # <<>>)
        /\ Continue(t, "re_loop")
        /\ UNCHANGED <<revent, race_event>>
  /\ UNCHANGED <<connected, sock, purged, destroyed, overlap, last_sr_event, packet_buf,
                 serverVars, delivered>>

\* Mutant: the socket is read before the queue.
EventLockSocketFirst(t) ==
  /\ At(t, "re_lock")
  /\ Lock(t)
  /\ Continue(t, IF Up THEN "re_loop" ELSE "re_fail")
  /\ UNCHANGED <<revent, handleVars, serverVars, delivered>>

\* Lock, look again; a receiving call first takes the oldest queued event.
EventLock(t) ==
  /\ At(t, "re_lock")
  /\ Lock(t)
  /\ \/ /\ ~Up
        /\ Continue(t, "re_fail")
        /\ UNCHANGED <<revent, race_event>>
     \/ /\ Up /\ ChecksQueue(t) /\ race_event # <<>>
        /\ revent' = [revent EXCEPT ![t] = Head(race_event)]
        /\ race_event' = Tail(race_event)
        /\ Continue(t, "re_parse")
     \/ /\ Up /\ ~(ChecksQueue(t) /\ race_event # <<>>)
        /\ Continue(t, "re_loop")
        /\ UNCHANGED <<revent, race_event>>
  /\ UNCHANGED <<connected, sock, purged, destroyed, overlap, last_sr_event, packet_buf,
                 serverVars, delivered>>

HasBody(m) == m.kind \in {"event", "notice"}

\* The next packet of the buffer.
ReadHeader(t) ==
  /\ At(t, "re_loop")
  /\ connected /\ packet_buf # <<>>
  /\ revent' = [revent EXCEPT ![t] = Head(packet_buf)]
  /\ packet_buf' = Tail(packet_buf)
  /\ Continue(t, IF HasBody(Head(packet_buf)) THEN "re_body" ELSE "re_parse")
  /\ UNCHANGED <<mutexVars, connected, sock, purged, destroyed, overlap, race_event,
                 last_sr_event, serverVars, delivered>>

ReadBody(t) ==
  /\ At(t, "re_body")
  /\ packet_buf # <<>>
  /\ packet_buf' = Tail(packet_buf)
  /\ Continue(t, "re_parse")
  /\ UNCHANGED <<revent, mutexVars, connected, sock, purged, destroyed, overlap, race_event,
                 last_sr_event, serverVars, delivered>>

Reading(t) == pc[t] \in {"re_loop", "re_body"}

\* handle_recv: its poll may time out any number of times before recv()
\* returns the chunks that have arrived.
Receive(t) ==
  /\ Reading(t)
  /\ packet_buf = <<>> /\ Up
  /\ \E k \in 1..Len(transit) :
       /\ packet_buf' = SubSeq(transit, 1, k)
       /\ transit' = SubSeq(transit, k + 1, Len(transit))
  /\ UNCHANGED <<threadVars, mutexVars, connected, sock, purged, destroyed, overlap, race_event,
                 last_sr_event, eof, commands, published, issued, delivered>>

\* Mutant: a recv() of zero bytes is taken for a time out.
ReceiveMissesEof(t) ==
  /\ Reading(t)
  /\ \/ packet_buf = <<>> /\ ~Up
     \/ At(t, "re_loop") /\ ~connected
  /\ revent' = [revent EXCEPT ![t] = None]
  /\ Continue(t, "re_fail")
  /\ UNCHANGED <<mutexVars, handleVars, serverVars, delivered>>

\* handle_recv fails, or the loop ends because the connection is down.
ReceiveFails(t) ==
  /\ Reading(t)
  /\ \/ packet_buf = <<>> /\ (~Up \/ (eof /\ transit = <<>>))
     \/ At(t, "re_loop") /\ ~connected
  /\ revent' = [revent EXCEPT ![t] = None]
  /\ Continue(t, "re_fail")
  /\ UNCHANGED <<mutexVars, handleVars, serverVars, delivered>>

\* parse_event with save_event: the message becomes handle->last_sr_event.
Save(t) ==
  /\ At(t, "re_parse")
  /\ SavesEvent(t)
  /\ last_sr_event' = revent[t]
  /\ revent' = [revent EXCEPT ![t] = None]
  /\ Unlock(t)
  /\ EventReturn(t, "success")
  /\ UNCHANGED <<connected, sock, purged, destroyed, overlap, race_event, packet_buf,
                 serverVars, delivered>>

\* parse_event without: the program gets the message; a disconnect notice
\* makes the call fail.
HandOver(t) ==
  /\ At(t, "re_parse")
  /\ ~SavesEvent(t)
  /\ delivered' = IF revent[t].kind = "event" THEN Append(delivered, revent[t].id)
                  ELSE delivered
  /\ revent' = [revent EXCEPT ![t] = None]
  /\ \/ /\ revent[t].kind = "notice"
        /\ Continue(t, "re_fail")
        /\ UNCHANGED mutexVars
     \/ /\ revent[t].kind # "notice"
        /\ Unlock(t)
        /\ EventReturn(t, "success")
  /\ UNCHANGED <<handleVars, serverVars>>

\* fail: unlock first, mark the handle as not connected afterwards.
FailUnlock(t) ==
  /\ At(t, "re_fail")
  /\ Unlock(t)
  /\ Continue(t, "re_dead")
  /\ UNCHANGED <<revent, handleVars, serverVars, delivered>>

MarkDead(t) ==
  /\ At(t, "re_dead")
  /\ connected' = FALSE
  /\ EventReturn(t, "fail")
  /\ UNCHANGED <<revent, mutexVars, sock, purged, destroyed, overlap, race_event,
                 last_sr_event, packet_buf, serverVars, delivered>>
-----------------------------------------------------------------------------
(* esl_disconnect                                                           *)

\* esl_disconnect looks at destroyed alone, which is set at its very end: two
\* threads can be in it at the same time.  Where destroyed is set it returns and
\* changes nothing.  Its status says who closed the socket.
Disconnects(t) ==
  /\ At(t, "idle")
  /\ ~destroyed
  /\ Begin(t, "disconnect", FALSE, 0, "dc_lock")
  /\ status' = [status EXCEPT ![t] = IF sock THEN "success" ELSE "fail"]
  /\ overlap' = (overlap \/ \E u \in Thread : call[u].op = "disconnect")
  /\ UNCHANGED <<mutexVars, connected, purged, destroyed, race_event, last_sr_event,
                 packet_buf, serverVars, delivered>>

\* Mutant: the socket is left open until the lock is taken.
DisconnectKeepingSocket(t) == Disconnects(t) /\ UNCHANGED sock

\* The socket is closed before the lock is taken, so that a thread that polls
\* under the lock lets go of it.
Disconnect(t) == Disconnects(t) /\ sock' = FALSE

\* race_event points at events that were freed.
Dangling == purged /\ race_event # <<>>

\* The events are freed; race_event still points at them.
Purge(t) ==
  /\ At(t, "dc_lock")
  /\ Lock(t)
  /\ ~Dangling
  /\ connected' = FALSE /\ purged' = TRUE /\ last_sr_event' = None
  /\ Continue(t, "dc_unlock")
  /\ UNCHANGED <<revent, sock, destroyed, overlap, race_event, packet_buf, serverVars,
                 delivered>>

\* Unlock, lock and unlock: whoever waits for the mutex gets a turn.
Drain(t) ==
  /\ \/ At(t, "dc_unlock") /\ Unlock(t) /\ Continue(t, "dc_relock")
     \/ At(t, "dc_relock") /\ Lock(t) /\ Continue(t, "dc_reunlock")
     \/ At(t, "dc_reunlock") /\ Unlock(t) /\ Continue(t, "dc_destroy")
  /\ UNCHANGED <<revent, handleVars, serverVars, delivered>>

\* The mutex is destroyed without being held.  To destroy one that a thread
\* holds is undefined: the C library may refuse, and then it is left.
FreeMutex(t) ==
  /\ At(t, "dc_destroy")
  /\ mutex = "live"
  /\ mutex' \in IF owner = NoThread THEN {"freed"} ELSE {"freed", "live"}
  /\ Continue(t, "dc_wipe")
  /\ UNCHANGED <<revent, owner, depth, handleVars, serverVars, delivered>>

\* memset(handle, 0): the socket is now descriptor 0, and the mutex NULL.
Wipe(t) ==
  /\ At(t, "dc_wipe")
  /\ connected' = FALSE /\ sock' = TRUE /\ destroyed' = TRUE
  /\ race_event' = <<>> /\ last_sr_event' = None /\ packet_buf' = <<>>
  /\ Finish(t, status[t])
  /\ UNCHANGED <<revent, mutexVars, purged, overlap, serverVars, delivered>>

\* Where the next thing a thread does is to lock, to unlock or to destroy.
AtMutex == {"sr_lock", "sr_relock", "rt_queue", "rt_trylock", "re_lock", "dc_lock",
            "dc_relock", "sr_check", "rt_unlock", "re_parse", "re_fail", "dc_unlock",
            "dc_reunlock", "dc_destroy"}

\* Undefined: a thread uses the mutex after it was freed, or frees the events
\* once more.
Crash(t) ==
  /\ \/ pc[t] \in AtMutex /\ ~Usable(t)
     \/ At(t, "dc_lock") /\ Free(t) /\ Dangling
  /\ Continue(t, "crashed")
  /\ UNCHANGED <<revent, mutexVars, handleVars, serverVars, delivered>>
-----------------------------------------------------------------------------
(* The server.                                                              *)

Sends(chunks) == transit' = transit \o chunks

Publish ==
  /\ published < MaxEvents /\ ~eof
  /\ published' = published + 1
  /\ Sends(<<Event(published'), Body("event", published')>>)
  /\ UNCHANGED <<threadVars, mutexVars, handleVars, eof, commands, issued, delivered>>

Answer ==
  /\ commands # <<>> /\ ~eof
  /\ Sends(<<Reply(Head(commands))>>)
  /\ commands' = Tail(commands)
  /\ UNCHANGED <<threadVars, mutexVars, handleVars, eof, published, issued, delivered>>

\* The server ends the session with a notice, or just goes away.
Hangup ==
  /\ ~eof
  /\ eof' = TRUE
  /\ \E last \in {<<>>, <<Notice, Body("notice", 0)>>} : Sends(last)
  /\ UNCHANGED <<threadVars, mutexVars, handleVars, commands, published, issued,
                 delivered>>
-----------------------------------------------------------------------------
Init ==
  /\ pc = [t \in Thread |-> "idle"]
  /\ call = [t \in Thread |-> NoCall]
  /\ status = [t \in Thread |-> "success"]
  /\ revent = [t \in Thread |-> None]
  /\ returned = [t \in Thread |-> 0]
  /\ owner = NoThread /\ depth = 0 /\ mutex = "live"
  /\ connected = TRUE /\ sock = TRUE
  /\ purged = FALSE /\ destroyed = FALSE /\ overlap = FALSE
  /\ race_event = <<>> /\ last_sr_event = None /\ packet_buf = <<>>
  /\ transit = <<>> /\ eof = FALSE /\ commands = <<>>
  /\ published = 0 /\ issued = 0
  /\ delivered = <<>>

\* The steps of a thread inside a call.
Step(t) ==
  \/ Send(t) \/ SendFails(t) \/ AwaitReply(t) \/ Overtaken(t)
  \/ SendRecvReturns(t) \/ Relock(t) \/ RelockFails(t)
  \/ TimedEnter(t) \/ LookAtQueue(t)
  \/ PollReadable(t) \/ PollTimesOut(t) \/ PollFails(t)
  \/ TryLock(t) \/ TimedUnlock(t)
  \/ EventEnter(t) \/ EventLock(t) \/ ReadHeader(t) \/ ReadBody(t)
  \/ Receive(t) \/ ReceiveFails(t) \/ Save(t) \/ HandOver(t)
  \/ FailUnlock(t) \/ MarkDead(t)
  \/ Purge(t) \/ Drain(t) \/ FreeMutex(t) \/ Wipe(t) \/ Crash(t)

Calls ==
  \/ \E t \in Sender, timed \in Timed : SendRecv(t, timed)
  \/ \E t \in Receiver, timed \in Timed : Recv(t, timed)
  \/ \E t \in Closer : Disconnect(t)

Server == Publish \/ Answer \/ Hangup

Next == Calls \/ (\E t \in Thread : Step(t)) \/ Server

\* A running thread is scheduled, and what is under way arrives; the server
\* answers the commands it reads.  Nobody has to make a call, no event has to
\* be published and no session has to end.
Fairness ==
  /\ \A t \in Thread : WF_vars(Step(t))
  /\ WF_vars(Answer)

Spec == Init /\ [][Next]_vars /\ Fairness
-----------------------------------------------------------------------------
(* Properties.                                                              *)

Label == {"idle", "crashed", "sr_lock", "sr_recv", "sr_check", "sr_relock",
          "rt_enter", "rt_queue", "rt_poll", "rt_trylock", "rt_unlock",
          "re_enter", "re_lock", "re_loop", "re_body", "re_parse", "re_fail",
          "re_dead", "dc_lock", "dc_unlock", "dc_relock", "dc_reunlock",
          "dc_destroy", "dc_wipe"}

Status == {"success", "fail", "break"}

\* How often a thread holds the recursive mutex, by where it is: once for a
\* command that waits for its reply, once for a timed receive that got the
\* lock by trylock, once while esl_recv_event reads or esl_disconnect frees.
LevelsAt(label, c) ==
  (IF c.op = "send_recv" /\ label \notin {"sr_lock", "sr_relock", "crashed"}
   THEN 1 ELSE 0)
  + (IF c.tried THEN 1 ELSE 0)
  + (IF label \in {"re_loop", "re_body", "re_parse", "re_fail", "dc_unlock",
                   "dc_reunlock"} THEN 1 ELSE 0)

Levels(t) == LevelsAt(pc[t], call[t])

\* The lock count is balanced along every path, early returns included: it is
\* what the position of its owner says, nobody else holds the lock, and so a
\* thread that has returned to the program holds nothing.  It is claimed until
\* the mutex is destroyed.
LockBalanced ==
  mutex = "live" /\ ~destroyed =>
    /\ \A t \in Thread : Levels(t) = IF owner = t THEN depth ELSE 0
    /\ owner = NoThread <=> depth = 0

\* Events are delivered in order, once, without a gap, until esl_disconnect
\* frees the queue.
Stream == INSTANCE EventStream WITH open <- ~purged
EventRefinement == Stream!StreamSpec

IsEvent(m) == m.part = "header" /\ m.kind = "event"

\* The events of s are the ones from a + 1 to b, each once and in order.
Carries(s, a, b) ==
  LET at == {i \in DOMAIN s : IsEvent(s[i])}
  IN  /\ {s[i].id : i \in at} = a + 1 .. b
      /\ \A i, j \in at : i < j => s[i].id < s[j].id

Held(op) == {t \in Thread : call[t].op = op /\ revent[t] # None}
InHand(op) == IF Held(op) = {} THEN <<>> ELSE <<revent[CHOOSE t \in Held(op) : TRUE]>>
Saved == IF last_sr_event = None THEN <<>> ELSE <<last_sr_event>>

\* The way of the messages from the server to the program, its end first: the
\* one a receiver holds, the overtaking ones, the one a sender holds, the
\* buffered ones and those under way.
Line == InHand("recv") \o race_event \o InHand("send_recv") \o Saved \o packet_buf \o transit

\* While the connection is up no event is lost, repeated or reordered between
\* the server and the program: the delivered ones are the first, and the others
\* are on their way.
EventsConserved ==
  Up =>
    /\ delivered = [n \in 1 .. Len(delivered) |-> n]
    /\ Carries(Line, Len(delivered), published)

\* "This will send a command and place its response event on
\* handle->last_sr_event" (esl.h): the reply is the one to this command.
OwnReply ==
  \A t \in Thread :
    returned[t] # 0 => last_sr_event = Reply(returned[t])

\* "Maximum time to poll" (esl.h): a timed receive does not wait for the
\* socket once more after its own poll.
TimedPollsOnce ==
  \A t \in Thread : ~(call[t].timed /\ At(t, "re_body") /\ packet_buf = <<>>)

LeavesQueue == delivered' = delivered /\ (race_event' = race_event \/ destroyed')

\* The step frees the events of the queue.
FreesEvents == \E t \in Closer : At(t, "dc_lock") /\ pc'[t] # "dc_lock" /\ race_event # <<>>

\* After esl_disconnect freed the queued events nobody takes one of them, adds
\* one or is handed one, although race_event still points at them; and nobody
\* frees them again, unless two esl_disconnect ran at the same time.
PurgedUntouched == [][purged => LeavesQueue /\ (FreesEvents => overlap)]_vars

\* A call that begins once esl_disconnect has closed the socket never reaches
\* the freed mutex: only calls that were already running can, and a disconnect
\* only if it overlapped another one.
LateCallsSafe ==
  \A t \in Thread :
    At(t, "crashed") => IF call[t].op = "disconnect" THEN overlap ELSE call[t].up

\* A command whose server answers or closes returns to the program.
SendRecvTerminates ==
  \A t \in Sender : call[t].op = "send_recv" ~> At(t, "idle")

\* Closing the socket before taking the lock is enough: a thread that waits
\* under the lock for a silent server cannot keep esl_disconnect out.  Where two
\* of them overlap, one may end in undefined behaviour.
DisconnectTerminates ==
  \A t \in Closer :
    At(t, "dc_lock") ~>
      destroyed \/ \E u \in Closer : At(u, "crashed") /\ call[u].op = "disconnect"
=============================================================================
