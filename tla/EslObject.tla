------------------------------ MODULE EslObject ------------------------------
(* A connection object (ESLconnection of src/esl/esl_oop.cpp) on an attached *)
(* handle, used by one thread: what the caller gets from each method while   *)
(* the switch answers, publishes events and closes.  Messages are whole;     *)
(* EslHandle models the same functions of src/esl/esl.c lock by lock.        *)
EXTENDS Naturals, Sequences

CONSTANTS MaxCommands, \* bound: commands sent
          MaxEvents    \* bound: events published

VARIABLES
  connected, destroyed,          \* of the handle
  async_execute, \* event_lock is set and read alike, and left out
  last_sr_event, last_event,     \* the events the handle holds, None if it has none
  last_ievent, race_event,
  call,      \* the method that runs, with executeAsync's copy of async_execute
  answer,    \* what the last method returned
  delivered, \* history: the events that were returned by recvEvent, in order
  sent,      \* history: how many commands were sent
  async,     \* history: the last one had the header async
  asked,     \* history: what the caller last set async_execute to
  owed,      \* history: the caller sent without waiting and has no reply yet
  wire, closed, published, answered \* external: messages under way; what the switch did

handleVars == <<connected, destroyed, async_execute,
                last_sr_event, last_event, last_ievent, race_event>>
switchVars == <<wire, closed, published, answered>>
objectVars == <<handleVars, call, answer, delivered, sent, async, asked, owed, switchVars>>

None == [kind |-> "none", n |-> 0]
Reply(n) == [kind |-> "reply", n |-> n]
Disconnected == [kind |-> "server_disconnected", n |-> 0]

(* api, bgapi and filter return what sendRecv returns, events what sendMSG    *)
(* returns.                                                                  *)
Executes == {"execute", "executeAsync"}
Commands == Executes \cup {"sendRecv", "sendMSG", "sendEvent"}
Receives == {"recvEvent", "recvEventTimed"}
Idle == [op |-> "none", saved |-> FALSE]

ObjectInit == /\ connected = TRUE /\ destroyed = FALSE
              /\ async_execute = FALSE
              /\ last_sr_event = None /\ last_event = None
              /\ last_ievent = None /\ race_event = <<>>
              /\ call = Idle /\ answer = None /\ delivered = <<>>
              /\ sent = 0 /\ async = FALSE /\ asked = FALSE /\ owed = FALSE
              /\ wire = <<>> /\ closed = FALSE /\ published = 0 /\ answered = 0

-----------------------------------------------------------------------------
(* What the methods return, by what their function of esl.c left behind.     *)

(* A failure: the objects that report it are made by recvEvent and sendEvent. *)
Failed(op) == IF op \in {"recvEvent", "sendEvent"} THEN Disconnected ELSE None

(* A copy of the reply; sendMSG and events return a status only.             *)
Replied(op, reply) == IF op \in {"sendMSG", "events"} THEN None ELSE reply

(* handle.last_ievent ? handle.last_ievent : handle.last_event.              *)
Inner(inner, outer) == IF inner # None THEN inner ELSE outer

(* sendEvent looks at the events and not at the reply; the receive of the    *)
(* reply has freed last_ievent.  What it returns may be of any age.          *)
EventSent(outer) ==
    IF outer # None THEN [outer EXCEPT !.kind = "last"] ELSE Disconnected

Return(result) == call' = Idle /\ answer' = result

(* A mutant: executeAsync leaves the setting as it is.                       *)
RestoresNothing(op) == async_execute

(* executeAsync restores async_execute, however its command ended.           *)
Restored(op) == IF op = "executeAsync" THEN call.saved ELSE async_execute

-----------------------------------------------------------------------------
(* esl_execute, esl_sendmsg, esl_sendevent, esl_filter and esl_events build  *)
(* a message each and hand it to esl_send_recv.                              *)

(* The function finds the connection down, or cannot send.                   *)
Unsent(op) ==
    /\ call = Idle
    /\ ~connected \/ closed
    /\ answer' = Failed(op)
    /\ connected' = FALSE
    /\ last_sr_event' = IF connected THEN None ELSE last_sr_event
    /\ UNCHANGED <<destroyed, async_execute, last_event, last_ievent,
                   race_event, call, delivered, sent, async, asked, owed, switchVars>>

(* A caller that sent without waiting takes the reply before it sends again. *)
MaySend == call = Idle /\ connected /\ ~owed /\ sent < MaxCommands

Send(op) ==
    /\ MaySend
    /\ call' = [op |-> op, saved |-> async_execute]
    /\ async_execute' = (async_execute \/ op = "executeAsync")
    /\ sent' = sent + 1
    /\ async' = (op \in Executes /\ async_execute')
    /\ answer' = None
    /\ last_sr_event' = None
    /\ UNCHANGED <<connected, destroyed, last_event, last_ievent,
                   race_event, delivered, asked, owed, switchVars>>

(* send, which waits for nothing. *)
SendOnly ==
    /\ MaySend
    /\ \/ /\ sent' = sent + 1 /\ owed' = TRUE
          /\ UNCHANGED connected
       \/ /\ closed
          /\ connected' = FALSE
          /\ UNCHANGED <<sent, owed>>
    /\ answer' = None
    /\ UNCHANGED <<destroyed, async_execute, last_sr_event, last_event, last_ievent,
                   race_event, call, delivered, async, asked, switchVars>>

Awaits == call.op \in Commands

(* A message that is no reply, a disconnect notice too, joins race_event.    *)
Overtaken ==
    /\ Awaits /\ wire # <<>> /\ Head(wire).kind # "reply"
    /\ race_event' = Append(race_event, Head(wire))
    /\ wire' = Tail(wire)
    /\ last_ievent' = None
    /\ UNCHANGED <<connected, destroyed, async_execute, last_sr_event,
                   last_event, call, answer, delivered, sent, async, asked, owed,
                   closed, published, answered>>

Answer ==
    /\ Awaits /\ wire # <<>> /\ Head(wire).kind = "reply"
    /\ last_sr_event' = Head(wire)
    /\ wire' = Tail(wire)
    /\ last_ievent' = None
    /\ async_execute' = Restored(call.op)
    /\ Return(IF call.op = "sendEvent" THEN EventSent(last_event)
              ELSE Replied(call.op, Head(wire)))
    /\ UNCHANGED <<connected, destroyed, last_event, race_event,
                   delivered, sent, async, asked, owed, closed, published, answered>>

(* The switch closed: esl_recv_event fails, for a command and for recvEvent. *)
Lost ==
    /\ call # Idle /\ wire = <<>> /\ closed
    /\ Awaits \/ race_event = <<>>
    /\ connected' = FALSE
    /\ last_ievent' = None
    /\ async_execute' = Restored(call.op)
    /\ Return(Failed(call.op))
    /\ UNCHANGED <<destroyed, last_sr_event, last_event, race_event,
                   delivered, sent, async, asked, owed, switchVars>>

-----------------------------------------------------------------------------
(* recvEvent and recvEventTimed. *)

Receive(op) ==
    /\ call = Idle
    /\ IF connected THEN call' = [Idle EXCEPT !.op = op] /\ answer' = None
       ELSE Return(Failed(op))
    /\ UNCHANGED <<handleVars, delivered, sent, async, asked, owed, switchVars>>

(* A mutant: what came over the wire is taken first.                         *)
TakesWireFirst == wire = <<>>

(* check_q: the events that overtook a reply come first.                     *)
TakesQueued == race_event # <<>>

(* The packet becomes last_event and what an event holds last_ievent; a      *)
(* disconnect notice fails the call.                                         *)
Take ==
    /\ call.op \in Receives
    /\ race_event # <<>> \/ wire # <<>>
    /\ LET m == IF TakesQueued THEN Head(race_event) ELSE Head(wire) IN
       /\ race_event' = IF TakesQueued THEN Tail(race_event) ELSE race_event
       /\ wire' = IF TakesQueued THEN wire ELSE Tail(wire)
       /\ last_event' = m
       /\ last_ievent' = IF m.kind = "event" THEN [m EXCEPT !.kind = "inner"] ELSE None
       /\ owed' = (owed /\ m.kind # "reply")
       /\ IF m.kind = "notice"
          THEN /\ connected' = FALSE
               /\ Return(Failed(call.op))
               /\ UNCHANGED delivered
          ELSE /\ Return(Inner(last_ievent', m))
               /\ delivered' = IF m.kind = "reply" THEN delivered
                               ELSE Append(delivered, m.n)
               /\ UNCHANGED connected
    /\ UNCHANGED <<destroyed, async_execute, last_sr_event, sent, async, asked,
                   closed, published, answered>>

TimesOut ==
    /\ call.op = "recvEventTimed"
    /\ race_event = <<>> /\ wire = <<>> /\ ~closed
    /\ Return(None)
    /\ UNCHANGED <<handleVars, delivered, sent, async, asked, owed, switchVars>>

-----------------------------------------------------------------------------
(* setAsyncExecute, setEventLock and disconnect. *)

Set == /\ call = Idle
       /\ \E val \in BOOLEAN : async_execute' = val /\ asked' = val
       /\ UNCHANGED <<connected, destroyed, last_sr_event, last_event, last_ievent,
                      race_event, call, answer, delivered, sent, async, owed, switchVars>>

Disconnect ==
    /\ call = Idle /\ ~destroyed
    /\ connected' = FALSE /\ destroyed' = TRUE
    /\ async_execute' = FALSE /\ asked' = FALSE
    /\ last_sr_event' = None /\ last_event' = None
    /\ last_ievent' = None /\ race_event' = <<>>
    /\ UNCHANGED <<call, answer, delivered, sent, async, owed, switchVars>>

Client == \/ \E op \in Commands : Unsent(op) \/ Send(op)
          \/ SendOnly \/ Overtaken \/ Answer \/ Lost
          \/ \E op \in Receives : Receive(op)
          \/ Take \/ TimesOut \/ Set \/ Disconnect

-----------------------------------------------------------------------------
(* The switch (external). *)

Answers == /\ ~closed /\ answered < sent
           /\ answered' = answered + 1
           /\ wire' = Append(wire, Reply(answered + 1))
           /\ UNCHANGED <<handleVars, call, answer, delivered, sent, async, asked, owed, closed, published>>

(* An event, or a packet of another kind, which holds none.                  *)
Publishes == /\ ~closed /\ published < MaxEvents
             /\ published' = published + 1
             /\ \E kind \in {"event", "data"} :
                  wire' = Append(wire, [kind |-> kind, n |-> published + 1])
             /\ UNCHANGED <<handleVars, call, answer, delivered, sent, async, asked, owed, closed, answered>>

Closes == /\ ~closed
          /\ closed' = TRUE
          /\ wire' \in {wire, Append(wire, [kind |-> "notice", n |-> 0])}
          /\ UNCHANGED <<handleVars, call, answer, delivered, sent, async, asked, owed, published, answered>>

ObjectNext == Client \/ Answers \/ Publishes \/ Closes
ObjectSpec == ObjectInit /\ [][ObjectNext]_objectVars

-----------------------------------------------------------------------------
(* What a caller gets is its own: a reply is the reply to the last command, *)
(* from the method that waits for it or from the receive that follows send,  *)
(* recvEvent returns the events in their order and each once, whatever       *)
(* commands ran in between, and a command is executed asynchronously exactly *)
(* if the caller said so (esl_oop.cpp: 111-270).                             *)
AnswersOwn ==
    /\ answer.kind = "reply" => answer.n = sent
    /\ \A i \in DOMAIN delivered : delivered[i] = i
    /\ Awaits => (async <=> \/ call.op = "executeAsync"
                            \/ call.op = "execute" /\ asked)
=============================================================================
