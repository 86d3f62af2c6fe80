----------------------------- MODULE EslConnect -----------------------------
(* The start of a client (main of src/esl/venilla.c): esl_connect_timeout is *)
(* tried every second until the switch greets, takes the password and says   *)
(* so; then the events are subscribed and received until the connection      *)
(* fails.  The handle is kept over the attempts: an attempt that fails closes *)
(* no socket and leaves in packet_buf what was received and not read.        *)
(*                                                                           *)
(* The stream is cut into units: the header of a message is a unit of part 1 *)
(* and a unit of part 2, the one that completes it, and a message with a     *)
(* Content-Length goes on with BodyUnits units of part 3, which the client   *)
(* takes by their number, whatever they are.  A read may end between units,  *)
(* and so may a connection.                                                  *)
EXTENDS Naturals, Sequences, FiniteSetsExt

CONSTANTS MaxFds,    \* bound: descriptors the process may hold
          MaxUnits,  \* bound: units under way
          BodyUnits, \* the length of a body
          Timeouts   \* the timeouts the program is started with: of {0, 1}

\* A body is shorter than a greeting and a verdict together (of two units each),
\* as those of the switch are.  A client whose connection broke off while it took
\* both of them for the body of a stale header would find them in its buffer, and
\* its next attempt would succeed on them alone.
ASSUME ConnectAssumption == BodyUnits \in 1 .. 3

VARIABLES
  pc,          \* where main is
  timeout,     \* the timeout of esl_connect_timeout, 0 for none
  packet_buf,  \* the units received and not read
  revent,      \* the header that was read, while its body is lacking
  open,        \* descriptors of sockets that are open
  heard,       \* history: the messages this attempt was judged by
  good,        \* external: the switch is up and knows the password
  peer,        \* external: what the switch does next on the current socket
  rx, eof      \* external: units under way on it; the switch closed it

clientVars == <<pc, timeout, packet_buf, revent, open, heard>>
serverVars == <<good, peer, rx, eof>>
connectVars == <<clientVars, serverVars>>

HasBody(kind) == kind \in {"rude", "notice", "event"}
BodyLength(kind) == IF HasBody(kind) THEN BodyUnits ELSE 0

Unit(kind, part) == [kind |-> kind, part |-> part, own |-> TRUE]
Header(kind) == <<Unit(kind, 1), Unit(kind, 2)>>
Message(kind) == Header(kind) \o [i \in 1 .. BodyLength(kind) |-> Unit(kind, 3)]

NoEvent == [packet |-> <<>>, kind |-> "none", length |-> 0]

InConnect == pc \in {"greeting", "verdict"}
Receiving == pc \in {"greeting", "verdict", "subscribe", "events"}

ConnectInit == /\ pc = "try"
               /\ timeout \in Timeouts
               /\ packet_buf = <<>> /\ revent = NoEvent /\ open = 0 /\ heard = <<>>
               /\ good \in BOOLEAN
               /\ peer = "none" /\ rx = <<>> /\ eof = FALSE

-----------------------------------------------------------------------------
(* The packet buffer.                                                        *)

(* A mutant: a message ends where the line that began it ends. *)
EndsOfMessage == {i \in DOMAIN packet_buf :
                    /\ packet_buf[i].part = 2
                    /\ packet_buf[1] = [packet_buf[i] EXCEPT !.part = 1]}

Ends == {i \in DOMAIN packet_buf : packet_buf[i].part = 2}
Complete == Ends # {}
Packet == SubSeq(packet_buf, 1, Min(Ends))
Rest == SubSeq(packet_buf, Min(Ends) + 1, Len(packet_buf))

(* What esl_recv_event makes of a packet.  A header that arrived as it was    *)
(* sent says what it is.  One that an earlier connection left something in   *)
(* front of, or took something from, is garbled; where the seam is the end   *)
(* of a line it still says what one of its beginnings says, and a number it  *)
(* announces as Content-Length may have been cut short.                      *)
Whole(p) == p = <<[p[1] EXCEPT !.part = 1], [p[1] EXCEPT !.part = 2]>>
Begun(p) == {p[i].kind : i \in {j \in DOMAIN p : p[j].part = 1}}
Announces(p) == \E i \in DOMAIN p : p[i].part # 3 /\ HasBody(p[i].kind)

Readings(p) ==
  IF Whole(p)
  THEN {[packet |-> p, kind |-> p[1].kind, length |-> BodyLength(p[1].kind)]}
  ELSE [packet : {p}, kind : {"garbled"} \cup Begun(p),
        length : IF Announces(p) THEN 0 .. BodyUnits ELSE {0}]

(* What the client waits for: a whole header, or the body of the one it has. *)
Lacks == IF revent = NoEvent THEN ~Complete ELSE Len(packet_buf) < revent.length

(* The packet ends with this header as this connection sent it. *)
Own(p, kind) == Len(p) > 1 /\ SubSeq(p, Len(p) - 1, Len(p)) = Header(kind)

(* The current connection becomes an earlier one. *)
Stale(units) == [i \in DOMAIN units |-> [units[i] EXCEPT !.own = FALSE]]

-----------------------------------------------------------------------------
(* esl_connect_timeout. *)

(* A mutant: only an attempt that got no connection is repeated. *)
AttemptGivesUp == pc' = IF pc = "try" THEN "sleep" ELSE "close"

(* The label fail: connected is cleared, no socket is closed. *)
AttemptFails == pc' = IF InConnect \/ pc = "try" THEN "sleep" ELSE "close"

(* getaddrinfo fails before there is a socket; or there is no descriptor. *)
NoSocket == /\ pc = "try"
            /\ ~good \/ open = MaxFds
            /\ AttemptFails
            /\ UNCHANGED <<timeout, packet_buf, revent, open, heard, serverVars>>

(* connect fails, or the wait for it. *)
Refused == /\ pc = "try" /\ open < MaxFds
           /\ ~good
           /\ open' = open + 1
           /\ AttemptFails
           /\ UNCHANGED <<timeout, packet_buf, revent, heard, serverVars>>

Connected == /\ pc = "try" /\ open < MaxFds
             /\ open' = open + 1
             /\ packet_buf' = Stale(packet_buf)
             /\ heard' = <<>>
             /\ pc' = "greeting"
             /\ peer' = "greet" /\ rx' = <<>> /\ eof' = FALSE
             /\ UNCHANGED <<timeout, revent, good>>

(* sleep_s(1) of the loop in main. *)
Sleep == /\ pc = "sleep"
         /\ pc' = "try"
         /\ UNCHANGED <<timeout, packet_buf, revent, open, heard, serverVars>>

-----------------------------------------------------------------------------
(* esl_recv_event, within the attempt and after it. *)

(* handle_recv returns what is there, as much as it gets. *)
Fill == /\ Receiving /\ Lacks
        /\ \E k \in 1 .. Len(rx) :
             /\ packet_buf' = packet_buf \o SubSeq(rx, 1, k)
             /\ rx' = SubSeq(rx, k + 1, Len(rx))
        /\ UNCHANGED <<pc, timeout, revent, open, heard, good, peer, eof>>

(* recv returns 0: a header without its body is dropped, what came of the    *)
(* body stays.                                                               *)
ConnectionLost == /\ Receiving /\ Lacks
                  /\ rx = <<>> /\ eof
                  /\ AttemptFails
                  /\ revent' = NoEvent
                  /\ UNCHANGED <<timeout, packet_buf, open, heard, serverVars>>

(* esl_recv_event_timed waits only if packet_buf is empty, and not for a     *)
(* body.                                                                     *)
Expired == /\ InConnect /\ timeout # 0
           /\ revent = NoEvent /\ packet_buf = <<>> /\ rx = <<>> /\ ~eof
           /\ ~good
           /\ AttemptFails
           /\ UNCHANGED <<timeout, packet_buf, revent, open, heard, serverVars>>

Left == Rest

ReadHeader == /\ Receiving /\ revent = NoEvent /\ Complete
              /\ revent' \in Readings(Packet)
              /\ packet_buf' = Left
              /\ UNCHANGED <<pc, timeout, open, heard, serverVars>>

Hears == heard' = Append(heard, [kind |-> revent.kind, own |-> Own(revent.packet, revent.kind)])

(* A mutant: any packet is taken for the request to authenticate. *)
AnyGreets(kind) == kind # "notice"

(* The content-type must be auth/request, the reply-text +OK accepted; a      *)
(* disconnect notice fails the receive itself.                               *)
Greets(kind) == kind = "greeting"
Accepts(kind) == kind = "accepted"

Greeting == /\ pc = "greeting"
            /\ Hears
            /\ IF Greets(revent.kind)
               THEN /\ pc' = "verdict"
                    /\ peer' = IF peer = "wait" THEN "judge" ELSE peer
               ELSE AttemptFails /\ UNCHANGED peer

Verdict == /\ pc = "verdict"
           /\ Hears
           /\ IF Accepts(revent.kind)
              THEN /\ pc' = "subscribe"
                   /\ peer' = IF peer = "wait" THEN "reply" ELSE peer
              ELSE AttemptFails /\ UNCHANGED peer

(* esl_events waits for its reply, the loop in main takes everything. *)
Session == /\ pc \in {"subscribe", "events"}
           /\ IF revent.kind = "notice" THEN AttemptFails
              ELSE pc' = IF revent.kind = "reply" THEN "events" ELSE pc
           /\ UNCHANGED <<heard, peer>>

(* The body is taken off the buffer, and the message is judged. *)
TakeMessage == /\ Receiving /\ revent # NoEvent /\ ~Lacks
               /\ packet_buf' = SubSeq(packet_buf, revent.length + 1, Len(packet_buf))
               /\ revent' = NoEvent
               /\ Greeting \/ Verdict \/ Session
               /\ UNCHANGED <<timeout, open, good, rx, eof>>

(* esl_disconnect closes the last socket and destroys the buffer. *)
DisconnectSwitch == /\ pc = "close"
                    /\ pc' = "done"
                    /\ open' = open - 1
                    /\ packet_buf' = <<>>
                    /\ UNCHANGED <<timeout, revent, heard, serverVars>>

Main == \/ NoSocket \/ Refused \/ Connected \/ Sleep
        \/ Fill \/ ConnectionLost \/ Expired \/ ReadHeader \/ TakeMessage
        \/ DisconnectSwitch

-----------------------------------------------------------------------------
(* The switch (external). *)

Alive == peer \notin {"none", "closed"} /\ pc \in {"greeting", "verdict", "subscribe", "events"}

Sends(units, next) == /\ Len(rx) + Len(units) <= MaxUnits
                      /\ rx' = rx \o units
                      /\ peer' = next

BreaksOff(units) == /\ \E k \in 0 .. Len(units) : rx' = SubSeq(units, 1, k)
                    /\ Len(rx') <= MaxUnits
                    /\ peer' = "closed"

Greet == peer = "greet" /\ \/ Sends(Message("greeting"), "wait")
                           \/ ~good /\ Sends(Message("rude"), "bye")
Judge == peer = "judge" /\ \/ good /\ Sends(Message("accepted"), "wait")
                           \/ ~good /\ Sends(Message("refused"), "bye")
SubscribeReply == peer = "reply" /\ Sends(Message("reply"), "busy")
Publish == peer \in {"reply", "busy"} /\ Sends(Message("event"), peer)

SwitchAnswers == /\ Alive
                 /\ Greet \/ Judge \/ SubscribeReply
                 /\ UNCHANGED <<clientVars, good, eof>>

SendEvent == Alive /\ Publish /\ UNCHANGED <<clientVars, good, eof>>

(* It says that it closes; a switch in trouble may not, and what it sent may  *)
(* break off anywhere.                                                       *)
Close == /\ Alive
         /\ peer \in {"bye", "busy"} \/ ~good
         /\ \E units \in {Message("notice"), <<>>} :
              /\ good => units # <<>>
              /\ Sends(units, "closed") \/ (~good /\ BreaksOff(rx \o units))
         /\ eof' = TRUE
         /\ UNCHANGED <<clientVars, good>>

Change == /\ good' = ~good
          /\ UNCHANGED <<clientVars, peer, rx, eof>>

Stops == pc = "done" /\ UNCHANGED connectVars

ConnectNext == Main \/ SwitchAnswers \/ SendEvent \/ Close \/ Change \/ Stops

(* The client runs; the switch answers and closes what it gave up. *)
ConnectFairness == /\ WF_connectVars(Main)
                   /\ WF_connectVars(SwitchAnswers)
                   /\ WF_connectVars(Close /\ peer = "bye")

ConnectSpec == ConnectInit /\ [][ConnectNext]_connectVars /\ ConnectFairness

-----------------------------------------------------------------------------
(* Properties. *)

(* An attempt that succeeds was greeted and accepted on its own connection:   *)
(* no bytes of an earlier attempt decide it (esl.c: 1078-1106 with the        *)
(* buffer created once at 985).                                              *)
VerdictIsOwn ==
    pc \in {"subscribe", "events"} =>
        heard = << [kind |-> "greeting", own |-> TRUE], [kind |-> "accepted", own |-> TRUE] >>

(* The client waits for bytes, which esl_recv_event does without a limit      *)
(* once it has read something (esl.c: 1360-1381), and the switch for the      *)
(* client.                                                                   *)
BothWait == InConnect /\ Lacks /\ rx = <<>> /\ peer = "wait"

(* The header that was read has something of an earlier connection in it. *)
StaleHeader == revent # NoEvent /\ \E i \in DOMAIN revent.packet : ~revent.packet[i].own

(* That happens only to a client that takes what it sees on its new          *)
(* connection for the body which a header of an earlier one, or what is left *)
(* of it, has announced (esl.c: 1351-1381 with the buffer of 985).           *)
StarvesOnStale == BothWait => StaleHeader

(* Once the switch is up for good the loop of main connects, whatever the     *)
(* failed attempts left in the buffer, unless the sockets that they left open *)
(* have used up the descriptors (venilla.c: 605-609), or it waits for the    *)
(* body of such a header for ever.                                           *)
Connects ==
    <>[]good => \/ <>(pc = "subscribe" \/ open = MaxFds)
                \/ <>[](BothWait /\ StaleHeader)
=============================================================================
