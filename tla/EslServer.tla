------------------------------ MODULE EslServer ------------------------------
(* A program that serves the connections a switch makes to it (esl_listen    *)
(* and esl_listen_threaded of src/esl/esl.c) through connection objects      *)
(* (src/esl/esl_oop.cpp), one per callback, and calls a switch itself with   *)
(* others.  Descriptors are shared by all: the lowest free one is given out  *)
(* next, so one that is closed twice is soon closed under another's feet.    *)
(*                                                                           *)
(* Descriptor 0 is the program's standard input; 1 and 2, that no handle     *)
(* ever holds, are left out.  Each object is used by one thread (EslHandle   *)
(* has several threads on one handle), so esl_disconnect is one step.        *)
EXTENDS Integers, Sequences

CONSTANTS Served,  \* bound: the callbacks that are run, a sequence of names
          Callers, \* threads that connect to a switch themselves
          MaxFd    \* bound: the highest descriptor

VARIABLES
  owner,    \* external: whose each descriptor is
  listener, \* esl_listen: where it is, its server_sock and client_sock, threads or not
  thread,   \* the threads, where they are and the handle of their object
  culprit   \* history: whose handle was the first to close another's descriptor

serveVars == <<owner, listener, thread, culprit>>

Threads == {Served[i] : i \in DOMAIN Served} \cup Callers
ESL_SOCK_INVALID == -1

(* connection_construct_common: a handle of zeros.  (given is history: it    *)
(* once had a socket, and is not wiped.)                                     *)
Zero == [sock |-> 0, connected |-> FALSE, destroyed |-> FALSE, given |-> FALSE]

(* The program may hold other files open already.                            *)
ServeInit == /\ \E n \in 0 .. MaxFd :
                  owner = [f \in 0 .. MaxFd |-> CASE f = 0 -> "input"
                                                  [] f \in 1 .. n -> "file"
                                                  [] OTHER -> "free"]
             /\ listener \in [pc : {"start"}, threaded : BOOLEAN, server_sock : {0},
                              client_sock : {0}, next : {1}]
             /\ thread = [t \in Threads |->
                            [pc |-> IF t \in Callers THEN "dial" ELSE "none",
                             arg |-> 0, handle |-> Zero]]
             /\ culprit = "none"

Free == {f \in DOMAIN owner : owner[f] = "free"}
Lowest == CHOOSE f \in Free : \A g \in Free : f <= g

Opens(name) == Free # {} /\ owner' = [owner EXCEPT ![Lowest] = name]

(* closesocket, by the handle of a thread or by the listener.                *)
CloseSocket(name, fd, given) ==
    /\ owner' = [owner EXCEPT ![fd] = "free"]
    /\ culprit' = IF culprit # "none" \/ owner[fd] = name THEN culprit
                  ELSE IF given THEN "given" ELSE "socketless"

-----------------------------------------------------------------------------
(* esl_listen and esl_listen_threaded. *)

Open == /\ listener.pc = "start"
        /\ \/ /\ Opens("listener")
              /\ listener' = [listener EXCEPT !.pc = "bind", !.server_sock = Lowest]
           \/ /\ Free = {}
              /\ listener' = [listener EXCEPT !.pc = "ended"]
              /\ UNCHANGED owner
        /\ UNCHANGED <<thread, culprit>>

Listen == /\ listener.pc = "bind"
          /\ listener' = [listener EXCEPT !.pc = "accept"]
          /\ UNCHANGED <<owner, thread, culprit>>

(* The label end, from bind, listen or accept: any error but an interrupt    *)
(* ends the service, the lack of a descriptor too.                           *)
End == /\ listener.pc \in {"bind", "accept"}
       /\ CloseSocket("listener", listener.server_sock, TRUE)
       /\ listener' = [listener EXCEPT !.pc = "ended"]
       /\ UNCHANGED thread

More == listener.next \in DOMAIN Served

(* An interrupted accept passes its -1 on as a socket.                       *)
Accept == /\ listener.pc = "accept" /\ More
          /\ \/ /\ owner[listener.server_sock] = "listener"
                /\ Opens(Served[listener.next])
                /\ listener' = [listener EXCEPT !.pc = "hand", !.client_sock = Lowest]
             \/ /\ listener' = [listener EXCEPT !.pc = "hand", !.client_sock = ESL_SOCK_INVALID]
                /\ UNCHANGED owner
          /\ UNCHANGED <<thread, culprit>>

(* The callback gets the socket, in a detached thread or in the loop itself. *)
Hand == /\ listener.pc = "hand"
        /\ thread' = [thread EXCEPT ![Served[listener.next]] =
                        [pc |-> "construct", arg |-> listener.client_sock, handle |-> Zero]]
        /\ listener' = [listener EXCEPT !.pc = IF listener.threaded THEN "accept" ELSE "wait",
                                        !.next = @ + 1]
        /\ UNCHANGED <<owner, culprit>>

Returned == /\ listener.pc = "wait"
            /\ thread[Served[listener.next - 1]].pc = "ended"
            /\ listener' = [listener EXCEPT !.pc = "accept"]
            /\ UNCHANGED <<owner, thread, culprit>>

-----------------------------------------------------------------------------
(* The object of a connection. *)

Moves(t, pc, handle) ==
    thread' = [thread EXCEPT ![t] = [pc |-> pc, arg |-> thread[t].arg, handle |-> handle]]

(* A mutant: the mark that the handle is destroyed is wiped with the rest.   *)
WipedWhole(h) == [Zero EXCEPT !.given = h.given]

Wiped(h) == [Zero EXCEPT !.destroyed = TRUE, !.given = h.given]

(* esl_disconnect, of a handle that need not be destroyed, and the end at pc. *)
Esl_disconnect(t, pc) ==
    LET h == thread[t].handle IN
    /\ IF h.destroyed \/ h.sock = ESL_SOCK_INVALID THEN UNCHANGED <<owner, culprit>>
       ELSE CloseSocket(t, h.sock, h.given)
    /\ Moves(t, pc, IF h.destroyed THEN h ELSE Wiped(h))
    /\ UNCHANGED listener

(* ESLconnection(int), esl_attach_handle: no socket leaves the handle as it is. *)
Construct(t) ==
    /\ thread[t].pc = "construct"
    /\ LET socket == thread[t].arg
       IN  IF socket = ESL_SOCK_INVALID THEN Moves(t, "using", Zero)
           ELSE Moves(t, "attaching",
                      [Zero EXCEPT !.sock = socket, !.connected = TRUE, !.given = TRUE])
    /\ UNCHANGED <<owner, listener, culprit>>

(* The switch answers "connect", or the handle is disconnected at once.      *)
Attach(t) ==
    /\ thread[t].pc = "attaching"
    /\ \/ Moves(t, "using", thread[t].handle) /\ UNCHANGED <<owner, listener, culprit>>
       \/ Esl_disconnect(t, "using")

(* The constructors with a host: without a port, or a host that resolves,    *)
(* there is no socket; an attempt that fails keeps the one it got.           *)
Dial(t) ==
    /\ thread[t].pc = "dial"
    /\ \/ Moves(t, "using", Zero) /\ UNCHANGED owner
       \/ /\ Free = {} /\ UNCHANGED owner
          /\ Moves(t, "using", [Zero EXCEPT !.sock = ESL_SOCK_INVALID])
       \/ /\ Opens(t)
          /\ \E up \in BOOLEAN :
               Moves(t, "using",
                     [Zero EXCEPT !.sock = Lowest, !.connected = up, !.given = TRUE])
    /\ UNCHANGED <<listener, culprit>>

(* A call of the object meets the end of the connection.                     *)
Fails(t) ==
    /\ thread[t].pc = "using" /\ thread[t].handle.connected
    /\ Moves(t, "using", [thread[t].handle EXCEPT !.connected = FALSE])
    /\ UNCHANGED <<owner, listener, culprit>>

DisconnectObject(t) == thread[t].pc = "using" /\ Esl_disconnect(t, "using")

(* ~ESLconnection, when the callback returns. *)
Destruct(t) == thread[t].pc = "using" /\ Esl_disconnect(t, "ended")

ServeNext == \/ Open \/ Listen \/ End \/ Accept \/ Hand \/ Returned
             \/ \E t \in Threads : \/ Construct(t) \/ Attach(t) \/ Dial(t)
                                   \/ Fails(t) \/ DisconnectObject(t) \/ Destruct(t)

ServeSpec == ServeInit /\ [][ServeNext]_serveVars

-----------------------------------------------------------------------------
(* A thread that has ended left no descriptor open, and no handle that was   *)
(* given a socket is the first to close one that is not its own, however      *)
(* descriptors are used again between a disconnect and the destructor         *)
(* (esl.c: 1123-1176, esl_oop.cpp: 57-85).  A handle that never got a socket  *)
(* does: it holds 0, and its destructor closes the standard input.           *)
ClosesOwn ==
    /\ culprit # "given"
    /\ \A t \in Threads : thread[t].pc = "ended" => \A f \in DOMAIN owner : owner[f] # t
=============================================================================
