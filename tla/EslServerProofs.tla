--------------------------- MODULE EslServerProofs ---------------------------
(* No handle that was given a socket closes a descriptor of another, for any *)
(* number of callbacks, callers and descriptors.                             *)
(*                                                                           *)
(* The invariant accounts for every descriptor: one that belongs to a thread *)
(* is on its way to the thread, or is in its handle and that is not yet      *)
(* destroyed; and as long as no handle has closed what is not its own, what  *)
(* is on its way to a thread or in its handle belongs to the thread.         *)
EXTENDS EslServer, WellFoundedInduction, TLAPS

Marks == {"input", "file", "listener", "free"}

(* The names stand for threads that differ. *)
Named ==
    /\ MaxFd \in Nat
    /\ DOMAIN Served \subseteq Nat
    /\ \A i, j \in DOMAIN Served : Served[i] = Served[j] => i = j
    /\ \A i \in DOMAIN Served : Served[i] \notin Callers
    /\ Threads \cap Marks = {}

Fd == 0 .. MaxFd
Socket == Fd \cup {ESL_SOCK_INVALID}
Handle == [sock : Socket, connected : BOOLEAN, destroyed : BOOLEAN, given : BOOLEAN]
Place == {"none", "dial", "construct", "attaching", "using", "ended"}
Listening == {"bind", "accept", "hand", "wait"}

Typed ==
    /\ owner \in [Fd -> Marks \cup Threads]
    /\ listener \in [pc : Listening \cup {"start", "ended"}, threaded : BOOLEAN,
                     server_sock : Fd, client_sock : Socket, next : Nat]
    /\ thread \in [Threads -> [pc : Place, arg : Socket, handle : Handle]]

(* A descriptor in the hands of a thread, or on its way to it. *)
InHandle(r, f) ==
    \/ r.pc = "construct" /\ r.arg = f
    \/ /\ r.pc \in {"attaching", "using"}
       /\ r.handle.given /\ ~r.handle.destroyed /\ r.handle.sock = f
Coming(t, f) ==
    /\ listener.pc = "hand" /\ listener.next \in DOMAIN Served
    /\ Served[listener.next] = t /\ listener.client_sock = f
Holds(t, f) == InHandle(thread[t], f) \/ Coming(t, f)

Accounted == \A t \in Threads, f \in Fd : owner[f] = t => Holds(t, f)
Kept == \A t \in Threads, f \in Fd : Holds(t, f) => owner[f] = t
Listens == listener.pc \in Listening => owner[listener.server_sock] = "listener"
NotYet ==
    /\ listener.pc = "hand" => listener.next \in DOMAIN Served
    /\ \A i \in DOMAIN Served : i >= listener.next => thread[Served[i]].pc = "none"

IInv ==
    /\ Typed /\ Accounted /\ NotYet
    /\ culprit = "none" => Kept /\ Listens
    /\ culprit \in {"none", "socketless"}

-----------------------------------------------------------------------------
(* The lowest free descriptor is one of those that are free. *)

Below == {p \in Nat \X Nat : p[1] < p[2]}

LEMMA BelowWellFounded == IsWellFoundedOn(Below, Nat)
BY NatLessThanWellFounded DEF OpToRel, Below

LEMMA LowestFree ==
    ASSUME Named, Typed, Free # {}
    PROVE  Lowest \in Fd /\ owner[Lowest] = "free"
<1>1. Free \subseteq Fd
  BY DEF Free, Typed
<1>2. Fd \subseteq Nat
  BY DEF Named, Fd
<1>3. \E f \in Free : \A g \in Free : ~(<<g, f>> \in Below)
  BY <1>1, <1>2, BelowWellFounded, WFMin
<1>4. \A f, g \in Free : <<g, f>> \notin Below => f <= g
  BY <1>1, <1>2 DEF Below
<1>5. Lowest \in Free
  BY <1>3, <1>4 DEF Lowest
<1> QED BY <1>1, <1>5 DEF Free

-----------------------------------------------------------------------------
(* The listener. *)

LEMMA InitIInv == Named /\ ServeInit => IInv
<1> SUFFICES ASSUME Named, ServeInit PROVE IInv
  OBVIOUS
<1>1. Fd \subseteq Int /\ 0 \in Fd
  BY DEF Named, Fd
<1>2. Typed
  BY <1>1 DEF ServeInit, Typed, Zero, Handle, Socket, Fd, Place, Listening, Marks
<1>3. \A t \in Threads, f \in Fd : owner[f] # t
  BY <1>1 DEF ServeInit, Named, Marks, Fd
<1>4. \A t \in Threads : thread[t].pc = IF t \in Callers THEN "dial" ELSE "none"
  BY DEF ServeInit
<1>5. listener.pc = "start"
  BY DEF ServeInit
<1>6. \A i \in DOMAIN Served : Served[i] \in Threads /\ Served[i] \notin Callers
  BY DEF Named, Threads
<1>7. \A t \in Threads, f \in Fd : ~Holds(t, f)
  BY <1>4, <1>5 DEF Holds, InHandle, Coming
<1>8. NotYet
  BY <1>4, <1>5, <1>6 DEF NotYet
<1>9. culprit = "none"
  BY DEF ServeInit
<1> QED BY <1>2, <1>3, <1>5, <1>7, <1>8, <1>9 DEF IInv, Accounted, Kept, Listens, Listening

LEMMA OpenKeeps == ASSUME Named, IInv, Open PROVE IInv'
<1>1. Listening = {"bind", "accept", "hand", "wait"} /\ listener.pc = "start" /\ listener'.pc \in {"bind", "ended"}
  BY DEF Open, Listening, IInv, Typed
<1>2. CASE Free # {} /\ Opens("listener") /\ listener' = [listener EXCEPT !.pc = "bind", !.server_sock = Lowest]
  <2>1. Lowest \in Fd /\ owner[Lowest] = "free"
    BY <1>2, LowestFree DEF IInv
  <2>2. Typed'
    BY <1>2, <2>1 DEF IInv, Typed, Open, Opens, Marks, Listening
  <2>3. \A t \in Threads, f \in Fd : Holds(t, f)' <=> Holds(t, f)
    BY <1>1, <1>2 DEF Holds, InHandle, Coming, Open, IInv, Typed
  <2>4. \A t \in Threads, f \in Fd : owner'[f] = t <=> owner[f] = t
    BY <1>2, <2>1 DEF Opens, IInv, Typed, Named, Marks
  <2>5. listener'.server_sock = Lowest /\ owner'[Lowest] = "listener" /\ listener'.next = listener.next
    BY <1>2, <2>1 DEF Opens, IInv, Typed
  <2>6. thread' = thread /\ culprit' = culprit
    BY DEF Open
  <2> QED BY <1>1, <2>2, <2>3, <2>4, <2>5, <2>6 DEF IInv, Accounted, Kept, Listens, NotYet
<1>3. CASE UNCHANGED owner /\ listener' = [listener EXCEPT !.pc = "ended"]
  <2>1. Typed'
    BY <1>3 DEF IInv, Typed, Open
  <2>2. \A t \in Threads, f \in Fd : Holds(t, f)' <=> Holds(t, f)
    BY <1>1, <1>3 DEF Holds, InHandle, Coming, Open, IInv, Typed
  <2>3. listener'.pc = "ended" /\ listener'.next = listener.next
    BY <1>3 DEF IInv, Typed
  <2> QED BY <1>1, <1>3, <2>1, <2>2, <2>3 DEF IInv, Accounted, Kept, Listens, NotYet, Open
<1> QED BY <1>2, <1>3 DEF Open, Opens

LEMMA ListenKeeps == ASSUME Named, IInv, Listen PROVE IInv'
<1>1. listener.pc = "bind" /\ listener'.pc = "accept" /\ listener'.next = listener.next
      /\ listener'.server_sock = listener.server_sock
  BY DEF Listen, IInv, Typed
<1>2. Typed'
  BY DEF Listen, IInv, Typed, Listening
<1>3. \A t \in Threads, f \in Fd : Holds(t, f)' <=> Holds(t, f)
  BY <1>1 DEF Holds, InHandle, Coming, Listen
<1> QED BY <1>1, <1>2, <1>3 DEF IInv, Accounted, Kept, Listens, NotYet, Listen, Listening

LEMMA EndKeeps == ASSUME Named, IInv, End PROVE IInv'
<1> DEFINE fd == listener.server_sock
<1>1. /\ listener.pc \in {"bind", "accept"} /\ listener'.pc = "ended"
      /\ listener'.next = listener.next /\ fd \in Fd
  BY DEF End, IInv, Typed
<1>2. Typed'
  BY DEF End, CloseSocket, IInv, Typed, Marks
<1>3. \A t \in Threads, f \in Fd : Holds(t, f)' <=> Holds(t, f)
  BY <1>1 DEF Holds, InHandle, Coming, End
<1>4. \A f \in Fd : owner'[f] = IF f = fd THEN "free" ELSE owner[f]
  BY DEF End, CloseSocket, IInv, Typed
<1>5. "free" \notin Threads /\ "listener" \notin Threads
  BY DEF Named, Marks
<1>6. culprit = "none" => owner[fd] = "listener"
  BY <1>1 DEF IInv, Listens, Listening
<1>7. culprit' = culprit
  <2>1. culprit # "none" \/ owner[listener.server_sock] = "listener"
    BY <1>6
  <2> QED BY <2>1 DEF End, CloseSocket
<1>8. Accounted'
  BY <1>3, <1>4, <1>5 DEF IInv, Accounted
<1>9. culprit = "none" => Kept'
  BY <1>3, <1>4, <1>5, <1>6 DEF IInv, Kept
<1> QED BY <1>1, <1>2, <1>7, <1>8, <1>9 DEF IInv, Listens, NotYet, End, Listening

LEMMA AcceptKeeps == ASSUME Named, IInv, Accept PROVE IInv'
<1> DEFINE s == Served[listener.next]
<1>1. /\ listener.pc = "accept" /\ listener'.pc = "hand"
      /\ listener'.next = listener.next /\ listener'.server_sock = listener.server_sock
      /\ listener.server_sock \in Fd /\ listener.next \in DOMAIN Served
  BY DEF Accept, More, IInv, Typed
<1>2. s \in Threads
  BY <1>1 DEF Threads
<1>3. \A t \in Threads, f \in Fd :
        Holds(t, f)' <=> Holds(t, f) \/ (t = s /\ f = listener'.client_sock)
  BY <1>1 DEF Holds, InHandle, Coming, Accept
<1>4. thread' = thread /\ culprit' = culprit
  BY DEF Accept
<1>5. NotYet'
  BY <1>1, <1>4 DEF IInv, NotYet
<1>6. CASE Opens(s) /\ listener' = [listener EXCEPT !.pc = "hand", !.client_sock = Lowest]
  <2>1. Lowest \in Fd /\ owner[Lowest] = "free"
    BY <1>6, LowestFree DEF IInv, Opens
  <2>2. listener'.client_sock = Lowest
    BY <1>6 DEF IInv, Typed
  <2>3. Typed'
    BY <1>2, <1>4, <1>6, <2>1 DEF IInv, Typed, Opens, Socket, Listening
  <2>4. \A f \in Fd : owner'[f] = IF f = Lowest THEN s ELSE owner[f]
    BY <1>6 DEF Opens, IInv, Typed
  <2>5. "free" \notin Threads /\ "free" # "listener"
    BY DEF Named, Marks
  <2>6. Accounted'
    BY <1>3, <2>2, <2>4 DEF IInv, Accounted
  <2>7. culprit = "none" => Kept'
    BY <1>3, <2>1, <2>2, <2>4, <2>5 DEF IInv, Kept
  <2>8. culprit = "none" => Listens'
    BY <1>1, <2>1, <2>4, <2>5 DEF IInv, Listens, Listening
  <2> QED BY <1>4, <1>5, <2>3, <2>6, <2>7, <2>8 DEF IInv
<1>7. CASE listener' = [listener EXCEPT !.pc = "hand", !.client_sock = ESL_SOCK_INVALID]
           /\ UNCHANGED owner
  <2>1. Typed'
    BY <1>4, <1>7 DEF IInv, Typed, Socket, Listening
  <2>2. listener'.client_sock \notin Fd
    BY <1>7 DEF IInv, Typed, ESL_SOCK_INVALID, Fd, Named
  <2> QED BY <1>1, <1>3, <1>4, <1>5, <1>7, <2>1, <2>2
          DEF IInv, Accounted, Kept, Listens, Listening
<1> QED BY <1>6, <1>7 DEF Accept

LEMMA HandKeeps == ASSUME Named, IInv, Hand PROVE IInv'
<1> DEFINE s == Served[listener.next]
           r == [pc |-> "construct", arg |-> listener.client_sock, handle |-> Zero]
<1>1. /\ listener.pc = "hand" /\ listener'.pc \in {"accept", "wait"}
      /\ listener'.next = listener.next + 1 /\ listener'.server_sock = listener.server_sock
      /\ listener.next \in DOMAIN Served /\ listener.next \in Nat
  BY DEF Hand, IInv, Typed, NotYet
<1>2. s \in Threads /\ thread[s].pc = "none"
  BY <1>1 DEF Threads, IInv, NotYet
<1>3. owner' = owner /\ culprit' = culprit
  BY DEF Hand
<1>4. Zero \in Handle
  BY DEF Zero, Handle, Socket, Fd, Named
<1>5. r \in [pc : Place, arg : Socket, handle : Handle]
  BY <1>4 DEF IInv, Typed, Place
<1>6. \A t \in Threads : thread'[t] = IF t = s THEN r ELSE thread[t]
  BY DEF Hand, IInv, Typed
<1>7. Typed'
  <2>1. thread' \in [Threads -> [pc : Place, arg : Socket, handle : Handle]]
    BY <1>5 DEF Hand, IInv, Typed
  <2>2. listener' \in [pc : Listening \cup {"start", "ended"}, threaded : BOOLEAN,
                       server_sock : Fd, client_sock : Socket, next : Nat]
    <3>1. listener' = [listener EXCEPT !.pc = listener'.pc, !.next = listener.next + 1]
      BY DEF Hand, IInv, Typed
    <3>2. listener'.pc \in Listening /\ listener.next + 1 \in Nat
      BY <1>1 DEF Listening
    <3> QED BY <3>1, <3>2 DEF IInv, Typed
  <2> QED BY <1>3, <2>1, <2>2 DEF IInv, Typed
<1>8. \A t \in Threads, f \in Fd : Holds(t, f)' <=> Holds(t, f)
  <2>1. \A f : ~InHandle(thread[s], f)
    BY <1>2 DEF InHandle
  <2>2. \A f : InHandle(r, f) <=> listener.client_sock = f
    BY DEF InHandle
  <2>3. \A t, f : Coming(t, f) <=> t = s /\ listener.client_sock = f
    BY <1>1 DEF Coming
  <2>4. \A t, f : ~Coming(t, f)'
    BY <1>1 DEF Coming
  <2>5. \A t \in Threads, f \in Fd : InHandle(thread'[t], f) <=>
            IF t = s THEN listener.client_sock = f ELSE InHandle(thread[t], f)
    BY <1>6, <2>2
  <2>6. \A t \in Threads, f \in Fd : Holds(t, f)' <=> InHandle(thread'[t], f)
    BY <2>4 DEF Holds, InHandle
  <2> QED BY <2>1, <2>3, <2>5, <2>6 DEF Holds
<1>9. NotYet'
  <2> SUFFICES ASSUME NEW i \in DOMAIN Served, i >= listener.next + 1
               PROVE  thread'[Served[i]].pc = "none"
    BY <1>1 DEF NotYet
  <2>1. i \in Nat /\ i # listener.next /\ i >= listener.next
    BY <1>1 DEF Named
  <2>2. Served[i] # s /\ Served[i] \in Threads
    BY <1>1, <2>1 DEF Named, Threads
  <2> QED BY <1>6, <2>1, <2>2 DEF IInv, NotYet
<1> QED BY <1>1, <1>3, <1>7, <1>8, <1>9 DEF IInv, Accounted, Kept, Listens, Listening

LEMMA ReturnedKeeps == ASSUME Named, IInv, Returned PROVE IInv'
<1>1. listener.pc = "wait" /\ listener'.pc = "accept" /\ listener'.next = listener.next
      /\ listener'.server_sock = listener.server_sock
  BY DEF Returned, IInv, Typed
<1>2. Typed'
  BY DEF Returned, IInv, Typed, Listening
<1>3. \A t \in Threads, f \in Fd : Holds(t, f)' <=> Holds(t, f)
  BY <1>1 DEF Holds, InHandle, Coming, Returned
<1> QED BY <1>1, <1>2, <1>3 DEF IInv, Accounted, Kept, Listens, NotYet, Returned, Listening

-----------------------------------------------------------------------------
(* The threads: what a step to the record r means to the descriptors. *)

Record == [pc : Place, arg : Socket, handle : Handle]

LEMMA MoveOf ==
    ASSUME Named, IInv, NEW t \in Threads, NEW r \in Record,
           thread[t].pc # "none", thread' = [thread EXCEPT ![t] = r], UNCHANGED listener
    PROVE  /\ thread' \in [Threads -> Record]
           /\ NotYet'
           /\ \A f \in Fd : Holds(t, f) <=> InHandle(thread[t], f)
           /\ \A u \in Threads, f \in Fd :
                Holds(u, f)' <=> IF u = t THEN InHandle(r, f) ELSE Holds(u, f)
<1>1. \A u \in Threads : thread'[u] = IF u = t THEN r ELSE thread[u]
  BY DEF IInv, Typed
<1>2. thread' \in [Threads -> Record]
  BY DEF IInv, Typed, Record
<1>3. \A i \in DOMAIN Served : Served[i] \in Threads
  BY DEF Threads
<1>4. NotYet'
  BY <1>1, <1>3 DEF IInv, NotYet
<1>5. \A f : ~Coming(t, f)
  <2>1. \A i \in DOMAIN Served : i \in Nat
    BY DEF Named
  <2> QED BY <2>1 DEF IInv, NotYet, Coming
<1>6. \A u, f : Coming(u, f)' <=> Coming(u, f)
  BY DEF Coming
<1>7. \A u \in Threads, f \in Fd : Holds(u, f)' <=> InHandle(thread'[u], f) \/ Coming(u, f)
  BY <1>6 DEF Holds, InHandle
<1>8. \A u \in Threads, f \in Fd :
        Holds(u, f)' <=> IF u = t THEN InHandle(r, f) ELSE Holds(u, f)
  BY <1>1, <1>5, <1>7 DEF Holds
<1> QED BY <1>2, <1>4, <1>5, <1>8 DEF Holds

(* A step that opens and closes nothing, and holds what was held.            *)
LEMMA StillKeeps ==
    ASSUME Named, IInv, NEW t \in Threads, NEW r \in Record, thread[t].pc # "none",
           thread' = [thread EXCEPT ![t] = r], UNCHANGED <<owner, listener, culprit>>,
           \A f \in Fd : InHandle(r, f) <=> InHandle(thread[t], f)
    PROVE  IInv'
<1>1. thread' \in [Threads -> Record] /\ NotYet'
  BY MoveOf
<1>2. \A u \in Threads, f \in Fd : Holds(u, f)' <=> Holds(u, f)
  BY MoveOf
<1> QED BY <1>1, <1>2 DEF IInv, Typed, Record, Accounted, Kept, Listens

(* A step that opens a descriptor and holds it, where nothing was held.      *)
LEMMA OpenedKeeps ==
    ASSUME Named, IInv, NEW t \in Threads, NEW r \in Record, thread[t].pc # "none",
           thread' = [thread EXCEPT ![t] = r], UNCHANGED <<listener, culprit>>, Opens(t),
           \A f \in Fd : ~InHandle(thread[t], f),
           \A f \in Fd : InHandle(r, f) <=> f = Lowest
    PROVE  IInv'
<1>1. Lowest \in Fd /\ owner[Lowest] = "free"
  BY LowestFree DEF IInv, Opens
<1>2. thread' \in [Threads -> Record] /\ NotYet'
  BY MoveOf
<1>3. \A u \in Threads, f \in Fd :
        Holds(u, f)' <=> IF u = t THEN f = Lowest ELSE Holds(u, f)
  BY MoveOf
<1>4. \A f \in Fd : ~Holds(t, f)
  BY MoveOf
<1>5. \A f \in Fd : owner'[f] = IF f = Lowest THEN t ELSE owner[f]
  BY DEF Opens, IInv, Typed
<1>6. "free" \notin Threads /\ "listener" # "free"
  BY DEF Named, Marks
<1>7. Typed'
  BY <1>1, <1>2 DEF IInv, Typed, Record, Opens
<1>8. Accounted'
  BY <1>3, <1>4, <1>5 DEF IInv, Accounted
<1>9. culprit = "none" => Kept'
  BY <1>1, <1>3, <1>4, <1>5, <1>6 DEF IInv, Kept
<1>10. culprit = "none" => Listens'
  <2>1. listener.server_sock \in Fd
    BY DEF IInv, Typed
  <2> QED BY <1>1, <1>5, <1>6, <2>1 DEF IInv, Listens
<1> QED BY <1>2, <1>7, <1>8, <1>9, <1>10 DEF IInv

(* A step that closes the socket of the handle, and holds nothing after it:  *)
(* a socket that was given is the thread's own until someone has closed      *)
(* what is not its own.                                                      *)
LEMMA ClosedKeeps ==
    ASSUME Named, IInv, NEW t \in Threads, NEW r \in Record, UNCHANGED listener,
           thread[t].pc \in {"attaching", "using"}, thread[t].handle.sock \in Fd,
           ~thread[t].handle.destroyed, thread' = [thread EXCEPT ![t] = r],
           CloseSocket(t, thread[t].handle.sock, thread[t].handle.given),
           \A f \in Fd : ~InHandle(r, f)
    PROVE  IInv'
<1> DEFINE fd == thread[t].handle.sock
           given == thread[t].handle.given
<1>1. thread[t] \in Record /\ given \in BOOLEAN
  BY DEF IInv, Typed, Record, Handle
<1>2. \A f \in Fd : InHandle(thread[t], f) <=> given /\ fd = f
  BY <1>1 DEF InHandle
<1>3. thread' \in [Threads -> Record] /\ NotYet'
  BY MoveOf
<1>4. \A u \in Threads, f \in Fd :
        Holds(u, f)' <=> IF u = t THEN FALSE ELSE Holds(u, f)
  BY MoveOf
<1>5. \A f \in Fd : Holds(t, f) <=> given /\ fd = f
  BY <1>2, MoveOf
<1>6. \A f \in Fd : owner'[f] = IF f = fd THEN "free" ELSE owner[f]
  BY DEF CloseSocket, IInv, Typed
<1>7. "free" \notin Threads /\ "listener" \notin Threads
  BY DEF Named, Marks
<1>8. Typed'
  BY <1>3 DEF IInv, Typed, Record, CloseSocket, Marks
<1>9. Accounted'
  BY <1>4, <1>5, <1>6, <1>7 DEF IInv, Accounted
<1>10. culprit' \in {"none", "socketless"}
  BY <1>1, <1>5 DEF CloseSocket, IInv, Kept
<1>11. culprit' = "none" => culprit = "none" /\ owner[fd] = t
  BY <1>1, <1>5 DEF CloseSocket, IInv, Kept
<1>12. culprit' = "none" => Kept'
  BY <1>4, <1>6, <1>11 DEF IInv, Kept
<1>13. culprit' = "none" => Listens'
  <2>1. listener.server_sock \in Fd
    BY DEF IInv, Typed
  <2> QED BY <1>6, <1>7, <1>11, <2>1 DEF IInv, Listens
<1> QED BY <1>3, <1>8, <1>9, <1>10, <1>12, <1>13 DEF IInv

-----------------------------------------------------------------------------
(* The calls of the object. *)

LEMMA Zeros == Named => Zero \in Handle
BY DEF Named, Zero, Handle, Socket, Fd

LEMMA DisconnectKeeps ==
    ASSUME Named, IInv, NEW t \in Threads, NEW pc \in {"using", "ended"},
           thread[t].pc \in {"attaching", "using"}, Esl_disconnect(t, pc)
    PROVE  IInv'
<1> DEFINE h == thread[t].handle
           g == IF h.destroyed THEN h ELSE Wiped(h)
           r == [pc |-> pc, arg |-> thread[t].arg, handle |-> g]
<1>1. h \in Handle /\ thread[t].arg \in Socket
  BY DEF IInv, Typed
<1>2. g \in Handle
  BY <1>1, Zeros DEF Wiped, Zero, Handle
<1>3. r \in Record
  BY <1>1, <1>2 DEF Record, Place
<1>4. g.destroyed
  BY <1>1 DEF Wiped, Zero, Handle
<1>5. \A f : ~InHandle(r, f)
  BY <1>4 DEF InHandle
<1>6. thread' = [thread EXCEPT ![t] = r] /\ UNCHANGED listener
  BY DEF Esl_disconnect, Moves
<1>7. CASE h.destroyed \/ h.sock = ESL_SOCK_INVALID
  <2>1. \A f \in Fd : ~InHandle(thread[t], f)
    BY <1>7 DEF InHandle, ESL_SOCK_INVALID, Fd, Named
  <2>2. UNCHANGED <<owner, culprit>>
    BY <1>7 DEF Esl_disconnect
  <2> HIDE DEF r
  <2> QED BY <1>3, <1>5, <1>6, <2>1, <2>2, StillKeeps
<1>8. CASE ~h.destroyed /\ h.sock # ESL_SOCK_INVALID
  <2>1. h.sock \in Fd
    BY <1>1, <1>8 DEF Handle, Socket
  <2>2. CloseSocket(t, h.sock, h.given)
    BY <1>8 DEF Esl_disconnect
  <2> HIDE DEF r
  <2> QED BY <1>3, <1>5, <1>6, <1>8, <2>1, <2>2, ClosedKeeps
<1> QED BY <1>7, <1>8

LEMMA ConstructKeeps == ASSUME Named, IInv, NEW t \in Threads, Construct(t) PROVE IInv'
<1> DEFINE socket == thread[t].arg
           g == IF socket = ESL_SOCK_INVALID THEN Zero
                ELSE [Zero EXCEPT !.sock = socket, !.connected = TRUE, !.given = TRUE]
           r == [pc |-> IF socket = ESL_SOCK_INVALID THEN "using" ELSE "attaching",
                 arg |-> socket, handle |-> g]
<1>1. socket \in Socket
  BY DEF IInv, Typed
<1>2. g \in Handle
  BY <1>1, Zeros DEF Handle, Zero
<1>3. r \in Record
  BY <1>1, <1>2 DEF Record, Place
<1>4. thread' = [thread EXCEPT ![t] = r]
  BY DEF Construct, Moves
<1>5. \A f \in Fd : f # ESL_SOCK_INVALID
  BY DEF Named, Fd, ESL_SOCK_INVALID
<1>6. \A f \in Fd : InHandle(r, f) <=> socket = f
  BY <1>5 DEF InHandle, Zero
<1>7. \A f \in Fd : InHandle(thread[t], f) <=> socket = f
  BY DEF InHandle, Construct
<1>8. thread[t].pc # "none" /\ UNCHANGED <<owner, listener, culprit>>
  BY DEF Construct
<1> HIDE DEF r
<1> QED BY <1>3, <1>4, <1>6, <1>7, <1>8, StillKeeps

LEMMA AttachKeeps == ASSUME Named, IInv, NEW t \in Threads, Attach(t) PROVE IInv'
<1>1. CASE Moves(t, "using", thread[t].handle) /\ UNCHANGED <<owner, listener, culprit>>
  <2> DEFINE r == [pc |-> "using", arg |-> thread[t].arg, handle |-> thread[t].handle]
  <2>1. r \in Record
    BY DEF IInv, Typed, Record, Place
  <2>2. thread' = [thread EXCEPT ![t] = r]
    BY <1>1 DEF Moves
  <2>3. \A f \in Fd : InHandle(r, f) <=> InHandle(thread[t], f)
    BY DEF InHandle, Attach
  <2>4. thread[t].pc # "none"
    BY DEF Attach
  <2> HIDE DEF r
  <2> QED BY <1>1, <2>1, <2>2, <2>3, <2>4, StillKeeps
<1>2. CASE Esl_disconnect(t, "using")
  BY <1>2, DisconnectKeeps DEF Attach
<1> QED BY <1>1, <1>2 DEF Attach

LEMMA DialKeeps == ASSUME Named, IInv, NEW t \in Threads, Dial(t) PROVE IInv'
<1>1. thread[t].pc = "dial" /\ UNCHANGED <<listener, culprit>> /\ thread[t].arg \in Socket
  BY DEF Dial, IInv, Typed
<1>2. \A f : ~InHandle(thread[t], f)
  BY <1>1 DEF InHandle
<1>3. CASE \E g \in {Zero, [Zero EXCEPT !.sock = ESL_SOCK_INVALID]} :
             Moves(t, "using", g) /\ UNCHANGED owner
  <2>1. PICK g \in {Zero, [Zero EXCEPT !.sock = ESL_SOCK_INVALID]} :
          Moves(t, "using", g) /\ UNCHANGED owner
    BY <1>3
  <2> DEFINE r == [pc |-> "using", arg |-> thread[t].arg, handle |-> g]
  <2>2. g \in Handle /\ ~g.given
    BY <2>1, Zeros DEF Handle, Socket, Zero
  <2>3. r \in Record
    BY <1>1, <2>2 DEF Record, Place
  <2>4. \A f : ~InHandle(r, f)
    BY <2>2 DEF InHandle
  <2>5. thread' = [thread EXCEPT ![t] = r]
    BY <2>1 DEF Moves
  <2> HIDE DEF r
  <2> QED BY <1>1, <1>2, <2>1, <2>3, <2>4, <2>5, StillKeeps
<1>4. CASE Opens(t) /\ \E up \in BOOLEAN :
             Moves(t, "using", [Zero EXCEPT !.sock = Lowest, !.connected = up, !.given = TRUE])
  <2>1. PICK up \in BOOLEAN :
          Moves(t, "using", [Zero EXCEPT !.sock = Lowest, !.connected = up, !.given = TRUE])
    BY <1>4
  <2> DEFINE g == [Zero EXCEPT !.sock = Lowest, !.connected = up, !.given = TRUE]
             r == [pc |-> "using", arg |-> thread[t].arg, handle |-> g]
  <2>2. Lowest \in Fd
    BY <1>4, LowestFree DEF IInv, Opens
  <2>3. g \in Handle /\ g.given /\ ~g.destroyed /\ g.sock = Lowest
    BY <2>2 DEF Handle, Socket, Zero
  <2>4. thread' = [thread EXCEPT ![t] = r]
    BY <2>1 DEF Moves
  <2> HIDE DEF g
  <2>5. r \in Record
    BY <1>1, <2>3 DEF Record, Place
  <2>6. \A f : InHandle(r, f) <=> f = Lowest
    BY <2>3 DEF InHandle
  <2> HIDE DEF r
  <2> QED BY <1>1, <1>2, <1>4, <2>4, <2>5, <2>6, OpenedKeeps
<1> QED BY <1>3, <1>4 DEF Dial

LEMMA FailsKeeps == ASSUME Named, IInv, NEW t \in Threads, Fails(t) PROVE IInv'
<1> DEFINE g == [thread[t].handle EXCEPT !.connected = FALSE]
           r == [pc |-> "using", arg |-> thread[t].arg, handle |-> g]
<1>1. thread[t].handle \in Handle /\ thread[t].arg \in Socket
  BY DEF IInv, Typed
<1>2. /\ g \in Handle /\ g.given = thread[t].handle.given
      /\ g.destroyed = thread[t].handle.destroyed /\ g.sock = thread[t].handle.sock
  BY <1>1 DEF Handle
<1>3. thread' = [thread EXCEPT ![t] = r]
  BY DEF Fails, Moves
<1>4. thread[t].pc = "using" /\ UNCHANGED <<owner, listener, culprit>>
  BY DEF Fails
<1> HIDE DEF g
<1>5. r \in Record
  BY <1>1, <1>2 DEF Record, Place
<1>6. \A f \in Fd : InHandle(r, f) <=> InHandle(thread[t], f)
  BY <1>2, <1>4 DEF InHandle
<1> HIDE DEF r
<1> QED BY <1>3, <1>4, <1>5, <1>6, StillKeeps

-----------------------------------------------------------------------------
LEMMA NextIInv == Named /\ IInv /\ [ServeNext]_serveVars => IInv'
<1> SUFFICES ASSUME Named, IInv, [ServeNext]_serveVars PROVE IInv'
  OBVIOUS
<1>1. CASE Open
  BY <1>1, OpenKeeps
<1>2. CASE Listen
  BY <1>2, ListenKeeps
<1>3. CASE End
  BY <1>3, EndKeeps
<1>4. CASE Accept
  BY <1>4, AcceptKeeps
<1>5. CASE Hand
  BY <1>5, HandKeeps
<1>6. CASE Returned
  BY <1>6, ReturnedKeeps
<1>7. ASSUME NEW t \in Threads, Construct(t) PROVE IInv'
  BY <1>7, ConstructKeeps
<1>8. ASSUME NEW t \in Threads, Attach(t) PROVE IInv'
  BY <1>8, AttachKeeps
<1>9. ASSUME NEW t \in Threads, Dial(t) PROVE IInv'
  BY <1>9, DialKeeps
<1>10. ASSUME NEW t \in Threads, Fails(t) PROVE IInv'
  BY <1>10, FailsKeeps
<1>11. ASSUME NEW t \in Threads, DisconnectObject(t) PROVE IInv'
  BY <1>11, DisconnectKeeps DEF DisconnectObject
<1>12. ASSUME NEW t \in Threads, Destruct(t) PROVE IInv'
  BY <1>12, DisconnectKeeps DEF Destruct
<1>13. CASE UNCHANGED serveVars
  BY <1>13 DEF serveVars, IInv, Typed, Accounted, Kept, Listens, NotYet, Holds, InHandle, Coming
<1> QED BY <1>1, <1>2, <1>3, <1>4, <1>5, <1>6, <1>7, <1>8, <1>9, <1>10, <1>11, <1>12, <1>13
        DEF ServeNext

LEMMA OwnFollows == Named /\ IInv => ClosesOwn
<1> SUFFICES ASSUME Named, IInv PROVE ClosesOwn
  OBVIOUS
<1>1. culprit # "given"
  BY DEF IInv
<1>2. ASSUME NEW t \in Threads, thread[t].pc = "ended", NEW f \in DOMAIN owner PROVE owner[f] # t
  <2>1. f \in Fd
    BY DEF IInv, Typed
  <2>2. ~InHandle(thread[t], f)
    BY <1>2 DEF InHandle
  <2>3. ~Coming(t, f)
    <3>1. \A i \in DOMAIN Served : i \in Nat
      BY DEF Named
    <3> QED BY <1>2, <3>1 DEF Coming, IInv, NotYet
  <2> QED BY <2>1, <2>2, <2>3 DEF IInv, Accounted, Holds
<1> QED BY <1>1, <1>2 DEF ClosesOwn

(* ClosesOwn, whatever the callbacks, the callers and the highest descriptor *)
(* are: esl_disconnect and the destructors of the objects close what their   *)
(* own constructors were given, and all of it (esl.c: 1123-1176).            *)
THEOREM ServerClosesOwn == ASSUME Named PROVE ServeSpec => []ClosesOwn
<1>1. ServeInit => IInv
  BY InitIInv
<1>2. IInv /\ [ServeNext]_serveVars => IInv'
  BY NextIInv
<1>3. IInv => ClosesOwn
  BY OwnFollows
<1> QED BY <1>1, <1>2, <1>3, PTL DEF ServeSpec
=============================================================================
