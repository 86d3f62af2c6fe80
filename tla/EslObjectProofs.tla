--------------------------- MODULE EslObjectProofs ---------------------------
(* What a caller of a connection object gets is its own, for any number of   *)
(* commands and events.                                                      *)
(*                                                                           *)
(* The invariant describes what is under way while the handle is connected:  *)
(* at most one reply, the one to the last command, at the place r; the       *)
(* events, in race_event first and then on the wire, numbered on from those  *)
(* that were delivered; and a notice of disconnection, behind everything.    *)
EXTENDS EslObject, Integers, TLAPS

Kinds == {"reply", "event", "data", "notice"}
Msg == [kind : Kinds, n : Nat]
Held == Msg \cup {None}

Typed ==
    /\ connected \in BOOLEAN /\ closed \in BOOLEAN /\ owed \in BOOLEAN
    /\ async_execute \in BOOLEAN /\ asked \in BOOLEAN /\ async \in BOOLEAN
    /\ sent \in Nat /\ answered \in Nat /\ published \in Nat
    /\ wire \in Seq(Msg) /\ race_event \in Seq(Msg) /\ delivered \in Seq(Nat)
    /\ last_event \in Held
    /\ call \in [op : Commands \cup Receives \cup {"none"}, saved : BOOLEAN]

(* The place of the i-th message among those that are no reply. *)
Shift(i, r) == IF i < r THEN i ELSE i - 1

(* w is in order: reply at r, or nowhere if r is behind it, events numbered   *)
(* on from base, and a notice at its end if the switch closed.               *)
IsEvent(m, n) == m.kind \in {"event", "data"} /\ m.n = n
Ordered(w, r, base, reply, over) ==
    /\ r \in 1 .. Len(w) + 1
    /\ \A i \in 1 .. Len(w) :
         IF i = r THEN w[i] = reply
         ELSE \/ w[i].kind = "notice" /\ i = Len(w) /\ over
              \/ IsEvent(w[i], base + Shift(i, r))

Base == Len(delivered) + Len(race_event)
Pending == Awaits \/ owed

(* What overtook a reply: events only, and a notice when nothing follows.    *)
Queued ==
    \A i \in 1 .. Len(race_event) :
      \/ race_event[i].kind = "notice" /\ i = Len(race_event) /\ wire = <<>> /\ closed
      \/ IsEvent(race_event[i], Len(delivered) + i)

UnderWay(r) ==
    /\ Ordered(wire, r, Base, Reply(sent), closed)
    /\ r <= Len(wire) => Pending /\ sent = answered
    /\ r > Len(wire) => sent = answered + (IF Pending THEN 1 ELSE 0)
    /\ ~closed => published = Base + Len(wire) - (IF r <= Len(wire) THEN 1 ELSE 0)

Connected == Queued /\ \E r \in 1 .. Len(wire) + 1 : UnderWay(r)

AsAsked ==
    /\ call.op # "executeAsync" => async_execute = asked
    /\ call.op = "executeAsync" => call.saved = asked

IInv ==
    /\ Typed /\ AsAsked /\ AnswersOwn
    /\ Awaits => ~owed
    /\ call # Idle => connected
    /\ connected => Connected

-----------------------------------------------------------------------------
(* What the steps make of messages in order. *)

LEMMA TailOfEvent ==
    ASSUME NEW w \in Seq(Msg), NEW r, NEW base \in Nat, NEW reply, NEW over \in BOOLEAN,
           Ordered(w, r, base, reply, over), w # <<>>, r # 1
    PROVE  /\ Ordered(Tail(w), r - 1, base + 1, reply, over)
           /\ \/ Head(w).kind = "notice" /\ Len(w) = 1 /\ over
              \/ IsEvent(Head(w), base + 1)
<1>1. Len(w) \in Nat /\ Len(w) >= 1 /\ r \in 2 .. Len(w) + 1
  BY DEF Ordered
<1>2. Len(Tail(w)) = Len(w) - 1 /\ Head(w) = w[1]
      /\ \A i \in 1 .. Len(w) - 1 : Tail(w)[i] = w[i + 1]
  BY <1>1
<1>3. \A i \in 1 .. Len(w) - 1 :
        /\ i + 1 \in 1 .. Len(w)
        /\ (i = r - 1 <=> i + 1 = r) /\ (i = Len(w) - 1 <=> i + 1 = Len(w))
        /\ base + Shift(i + 1, r) = (base + 1) + Shift(i, r - 1)
  BY <1>1 DEF Shift
<1>4. Ordered(Tail(w), r - 1, base + 1, reply, over)
  <2>1. r - 1 \in 1 .. Len(Tail(w)) + 1
    BY <1>1, <1>2
  <2>2. ASSUME NEW i \in 1 .. Len(w) - 1
        PROVE  IF i = r - 1 THEN Tail(w)[i] = reply
               ELSE \/ Tail(w)[i].kind = "notice" /\ i = Len(w) - 1 /\ over
                    \/ IsEvent(Tail(w)[i], (base + 1) + Shift(i, r - 1))
    <3>1. Tail(w)[i] = w[i + 1]
      BY <1>2
    <3>2. IF i + 1 = r THEN w[i + 1] = reply
          ELSE \/ w[i + 1].kind = "notice" /\ i + 1 = Len(w) /\ over
               \/ IsEvent(w[i + 1], base + Shift(i + 1, r))
      BY <1>3 DEF Ordered
    <3> QED BY <1>3, <3>1, <3>2
  <2> QED BY <1>2, <2>1, <2>2 DEF Ordered
<1>5. base + Shift(1, r) = base + 1
  BY <1>1 DEF Shift
<1>6. 1 \in 1 .. Len(w) /\ 1 # r
  BY <1>1
<1>7. \/ w[1].kind = "notice" /\ 1 = Len(w) /\ over
      \/ IsEvent(w[1], base + 1)
  BY <1>5, <1>6 DEF Ordered
<1> QED BY <1>2, <1>4, <1>7

LEMMA TailOfReply ==
    ASSUME NEW w \in Seq(Msg), NEW base \in Nat, NEW reply, NEW over,
           Ordered(w, 1, base, reply, over), w # <<>>
    PROVE  Head(w) = reply /\ \A other : Ordered(Tail(w), Len(w), base, other, over)
<1>1. Len(w) \in Nat /\ Len(w) >= 1
  OBVIOUS
<1>2. Len(Tail(w)) = Len(w) - 1 /\ Head(w) = w[1]
      /\ \A i \in 1 .. Len(w) - 1 : Tail(w)[i] = w[i + 1]
  BY <1>1
<1>3. ASSUME NEW i \in 1 .. Len(w) - 1
      PROVE  \/ Tail(w)[i].kind = "notice" /\ i = Len(w) - 1 /\ over
             \/ IsEvent(Tail(w)[i], base + Shift(i, Len(w)))
  <2>1. i + 1 \in 1 .. Len(w) /\ i + 1 # 1 /\ i # Len(w)
        /\ (i = Len(w) - 1 <=> i + 1 = Len(w))
        /\ Shift(i + 1, 1) = i /\ Shift(i, Len(w)) = i
    BY <1>1 DEF Shift
  <2> QED BY <1>2, <2>1 DEF Ordered
<1>4. \A i \in 1 .. Len(w) - 1 : i # Len(w)
  BY <1>1
<1>5. Len(w) \in 1 .. Len(Tail(w)) + 1
  BY <1>1, <1>2
<1>6. Head(w) = reply
  <2>1. 1 \in 1 .. Len(w)
    BY <1>1
  <2>2. w[1] = reply
    BY <2>1 DEF Ordered
  <2> QED BY <1>2, <2>2
<1> QED BY <1>2, <1>3, <1>4, <1>5, <1>6 DEF Ordered

(* r tells whether there is a reply. *)
LEMMA HeadOf ==
    ASSUME NEW w \in Seq(Msg), NEW r, NEW base \in Nat, NEW n, NEW over \in BOOLEAN,
           Ordered(w, r, base, Reply(n), over), w # <<>>
    PROVE  Head(w).kind = "reply" <=> r = 1
<1>1. CASE r = 1
  BY <1>1, TailOfReply DEF Reply
<1>2. CASE r # 1
  BY <1>2, TailOfEvent DEF IsEvent
<1> QED BY <1>1, <1>2

LEMMA WithMessage ==
    ASSUME NEW w \in Seq(Msg), NEW r, NEW base \in Nat, NEW reply,
           Ordered(w, r, base, reply, FALSE), NEW m \in Msg
    PROVE  /\ IsEvent(m, base + Len(w) + (IF r <= Len(w) THEN 0 ELSE 1)) =>
                Ordered(Append(w, m), IF r <= Len(w) THEN r ELSE r + 1, base, reply, FALSE)
           /\ m = reply /\ r = Len(w) + 1 => Ordered(Append(w, m), r, base, reply, FALSE)
           /\ m.kind = "notice" =>
                Ordered(Append(w, m), IF r <= Len(w) THEN r ELSE r + 1, base, reply, TRUE)
<1> DEFINE v == Append(w, m)
           s == IF r <= Len(w) THEN r ELSE r + 1
<1>1. Len(w) \in Nat /\ r \in 1 .. Len(w) + 1
  BY DEF Ordered
<1>2. /\ Len(v) = Len(w) + 1 /\ v[Len(w) + 1] = m
      /\ \A i \in 1 .. Len(w) : v[i] = w[i]
  OBVIOUS
<1>3. \A i \in 1 .. Len(w) : IF i = r THEN w[i] = reply ELSE IsEvent(w[i], base + Shift(i, r))
  BY DEF Ordered
<1>4. \A i \in 1 .. Len(w) : (i = s <=> i = r) /\ Shift(i, s) = Shift(i, r)
  BY <1>1 DEF Shift
<1>5. /\ s \in 1 .. Len(v) + 1 /\ r \in 1 .. Len(v) + 1 /\ Len(w) + 1 # s
      /\ base + Shift(Len(w) + 1, s) = base + Len(w) + (IF r <= Len(w) THEN 0 ELSE 1)
  BY <1>1, <1>2 DEF Shift
<1>6. \A i \in 1 .. Len(v) : i \in 1 .. Len(w) \/ i = Len(w) + 1
  BY <1>1, <1>2
<1> HIDE DEF v, s
<1>7. ASSUME IsEvent(m, base + Len(w) + (IF r <= Len(w) THEN 0 ELSE 1))
      PROVE  Ordered(v, s, base, reply, FALSE)
  <2>1. \A i \in 1 .. Len(w) : IF i = s THEN v[i] = reply ELSE IsEvent(v[i], base + Shift(i, s))
    BY <1>2, <1>3, <1>4
  <2>2. IsEvent(v[Len(w) + 1], base + Shift(Len(w) + 1, s))
    BY <1>2, <1>5, <1>7
  <2> QED BY <1>5, <1>6, <2>1, <2>2 DEF Ordered
<1>8. ASSUME m = reply, r = Len(w) + 1 PROVE Ordered(v, r, base, reply, FALSE)
  <2>1. \A i \in 1 .. Len(w) : i # r /\ IsEvent(v[i], base + Shift(i, r))
    BY <1>1, <1>2, <1>3, <1>8
  <2>2. v[r] = reply
    BY <1>2, <1>8
  <2> QED BY <1>5, <1>6, <1>8, <2>1, <2>2 DEF Ordered
<1>9. ASSUME m.kind = "notice" PROVE Ordered(v, s, base, reply, TRUE)
  <2>1. \A i \in 1 .. Len(w) : IF i = s THEN v[i] = reply ELSE IsEvent(v[i], base + Shift(i, s))
    BY <1>2, <1>3, <1>4
  <2>2. v[Len(w) + 1].kind = "notice" /\ Len(w) + 1 = Len(v)
    BY <1>2, <1>9
  <2> QED BY <1>5, <1>6, <2>1, <2>2 DEF Ordered
<1> QED BY <1>7, <1>8, <1>9 DEF v, s

-----------------------------------------------------------------------------
(* The calls that leave what is under way alone. *)

LEMMA KindsOf ==
    /\ Commands \cap Receives = {} /\ "none" \notin Commands \cup Receives
    /\ "executeAsync" \in Commands /\ "execute" \in Commands
    /\ Idle.op = "none" /\ Idle.saved = FALSE
BY DEF Commands, Receives, Executes, Idle

LEMMA FailedIsNoReply == \A op : Failed(op).kind # "reply"
BY DEF Failed, None, Disconnected

(* What is under way stays when neither it nor the caller's claim changes.   *)
LEMMA StillUnderWay ==
    ASSUME Connected, Pending' = Pending,
           UNCHANGED <<wire, race_event, delivered, sent, answered, published, closed>>
    PROVE  Connected'
<1>1. Queued'
  BY DEF Connected, Queued
<1>2. PICK r \in 1 .. Len(wire) + 1 : UnderWay(r)
  BY DEF Connected
<1>3. Base' = Base
  BY DEF Base
<1>4. UnderWay(r)'
  BY <1>2, <1>3 DEF UnderWay
<1> QED BY <1>1, <1>2, <1>4 DEF Connected

LEMMA InitIInv == ObjectInit => IInv
<1> SUFFICES ASSUME ObjectInit PROVE IInv
  OBVIOUS
<1>1. Typed
  <2>1. call \in [op : Commands \cup Receives \cup {"none"}, saved : BOOLEAN]
    BY DEF ObjectInit, Idle
  <2>2. last_event \in Held
    BY DEF ObjectInit, Held
  <2>3. wire \in Seq(Msg) /\ race_event \in Seq(Msg) /\ delivered \in Seq(Nat)
    <3>1. <<>> \in Seq(Msg) /\ <<>> \in Seq(Nat)
      OBVIOUS
    <3> QED BY <3>1 DEF ObjectInit
  <2>4. /\ connected \in BOOLEAN /\ closed \in BOOLEAN /\ owed \in BOOLEAN
        /\ async_execute \in BOOLEAN /\ asked \in BOOLEAN /\ async \in BOOLEAN
    BY DEF ObjectInit
  <2>5. sent \in Nat /\ answered \in Nat /\ published \in Nat
    BY DEF ObjectInit
  <2> QED BY <2>1, <2>2, <2>3, <2>4, <2>5 DEF Typed
<1>2. ~Awaits /\ ~owed /\ Base = 0 /\ call.op = "none" /\ wire = <<>>
  BY KindsOf DEF ObjectInit, Awaits, Base
<1>3. Queued
  BY DEF ObjectInit, Queued
<1>4. Ordered(wire, 1, Base, Reply(sent), closed)
  BY <1>2 DEF Ordered
<1>5. UnderWay(1)
  BY <1>2, <1>4 DEF UnderWay, ObjectInit, Pending
<1>6. AnswersOwn
  BY <1>2 DEF ObjectInit, AnswersOwn, None
<1>7. AsAsked
  BY <1>2 DEF ObjectInit, AsAsked
<1>8. 1 \in 1 .. Len(wire) + 1
  BY <1>2
<1> QED BY <1>1, <1>2, <1>3, <1>5, <1>6, <1>7, <1>8 DEF IInv, Connected, ObjectInit

LEMMA UnsentKeeps == ASSUME IInv, NEW op \in Commands, Unsent(op) PROVE IInv'
<1>1. Typed'
  BY DEF IInv, Typed, Unsent, switchVars
<1>2. call' = call /\ call = Idle /\ (Awaits' <=> Awaits)
  BY DEF Unsent, Awaits
<1>3. AsAsked'
  BY <1>2 DEF Unsent, IInv, AsAsked
<1>4. AnswersOwn'
  BY <1>2, FailedIsNoReply DEF Unsent, IInv, AnswersOwn
<1> QED BY <1>1, <1>2, <1>3, <1>4 DEF IInv, Unsent

LEMMA ReceiveKeeps == ASSUME IInv, NEW op \in Receives, Receive(op) PROVE IInv'
<1>0. call = Idle /\ ~Awaits
  BY KindsOf DEF Receive, Awaits
<1>1. CASE connected
  <2>1. call' = [Idle EXCEPT !.op = op] /\ answer' = None
    BY <1>1 DEF Receive
  <2>2. call'.op = op /\ call'.saved = FALSE
        /\ call' \in [op : Commands \cup Receives \cup {"none"}, saved : BOOLEAN]
    BY <2>1 DEF Idle
  <2>3. Typed'
    BY <2>2 DEF IInv, Typed, Receive, handleVars, switchVars
  <2>4. ~Awaits' /\ call'.op # "executeAsync"
    BY <2>2, KindsOf DEF Awaits
  <2>5. AsAsked'
    BY <1>0, <2>4, KindsOf DEF IInv, AsAsked, Receive, handleVars
  <2>6. AnswersOwn'
    BY <2>1, <2>4 DEF IInv, AnswersOwn, Receive, None
  <2>7. Pending' = Pending
    BY <1>0, <2>4 DEF Pending, Receive, IInv, Typed
  <2>8. Connected'
    BY <1>1, <2>7, StillUnderWay DEF IInv, Receive, handleVars, switchVars
  <2> QED BY <1>1, <2>3, <2>4, <2>5, <2>6, <2>8 DEF IInv, Receive, handleVars
<1>2. CASE ~connected
  <2>1. call' = Idle /\ answer' = Failed(op)
    BY <1>2 DEF Receive, Return
  <2>2. Typed'
    BY <1>0, <2>1 DEF IInv, Typed, Receive, handleVars, switchVars
  <2>3. AsAsked' /\ ~Awaits'
    BY <1>0, <2>1 DEF IInv, AsAsked, Receive, handleVars, Awaits
  <2>4. AnswersOwn'
    BY <2>1, <2>3, FailedIsNoReply DEF IInv, AnswersOwn, Receive
  <2> QED BY <1>2, <2>1, <2>2, <2>3, <2>4 DEF IInv, Receive, handleVars
<1> QED BY <1>1, <1>2 DEF IInv, Typed

LEMMA TimesOutKeeps == ASSUME IInv, TimesOut PROVE IInv'
<1>1. call.op \in Receives /\ call.op # "none" /\ ~Awaits
  BY KindsOf DEF TimesOut, Receives, Awaits
<1>2. call' = Idle /\ answer' = None /\ call'.op = "none" /\ ~Awaits'
  BY KindsOf DEF TimesOut, Return, Awaits
<1>3. Typed'
  BY <1>2, KindsOf DEF IInv, Typed, TimesOut, handleVars, switchVars, Idle
<1>4. AsAsked'
  BY <1>1, <1>2, KindsOf DEF IInv, AsAsked, TimesOut, handleVars
<1>5. AnswersOwn'
  BY <1>2 DEF IInv, AnswersOwn, TimesOut, None
<1>6. Pending' = Pending
  BY <1>1, <1>2 DEF Pending, TimesOut, IInv, Typed
<1>7. connected => Connected'
  BY <1>6, StillUnderWay DEF IInv, TimesOut, handleVars, switchVars
<1> QED BY <1>2, <1>3, <1>4, <1>5, <1>7 DEF IInv, TimesOut, handleVars

LEMMA SetKeeps == ASSUME IInv, Set PROVE IInv'
<1>1. call' = call /\ call = Idle /\ ~Awaits /\ ~Awaits' /\ call.op = "none"
  BY KindsOf DEF Set, Awaits
<1>2. Typed'
  BY DEF IInv, Typed, Set, switchVars
<1>3. AsAsked'
  BY <1>1 DEF AsAsked, Set
<1>4. AnswersOwn'
  BY <1>1 DEF IInv, AnswersOwn, Set
<1>5. Pending' = Pending
  BY <1>1 DEF Pending, Set, IInv, Typed
<1>6. connected => Connected'
  BY <1>5, StillUnderWay DEF IInv, Set, switchVars
<1> QED BY <1>1, <1>2, <1>3, <1>4, <1>6 DEF IInv, Set

LEMMA DisconnectKeeps == ASSUME IInv, Disconnect PROVE IInv'
<1>1. call' = call /\ call = Idle /\ ~Awaits /\ ~Awaits' /\ call.op = "none"
  BY KindsOf DEF Disconnect, Awaits
<1>2. Typed'
  <2>1. race_event' \in Seq(Msg) /\ last_event' \in Held
    <3>1. <<>> \in Seq(Msg)
      OBVIOUS
    <3> QED BY <3>1 DEF Disconnect, Held
  <2> QED BY <2>1 DEF IInv, Typed, Disconnect, switchVars
<1>3. AsAsked'
  BY <1>1 DEF AsAsked, Disconnect
<1>4. AnswersOwn'
  BY <1>1 DEF IInv, AnswersOwn, Disconnect
<1> QED BY <1>1, <1>2, <1>3, <1>4 DEF IInv, Disconnect

LEMMA LostKeeps == ASSUME IInv, Lost PROVE IInv'
<1>1. call' = Idle /\ answer' = Failed(call.op) /\ call'.op = "none" /\ ~Awaits'
  BY KindsOf DEF Lost, Return, Awaits
<1>2. async_execute' = asked
  BY DEF Lost, Restored, IInv, AsAsked
<1>3. Typed'
  BY <1>1, <1>2 DEF IInv, Typed, Lost, switchVars, Idle
<1>4. AsAsked'
  BY <1>1, <1>2 DEF AsAsked, Lost
<1>5. AnswersOwn'
  BY <1>1, FailedIsNoReply DEF IInv, AnswersOwn, Lost
<1> QED BY <1>1, <1>3, <1>4, <1>5 DEF IInv, Lost

-----------------------------------------------------------------------------
(* The calls that send. *)

(* No reply is due before a command is sent: all that is sent is answered.   *)
LEMMA NothingDue ==
    ASSUME IInv, MaySend
    PROVE  /\ ~Awaits /\ ~Pending /\ sent = answered /\ call.op = "none"
           /\ Queued /\ UnderWay(Len(wire) + 1)
<1>1. call.op = "none" /\ ~Awaits /\ ~Pending
  BY KindsOf DEF MaySend, Awaits, Pending
<1>2. PICK r \in 1 .. Len(wire) + 1 : UnderWay(r)
  BY DEF IInv, Connected, MaySend
<1>3. Len(wire) \in Nat /\ answered \in Nat /\ sent \in Nat
  BY DEF IInv, Typed
<1>4. r = Len(wire) + 1
  BY <1>1, <1>2, <1>3 DEF UnderWay
<1>5. sent = answered
  BY <1>1, <1>2, <1>3, <1>4 DEF UnderWay
<1> QED BY <1>1, <1>2, <1>4, <1>5 DEF IInv, Connected, MaySend

(* One more is sent, and the caller waits for the reply.                     *)
LEMMA OneIsDue ==
    ASSUME IInv, MaySend, sent' = sent + 1, Pending',
           UNCHANGED <<wire, race_event, delivered, published, answered, closed>>
    PROVE  Connected'
<1>1. sent = answered /\ Queued /\ UnderWay(Len(wire) + 1)
  BY NothingDue
<1>2. Base' = Base /\ Queued'
  BY <1>1 DEF Base, Queued
<1>3. Len(wire) \in Nat /\ answered \in Nat
  BY DEF IInv, Typed
<1>4. \A i \in 1 .. Len(wire) : i # Len(wire) + 1
  BY <1>3
<1>5. Ordered(wire, Len(wire) + 1, Base, Reply(sent'), closed)
  BY <1>1, <1>3, <1>4 DEF UnderWay, Ordered
<1>6. UnderWay(Len(wire) + 1)'
  BY <1>1, <1>2, <1>3, <1>5 DEF UnderWay
<1>7. Len(wire) + 1 \in 1 .. Len(wire) + 1
  BY <1>3
<1> QED BY <1>2, <1>6, <1>7 DEF Connected

LEMMA SendKeeps == ASSUME IInv, NEW op \in Commands, Send(op) PROVE IInv'
<1>1. MaySend
  BY DEF Send
<1>2. ~Awaits /\ call.op = "none"
  BY <1>1, NothingDue
<1>3. call'.op = op /\ call'.saved = asked /\ async_execute' = (asked \/ op = "executeAsync")
  BY <1>2 DEF Send, IInv, AsAsked
<1>4. Awaits' /\ ~owed'
  BY <1>1, <1>3 DEF Awaits, Send, MaySend
<1>5. Typed'
  <2>1. call' \in [op : Commands \cup Receives \cup {"none"}, saved : BOOLEAN]
    BY DEF Send, IInv, Typed
  <2>2. async_execute' \in BOOLEAN /\ async' \in BOOLEAN
    BY DEF Send
  <2>3. sent' \in Nat
    BY DEF Send, IInv, Typed
  <2> QED BY <2>1, <2>2, <2>3 DEF IInv, Typed, Send, switchVars
<1>6. AsAsked'
  <2>1. asked \in BOOLEAN /\ asked' = asked
    BY DEF IInv, Typed, Send
  <2>2. op # "executeAsync" => async_execute' = asked
    BY <1>3, <2>1
  <2> QED BY <1>3, <2>1, <2>2 DEF AsAsked
<1>7. AnswersOwn'
  <2>1. answer'.kind # "reply"
    BY DEF Send, None
  <2>2. async' <=> \/ call'.op = "executeAsync"
                   \/ call'.op = "execute" /\ asked'
    BY <1>3 DEF Send, Executes
  <2> QED BY <2>1, <2>2 DEF AnswersOwn, IInv, Send
<1>8. Connected'
  BY <1>1, <1>4, OneIsDue DEF Send, switchVars, Pending
<1> QED BY <1>1, <1>4, <1>5, <1>6, <1>7, <1>8 DEF IInv, Send, MaySend

LEMMA SendOnlyKeeps == ASSUME IInv, SendOnly PROVE IInv'
<1>1. MaySend /\ call' = call /\ call = Idle
  BY DEF SendOnly, MaySend
<1>2. ~Awaits /\ ~Awaits'
  BY <1>1, NothingDue DEF Awaits
<1>3. Typed'
  <2>1. sent \in Nat /\ (sent' = sent + 1 \/ sent' = sent)
    BY DEF IInv, Typed, SendOnly
  <2>2. sent' \in Nat
    BY <2>1
  <2>3. owed' \in BOOLEAN /\ connected' \in BOOLEAN
    BY Zenon DEF IInv, Typed, SendOnly
  <2> QED BY <2>2, <2>3 DEF IInv, Typed, SendOnly, switchVars
<1>4. AsAsked' /\ AnswersOwn'
  BY <1>1, <1>2 DEF IInv, AsAsked, AnswersOwn, SendOnly, None
<1>5. connected' => Connected'
  <2>1. connected' => sent' = sent + 1 /\ Pending'
    BY <1>1 DEF SendOnly, Pending, MaySend
  <2> QED BY <1>1, <2>1, OneIsDue DEF SendOnly, switchVars
<1> QED BY <1>1, <1>2, <1>3, <1>4, <1>5 DEF IInv

-----------------------------------------------------------------------------
(* What arrives while a command waits for its reply. *)

LEMMA OvertakenKeeps == ASSUME IInv, Overtaken PROVE IInv'
<1>1. /\ Awaits /\ call' = call /\ call # Idle /\ connected /\ connected' = connected
      /\ wire \in Seq(Msg) /\ wire # <<>> /\ Head(wire).kind # "reply"
      /\ race_event' = Append(race_event, Head(wire)) /\ wire' = Tail(wire)
      /\ Awaits' /\ Pending /\ Pending'
  BY KindsOf DEF IInv, Typed, Overtaken, Awaits, Pending
<1>2. Head(wire) \in Msg /\ Tail(wire) \in Seq(Msg)
  BY <1>1
<1>3. Typed'
  <2>1. race_event' \in Seq(Msg) /\ wire' \in Seq(Msg)
    BY <1>1, <1>2 DEF IInv, Typed
  <2> QED BY <2>1 DEF IInv, Typed, Overtaken
<1>4. AsAsked' /\ AnswersOwn' /\ (Awaits' => ~owed')
  BY DEF IInv, AsAsked, AnswersOwn, Overtaken, Awaits
<1>5. PICK r \in 1 .. Len(wire) + 1 : UnderWay(r)
  BY <1>1 DEF IInv, Connected
<1>6. Base \in Nat /\ Len(delivered) \in Nat /\ Len(race_event) \in Nat
      /\ Len(wire) \in Nat /\ Len(wire) >= 1
      /\ Len(race_event') = Len(race_event) + 1 /\ Len(wire') = Len(wire) - 1
  BY <1>1, <1>2 DEF Base, IInv, Typed
<1>7. r # 1
  BY <1>1, <1>5, <1>6, HeadOf DEF UnderWay, IInv, Typed
<1>8. /\ Ordered(Tail(wire), r - 1, Base + 1, Reply(sent), closed)
      /\ \/ Head(wire).kind = "notice" /\ Len(wire) = 1 /\ closed
         \/ IsEvent(Head(wire), Base + 1)
  <2>1. Ordered(wire, r, Base, Reply(sent), closed)
    BY <1>5 DEF UnderWay
  <2>2. closed \in BOOLEAN
    BY DEF IInv, Typed
  <2> QED BY <1>1, <1>6, <1>7, <2>1, <2>2, TailOfEvent
<1>9. Base' = Base + 1
  BY <1>6 DEF Base, Overtaken
<1>10. UnderWay(r - 1)'
  <2>1. r - 1 \in 1 .. Len(wire') + 1 /\ (r - 1 <= Len(wire') <=> r <= Len(wire))
        /\ (r - 1 > Len(wire') <=> r > Len(wire))
    BY <1>5, <1>6, <1>7
  <2>2. Ordered(wire', r - 1, Base', Reply(sent'), closed')
    BY <1>1, <1>8, <1>9 DEF Overtaken
  <2>3. /\ r - 1 <= Len(wire') => Pending' /\ sent' = answered'
        /\ r - 1 > Len(wire') => sent' = answered' + 1
    BY <1>1, <1>5, <2>1 DEF UnderWay, Overtaken
  <2>4. ~closed' => published' =
          Base' + Len(wire') - (IF r - 1 <= Len(wire') THEN 1 ELSE 0)
    BY <1>5, <1>6, <1>9, <2>1 DEF UnderWay, Overtaken
  <2> QED BY <1>1, <2>2, <2>3, <2>4 DEF UnderWay
<1>11. Queued'
  <2>1. \A i \in 1 .. Len(race_event) :
          /\ race_event'[i] = race_event[i]
          /\ IsEvent(race_event[i], Len(delivered) + i)
    BY <1>1, <1>2, <1>6 DEF IInv, Typed, Connected, Queued
  <2>2. race_event'[Len(race_event) + 1] = Head(wire)
    BY <1>1, <1>2 DEF IInv, Typed
  <2>3. ASSUME NEW i \in 1 .. Len(race_event')
        PROVE  \/ /\ race_event'[i].kind = "notice" /\ i = Len(race_event')
                  /\ wire' = <<>> /\ closed'
               \/ IsEvent(race_event'[i], Len(delivered') + i)
    <3>1. CASE i \in 1 .. Len(race_event)
      BY <2>1, <3>1 DEF Overtaken
    <3>2. CASE i = Len(race_event) + 1
      <4>1. Len(wire) = 1 => wire' = <<>>
        BY <1>1, <1>2, <1>6
      <4>2. Base + 1 = Len(delivered') + i
        BY <1>6, <3>2 DEF Base, Overtaken
      <4> QED BY <1>6, <1>8, <2>2, <3>2, <4>1, <4>2 DEF Overtaken
    <3> QED BY <1>6, <3>1, <3>2
  <2> QED BY <2>3 DEF Queued
<1>12. r - 1 \in 1 .. Len(wire') + 1
  BY <1>5, <1>6, <1>7
<1> QED BY <1>1, <1>3, <1>4, <1>10, <1>11, <1>12 DEF IInv, Connected

(* The reply that is taken is the one to the last command, and the last one. *)
LEMMA ReplyTaken ==
    ASSUME IInv, connected, wire # <<>>, Head(wire).kind = "reply", ~Pending',
           wire' = Tail(wire),
           UNCHANGED <<race_event, delivered, sent, published, answered, closed>>
    PROVE  Head(wire) = Reply(sent) /\ Connected'
<1>1. PICK r \in 1 .. Len(wire) + 1 : UnderWay(r)
  BY DEF IInv, Connected
<1>2. /\ wire \in Seq(Msg) /\ Len(wire) \in Nat /\ Len(wire) >= 1
      /\ Len(wire') = Len(wire) - 1 /\ Base \in Nat /\ Base' = Base
      /\ sent \in Nat /\ answered \in Nat
  BY DEF IInv, Typed, Base
<1>3. r = 1
  <2>1. closed \in BOOLEAN
    BY DEF IInv, Typed
  <2>2. Ordered(wire, r, Base, Reply(sent), closed)
    BY <1>1 DEF UnderWay
  <2> QED BY <1>2, <2>1, <2>2, HeadOf
<1> PICK k \in Nat : k = Len(wire)
  BY <1>2
<1>4. Head(wire) = Reply(sent) /\ Ordered(wire', k, Base', Reply(sent'), closed')
  BY <1>1, <1>2, <1>3, TailOfReply DEF UnderWay
<1>5. sent' = answered' /\ (~closed' => published' = Base' + Len(wire'))
  BY <1>1, <1>2, <1>3 DEF UnderWay
<1>6. UnderWay(k)'
  BY <1>2, <1>4, <1>5 DEF UnderWay
<1>7. Queued'
  BY DEF IInv, Connected, Queued
<1>8. k \in 1 .. Len(wire') + 1
  BY <1>2
<1> QED BY <1>4, <1>6, <1>7, <1>8 DEF Connected

LEMMA AnswerKeeps == ASSUME IInv, Answer PROVE IInv'
<1>1. /\ Awaits /\ ~owed /\ call # Idle /\ connected /\ connected' = connected
      /\ wire \in Seq(Msg) /\ wire # <<>> /\ Head(wire).kind = "reply" /\ wire' = Tail(wire)
  BY KindsOf DEF IInv, Typed, Answer, Awaits
<1>2. call' = Idle /\ call'.op = "none" /\ ~Awaits' /\ ~Pending'
  BY <1>1, KindsOf DEF Answer, Return, Awaits, Pending
<1>3. Head(wire) = Reply(sent) /\ Connected'
  BY <1>1, <1>2, ReplyTaken DEF Answer
<1>4. async_execute' = asked
  BY DEF Answer, Restored, IInv, AsAsked
<1>5. Typed'
  <2>1. wire' \in Seq(Msg)
    BY <1>1
  <2>2. call' \in [op : Commands \cup Receives \cup {"none"}, saved : BOOLEAN]
    BY <1>2 DEF Idle
  <2>3. async_execute' \in BOOLEAN
    BY <1>4 DEF IInv, Typed
  <2> QED BY <2>1, <2>2, <2>3 DEF IInv, Typed, Answer
<1>6. AsAsked'
  BY <1>2, <1>4 DEF AsAsked, Answer
<1>7. answer'.kind = "reply" => answer'.n = sent
  <2>1. CASE call.op = "sendEvent"
    <3>1. answer' = EventSent(last_event)
      BY <2>1 DEF Answer, Return
    <3>2. EventSent(last_event).kind \in {"last", "server_disconnected"}
      BY DEF EventSent, Disconnected, IInv, Typed, Held, Msg
    <3> QED BY <3>1, <3>2
  <2>2. CASE call.op # "sendEvent"
    <3>1. answer' = Replied(call.op, Head(wire))
      BY <2>2 DEF Answer, Return
    <3>2. answer' = None \/ answer' = Reply(sent)
      BY <1>3, <3>1 DEF Replied
    <3> QED BY <3>2 DEF None, Reply
  <2> QED BY <2>1, <2>2
<1>8. AnswersOwn'
  BY <1>2, <1>7 DEF AnswersOwn, IInv, Answer
<1> QED BY <1>1, <1>2, <1>3, <1>5, <1>6, <1>8 DEF IInv

-----------------------------------------------------------------------------
(* What the receives take. *)

(* From the events that overtook a reply: the next one. *)
LEMMA TakeQueuedKeeps == ASSUME IInv, Take, TakesQueued PROVE IInv'
<1> DEFINE m == Head(race_event)
<1>1. /\ call.op \in Receives /\ ~Awaits /\ call # Idle /\ connected
      /\ race_event \in Seq(Msg) /\ race_event # <<>>
      /\ race_event' = Tail(race_event) /\ wire' = wire /\ last_event' = m
      /\ owed' = (owed /\ m.kind # "reply")
  BY KindsOf DEF IInv, Typed, Take, TakesQueued, Awaits
<1>2. call' = Idle /\ call'.op = "none" /\ ~Awaits'
  BY KindsOf DEF Take, Return, Awaits
<1>3. /\ m \in Msg /\ Tail(race_event) \in Seq(Msg)
      /\ Len(race_event) \in Nat /\ Len(race_event) >= 1 /\ Len(delivered) \in Nat
      /\ Len(race_event') = Len(race_event) - 1 /\ m = race_event[1]
      /\ \A i \in 1 .. Len(race_event) - 1 : race_event'[i] = race_event[i + 1]
  BY <1>1 DEF IInv, Typed
<1>4. \/ m.kind = "notice"
      \/ IsEvent(m, Len(delivered) + 1)
  <2>1. 1 \in 1 .. Len(race_event) /\ Queued
    BY <1>1, <1>3 DEF IInv, Connected
  <2> QED BY <1>3, <2>1 DEF Queued
<1>5. owed' = owed
  BY <1>1, <1>4 DEF IsEvent, IInv, Typed
<1>6. call.op # "executeAsync" /\ AsAsked'
  <2>1. call.op # "executeAsync"
    BY <1>1, KindsOf
  <2> QED BY <1>2, <2>1 DEF IInv, AsAsked, Take
<1>7. delivered' \in Seq(Nat) /\ connected' \in BOOLEAN
  <2>1. CASE m.kind = "notice"
    BY <2>1 DEF Take, IInv, Typed
  <2>2. CASE m.kind # "notice" /\ m.kind # "reply"
    <3>1. delivered' = Append(delivered, m.n) /\ connected' = connected
      BY <2>2 DEF Take
    <3> QED BY <1>3, <3>1 DEF IInv, Typed, Msg
  <2> QED BY <1>4, <2>1, <2>2 DEF IsEvent
<1>8. Typed'
  <2>1. call' \in [op : Commands \cup Receives \cup {"none"}, saved : BOOLEAN]
    BY <1>2 DEF Idle
  <2>2. last_event' \in Held /\ race_event' \in Seq(Msg)
    BY <1>1, <1>3 DEF Held
  <2> QED BY <1>1, <1>5, <1>7, <2>1, <2>2 DEF IInv, Typed, Take
<1>9. CASE m.kind = "notice"
  <2>1. connected' = FALSE /\ answer' = Failed(call.op) /\ delivered' = delivered
    BY <1>9 DEF Take, Return
  <2>2. AnswersOwn'
    BY <1>2, <2>1, FailedIsNoReply DEF AnswersOwn, IInv
  <2> QED BY <1>2, <1>6, <1>8, <2>1, <2>2 DEF IInv
<1>10. CASE IsEvent(m, Len(delivered) + 1)
  <2>1. /\ connected' = connected /\ delivered' = Append(delivered, Len(delivered) + 1)
        /\ answer' = Inner(last_ievent', m)
        /\ last_ievent' = IF m.kind = "event" THEN [m EXCEPT !.kind = "inner"] ELSE None
    BY <1>10 DEF Take, IsEvent, Return
  <2>2. answer'.kind # "reply"
    <3>1. last_ievent' = None \/ last_ievent'.kind = "inner"
      BY <1>3, <2>1 DEF Msg
    <3> QED BY <1>10, <2>1, <3>1 DEF Inner, IsEvent, None
  <2>3. \A i \in DOMAIN delivered' : delivered'[i] = i
    BY <2>1 DEF IInv, Typed, AnswersOwn
  <2>4. AnswersOwn'
    BY <1>2, <2>2, <2>3 DEF AnswersOwn
  <2>5. Len(delivered') = Len(delivered) + 1 /\ Base' = Base
    BY <1>3, <2>1 DEF Base, IInv, Typed
  <2>6. Pending' = Pending
    BY <1>1, <1>2, <1>5 DEF Pending
  <2>7. PICK r \in 1 .. Len(wire) + 1 : UnderWay(r)
    BY <1>1 DEF IInv, Connected
  <2>8. UnderWay(r)'
    BY <1>1, <2>5, <2>6, <2>7 DEF UnderWay, Take
  <2>9. Queued'
    <3> SUFFICES ASSUME NEW i \in 1 .. Len(race_event')
                 PROVE  \/ /\ race_event'[i].kind = "notice" /\ i = Len(race_event')
                           /\ wire' = <<>> /\ closed'
                        \/ IsEvent(race_event'[i], Len(delivered') + i)
      BY DEF Queued
    <3>1. i + 1 \in 1 .. Len(race_event) /\ race_event'[i] = race_event[i + 1]
          /\ (i + 1 = Len(race_event) <=> i = Len(race_event'))
          /\ Len(delivered) + (i + 1) = Len(delivered') + i
      BY <1>3, <2>5
    <3> QED BY <1>1, <3>1 DEF IInv, Connected, Queued, Take
  <2> QED BY <1>1, <1>2, <1>6, <1>8, <2>1, <2>4, <2>7, <2>8, <2>9 DEF IInv, Connected
<1> QED BY <1>4, <1>9, <1>10

(* From the wire, when there are none: the next event or the reply.          *)
LEMMA TakeWireKeeps == ASSUME IInv, Take, ~TakesQueued PROVE IInv'
<1> DEFINE m == Head(wire)
<1>1. /\ call.op \in Receives /\ ~Awaits /\ call # Idle /\ connected
      /\ wire \in Seq(Msg) /\ wire # <<>> /\ race_event = <<>> /\ race_event' = <<>>
      /\ wire' = Tail(wire) /\ last_event' = m
      /\ owed' = (owed /\ m.kind # "reply")
  BY KindsOf DEF IInv, Typed, Take, TakesQueued, Awaits
<1>2. call' = Idle /\ call'.op = "none" /\ ~Awaits'
  BY KindsOf DEF Take, Return, Awaits
<1>3. /\ m \in Msg /\ Tail(wire) \in Seq(Msg) /\ Len(delivered) \in Nat
      /\ Len(wire) \in Nat /\ Len(wire) >= 1 /\ Len(wire') = Len(wire) - 1
  BY <1>1 DEF IInv, Typed
<1>4. call.op # "executeAsync" /\ AsAsked'
  <2>1. call.op # "executeAsync"
    BY <1>1, KindsOf
  <2> QED BY <1>2, <2>1 DEF IInv, AsAsked, Take
<1>5. delivered' \in Seq(Nat) /\ connected' \in BOOLEAN /\ owed' \in BOOLEAN
  <2>1. delivered' = delivered \/ delivered' = Append(delivered, m.n)
    BY <1>1 DEF Take
  <2>2. delivered' \in Seq(Nat)
    <3>1. m.n \in Nat /\ delivered \in Seq(Nat)
      BY <1>3 DEF IInv, Typed, Msg
    <3> HIDE DEF m
    <3> QED BY <2>1, <3>1
  <2>3. connected' \in BOOLEAN
    BY DEF Take, IInv, Typed
  <2> QED BY <1>1, <2>2, <2>3
<1>6. Typed'
  <2>1. call' \in [op : Commands \cup Receives \cup {"none"}, saved : BOOLEAN]
    BY <1>2 DEF Idle
  <2>2. last_event' \in Held /\ wire' \in Seq(Msg) /\ race_event' \in Seq(Msg)
    <3>1. <<>> \in Seq(Msg)
      OBVIOUS
    <3> QED BY <1>1, <1>3, <3>1 DEF Held
  <2> QED BY <1>5, <2>1, <2>2 DEF IInv, Typed, Take
<1>7. CASE m.kind = "notice"
  <2>1. connected' = FALSE /\ answer' = Failed(call.op) /\ delivered' = delivered
    BY <1>1, <1>7 DEF Take, Return
  <2>2. AnswersOwn'
    BY <1>2, <2>1, FailedIsNoReply DEF AnswersOwn, IInv
  <2> QED BY <1>2, <1>4, <1>6, <2>1, <2>2 DEF IInv
<1>8. CASE m.kind = "reply"
  <2>1. /\ connected' = connected /\ delivered' = delivered
        /\ last_ievent' = None /\ answer' = Inner(last_ievent', m)
    BY <1>1, <1>8 DEF Take, Return
  <2>2. ~Pending'
    BY <1>1, <1>2, <1>8 DEF Pending
  <2>3. m = Reply(sent) /\ Connected'
    BY <1>1, <1>8, <2>1, <2>2, ReplyTaken DEF Take
  <2>4. AnswersOwn'
    <3>1. answer' = m
      BY <2>1 DEF Inner
    <3> QED BY <1>2, <2>1, <2>3, <3>1 DEF AnswersOwn, IInv, Reply, Take
  <2> QED BY <1>1, <1>2, <1>4, <1>6, <2>1, <2>3, <2>4 DEF IInv
<1>9. CASE m.kind # "notice" /\ m.kind # "reply"
  <2>1. PICK r \in 1 .. Len(wire) + 1 : UnderWay(r)
    BY <1>1 DEF IInv, Connected
  <2>2. Base = Len(delivered) /\ closed \in BOOLEAN
    BY <1>1, <1>3 DEF Base, IInv, Typed
  <2>3. Ordered(wire, r, Base, Reply(sent), closed)
    BY <2>1 DEF UnderWay
  <2>4. r # 1
    BY <1>1, <1>3, <1>9, <2>2, <2>3, HeadOf
  <2>5. /\ Ordered(Tail(wire), r - 1, Base + 1, Reply(sent), closed)
        /\ IsEvent(m, Base + 1)
    BY <1>1, <1>3, <1>9, <2>2, <2>3, <2>4, TailOfEvent
  <2>6. /\ connected' = connected /\ delivered' = Append(delivered, Len(delivered) + 1)
        /\ answer' = Inner(last_ievent', m)
        /\ last_ievent' = IF m.kind = "event" THEN [m EXCEPT !.kind = "inner"] ELSE None
    BY <1>1, <1>9, <2>2, <2>5 DEF Take, IsEvent, Return
  <2>7. answer'.kind # "reply"
    <3>1. last_ievent' = None \/ last_ievent'.kind = "inner"
      BY <1>3, <2>6 DEF Msg
    <3> QED BY <1>9, <2>6, <3>1 DEF Inner
  <2>8. \A i \in DOMAIN delivered' : delivered'[i] = i
    BY <2>6 DEF IInv, Typed, AnswersOwn
  <2>9. AnswersOwn'
    BY <1>2, <2>7, <2>8 DEF AnswersOwn
  <2>10. Base' = Base + 1
    BY <1>1, <1>3, <2>2, <2>6 DEF Base, IInv, Typed
  <2>11. Pending' = Pending
    BY <1>1, <1>2, <1>9 DEF Pending, IInv, Typed
  <2>12. UnderWay(r - 1)'
    <3>1. r - 1 \in 1 .. Len(wire') + 1 /\ (r - 1 <= Len(wire') <=> r <= Len(wire))
          /\ (r - 1 > Len(wire') <=> r > Len(wire))
      BY <1>3, <2>1, <2>4
    <3>2. Ordered(wire', r - 1, Base', Reply(sent'), closed')
      BY <1>1, <2>5, <2>10 DEF Take
    <3>3. /\ r - 1 <= Len(wire') => Pending' /\ sent' = answered'
          /\ r - 1 > Len(wire') => sent' = answered' + (IF Pending' THEN 1 ELSE 0)
      BY <2>1, <2>11, <3>1 DEF UnderWay, Take
    <3>4. ~closed' => published' =
            Base' + Len(wire') - (IF r - 1 <= Len(wire') THEN 1 ELSE 0)
      BY <1>3, <2>1, <2>2, <2>10, <3>1 DEF UnderWay, Take
    <3> QED BY <3>2, <3>3, <3>4 DEF UnderWay
  <2>13. Queued' /\ r - 1 \in 1 .. Len(wire') + 1
    BY <1>1, <1>3, <2>1, <2>4 DEF Queued
  <2> QED BY <1>1, <1>2, <1>4, <1>6, <2>6, <2>9, <2>12, <2>13 DEF IInv, Connected
<1> QED BY <1>7, <1>8, <1>9

LEMMA TakeKeeps == ASSUME IInv, Take PROVE IInv'
BY TakeQueuedKeeps, TakeWireKeeps

-----------------------------------------------------------------------------
(* The steps of the switch. *)

(* What it adds leaves the calls alone. *)
LEMMA SwitchKeeps ==
    ASSUME IInv, Typed', connected => Connected',
           UNCHANGED <<handleVars, call, answer, delivered, sent, async, asked, owed>>
    PROVE  IInv'
BY DEF IInv, AsAsked, AnswersOwn, Awaits, handleVars

LEMMA AnswersKeeps == ASSUME IInv, Answers PROVE IInv'
<1>1. /\ wire' = Append(wire, Reply(sent')) \/ ~connected
      /\ connected => /\ Len(wire) + 1 \in Nat /\ UnderWay(Len(wire) + 1)
                      /\ Pending /\ sent = answered + 1
  <2>1. CASE connected
    <3>1. PICK r \in 1 .. Len(wire) + 1 : UnderWay(r)
      BY <2>1 DEF IInv, Connected
    <3>2. Len(wire) \in Nat /\ sent \in Nat /\ answered \in Nat /\ answered < sent
      BY DEF IInv, Typed, Answers
    <3>3. r = Len(wire) + 1
      BY <3>1, <3>2 DEF UnderWay
    <3>4. Pending /\ sent = answered + 1
      BY <3>1, <3>2, <3>3 DEF UnderWay
    <3> QED BY <3>1, <3>2, <3>3, <3>4 DEF Answers
  <2> QED BY <2>1
<1>2. Typed'
  <2>1. answered + 1 \in Nat /\ Reply(answered + 1) \in Msg
    BY DEF IInv, Typed, Reply, Msg, Kinds
  <2>2. answered' \in Nat /\ wire' \in Seq(Msg)
    BY <2>1 DEF IInv, Typed, Answers
  <2> QED BY <2>2 DEF IInv, Typed, Answers, handleVars
<1>3. connected => Connected'
  <2> SUFFICES ASSUME connected PROVE Connected'
    OBVIOUS
  <2> PICK k \in Nat : k = Len(wire) + 1
    BY <1>1
  <2>1. /\ wire \in Seq(Msg) /\ Base \in Nat /\ Base' = Base /\ Len(wire) \in Nat
        /\ sent' = sent /\ closed = FALSE /\ closed' = FALSE /\ sent \in Nat
        /\ Reply(sent) \in Msg /\ wire' = Append(wire, Reply(sent)) /\ Len(wire') = k
    <3>1. sent \in Nat /\ answered \in Nat /\ sent = answered + 1
      BY <1>1 DEF IInv, Typed
    <3>2. Reply(sent) \in Msg /\ wire' = Append(wire, Reply(sent))
      BY <3>1 DEF Answers, Reply, Msg, Kinds
    <3>3. closed = FALSE /\ closed' = FALSE
      BY Zenon DEF IInv, Typed, Answers
    <3>4. wire \in Seq(Msg) /\ Base \in Nat /\ Base' = Base /\ sent' = sent
      BY DEF IInv, Typed, Base, Answers, handleVars
    <3> QED BY <3>1, <3>2, <3>3, <3>4
  <2>2. Ordered(wire, k, Base, Reply(sent), FALSE)
    <3>1. Ordered(wire, k, Base, Reply(sent), closed)
      BY <1>1 DEF UnderWay
    <3> QED BY <2>1, <3>1
  <2>3. Ordered(wire', k, Base', Reply(sent'), FALSE)
    <3>1. k = Len(wire) + 1 /\ Base' = Base /\ Reply(sent') = Reply(sent)
      BY <2>1
    <3>2. Ordered(Append(wire, Reply(sent)), k, Base, Reply(sent), FALSE)
      BY <2>1, <2>2, <3>1, WithMessage
    <3> QED BY <2>1, <3>1, <3>2
  <2>4. Pending' /\ sent' = answered'
    BY <1>1 DEF Pending, Awaits, Answers
  <2>5. published' = Base' + Len(wire') - 1
    BY <1>1, <2>1 DEF UnderWay, Answers
  <2>6. UnderWay(k)'
    <3>1. k <= Len(wire') /\ ~(k > Len(wire'))
      BY <2>1
    <3>2. closed' = FALSE
      BY <2>1 DEF IInv, Typed, Answers
    <3> QED BY <2>3, <2>4, <2>5, <3>1, <3>2 DEF UnderWay
  <2>7. Queued'
    BY <2>1 DEF IInv, Connected, Queued, Answers, handleVars
  <2>8. k \in 1 .. Len(wire') + 1
    BY <2>1
  <2> QED BY <2>6, <2>7, <2>8 DEF Connected
<1> QED BY <1>2, <1>3, SwitchKeeps DEF Answers

LEMMA PublishesKeeps == ASSUME IInv, Publishes PROVE IInv'
<1> PICK m : m.kind \in {"event", "data"} /\ m = [kind |-> m.kind, n |-> published + 1]
             /\ wire' = Append(wire, m)
  BY DEF Publishes
<1>1. published + 1 \in Nat /\ m.n = published + 1 /\ m \in Msg
  BY DEF IInv, Typed, Msg, Kinds
<1>2. Typed'
  <2>1. published' \in Nat /\ wire' \in Seq(Msg)
    BY <1>1 DEF IInv, Typed, Publishes
  <2> QED BY <2>1 DEF IInv, Typed, Publishes, handleVars
<1>3. connected => Connected'
  <2> SUFFICES ASSUME connected PROVE Connected'
    OBVIOUS
  <2>1. /\ wire \in Seq(Msg) /\ Base \in Nat /\ Base' = Base /\ Len(wire) \in Nat
        /\ closed = FALSE /\ closed' = FALSE /\ Len(wire') = Len(wire) + 1
        /\ sent' = sent /\ answered' = answered
    BY <1>1 DEF IInv, Typed, Base, Publishes, handleVars
  <2>2. PICK r \in 1 .. Len(wire) + 1 : UnderWay(r)
    BY DEF IInv, Connected
  <2> PICK k \in Nat : k = IF r <= Len(wire) THEN r ELSE r + 1
    BY <2>1
  <2>3. Ordered(wire, r, Base, Reply(sent), FALSE)
    BY <2>1, <2>2 DEF UnderWay
  <2>4. published = Base + Len(wire) - (IF r <= Len(wire) THEN 1 ELSE 0)
    BY <2>1, <2>2 DEF UnderWay
  <2>5. IsEvent(m, Base + Len(wire) + (IF r <= Len(wire) THEN 0 ELSE 1))
    BY <1>1, <2>1, <2>4 DEF IsEvent
  <2>6. Ordered(wire', k, Base', Reply(sent'), FALSE)
    BY <1>1, <2>1, <2>3, <2>5, WithMessage
  <2>7. Pending' = Pending
    BY DEF Pending, Awaits, Publishes
  <2>8. k \in 1 .. Len(wire') + 1 /\ (k <= Len(wire') <=> r <= Len(wire))
        /\ (k > Len(wire') <=> r > Len(wire))
    BY <2>1, <2>2
  <2>9. published' = Base' + Len(wire') - (IF k <= Len(wire') THEN 1 ELSE 0)
    <3>1. published' = published + 1
      BY DEF Publishes
    <3>2. CASE r <= Len(wire)
      BY <2>1, <2>4, <2>8, <3>1, <3>2
    <3>3. CASE ~(r <= Len(wire))
      BY <2>1, <2>4, <2>8, <3>1, <3>3
    <3> QED BY <3>2, <3>3
  <2>10. UnderWay(k)'
    BY <2>1, <2>2, <2>6, <2>7, <2>8, <2>9 DEF UnderWay
  <2>11. Queued'
    BY <2>1 DEF IInv, Connected, Queued, Publishes, handleVars
  <2> QED BY <2>8, <2>10, <2>11 DEF Connected
<1> QED BY <1>2, <1>3, SwitchKeeps DEF Publishes

LEMMA ClosesKeeps == ASSUME IInv, Closes PROVE IInv'
<1> DEFINE m == [kind |-> "notice", n |-> 0]
<1>1. m \in Msg /\ m.kind = "notice"
  BY DEF Msg, Kinds
<1> HIDE DEF m
<1>2. wire' = wire \/ wire' = Append(wire, m)
  BY DEF Closes, m
<1>3. Typed'
  <2>1. wire \in Seq(Msg)
    BY DEF IInv, Typed
  <2>2. Append(wire, m) \in Seq(Msg)
    BY <1>1, <2>1
  <2>3. wire' \in Seq(Msg)
    BY <1>2, <2>1, <2>2
  <2> QED BY <2>3 DEF IInv, Typed, Closes, handleVars
<1>4. connected => Connected'
  <2> SUFFICES ASSUME connected PROVE Connected'
    OBVIOUS
  <2>1. /\ wire \in Seq(Msg) /\ Base \in Nat /\ Base' = Base /\ Len(wire) \in Nat
        /\ closed = FALSE /\ closed' = TRUE /\ sent' = sent /\ answered' = answered
    BY DEF IInv, Typed, Base, Closes, handleVars
  <2>2. PICK r \in 1 .. Len(wire) + 1 : UnderWay(r)
    BY DEF IInv, Connected
  <2>3. Ordered(wire, r, Base, Reply(sent), FALSE)
    BY <2>1, <2>2 DEF UnderWay
  <2>4. Pending' = Pending
    BY DEF Pending, Awaits, Closes
  <2>5. Queued'
    BY <2>1 DEF IInv, Connected, Queued, Closes, handleVars
  <2>6. CASE wire' = wire
    <3>1. Ordered(wire', r, Base', Reply(sent'), TRUE)
      BY <2>1, <2>3, <2>6 DEF Ordered
    <3>2. UnderWay(r)'
      BY <2>1, <2>2, <2>4, <2>6, <3>1 DEF UnderWay
    <3> QED BY <2>5, <2>6, <3>2 DEF Connected
  <2>7. CASE wire' = Append(wire, m)
    <3> PICK k \in Nat : k = IF r <= Len(wire) THEN r ELSE r + 1
      BY <2>1
    <3>1. Ordered(wire', k, Base', Reply(sent'), TRUE)
      BY <1>1, <2>1, <2>3, <2>7, WithMessage
    <3>2. Len(wire') = Len(wire) + 1
      BY <1>1, <2>1, <2>7
    <3>3. k \in 1 .. Len(wire') + 1 /\ (k <= Len(wire') <=> r <= Len(wire))
          /\ (k > Len(wire') <=> r > Len(wire))
      BY <2>1, <2>2, <3>2
    <3>4. UnderWay(k)'
      BY <2>1, <2>2, <2>4, <3>1, <3>3 DEF UnderWay
    <3> QED BY <2>5, <3>3, <3>4 DEF Connected
  <2> QED BY <1>2, <2>6, <2>7
<1> QED BY <1>3, <1>4, SwitchKeeps DEF Closes

-----------------------------------------------------------------------------
LEMMA NextIInv == IInv /\ [ObjectNext]_objectVars => IInv'
<1> SUFFICES ASSUME IInv, [ObjectNext]_objectVars PROVE IInv'
  OBVIOUS
<1>1. ASSUME NEW op \in Commands, Unsent(op) \/ Send(op) PROVE IInv'
  BY <1>1, UnsentKeeps, SendKeeps
<1>2. CASE SendOnly \/ Overtaken \/ Answer \/ Lost
  BY <1>2, SendOnlyKeeps, OvertakenKeeps, AnswerKeeps, LostKeeps
<1>3. ASSUME NEW op \in Receives, Receive(op) PROVE IInv'
  BY <1>3, ReceiveKeeps
<1>4. CASE Take \/ TimesOut \/ Set \/ Disconnect
  BY <1>4, TakeKeeps, TimesOutKeeps, SetKeeps, DisconnectKeeps
<1>5. CASE Answers \/ Publishes \/ Closes
  BY <1>5, AnswersKeeps, PublishesKeeps, ClosesKeeps
<1>6. CASE UNCHANGED objectVars
  <2>1. Pending' = Pending
    BY <1>6 DEF objectVars, Pending, Awaits
  <2>2. connected => Connected'
    BY <1>6, <2>1, StillUnderWay DEF objectVars, IInv, switchVars, handleVars
  <2>3. Typed'
    BY <1>6 DEF objectVars, IInv, Typed, switchVars, handleVars
  <2> QED BY <1>6, <2>2, <2>3, SwitchKeeps DEF objectVars
<1> QED BY <1>1, <1>2, <1>3, <1>4, <1>5, <1>6 DEF ObjectNext, Client

(* AnswersOwn, for any number of commands and events: the methods of         *)
(* ESLconnection hand over the reply to their own command, the events in     *)
(* their order and each once, and run a command the way the caller asked     *)
(* for (esl_oop.cpp: 111-270).                                               *)
THEOREM ObjectAnswersOwn == ObjectSpec => []AnswersOwn
<1>1. IInv => AnswersOwn
  BY DEF IInv
<1> QED BY <1>1, InitIInv, NextIInv, PTL DEF ObjectSpec
=============================================================================
