--------------------------- MODULE EslHandleProofs ---------------------------
(***************************************************************************)
(* The handle, for any number of threads of each kind, events and commands.*)
(*                                                                         *)
(* IInv ties the position of a thread to the call it is in and to the      *)
(* recursive lock count: the lock discipline.  DInv adds what esl_disconnect*)
(* leaves behind: late calls are turned away, the freed events untouched.  *)
(* LInv adds what one esl_disconnect at a time may count on.               *)
(* FInv adds where each message is: the flow of events, which is never cut *)
(* while the connection is up, and the stream the handle implements.       *)
(* OInv adds what a program of one thread is owed: the reply to a command. *)
(***************************************************************************)
EXTENDS EslHandle, TLAPS, WellFoundedInduction

Call == [op : {"none", "send_recv", "recv", "disconnect"}, timed : BOOLEAN,
         tried : BOOLEAN, cmd : Nat, up : BOOLEAN]

Typed ==
  /\ pc \in [Thread -> Label]
  /\ call \in [Thread -> Call]
  /\ status \in [Thread -> Status]
  /\ owner \in Thread \cup {NoThread}
  /\ depth \in Int /\ mutex \in {"live", "freed"}
  /\ issued \in Nat

\* Which call a thread at label p can be in, and whether it can have got the
\* lock by trylock.
Fits(p, c) ==
  /\ p = "idle" => c.op = "none" /\ ~c.tried
  /\ p # "idle" => c.op # "none"
  /\ p \in {"sr_lock", "sr_recv", "sr_check", "sr_relock"} =>
       c.op = "send_recv" /\ ~c.tried
  /\ p \in {"rt_enter", "rt_queue", "rt_poll", "rt_trylock"} =>
       c.op \in {"send_recv", "recv"} /\ ~c.tried
  /\ p = "rt_unlock" => c.op \in {"send_recv", "recv"} /\ c.tried
  /\ p \in {"re_enter", "re_lock", "re_loop", "re_body", "re_parse", "re_fail",
            "re_dead"} => c.op \in {"send_recv", "recv"}
  /\ p \in {"dc_lock", "dc_unlock", "dc_relock", "dc_reunlock", "dc_destroy", "dc_wipe"} =>
       c.op = "disconnect" /\ ~c.tried

IInv ==
  /\ Typed
  /\ \A t \in Thread : Fits(pc[t], call[t])
  /\ LockBalanced

\* How the step of t moves the lock: not at all, up, or down, and with it what
\* its position says it holds.
Others(t) == \A u \in Thread \ {t} : pc'[u] = pc[u] /\ call'[u] = call[u]

Keeps(t) == Levels(t)' = Levels(t) /\ UNCHANGED mutexVars
Takes(t) == Levels(t)' = Levels(t) + 1 /\ Lock(t)
Gives(t) == Levels(t)' = Levels(t) - 1 /\ Unlock(t)

Moves(t) == Keeps(t) \/ Takes(t) \/ Gives(t)

LEMMA LevelsNat ==
  ASSUME NEW t \in Thread PROVE Levels(t) \in 0..3
BY DEF Levels, LevelsAt

\* A step that moves the lock as its positions say keeps it balanced.
LEMMA MovesBalanced ==
  ASSUME IInv, NEW t \in Thread, Others(t), Moves(t), destroyed => destroyed'
  PROVE  /\ LockBalanced' /\ mutex' \in {"live", "freed"}
         /\ owner' \in Thread \cup {NoThread} /\ depth' \in Int
<1>1. \A u \in Thread \ {t} : Levels(u)' = Levels(u)
  BY DEF Others, Levels
<1>2. \A u \in Thread : Levels(u) \in Nat
  BY LevelsNat
<1>3. \A u \in Thread : Levels(u)' \in Nat
  BY DEF Levels, LevelsAt
<1>4. NoThread \notin Thread /\ t # NoThread
  BY HandleAssumption
<1>5. CASE Keeps(t)
  BY <1>1, <1>5 DEF IInv, Typed, LockBalanced, Keeps, mutexVars
<1>6. CASE Takes(t)
  BY <1>1, <1>2, <1>4, <1>6 DEF IInv, Typed, LockBalanced, Takes, Lock, Free
<1>7. CASE Gives(t)
  <2>1. mutex' = mutex /\ owner' \in Thread \cup {NoThread} /\ depth' \in Int
    BY <1>7 DEF Gives, Unlock, IInv, Typed
  <2>2. SUFFICES ASSUME mutex = "live", ~destroyed
                 PROVE  /\ \A u \in Thread : Levels(u)' = IF owner' = u THEN depth' ELSE 0
                        /\ owner' = NoThread <=> depth' = 0
    BY <2>1 DEF LockBalanced, IInv, Typed, Levels
  <2>3. Levels(t) > 0
    BY <1>2, <1>3, <1>7 DEF Gives
  <2>4. owner = t /\ depth = Levels(t)
    BY <2>2, <2>3 DEF IInv, LockBalanced
  <2>5. QED
    BY <1>1, <1>2, <1>4, <1>7, <2>2, <2>3, <2>4 DEF IInv, Typed, LockBalanced, Gives, Unlock
<1>8. QED
  BY <1>5, <1>6, <1>7 DEF Moves

\* A step of t that fits it into its new call.
LEMMA StepKeeps ==
  ASSUME IInv, NEW t \in Thread, Others(t), Moves(t), destroyed => destroyed',
         pc' \in [Thread -> Label], call' \in [Thread -> Call],
         status' \in [Thread -> Status], issued' \in Nat, Fits(pc'[t], call'[t])
  PROVE  IInv'
<1>1. \A u \in Thread : Fits(pc[u], call[u])'
  BY DEF IInv, Others
<1>2. QED
  BY <1>1, MovesBalanced DEF IInv, Typed

\* What the functions of esl.c share: how a call goes on and how it ends.
LEMMA ContinueTyped ==
  ASSUME Typed, NEW t \in Thread, NEW label \in Label, Continue(t, label)
  PROVE  /\ pc' \in [Thread -> Label] /\ call' \in [Thread -> Call]
         /\ status' \in [Thread -> Status]
         /\ pc'[t] = label /\ call'[t] = call[t] /\ Others(t)
BY DEF Typed, Continue, Goto, Others

LEMMA FinishTyped ==
  ASSUME Typed, NEW t \in Thread, NEW s \in Status, Finish(t, s)
  PROVE  /\ pc' \in [Thread -> Label] /\ call' \in [Thread -> Call]
         /\ status' \in [Thread -> Status]
         /\ pc'[t] = "idle" /\ call'[t] = NoCall /\ Others(t)
BY DEF Typed, Finish, Goto, Others, Label, NoCall, Call, Status

LEMMA TimedReturnTyped ==
  ASSUME Typed, NEW t \in Thread, NEW s \in Status, TimedReturn(t, s)
  PROVE  /\ pc' \in [Thread -> Label] /\ call' \in [Thread -> Call]
         /\ status' \in [Thread -> Status]
         /\ Others(t)
         /\ \/ call[t].op = "recv" /\ pc'[t] = "idle" /\ call'[t] = NoCall
            \/ /\ call[t].op = "send_recv" /\ pc'[t] = "sr_check"
               /\ call'[t].op = "send_recv" /\ call'[t].tried = FALSE
               /\ call'[t].up = call[t].up
<1>1. CASE call[t].op = "recv"
  BY <1>1, FinishTyped DEF TimedReturn
<1>2. CASE call[t].op = "send_recv"
  <2>1. PICK c \in Call : c = [call[t] EXCEPT !.tried = FALSE]
    BY DEF Typed, Call
  <2>2. c.op = call[t].op /\ c.tried = FALSE /\ c.up = call[t].up
    BY <2>1 DEF Typed, Call
  <2>3. call' = [call EXCEPT ![t] = c]
    BY <1>2, <2>1 DEF TimedReturn
  <2>4. QED
    BY <1>2, <2>2, <2>3 DEF Typed, TimedReturn, Goto, Others, Label
<1>3. QED
  BY <1>1, <1>2 DEF TimedReturn

LEMMA EventReturnTyped ==
  ASSUME Typed, NEW t \in Thread, NEW s \in Status, EventReturn(t, s)
  PROVE  /\ pc' \in [Thread -> Label] /\ call' \in [Thread -> Call]
         /\ status' \in [Thread -> Status]
         /\ Others(t)
         /\ \/ call[t].tried /\ pc'[t] = "rt_unlock" /\ call'[t] = call[t]
            \/ ~call[t].tried /\ call[t].op = "recv" /\ pc'[t] = "idle" /\ call'[t] = NoCall
            \/ /\ ~call[t].tried /\ call[t].op = "send_recv" /\ pc'[t] = "sr_check"
               /\ call'[t].op = "send_recv" /\ call'[t].tried = FALSE
               /\ call'[t].up = call[t].up
<1>1. CASE call[t].tried
  BY <1>1 DEF Typed, EventReturn, Goto, Others, Label
<1>2. CASE ~call[t].tried
  BY <1>2, TimedReturnTyped DEF EventReturn
<1>3. QED
  BY <1>1, <1>2

LEMMA TryLockTyped ==
  ASSUME Typed, NEW t \in Thread, TryLock(t), Free(t)
  PROVE  /\ pc' \in [Thread -> Label] /\ call' \in [Thread -> Call]
         /\ Others(t) /\ Lock(t) /\ pc'[t] = "re_enter"
         /\ call'[t].op = call[t].op /\ call'[t].up = call[t].up /\ call'[t].tried = TRUE
<1>1. PICK c \in Call : c = [call[t] EXCEPT !.tried = TRUE]
  BY DEF Typed, Call
<1>2. c.op = call[t].op /\ c.up = call[t].up /\ c.tried = TRUE
  BY <1>1 DEF Typed, Call
<1>3. pc' = [pc EXCEPT ![t] = "re_enter"] /\ call' = [call EXCEPT ![t] = c] /\ Lock(t)
  BY <1>1 DEF TryLock, Goto
<1>4. QED
  BY <1>2, <1>3 DEF Typed, Others, Label

\* What every step of a thread owes to the invariant.
Fine(t) ==
  /\ Others(t) /\ Moves(t)
  /\ pc' \in [Thread -> Label] /\ call' \in [Thread -> Call]
  /\ status' \in [Thread -> Status] /\ issued' \in Nat
  /\ Fits(pc'[t], call'[t])

LEMMA ContinueFine ==
  ASSUME IInv, NEW t \in Thread, NEW label \in Label, Continue(t, label),
         issued' \in Nat, Fits(label, call[t]),
         \/ UNCHANGED mutexVars /\ LevelsAt(label, call[t]) = LevelsAt(pc[t], call[t])
         \/ Lock(t) /\ LevelsAt(label, call[t]) = LevelsAt(pc[t], call[t]) + 1
         \/ Unlock(t) /\ LevelsAt(label, call[t]) = LevelsAt(pc[t], call[t]) - 1
  PROVE  Fine(t)
BY ContinueTyped DEF IInv, Fine, Moves, Keeps, Takes, Gives, Levels

LEMMA FinishFine ==
  ASSUME IInv, NEW t \in Thread, NEW s \in Status, Finish(t, s), issued' \in Nat,
         \/ UNCHANGED mutexVars /\ Levels(t) = 0
         \/ Unlock(t) /\ Levels(t) = 1
  PROVE  Fine(t)
<1>1. LevelsAt("idle", NoCall) = 0 /\ Fits("idle", NoCall)
  BY DEF LevelsAt, Fits, NoCall
<1>2. Typed
  BY DEF IInv
<1>3. Levels(t)' = 0
  BY <1>1, <1>2, FinishTyped DEF Levels
<1>4. QED
  BY <1>1, <1>2, <1>3, FinishTyped DEF Fine, Moves, Keeps, Gives

\* What a thread holds around its call of esl_recv_event_timed, and of
\* esl_recv_event.
Outside(t) == IF call[t].op = "send_recv" THEN 1 ELSE 0
Around(t)  == Outside(t) + IF call[t].tried THEN 1 ELSE 0

LEMMA TimedReturnFine ==
  ASSUME IInv, NEW t \in Thread, NEW s \in Status, TimedReturn(t, s), issued' \in Nat,
         \/ UNCHANGED mutexVars /\ Levels(t) = Outside(t)
         \/ Unlock(t) /\ Levels(t) = Outside(t) + 1
  PROVE  Fine(t)
<1>1. Typed
  BY DEF IInv
<1>2. \/ call[t].op = "recv" /\ pc'[t] = "idle" /\ call'[t] = NoCall
      \/ /\ call[t].op = "send_recv" /\ pc'[t] = "sr_check"
         /\ call'[t].op = "send_recv" /\ call'[t].tried = FALSE
  BY <1>1, TimedReturnTyped
<1>3. LevelsAt(pc'[t], call'[t]) = Outside(t) /\ Fits(pc'[t], call'[t])
  BY <1>2 DEF LevelsAt, Outside, Fits, NoCall
<1>4. Outside(t) \in Nat
  BY DEF Outside
<1>5. Moves(t)
  BY <1>3, <1>4 DEF Levels, Moves, Keeps, Gives
<1>6. QED
  BY <1>1, <1>3, <1>5, TimedReturnTyped DEF Fine

LEMMA EventReturnFine ==
  ASSUME IInv, NEW t \in Thread, NEW s \in Status, EventReturn(t, s), issued' \in Nat,
         call[t].op \in {"send_recv", "recv"},
         \/ UNCHANGED mutexVars /\ Levels(t) = Around(t)
         \/ Unlock(t) /\ Levels(t) = Around(t) + 1
  PROVE  Fine(t)
<1>1. Typed
  BY DEF IInv
<1>2. \/ call[t].tried /\ pc'[t] = "rt_unlock" /\ call'[t] = call[t]
      \/ ~call[t].tried /\ call[t].op = "recv" /\ pc'[t] = "idle" /\ call'[t] = NoCall
      \/ /\ ~call[t].tried /\ call[t].op = "send_recv" /\ pc'[t] = "sr_check"
         /\ call'[t].op = "send_recv" /\ call'[t].tried = FALSE
  BY <1>1, EventReturnTyped
<1>3. LevelsAt(pc'[t], call'[t]) = Around(t) /\ Fits(pc'[t], call'[t])
  BY <1>2 DEF LevelsAt, Around, Outside, Fits, NoCall
<1>4. Around(t) \in Nat
  BY DEF Around, Outside
<1>5. Moves(t)
  BY <1>3, <1>4 DEF Levels, Moves, Keeps, Gives
<1>6. QED
  BY <1>1, <1>3, <1>5, EventReturnTyped DEF Fine
-----------------------------------------------------------------------------
(* One lemma per function: each of its steps is fine.                       *)

SendRecvSteps(t) ==
  \/ Send(t) \/ SendFails(t) \/ AwaitReply(t) \/ Overtaken(t)
  \/ SendRecvReturns(t) \/ Relock(t) \/ RelockFails(t)

LEMMA SendRecvFine ==
  ASSUME IInv, NEW t \in Thread, SendRecvSteps(t)
  PROVE  Fine(t)
<1> USE DEF Label, Status
<1>1. Fits(pc[t], call[t]) /\ issued \in Nat /\ status[t] \in Status
  BY DEF IInv, Typed
<1>2. ASSUME Send(t) PROVE Fine(t)
  BY <1>1, <1>2, ContinueFine DEF Send, At, Fits, LevelsAt, serverVars
<1>3. ASSUME SendFails(t) PROVE Fine(t)
  BY <1>1, <1>3, FinishFine DEF SendFails, At, Fits, Levels, LevelsAt, serverVars
<1>4. ASSUME AwaitReply(t) PROVE Fine(t)
  BY <1>1, <1>4, ContinueFine DEF AwaitReply, At, Fits, LevelsAt, serverVars
<1>5. ASSUME Overtaken(t) PROVE Fine(t)
  BY <1>1, <1>5, ContinueFine DEF Overtaken, At, Fits, LevelsAt, serverVars
<1>6. ASSUME SendRecvReturns(t) PROVE Fine(t)
  BY <1>1, <1>6, FinishFine DEF SendRecvReturns, At, Fits, Levels, LevelsAt, serverVars
<1>7. ASSUME Relock(t) PROVE Fine(t)
  BY <1>1, <1>7, ContinueFine DEF Relock, At, Fits, LevelsAt, serverVars
<1>8. ASSUME RelockFails(t) PROVE Fine(t)
  BY <1>1, <1>8, FinishFine DEF RelockFails, At, Fits, Levels, LevelsAt, serverVars
<1>9. QED
  BY <1>2, <1>3, <1>4, <1>5, <1>6, <1>7, <1>8 DEF SendRecvSteps

TimedReceiveSteps(t) ==
  \/ TimedEnter(t) \/ LookAtQueue(t) \/ PollReadable(t) \/ PollTimesOut(t)
  \/ PollFails(t) \/ TryLock(t) \/ TimedUnlock(t)

LEMMA TimedReceiveFine ==
  ASSUME IInv, NEW t \in Thread, TimedReceiveSteps(t)
  PROVE  Fine(t)
<1> USE DEF Label, Status
<1>1. Fits(pc[t], call[t]) /\ issued \in Nat /\ status[t] \in Status /\ Typed
  BY DEF IInv, Typed
<1>2. ASSUME TimedEnter(t) PROVE Fine(t)
  BY <1>1, <1>2, ContinueFine, TimedReturnFine DEF TimedEnter, At, Fits, Levels, LevelsAt, Outside, serverVars
<1>3. ASSUME LookAtQueue(t) PROVE Fine(t)
  BY <1>1, <1>3, ContinueFine DEF LookAtQueue, At, Fits, LevelsAt, serverVars
<1>4. ASSUME PollReadable(t) PROVE Fine(t)
  BY <1>1, <1>4, ContinueFine DEF PollReadable, At, Fits, LevelsAt, serverVars
<1>5. ASSUME PollTimesOut(t) PROVE Fine(t)
  BY <1>1, <1>5, TimedReturnFine DEF PollTimesOut, At, Fits, Levels, LevelsAt, Outside, serverVars
<1>6. ASSUME PollFails(t) PROVE Fine(t)
  BY <1>1, <1>6, TimedReturnFine DEF PollFails, At, Fits, Levels, LevelsAt, Outside, serverVars
<1>7. ASSUME TryLock(t) PROVE Fine(t)
  <2>1. CASE ~Free(t)
    BY <1>1, <1>7, <2>1, TimedReturnFine DEF TryLock, At, Fits, Levels, LevelsAt, Outside,
       serverVars, Lock
  <2>2. CASE Free(t)
    <3>1. pc[t] = "rt_trylock" /\ status' = status /\ issued' = issued
      BY <1>7, <2>2 DEF TryLock, At, serverVars
    <3>2. /\ pc' \in [Thread -> Label] /\ call' \in [Thread -> Call]
          /\ Others(t) /\ Lock(t) /\ pc'[t] = "re_enter"
          /\ call'[t].op = call[t].op /\ call'[t].tried = TRUE
      BY <1>1, <1>7, <2>2, TryLockTyped
    <3> DEFINE c == call'[t]
    <3>3. c.op = call[t].op /\ c.tried = TRUE
      BY <3>2
    <3> HIDE DEF c
    <3>4. /\ LevelsAt("re_enter", c) = LevelsAt("rt_trylock", call[t]) + 1
          /\ Fits("re_enter", c)
      BY <1>1, <3>1, <3>3 DEF LevelsAt, Fits
    <3>5. Levels(t)' = Levels(t) + 1 /\ Fits(pc'[t], call'[t])
      BY <3>1, <3>2, <3>4 DEF Levels, c
    <3>6. QED
      BY <1>1, <3>1, <3>2, <3>5 DEF Fine, Moves, Takes, IInv, Typed
  <2>3. QED
    BY <2>1, <2>2
<1>8. ASSUME TimedUnlock(t) PROVE Fine(t)
  BY <1>1, <1>8, TimedReturnFine DEF TimedUnlock, At, Fits, Levels, LevelsAt, Outside, serverVars
<1>9. QED
  BY <1>2, <1>3, <1>4, <1>5, <1>6, <1>7, <1>8 DEF TimedReceiveSteps

EventReceiveSteps(t) ==
  \/ EventEnter(t) \/ EventLock(t) \/ ReadHeader(t) \/ ReadBody(t)
  \/ Receive(t) \/ ReceiveFails(t) \/ Save(t) \/ HandOver(t)
  \/ FailUnlock(t) \/ MarkDead(t)

LEMMA EventReceiveFine ==
  ASSUME IInv, NEW t \in Thread, EventReceiveSteps(t)
  PROVE  Fine(t)
<1> USE DEF Label, Status
<1>1. Fits(pc[t], call[t]) /\ issued \in Nat /\ status[t] \in Status
  BY DEF IInv, Typed
<1>2. ASSUME EventEnter(t) PROVE Fine(t)
  BY <1>1, <1>2, ContinueFine, EventReturnFine DEF EventEnter, At, Fits, Levels, LevelsAt, Around, Outside, serverVars
<1>3. ASSUME EventLock(t) PROVE Fine(t)
  BY <1>1, <1>3, ContinueFine DEF EventLock, At, Fits, LevelsAt, serverVars
<1>4. ASSUME ReadHeader(t) PROVE Fine(t)
  BY <1>1, <1>4, ContinueFine DEF ReadHeader, At, Fits, LevelsAt, serverVars
<1>5. ASSUME ReadBody(t) PROVE Fine(t)
  BY <1>1, <1>5, ContinueFine DEF ReadBody, At, Fits, LevelsAt, serverVars
<1>6. ASSUME Receive(t) PROVE Fine(t)
  BY <1>1, <1>6 DEF Receive, threadVars, Fine, IInv, Typed, Others, Moves, Keeps, Levels
<1>7. ASSUME ReceiveFails(t) PROVE Fine(t)
  BY <1>1, <1>7, ContinueFine DEF ReceiveFails, Reading, At, Fits, LevelsAt, serverVars
<1>8. ASSUME Save(t) PROVE Fine(t)
  <2>1. EventReturn(t, "success") /\ Unlock(t) /\ issued' = issued /\ pc[t] = "re_parse"
    BY <1>8 DEF Save, At, serverVars
  <2>2. Levels(t) = Around(t) + 1 /\ call[t].op \in {"send_recv", "recv"}
    BY <1>1, <2>1 DEF Fits, Levels, LevelsAt, Around, Outside
  <2>3. QED
    BY <1>1, <2>1, <2>2, EventReturnFine
<1>9. ASSUME HandOver(t) PROVE Fine(t)
  BY <1>1, <1>9, ContinueFine, EventReturnFine DEF HandOver, At, Fits, Levels, LevelsAt, Around, Outside, serverVars
<1>10. ASSUME FailUnlock(t) PROVE Fine(t)
  BY <1>1, <1>10, ContinueFine DEF FailUnlock, At, Fits, LevelsAt, serverVars
<1>11. ASSUME MarkDead(t) PROVE Fine(t)
  BY <1>1, <1>11, EventReturnFine DEF MarkDead, At, Fits, Levels, LevelsAt, Around, Outside, serverVars
<1>12. QED
  BY <1>2, <1>3, <1>4, <1>5, <1>6, <1>7, <1>8, <1>9, <1>10, <1>11 DEF EventReceiveSteps

DisconnectingSteps(t) ==
  \/ Purge(t) \/ Drain(t) \/ FreeMutex(t) \/ Wipe(t)

\* Where FreeMutex leaves the mutex the step is fine like any other.
LEMMA DisconnectingFine ==
  ASSUME IInv, NEW t \in Thread, DisconnectingSteps(t), FreeMutex(t) => mutex' = mutex
  PROVE  Fine(t)
<1> USE DEF Label, Status
<1>1. Fits(pc[t], call[t]) /\ issued \in Nat /\ status[t] \in Status
  BY DEF IInv, Typed
<1>2. ASSUME Purge(t) PROVE Fine(t)
  BY <1>1, <1>2, ContinueFine DEF Purge, At, Fits, LevelsAt, serverVars
<1>3. ASSUME Drain(t) PROVE Fine(t)
  <2>1. issued' \in Nat
    BY <1>1, <1>3 DEF Drain, serverVars
  <2>2. CASE At(t, "dc_unlock")
    BY <1>1, <1>3, <2>1, <2>2, ContinueFine DEF Drain, At, Fits, LevelsAt
  <2>3. CASE At(t, "dc_relock")
    BY <1>1, <1>3, <2>1, <2>3, ContinueFine DEF Drain, At, Fits, LevelsAt
  <2>4. CASE At(t, "dc_reunlock")
    BY <1>1, <1>3, <2>1, <2>4, ContinueFine DEF Drain, At, Fits, LevelsAt
  <2>5. QED BY <1>3, <2>2, <2>3, <2>4 DEF Drain
<1>4. ASSUME FreeMutex(t), mutex' = mutex PROVE Fine(t)
  BY <1>1, <1>4, ContinueFine DEF FreeMutex, At, Fits, LevelsAt, mutexVars, serverVars
<1>5. ASSUME Wipe(t) PROVE Fine(t)
  BY <1>1, <1>5, FinishFine DEF Wipe, At, Fits, Levels, LevelsAt, serverVars
<1>6. QED
  BY <1>2, <1>3, <1>4, <1>5 DEF DisconnectingSteps

\* A crash is not about the lock any more, or leaves it alone.
LEMMA CrashKeeps ==
  ASSUME IInv, NEW t \in Thread, Crash(t), destroyed' = destroyed
  PROVE  IInv' /\ Others(t)
<1> USE DEF Label
<1>1. Continue(t, "crashed") /\ UNCHANGED <<mutexVars, issued>> /\ Typed /\ Fits(pc[t], call[t])
  BY DEF IInv, Crash, serverVars
<1>2. /\ pc' \in [Thread -> Label] /\ call' \in [Thread -> Call] /\ call'[t] = call[t]
      /\ status' \in [Thread -> Status] /\ pc'[t] = "crashed" /\ Others(t)
  BY <1>1, ContinueTyped
<1>3. Fits(pc'[t], call'[t])
  <2>1. pc[t] # "idle"
    BY DEF Crash, AtMutex, At
  <2>2. QED BY <1>1, <1>2, <2>1 DEF Fits
<1>4. CASE Usable(t)
  <2>1. pc[t] = "dc_lock"
    BY <1>4 DEF Crash, At
  <2>2. Levels(t) = 0 /\ Levels(t)' = 0
    BY <1>1, <1>2, <2>1 DEF Fits, Levels, LevelsAt
  <2>3. Moves(t)
    BY <1>1, <2>2 DEF Moves, Keeps
  <2>4. QED BY <1>1, <1>2, <1>3, <2>3, StepKeeps DEF IInv, Typed
<1>5. CASE ~Usable(t)
  <2>1. ~(mutex' = "live" /\ ~destroyed')
    BY <1>1, <1>5 DEF Usable, mutexVars
  <2>2. LockBalanced'
    BY <2>1 DEF LockBalanced
  <2>3. \A u \in Thread : Fits(pc[u], call[u])'
    BY <1>2, <1>3 DEF IInv, Others
  <2>4. QED BY <1>1, <1>2, <2>2, <2>3 DEF IInv, Typed, mutexVars
<1>6. QED
  BY <1>4, <1>5

\* Once the mutex is freed nothing is claimed of it.
LEMMA FreeMutexKeeps ==
  ASSUME IInv, NEW t \in Thread, FreeMutex(t)
  PROVE  IInv' /\ Others(t)
<1> USE DEF Label
<1>1. /\ Continue(t, "dc_wipe") /\ pc[t] = "dc_destroy" /\ mutex' \in {"live", "freed"}
      /\ mutex = "live" /\ UNCHANGED <<owner, depth, issued, destroyed>>
      /\ Typed /\ Fits(pc[t], call[t])
  BY DEF IInv, FreeMutex, At, serverVars, handleVars
<1>2. /\ pc' \in [Thread -> Label] /\ call' \in [Thread -> Call] /\ call'[t] = call[t]
      /\ status' \in [Thread -> Status] /\ pc'[t] = "dc_wipe" /\ Others(t)
  BY <1>1, ContinueTyped
<1>3. CASE mutex' = mutex
  <2>1. Fine(t)
    BY <1>3, DisconnectingFine DEF DisconnectingSteps
  <2>2. QED BY <1>1, <2>1, StepKeeps DEF Fine
<1>4. CASE mutex' # mutex
  <2>1. Fits(pc'[t], call'[t])
    BY <1>1, <1>2 DEF Fits
  <2>2. \A u \in Thread : Fits(pc[u], call[u])'
    BY <1>2, <2>1 DEF IInv, Others
  <2>3. LockBalanced'
    BY <1>1, <1>4 DEF LockBalanced
  <2>4. QED BY <1>1, <1>2, <2>2, <2>3 DEF IInv, Typed
<1>5. QED
  BY <1>3, <1>4

\* A call begins with nothing held, a new call of its own kind.
LEMMA BeginKeeps ==
  ASSUME IInv, NEW t \in Thread, At(t, "idle"), NEW op \in {"send_recv", "recv", "disconnect"},
         NEW timed \in BOOLEAN, NEW cmd \in Nat, NEW label \in Label,
         Begin(t, op, timed, cmd, label), UNCHANGED mutexVars, issued' \in Nat,
         status' \in [Thread -> Status], destroyed' = destroyed, Up \in BOOLEAN,
         \/ op = "send_recv" /\ label = "sr_lock"
         \/ op = "recv" /\ label \in {"rt_enter", "re_enter"}
         \/ op = "disconnect" /\ label = "dc_lock"
  PROVE  IInv'
<1> DEFINE c == [op |-> op, timed |-> timed, tried |-> FALSE, cmd |-> cmd, up |-> Up]
<1>1. c \in Call /\ c.op = op /\ c.tried = FALSE
  BY DEF Call
<1>2. /\ pc' = [pc EXCEPT ![t] = label] /\ call' = [call EXCEPT ![t] = c]
      /\ pc[t] = "idle"
  BY DEF Begin, Goto, At
<1> HIDE DEF c
<1>3. /\ pc' \in [Thread -> Label] /\ call' \in [Thread -> Call] /\ Others(t)
      /\ pc'[t] = label /\ call'[t] = c
  BY <1>1, <1>2 DEF IInv, Typed, Others
<1>4. LevelsAt("idle", call[t]) = 0
  BY <1>2 DEF IInv, Fits, LevelsAt
<1>5. LevelsAt(label, c) = 0 /\ Fits(label, c)
  BY <1>1 DEF LevelsAt, Fits
<1>6. Moves(t)
  BY <1>2, <1>3, <1>4, <1>5 DEF Moves, Keeps, Levels
<1>7. QED
  BY <1>2, <1>3, <1>5, <1>6, StepKeeps DEF IInv, Typed
-----------------------------------------------------------------------------
LEMMA InitIInv ==
  Init => IInv
<1> SUFFICES ASSUME Init PROVE IInv
  OBVIOUS
<1>1. NoCall \in Call /\ Fits("idle", NoCall) /\ LevelsAt("idle", NoCall) = 0
  BY DEF NoCall, Call, Fits, LevelsAt
<1>2. Typed
  BY <1>1 DEF Init, Typed, Label, Status
<1>3. \A t \in Thread : pc[t] = "idle" /\ call[t] = NoCall
  BY DEF Init
<1>4. LockBalanced
  BY <1>1, <1>3, HandleAssumption DEF Init, LockBalanced, Levels
<1>5. QED
  BY <1>1, <1>2, <1>3, <1>4 DEF IInv

\* What only the steps of esl_disconnect change: events are freed, the mutex
\* is, and the handle is wiped.
LEMMA StepFrame ==
  ASSUME NEW t \in Thread, Step(t)
  PROVE  /\ overlap' = overlap
         /\ purged' = purged \/ (Purge(t) /\ purged')
         /\ mutex' = mutex \/ FreeMutex(t)
         /\ destroyed' = destroyed \/ (Wipe(t) /\ destroyed')
<1> DEFINE Same == overlap' = overlap /\ purged' = purged /\ mutex' = mutex
                   /\ destroyed' = destroyed
<1> USE DEF handleVars, mutexVars, Lock, Unlock
<1>1. ASSUME SendRecvSteps(t) PROVE Same
  BY <1>1 DEF SendRecvSteps, Send, SendFails, AwaitReply, Overtaken, SendRecvReturns,
     Relock, RelockFails
<1>2. ASSUME TimedReceiveSteps(t) PROVE Same
  BY <1>2 DEF TimedReceiveSteps, TimedEnter, LookAtQueue, PollReadable, PollTimesOut,
     PollFails, TryLock, TimedUnlock
<1>3. ASSUME EventReceiveSteps(t) PROVE Same
  BY <1>3 DEF EventReceiveSteps, EventEnter, EventLock, ReadHeader, ReadBody, Receive,
     ReceiveFails, Save, HandOver, FailUnlock, MarkDead
<1>4. ASSUME Purge(t)
      PROVE  overlap' = overlap /\ purged' /\ mutex' = mutex /\ destroyed' = destroyed
  BY <1>4 DEF Purge
<1>5. ASSUME Drain(t) \/ Crash(t) PROVE Same
  BY <1>5 DEF Drain, Crash
<1>6. ASSUME FreeMutex(t)
      PROVE  overlap' = overlap /\ purged' = purged /\ destroyed' = destroyed
  BY <1>6 DEF FreeMutex
<1>7. ASSUME Wipe(t)
      PROVE  overlap' = overlap /\ purged' = purged /\ mutex' = mutex /\ destroyed'
  BY <1>7 DEF Wipe
<1>8. QED
  BY <1>1, <1>2, <1>3, <1>4, <1>5, <1>6, <1>7 DEF Step, SendRecvSteps,
     TimedReceiveSteps, EventReceiveSteps

LEMMA OtherFrame ==
  ASSUME Calls \/ Server \/ UNCHANGED vars
  PROVE  purged' = purged /\ mutex' = mutex /\ destroyed' = destroyed
<1> DEFINE Same == purged' = purged /\ mutex' = mutex /\ destroyed' = destroyed
<1> USE DEF handleVars, mutexVars
<1>1. ASSUME NEW t, NEW timed, SendRecv(t, timed) PROVE Same
  BY <1>1 DEF SendRecv
<1>2. ASSUME NEW t, NEW timed, Recv(t, timed) PROVE Same
  BY <1>2 DEF Recv
<1>3. ASSUME NEW t, Disconnect(t) PROVE Same
  BY <1>3 DEF Disconnect, Disconnects
<1>4. ASSUME Server PROVE Same
  BY <1>4 DEF Server, Publish, Answer, Hangup
<1>5. ASSUME UNCHANGED vars PROVE Same
  BY <1>5 DEF vars
<1>6. QED
  BY <1>1, <1>2, <1>3, <1>4, <1>5 DEF Calls

LEMMA DestroyedStays ==
  ASSUME [Next]_vars PROVE destroyed => destroyed'
BY StepFrame, OtherFrame DEF Next

LEMMA NextKeeps ==
  IInv /\ [Next]_vars => IInv'
<1> SUFFICES ASSUME IInv, [Next]_vars PROVE IInv'
  OBVIOUS
<1> USE DEF Label, Status
<1>0. destroyed => destroyed'
  BY DestroyedStays
<1>1. ASSUME NEW t \in Thread, Fine(t) PROVE IInv'
  BY <1>0, <1>1, StepKeeps DEF Fine
<1>2. ASSUME NEW t \in Thread, Step(t) PROVE IInv'
  <2>1. \/ SendRecvSteps(t) \/ TimedReceiveSteps(t) \/ EventReceiveSteps(t)
        \/ DisconnectingSteps(t) \/ Crash(t)
    BY <1>2 DEF Step, SendRecvSteps, TimedReceiveSteps, EventReceiveSteps,
       DisconnectingSteps
  <2>2. CASE DisconnectingSteps(t)
    <3>1. CASE FreeMutex(t)
      BY <3>1, FreeMutexKeeps
    <3>2. CASE ~FreeMutex(t)
      BY <1>1, <2>2, <3>2, DisconnectingFine
    <3>3. QED BY <3>1, <3>2
  <2>3. CASE Crash(t)
    <3>1. destroyed' = destroyed
      BY <2>3 DEF Crash, handleVars
    <3>2. QED BY <2>3, <3>1, CrashKeeps
  <2>4. QED
    BY <1>1, <2>1, <2>2, <2>3, SendRecvFine, TimedReceiveFine, EventReceiveFine
<1>3. Up \in BOOLEAN
  BY DEF Up
<1>7. ASSUME UNCHANGED <<pc, call, status, mutexVars, issued>> PROVE IInv'
  <2>1. Typed' /\ \A t \in Thread : Fits(pc[t], call[t])'
    BY <1>7 DEF mutexVars, IInv, Typed
  <2>2. LockBalanced'
    BY <1>0, <1>7 DEF mutexVars, IInv, LockBalanced, Levels
  <2>3. QED BY <2>1, <2>2 DEF IInv
<1>4. ASSUME NEW t \in Sender, NEW timed \in Timed, SendRecv(t, timed) PROVE IInv'
  <2>1. t \in Thread /\ timed \in BOOLEAN /\ issued + 1 \in Nat
    BY HandleAssumption DEF Thread, IInv, Typed
  <2>2. CASE Up
    BY <1>3, <1>4, <2>1, <2>2, BeginKeeps DEF SendRecv, handleVars, IInv, Typed
  <2>3. CASE ~Up
    BY <1>4, <1>7, <2>3 DEF SendRecv, serverVars
  <2>4. QED BY <2>2, <2>3
<1>5. ASSUME NEW t \in Receiver, NEW timed \in Timed, Recv(t, timed) PROVE IInv'
  <2>1. t \in Thread /\ timed \in BOOLEAN
    BY HandleAssumption DEF Thread
  <2>2. QED
    BY <1>3, <1>5, <2>1, BeginKeeps DEF Recv, serverVars, handleVars, IInv, Typed
<1>6. ASSUME NEW t \in Closer, Disconnect(t) PROVE IInv'
  <2>1. t \in Thread
    BY DEF Thread
  <2>2. status' \in [Thread -> Status]
    BY <1>6 DEF Disconnect, Disconnects, IInv, Typed
  <2>3. QED
    BY <1>3, <1>6, <2>1, <2>2, BeginKeeps DEF Disconnect, Disconnects, serverVars, IInv, Typed
<1>8. CASE Server
  BY <1>7, <1>8 DEF Server, Publish, Answer, Hangup, threadVars
<1>9. CASE UNCHANGED vars
  BY <1>7, <1>9 DEF vars, serverVars, threadVars
<1>10. QED
  BY <1>2, <1>4, <1>5, <1>6, <1>8, <1>9 DEF Next, Calls

\* The recursive lock of esl.c is balanced along every path, whichever threads
\* call which functions and whenever the server goes away: a thread that has
\* returned from esl_send_recv_timed, esl_recv_event_timed, esl_recv_event or
\* esl_disconnect holds nothing, and no two threads are inside at once, until
\* the mutex is destroyed.
THEOREM LockDiscipline ==
  Spec => []LockBalanced
<1>1. Init => IInv
  BY InitIInv
<1>2. IInv /\ [Next]_vars => IInv'
  BY NextKeeps
<1>3. IInv => LockBalanced
  BY DEF IInv
<1>4. QED
  BY <1>1, <1>2, <1>3, PTL DEF Spec
-----------------------------------------------------------------------------
(* Disconnecting.  Once the connection is down it stays down; a call that   *)
(* began then is turned away before the lock, and after the events were     *)
(* freed no thread is where it would touch the queue.                       *)

Past == {"dc_unlock", "dc_relock", "dc_reunlock", "dc_destroy", "dc_wipe"}

TurnedAway(p, c) ==
  \/ c.op = "recv" /\ p \in {"rt_enter", "re_enter"} /\ ~c.tried
  \/ c.op = "disconnect"

Late(p, c) == c.op # "none" /\ ~c.up => TurnedAway(p, c)

Quiet(p, c) ==
  /\ p \notin {"re_loop", "re_body", "re_parse"}
  /\ c.op = "send_recv" => p \in {"sr_lock", "sr_relock", "crashed"}

DInv ==
  /\ IInv
  /\ \A t \in Thread : Late(pc[t], call[t])
  /\ \A t \in Thread : call[t].op # "none" /\ ~call[t].up => ~Up
  /\ purged => ~Up /\ \A t \in Thread : Quiet(pc[t], call[t])
  /\ \A t \in Thread : pc[t] \in Past => purged
  /\ mutex = "freed" \/ destroyed => purged

\* handle->connected is never set again, and the wipe clears it before the
\* socket looks valid.
LEMMA UpStable ==
  ASSUME [Next]_vars, ~Up PROVE ~Up'
<1> USE DEF Up, handleVars
<1>1. ASSUME NEW t \in Thread, SendRecvSteps(t) PROVE ~Up'
  BY <1>1 DEF SendRecvSteps, Send, SendFails, AwaitReply, Overtaken, SendRecvReturns,
     Relock, RelockFails
<1>2. ASSUME NEW t \in Thread, TimedReceiveSteps(t) PROVE ~Up'
  BY <1>2 DEF TimedReceiveSteps, TimedEnter, LookAtQueue, PollReadable, PollTimesOut,
     PollFails, TryLock, TimedUnlock
<1>3. ASSUME NEW t \in Thread, EventReceiveSteps(t) PROVE ~Up'
  BY <1>3 DEF EventReceiveSteps, EventEnter, EventLock, ReadHeader, ReadBody, Receive,
     ReceiveFails, Save, HandOver, FailUnlock, MarkDead
<1>4. ASSUME NEW t \in Thread, DisconnectingSteps(t) \/ Crash(t) PROVE ~Up'
  BY <1>4 DEF DisconnectingSteps, Purge, Drain, FreeMutex, Wipe, Crash
<1>5. CASE Calls
  <2>1. ASSUME NEW t, NEW timed, SendRecv(t, timed) PROVE ~Up'
    BY <2>1 DEF SendRecv
  <2>2. ASSUME NEW t, NEW timed, Recv(t, timed) PROVE ~Up'
    BY <2>2 DEF Recv
  <2>3. ASSUME NEW t, Disconnect(t) PROVE ~Up'
    BY <2>3 DEF Disconnect, Disconnects
  <2>4. QED BY <1>5, <2>1, <2>2, <2>3 DEF Calls
<1>6. CASE Server
  BY <1>6 DEF Server, Publish, Answer, Hangup
<1>7. CASE UNCHANGED vars
  BY <1>7 DEF vars
<1>8. QED
  BY <1>1, <1>2, <1>3, <1>4, <1>5, <1>6, <1>7 DEF Next, Step, SendRecvSteps,
     TimedReceiveSteps, EventReceiveSteps, DisconnectingSteps

\* What a step of t inside a call owes to DInv.
Settles(t) ==
  /\ Late(pc'[t], call'[t])
  /\ purged => Quiet(pc'[t], call'[t])
  /\ call'[t].op # "none" /\ ~call'[t].up => call[t].op # "none" /\ ~call[t].up
  /\ call'[t].op \in {call[t].op, "none"}
  /\ pc'[t] \in Past => purged'

LEMMA NoCallSettles ==
  ASSUME NEW t \in Thread, pc'[t] = "idle", call'[t] = NoCall PROVE Settles(t)
BY DEF Settles, Late, Quiet, NoCall, Past

LEMMA ContinueSettles ==
  ASSUME DInv, NEW t \in Thread, NEW label \in Label, Continue(t, label),
         Late(label, call[t]), purged => Quiet(label, call[t]), label \in Past => purged'
  PROVE  Settles(t)
BY ContinueTyped DEF DInv, IInv, Settles

LEMMA TimedReturnSettles ==
  ASSUME DInv, NEW t \in Thread, NEW s \in Status, TimedReturn(t, s),
         call[t].op = "send_recv" => call[t].up /\ ~purged
  PROVE  Settles(t)
<1>1. \/ call[t].op = "recv" /\ pc'[t] = "idle" /\ call'[t] = NoCall
      \/ /\ call[t].op = "send_recv" /\ pc'[t] = "sr_check"
         /\ call'[t].op = "send_recv" /\ call'[t].up = call[t].up
  BY TimedReturnTyped DEF DInv, IInv
<1>2. QED
  BY <1>1, NoCallSettles DEF Settles, Late, Quiet, Past

LEMMA EventReturnSettles ==
  ASSUME DInv, NEW t \in Thread, NEW s \in Status, EventReturn(t, s),
         call[t].op = "send_recv" => call[t].up /\ ~purged,
         call[t].tried => call[t].up, call[t].op \in {"send_recv", "recv"}
  PROVE  Settles(t)
<1>1. CASE call[t].tried
  <2>1. pc'[t] = "rt_unlock" /\ call'[t] = call[t]
    BY <1>1, EventReturnTyped DEF DInv, IInv
  <2>2. QED
    BY <1>1, <2>1 DEF Settles, Late, Quiet, Past
<1>2. CASE ~call[t].tried
  BY <1>2, TimedReturnSettles DEF EventReturn
<1>3. QED
  BY <1>1, <1>2

LEMMA SendRecvSettles ==
  ASSUME DInv, NEW t \in Thread, SendRecvSteps(t)
  PROVE  Settles(t)
<1> USE DEF Label, Status, Past
<1>1. /\ Fits(pc[t], call[t]) /\ status[t] \in Status /\ Typed
      /\ Late(pc[t], call[t]) /\ (purged => ~Up) /\ (purged => Quiet(pc[t], call[t]))
      /\ call[t].op # "none" /\ ~call[t].up => ~Up
  BY DEF DInv, IInv, Typed
<1>2. ASSUME Send(t) PROVE Settles(t)
  BY <1>1, <1>2, ContinueSettles DEF Send, At, Fits, Late, TurnedAway, Quiet
<1>3. ASSUME SendFails(t) PROVE Settles(t)
  BY <1>1, <1>3, FinishTyped, NoCallSettles DEF SendFails, At, Fits, Late, TurnedAway, Quiet
<1>4. ASSUME AwaitReply(t) PROVE Settles(t)
  BY <1>1, <1>4, ContinueSettles DEF AwaitReply, At, Fits, Late, TurnedAway, Quiet
<1>5. ASSUME Overtaken(t) PROVE Settles(t)
  BY <1>1, <1>5, ContinueSettles DEF Overtaken, At, Fits, Late, TurnedAway, Quiet
<1>6. ASSUME SendRecvReturns(t) PROVE Settles(t)
  BY <1>1, <1>6, FinishTyped, NoCallSettles DEF SendRecvReturns, At, Fits, Late, TurnedAway, Quiet
<1>7. ASSUME Relock(t) PROVE Settles(t)
  BY <1>1, <1>7, ContinueSettles DEF Relock, At, Fits, Late, TurnedAway, Quiet
<1>8. ASSUME RelockFails(t) PROVE Settles(t)
  BY <1>1, <1>8, FinishTyped, NoCallSettles DEF RelockFails, At, Fits, Late, TurnedAway, Quiet
<1>9. QED
  BY <1>2, <1>3, <1>4, <1>5, <1>6, <1>7, <1>8 DEF SendRecvSteps

LEMMA TimedReceiveSettles ==
  ASSUME DInv, NEW t \in Thread, TimedReceiveSteps(t)
  PROVE  Settles(t)
<1> USE DEF Label, Status, Past
<1>1. /\ Fits(pc[t], call[t]) /\ status[t] \in Status /\ Typed
      /\ Late(pc[t], call[t]) /\ (purged => ~Up) /\ (purged => Quiet(pc[t], call[t]))
      /\ call[t].op # "none" /\ ~call[t].up => ~Up
  BY DEF DInv, IInv, Typed
<1>2. ASSUME TimedEnter(t) PROVE Settles(t)
  BY <1>1, <1>2, ContinueSettles, TimedReturnSettles DEF TimedEnter, At, Fits, Late, TurnedAway, Quiet
<1>3. ASSUME LookAtQueue(t) PROVE Settles(t)
  BY <1>1, <1>3, ContinueSettles DEF LookAtQueue, At, Fits, Late, TurnedAway, Quiet
<1>4. ASSUME PollReadable(t) PROVE Settles(t)
  BY <1>1, <1>4, ContinueSettles DEF PollReadable, At, Fits, Late, TurnedAway, Quiet
<1>5. ASSUME PollTimesOut(t) PROVE Settles(t)
  BY <1>1, <1>5, TimedReturnSettles DEF PollTimesOut, At, Fits, Late, TurnedAway, Quiet
<1>6. ASSUME PollFails(t) PROVE Settles(t)
  BY <1>1, <1>6, TimedReturnSettles DEF PollFails, At, Fits, Late, TurnedAway, Quiet
<1>7. ASSUME TryLock(t) PROVE Settles(t)
  <2>1. CASE ~Free(t)
    BY <1>1, <1>7, <2>1, TimedReturnSettles DEF TryLock, At, Fits, Late, TurnedAway, Quiet, Lock
  <2>2. CASE Free(t)
    BY <1>1, <1>7, <2>2, TryLockTyped DEF TryLock, At, Fits, Late, TurnedAway, Quiet, Settles
  <2>3. QED
    BY <2>1, <2>2
<1>8. ASSUME TimedUnlock(t) PROVE Settles(t)
  BY <1>1, <1>8, TimedReturnSettles DEF TimedUnlock, At, Fits, Late, TurnedAway, Quiet
<1>9. QED
  BY <1>2, <1>3, <1>4, <1>5, <1>6, <1>7, <1>8 DEF TimedReceiveSteps

LEMMA EventReceiveSettles ==
  ASSUME DInv, NEW t \in Thread, EventReceiveSteps(t)
  PROVE  Settles(t)
<1> USE DEF Label, Status, Past
<1>1. /\ Fits(pc[t], call[t]) /\ status[t] \in Status /\ Typed
      /\ Late(pc[t], call[t]) /\ (purged => ~Up) /\ (purged => Quiet(pc[t], call[t]))
      /\ call[t].op # "none" /\ ~call[t].up => ~Up
  BY DEF DInv, IInv, Typed
<1>2. ASSUME EventEnter(t) PROVE Settles(t)
  BY <1>1, <1>2, ContinueSettles, EventReturnSettles DEF EventEnter, At, Fits, Late, TurnedAway, Quiet
<1>3. ASSUME EventLock(t) PROVE Settles(t)
  BY <1>1, <1>3, ContinueSettles DEF EventLock, At, Fits, Late, TurnedAway, Quiet
<1>4. ASSUME ReadHeader(t) PROVE Settles(t)
  BY <1>1, <1>4, ContinueSettles DEF ReadHeader, At, Fits, Late, TurnedAway, Quiet
<1>5. ASSUME ReadBody(t) PROVE Settles(t)
  BY <1>1, <1>5, ContinueSettles DEF ReadBody, At, Fits, Late, TurnedAway, Quiet
<1>6. ASSUME Receive(t) PROVE Settles(t)
  <2>1. pc'[t] = pc[t] /\ call'[t] = call[t] /\ pc[t] \in {"re_loop", "re_body"}
    BY <1>6 DEF Receive, Reading, threadVars
  <2> QED BY <1>1, <2>1 DEF Settles
<1>7. ASSUME ReceiveFails(t) PROVE Settles(t)
  BY <1>1, <1>7, ContinueSettles DEF ReceiveFails, At, Fits, Late, TurnedAway, Quiet, Reading
<1>8. ASSUME Save(t) PROVE Settles(t)
  BY <1>1, <1>8, EventReturnSettles DEF Save, At, Fits, Late, TurnedAway, Quiet
<1>9. ASSUME HandOver(t) PROVE Settles(t)
  BY <1>1, <1>9, ContinueSettles, EventReturnSettles DEF HandOver, At, Fits, Late, TurnedAway, Quiet
<1>10. ASSUME FailUnlock(t) PROVE Settles(t)
  BY <1>1, <1>10, ContinueSettles DEF FailUnlock, At, Fits, Late, TurnedAway, Quiet
<1>11. ASSUME MarkDead(t) PROVE Settles(t)
  BY <1>1, <1>11, EventReturnSettles DEF MarkDead, At, Fits, Late, TurnedAway, Quiet
<1>12. QED
  BY <1>2, <1>3, <1>4, <1>5, <1>6, <1>7, <1>8, <1>9, <1>10, <1>11 DEF EventReceiveSteps

LEMMA DisconnectingSettles ==
  ASSUME DInv, NEW t \in Thread, DisconnectingSteps(t) \/ Crash(t)
  PROVE  Settles(t)
<1> USE DEF Label, Status, Past
<1>1. /\ Fits(pc[t], call[t]) /\ status[t] \in Status /\ Typed
      /\ Late(pc[t], call[t]) /\ (purged => Quiet(pc[t], call[t]))
      /\ pc[t] \in Past => purged
  BY DEF DInv, IInv, Typed
<1>2. ASSUME Purge(t) PROVE Settles(t)
  BY <1>1, <1>2, ContinueSettles DEF Purge, At, Fits, Late, TurnedAway, Quiet
<1>3. ASSUME Drain(t) PROVE Settles(t)
  <2>1. PICK label \in {"dc_relock", "dc_reunlock", "dc_destroy"} : Continue(t, label)
    BY <1>3 DEF Drain
  <2>2. pc[t] \in Past /\ purged' = purged
    BY <1>3 DEF Drain, At, handleVars
  <2>3. QED
    BY <1>1, <2>1, <2>2, ContinueSettles DEF Fits, Late, TurnedAway, Quiet
<1>4. ASSUME FreeMutex(t) PROVE Settles(t)
  BY <1>1, <1>4, ContinueSettles DEF FreeMutex, At, Fits, Late, TurnedAway, Quiet, handleVars
<1>5. ASSUME Wipe(t) PROVE Settles(t)
  BY <1>1, <1>5, FinishTyped, NoCallSettles DEF Wipe
<1>6. ASSUME Crash(t) PROVE Settles(t)
  <2>1. pc[t] \notin {"rt_enter", "re_enter"} /\ Continue(t, "crashed")
    BY <1>6 DEF Crash, AtMutex, At
  <2>2. Late("crashed", call[t]) /\ Quiet("crashed", call[t])
    BY <1>1, <2>1 DEF Late, TurnedAway, Quiet
  <2>3. QED
    BY <2>1, <2>2, ContinueSettles
<1>7. QED
  BY <1>2, <1>3, <1>4, <1>5, <1>6 DEF DisconnectingSteps

LEMMA InitDInv ==
  Init => DInv
<1> SUFFICES ASSUME Init PROVE DInv
  OBVIOUS
<1>1. \A t \in Thread : pc[t] = "idle" /\ call[t] = NoCall
  BY DEF Init
<1>2. NoCall.op = "none"
  BY DEF NoCall
<1>3. QED
  BY <1>1, <1>2, InitIInv DEF DInv, Late, Init, Past

\* Esl_disconnect takes the lock before it frees the events, so no other
\* thread is then in the middle of a command or of reading.
LEMMA PurgeQuiets ==
  ASSUME DInv, NEW t \in Thread, Purge(t), NEW u \in Thread, u # t
  PROVE  Quiet(pc[u], call[u])
<1>1. CASE purged
  BY <1>1 DEF DInv
<1>2. CASE ~purged
  <2>1. mutex = "live" /\ ~destroyed
    BY <1>2 DEF DInv, IInv, Typed
  <2>2. owner # u
    BY HandleAssumption DEF Purge, Lock, Free
  <2>3. Levels(u) = 0
    BY <2>1, <2>2 DEF DInv, IInv, LockBalanced
  <2>4. QED
    BY <2>3 DEF Levels, LevelsAt, Quiet
<1>3. QED
  BY <1>1, <1>2

LEMMA StepSettles ==
  ASSUME DInv, NEW t \in Thread, Step(t)
  PROVE  Settles(t) /\ Others(t)
<1>1. CASE DisconnectingSteps(t) \/ Crash(t)
  <2>1. Settles(t)
    BY <1>1, DisconnectingSettles
  <2>2. CASE FreeMutex(t)
    BY <2>1, <2>2, FreeMutexKeeps DEF DInv
  <2>3. CASE Crash(t)
    BY <2>1, <2>3, CrashKeeps DEF DInv, Crash, handleVars
  <2>4. CASE DisconnectingSteps(t) /\ ~FreeMutex(t)
    BY <2>1, <2>4, DisconnectingFine DEF DInv, Fine
  <2>5. QED
    BY <1>1, <2>2, <2>3, <2>4
<1>2. CASE SendRecvSteps(t) \/ TimedReceiveSteps(t) \/ EventReceiveSteps(t)
  BY <1>2, SendRecvSettles, TimedReceiveSettles, EventReceiveSettles,
     SendRecvFine, TimedReceiveFine, EventReceiveFine DEF Fine, DInv
<1>3. QED
  BY <1>1, <1>2 DEF Step, SendRecvSteps, TimedReceiveSteps, EventReceiveSteps,
     DisconnectingSteps

LEMMA StepKeepsDInv ==
  ASSUME DInv, [Next]_vars, NEW t \in Thread, Step(t)
  PROVE  DInv'
<1>1. IInv'
  BY NextKeeps DEF DInv
<1>2. ~Up => ~Up'
  BY UpStable
<1>3. Settles(t) /\ Others(t)
  BY StepSettles
<1>4. \A u \in Thread : Late(pc[u], call[u])'
  BY <1>3 DEF DInv, Settles, Others
<1>5. \A u \in Thread : call'[u].op # "none" /\ ~call'[u].up => ~Up'
  BY <1>2, <1>3 DEF DInv, Settles, Others
<1>6. \A u \in Thread : pc'[u] \in Past => purged'
  BY <1>3, StepFrame DEF DInv, Settles, Others
<1>7. mutex' = "freed" \/ destroyed' => purged'
  <2>1. FreeMutex(t) \/ Wipe(t) => purged
    BY DEF FreeMutex, Wipe, At, DInv, Past
  <2>2. QED
    BY <2>1, StepFrame DEF DInv
<1>8. CASE Purge(t)
  <2>1. ~Up'
    BY <1>8 DEF Purge, Up
  <2>2. \A u \in Thread \ {t} : Quiet(pc[u], call[u])'
    BY <1>3, <1>8, PurgeQuiets DEF Others
  <2>3. Quiet("dc_unlock", call[t])
    BY <1>8 DEF Purge, At, DInv, IInv, Fits, Quiet
  <2>4. pc'[t] = "dc_unlock" /\ call'[t] = call[t]
    BY <1>8, ContinueTyped DEF Purge, DInv, IInv, Label
  <2>5. QED
    BY <1>1, <1>4, <1>5, <1>6, <1>7, <2>1, <2>2, <2>3, <2>4 DEF DInv
<1>9. CASE ~Purge(t)
  <2>1. purged' = purged
    BY <1>9, StepFrame
  <2>2. QED
    BY <1>1, <1>2, <1>3, <1>4, <1>5, <1>6, <1>7, <2>1 DEF DInv, Settles, Others
<1>10. QED
  BY <1>8, <1>9

LEMMA BeginKeepsDInv ==
  ASSUME DInv, [Next]_vars, NEW t \in Thread, NEW op, NEW timed, NEW cmd, NEW label \in Label,
         Begin(t, op, timed, cmd, label), UNCHANGED <<purged, mutex, destroyed>>,
         \/ op = "send_recv" /\ label = "sr_lock" /\ Up
         \/ op = "recv" /\ label \in {"rt_enter", "re_enter"}
         \/ op = "disconnect" /\ label = "dc_lock"
  PROVE  DInv'
<1> DEFINE c == [op |-> op, timed |-> timed, tried |-> FALSE, cmd |-> cmd, up |-> Up]
<1>1. c.op = op /\ c.tried = FALSE /\ (c.up <=> Up)
  OBVIOUS
<1>2. pc' = [pc EXCEPT ![t] = label] /\ call' = [call EXCEPT ![t] = c]
  BY DEF Begin, Goto
<1> HIDE DEF c
<1>3. pc'[t] = label /\ call'[t] = c /\ Others(t)
  BY <1>2 DEF DInv, IInv, Typed, Others
<1>4. Late(label, c) /\ Quiet(label, c)
  BY <1>1 DEF Late, TurnedAway, Quiet
<1>5. ~Up => ~Up'
  BY UpStable
<1>6. \A u \in Thread : Late(pc[u], call[u])'
  BY <1>3, <1>4 DEF DInv, Others
<1>7. \A u \in Thread : call'[u].op # "none" /\ ~call'[u].up => ~Up'
  BY <1>1, <1>3, <1>5 DEF DInv, Others
<1>8. purged' => \A u \in Thread : Quiet(pc[u], call[u])'
  BY <1>3, <1>4 DEF DInv, Others
<1>9. IInv'
  BY NextKeeps DEF DInv
<1>10. \A u \in Thread : pc'[u] \in Past => purged'
  BY <1>3 DEF DInv, Others, Past
<1>11. QED
  BY <1>5, <1>6, <1>7, <1>8, <1>9, <1>10 DEF DInv

LEMMA NextKeepsDInv ==
  DInv /\ [Next]_vars => DInv'
<1> SUFFICES ASSUME DInv, [Next]_vars PROVE DInv'
  OBVIOUS
<1> USE DEF Label
<1>0. ASSUME Calls \/ Server \/ UNCHANGED vars, UNCHANGED <<pc, call, connected, sock>>
      PROVE  DInv'
  <2>1. IInv'
    BY NextKeeps DEF DInv
  <2>2. UNCHANGED <<purged, mutex, destroyed>>
    BY <1>0, OtherFrame
  <2>3. QED
    BY <1>0, <2>1, <2>2 DEF DInv, Up
<1>1. ASSUME NEW t \in Sender, NEW timed \in Timed, SendRecv(t, timed) PROVE DInv'
  <2>1. Calls /\ UNCHANGED <<purged, mutex, destroyed>> /\ t \in Thread
    BY <1>1, OtherFrame DEF Calls, Thread
  <2>2. CASE Up
    BY <1>1, <2>1, <2>2, BeginKeepsDInv DEF SendRecv
  <2>3. CASE ~Up
    BY <1>0, <1>1, <2>1, <2>3 DEF SendRecv, handleVars
  <2>4. QED BY <2>2, <2>3
<1>2. ASSUME NEW t \in Receiver, NEW timed \in Timed, Recv(t, timed) PROVE DInv'
  <2>1. Calls /\ UNCHANGED <<purged, mutex, destroyed>> /\ t \in Thread
    BY <1>2, OtherFrame DEF Calls, Thread
  <2>2. QED
    BY <1>2, <2>1, BeginKeepsDInv DEF Recv
<1>3. ASSUME NEW t \in Closer, Disconnect(t) PROVE DInv'
  <2>1. Calls /\ UNCHANGED <<purged, mutex, destroyed>> /\ t \in Thread
    BY <1>3, OtherFrame DEF Calls, Thread
  <2>2. QED
    BY <1>3, <2>1, BeginKeepsDInv DEF Disconnect, Disconnects
<1>5. CASE Server
  BY <1>0, <1>5 DEF Server, Publish, Answer, Hangup, threadVars, handleVars
<1>6. CASE UNCHANGED vars
  BY <1>0, <1>6 DEF vars, threadVars, handleVars
<1>7. QED
  BY <1>1, <1>2, <1>3, <1>5, <1>6, StepKeepsDInv DEF Next, Calls

\* After the events were freed no thread takes one, adds one or is handed one.
LEMMA DInvUntouched ==
  ASSUME DInv, [Next]_vars, purged
  PROVE  LeavesQueue
<1> USE DEF LeavesQueue
<1>1. ~Up
  BY DEF DInv
<1>2. ASSUME NEW t \in Thread, Step(t) PROVE LeavesQueue
  <2>1. Fits(pc[t], call[t]) /\ Quiet(pc[t], call[t])
    BY DEF DInv, IInv
  <2>2. ~Overtaken(t) /\ ~HandOver(t)
    BY <2>1 DEF Fits, Quiet, Overtaken, HandOver, At
  <2>3. CASE EventLock(t)
    BY <1>1, <2>3 DEF EventLock
  <2>4. CASE ~EventLock(t)
    BY <1>2, <2>2, <2>4 DEF Step, Send, SendFails, AwaitReply, SendRecvReturns,
       Relock, RelockFails, TimedEnter, LookAtQueue, PollReadable, PollTimesOut,
       PollFails, TryLock, TimedUnlock, EventEnter, ReadHeader, ReadBody,
       Receive, ReceiveFails, Save, FailUnlock, MarkDead, Purge, Drain, FreeMutex, Wipe,
       Crash, handleVars
  <2>5. QED
    BY <2>3, <2>4
<1>3. CASE Calls
  <2>1. ASSUME NEW t, NEW timed, SendRecv(t, timed) PROVE LeavesQueue
    BY <2>1 DEF SendRecv, handleVars
  <2>2. ASSUME NEW t, NEW timed, Recv(t, timed) PROVE LeavesQueue
    BY <2>2 DEF Recv, handleVars
  <2>3. ASSUME NEW t, Disconnect(t) PROVE LeavesQueue
    BY <2>3 DEF Disconnect, Disconnects
  <2>4. QED BY <1>3, <2>1, <2>2, <2>3 DEF Calls
<1>4. CASE Server
  BY <1>4 DEF Server, Publish, Answer, Hangup, handleVars
<1>5. CASE UNCHANGED vars
  BY <1>5 DEF vars, handleVars
<1>6. QED
  BY <1>2, <1>3, <1>4, <1>5 DEF Next

\* While no two esl_disconnect overlap: there is one at most, it frees what
\* nobody freed before, and the mutex is there until it has freed it.
Solo ==
  /\ \A t, u \in Thread :
       call[t].op = "disconnect" /\ call[u].op = "disconnect" => t = u
  /\ \A t \in Thread :
       call[t].op = "disconnect" =>
         /\ ~destroyed /\ pc[t] # "crashed"
         /\ purged <=> pc[t] # "dc_lock"
         /\ mutex = "freed" => pc[t] = "dc_wipe"
  /\ (\A t \in Thread : call[t].op # "disconnect") =>
       (purged \/ mutex = "freed" => destroyed)

LInv == DInv /\ (~overlap => Solo)

LEMMA InitLInv ==
  Init => LInv
<1> SUFFICES ASSUME Init PROVE LInv
  OBVIOUS
<1>1. \A t \in Thread : call[t].op = "none"
  BY DEF Init, NoCall
<1>2. ~purged /\ mutex = "live"
  BY DEF Init
<1>3. QED
  BY <1>1, <1>2, InitDInv DEF LInv, Solo

\* A thread in esl_disconnect takes only its steps.
LEMMA DisconnectSteps ==
  ASSUME DInv, NEW t \in Thread, Step(t), call[t].op = "disconnect"
  PROVE  DisconnectingSteps(t) \/ Crash(t)
<1>1. Fits(pc[t], call[t])
  BY DEF DInv, IInv
<1>2. ~SendRecvSteps(t)
  BY <1>1 DEF Fits, At, SendRecvSteps, Send, SendFails, AwaitReply, Overtaken,
     SendRecvReturns, Relock, RelockFails
<1>3. ~TimedReceiveSteps(t)
  BY <1>1 DEF Fits, At, TimedReceiveSteps, TimedEnter, LookAtQueue, PollReadable,
     PollTimesOut, PollFails, TryLock, TimedUnlock
<1>4. ~EventReceiveSteps(t)
  BY <1>1 DEF Fits, At, EventReceiveSteps, EventEnter, EventLock, ReadHeader, ReadBody,
     Receive, ReceiveFails, Save, HandOver, FailUnlock, MarkDead, Reading
<1>5. QED
  BY <1>2, <1>3, <1>4 DEF Step, SendRecvSteps, TimedReceiveSteps, EventReceiveSteps,
     DisconnectingSteps

LEMMA StepKeepsSolo ==
  ASSUME DInv, Solo, NEW t \in Thread, Step(t)
  PROVE  Solo'
<1>1. Settles(t) /\ Others(t)
  BY StepSettles
<1>2. /\ purged' = purged \/ (Purge(t) /\ purged')
      /\ mutex' = mutex \/ FreeMutex(t)
      /\ destroyed' = destroyed \/ (Wipe(t) /\ destroyed')
  BY StepFrame
<1>3. Fits(pc[t], call[t]) /\ Typed
  BY DEF DInv, IInv
<1>4. CASE call[t].op # "disconnect"
  <2>1. call'[t].op # "disconnect"
    BY <1>1, <1>4 DEF Settles
  <2>2. ~Purge(t) /\ ~FreeMutex(t) /\ ~Wipe(t)
    BY <1>3, <1>4 DEF Fits, Purge, FreeMutex, Wipe, At
  <2>3. purged' = purged /\ mutex' = mutex /\ destroyed' = destroyed
    BY <1>2, <2>2
  <2>4. \A u \in Thread : /\ call'[u].op = "disconnect" <=> call[u].op = "disconnect"
                          /\ call'[u].op = "disconnect" => pc'[u] = pc[u]
    BY <1>1, <1>4, <2>1 DEF Others
  <2> QED BY <2>3, <2>4 DEF Solo
<1>5. CASE call[t].op = "disconnect"
  <2>1. /\ \A u \in Thread : call[u].op = "disconnect" => u = t
        /\ ~destroyed /\ (purged <=> pc[t] # "dc_lock")
        /\ mutex = "freed" => pc[t] = "dc_wipe"
    BY <1>5 DEF Solo
  <2>2. \A u \in Thread \ {t} : call'[u].op # "disconnect"
    BY <1>1, <2>1 DEF Others
  <2>3. CASE Wipe(t)
    <3>1. call'[t] = NoCall /\ destroyed'
      BY <1>3, <2>3, FinishTyped DEF Wipe, Typed
    <3>2. \A u \in Thread : call'[u].op # "disconnect"
      BY <2>2, <3>1 DEF NoCall
    <3> QED BY <3>1, <3>2 DEF Solo
  <2>4. ~Crash(t)
    <3>1. ~(pc[t] = "dc_lock" /\ Dangling)
      BY <2>1 DEF Dangling
    <3>2. pc[t] \in AtMutex => mutex = "live"
      BY <1>3, <2>1 DEF AtMutex, Typed
    <3> QED BY <1>5, <3>1, <3>2 DEF Crash, Usable, At
  <2>5. ASSUME ~destroyed', pc'[t] # "crashed", purged' <=> pc'[t] # "dc_lock",
               mutex' = "freed" => pc'[t] = "dc_wipe", call'[t].op = "disconnect"
        PROVE  Solo'
    BY <2>2, <2>5 DEF Solo
  <2>6. CASE Purge(t) \/ Drain(t) \/ FreeMutex(t)
    <3>1. PICK label \in Past : Continue(t, label)
      BY <2>6 DEF Purge, Drain, FreeMutex, Past
    <3>2. label \in Label /\ label # "crashed" /\ label # "dc_lock"
      BY DEF Past, Label
    <3>3. pc'[t] = label /\ call'[t] = call[t]
      BY <1>3, <3>1, <3>2, ContinueTyped
    <3>4. purged'
      BY <1>1, <3>3 DEF Settles
    <3>5. ~Wipe(t)
      BY <2>6 DEF Purge, Drain, FreeMutex, Wipe, At
    <3>6. FreeMutex(t) => pc'[t] = "dc_wipe"
      BY <1>3 DEF FreeMutex, Continue, Goto, Typed
    <3>7. ~FreeMutex(t) => mutex = "live"
      BY <1>3, <2>1, <2>6 DEF Purge, Drain, At, Typed
    <3> QED BY <1>2, <1>5, <2>1, <2>5, <3>2, <3>3, <3>4, <3>5, <3>6, <3>7
  <2> QED BY <1>5, <2>3, <2>4, <2>6, DisconnectSteps DEF DisconnectingSteps
<1> QED BY <1>4, <1>5

\* A disconnect that begins while none runs is the only one.
LEMMA DisconnectKeepsSolo ==
  ASSUME DInv, Solo, NEW t \in Thread, Disconnect(t), ~overlap'
  PROVE  Solo'
<1>1. \A u \in Thread : call[u].op # "disconnect"
  BY DEF Disconnect, Disconnects
<1>2. ~destroyed /\ UNCHANGED <<purged, mutex, destroyed>>
  BY DEF Disconnect, Disconnects, mutexVars
<1>3. ~purged /\ mutex # "freed"
  BY <1>1, <1>2 DEF Solo
<1>4. /\ pc'[t] = "dc_lock" /\ call'[t].op = "disconnect"
      /\ \A u \in Thread \ {t} : call'[u] = call[u]
  BY DEF Disconnect, Disconnects, Begin, Goto, DInv, IInv, Typed
<1> QED BY <1>1, <1>2, <1>3, <1>4 DEF Solo

LEMMA OtherKeepsSolo ==
  ASSUME DInv, Solo, NEW t \in Thread, UNCHANGED <<purged, mutex, destroyed>>,
         \A u \in Thread \ {t} : pc'[u] = pc[u] /\ call'[u] = call[u],
         \/ pc'[t] = pc[t] /\ call'[t] = call[t]
         \/ call[t].op # "disconnect" /\ call'[t].op # "disconnect"
  PROVE  Solo'
<1>1. \A u \in Thread : /\ call'[u].op = "disconnect" <=> call[u].op = "disconnect"
                        /\ call'[u].op = "disconnect" => pc'[u] = pc[u]
  OBVIOUS
<1> QED BY <1>1 DEF Solo

LEMMA BeginsOther ==
  ASSUME DInv, NEW t \in Thread, At(t, "idle"), NEW op \in {"send_recv", "recv"},
         NEW timed, NEW cmd, NEW label, Begin(t, op, timed, cmd, label)
  PROVE  /\ \A u \in Thread \ {t} : pc'[u] = pc[u] /\ call'[u] = call[u]
         /\ call[t].op # "disconnect" /\ call'[t].op # "disconnect"
<1> DEFINE c == [op |-> op, timed |-> timed, tried |-> FALSE, cmd |-> cmd, up |-> Up]
<1>1. c.op = op
  OBVIOUS
<1>2. pc' = [pc EXCEPT ![t] = label] /\ call' = [call EXCEPT ![t] = c]
  BY DEF Begin, Goto
<1> HIDE DEF c
<1>3. call[t].op = "none"
  BY DEF At, DInv, IInv, Fits
<1> QED BY <1>1, <1>2, <1>3 DEF DInv, IInv, Typed

LEMMA NextKeepsLInv ==
  LInv /\ [Next]_vars => LInv'
<1> SUFFICES ASSUME LInv, [Next]_vars PROVE LInv'
  OBVIOUS
<1>1. DInv /\ DInv'
  BY NextKeepsDInv DEF LInv
<1>2. SUFFICES ASSUME ~overlap' PROVE Solo'
  BY <1>1 DEF LInv
<1>3. ASSUME NEW t \in Thread, Step(t) PROVE Solo'
  BY <1>1, <1>2, <1>3, StepFrame, StepKeepsSolo DEF LInv
<1>4. ASSUME NEW t \in Closer, Disconnect(t) PROVE Solo'
  <2>1. ~overlap
    BY <1>2, <1>4 DEF Disconnect, Disconnects
  <2> QED BY <1>1, <1>2, <1>4, <2>1, DisconnectKeepsSolo DEF LInv, Thread
<1>5. ASSUME NEW t \in Sender, NEW timed \in Timed, SendRecv(t, timed) PROVE Solo'
  <2>1. t \in Thread /\ UNCHANGED <<purged, mutex, destroyed>> /\ overlap' = overlap
    BY <1>5 DEF Thread, SendRecv, handleVars, mutexVars
  <2>2. Solo
    BY <1>2, <2>1 DEF LInv
  <2>3. CASE Up
    <3>1. At(t, "idle") /\ Begin(t, "send_recv", timed, issued + 1, "sr_lock")
      BY <1>5, <2>3 DEF SendRecv
    <3> QED BY <1>1, <2>1, <2>2, <3>1, BeginsOther, OtherKeepsSolo
  <2>4. CASE ~Up
    <3>1. pc' = pc /\ call' = call
      BY <1>5, <2>4 DEF SendRecv
    <3> QED BY <1>1, <2>1, <2>2, <3>1, OtherKeepsSolo
  <2> QED BY <2>3, <2>4
<1>6. ASSUME NEW t \in Receiver, NEW timed \in Timed, Recv(t, timed) PROVE Solo'
  <2>1. t \in Thread /\ UNCHANGED <<purged, mutex, destroyed>> /\ overlap' = overlap
    BY <1>6 DEF Thread, Recv, handleVars, mutexVars
  <2>2. Solo
    BY <1>2, <2>1 DEF LInv
  <2>3. /\ At(t, "idle")
        /\ Begin(t, "recv", timed, 0, IF timed THEN "rt_enter" ELSE "re_enter")
    BY <1>6 DEF Recv
  <2> QED BY <1>1, <2>1, <2>2, <2>3, BeginsOther, OtherKeepsSolo
<1>7. CASE Server \/ UNCHANGED vars
  <2>1. UNCHANGED <<purged, mutex, destroyed, overlap, pc, call>>
    BY <1>7 DEF Server, Publish, Answer, Hangup, vars, threadVars, handleVars, mutexVars
  <2> QED BY <1>2, <2>1 DEF LInv, Solo
<1> QED BY <1>3, <1>4, <1>5, <1>6, <1>7 DEF Next, Calls

LEMMA LInvLateCallsSafe ==
  LInv => LateCallsSafe
<1> SUFFICES ASSUME LInv, NEW t \in Thread, pc[t] = "crashed"
             PROVE  IF call[t].op = "disconnect" THEN overlap ELSE call[t].up
  BY DEF LateCallsSafe, At
<1>1. CASE call[t].op = "disconnect"
  BY <1>1 DEF LInv, Solo
<1>2. CASE call[t].op # "disconnect"
  BY <1>2 DEF LInv, DInv, IInv, Fits, Late, TurnedAway
<1> QED BY <1>1, <1>2

\* A command or a receive that begins after esl_disconnect has closed the
\* socket is turned away before it comes to the lock, so it cannot reach the
\* mutex that esl_disconnect frees; and a disconnect can only where another
\* one overlapped it: alone, it finds the mutex live and the events not freed.
THEOREM LateCallsTurnedAway ==
  Spec => []LateCallsSafe
<1>1. QED
  BY InitLInv, NextKeepsLInv, LInvLateCallsSafe, PTL DEF Spec

LEMMA LInvUntouched ==
  ASSUME LInv, [Next]_vars, purged
  PROVE  LeavesQueue /\ (FreesEvents => overlap)
<1>1. LeavesQueue
  BY DInvUntouched DEF LInv
<1>2. ASSUME FreesEvents, ~overlap PROVE FALSE
  <2>1. PICK t \in Thread : pc[t] = "dc_lock"
    BY <1>2 DEF FreesEvents, At, Thread
  <2>2. call[t].op = "disconnect"
    BY <2>1 DEF LInv, DInv, IInv, Fits
  <2> QED BY <1>2, <2>1, <2>2 DEF LInv, Solo
<1> QED BY <1>1, <1>2

\* Between the moment esl_disconnect frees the queued events and the moment it
\* wipes the handle, race_event points at freed memory; no thread takes an
\* event from it, adds one or is handed one, and none frees them again unless
\* two esl_disconnect overlapped.
THEOREM FreedEventsUntouched ==
  Spec => PurgedUntouched
<1>1. LInv /\ [Next]_vars => [purged => LeavesQueue /\ (FreesEvents => overlap)]_vars
  BY LInvUntouched
<1>2. QED
  BY <1>1, InitLInv, NextKeepsLInv, PTL DEF Spec, PurgedUntouched
-----------------------------------------------------------------------------
(* The flow of events.  They pass from the server through transit, the      *)
(* buffer, a sender that meets one on the way to its reply, the queue of    *)
(* overtaking events and a receiver to the program, and each of these holds *)
(* a run of consecutive events.                                             *)

Chunk == [part : {"header", "body"}, kind : {"event", "reply", "notice"}, id : Nat]

Stored ==
  /\ revent \in [Thread -> Message \cup {None}]
  /\ race_event \in Seq(Message)
  /\ last_sr_event \in Message \cup {None}
  /\ packet_buf \in Seq(Chunk) /\ transit \in Seq(Chunk)
  /\ commands \in Seq(Nat) /\ published \in Nat /\ delivered \in Seq(Nat)

\* A thread holds a message exactly while it reads the body or parses it, and
\* a receiver reads from the socket only behind an empty queue.
HoldsAt(t) ==
  /\ revent[t] # None <=> pc[t] \in {"re_body", "re_parse"}
  /\ pc[t] = "re_body" => HasBody(revent[t])
  /\ pc[t] \in {"re_loop", "re_body"} /\ call[t].op = "recv" => race_event = <<>>
Holding == \A t \in Thread : HoldsAt(t)

\* An event is in last_sr_event only while the command that met it is about to
\* put it into the queue.
SavedFor(t) == pc[t] \in {"rt_unlock", "sr_check"} /\ call[t].op = "send_recv"
Saving ==
  last_sr_event # None /\ IsEvent(last_sr_event) => \E t \in Thread : SavedFor(t)

\* The chunks of w are messages, each body behind its header; the first is a
\* body if somebody has read its header.
Framed(w, reading) ==
  \A i \in DOMAIN w :
    w[i].part = "body" <=> IF i = 1 THEN reading
                           ELSE w[i - 1].part = "header" /\ HasBody(w[i - 1])
Whole(w, reading) ==
  IF w = <<>> THEN ~reading ELSE ~(w[Len(w)].part = "header" /\ HasBody(w[Len(w)]))
ReadingBody == \E t \in Thread : pc[t] = "re_body"

Framing ==
  /\ Framed(packet_buf, ReadingBody)
  /\ Up => /\ Framed(packet_buf \o transit, ReadingBody)
           /\ Whole(packet_buf \o transit, ReadingBody)

\* The events of s are those from a + 1 to b.
Flow(s, a, b) == a \in Nat /\ b \in Nat /\ a <= b /\ Carries(s, a, b)

\* From the n delivered ones to event f: the hand of a receiver, the queue, the
\* hand of a sender, the event it has met, the buffer.
Chain(n, h, q, g, s, p, f) ==
  \E b, c, d, e \in Nat :
    Flow(h, n, b) /\ Flow(q, b, c) /\ Flow(g, c, d) /\ Flow(s, d, e) /\ Flow(p, e, f)

InOrder(s) == s = [n \in 1 .. Len(s) |-> n]

Flowing ==
  /\ InOrder(delivered)
  /\ \E f \in Nat :
       /\ Chain(Len(delivered), InHand("recv"), race_event, InHand("send_recv"), Saved,
                packet_buf, f)
       /\ f <= published
       /\ Up => Flow(transit, f, published)

FInv == DInv /\ Stored /\ Holding /\ Saving /\ Framing /\ Flowing

-----------------------------------------------------------------------------
(* Flows are cut and joined.                                                *)

Where(s) == {i \in DOMAIN s : IsEvent(s[i])}
Shown(s) == {s[i].id : i \in Where(s)}
Ordered(s) == \A i, j \in Where(s) : i < j => s[i].id < s[j].id

LEMMA FlowIs ==
  ASSUME NEW s, NEW a, NEW b
  PROVE  Flow(s, a, b) <=> a \in Nat /\ b \in Nat /\ a <= b /\ Shown(s) = a + 1 .. b /\ Ordered(s)
BY DEF Flow, Carries, Shown, Ordered, Where

LEMMA FlowEmpty ==
  ASSUME NEW a \in Nat, NEW b \in Nat PROVE Flow(<<>>, a, b) <=> a = b
<1>1. Where(<<>>) = {} /\ Shown(<<>>) = {} /\ Ordered(<<>>)
  BY DEF Where, Shown, Ordered
<1>2. QED
  BY <1>1, FlowIs

LEMMA FlowOne ==
  ASSUME NEW m, NEW a \in Nat, NEW b \in Nat
  PROVE  Flow(<<m>>, a, b) <=> IF IsEvent(m) THEN b = a + 1 /\ m.id = b ELSE b = a
<1>1. DOMAIN <<m>> = {1} /\ <<m>>[1] = m
  OBVIOUS
<1>2. PICK s : s = <<m>>
  OBVIOUS
<1>3. DOMAIN s = {1} /\ s[1] = m
  BY <1>1, <1>2
<1>4. CASE IsEvent(m)
  <2>1. Where(s) = {1} /\ Shown(s) = {m.id} /\ Ordered(s)
    BY <1>3, <1>4 DEF Where, Shown, Ordered
  <2>2. (a <= b /\ {m.id} = a + 1 .. b) <=> (b = a + 1 /\ m.id = b)
    OBVIOUS
  <2>3. QED
    BY <1>2, <1>4, <2>1, <2>2, FlowIs
<1>5. CASE ~IsEvent(m)
  <2>1. Where(s) = {} /\ Shown(s) = {} /\ Ordered(s)
    BY <1>3, <1>5 DEF Where, Shown, Ordered
  <2>2. a + 1 .. b = {} <=> b < a + 1
    OBVIOUS
  <2>3. (a <= b /\ {} = a + 1 .. b) <=> b = a
    BY <2>2
  <2>4. QED
    BY <1>2, <1>5, <2>1, <2>3, FlowIs
<1>6. QED
  BY <1>4, <1>5

\* How p \o q is made of p and q.
Glue(w, p, q) == /\ Len(w) = Len(p) + Len(q)
                 /\ \A i \in 1 .. Len(p) : w[i] = p[i]
                 /\ \A i \in 1 .. Len(q) : w[Len(p) + i] = q[i]

LEMMA Joined ==
  ASSUME NEW S, NEW p \in Seq(S), NEW q \in Seq(S)
  PROVE  p \o q \in Seq(S) /\ Glue(p \o q, p, q)
BY DEF Glue

LEMMA WhereGlue ==
  ASSUME NEW S, NEW p \in Seq(S), NEW q \in Seq(S), NEW w \in Seq(S), Glue(w, p, q)
  PROVE  /\ Where(p) \subseteq 1 .. Len(p) /\ Where(q) \subseteq 1 .. Len(q)
         /\ \A i \in Where(p) : i \in Where(w) /\ w[i] = p[i]
         /\ \A i \in Where(q) : Len(p) + i \in Where(w) /\ w[Len(p) + i] = q[i]
         /\ \A i \in Where(w) : \/ i \in Where(p) /\ w[i] = p[i]
                                \/ \E j \in Where(q) : i = Len(p) + j /\ w[i] = q[j]
<1>1. DOMAIN p = 1 .. Len(p) /\ DOMAIN q = 1 .. Len(q) /\ DOMAIN w = 1 .. Len(w)
      /\ Len(p) \in Nat /\ Len(q) \in Nat
  OBVIOUS
<1>2. \A i \in Where(w) : i > Len(p) => i - Len(p) \in Where(q) /\ w[i] = q[i - Len(p)]
  BY <1>1 DEF Where, Glue
<1>3. \A i \in Where(w) : i <= Len(p) => i \in Where(p) /\ w[i] = p[i]
  BY <1>1 DEF Where, Glue
<1>4. ASSUME NEW i \in Where(w), i > Len(p)
      PROVE \E j \in Where(q) : i = Len(p) + j /\ w[i] = q[j]
  <2>1. i - Len(p) \in Where(q) /\ w[i] = q[i - Len(p)] /\ i = Len(p) + (i - Len(p))
    BY <1>1, <1>2, <1>4 DEF Where
  <2> QED BY <2>1
<1>5. \A i \in Where(w) : i \in Nat
  BY <1>1 DEF Where
<1>6. /\ \A i \in Where(p) : i \in Where(w) /\ w[i] = p[i]
      /\ \A i \in Where(q) : Len(p) + i \in Where(w) /\ w[Len(p) + i] = q[i]
  BY <1>1 DEF Where, Glue
<1>7. Where(p) \subseteq 1 .. Len(p) /\ Where(q) \subseteq 1 .. Len(q)
  BY <1>1 DEF Where
<1>8. ASSUME NEW i \in Where(w)
      PROVE  \/ i \in Where(p) /\ w[i] = p[i]
             \/ \E j \in Where(q) : i = Len(p) + j /\ w[i] = q[j]
  BY <1>1, <1>3, <1>4, <1>5
<1>9. QED
  BY <1>6, <1>7, <1>8

LEMMA ShownGlue ==
  ASSUME NEW S, NEW p \in Seq(S), NEW q \in Seq(S), NEW w \in Seq(S), Glue(w, p, q)
  PROVE  Shown(w) = Shown(p) \cup Shown(q)
<1>1. \A x \in Shown(w) : x \in Shown(p) \cup Shown(q)
  <2>1. TAKE x \in Shown(w)
  <2>2. PICK i \in Where(w) : x = w[i].id
    BY DEF Shown
  <2>3. \/ i \in Where(p) /\ w[i] = p[i]
        \/ \E j \in Where(q) : i = Len(p) + j /\ w[i] = q[j]
    BY WhereGlue
  <2>4. QED
    BY <2>2, <2>3 DEF Shown
<1>2. \A x \in Shown(p) : x \in Shown(w)
  <2>1. TAKE x \in Shown(p)
  <2>2. PICK i \in Where(p) : x = p[i].id
    BY DEF Shown
  <2>3. i \in Where(w) /\ w[i] = p[i]
    BY WhereGlue
  <2>4. QED
    BY <2>2, <2>3 DEF Shown
<1>3. \A x \in Shown(q) : x \in Shown(w)
  <2>1. TAKE x \in Shown(q)
  <2>2. PICK i \in Where(q) : x = q[i].id
    BY DEF Shown
  <2>3. Len(p) + i \in Where(w) /\ w[Len(p) + i] = q[i]
    BY WhereGlue
  <2>4. QED
    BY <2>2, <2>3 DEF Shown
<1>4. QED
  BY <1>1, <1>2, <1>3

Below(p, q) == \A x \in Shown(p), y \in Shown(q) : x < y

LEMMA OrderedGlue ==
  ASSUME NEW S, NEW p \in Seq(S), NEW q \in Seq(S), NEW w \in Seq(S), Glue(w, p, q)
  PROVE  Ordered(w) <=> Ordered(p) /\ Ordered(q) /\ Below(p, q)
<1>1. /\ \A i \in Where(p) : i \in Where(w) /\ w[i] = p[i]
      /\ \A i \in Where(q) : Len(p) + i \in Where(w) /\ w[Len(p) + i] = q[i]
      /\ Where(p) \subseteq 1 .. Len(p) /\ Where(q) \subseteq 1 .. Len(q)
      /\ Len(p) \in Nat /\ Len(q) \in Nat
  BY WhereGlue
<1>2. ASSUME Ordered(w) PROVE Ordered(p) /\ Ordered(q) /\ Below(p, q)
  <2>1. Ordered(p)
    BY <1>1, <1>2 DEF Ordered
  <2>2. ASSUME NEW i \in Where(q), NEW j \in Where(q), i < j PROVE q[i].id < q[j].id
    <3>1. Len(p) + i < Len(p) + j
      BY <1>1, <2>2
    <3>2. w[Len(p) + i].id < w[Len(p) + j].id
      BY <1>1, <1>2, <3>1 DEF Ordered
    <3>3. QED BY <1>1, <3>2
  <2>3. ASSUME NEW x \in Shown(p), NEW y \in Shown(q) PROVE x < y
    <3>1. PICK i \in Where(p) : x = p[i].id
      BY DEF Shown
    <3>2. PICK j \in Where(q) : y = q[j].id
      BY DEF Shown
    <3>3. i < Len(p) + j
      BY <1>1
    <3>4. w[i].id < w[Len(p) + j].id
      BY <1>1, <1>2, <3>3 DEF Ordered
    <3>5. QED BY <1>1, <3>1, <3>2, <3>4
  <2>4. QED
    BY <2>1, <2>2, <2>3 DEF Ordered, Below
<1>3. ASSUME Ordered(p), Ordered(q), Below(p, q) PROVE Ordered(w)
  <2>1. SUFFICES ASSUME NEW i \in Where(w), NEW j \in Where(w), i < j PROVE w[i].id < w[j].id
    BY DEF Ordered
  <2>2. (i \in Where(p) /\ w[i] = p[i]) \/ \E k \in Where(q) : i = Len(p) + k /\ w[i] = q[k]
    BY WhereGlue
  <2>3. (j \in Where(p) /\ w[j] = p[j]) \/ \E k \in Where(q) : j = Len(p) + k /\ w[j] = q[k]
    BY WhereGlue
  <2>4. CASE i \in Where(p) /\ w[i] = p[i]
    <3>1. CASE j \in Where(p) /\ w[j] = p[j]
      BY <1>3, <2>1, <2>4, <3>1 DEF Ordered
    <3>2. CASE \E k \in Where(q) : j = Len(p) + k /\ w[j] = q[k]
      <4>1. PICK k \in Where(q) : j = Len(p) + k /\ w[j] = q[k]
        BY <3>2
      <4>2. p[i].id \in Shown(p) /\ q[k].id \in Shown(q)
        BY <2>4 DEF Shown
      <4>3. QED BY <1>3, <2>4, <4>1, <4>2 DEF Below
    <3>3. QED BY <2>3, <3>1, <3>2
  <2>5. CASE \E k \in Where(q) : i = Len(p) + k /\ w[i] = q[k]
    <3>1. PICK k \in Where(q) : i = Len(p) + k /\ w[i] = q[k]
      BY <2>5
    <3>2. CASE j \in Where(p)
      BY <1>1, <2>1, <3>1, <3>2
    <3>3. CASE \E l \in Where(q) : j = Len(p) + l /\ w[j] = q[l]
      <4>1. PICK l \in Where(q) : j = Len(p) + l /\ w[j] = q[l]
        BY <3>3
      <4>2. k < l
        BY <1>1, <2>1, <3>1, <4>1
      <4>3. QED BY <1>3, <3>1, <4>1, <4>2 DEF Ordered
    <3>4. QED BY <2>3, <3>2, <3>3
  <2>6. QED BY <2>2, <2>4, <2>5
<1>4. QED
  BY <1>2, <1>3

LEMMA FlowJoin ==
  ASSUME NEW S, NEW p \in Seq(S), NEW q \in Seq(S), NEW a, NEW b, NEW c,
         Flow(p, a, b), Flow(q, b, c)
  PROVE  Flow(p \o q, a, c)
<1>1. PICK w \in Seq(S) : w = p \o q /\ Glue(w, p, q)
  BY Joined
<1>2. Shown(w) = Shown(p) \cup Shown(q)
  BY <1>1, ShownGlue
<1>3. /\ a \in Nat /\ b \in Nat /\ c \in Nat /\ a <= b /\ b <= c
      /\ Shown(p) = a + 1 .. b /\ Shown(q) = b + 1 .. c /\ Ordered(p) /\ Ordered(q)
  BY FlowIs
<1>4. Below(p, q)
  BY <1>3 DEF Below
<1>5. Ordered(w)
  BY <1>1, <1>3, <1>4, OrderedGlue
<1>6. Shown(w) = a + 1 .. c
  BY <1>2, <1>3
<1>7. QED
  BY <1>1, <1>3, <1>5, <1>6, FlowIs

\* The least of a set of numbers.
LEMMA Least ==
  ASSUME NEW T, T \subseteq Nat, T # {}
  PROVE  \E x \in T : \A y \in T : x <= y
<1>1. PICK x \in T : \A y \in T : <<y, x>> \notin OpToRel(<, Nat)
  BY WFMin, NatLessThanWellFounded
<1>2. \A y, z \in Nat : y < z => <<y, z>> \in OpToRel(<, Nat)
  BY DEF OpToRel
<1>3. ASSUME NEW y \in T PROVE x <= y
  <2>1. x \in Nat /\ y \in Nat
    OBVIOUS
  <2>2. ~(y < x)
    BY <1>1, <1>2, <2>1
  <2>3. QED BY <2>1, <2>2
<1>4. QED
  BY <1>3

LEMMA RangeSplit ==
  ASSUME NEW a \in Nat, NEW b \in Nat, NEW c \in Nat, a <= b, b <= c, NEW A, NEW B,
         A \cup B = a + 1 .. c, \A y \in A : y <= b, \A y \in B : b < y
  PROVE  A = a + 1 .. b /\ B = b + 1 .. c
<1>1. ASSUME NEW y \in A PROVE y \in a + 1 .. b
  <2>1. y \in a + 1 .. c /\ y <= b
    OBVIOUS
  <2>2. QED BY <2>1
<1>2. ASSUME NEW y \in B PROVE y \in b + 1 .. c
  <2>1. y \in a + 1 .. c /\ b < y
    OBVIOUS
  <2>2. QED BY <2>1
<1>3. \A y \in a + 1 .. b : y \in A \cup B /\ ~(b < y)
  OBVIOUS
<1>4. \A y \in b + 1 .. c : y \in A \cup B /\ ~(y <= b)
  OBVIOUS
<1>5. QED
  BY <1>1, <1>2, <1>3, <1>4

LEMMA FlowSplit ==
  ASSUME NEW S, NEW p \in Seq(S), NEW q \in Seq(S), NEW a, NEW c, Flow(p \o q, a, c)
  PROVE  \E b \in Nat : Flow(p, a, b) /\ Flow(q, b, c)
<1>1. PICK w \in Seq(S) : w = p \o q /\ Glue(w, p, q)
  BY Joined
<1>2. /\ a \in Nat /\ c \in Nat /\ a <= c /\ Shown(w) = a + 1 .. c /\ Ordered(w)
  BY <1>1, FlowIs
<1>3. Shown(p) \cup Shown(q) = a + 1 .. c /\ Ordered(p) /\ Ordered(q) /\ Below(p, q)
  <2>1. Shown(w) = Shown(p) \cup Shown(q)
    BY <1>1, ShownGlue
  <2>2. Ordered(w) <=> Ordered(p) /\ Ordered(q) /\ Below(p, q)
    BY <1>1, OrderedGlue
  <2>3. QED BY <1>2, <2>1, <2>2
<1>4. CASE Shown(q) = {}
  <2>1. Shown(p) = a + 1 .. c /\ Shown(q) = c + 1 .. c
    BY <1>2, <1>3, <1>4
  <2>2. Flow(p, a, c) /\ Flow(q, c, c)
    BY <1>2, <1>3, <2>1, FlowIs
  <2>3. QED BY <1>2, <2>2
<1>5. CASE Shown(q) # {}
  <2>1. Shown(q) \subseteq Nat
    BY <1>2, <1>3
  <2>2. PICK x \in Shown(q) : \A y \in Shown(q) : x <= y
    BY <1>5, <2>1, Least
  <2>3. x \in a + 1 .. c
    BY <1>3
  <2>4. PICK b \in Nat : x = b + 1 /\ a <= b /\ b <= c
    <3>1. x - 1 \in Nat /\ x = (x - 1) + 1 /\ a <= x - 1 /\ x - 1 <= c
      BY <1>2, <2>3
    <3>2. QED BY <3>1
  <2>5. \A y \in Shown(p) : y <= b
    BY <1>2, <1>3, <2>4 DEF Below
  <2>6. \A y \in Shown(q) : b < y
    BY <2>1, <2>2, <2>4
  <2>7. Shown(p) = a + 1 .. b /\ Shown(q) = b + 1 .. c
    BY <1>2, <1>3, <2>4, <2>5, <2>6, RangeSplit
  <2>8. QED
    BY <1>2, <1>3, <2>4, <2>7, FlowIs
<1>6. QED
  BY <1>4, <1>5

-----------------------------------------------------------------------------
(* What a step does to the chain.                                           *)

LEMMA SameSeq ==
  ASSUME NEW S, NEW p \in Seq(S), NEW q \in Seq(S), Len(p) = Len(q),
         \A i \in 1 .. Len(p) : p[i] = q[i]
  PROVE  p = q
OBVIOUS

LEMMA HeadTail ==
  ASSUME NEW S, NEW p \in Seq(S), p # <<>>
  PROVE  /\ Head(p) = p[1] /\ p[1] \in S /\ Tail(p) \in Seq(S) /\ <<p[1]>> \in Seq(S)
         /\ Len(p) \in Nat \ {0} /\ Len(Tail(p)) = Len(p) - 1
         /\ \A i \in 1 .. Len(p) - 1 : Tail(p)[i] = p[i + 1]
         /\ p = <<Head(p)>> \o Tail(p)
<1>1. /\ Head(p) = p[1] /\ p[1] \in S /\ Tail(p) \in Seq(S) /\ <<p[1]>> \in Seq(S)
      /\ Len(p) \in Nat \ {0} /\ Len(Tail(p)) = Len(p) - 1
      /\ \A i \in 1 .. Len(p) - 1 : Tail(p)[i] = p[i + 1]
  OBVIOUS
<1>2. PICK h \in Seq(S) : h = <<p[1]>> /\ Len(h) = 1 /\ h[1] = p[1]
  BY <1>1
<1>3. PICK r \in Seq(S) : r = Tail(p) /\ Len(r) = Len(p) - 1 /\ \A i \in 1 .. Len(p) - 1 : r[i] = p[i + 1]
  BY <1>1
<1>4. PICK w \in Seq(S) : w = h \o r /\ Glue(w, h, r)
  BY Joined
<1>5. Len(w) = Len(p) /\ Len(p) \in Nat
  BY <1>1, <1>2, <1>3, <1>4 DEF Glue
<1>6. ASSUME NEW i \in 1 .. Len(p) PROVE w[i] = p[i]
  <2>1. CASE i = 1
    BY <1>2, <1>4, <2>1 DEF Glue
  <2>2. CASE i # 1
    <3>1. i - 1 \in 1 .. Len(r) /\ i - 1 \in 1 .. Len(p) - 1
      BY <1>1, <1>3, <2>2
    <3>2. w[Len(h) + (i - 1)] = r[i - 1] /\ r[i - 1] = p[(i - 1) + 1]
      BY <1>3, <1>4, <3>1 DEF Glue
    <3>3. Len(h) + (i - 1) = i /\ (i - 1) + 1 = i
      BY <1>2
    <3>4. QED BY <3>2, <3>3
  <2>3. QED BY <2>1, <2>2
<1>7. w = p
  BY <1>5, <1>6, SameSeq
<1>8. QED
  BY <1>1, <1>2, <1>3, <1>4, <1>7

LEMMA AppendIs ==
  ASSUME NEW S, NEW q \in Seq(S), NEW m \in S
  PROVE  <<m>> \in Seq(S) /\ q \o <<m>> = Append(q, m) /\ Append(q, m) \in Seq(S)
<1>0. <<m>> \in Seq(S) /\ Len(<<m>>) = 1 /\ <<m>>[1] = m
  OBVIOUS
<1>1. PICK r \in Seq(S) : r = <<m>> /\ Len(r) = 1 /\ r[1] = m
  BY <1>0
<1>2. PICK w \in Seq(S) : w = q \o r /\ Glue(w, q, r)
  BY Joined
<1>v. /\ Append(q, m) \in Seq(S) /\ Len(Append(q, m)) = Len(q) + 1
      /\ Append(q, m)[Len(q) + 1] = m
      /\ \A i \in 1 .. Len(q) : Append(q, m)[i] = q[i]
  OBVIOUS
<1>3. PICK v \in Seq(S) : /\ v = Append(q, m) /\ Len(v) = Len(q) + 1 /\ v[Len(q) + 1] = m
                         /\ \A i \in 1 .. Len(q) : v[i] = q[i]
  BY <1>v
<1>4. Len(q) \in Nat
  OBVIOUS
<1>5. \A i \in 1 .. Len(v) : w[i] = v[i]
  BY <1>1, <1>2, <1>3, <1>4 DEF Glue
<1>6. w = v
  BY <1>1, <1>2, <1>3, <1>5, SameSeq DEF Glue
<1>7. QED
  BY <1>1, <1>2, <1>3, <1>6

LEMMA FlowHead ==
  ASSUME NEW S, NEW p \in Seq(S), p # <<>>, NEW a, NEW c, Flow(p, a, c)
  PROVE  \E b \in Nat : Flow(<<Head(p)>>, a, b) /\ Flow(Tail(p), b, c)
<1>1. /\ Head(p) = p[1] /\ Tail(p) \in Seq(S) /\ <<p[1]>> \in Seq(S)
      /\ p = <<Head(p)>> \o Tail(p)
  BY HeadTail
<1>2. PICK h \in Seq(S), r \in Seq(S) : h = <<Head(p)>> /\ r = Tail(p) /\ Flow(h \o r, a, c)
  BY <1>1
<1>3. \E b \in Nat : Flow(h, a, b) /\ Flow(r, b, c)
  BY <1>2, FlowSplit
<1>4. QED
  BY <1>2, <1>3

\* s holds no event.
Silent(s) == \A d, e \in Nat : Flow(s, d, e) <=> d = e

LEMMA EmptySilent == Silent(<<>>)
BY FlowEmpty DEF Silent

LEMMA OneSilent ==
  ASSUME NEW m, ~IsEvent(m) PROVE Silent(<<m>>)
BY FlowOne DEF Silent

LEMMA FlowNat ==
  ASSUME NEW s, NEW a, NEW b, Flow(s, a, b) PROVE a \in Nat /\ b \in Nat /\ a <= b
BY DEF Flow

\* A receiver takes the first of the queue.
LEMMA ChainQueue ==
  ASSUME NEW S, NEW n, NEW q \in Seq(S), NEW g, NEW s, NEW p, NEW f \in Nat, q # <<>>,
         Chain(n, <<>>, q, g, s, p, f)
  PROVE  Chain(n, <<Head(q)>>, Tail(q), g, s, p, f)
<1>1. PICK b, c, d, e \in Nat :
        Flow(<<>>, n, b) /\ Flow(q, b, c) /\ Flow(g, c, d) /\ Flow(s, d, e) /\ Flow(p, e, f)
  BY DEF Chain
<1>2. n \in Nat /\ n = b
  BY <1>1, FlowNat, FlowEmpty
<1>3. PICK x \in Nat : Flow(<<Head(q)>>, b, x) /\ Flow(Tail(q), x, c)
  BY <1>1, FlowHead
<1>4. QED
  BY <1>1, <1>2, <1>3 DEF Chain

\* A receiver reads from the buffer.
LEMMA ChainRead ==
  ASSUME NEW S, NEW n, NEW s, NEW p \in Seq(S), NEW f \in Nat, p # <<>>, Silent(s),
         Chain(n, <<>>, <<>>, <<>>, s, p, f)
  PROVE  Chain(n, <<Head(p)>>, <<>>, <<>>, s, Tail(p), f)
<1>1. PICK b, c, d, e \in Nat :
        Flow(<<>>, n, b) /\ Flow(<<>>, b, c) /\ Flow(<<>>, c, d) /\ Flow(s, d, e) /\ Flow(p, e, f)
  BY DEF Chain
<1>2. n \in Nat /\ n = b /\ b = c /\ c = d
  BY <1>1, FlowNat, FlowEmpty
<1>3. d = e
  BY <1>1 DEF Silent
<1>4. PICK x \in Nat : Flow(<<Head(p)>>, e, x) /\ Flow(Tail(p), x, f)
  BY <1>1, FlowHead
<1>5. Flow(<<>>, x, x) /\ Flow(s, x, x)
  BY FlowEmpty DEF Silent
<1>6. Flow(<<Head(p)>>, n, x)
  BY <1>2, <1>3, <1>4
<1>7. QED
  BY <1>4, <1>5, <1>6 DEF Chain

\* A sender reads from the buffer.
LEMMA ChainMeet ==
  ASSUME NEW S, NEW n, NEW h, NEW q, NEW s, NEW p \in Seq(S), NEW f \in Nat, p # <<>>,
         Silent(s), Chain(n, h, q, <<>>, s, p, f)
  PROVE  Chain(n, h, q, <<Head(p)>>, s, Tail(p), f)
<1>1. PICK b, c, d, e \in Nat :
        Flow(h, n, b) /\ Flow(q, b, c) /\ Flow(<<>>, c, d) /\ Flow(s, d, e) /\ Flow(p, e, f)
  BY DEF Chain
<1>2. c = d /\ d = e
  BY <1>1, FlowEmpty DEF Silent
<1>3. PICK x \in Nat : Flow(<<Head(p)>>, e, x) /\ Flow(Tail(p), x, f)
  BY <1>1, FlowHead
<1>4. Flow(s, x, x)
  BY DEF Silent
<1>5. Flow(<<Head(p)>>, c, x)
  BY <1>2, <1>3
<1>6. QED
  BY <1>1, <1>3, <1>4, <1>5 DEF Chain

\* The body is read.
LEMMA ChainBody ==
  ASSUME NEW S, NEW n, NEW h, NEW q, NEW g, NEW s, NEW p \in Seq(S), NEW f \in Nat,
         p # <<>>, ~IsEvent(Head(p)), Chain(n, h, q, g, s, p, f)
  PROVE  Chain(n, h, q, g, s, Tail(p), f)
<1>1. PICK b, c, d, e \in Nat :
        Flow(h, n, b) /\ Flow(q, b, c) /\ Flow(g, c, d) /\ Flow(s, d, e) /\ Flow(p, e, f)
  BY DEF Chain
<1>2. PICK x \in Nat : Flow(<<Head(p)>>, e, x) /\ Flow(Tail(p), x, f)
  BY <1>1, FlowHead
<1>3. x = e
  BY <1>2, FlowOne
<1>4. QED
  BY <1>1, <1>2, <1>3 DEF Chain

\* Chunks arrive in an empty buffer.
LEMMA ChainArrive ==
  ASSUME NEW S, NEW n, NEW h, NEW q, NEW g, NEW s, NEW f \in Nat, NEW x \in Seq(S),
         NEW y \in Seq(S), NEW last, Flow(x \o y, f, last), Chain(n, h, q, g, s, <<>>, f)
  PROVE  \E k \in Nat : Chain(n, h, q, g, s, x, k) /\ Flow(y, k, last)
<1>1. PICK b, c, d, e \in Nat :
        Flow(h, n, b) /\ Flow(q, b, c) /\ Flow(g, c, d) /\ Flow(s, d, e) /\ Flow(<<>>, e, f)
  BY DEF Chain
<1>2. e = f
  BY <1>1, FlowEmpty
<1>3. PICK k \in Nat : Flow(x, f, k) /\ Flow(y, k, last)
  BY FlowSplit
<1>4. Chain(n, h, q, g, s, x, k)
  BY <1>1, <1>2, <1>3 DEF Chain
<1>5. QED
  BY <1>3, <1>4

\* The connection is lost between a header and its body: of the chain up to f
\* that of a receiver, or of a sender, is dropped.
LEMMA ChainLoseRead ==
  ASSUME NEW n, NEW h, NEW s, NEW f \in Nat, Silent(s),
         Chain(n, h, <<>>, <<>>, s, <<>>, f)
  PROVE  \E k \in Nat : k <= f /\ Chain(n, <<>>, <<>>, <<>>, s, <<>>, k)
<1>1. PICK b, c, d, e \in Nat :
        Flow(h, n, b) /\ Flow(<<>>, b, c) /\ Flow(<<>>, c, d) /\ Flow(s, d, e) /\ Flow(<<>>, e, f)
  BY DEF Chain
<1>2. n \in Nat /\ b \in Nat /\ n <= b
  BY <1>1, FlowNat
<1>3. b = c /\ c = d /\ d = e /\ e = f
  BY <1>1, FlowEmpty DEF Silent
<1>4. Flow(<<>>, n, n) /\ Flow(s, n, n)
  BY <1>2, FlowEmpty DEF Silent
<1>5. Chain(n, <<>>, <<>>, <<>>, s, <<>>, n)
  BY <1>2, <1>4 DEF Chain
<1>6. QED
  BY <1>2, <1>3, <1>5

LEMMA ChainLoseMet ==
  ASSUME NEW n, NEW h, NEW q, NEW g, NEW s, NEW f \in Nat, Silent(s),
         Chain(n, h, q, g, s, <<>>, f)
  PROVE  \E k \in Nat : k <= f /\ Chain(n, h, q, <<>>, s, <<>>, k)
<1>1. PICK b, c, d, e \in Nat :
        Flow(h, n, b) /\ Flow(q, b, c) /\ Flow(g, c, d) /\ Flow(s, d, e) /\ Flow(<<>>, e, f)
  BY DEF Chain
<1>2. c <= d
  BY <1>1, FlowNat
<1>3. d = e /\ e = f
  BY <1>1, FlowEmpty DEF Silent
<1>4. Flow(<<>>, c, c) /\ Flow(s, c, c)
  BY FlowEmpty DEF Silent
<1>5. Chain(n, h, q, <<>>, s, <<>>, c)
  BY <1>1, <1>4 DEF Chain
<1>6. QED
  BY <1>2, <1>3, <1>5

\* A sender saves what it has read.
LEMMA ChainSave ==
  ASSUME NEW n, NEW h, NEW q, NEW g, NEW s, NEW p, NEW f \in Nat, Silent(s),
         Chain(n, h, q, g, s, p, f)
  PROVE  Chain(n, h, q, <<>>, g, p, f)
<1>1. PICK b, c, d, e \in Nat :
        Flow(h, n, b) /\ Flow(q, b, c) /\ Flow(g, c, d) /\ Flow(s, d, e) /\ Flow(p, e, f)
  BY DEF Chain
<1>2. d = e /\ Flow(<<>>, c, c)
  BY <1>1, FlowEmpty DEF Silent
<1>3. QED
  BY <1>1, <1>2 DEF Chain

\* The event a command has met goes to the end of the queue.
LEMMA ChainOvertake ==
  ASSUME NEW S, NEW n, NEW h, NEW q \in Seq(S), NEW m \in S, NEW p, NEW f \in Nat,
         Chain(n, h, q, <<>>, <<m>>, p, f)
  PROVE  Chain(n, h, Append(q, m), <<>>, <<>>, p, f)
<1>1. PICK b, c, d, e \in Nat :
        /\ Flow(h, n, b) /\ Flow(q, b, c) /\ Flow(<<>>, c, d) /\ Flow(<<m>>, d, e)
        /\ Flow(p, e, f)
  BY DEF Chain
<1>2. c = d
  BY <1>1, FlowEmpty
<1>3. PICK r \in Seq(S) : r = <<m>> /\ q \o r = Append(q, m)
  BY AppendIs
<1>4. Flow(q \o r, b, e)
  BY <1>1, <1>2, <1>3, FlowJoin
<1>5. Flow(<<>>, e, e)
  BY FlowEmpty
<1>6. QED
  BY <1>1, <1>3, <1>4, <1>5 DEF Chain

\* A receiver hands over what it holds.
LEMMA ChainHandOver ==
  ASSUME NEW n, NEW m, NEW q, NEW g, NEW s, NEW p, NEW f \in Nat,
         Chain(n, <<m>>, q, g, s, p, f)
  PROVE  /\ IsEvent(m) => m.id = n + 1 /\ n + 1 <= f /\ Chain(n + 1, <<>>, q, g, s, p, f)
         /\ ~IsEvent(m) => Chain(n, <<>>, q, g, s, p, f)
<1>1. PICK b, c, d, e \in Nat :
        Flow(<<m>>, n, b) /\ Flow(q, b, c) /\ Flow(g, c, d) /\ Flow(s, d, e) /\ Flow(p, e, f)
  BY DEF Chain
<1>2. n \in Nat /\ b \in Nat /\ b <= c /\ c <= d /\ d <= e /\ e <= f /\ Flow(<<>>, b, b)
  BY <1>1, FlowNat, FlowEmpty
<1>3. Chain(b, <<>>, q, g, s, p, f)
  BY <1>1, <1>2 DEF Chain
<1>4. IF IsEvent(m) THEN b = n + 1 /\ m.id = b ELSE b = n
  BY <1>1, <1>2, FlowOne
<1>5. QED
  BY <1>2, <1>3, <1>4

\* What holds no event can be dropped.
LEMMA ChainForget ==
  ASSUME NEW n, NEW h, NEW q, NEW g, NEW s, NEW z, NEW p, NEW f \in Nat, Silent(s),
         Silent(z), Chain(n, h, q, g, s, p, f)
  PROVE  Chain(n, h, q, g, z, p, f)
<1>1. PICK b, c, d, e \in Nat :
        Flow(h, n, b) /\ Flow(q, b, c) /\ Flow(g, c, d) /\ Flow(s, d, e) /\ Flow(p, e, f)
  BY DEF Chain
<1>2. d = e /\ Flow(z, d, d)
  BY <1>1 DEF Silent
<1>3. QED
  BY <1>1, <1>2 DEF Chain

-----------------------------------------------------------------------------
(* Framing.                                                                 *)

LEMMA FramedPrefix ==
  ASSUME NEW S, NEW p \in Seq(S), NEW q \in Seq(S), NEW r, Framed(p \o q, r)
  PROVE  Framed(p, r)
<1>1. PICK w \in Seq(S) : w = p \o q /\ Glue(w, p, q) /\ Framed(w, r)
  BY Joined
<1>2. DOMAIN p = 1 .. Len(p) /\ DOMAIN w = 1 .. Len(w) /\ Len(p) \in Nat /\ Len(q) \in Nat
  OBVIOUS
<1>3. ASSUME NEW i \in DOMAIN p
      PROVE  p[i].part = "body" <=> IF i = 1 THEN r
                                    ELSE p[i - 1].part = "header" /\ HasBody(p[i - 1])
  <2>1. i \in DOMAIN w /\ w[i] = p[i]
    BY <1>1, <1>2 DEF Glue
  <2>2. i # 1 => i - 1 \in 1 .. Len(p) /\ w[i - 1] = p[i - 1]
    BY <1>1, <1>2 DEF Glue
  <2>3. w[i].part = "body" <=> IF i = 1 THEN r
                               ELSE w[i - 1].part = "header" /\ HasBody(w[i - 1])
    BY <1>1, <2>1 DEF Framed
  <2>4. QED BY <2>1, <2>2, <2>3
<1>4. QED
  BY <1>3 DEF Framed

LEMMA FramedTail ==
  ASSUME NEW S, NEW w \in Seq(S), w # <<>>, NEW r, Framed(w, r)
  PROVE  /\ Head(w).part = "body" <=> r
         /\ Framed(Tail(w), Head(w).part = "header" /\ HasBody(Head(w)))
         /\ Whole(w, r) => Whole(Tail(w), Head(w).part = "header" /\ HasBody(Head(w)))
<1>0. /\ Tail(w) \in Seq(S) /\ Len(Tail(w)) = Len(w) - 1
      /\ \A i \in 1 .. Len(Tail(w)) : Tail(w)[i] = w[i + 1]
  BY HeadTail
<1>1. PICK v \in Seq(S) : v = Tail(w) /\ Len(v) = Len(w) - 1 /\ \A i \in 1 .. Len(v) : v[i] = w[i + 1]
  BY <1>0
<1>2. /\ DOMAIN v = 1 .. Len(v) /\ DOMAIN w = 1 .. Len(w) /\ Len(w) \in Nat /\ Len(w) > 0
      /\ Head(w) = w[1]
  BY HeadTail
<1> DEFINE s == w[1].part = "header" /\ HasBody(w[1])
<1>3. w[1].part = "body" <=> r
  BY <1>2 DEF Framed
<1>4. ASSUME NEW i \in DOMAIN v
      PROVE  v[i].part = "body" <=> IF i = 1 THEN s
                                    ELSE v[i - 1].part = "header" /\ HasBody(v[i - 1])
  <2>1. i + 1 \in DOMAIN w /\ v[i] = w[i + 1] /\ i + 1 # 1 /\ (i + 1) - 1 = i
    BY <1>1, <1>2
  <2>2. w[i + 1].part = "body" <=> w[i].part = "header" /\ HasBody(w[i])
    BY <2>1 DEF Framed
  <2>3. i # 1 => v[i - 1] = w[i]
    <3>1. ASSUME i # 1 PROVE v[i - 1] = w[i]
      <4>1. i - 1 \in 1 .. Len(v) /\ (i - 1) + 1 = i
        BY <1>2, <3>1
      <4>2. QED BY <1>1, <4>1
    <3>2. QED BY <3>1
  <2>4. QED BY <2>1, <2>2, <2>3
<1>5. Framed(v, s)
  BY <1>4 DEF Framed
<1>6. ASSUME Whole(w, r) PROVE Whole(v, s)
  <2>1. ~(w[Len(w)].part = "header" /\ HasBody(w[Len(w)]))
    BY <1>6 DEF Whole
  <2>2. CASE v = <<>>
    <3>1. Len(w) = 1
      BY <1>1, <1>2, <2>2
    <3>2. QED BY <2>1, <2>2, <3>1 DEF Whole
  <2>3. CASE v # <<>>
    <3>1. Len(v) \in 1 .. Len(v) /\ Len(v) + 1 = Len(w)
      BY <1>1, <1>2, <2>3
    <3>2. v[Len(v)] = w[Len(w)]
      BY <1>1, <3>1
    <3>3. QED BY <2>1, <2>3, <3>2 DEF Whole
  <2>4. QED BY <2>2, <2>3
<1>7. QED
  BY <1>1, <1>2, <1>3, <1>5, <1>6

\* What the server sends: a reply, a message and its body, or nothing.
Letter(x) ==
  \/ x = <<>>
  \/ Len(x) = 1 /\ x[1].part = "header" /\ ~HasBody(x[1])
  \/ Len(x) = 2 /\ x[1].part = "header" /\ HasBody(x[1]) /\ x[2].part = "body"

LEMMA FramedSent ==
  ASSUME NEW S, NEW w \in Seq(S), NEW x \in Seq(S), NEW r \in BOOLEAN, Letter(x),
         Framed(w, r), Whole(w, r)
  PROVE  Framed(w \o x, r) /\ Whole(w \o x, r)
<1>1. PICK v \in Seq(S) : v = w \o x /\ Glue(v, w, x)
  BY Joined
<1>2. /\ DOMAIN v = 1 .. Len(v) /\ DOMAIN w = 1 .. Len(w) /\ DOMAIN x = 1 .. Len(x)
      /\ Len(w) \in Nat /\ Len(x) \in Nat /\ Len(v) = Len(w) + Len(x)
      /\ x = <<>> <=> Len(x) = 0
      /\ w = <<>> <=> Len(w) = 0
      /\ v = <<>> <=> Len(v) = 0
  BY <1>1 DEF Glue
<1>3. ASSUME NEW i \in DOMAIN v
      PROVE  v[i].part = "body" <=> IF i = 1 THEN r
                                    ELSE v[i - 1].part = "header" /\ HasBody(v[i - 1])
  <2>1. CASE i \in DOMAIN w
    <3>1. v[i] = w[i] /\ (i # 1 => v[i - 1] = w[i - 1])
      BY <1>1, <1>2, <2>1 DEF Glue
    <3>2. w[i].part = "body" <=> IF i = 1 THEN r
                                 ELSE w[i - 1].part = "header" /\ HasBody(w[i - 1])
      BY <2>1 DEF Framed
    <3>3. QED BY <3>1, <3>2
  <2>2. CASE i = Len(w) + 1
    <3>1. 1 \in 1 .. Len(x)
      BY <1>2, <2>2
    <3>2. v[i] = x[1] /\ x[1].part = "header"
      BY <1>1, <1>2, <2>2, <3>1 DEF Glue, Letter
    <3>3. CASE i = 1
      <4>1. ~r
        BY <1>2, <2>2, <3>3 DEF Whole
      <4>2. QED BY <3>2, <3>3, <4>1
    <3>4. CASE i # 1
      <4>1. Len(w) \in 1 .. Len(w) /\ i - 1 = Len(w) /\ w # <<>>
        BY <1>2, <2>2, <3>4
      <4>2. v[i - 1] = w[Len(w)]
        BY <1>1, <4>1 DEF Glue
      <4>3. ~(w[Len(w)].part = "header" /\ HasBody(w[Len(w)]))
        BY <4>1 DEF Whole
      <4>4. QED BY <3>2, <3>4, <4>2, <4>3
    <3>5. QED BY <3>3, <3>4
  <2>3. CASE i = Len(w) + 2
    <3>1. Len(x) = 2 /\ 1 \in 1 .. Len(x) /\ 2 \in 1 .. Len(x)
      BY <1>2, <2>3 DEF Letter
    <3>2. v[i] = x[2] /\ v[i - 1] = x[1] /\ i # 1
      <4>1. v[Len(w) + 2] = x[2] /\ v[Len(w) + 1] = x[1]
        BY <1>1, <3>1 DEF Glue
      <4>2. i - 1 = Len(w) + 1 /\ i # 1
        BY <1>2, <2>3
      <4>3. QED BY <2>3, <4>1, <4>2
    <3>3. x[1].part = "header" /\ HasBody(x[1]) /\ x[2].part = "body"
      BY <1>2, <3>1 DEF Letter
    <3>4. QED BY <3>2, <3>3
  <2>4. Len(x) \in 0 .. 2
    BY <1>2 DEF Letter
  <2>5. i \in 1 .. Len(w) + Len(x)
    BY <1>2
  <2>6. \A m, j \in Nat, k \in 0 .. 2 :
          1 <= j /\ j <= m + k => j <= m \/ j = m + 1 \/ j = m + 2
    OBVIOUS
  <2>7. i \in DOMAIN w \/ i = Len(w) + 1 \/ i = Len(w) + 2
    <3>1. Len(w) \in Nat /\ i \in Nat /\ 1 <= i /\ i <= Len(w) + Len(x)
      BY <1>2, <2>5
    <3>2. i <= Len(w) \/ i = Len(w) + 1 \/ i = Len(w) + 2
      BY <2>4, <2>6, <3>1
    <3>3. DOMAIN w = 1 .. Len(w)
      BY <1>2
    <3>4. i <= Len(w) => i \in DOMAIN w
      BY <3>1, <3>3
    <3>5. QED BY <3>2, <3>4
  <2>8. QED BY <2>1, <2>2, <2>3, <2>7
<1>4. CASE Len(x) = 0
  <2>1. v = w
    BY <1>1, <1>2, <1>4, SameSeq DEF Glue
  <2>2. QED BY <1>1, <2>1
<1>5. CASE Len(x) # 0
  <2>1. Len(x) \in 1 .. Len(x) /\ v # <<>> /\ Len(v) = Len(w) + Len(x)
    BY <1>2, <1>5
  <2>2. v[Len(v)] = x[Len(x)]
    BY <1>1, <2>1 DEF Glue
  <2>3. ~(x[Len(x)].part = "header" /\ HasBody(x[Len(x)]))
    BY <1>2, <1>5 DEF Letter
  <2>4. Whole(v, r)
    BY <2>1, <2>2, <2>3 DEF Whole
  <2>5. QED BY <1>1, <1>3, <2>4 DEF Framed
<1>6. QED
  BY <1>4, <1>5

\* The order in which three sequences are joined does not matter, nor does it
\* whether the head is taken before or after.
LEMMA Associated ==
  ASSUME NEW S, NEW p \in Seq(S), NEW q \in Seq(S), NEW r \in Seq(S)
  PROVE  (p \o q) \o r = p \o (q \o r)
<1>1. PICK a \in Seq(S) : a = p \o q /\ Glue(a, p, q)
  BY Joined
<1>2. PICK b \in Seq(S) : b = q \o r /\ Glue(b, q, r)
  BY Joined
<1>3. PICK v \in Seq(S) : v = a \o r /\ Glue(v, a, r)
  BY Joined
<1>4. PICK w \in Seq(S) : w = p \o b /\ Glue(w, p, b)
  BY Joined
<1>5. Len(p) \in Nat /\ Len(q) \in Nat /\ Len(r) \in Nat /\ Len(v) = Len(w)
      /\ Len(a) = Len(p) + Len(q) /\ Len(b) = Len(q) + Len(r)
      /\ Len(v) = (Len(p) + Len(q)) + Len(r)
  BY <1>1, <1>2, <1>3, <1>4 DEF Glue
<1>6. ASSUME NEW i \in 1 .. Len(v) PROVE v[i] = w[i]
  <2>1. CASE i <= Len(p)
    <3>1. i \in 1 .. Len(p) /\ i \in 1 .. Len(a)
      BY <1>5, <2>1
    <3>2. v[i] = a[i] /\ a[i] = p[i] /\ w[i] = p[i]
      BY <1>1, <1>3, <1>4, <3>1 DEF Glue
    <3>3. QED BY <3>2
  <2>2. CASE Len(p) < i /\ i <= Len(p) + Len(q)
    <3>1. PICK j \in 1 .. Len(q) : i = Len(p) + j
      <4>1. i - Len(p) \in 1 .. Len(q) /\ i = Len(p) + (i - Len(p))
        BY <1>5, <2>2
      <4>2. QED BY <4>1
    <3>2. i \in 1 .. Len(a) /\ j \in 1 .. Len(b)
      BY <1>5, <3>1
    <3>3. v[i] = a[i] /\ a[i] = q[j] /\ w[i] = b[j] /\ b[j] = q[j]
      BY <1>1, <1>2, <1>3, <1>4, <3>1, <3>2 DEF Glue
    <3>4. QED BY <3>3
  <2>3. CASE Len(p) + Len(q) < i
    <3>1. PICK j \in 1 .. Len(r) : i = (Len(p) + Len(q)) + j
      <4>1. i - (Len(p) + Len(q)) \in 1 .. Len(r) /\ i = (Len(p) + Len(q)) + (i - (Len(p) + Len(q)))
        BY <1>5, <2>3
      <4>2. QED BY <4>1
    <3>2. i = Len(a) + j /\ i = Len(p) + (Len(q) + j) /\ Len(q) + j \in 1 .. Len(b)
      BY <1>5, <3>1
    <3>3. v[i] = r[j] /\ w[i] = b[Len(q) + j] /\ b[Len(q) + j] = r[j]
      BY <1>2, <1>3, <1>4, <3>1, <3>2 DEF Glue
    <3>4. QED BY <3>3
  <2>4. QED BY <1>5, <2>1, <2>2, <2>3
<1>7. v = w
  BY <1>5, <1>6, SameSeq
<1>8. QED
  BY <1>1, <1>2, <1>3, <1>4, <1>7

LEMMA HeadJoined ==
  ASSUME NEW S, NEW p \in Seq(S), NEW q \in Seq(S), p # <<>>
  PROVE  p \o q # <<>> /\ Head(p \o q) = Head(p) /\ Tail(p \o q) = Tail(p) \o q
<1>1. PICK w \in Seq(S) : w = p \o q /\ Glue(w, p, q)
  BY Joined
<1>2. PICK a \in Seq(S) : a = Tail(p) /\ Len(a) = Len(p) - 1 /\ \A i \in 1 .. Len(p) - 1 : a[i] = p[i + 1]
  BY HeadTail
<1>3. PICK v \in Seq(S) : v = a \o q /\ Glue(v, a, q)
  BY Joined
<1>4. Len(p) \in Nat /\ Len(p) > 0 /\ Len(q) \in Nat /\ Len(w) = Len(p) + Len(q) /\ w # <<>>
  BY <1>1 DEF Glue
<1>5. PICK b \in Seq(S) : b = Tail(w) /\ Len(b) = Len(w) - 1 /\ \A i \in 1 .. Len(w) - 1 : b[i] = w[i + 1]
  BY <1>4, HeadTail
<1>6. Len(b) = Len(v) /\ Len(v) = (Len(p) - 1) + Len(q)
  BY <1>2, <1>3, <1>4, <1>5 DEF Glue
<1>7. ASSUME NEW i \in 1 .. Len(b) PROVE b[i] = v[i]
  <2>1. b[i] = w[i + 1]
    BY <1>5
  <2>2. CASE i <= Len(p) - 1
    <3>1. i \in 1 .. Len(p) - 1 /\ i + 1 \in 1 .. Len(p) /\ i \in 1 .. Len(a)
      BY <1>2, <1>4, <2>2
    <3>2. w[i + 1] = p[i + 1] /\ v[i] = a[i] /\ a[i] = p[i + 1]
      BY <1>1, <1>2, <1>3, <3>1 DEF Glue
    <3>3. QED BY <2>1, <3>2
  <2>3. CASE Len(p) - 1 < i
    <3>1. PICK j \in 1 .. Len(q) : i = (Len(p) - 1) + j
      <4>1. i - (Len(p) - 1) \in 1 .. Len(q) /\ i = (Len(p) - 1) + (i - (Len(p) - 1))
        BY <1>4, <1>6, <2>3
      <4>2. QED BY <4>1
    <3>2. i + 1 = Len(p) + j /\ i = Len(a) + j
      BY <1>2, <1>4, <3>1
    <3>3. w[i + 1] = q[j] /\ v[i] = q[j]
      BY <1>1, <1>3, <3>1, <3>2 DEF Glue
    <3>4. QED BY <2>1, <3>3
  <2>4. QED BY <1>2, <1>4, <1>6, <2>2, <2>3
<1>8. b = v
  BY <1>6, <1>7, SameSeq
<1>9. Head(w) = Head(p)
  <2>1. Head(w) = w[1] /\ Head(p) = p[1] /\ 1 \in 1 .. Len(p)
    BY <1>4
  <2>2. QED BY <1>1, <2>1 DEF Glue
<1>10. QED
  BY <1>1, <1>2, <1>3, <1>4, <1>5, <1>8, <1>9

LEMMA EmptyJoined ==
  ASSUME NEW S, NEW p \in Seq(S) PROVE <<>> \o p = p
<1>e. <<>> \in Seq(S) /\ Len(<<>>) = 0
  OBVIOUS
<1>1. PICK e \in Seq(S) : e = <<>> /\ Len(e) = 0
  BY <1>e
<1>2. PICK w \in Seq(S) : w = e \o p /\ Glue(w, e, p)
  BY <1>1, Joined
<1>3. Len(p) \in Nat
  OBVIOUS
<1>4. Len(w) = Len(p) /\ \A i \in 1 .. Len(p) : w[i] = p[i]
  BY <1>1, <1>2, <1>3 DEF Glue
<1>5. QED
  BY <1>1, <1>2, <1>4, SameSeq

LEMMA CutJoined ==
  ASSUME NEW S, NEW p \in Seq(S), NEW k \in 1 .. Len(p)
  PROVE  /\ SubSeq(p, 1, k) \in Seq(S) /\ SubSeq(p, k + 1, Len(p)) \in Seq(S)
         /\ SubSeq(p, 1, k) \o SubSeq(p, k + 1, Len(p)) = p
<1>a. /\ SubSeq(p, 1, k) \in Seq(S) /\ Len(SubSeq(p, 1, k)) = k
      /\ \A i \in 1 .. k : SubSeq(p, 1, k)[i] = p[i]
  OBVIOUS
<1>1. PICK a \in Seq(S) : a = SubSeq(p, 1, k) /\ Len(a) = k /\ \A i \in 1 .. k : a[i] = p[i]
  BY <1>a
<1>b. /\ SubSeq(p, k + 1, Len(p)) \in Seq(S) /\ Len(SubSeq(p, k + 1, Len(p))) = Len(p) - k
      /\ \A i \in 1 .. Len(p) - k : SubSeq(p, k + 1, Len(p))[i] = p[k + i]
  OBVIOUS
<1>2. PICK b \in Seq(S) : b = SubSeq(p, k + 1, Len(p)) /\ Len(b) = Len(p) - k
                          /\ \A i \in 1 .. Len(p) - k : b[i] = p[k + i]
  BY <1>b
<1>3. PICK w \in Seq(S) : w = a \o b /\ Glue(w, a, b)
  BY Joined
<1>4. Len(p) \in Nat /\ k \in Nat /\ k <= Len(p) /\ Len(w) = Len(p)
  BY <1>1, <1>2, <1>3 DEF Glue
<1>5. ASSUME NEW i \in 1 .. Len(p) PROVE w[i] = p[i]
  <2>1. CASE i <= k
    BY <1>1, <1>3, <2>1 DEF Glue
  <2>2. CASE k < i
    <3>1. PICK j \in 1 .. Len(p) - k : i = k + j
      <4>1. i - k \in 1 .. Len(p) - k /\ i = k + (i - k)
        BY <1>4, <2>2
      <4>2. QED BY <4>1
    <3>2. QED BY <1>1, <1>2, <1>3, <3>1 DEF Glue
  <2>3. QED BY <1>4, <2>1, <2>2
<1>6. w = p
  BY <1>4, <1>5, SameSeq
<1>7. QED
  BY <1>1, <1>2, <1>3, <1>6

-----------------------------------------------------------------------------
(* Who holds what.                                                          *)

HandOf(c, r, op) ==
  LET held == {t \in Thread : c[t].op = op /\ r[t] # None}
  IN  IF held = {} THEN <<>> ELSE <<r[CHOOSE t \in held : TRUE]>>

LEMMA InHandIs ==
  ASSUME NEW op
  PROVE  /\ InHand(op) = HandOf(call, revent, op)
         /\ InHand(op)' = HandOf(call', revent', op)
BY DEF InHand, Held, HandOf

LEMMA HandNone ==
  ASSUME NEW c, NEW r, NEW op, \A t \in Thread : r[t] = None \/ c[t].op # op
  PROVE  HandOf(c, r, op) = <<>>
BY DEF HandOf

LEMMA HandOne ==
  ASSUME NEW c, NEW r, NEW t \in Thread, r[t] # None,
         \A u \in Thread \ {t} : r[u] = None
  PROVE  /\ HandOf(c, r, c[t].op) = <<r[t]>>
         /\ \A op : op # c[t].op => HandOf(c, r, op) = <<>>
<1>1. {u \in Thread : c[u].op = c[t].op /\ r[u] # None} = {t}
  OBVIOUS
<1>2. (CHOOSE u \in {t} : TRUE) = t
  OBVIOUS
<1>3. HandOf(c, r, c[t].op) = <<r[t]>>
  BY <1>1, <1>2 DEF HandOf
<1>4. ASSUME NEW op, op # c[t].op PROVE HandOf(c, r, op) = <<>>
  BY <1>4, HandNone
<1>5. QED
  BY <1>3, <1>4

LEMMA HandSame ==
  ASSUME NEW c, NEW r, NEW d, NEW z, NEW op,
         \A t \in Thread : z[t] = r[t] /\ (r[t] # None => d[t].op = c[t].op)
  PROVE  HandOf(d, z, op) = HandOf(c, r, op)
<1>1. PICK held : held = {t \in Thread : c[t].op = op /\ r[t] # None}
  OBVIOUS
<1>2. {t \in Thread : d[t].op = op /\ z[t] # None} = held
  BY <1>1
<1>3. HandOf(c, r, op) = IF held = {} THEN <<>> ELSE <<r[CHOOSE t \in held : TRUE]>>
  BY <1>1 DEF HandOf
<1>4. HandOf(d, z, op) = IF held = {} THEN <<>> ELSE <<z[CHOOSE t \in held : TRUE]>>
  <2>1. PICK h : h = {t \in Thread : d[t].op = op /\ z[t] # None}
    OBVIOUS
  <2>2. HandOf(d, z, op) = IF h = {} THEN <<>> ELSE <<z[CHOOSE t \in h : TRUE]>>
    BY <2>1 DEF HandOf
  <2>3. QED BY <1>2, <2>1, <2>2
<1>5. held # {} => z[CHOOSE t \in held : TRUE] = r[CHOOSE t \in held : TRUE]
  BY <1>1
<1>6. QED
  BY <1>3, <1>4, <1>5

\* Where a thread holds the lock, or may take it, it is alone with the
\* messages.
Apart(u) == /\ revent[u] = None /\ ~SavedFor(u)
            /\ pc[u] \notin {"re_loop", "re_body", "re_parse"}

LEMMA Alone ==
  ASSUME FInv, NEW t \in Thread, Free(t) \/ Levels(t) > 0
  PROVE  \A u \in Thread \ {t} : Apart(u)
<1>1. TAKE u \in Thread \ {t}
<1>2. IInv /\ HoldsAt(u)
  BY DEF FInv, DInv, Holding
<1>3. CASE purged
  <2>1. Quiet(pc[u], call[u])
    BY <1>3 DEF FInv, DInv
  <2>2. QED
    BY <1>2, <2>1 DEF Quiet, SavedFor, HoldsAt, Apart
<1>4. CASE ~purged
  <2>1. mutex = "live" /\ ~destroyed
    BY <1>2, <1>4 DEF FInv, DInv, IInv, Typed
  <2>2. Levels(t) \in 0 .. 3 /\ Levels(u) \in 0 .. 3
    BY LevelsNat
  <2>3. owner # u
    <3>1. CASE Free(t)
      BY <3>1, HandleAssumption DEF Free
    <3>2. CASE Levels(t) > 0
      BY <1>2, <2>1, <3>2 DEF IInv, LockBalanced
    <3>3. QED BY <3>1, <3>2
  <2>4. Levels(u) = 0
    BY <1>2, <2>1, <2>3 DEF IInv, LockBalanced
  <2>5. pc[u] \notin {"re_loop", "re_body", "re_parse", "re_fail"} /\ ~SavedFor(u)
    BY <2>4 DEF Levels, LevelsAt, SavedFor
  <2>6. QED
    BY <1>2, <2>5 DEF HoldsAt, Apart
<1>5. QED
  BY <1>3, <1>4

LEMMA NothingSaved ==
  ASSUME FInv, \A u \in Thread : ~SavedFor(u)
  PROVE  Silent(Saved)
BY EmptySilent, OneSilent DEF FInv, Saving, Saved

LEMMA AloneSilent ==
  ASSUME FInv, NEW t \in Thread, Free(t) \/ Levels(t) > 0, ~SavedFor(t)
  PROVE  Silent(Saved)
BY Alone, NothingSaved DEF Apart

-----------------------------------------------------------------------------
(* Steps that move no message.                                              *)

Idles(t) ==
  /\ Others(t)
  /\ UNCHANGED <<revent, race_event, packet_buf, transit, delivered, published>>
  /\ commands' \in Seq(Nat)
  /\ last_sr_event' = last_sr_event \/ (last_sr_event' = None /\ Silent(Saved))
  /\ purged => purged'
  /\ pc[t] \notin {"re_body", "re_parse"} /\ pc'[t] \notin {"re_body", "re_parse"}
  /\ pc'[t] = "re_loop" /\ call'[t].op = "recv" => race_event = <<>>
  /\ last_sr_event' # None /\ IsEvent(last_sr_event') /\ SavedFor(t) => SavedFor(t)'

LEMMA IdlesKeeps ==
  ASSUME FInv, [Next]_vars, NEW t \in Thread, Idles(t)
  PROVE  FInv'
<1>1. DInv' /\ (Up' => Up)
  BY NextKeepsDInv, UpStable DEF FInv
<1>2. \A u \in Thread \ {t} : pc'[u] = pc[u] /\ call'[u] = call[u]
  BY DEF Idles, Others
<1>3. revent' = revent /\ revent[t] = None
  BY DEF Idles, FInv, Holding, HoldsAt
<1>4. Stored'
  BY DEF Idles, FInv, Stored
<1>5. Holding'
  <2>1. HoldsAt(t)'
    BY <1>3 DEF Idles, HoldsAt
  <2>2. \A u \in Thread \ {t} : HoldsAt(u)'
    BY <1>2, <1>3 DEF Idles, FInv, Holding, HoldsAt
  <2>3. QED BY <2>1, <2>2 DEF Holding
<1>6. Saving'
  <2>1. SUFFICES ASSUME last_sr_event' # None, IsEvent(last_sr_event')
                 PROVE  \E u \in Thread : SavedFor(u)'
    BY DEF Saving, IsEvent
  <2>2. last_sr_event' = last_sr_event
    BY <2>1 DEF Idles
  <2>3. PICK u \in Thread : SavedFor(u)
    BY <2>1, <2>2 DEF FInv, Saving
  <2>4. CASE u = t
    BY <2>1, <2>3, <2>4 DEF Idles
  <2>5. CASE u # t
    BY <1>2, <2>3, <2>5 DEF SavedFor
  <2>6. QED BY <2>4, <2>5
<1>7. ReadingBody' <=> ReadingBody
  BY <1>2 DEF ReadingBody, Idles
<1>8. Framing'
  BY <1>1, <1>7 DEF Idles, FInv, Framing, Framed, Whole
<1>9. \A op : InHand(op)' = InHand(op)
  <2>1. TAKE op
  <2>2. \A u \in Thread : revent'[u] = revent[u] /\ (revent[u] # None => call'[u].op = call[u].op)
    BY <1>2, <1>3
  <2>3. HandOf(call', revent', op) = HandOf(call, revent, op)
    BY <2>2, HandSame
  <2>4. QED BY <2>3, InHandIs
<1>10. Flowing'
  <2>1. PICK f \in Nat :
          /\ Chain(Len(delivered), InHand("recv"), race_event, InHand("send_recv"), Saved,
                   packet_buf, f)
          /\ f <= published
          /\ Up => Flow(transit, f, published)
    BY DEF FInv, Flowing
  <2>2. Saved' = Saved \/ (Saved' = <<>> /\ Silent(Saved))
    BY DEF Idles, Saved
  <2>3. Chain(Len(delivered), InHand("recv"), race_event, InHand("send_recv"), Saved',
              packet_buf, f)
    BY <2>1, <2>2, ChainForget, EmptySilent
  <2>4. InOrder(delivered')
    BY DEF Idles, FInv, Flowing
  <2>5. delivered' = delivered /\ race_event' = race_event /\ packet_buf' = packet_buf
        /\ transit' = transit /\ published' = published
    BY DEF Idles
  <2>6. Chain(Len(delivered'), InHand("recv")', race_event', InHand("send_recv")', Saved',
              packet_buf', f)
    BY <1>9, <2>3, <2>5
  <2>7. Up' => Flow(transit', f, published')
    BY <1>1, <2>1, <2>5
  <2>8. QED
    BY <2>1, <2>4, <2>5, <2>6, <2>7 DEF Flowing, InOrder, Chain, Flow, Carries, IsEvent
<1>11. QED
  BY <1>1, <1>4, <1>5, <1>6, <1>8, <1>10 DEF FInv

Still == UNCHANGED <<revent, race_event, last_sr_event, packet_buf, transit, commands,
                     delivered, published, purged>>

LEMMA StillIdles ==
  ASSUME FInv, NEW t \in Thread, Still, Others(t), pc[t] \notin {"re_body", "re_parse"},
         pc'[t] \notin {"re_loop", "re_body", "re_parse"},
         SavedFor(t) => SavedFor(t)' \/ last_sr_event = None \/ ~IsEvent(last_sr_event)
  PROVE  Idles(t)
<1>1. commands' \in Seq(Nat)
  BY DEF Still, FInv, Stored
<1>3. /\ UNCHANGED <<revent, race_event, packet_buf, transit, delivered, published>>
      /\ last_sr_event' = last_sr_event /\ purged' = purged
  BY DEF Still
<1>4. last_sr_event' # None /\ IsEvent(last_sr_event') /\ SavedFor(t) => SavedFor(t)'
  BY <1>3 DEF SavedFor, IsEvent
<1>5. QED
  BY <1>1, <1>3, <1>4 DEF Idles

LEMMA SendRecvIdles ==
  ASSUME FInv, NEW t \in Thread, SendRecvSteps(t), ~Overtaken(t)
  PROVE  Idles(t)
<1> USE DEF Label, Status, Idles, At, handleVars, serverVars
<1>1. /\ IInv /\ Fits(pc[t], call[t]) /\ status[t] \in Status /\ Typed /\ call[t] \in Call
      /\ commands \in Seq(Nat)
  BY DEF FInv, DInv, IInv, Typed, Stored
<1>2. ASSUME Send(t) PROVE Idles(t)
  <2>1. Silent(Saved)
    BY <1>2, AloneSilent DEF Send, Lock, SavedFor
  <2>2. Append(commands, call[t].cmd) \in Seq(Nat)
    BY <1>1 DEF Call
  <2>3. pc'[t] = "sr_recv" /\ Others(t)
    BY <1>1, <1>2, ContinueTyped DEF Send
  <2>4. QED BY <1>2, <2>1, <2>2, <2>3 DEF Send, SavedFor
<1>3. ASSUME SendFails(t) PROVE Idles(t)
  <2>1. Silent(Saved)
    BY <1>3, AloneSilent DEF SendFails, SavedFor
  <2>2. pc'[t] = "idle" /\ Others(t)
    BY <1>1, <1>3, FinishTyped DEF SendFails
  <2>3. QED BY <1>1, <1>3, <2>1, <2>2 DEF SendFails, SavedFor
<1>4. ASSUME AwaitReply(t) PROVE Idles(t)
  <2>1. Levels(t) > 0
    BY <1>1, <1>4 DEF AwaitReply, Fits, Levels, LevelsAt
  <2>2. Silent(Saved)
    BY <1>4, <2>1, AloneSilent DEF AwaitReply, SavedFor
  <2>3. pc'[t] \in {"rt_enter", "re_enter"} /\ Others(t)
    BY <1>1, <1>4, ContinueTyped DEF AwaitReply
  <2>4. QED BY <1>1, <1>4, <2>2, <2>3 DEF AwaitReply, SavedFor
<1>5. ASSUME SendRecvReturns(t) PROVE Idles(t)
  <2>1. pc'[t] = "idle" /\ Others(t)
    BY <1>1, <1>5, FinishTyped DEF SendRecvReturns
  <2>2. last_sr_event = None \/ ~IsEvent(last_sr_event)
    BY <1>5 DEF SendRecvReturns, IsReply, IsEvent
  <2>3. Still /\ pc[t] = "sr_check"
    BY <1>5 DEF SendRecvReturns, Still
  <2>4. QED BY <2>1, <2>2, <2>3, StillIdles
<1>6. ASSUME Relock(t) PROVE Idles(t)
  <2>1. Still /\ pc[t] = "sr_relock"
    BY <1>6 DEF Relock, Still
  <2>2. pc'[t] = "sr_recv" /\ Others(t)
    BY <1>1, <1>6, ContinueTyped DEF Relock
  <2>3. QED BY <2>1, <2>2, StillIdles DEF SavedFor
<1>7. ASSUME RelockFails(t) PROVE Idles(t)
  <2>1. Still /\ pc[t] = "sr_relock"
    BY <1>7 DEF RelockFails, Still
  <2>2. pc'[t] = "idle" /\ Others(t)
    BY <1>1, <1>7, FinishTyped DEF RelockFails
  <2>3. QED BY <2>1, <2>2, StillIdles DEF SavedFor
<1>8. QED
  BY <1>2, <1>3, <1>4, <1>5, <1>6, <1>7 DEF SendRecvSteps

LEMMA TimedReceiveIdles ==
  ASSUME FInv, NEW t \in Thread, TimedReceiveSteps(t)
  PROVE  Idles(t)
<1> USE DEF Label, Status, Idles, At, handleVars, serverVars
<1>1. /\ Fits(pc[t], call[t]) /\ status[t] \in Status /\ Typed
      /\ commands \in Seq(Nat)
  BY DEF FInv, DInv, IInv, Typed, Stored
<1>2. ASSUME TimedEnter(t) PROVE Idles(t)
  <2>1. Still /\ pc[t] = "rt_enter"
    BY <1>2 DEF TimedEnter, Still
  <2>2. pc'[t] \in {"idle", "sr_check", "rt_queue", "rt_poll"} /\ Others(t)
    BY <1>1, <1>2, ContinueTyped, TimedReturnTyped DEF TimedEnter
  <2>3. QED BY <2>1, <2>2, StillIdles DEF SavedFor
<1>3. ASSUME LookAtQueue(t) PROVE Idles(t)
  <2>1. Still /\ pc[t] = "rt_queue"
    BY <1>3 DEF LookAtQueue, Still
  <2>2. pc'[t] \in {"re_enter", "rt_poll"} /\ Others(t)
    BY <1>1, <1>3, ContinueTyped DEF LookAtQueue
  <2>3. QED BY <2>1, <2>2, StillIdles DEF SavedFor
<1>4. ASSUME PollReadable(t) PROVE Idles(t)
  <2>1. Still /\ pc[t] = "rt_poll"
    BY <1>4 DEF PollReadable, Still
  <2>2. pc'[t] = "rt_trylock" /\ Others(t)
    BY <1>1, <1>4, ContinueTyped DEF PollReadable
  <2>3. QED BY <2>1, <2>2, StillIdles DEF SavedFor
<1>5. ASSUME PollTimesOut(t) PROVE Idles(t)
  <2>1. Still /\ pc[t] = "rt_poll"
    BY <1>5 DEF PollTimesOut, Still
  <2>2. pc'[t] \in {"idle", "sr_check"} /\ Others(t)
    BY <1>1, <1>5, TimedReturnTyped DEF PollTimesOut
  <2>3. QED BY <2>1, <2>2, StillIdles DEF SavedFor
<1>6. ASSUME PollFails(t) PROVE Idles(t)
  <2>1. Still /\ pc[t] = "rt_poll"
    BY <1>6 DEF PollFails, Still
  <2>2. pc'[t] \in {"idle", "sr_check"} /\ Others(t)
    BY <1>1, <1>6, TimedReturnTyped DEF PollFails
  <2>3. QED BY <2>1, <2>2, StillIdles DEF SavedFor
<1>7. ASSUME TryLock(t) PROVE Idles(t)
  <2>1. Still /\ pc[t] = "rt_trylock"
    BY <1>7 DEF TryLock, Still
  <2>2. CASE ~Free(t)
    <3>1. TimedReturn(t, "break")
      BY <1>7, <2>2 DEF TryLock, Lock
    <3>2. pc'[t] \in {"idle", "sr_check"} /\ Others(t)
      BY <1>1, <3>1, TimedReturnTyped
    <3>3. QED BY <2>1, <3>2, StillIdles DEF SavedFor
  <2>3. CASE Free(t)
    <3>1. pc'[t] = "re_enter" /\ Others(t)
      BY <1>1, <1>7, <2>3, TryLockTyped
    <3>2. QED BY <2>1, <3>1, StillIdles DEF SavedFor
  <2>4. QED BY <2>2, <2>3
<1>8. ASSUME TimedUnlock(t) PROVE Idles(t)
  <2>1. Still /\ pc[t] = "rt_unlock" /\ TimedReturn(t, status[t])
    BY <1>8 DEF TimedUnlock, Still
  <2>2. /\ Others(t)
        /\ \/ call[t].op = "recv" /\ pc'[t] = "idle"
           \/ call[t].op = "send_recv" /\ pc'[t] = "sr_check" /\ call'[t].op = "send_recv"
    BY <1>1, <2>1, TimedReturnTyped
  <2>3. QED BY <2>1, <2>2, StillIdles DEF SavedFor
<1>9. QED
  BY <1>2, <1>3, <1>4, <1>5, <1>6, <1>7, <1>8 DEF TimedReceiveSteps

\* esl_recv_event, where it takes no message.
TakesQueued(t) == EventLock(t) /\ Up /\ ChecksQueue(t) /\ race_event # <<>>
LosesBody(t) == ReceiveFails(t) /\ At(t, "re_body")

LEMMA EventReceiveIdles ==
  ASSUME FInv, NEW t \in Thread,
         \/ EventEnter(t) \/ FailUnlock(t) \/ MarkDead(t)
         \/ EventLock(t) /\ ~TakesQueued(t)
         \/ ReceiveFails(t) /\ ~LosesBody(t)
  PROVE  Idles(t)
<1> USE DEF Label, Status, Idles, At, handleVars, serverVars
<1>1. /\ Fits(pc[t], call[t]) /\ status[t] \in Status /\ Typed
      /\ commands \in Seq(Nat) /\ HoldsAt(t) /\ revent \in [Thread -> Message \cup {None}]
  BY DEF FInv, DInv, IInv, Typed, Stored, Holding
<1>2. ASSUME EventEnter(t) PROVE Idles(t)
  <2>1. Still /\ pc[t] = "re_enter"
    BY <1>2 DEF EventEnter, Still
  <2>2. pc'[t] \in {"idle", "sr_check", "rt_unlock", "re_lock"} /\ Others(t)
    BY <1>1, <1>2, ContinueTyped, EventReturnTyped DEF EventEnter
  <2>3. QED BY <2>1, <2>2, StillIdles DEF SavedFor
<1>3. ASSUME EventLock(t), ~TakesQueued(t) PROVE Idles(t)
  <2>1. Still /\ pc[t] = "re_lock"
    BY <1>3 DEF EventLock, TakesQueued, Still
  <2>2. CASE ~Up
    <3>1. pc'[t] = "re_fail" /\ Others(t)
      BY <1>1, <1>3, <2>2, ContinueTyped DEF EventLock
    <3>2. QED BY <2>1, <3>1, StillIdles DEF SavedFor
  <2>3. CASE Up
    <3>1. Continue(t, "re_loop") /\ ~(ChecksQueue(t) /\ race_event # <<>>)
      BY <1>3, <2>3 DEF EventLock, TakesQueued
    <3>2. pc'[t] = "re_loop" /\ call'[t] = call[t] /\ Others(t)
      BY <1>1, <3>1, ContinueTyped
    <3>3. commands' \in Seq(Nat)
      BY <1>1, <2>1 DEF Still
    <3>4. /\ UNCHANGED <<revent, race_event, packet_buf, transit, delivered, published>>
          /\ last_sr_event' = last_sr_event /\ purged' = purged
      BY <2>1 DEF Still
    <3>5. ~SavedFor(t)
      BY <2>1 DEF SavedFor
    <3>6. QED BY <2>1, <3>1, <3>2, <3>3, <3>4, <3>5 DEF ChecksQueue
  <2>4. QED BY <2>2, <2>3
<1>4. ASSUME FailUnlock(t) PROVE Idles(t)
  <2>1. Still /\ pc[t] = "re_fail"
    BY <1>4 DEF FailUnlock, Still
  <2>2. pc'[t] = "re_dead" /\ Others(t)
    BY <1>1, <1>4, ContinueTyped DEF FailUnlock
  <2>3. QED BY <2>1, <2>2, StillIdles DEF SavedFor
<1>5. ASSUME MarkDead(t) PROVE Idles(t)
  <2>1. Still /\ pc[t] = "re_dead"
    BY <1>5 DEF MarkDead, Still
  <2>2. pc'[t] \in {"idle", "sr_check", "rt_unlock"} /\ Others(t)
    BY <1>1, <1>5, EventReturnTyped DEF MarkDead
  <2>3. QED BY <2>1, <2>2, StillIdles DEF SavedFor
<1>6. ASSUME ReceiveFails(t), ~LosesBody(t) PROVE Idles(t)
  <2>1. pc[t] = "re_loop" /\ Continue(t, "re_fail") /\ revent' = [revent EXCEPT ![t] = None]
    BY <1>6 DEF ReceiveFails, LosesBody, Reading
  <2>2. revent' = revent
    BY <1>1, <2>1 DEF HoldsAt
  <2>3. pc'[t] = "re_fail" /\ Others(t)
    BY <1>1, <2>1, ContinueTyped
  <2>4. Still
    BY <1>6, <2>2 DEF ReceiveFails, Still
  <2>5. QED BY <2>1, <2>3, <2>4, StillIdles DEF SavedFor
<1>7. QED
  BY <1>2, <1>3, <1>4, <1>5, <1>6

LEMMA DisconnectingIdles ==
  ASSUME FInv, NEW t \in Thread, Purge(t) \/ Drain(t) \/ FreeMutex(t) \/ Crash(t)
  PROVE  Idles(t)
<1> USE DEF Label, Status, Idles, At, handleVars, serverVars
<1>1. /\ Fits(pc[t], call[t]) /\ status[t] \in Status /\ Typed
      /\ commands \in Seq(Nat) /\ HoldsAt(t)
  BY DEF FInv, DInv, IInv, Typed, Stored, Holding
<1>2. ASSUME Purge(t) PROVE Idles(t)
  <2>1. Silent(Saved)
    BY <1>2, AloneSilent DEF Purge, Lock, SavedFor
  <2>2. pc[t] = "dc_lock" /\ pc'[t] = "dc_unlock" /\ Others(t)
    BY <1>1, <1>2, ContinueTyped DEF Purge
  <2>3. /\ UNCHANGED <<revent, race_event, packet_buf, transit, delivered, published>>
        /\ commands' = commands /\ last_sr_event' = None /\ purged' = TRUE
    BY <1>2 DEF Purge
  <2>4. QED BY <1>1, <2>1, <2>2, <2>3
<1>3. ASSUME Drain(t) \/ FreeMutex(t) PROVE Idles(t)
  <2>1. Still /\ pc[t] \in Past
    BY <1>3 DEF Drain, FreeMutex, Still, Past
  <2>2. PICK label \in Past : Continue(t, label)
    BY <1>3 DEF Drain, FreeMutex, Past
  <2>3. pc'[t] = label /\ Others(t)
    BY <1>1, <2>2, ContinueTyped DEF Past
  <2>4. QED BY <2>1, <2>2, <2>3, StillIdles DEF SavedFor, Past
<1>4. ASSUME Crash(t) PROVE Idles(t)
  <2>1. Still /\ Continue(t, "crashed")
    BY <1>4 DEF Crash, Still
  <2>2. pc'[t] = "crashed" /\ Others(t)
    BY <1>1, <2>1, ContinueTyped
  <2>3. pc[t] = "dc_lock" \/ Quiet(pc[t], call[t])
    <3>1. CASE ~Usable(t)
      BY <1>1, <3>1 DEF Usable, Typed, FInv, DInv
    <3>2. CASE Usable(t)
      BY <1>4, <3>2 DEF Crash
    <3>3. QED BY <3>1, <3>2
  <2>4. pc[t] \notin {"re_body", "re_parse"} /\ ~SavedFor(t)
    BY <2>3 DEF Quiet, SavedFor
  <2>5. QED BY <2>1, <2>2, <2>4, StillIdles
<1>5. QED
  BY <1>2, <1>3, <1>4

LEMMA CallsIdle ==
  ASSUME FInv, Calls
  PROVE  \E t \in Thread : Idles(t)
<1>1. Typed /\ commands \in Seq(Nat)
  BY DEF FInv, DInv, IInv, Stored
<1>2. ASSUME NEW t \in Thread, NEW op, NEW timed, NEW cmd,
             NEW label \in {"sr_lock", "rt_enter", "re_enter", "dc_lock"}, At(t, "idle"),
             Begin(t, op, timed, cmd, label),
             UNCHANGED <<race_event, last_sr_event, packet_buf, transit, commands, delivered,
                         published, purged>>
      PROVE  Idles(t)
  <2>1. Others(t) /\ pc'[t] = label /\ revent' = revent /\ pc[t] = "idle"
    BY <1>1, <1>2 DEF Begin, Goto, Others, Typed, At
  <2>2. Still
    BY <1>2, <2>1 DEF Still
  <2>3. QED BY <2>1, <2>2, StillIdles DEF SavedFor
<1>3. ASSUME NEW t \in Sender, NEW timed \in Timed, SendRecv(t, timed)
      PROVE  t \in Thread /\ Idles(t)
  <2>1. t \in Thread
    BY DEF Thread
  <2>2. CASE Up
    BY <1>2, <1>3, <2>1, <2>2 DEF SendRecv, handleVars
  <2>3. CASE ~Up
    <3>1. Still /\ pc' = pc /\ call' = call /\ pc[t] = "idle"
      BY <1>3, <2>3 DEF SendRecv, Still, At, handleVars, serverVars
    <3>2. QED BY <2>1, <3>1, StillIdles DEF SavedFor, Others
  <2>4. QED BY <2>2, <2>3
<1>4. ASSUME NEW t \in Receiver, NEW timed \in Timed, Recv(t, timed)
      PROVE  t \in Thread /\ Idles(t)
  BY <1>2, <1>4 DEF Recv, Thread, handleVars, serverVars
<1>5. ASSUME NEW t \in Closer, Disconnect(t)
      PROVE  t \in Thread /\ Idles(t)
  BY <1>2, <1>5 DEF Disconnect, Disconnects, Thread, serverVars
<1>6. QED
  BY <1>3, <1>4, <1>5 DEF Calls

-----------------------------------------------------------------------------
(* Steps that move messages.                                                *)

SavedOf(m) == IF m = None THEN <<>> ELSE <<m>>

Chained(n, c, r, q, m, p, f) ==
  Chain(n, HandOf(c, r, "recv"), q, HandOf(c, r, "send_recv"), SavedOf(m), p, f)

LEMMA FlowNow ==
  ASSUME FInv
  PROVE  /\ InOrder(delivered)
         /\ \E f \in Nat : /\ Chained(Len(delivered), call, revent, race_event, last_sr_event,
                                      packet_buf, f)
                           /\ f <= published
                           /\ Up => Flow(transit, f, published)
<1>1. Saved = SavedOf(last_sr_event)
  BY DEF Saved, SavedOf
<1>2. InHand("recv") = HandOf(call, revent, "recv")
  BY InHandIs
<1>3. InHand("send_recv") = HandOf(call, revent, "send_recv")
  BY InHandIs
<1>4. QED
  BY <1>1, <1>2, <1>3 DEF FInv, Flowing, Chained

LEMMA FlowNext ==
  ASSUME InOrder(delivered'), NEW f \in Nat,
         Chained(Len(delivered'), call', revent', race_event', last_sr_event', packet_buf', f),
         f <= published', Up' => Flow(transit', f, published')
  PROVE  Flowing'
<1>1. Saved' = SavedOf(last_sr_event')
  BY DEF Saved, SavedOf
<1>2. InHand("recv")' = HandOf(call', revent', "recv")
  BY InHandIs
<1>3. InHand("send_recv")' = HandOf(call', revent', "send_recv")
  BY InHandIs
<1>4. Chain(Len(delivered'), InHand("recv")', race_event', InHand("send_recv")', Saved',
            packet_buf', f)
  BY <1>1, <1>2, <1>3 DEF Chained
<1>5. QED
  BY <1>4 DEF Flowing, InOrder, Chain, Flow, Carries, IsEvent

Only(t) == \A u \in Thread \ {t} : Apart(u)

LEMMA HoldingStep ==
  ASSUME FInv, NEW t \in Thread, Only(t), Others(t), NEW m \in Message \cup {None},
         revent' = [revent EXCEPT ![t] = m], purged' = purged, HoldsAt(t)'
  PROVE  /\ Holding' /\ revent' \in [Thread -> Message \cup {None}]
         /\ ReadingBody <=> pc[t] = "re_body"
         /\ ReadingBody' <=> pc'[t] = "re_body"
         /\ revent'[t] = m
         /\ \A u \in Thread \ {t} : revent[u] = None /\ revent'[u] = None
<1>1. revent \in [Thread -> Message \cup {None}]
  BY DEF FInv, Stored
<1>2. \A u \in Thread \ {t} : /\ revent[u] = None /\ revent'[u] = None
                             /\ pc'[u] = pc[u] /\ call'[u] = call[u]
                             /\ pc[u] \notin {"re_loop", "re_body", "re_parse"}
  BY <1>1 DEF Only, Apart, Others
<1>3. \A u \in Thread \ {t} : HoldsAt(u)'
  BY <1>2 DEF HoldsAt, FInv, Holding
<1>4. Holding'
  BY <1>3 DEF Holding
<1>5. revent' \in [Thread -> Message \cup {None}] /\ revent'[t] = m
  BY <1>1
<1>6. ReadingBody' <=> pc'[t] = "re_body"
  BY <1>2 DEF ReadingBody
<1>7. ReadingBody <=> pc[t] = "re_body"
  BY <1>2 DEF ReadingBody
<1>8. QED
  BY <1>2, <1>4, <1>5, <1>6, <1>7

\* The hands, when only t holds something.
LEMMA Hands ==
  ASSUME NEW c, NEW r, NEW t \in Thread, \A u \in Thread \ {t} : r[u] = None
  PROVE  /\ r[t] = None => HandOf(c, r, "recv") = <<>> /\ HandOf(c, r, "send_recv") = <<>>
         /\ r[t] # None /\ c[t].op = "recv" =>
              HandOf(c, r, "recv") = <<r[t]>> /\ HandOf(c, r, "send_recv") = <<>>
         /\ r[t] # None /\ c[t].op = "send_recv" =>
              HandOf(c, r, "recv") = <<>> /\ HandOf(c, r, "send_recv") = <<r[t]>>
<1>1. ASSUME r[t] = None PROVE HandOf(c, r, "recv") = <<>> /\ HandOf(c, r, "send_recv") = <<>>
  <2>1. \A u \in Thread : r[u] = None
    BY <1>1
  <2>2. QED BY <2>1, HandNone
<1>2. ASSUME r[t] # None
      PROVE  /\ HandOf(c, r, c[t].op) = <<r[t]>>
             /\ \A op : op # c[t].op => HandOf(c, r, op) = <<>>
  BY <1>2, HandOne
<1>3. QED
  BY <1>1, <1>2

LEMMA TakesQueuedKeeps ==
  ASSUME FInv, [Next]_vars, NEW t \in Thread, TakesQueued(t)
  PROVE  FInv'
<1>1. /\ pc[t] = "re_lock" /\ Lock(t) /\ Continue(t, "re_parse") /\ race_event # <<>>
      /\ revent' = [revent EXCEPT ![t] = Head(race_event)] /\ race_event' = Tail(race_event)
      /\ call[t].op = "recv"
      /\ UNCHANGED <<connected, sock, purged, last_sr_event, packet_buf, transit, commands,
                     published, delivered>>
  BY DEF TakesQueued, EventLock, At, ChecksQueue, serverVars
<1>2. pc'[t] = "re_parse" /\ call'[t] = call[t] /\ Others(t)
  BY <1>1, ContinueTyped DEF FInv, DInv, IInv, Label
<1>3. Stored /\ Holding /\ DInv' /\ (Up' <=> Up)
  BY <1>1, NextKeepsDInv DEF FInv, Up
<1>4. Only(t)
  BY <1>1, Alone DEF Lock, Only
<1>5. Head(race_event) \in Message /\ Tail(race_event) \in Seq(Message)
  BY <1>1, <1>3, HeadTail DEF Stored
<1>6. Head(race_event) # None /\ revent'[t] = Head(race_event) /\ purged' = purged
  BY <1>1, <1>3, <1>5, HandleAssumption DEF Stored
<1>7. HoldsAt(t)'
  BY <1>2, <1>6 DEF HoldsAt
<1>8. /\ Holding' /\ revent' \in [Thread -> Message \cup {None}] /\ ~ReadingBody /\ ~ReadingBody'
      /\ \A u \in Thread \ {t} : revent[u] = None /\ revent'[u] = None
  BY <1>1, <1>2, <1>4, <1>5, <1>6, <1>7, HoldingStep
<1>9. Stored'
  BY <1>1, <1>3, <1>5, <1>8 DEF Stored
<1>10. revent[t] = None
  BY <1>1, <1>3 DEF Holding, HoldsAt
<1>11. \A u \in Thread : ~SavedFor(u)
  BY <1>1, <1>4 DEF Only, Apart, SavedFor
<1>12. Saving'
  BY <1>1, <1>11 DEF FInv, Saving, IsEvent
<1>13. Framing'
  BY <1>1, <1>3, <1>8 DEF FInv, Framing, Framed, Whole
<1>14. Flowing'
  <2>1. PICK f \in Nat : /\ Chained(Len(delivered), call, revent, race_event, last_sr_event,
                                    packet_buf, f)
                         /\ f <= published
                         /\ Up => Flow(transit, f, published)
    BY FlowNow
  <2>2. HandOf(call, revent, "recv") = <<>> /\ HandOf(call, revent, "send_recv") = <<>>
    BY <1>8, <1>10, Hands
  <2>3. /\ HandOf(call', revent', "recv") = <<Head(race_event)>>
        /\ HandOf(call', revent', "send_recv") = <<>>
    <3>1. call'[t].op = "recv" /\ revent'[t] # None /\ \A u \in Thread \ {t} : revent'[u] = None
      BY <1>1, <1>2, <1>6, <1>8
    <3>2. QED BY <1>6, <3>1, Hands
  <2>4. Chain(Len(delivered), <<Head(race_event)>>, Tail(race_event), <<>>, SavedOf(last_sr_event), packet_buf, f)
    BY <1>1, <1>3, <2>1, <2>2, ChainQueue DEF Chained, Stored
  <2>5. Chained(Len(delivered'), call', revent', race_event', last_sr_event', packet_buf', f)
    BY <1>1, <2>3, <2>4 DEF Chained
  <2>6. InOrder(delivered') /\ f <= published' /\ (Up' => Flow(transit', f, published'))
    BY <1>1, <1>3, <2>1, FlowNow
  <2>7. QED BY <2>5, <2>6, FlowNext
<1>15. QED
  BY <1>3, <1>8, <1>9, <1>12, <1>13, <1>14 DEF FInv

LEMMA ReadHeaderKeeps ==
  ASSUME FInv, [Next]_vars, NEW t \in Thread, ReadHeader(t)
  PROVE  FInv'
<1> DEFINE m == Head(packet_buf)
<1>1. /\ pc[t] = "re_loop" /\ packet_buf # <<>> /\ revent' = [revent EXCEPT ![t] = m]
      /\ packet_buf' = Tail(packet_buf)
      /\ Continue(t, IF HasBody(m) THEN "re_body" ELSE "re_parse")
      /\ UNCHANGED <<connected, sock, purged, race_event, last_sr_event, transit, commands,
                     published, delivered>>
  BY DEF ReadHeader, At, serverVars
<1>2. /\ pc'[t] = IF HasBody(m) THEN "re_body" ELSE "re_parse"
      /\ call'[t] = call[t] /\ Others(t)
  BY <1>1, ContinueTyped DEF FInv, DInv, IInv, Label
<1>3. /\ Stored /\ Holding /\ DInv' /\ (Up' <=> Up) /\ call[t].op \in {"send_recv", "recv"}
      /\ Levels(t) > 0
  <2>1. Fits(pc[t], call[t])
    BY DEF FInv, DInv, IInv
  <2>2. QED BY <1>1, <2>1, NextKeepsDInv, LevelsNat DEF FInv, Up, Fits, Levels, LevelsAt
<1>4. Only(t)
  BY <1>3, Alone DEF Only
<1>5. revent[t] = None /\ (call[t].op = "recv" => race_event = <<>>)
  BY <1>1, <1>3 DEF Holding, HoldsAt
<1>6. ReadingBody = FALSE
  BY <1>1, <1>4 DEF ReadingBody, Only, Apart
<1>7. Framed(packet_buf, FALSE)
  BY <1>6 DEF FInv, Framing
<1>8. m \in Chunk /\ Tail(packet_buf) \in Seq(Chunk)
  BY <1>1, <1>3, HeadTail DEF Stored
<1>9. /\ m.part = "header" /\ Framed(Tail(packet_buf), HasBody(m))
      /\ (m.part = "header" /\ HasBody(m)) = HasBody(m)
  <2>1. /\ m.part = "body" <=> FALSE
        /\ Framed(Tail(packet_buf), m.part = "header" /\ HasBody(m))
    BY <1>1, <1>3, <1>7, FramedTail DEF Stored
  <2>2. m.part = "header"
    BY <1>8, <2>1 DEF Chunk
  <2>3. (m.part = "header" /\ HasBody(m)) = HasBody(m)
    BY <2>2 DEF HasBody
  <2>4. QED BY <2>1, <2>2, <2>3
<1>10. m \in Message
  BY <1>8, <1>9 DEF Chunk, Message
<1> HIDE DEF m
<1>11. m # None /\ revent'[t] = m /\ purged' = purged
  BY <1>1, <1>3, <1>10, HandleAssumption DEF Stored
<1>12. HoldsAt(t)'
  BY <1>1, <1>2, <1>5, <1>11 DEF HoldsAt, HasBody
<1>13. /\ Holding' /\ revent' \in [Thread -> Message \cup {None}]
       /\ ReadingBody' <=> HasBody(m)
       /\ \A u \in Thread \ {t} : revent[u] = None /\ revent'[u] = None
  BY <1>1, <1>2, <1>4, <1>10, <1>11, <1>12, HoldingStep
<1>14. Stored'
  BY <1>1, <1>3, <1>8, <1>13 DEF Stored
<1>15. \A u \in Thread : ~SavedFor(u)
  BY <1>1, <1>4 DEF Only, Apart, SavedFor
<1>16. Saving'
  BY <1>1, <1>15 DEF FInv, Saving, IsEvent
<1>17. Framing'
  <2>1. Framed(Tail(packet_buf), HasBody(m))
    BY <1>9
  <2>2. ASSUME Up
        PROVE  /\ Framed(Tail(packet_buf) \o transit, HasBody(m))
               /\ Whole(Tail(packet_buf) \o transit, HasBody(m))
    <3>1. Framed(packet_buf \o transit, FALSE) /\ Whole(packet_buf \o transit, FALSE)
      BY <1>6, <2>2 DEF FInv, Framing
    <3>2. PICK w \in Seq(Chunk) : /\ w = packet_buf \o transit /\ w # <<>>
                                  /\ Head(w) = m /\ Tail(w) = Tail(packet_buf) \o transit
      <4>1. packet_buf \o transit \in Seq(Chunk)
        BY <1>3, Joined DEF Stored
      <4>2. QED BY <1>1, <1>3, <4>1, HeadJoined DEF Stored, m
    <3>3. /\ Framed(Tail(w), Head(w).part = "header" /\ HasBody(Head(w)))
          /\ Whole(Tail(w), Head(w).part = "header" /\ HasBody(Head(w)))
      BY <3>1, <3>2, FramedTail
    <3>4. QED BY <1>9, <3>2, <3>3
  <2>3. packet_buf' = Tail(packet_buf) /\ transit' = transit /\ (Up' <=> Up)
    BY <1>1, <1>3
  <2>4. QED BY <1>13, <2>1, <2>2, <2>3 DEF Framing, Framed, Whole, HasBody
<1>18. Flowing'
  <2>1. PICK f \in Nat : /\ Chained(Len(delivered), call, revent, race_event, last_sr_event,
                                    packet_buf, f)
                         /\ f <= published
                         /\ Up => Flow(transit, f, published)
    BY FlowNow
  <2>2. HandOf(call, revent, "recv") = <<>> /\ HandOf(call, revent, "send_recv") = <<>>
    BY <1>5, <1>13, Hands
  <2>3. Silent(SavedOf(last_sr_event))
    BY <1>15, NothingSaved DEF Saved, SavedOf
  <2>4. Chained(Len(delivered'), call', revent', race_event', last_sr_event', packet_buf', f)
    <3>1. CASE call[t].op = "recv"
      <4>1. /\ HandOf(call', revent', "recv") = <<m>>
            /\ HandOf(call', revent', "send_recv") = <<>>
        <5>1. /\ call'[t].op = "recv" /\ revent'[t] # None
              /\ \A u \in Thread \ {t} : revent'[u] = None
          BY <1>2, <1>11, <1>13, <3>1
        <5>2. QED BY <1>11, <5>1, Hands
      <4>2. Chain(Len(delivered), <<>>, <<>>, <<>>, SavedOf(last_sr_event), packet_buf, f)
        BY <1>5, <2>1, <2>2, <3>1 DEF Chained
      <4>3. Chain(Len(delivered), <<m>>, <<>>, <<>>, SavedOf(last_sr_event), Tail(packet_buf), f)
        BY <1>1, <1>3, <2>3, <4>2, ChainRead DEF Stored, m
      <4>4. QED BY <1>1, <1>5, <3>1, <4>1, <4>3 DEF Chained
    <3>2. CASE call[t].op = "send_recv"
      <4>1. /\ HandOf(call', revent', "recv") = <<>>
            /\ HandOf(call', revent', "send_recv") = <<m>>
        <5>1. /\ call'[t].op = "send_recv" /\ revent'[t] # None
              /\ \A u \in Thread \ {t} : revent'[u] = None
          BY <1>2, <1>11, <1>13, <3>2
        <5>2. QED BY <1>11, <5>1, Hands
      <4>2. Chain(Len(delivered), <<>>, race_event, <<>>, SavedOf(last_sr_event), packet_buf, f)
        BY <2>1, <2>2 DEF Chained
      <4>3. Chain(Len(delivered), <<>>, race_event, <<m>>, SavedOf(last_sr_event), Tail(packet_buf), f)
        BY <1>1, <1>3, <2>3, <4>2, ChainMeet DEF Stored, m
      <4>4. QED BY <1>1, <4>1, <4>3 DEF Chained
    <3>3. QED BY <1>3, <3>1, <3>2
  <2>5. InOrder(delivered') /\ f <= published' /\ (Up' => Flow(transit', f, published'))
    BY <1>1, <1>3, <2>1, FlowNow
  <2>6. QED BY <2>4, <2>5, FlowNext
<1>19. QED
  BY <1>3, <1>13, <1>14, <1>16, <1>17, <1>18 DEF FInv

LEMMA ReadBodyKeeps ==
  ASSUME FInv, [Next]_vars, NEW t \in Thread, ReadBody(t)
  PROVE  FInv'
<1>1. /\ pc[t] = "re_body" /\ packet_buf # <<>> /\ packet_buf' = Tail(packet_buf)
      /\ Continue(t, "re_parse") /\ revent' = revent
      /\ UNCHANGED <<connected, sock, purged, race_event, last_sr_event, transit, commands,
                     published, delivered>>
  BY DEF ReadBody, At, serverVars
<1>2. pc'[t] = "re_parse" /\ call'[t] = call[t] /\ Others(t)
  BY <1>1, ContinueTyped DEF FInv, DInv, IInv, Label
<1>3. Stored /\ Holding /\ DInv' /\ (Up' <=> Up) /\ Levels(t) > 0
  <2>1. Fits(pc[t], call[t])
    BY DEF FInv, DInv, IInv
  <2>2. QED BY <1>1, <2>1, NextKeepsDInv, LevelsNat DEF FInv, Up, Fits, Levels, LevelsAt
<1>4. Only(t)
  BY <1>3, Alone DEF Only
<1>5. revent[t] # None /\ revent[t] \in Message \cup {None}
      /\ revent' = [revent EXCEPT ![t] = revent[t]]
  BY <1>1, <1>3 DEF Stored, Holding, HoldsAt
<1>6. HoldsAt(t)'
  BY <1>1, <1>2, <1>5 DEF HoldsAt
<1>7. Holding' /\ ReadingBody /\ ~ReadingBody'
  BY <1>1, <1>2, <1>4, <1>5, <1>6, HoldingStep
<1> DEFINE m == Head(packet_buf)
<1>8. Tail(packet_buf) \in Seq(Chunk)
  BY <1>1, <1>3, HeadTail DEF Stored
<1>9. m.part = "body" /\ Framed(Tail(packet_buf), FALSE)
  <2>1. Framed(packet_buf, TRUE)
    BY <1>7 DEF FInv, Framing
  <2>2. /\ m.part = "body"
        /\ Framed(Tail(packet_buf), m.part = "header" /\ HasBody(m))
    BY <1>1, <1>3, <2>1, FramedTail DEF Stored
  <2>3. (m.part = "header" /\ HasBody(m)) = FALSE
    BY <2>2
  <2>4. QED BY <2>2, <2>3
<1> HIDE DEF m
<1>10. Stored'
  BY <1>1, <1>3, <1>8 DEF Stored
<1>11. Saving'
  <2>1. \A u \in Thread : ~SavedFor(u)
    BY <1>1, <1>4 DEF Only, Apart, SavedFor
  <2>2. QED BY <1>1, <2>1 DEF FInv, Saving, IsEvent
<1>12. Framing'
  <2>1. ASSUME Up
        PROVE  /\ Framed(Tail(packet_buf) \o transit, FALSE)
               /\ Whole(Tail(packet_buf) \o transit, FALSE)
    <3>1. Framed(packet_buf \o transit, TRUE) /\ Whole(packet_buf \o transit, TRUE)
      BY <1>7, <2>1 DEF FInv, Framing
    <3>2. PICK w \in Seq(Chunk) : /\ w = packet_buf \o transit /\ w # <<>>
                                  /\ Head(w) = m /\ Tail(w) = Tail(packet_buf) \o transit
      <4>1. packet_buf \o transit \in Seq(Chunk)
        BY <1>3, Joined DEF Stored
      <4>2. QED BY <1>1, <1>3, <4>1, HeadJoined DEF Stored, m
    <3>3. /\ Framed(Tail(w), Head(w).part = "header" /\ HasBody(Head(w)))
          /\ Whole(Tail(w), Head(w).part = "header" /\ HasBody(Head(w)))
      BY <3>1, <3>2, FramedTail
    <3>4. (m.part = "header" /\ HasBody(m)) = FALSE
      BY <1>9
    <3>5. QED BY <3>2, <3>3, <3>4
  <2>2. packet_buf' = Tail(packet_buf) /\ transit' = transit /\ (Up' <=> Up)
    BY <1>1, <1>3
  <2>3. QED BY <1>7, <1>9, <2>1, <2>2 DEF Framing, Framed, Whole, HasBody
<1>13. Flowing'
  <2>1. PICK f \in Nat : /\ Chained(Len(delivered), call, revent, race_event, last_sr_event,
                                    packet_buf, f)
                         /\ f <= published
                         /\ Up => Flow(transit, f, published)
    BY FlowNow
  <2>2. /\ HandOf(call', revent', "recv") = HandOf(call, revent, "recv")
        /\ HandOf(call', revent', "send_recv") = HandOf(call, revent, "send_recv")
    <3>1. \A u \in Thread : revent'[u] = revent[u] /\ (revent[u] # None => call'[u].op = call[u].op)
      BY <1>1, <1>2 DEF Others
    <3>2. QED BY <3>1, HandSame
  <2>3. ~IsEvent(m)
    BY <1>9 DEF IsEvent
  <2>4. Chain(Len(delivered), HandOf(call, revent, "recv"), race_event,
              HandOf(call, revent, "send_recv"), SavedOf(last_sr_event), Tail(packet_buf), f)
    BY <1>1, <1>3, <2>1, <2>3, ChainBody DEF Chained, Stored, m
  <2>5. Chained(Len(delivered'), call', revent', race_event', last_sr_event', packet_buf', f)
    BY <1>1, <2>2, <2>4 DEF Chained
  <2>6. InOrder(delivered') /\ f <= published' /\ (Up' => Flow(transit', f, published'))
    BY <1>1, <1>3, <2>1, FlowNow
  <2>7. QED BY <2>5, <2>6, FlowNext
<1>14. QED
  BY <1>3, <1>7, <1>10, <1>11, <1>12, <1>13 DEF FInv

LEMMA ReceiveKeeps ==
  ASSUME FInv, [Next]_vars, NEW t \in Thread, Receive(t)
  PROVE  FInv'
<1>1. PICK k \in 1 .. Len(transit) : /\ packet_buf' = SubSeq(transit, 1, k)
                                    /\ transit' = SubSeq(transit, k + 1, Len(transit))
  BY DEF Receive
<1>2. /\ packet_buf = <<>> /\ Up /\ pc' = pc /\ call' = call /\ revent' = revent
      /\ UNCHANGED <<connected, sock, purged, race_event, last_sr_event, commands, published,
                     delivered>>
  BY DEF Receive, threadVars
<1>3. Stored /\ Holding /\ Saving /\ Framing /\ DInv' /\ Up'
  BY <1>2, NextKeepsDInv DEF FInv, Up
<1>4. PICK x \in Seq(Chunk), y \in Seq(Chunk) :
        packet_buf' = x /\ transit' = y /\ x \o y = transit
  <2>1. transit \in Seq(Chunk)
    BY <1>3 DEF Stored
  <2>2. /\ SubSeq(transit, 1, k) \in Seq(Chunk)
        /\ SubSeq(transit, k + 1, Len(transit)) \in Seq(Chunk)
        /\ SubSeq(transit, 1, k) \o SubSeq(transit, k + 1, Len(transit)) = transit
    BY <2>1, CutJoined
  <2>3. QED BY <1>1, <2>2
<1>5. Stored'
  BY <1>2, <1>3, <1>4 DEF Stored
<1>6. Holding' /\ Saving'
  BY <1>2, <1>3 DEF Holding, HoldsAt, Saving, SavedFor, IsEvent
<1>7. ReadingBody' = ReadingBody
  BY <1>2 DEF ReadingBody
<1>8. Framing'
  <2>1. <<>> \o transit = transit
    BY <1>3, EmptyJoined DEF Stored
  <2>2. Framed(x \o y, ReadingBody) /\ Whole(x \o y, ReadingBody)
    BY <1>2, <1>3, <1>4, <2>1 DEF Framing
  <2>3. Framed(x, ReadingBody)
    BY <2>2, FramedPrefix
  <2>4. QED BY <1>4, <1>7, <2>2, <2>3 DEF Framing, Framed, Whole, HasBody
<1>9. Flowing'
  <2>1. PICK f \in Nat : /\ Chained(Len(delivered), call, revent, race_event, last_sr_event,
                                    packet_buf, f)
                         /\ f <= published
                         /\ Up => Flow(transit, f, published)
    BY FlowNow
  <2>2. PICK e \in Nat : /\ Chained(Len(delivered), call, revent, race_event, last_sr_event, x, e)
                         /\ Flow(y, e, published)
    <3>1. Flow(x \o y, f, published)
      BY <1>2, <1>4, <2>1
    <3>2. Chain(Len(delivered), HandOf(call, revent, "recv"), race_event,
                HandOf(call, revent, "send_recv"), SavedOf(last_sr_event), <<>>, f)
      BY <1>2, <2>1 DEF Chained
    <3>3. QED BY <3>1, <3>2, ChainArrive DEF Chained
  <2>3. e <= published
    BY <2>2, FlowNat
  <2>4. Chained(Len(delivered'), call', revent', race_event', last_sr_event', packet_buf', e)
    BY <1>2, <1>4, <2>2
  <2>5. InOrder(delivered') /\ e <= published' /\ (Up' => Flow(transit', e, published'))
    BY <1>2, <1>4, <2>2, <2>3, FlowNow
  <2>6. QED BY <2>4, <2>5, FlowNext
<1>10. QED
  BY <1>3, <1>5, <1>6, <1>8, <1>9 DEF FInv

LEMMA LosesBodyKeeps ==
  ASSUME FInv, [Next]_vars, NEW t \in Thread, LosesBody(t)
  PROVE  FInv'
<1>1. /\ pc[t] = "re_body" /\ packet_buf = <<>> /\ (~Up \/ transit = <<>>)
      /\ revent' = [revent EXCEPT ![t] = None] /\ Continue(t, "re_fail")
      /\ UNCHANGED <<connected, sock, purged, race_event, last_sr_event, packet_buf, transit,
                     commands, published, delivered>>
  BY DEF LosesBody, ReceiveFails, At, handleVars, serverVars
<1>2. pc'[t] = "re_fail" /\ call'[t] = call[t] /\ Others(t)
  BY <1>1, ContinueTyped DEF FInv, DInv, IInv, Label
<1>3. /\ Stored /\ Holding /\ Framing /\ DInv' /\ (Up' <=> Up)
      /\ call[t].op \in {"send_recv", "recv"} /\ Levels(t) > 0
  <2>1. Fits(pc[t], call[t])
    BY DEF FInv, DInv, IInv
  <2>2. QED BY <1>1, <2>1, NextKeepsDInv, LevelsNat DEF FInv, Up, Fits, Levels, LevelsAt
<1>4. Only(t)
  BY <1>3, Alone DEF Only
<1>5. revent[t] # None /\ (call[t].op = "recv" => race_event = <<>>)
  BY <1>1, <1>3 DEF Holding, HoldsAt
<1>6. HoldsAt(t)'
  BY <1>1, <1>2, <1>3 DEF HoldsAt, Stored
<1>7. /\ Holding' /\ revent' \in [Thread -> Message \cup {None}] /\ ReadingBody /\ ~ReadingBody'
      /\ revent'[t] = None
      /\ \A u \in Thread \ {t} : revent[u] = None /\ revent'[u] = None
  BY <1>1, <1>2, <1>4, <1>6, HoldingStep
<1>8. Stored'
  BY <1>1, <1>3, <1>7 DEF Stored
<1>9. \A u \in Thread : ~SavedFor(u)
  BY <1>1, <1>4 DEF Only, Apart, SavedFor
<1>10. Saving'
  BY <1>1, <1>9 DEF FInv, Saving, IsEvent
<1>11. ~Up
  <2>1. SUFFICES ASSUME Up PROVE FALSE
    OBVIOUS
  <2>2. transit = <<>> /\ packet_buf = <<>>
    BY <1>1, <2>1
  <2>3. packet_buf \o transit = <<>>
    BY <1>3, <2>2, EmptyJoined DEF Stored
  <2>4. QED BY <1>3, <1>7, <2>1, <2>3 DEF Framing, Whole
<1>12. Framing'
  <2>1. Framed(packet_buf', ReadingBody')
    BY <1>1 DEF Framed
  <2>2. QED BY <1>3, <1>11, <2>1 DEF Framing, Framed, HasBody
<1>13. Flowing'
  <2>1. PICK f \in Nat : /\ Chained(Len(delivered), call, revent, race_event, last_sr_event,
                                    packet_buf, f)
                         /\ f <= published
                         /\ Up => Flow(transit, f, published)
    BY FlowNow
  <2>2. Silent(SavedOf(last_sr_event))
    BY <1>9, NothingSaved DEF Saved, SavedOf
  <2>3. HandOf(call', revent', "recv") = <<>> /\ HandOf(call', revent', "send_recv") = <<>>
    BY <1>7, Hands
  <2>4. PICK k \in Nat : k <= f /\ Chain(Len(delivered), <<>>, race_event, <<>>,
                                         SavedOf(last_sr_event), <<>>, k)
    <3>1. CASE call[t].op = "recv"
      <4>1. HandOf(call, revent, "send_recv") = <<>>
        BY <1>5, <1>7, <3>1, Hands
      <4>2. Chain(Len(delivered), HandOf(call, revent, "recv"), <<>>, <<>>,
                  SavedOf(last_sr_event), <<>>, f)
        BY <1>1, <1>5, <2>1, <3>1, <4>1 DEF Chained
      <4>3. QED BY <1>5, <2>2, <3>1, <4>2, ChainLoseRead
    <3>2. CASE call[t].op = "send_recv"
      <4>1. HandOf(call, revent, "recv") = <<>>
        BY <1>5, <1>7, <3>2, Hands
      <4>2. Chain(Len(delivered), <<>>, race_event, HandOf(call, revent, "send_recv"),
                  SavedOf(last_sr_event), <<>>, f)
        BY <1>1, <2>1, <4>1 DEF Chained
      <4>3. QED BY <2>2, <4>2, ChainLoseMet
    <3>3. QED BY <1>3, <3>1, <3>2
  <2>5. Chained(Len(delivered'), call', revent', race_event', last_sr_event', packet_buf', k)
    BY <1>1, <2>3, <2>4 DEF Chained
  <2>6. InOrder(delivered') /\ k <= published' /\ (Up' => Flow(transit', k, published'))
    <3>1. published \in Nat /\ k <= published
      BY <1>3, <2>1, <2>4 DEF Stored
    <3>2. QED BY <1>1, <1>3, <1>11, <3>1, FlowNow
  <2>7. QED BY <2>5, <2>6, FlowNext
<1>14. QED
  BY <1>3, <1>7, <1>8, <1>10, <1>12, <1>13 DEF FInv

LEMMA SaveKeeps ==
  ASSUME FInv, [Next]_vars, NEW t \in Thread, Save(t)
  PROVE  FInv'
<1>1. /\ pc[t] = "re_parse" /\ call[t].op = "send_recv" /\ last_sr_event' = revent[t]
      /\ revent' = [revent EXCEPT ![t] = None] /\ EventReturn(t, "success")
      /\ UNCHANGED <<connected, sock, purged, race_event, packet_buf, transit, commands,
                     published, delivered>>
  BY DEF Save, At, SavesEvent, serverVars
<1>2. /\ pc'[t] \in {"rt_unlock", "sr_check"} /\ call'[t].op = "send_recv" /\ Others(t)
  BY <1>1, EventReturnTyped DEF FInv, DInv, IInv, Status
<1>3. /\ Stored /\ Holding /\ Framing /\ DInv' /\ (Up' <=> Up) /\ Levels(t) > 0
  BY <1>1, NextKeepsDInv, LevelsNat DEF FInv, Up, Levels, LevelsAt
<1>4. Only(t)
  BY <1>3, Alone DEF Only
<1>5. revent[t] # None /\ revent[t] \in Message \cup {None}
  BY <1>1, <1>3 DEF Stored, Holding, HoldsAt
<1>6. HoldsAt(t)'
  BY <1>1, <1>2, <1>3 DEF HoldsAt, Stored
<1>7. /\ Holding' /\ revent' \in [Thread -> Message \cup {None}]
      /\ ReadingBody = FALSE /\ ReadingBody' = FALSE
      /\ revent'[t] = None
      /\ \A u \in Thread \ {t} : revent[u] = None /\ revent'[u] = None
  <2>1. /\ Holding' /\ revent' \in [Thread -> Message \cup {None}] /\ ~ReadingBody /\ ~ReadingBody'
        /\ revent'[t] = None
        /\ \A u \in Thread \ {t} : revent[u] = None /\ revent'[u] = None
    BY <1>1, <1>2, <1>4, <1>6, HoldingStep
  <2>2. QED BY <2>1 DEF ReadingBody
<1>8. Stored'
  BY <1>1, <1>3, <1>5, <1>7 DEF Stored
<1>9. Saving'
  BY <1>2 DEF Saving, SavedFor
<1>10. Framing'
  BY <1>1, <1>3, <1>7 DEF Framing, Framed, Whole, HasBody
<1>11. Flowing'
  <2>1. PICK f \in Nat : /\ Chained(Len(delivered), call, revent, race_event, last_sr_event,
                                    packet_buf, f)
                         /\ f <= published
                         /\ Up => Flow(transit, f, published)
    BY FlowNow
  <2>2. \A u \in Thread : ~SavedFor(u)
    BY <1>1, <1>4 DEF Only, Apart, SavedFor
  <2>3. Silent(SavedOf(last_sr_event))
    BY <2>2, NothingSaved DEF Saved, SavedOf
  <2>4. HandOf(call', revent', "recv") = <<>> /\ HandOf(call', revent', "send_recv") = <<>>
    BY <1>7, Hands
  <2>5. /\ HandOf(call, revent, "recv") = <<>> /\ HandOf(call, revent, "send_recv") = <<revent[t]>>
    BY <1>1, <1>5, <1>7, Hands
  <2>6. SavedOf(last_sr_event') = <<revent[t]>>
    BY <1>1, <1>5 DEF SavedOf
  <2>7. Chain(Len(delivered), <<>>, race_event, <<>>, <<revent[t]>>, packet_buf, f)
    BY <2>1, <2>3, <2>5, ChainSave DEF Chained
  <2>8. Chained(Len(delivered'), call', revent', race_event', last_sr_event', packet_buf', f)
    BY <1>1, <2>4, <2>6, <2>7 DEF Chained
  <2>9. InOrder(delivered') /\ f <= published' /\ (Up' => Flow(transit', f, published'))
    BY <1>1, <1>3, <2>1, FlowNow
  <2>10. QED BY <2>8, <2>9, FlowNext
<1>12. QED
  BY <1>3, <1>7, <1>8, <1>9, <1>10, <1>11 DEF FInv

LEMMA OvertakenKeeps ==
  ASSUME FInv, [Next]_vars, NEW t \in Thread, Overtaken(t)
  PROVE  FInv'
<1>1. /\ pc[t] = "sr_check" /\ last_sr_event # None /\ last_sr_event' = None
      /\ race_event' = Append(race_event, last_sr_event) /\ Continue(t, "sr_relock")
      /\ UNCHANGED <<revent, connected, sock, purged, packet_buf, transit, commands,
                     published, delivered>>
  BY DEF Overtaken, At, serverVars
<1>2. pc'[t] = "sr_relock" /\ call'[t] = call[t] /\ Others(t)
  BY <1>1, ContinueTyped DEF FInv, DInv, IInv, Label
<1>3. /\ Stored /\ Holding /\ Framing /\ DInv' /\ (Up' <=> Up) /\ Levels(t) > 0
  <2>1. Fits(pc[t], call[t])
    BY DEF FInv, DInv, IInv
  <2>2. QED BY <1>1, <2>1, NextKeepsDInv, LevelsNat DEF FInv, Up, Fits, Levels, LevelsAt
<1>4. Only(t)
  BY <1>3, Alone DEF Only
<1>5. revent[t] = None /\ last_sr_event \in Message
  BY <1>1, <1>3 DEF Stored, Holding, HoldsAt
<1>6. revent' = [revent EXCEPT ![t] = None]
  BY <1>1, <1>3, <1>5 DEF Stored
<1>7. HoldsAt(t)'
  BY <1>1, <1>2, <1>5 DEF HoldsAt
<1>8. /\ Holding' /\ ReadingBody = FALSE /\ ReadingBody' = FALSE
      /\ \A u \in Thread \ {t} : revent[u] = None /\ revent'[u] = None
  <2>1. /\ Holding' /\ ~ReadingBody /\ ~ReadingBody'
        /\ \A u \in Thread \ {t} : revent[u] = None /\ revent'[u] = None
    BY <1>1, <1>2, <1>4, <1>6, <1>7, HoldingStep
  <2>2. QED BY <2>1 DEF ReadingBody
<1>9. Stored'
  <2>1. Append(race_event, last_sr_event) \in Seq(Message)
    BY <1>3, <1>5, AppendIs DEF Stored
  <2>2. QED BY <1>1, <1>3, <2>1 DEF Stored
<1>10. Saving'
  BY <1>1 DEF Saving
<1>11. Framing'
  BY <1>1, <1>3, <1>8 DEF Framing, Framed, Whole, HasBody
<1>12. Flowing'
  <2>1. PICK f \in Nat : /\ Chained(Len(delivered), call, revent, race_event, last_sr_event,
                                    packet_buf, f)
                         /\ f <= published
                         /\ Up => Flow(transit, f, published)
    BY FlowNow
  <2>2. revent'[t] = None
    BY <1>1, <1>5
  <2>3. HandOf(call', revent', "recv") = <<>> /\ HandOf(call', revent', "send_recv") = <<>>
    BY <1>8, <2>2, Hands
  <2>4. HandOf(call, revent, "recv") = <<>> /\ HandOf(call, revent, "send_recv") = <<>>
    BY <1>5, <1>8, Hands
  <2>5. SavedOf(last_sr_event') = <<>> /\ SavedOf(last_sr_event) = <<last_sr_event>>
    BY <1>1 DEF SavedOf
  <2>6. Chain(Len(delivered), <<>>, race_event, <<>>, <<last_sr_event>>, packet_buf, f)
    BY <2>1, <2>4, <2>5 DEF Chained
  <2>7. Chain(Len(delivered), <<>>, Append(race_event, last_sr_event), <<>>, <<>>, packet_buf, f)
    BY <1>3, <1>5, <2>6, ChainOvertake DEF Stored
  <2>8. Chained(Len(delivered'), call', revent', race_event', last_sr_event', packet_buf', f)
    BY <1>1, <2>3, <2>5, <2>7 DEF Chained
  <2>9. InOrder(delivered') /\ f <= published' /\ (Up' => Flow(transit', f, published'))
    BY <1>1, <1>3, <2>1, FlowNow
  <2>10. QED BY <2>8, <2>9, FlowNext
<1>13. QED
  BY <1>3, <1>8, <1>9, <1>10, <1>11, <1>12 DEF FInv

\* The next event in order is handed over, or none is.
Handed ==
  \/ delivered' = delivered
  \/ /\ delivered' = Append(delivered, Len(delivered) + 1)
     /\ Len(delivered) < published

LEMMA InOrderAppend ==
  ASSUME NEW s \in Seq(Nat), InOrder(s)
  PROVE  /\ InOrder(Append(s, Len(s) + 1)) /\ Len(Append(s, Len(s) + 1)) = Len(s) + 1
         /\ Append(s, Len(s) + 1) \in Seq(Nat)
<1>1. Len(s) \in Nat /\ \A i \in 1 .. Len(s) : s[i] = i
  BY DEF InOrder
<1>2. PICK v \in Seq(Nat) : /\ v = Append(s, Len(s) + 1) /\ Len(v) = Len(s) + 1
                           /\ v[Len(s) + 1] = Len(s) + 1 /\ \A i \in 1 .. Len(s) : v[i] = s[i]
  <2>1. Len(s) + 1 \in Nat
    BY <1>1
  <2>2. /\ Append(s, Len(s) + 1) \in Seq(Nat) /\ Len(Append(s, Len(s) + 1)) = Len(s) + 1
        /\ Append(s, Len(s) + 1)[Len(s) + 1] = Len(s) + 1
        /\ \A i \in 1 .. Len(s) : Append(s, Len(s) + 1)[i] = s[i]
    BY <2>1
  <2>3. QED BY <2>2
<1>3. \A i \in 1 .. Len(v) : v[i] = i
  BY <1>1, <1>2
<1>4. InOrder(v)
  BY <1>3 DEF InOrder
<1>5. QED
  BY <1>2, <1>4

LEMMA HandOverKeeps ==
  ASSUME FInv, [Next]_vars, NEW t \in Thread, HandOver(t)
  PROVE  FInv' /\ Handed
<1> DEFINE m == revent[t]
<1>1. /\ pc[t] = "re_parse" /\ call[t].op # "send_recv"
      /\ delivered' = IF m.kind = "event" THEN Append(delivered, m.id) ELSE delivered
      /\ revent' = [revent EXCEPT ![t] = None]
      /\ Continue(t, "re_fail") \/ EventReturn(t, "success")
      /\ UNCHANGED <<connected, sock, purged, race_event, last_sr_event, packet_buf, transit,
                     commands, published>>
  BY DEF HandOver, At, SavesEvent, handleVars, serverVars
<1>2. call[t].op = "recv" /\ Levels(t) > 0
  <2>1. Fits(pc[t], call[t])
    BY DEF FInv, DInv, IInv
  <2>2. QED BY <1>1, <2>1, LevelsNat DEF Fits, Levels, LevelsAt
<1>3. pc'[t] \in {"re_fail", "rt_unlock", "idle"} /\ Others(t)
  BY <1>1, <1>2, ContinueTyped, EventReturnTyped DEF FInv, DInv, IInv, Label, Status
<1>4. Stored /\ Holding /\ Framing /\ DInv' /\ (Up' <=> Up)
  BY <1>1, NextKeepsDInv DEF FInv, Up
<1>5. Only(t)
  BY <1>2, Alone DEF Only
<1>6. m # None /\ m \in Message
  BY <1>1, <1>4 DEF Stored, Holding, HoldsAt
<1>7. HoldsAt(t)'
  BY <1>1, <1>3, <1>4 DEF HoldsAt, Stored
<1> HIDE DEF m
<1>8. /\ Holding' /\ revent' \in [Thread -> Message \cup {None}]
      /\ ReadingBody = FALSE /\ ReadingBody' = FALSE
      /\ revent'[t] = None
      /\ \A u \in Thread \ {t} : revent[u] = None /\ revent'[u] = None
  <2>1. /\ Holding' /\ revent' \in [Thread -> Message \cup {None}] /\ ~ReadingBody /\ ~ReadingBody'
        /\ revent'[t] = None
        /\ \A u \in Thread \ {t} : revent[u] = None /\ revent'[u] = None
    BY <1>1, <1>3, <1>5, <1>7, HoldingStep
  <2>2. QED BY <2>1 DEF ReadingBody
<1>9. \A u \in Thread : ~SavedFor(u)
  BY <1>1, <1>5 DEF Only, Apart, SavedFor
<1>10. Saving'
  BY <1>1, <1>9 DEF FInv, Saving, IsEvent
<1>11. Framing'
  BY <1>1, <1>4, <1>8 DEF Framing, Framed, Whole, HasBody
<1>12. PICK f \in Nat :
         /\ Chained(Len(delivered), call, revent, race_event, last_sr_event, packet_buf, f)
         /\ f <= published
         /\ Up => Flow(transit, f, published)
  BY FlowNow
<1>13. /\ HandOf(call, revent, "recv") = <<m>> /\ HandOf(call, revent, "send_recv") = <<>>
  BY <1>2, <1>6, <1>8, Hands DEF m
<1>14. Chain(Len(delivered), <<m>>, race_event, <<>>, SavedOf(last_sr_event), packet_buf, f)
  <2>1. Chained(Len(delivered), call, revent, race_event, last_sr_event, packet_buf, f)
    BY <1>12
  <2>2. QED BY <1>13, <2>1 DEF Chained
<1>15. /\ IsEvent(m) => /\ m.id = Len(delivered) + 1 /\ Len(delivered) + 1 <= f
                       /\ Chain(Len(delivered) + 1, <<>>, race_event, <<>>,
                                SavedOf(last_sr_event), packet_buf, f)
       /\ ~IsEvent(m) => Chain(Len(delivered), <<>>, race_event, <<>>,
                               SavedOf(last_sr_event), packet_buf, f)
  BY <1>14, ChainHandOver
<1>16. IsEvent(m) <=> m.kind = "event"
  BY <1>6 DEF Message, IsEvent
<1>17. HandOf(call', revent', "recv") = <<>> /\ HandOf(call', revent', "send_recv") = <<>>
  BY <1>8, Hands
<1>18. InOrder(delivered) /\ delivered \in Seq(Nat) /\ published \in Nat
  BY <1>4, FlowNow DEF Stored
<1>19. f <= published' /\ (Up' => Flow(transit', f, published'))
  <2>1. published' = published /\ transit' = transit /\ (Up' <=> Up)
    BY <1>1, <1>4
  <2>2. f <= published /\ (Up => Flow(transit, f, published))
    BY <1>12
  <2>3. QED BY <2>1, <2>2
<1>20. CASE IsEvent(m)
  <2>1. delivered' = Append(delivered, Len(delivered) + 1)
    BY <1>1, <1>15, <1>16, <1>20
  <2>2. InOrder(delivered') /\ Len(delivered') = Len(delivered) + 1 /\ delivered' \in Seq(Nat)
    BY <1>18, <2>1, InOrderAppend
  <2>3. Chained(Len(delivered'), call', revent', race_event', last_sr_event', packet_buf', f)
    BY <1>1, <1>15, <1>17, <1>20, <2>2 DEF Chained
  <2>4. Flowing'
    BY <1>19, <2>2, <2>3, FlowNext
  <2>5. Stored'
    BY <1>1, <1>4, <1>8, <2>2 DEF Stored
  <2>6. Len(delivered) < published
    <3>1. Len(delivered) \in Nat
      BY <1>18
    <3>2. Len(delivered) + 1 <= f /\ f <= published
      BY <1>12, <1>15, <1>20
    <3>3. QED BY <1>18, <3>1, <3>2
  <2>7. QED
    BY <1>4, <1>8, <1>10, <1>11, <2>1, <2>4, <2>5, <2>6 DEF FInv, Handed
<1>21. CASE ~IsEvent(m)
  <2>1. delivered' = delivered
    BY <1>1, <1>16, <1>21
  <2>2. Chained(Len(delivered'), call', revent', race_event', last_sr_event', packet_buf', f)
    BY <1>1, <1>15, <1>17, <1>21, <2>1 DEF Chained
  <2>3. Flowing'
    BY <1>18, <1>19, <2>1, <2>2, FlowNext
  <2>4. Stored'
    BY <1>1, <1>4, <1>8, <2>1 DEF Stored
  <2>5. QED
    BY <1>4, <1>8, <1>10, <1>11, <2>1, <2>3, <2>4 DEF FInv, Handed
<1>22. QED
  BY <1>20, <1>21

LEMMA WipeKeeps ==
  ASSUME FInv, [Next]_vars, NEW t \in Thread, Wipe(t)
  PROVE  FInv'
<1>1. /\ pc[t] = "dc_wipe" /\ connected' = FALSE /\ race_event' = <<>> /\ last_sr_event' = None
      /\ packet_buf' = <<>> /\ Finish(t, status[t])
      /\ UNCHANGED <<revent, purged, transit, commands, published, delivered>>
  BY DEF Wipe, At, serverVars
<1>2. pc'[t] = "idle" /\ Others(t)
  BY <1>1, FinishTyped DEF FInv, DInv, IInv, Typed
<1>3. Stored /\ Holding /\ DInv' /\ ~Up'
  BY <1>1, NextKeepsDInv DEF FInv, Up
<1>4. \A u \in Thread : pc[u] \notin {"re_loop", "re_body", "re_parse"} /\ revent[u] = None
  <2>1. purged
    BY <1>1 DEF FInv, DInv, Past
  <2>2. \A u \in Thread : Quiet(pc[u], call[u])
    BY <2>1 DEF FInv, DInv
  <2>3. QED BY <1>3, <2>2 DEF Quiet, Holding, HoldsAt
<1>5. \A u \in Thread : HoldsAt(u)'
  <2>1. HoldsAt(t)'
    BY <1>1, <1>2, <1>4 DEF HoldsAt
  <2>2. \A u \in Thread \ {t} : HoldsAt(u)'
    BY <1>1, <1>2, <1>3, <1>4 DEF HoldsAt, Holding, Others
  <2>3. QED BY <2>1, <2>2
<1>6. Stored'
  BY <1>1, <1>3 DEF Stored
<1>7. Holding' /\ Saving' /\ Framing'
  <2>1. Framed(packet_buf', ReadingBody')
    BY <1>1 DEF Framed
  <2>2. QED BY <1>1, <1>3, <1>5, <2>1 DEF Holding, Saving, Framing, Framed, HasBody
<1>8. Flowing'
  <2>1. PICK f \in Nat : Chained(Len(delivered), call, revent, race_event, last_sr_event,
                                 packet_buf, f) /\ f <= published
    BY FlowNow
  <2>2. PICK n \in Nat : n = Len(delivered) /\ n <= published
    <3>1. PICK b, c, d, e \in Nat :
            /\ Flow(HandOf(call, revent, "recv"), Len(delivered), b)
            /\ Flow(race_event, b, c) /\ Flow(HandOf(call, revent, "send_recv"), c, d)
            /\ Flow(SavedOf(last_sr_event), d, e) /\ Flow(packet_buf, e, f)
      BY <2>1 DEF Chained, Chain
    <3>2. Len(delivered) \in Nat /\ Len(delivered) <= b /\ b <= c /\ c <= d /\ d <= e /\ e <= f
      BY <3>1, FlowNat
    <3>3. published \in Nat /\ f <= published
      BY <1>3, <2>1 DEF Stored
    <3>4. Len(delivered) <= published
      BY <3>2, <3>3
    <3>5. QED BY <3>2, <3>4
  <2>3. \A u \in Thread : revent'[u] = None
    BY <1>1, <1>4
  <2>4. /\ HandOf(call', revent', "recv") = <<>> /\ HandOf(call', revent', "send_recv") = <<>>
        /\ SavedOf(last_sr_event') = <<>>
    BY <1>1, <2>3, HandNone DEF SavedOf
  <2>5. Flow(<<>>, n, n)
    BY FlowEmpty
  <2>6. Chained(Len(delivered'), call', revent', race_event', last_sr_event', packet_buf', n)
    BY <1>1, <2>2, <2>4, <2>5 DEF Chained, Chain
  <2>7. InOrder(delivered') /\ n <= published' /\ (Up' => Flow(transit', n, published'))
    BY <1>1, <1>3, <2>2, FlowNow
  <2>8. QED BY <2>6, <2>7, FlowNext
<1>9. QED
  BY <1>3, <1>6, <1>7, <1>8 DEF FInv

-----------------------------------------------------------------------------
(* The server.                                                              *)

\* The server sends x, in which the events after a up to b are.
Posts(x, b) ==
  /\ x \in Seq(Chunk) /\ Letter(x) /\ Flow(x, published, b)
  /\ transit' = transit \o x /\ published' = b /\ commands' \in Seq(Nat)
  /\ UNCHANGED <<threadVars, handleVars, delivered>>

LEMMA PostsKeeps ==
  ASSUME FInv, [Next]_vars, NEW x, NEW b, Posts(x, b)
  PROVE  FInv'
<1>1. /\ UNCHANGED <<pc, call, revent, connected, sock, purged, race_event, last_sr_event,
                     packet_buf, delivered>>
      /\ transit' = transit \o x /\ published' = b /\ commands' \in Seq(Nat)
      /\ x \in Seq(Chunk) /\ Letter(x) /\ Flow(x, published, b)
  BY DEF Posts, threadVars, handleVars
<1>2. Stored /\ Holding /\ Saving /\ Framing /\ DInv' /\ (Up' <=> Up)
  BY <1>1, NextKeepsDInv DEF FInv, Up
<1>3. b \in Nat /\ published <= b /\ published \in Nat
  BY <1>1, FlowNat
<1>4. transit \o x \in Seq(Chunk)
  BY <1>1, <1>2, Joined DEF Stored
<1>5. Stored'
  BY <1>1, <1>2, <1>3, <1>4 DEF Stored
<1>6. Holding' /\ Saving'
  BY <1>1, <1>2 DEF Holding, HoldsAt, Saving, SavedFor, IsEvent
<1>7. ReadingBody' = ReadingBody /\ ReadingBody \in BOOLEAN
  BY <1>1 DEF ReadingBody
<1>8. Framing'
  <2>1. ASSUME Up
        PROVE  /\ Framed(packet_buf \o (transit \o x), ReadingBody)
               /\ Whole(packet_buf \o (transit \o x), ReadingBody)
    <3>1. PICK w \in Seq(Chunk) : w = packet_buf \o transit
      <4>1. packet_buf \o transit \in Seq(Chunk)
        BY <1>2, Joined DEF Stored
      <4>2. QED BY <4>1
    <3>2. Framed(w, ReadingBody) /\ Whole(w, ReadingBody)
      BY <1>2, <2>1, <3>1 DEF Framing
    <3>3. Framed(w \o x, ReadingBody) /\ Whole(w \o x, ReadingBody)
      BY <1>1, <1>7, <3>2, FramedSent
    <3>4. w \o x = packet_buf \o (transit \o x)
      <4>1. packet_buf \in Seq(Chunk) /\ transit \in Seq(Chunk) /\ x \in Seq(Chunk)
        BY <1>1, <1>2 DEF Stored
      <4>2. (packet_buf \o transit) \o x = packet_buf \o (transit \o x)
        BY <4>1, Associated
      <4>3. QED BY <3>1, <4>2
    <3>5. QED BY <3>3, <3>4
  <2>2. Framed(packet_buf, ReadingBody)
    BY <1>2 DEF Framing
  <2>3. packet_buf' = packet_buf /\ transit' = transit \o x
    BY <1>1
  <2>4. QED BY <1>2, <1>7, <2>1, <2>2, <2>3 DEF Framing, Framed, Whole, HasBody
<1>9. Flowing'
  <2>1. PICK f \in Nat : /\ Chained(Len(delivered), call, revent, race_event, last_sr_event,
                                    packet_buf, f)
                         /\ f <= published
                         /\ Up => Flow(transit, f, published)
    BY FlowNow
  <2>2. Up => Flow(transit \o x, f, b)
    BY <1>1, <1>2, <2>1, FlowJoin DEF Stored
  <2>3. Chained(Len(delivered'), call', revent', race_event', last_sr_event', packet_buf', f)
    BY <1>1, <2>1
  <2>4. f <= b
    BY <1>3, <2>1
  <2>5. InOrder(delivered')
    BY <1>1, FlowNow
  <2>6. f <= published' /\ (Up' => Flow(transit', f, published'))
    BY <1>1, <1>2, <2>2, <2>4
  <2>7. QED BY <2>3, <2>5, <2>6, FlowNext
<1>10. QED
  BY <1>2, <1>5, <1>6, <1>8, <1>9 DEF FInv

LEMMA PairIs ==
  ASSUME NEW h \in Chunk, NEW g \in Chunk
  PROVE  /\ <<h, g>> \in Seq(Chunk) /\ Len(<<h, g>>) = 2 /\ <<h, g>>[1] = h /\ <<h, g>>[2] = g
         /\ <<h>> \in Seq(Chunk) /\ <<g>> \in Seq(Chunk) /\ <<h>> \o <<g>> = <<h, g>>
<1>1. <<h, g>> \in Seq(Chunk) /\ Len(<<h, g>>) = 2 /\ <<h, g>>[1] = h /\ <<h, g>>[2] = g
  OBVIOUS
<1>2. <<h>> \in Seq(Chunk) /\ Len(<<h>>) = 1 /\ <<h>>[1] = h
  OBVIOUS
<1>3. <<g>> \in Seq(Chunk) /\ Len(<<g>>) = 1 /\ <<g>>[1] = g
  OBVIOUS
<1>4. PICK v \in Seq(Chunk) : v = <<h, g>> /\ Len(v) = 2 /\ v[1] = h /\ v[2] = g
  BY <1>1
<1>5. PICK p \in Seq(Chunk) : p = <<h>> /\ Len(p) = 1 /\ p[1] = h
  BY <1>2
<1>6. PICK q \in Seq(Chunk) : q = <<g>> /\ Len(q) = 1 /\ q[1] = g
  BY <1>3
<1>7. PICK w \in Seq(Chunk) : w = p \o q /\ Glue(w, p, q)
  BY Joined
<1>8. Len(w) = 2 /\ w[1] = h /\ w[2] = g
  <2>1. Len(w) = 1 + 1 /\ w[1] = p[1] /\ w[1 + 1] = q[1]
    BY <1>5, <1>6, <1>7 DEF Glue
  <2>2. QED BY <1>5, <1>6, <2>1
<1>9. w = v
  BY <1>4, <1>8
<1>10. QED
  BY <1>1, <1>2, <1>3, <1>4, <1>5, <1>6, <1>7, <1>9

LEMMA PairFlow ==
  ASSUME NEW h \in Chunk, NEW g \in Chunk, ~IsEvent(g), NEW a \in Nat, NEW b \in Nat,
         Flow(<<h>>, a, b)
  PROVE  Flow(<<h, g>>, a, b)
<1>1. Flow(<<g>>, b, b)
  BY FlowOne
<1>w. <<h>> \in Seq(Chunk) /\ <<g>> \in Seq(Chunk) /\ <<h>> \o <<g>> = <<h, g>>
  BY PairIs
<1>2. PICK p \in Seq(Chunk) : p = <<h>>
  BY <1>w
<1>q. PICK q \in Seq(Chunk) : q = <<g>>
  BY <1>w
<1>3. Flow(p, a, b) /\ Flow(q, b, b)
  BY <1>1, <1>2, <1>q
<1>4. Flow(p \o q, a, b)
  BY <1>3, FlowJoin
<1>5. p \o q = <<h, g>>
  BY <1>w, <1>2, <1>q
<1>6. QED
  BY <1>4, <1>5

LEMMA ServerKeeps ==
  ASSUME FInv, [Next]_vars, Server
  PROVE  FInv'
<1>1. published \in Nat /\ commands \in Seq(Nat)
  BY DEF FInv, Stored
<1>2. CASE Publish
  <2> DEFINE h == Event(published + 1)
             g == Body("event", published + 1)
  <2>1. /\ h \in Chunk /\ h.part = "header" /\ HasBody(h) /\ IsEvent(h) /\ h.id = published + 1
        /\ g \in Chunk /\ g.part = "body" /\ ~IsEvent(g)
    BY <1>1 DEF Event, Header, Body, Chunk, HasBody, IsEvent
  <2>2. transit' = transit \o <<h, g>>
    BY <1>2 DEF Publish, Sends
  <2> HIDE DEF h, g
  <2>3. Flow(<<h>>, published, published + 1)
    BY <1>1, <2>1, FlowOne
  <2>4. Flow(<<h, g>>, published, published + 1)
    BY <1>1, <2>1, <2>3, PairFlow
  <2>5. <<h, g>> \in Seq(Chunk) /\ Letter(<<h, g>>)
    BY <2>1, PairIs DEF Letter
  <2>6. Posts(<<h, g>>, published + 1)
    BY <1>1, <1>2, <2>2, <2>4, <2>5 DEF Publish, Posts
  <2>7. QED BY <2>6, PostsKeeps
<1>3. CASE Answer
  <2> DEFINE h == Reply(Head(commands))
  <2>1. Head(commands) \in Nat /\ Tail(commands) \in Seq(Nat)
    BY <1>1, <1>3 DEF Answer
  <2>2. h \in Chunk /\ h.part = "header" /\ ~HasBody(h) /\ ~IsEvent(h)
    BY <2>1 DEF Reply, Header, Chunk, HasBody, IsEvent
  <2>3. transit' = transit \o <<h>>
    BY <1>3 DEF Answer, Sends
  <2> HIDE DEF h
  <2>4. Flow(<<h>>, published, published)
    BY <1>1, <2>2, FlowOne
  <2>5. <<h>> \in Seq(Chunk) /\ Letter(<<h>>)
    <3>1. <<h>> \in Seq(Chunk) /\ Len(<<h>>) = 1 /\ <<h>>[1] = h
      BY <2>2
    <3>2. QED BY <2>2, <3>1 DEF Letter
  <2>6. Posts(<<h>>, published)
    BY <1>1, <1>3, <2>1, <2>3, <2>4, <2>5 DEF Answer, Posts
  <2>7. QED BY <2>6, PostsKeeps
<1>4. CASE Hangup
  <2>1. PICK x \in {<<>>, <<Notice, Body("notice", 0)>>} : transit' = transit \o x
    BY <1>4 DEF Hangup, Sends
  <2> DEFINE h == Notice
             g == Body("notice", 0)
  <2>2. /\ h \in Chunk /\ h.part = "header" /\ HasBody(h) /\ ~IsEvent(h)
        /\ g \in Chunk /\ g.part = "body" /\ ~IsEvent(g)
    BY DEF Notice, Header, Body, Chunk, HasBody, IsEvent
  <2>3. x = <<>> \/ x = <<h, g>>
    BY <2>1
  <2> HIDE DEF h, g
  <2>4. Flow(<<h>>, published, published) /\ Flow(<<>>, published, published)
    BY <1>1, <2>2, FlowOne, FlowEmpty
  <2>5. Flow(<<h, g>>, published, published)
    BY <1>1, <2>2, <2>4, PairFlow
  <2>6. <<h, g>> \in Seq(Chunk) /\ Letter(<<h, g>>)
    BY <2>2, PairIs DEF Letter
  <2>7. <<>> \in Seq(Chunk) /\ Letter(<<>>)
    BY DEF Letter
  <2>8. x \in Seq(Chunk) /\ Letter(x) /\ Flow(x, published, published)
    BY <2>3, <2>4, <2>5, <2>6, <2>7
  <2>9. Posts(x, published)
    BY <1>1, <1>4, <2>1, <2>8 DEF Hangup, Posts
  <2>10. QED BY <2>9, PostsKeeps
<1>5. QED
  BY <1>2, <1>3, <1>4 DEF Server

LEMMA InitFInv ==
  Init => FInv
<1> SUFFICES ASSUME Init PROVE FInv
  OBVIOUS
<1>1. DInv
  BY InitDInv
<1>2. /\ pc = [t \in Thread |-> "idle"] /\ revent = [t \in Thread |-> None]
      /\ race_event = <<>> /\ last_sr_event = None /\ packet_buf = <<>> /\ transit = <<>>
      /\ commands = <<>> /\ published = 0 /\ delivered = <<>> /\ purged = FALSE
  BY DEF Init
<1>3. Stored
  BY <1>2 DEF Stored
<1>4. Holding
  BY <1>2 DEF Holding, HoldsAt
<1>5. Saving
  BY <1>2 DEF Saving
<1>6. Framing
  <2>1. ~ReadingBody
    BY <1>2 DEF ReadingBody
  <2>2. packet_buf \o transit = <<>>
    <3>1. <<>> \in Seq(Chunk)
      OBVIOUS
    <3>2. <<>> \o <<>> = <<>>
      BY <3>1, EmptyJoined
    <3>3. QED BY <1>2, <3>2
  <2>3. Framed(<<>>, ReadingBody) /\ Whole(<<>>, ReadingBody)
    BY <2>1 DEF Framed, Whole
  <2>4. QED BY <1>2, <2>2, <2>3 DEF Framing
<1>7. Flowing
  <2>1. InHand("recv") = <<>> /\ InHand("send_recv") = <<>> /\ Saved = <<>>
    BY <1>2 DEF InHand, Held, Saved
  <2>2. Flow(<<>>, 0, 0)
    BY FlowEmpty
  <2>3. Len(delivered) = 0 /\ InOrder(delivered)
    BY <1>2 DEF InOrder
  <2>4. Chain(Len(delivered), InHand("recv"), race_event, InHand("send_recv"), Saved,
              packet_buf, 0)
    BY <1>2, <2>1, <2>2, <2>3 DEF Chain
  <2>5. QED BY <1>2, <2>2, <2>3, <2>4 DEF Flowing
<1>8. QED
  BY <1>1, <1>3, <1>4, <1>5, <1>6, <1>7 DEF FInv

\* The steps of a thread by what they do to the messages.
Carrying(t) ==
  \/ TakesQueued(t) \/ ReadHeader(t) \/ ReadBody(t) \/ Receive(t) \/ LosesBody(t)
  \/ Save(t) \/ Overtaken(t) \/ HandOver(t) \/ Wipe(t)

LEMMA StepsSorted ==
  ASSUME FInv, NEW t \in Thread, Step(t)
  PROVE  Carrying(t) \/ Idles(t)
<1>1. CASE SendRecvSteps(t)
  BY <1>1, SendRecvIdles DEF Carrying
<1>2. CASE TimedReceiveSteps(t)
  BY <1>2, TimedReceiveIdles
<1>3. CASE EventReceiveSteps(t)
  BY <1>3, EventReceiveIdles DEF EventReceiveSteps, Carrying
<1>4. CASE DisconnectingSteps(t) \/ Crash(t)
  BY <1>4, DisconnectingIdles DEF DisconnectingSteps, Carrying
<1>5. QED
  BY <1>1, <1>2, <1>3, <1>4
  DEF Step, SendRecvSteps, TimedReceiveSteps, EventReceiveSteps, DisconnectingSteps

LEMMA NextKeepsFInv ==
  FInv /\ [Next]_vars => FInv'
<1> SUFFICES ASSUME FInv, [Next]_vars PROVE FInv'
  OBVIOUS
<1>1. ASSUME NEW t \in Thread, Step(t) PROVE FInv'
  <2>1. Carrying(t) \/ Idles(t)
    BY <1>1, StepsSorted
  <2>2. CASE Idles(t)
    BY <2>2, IdlesKeeps
  <2>3. CASE Carrying(t)
    BY <2>3, TakesQueuedKeeps, ReadHeaderKeeps, ReadBodyKeeps, ReceiveKeeps, LosesBodyKeeps,
       SaveKeeps, OvertakenKeeps, HandOverKeeps, WipeKeeps
    DEF Carrying
  <2>4. QED BY <2>1, <2>2, <2>3
<1>2. CASE Calls
  <2>1. PICK t \in Thread : Idles(t)
    BY <1>2, CallsIdle
  <2>2. QED BY <2>1, IdlesKeeps
<1>3. CASE Server
  BY <1>3, ServerKeeps
<1>4. CASE UNCHANGED vars
  <2>1. DInv'
    BY NextKeepsDInv DEF FInv
  <2>2. /\ UNCHANGED <<pc, call, revent, connected, sock, purged, race_event, last_sr_event,
                       packet_buf, transit, commands, published, delivered>>
    BY <1>4 DEF vars, threadVars, handleVars, serverVars
  <2>3. Stored' /\ Holding' /\ Saving'
    BY <2>2 DEF FInv, Stored, Holding, HoldsAt, Saving, SavedFor, IsEvent
  <2>4. Framing'
    <3>1. (ReadingBody' <=> ReadingBody) /\ (Up' <=> Up)
      BY <2>2 DEF ReadingBody, Up
    <3>2. packet_buf' = packet_buf /\ packet_buf' \o transit' = packet_buf \o transit
      BY <2>2
    <3>3. Framing
      BY DEF FInv
    <3>4. Framed(packet_buf', ReadingBody')
      BY <3>1, <3>2, <3>3 DEF Framing, Framed
    <3>5. Up' => /\ Framed(packet_buf' \o transit', ReadingBody')
                 /\ Whole(packet_buf' \o transit', ReadingBody')
      <4>1. PICK w : w = packet_buf \o transit
        OBVIOUS
      <4>2. Up => Framed(w, ReadingBody) /\ Whole(w, ReadingBody)
        BY <3>3, <4>1 DEF Framing
      <4>3. Up' => Framed(w, ReadingBody') /\ Whole(w, ReadingBody')
        BY <3>1, <4>2 DEF Framed, Whole
      <4>4. QED BY <3>2, <4>1, <4>3
    <3>6. QED BY <3>4, <3>5 DEF Framing, Framed, Whole, HasBody
  <2>5. Flowing'
    <3>1. PICK f \in Nat : /\ Chained(Len(delivered), call, revent, race_event, last_sr_event,
                                      packet_buf, f)
                           /\ f <= published
                           /\ Up => Flow(transit, f, published)
      BY FlowNow
    <3>2. Chained(Len(delivered'), call', revent', race_event', last_sr_event', packet_buf', f)
      BY <2>2, <3>1
    <3>3. InOrder(delivered') /\ f <= published' /\ (Up' => Flow(transit', f, published'))
      BY <2>2, <3>1, FlowNow DEF Up
    <3>4. QED BY <3>2, <3>3, FlowNext
  <2>6. QED BY <2>1, <2>3, <2>4, <2>5 DEF FInv
<1>5. QED
  BY <1>1, <1>2, <1>3, <1>4 DEF Next

LEMMA FlowJoined ==
  ASSUME NEW p \in Seq(Chunk), NEW q \in Seq(Chunk), NEW a, NEW b, NEW c,
         Flow(p, a, b), Flow(q, b, c)
  PROVE  \E w \in Seq(Chunk) : w = p \o q /\ Flow(w, a, c)
<1>1. p \o q \in Seq(Chunk)
  BY Joined
<1>2. Flow(p \o q, a, c)
  BY FlowJoin
<1>3. QED
  BY <1>1, <1>2

LEMMA FInvConserves ==
  FInv => EventsConserved
<1> SUFFICES ASSUME FInv, Up
             PROVE  InOrder(delivered) /\ Carries(Line, Len(delivered), published)
  BY DEF EventsConserved, InOrder
<1>1. InOrder(delivered)
  BY FlowNow
<1>2. PICK f \in Nat : /\ Chain(Len(delivered), InHand("recv"), race_event, InHand("send_recv"),
                               Saved, packet_buf, f)
                      /\ Flow(transit, f, published)
  BY DEF FInv, Flowing
<1>3. PICK b, c, d, e \in Nat :
        /\ Flow(InHand("recv"), Len(delivered), b) /\ Flow(race_event, b, c)
        /\ Flow(InHand("send_recv"), c, d) /\ Flow(Saved, d, e) /\ Flow(packet_buf, e, f)
  BY <1>2 DEF Chain
<1>4. Message \subseteq Chunk
  BY DEF Message, Chunk
<1>5. /\ race_event \in Seq(Chunk) /\ packet_buf \in Seq(Chunk) /\ transit \in Seq(Chunk)
      /\ Saved \in Seq(Chunk)
  BY <1>4 DEF FInv, Stored, Saved
<1>6. \A op : InHand(op) \in Seq(Chunk)
  <2>1. TAKE op
  <2>2. CASE Held(op) = {}
    BY <2>2 DEF InHand
  <2>3. CASE Held(op) # {}
    <3>1. PICK t : t = CHOOSE u \in Held(op) : TRUE
      OBVIOUS
    <3>2. t \in Held(op)
      BY <2>3, <3>1
    <3>3. revent[t] \in Chunk
      BY <1>4, <3>2 DEF Held, FInv, Stored
    <3>4. InHand(op) = <<revent[t]>>
      BY <2>3, <3>1 DEF InHand
    <3>5. QED BY <3>3, <3>4
  <2>4. QED BY <2>2, <2>3
<1>7. PICK p1 \in Seq(Chunk) : p1 = InHand("recv") \o race_event /\ Flow(p1, Len(delivered), c)
  <2>1. InHand("recv") \in Seq(Chunk) /\ race_event \in Seq(Chunk)
    BY <1>5, <1>6
  <2>2. QED BY <1>3, <2>1, FlowJoined
<1>8. PICK p2 \in Seq(Chunk) : p2 = p1 \o InHand("send_recv") /\ Flow(p2, Len(delivered), d)
  <2>1. InHand("send_recv") \in Seq(Chunk)
    BY <1>6
  <2>2. QED BY <1>3, <1>7, <2>1, FlowJoined
<1>9. PICK p3 \in Seq(Chunk) : p3 = p2 \o Saved /\ Flow(p3, Len(delivered), e)
  BY <1>3, <1>5, <1>8, FlowJoined
<1>10. PICK p4 \in Seq(Chunk) : p4 = p3 \o packet_buf /\ Flow(p4, Len(delivered), f)
  BY <1>3, <1>5, <1>9, FlowJoined
<1>11. Flow(p4 \o transit, Len(delivered), published)
  BY <1>2, <1>5, <1>10, FlowJoin
<1>12. Line = p4 \o transit
  BY <1>7, <1>8, <1>9, <1>10 DEF Line
<1>13. QED
  BY <1>1, <1>11, <1>12 DEF Flow

\* No event is lost, repeated or reordered while the connection is up, whichever
\* threads send commands, receive with or without a time limit or disconnect, and
\* however recv() cuts what the server sends: the delivered events are the first
\* ones, and the others are on their way, in order, in the hand of a receiver, in
\* race_event, with the sender that met them, in packet_buf or under way.
THEOREM NoEventLost ==
  Spec => []EventsConserved
<1>1. QED
  BY InitFInv, NextKeepsFInv, FInvConserves, PTL DEF Spec

LEMMA StreamStart ==
  Init => Stream!StreamInit
BY DEF Init, Stream!StreamInit

\* Only HandOver delivers, only the server publishes, only Purge closes.
LEMMA StepKeepsOpen ==
  ASSUME NEW t \in Thread, Step(t), ~Purge(t)
  PROVE  purged' = purged
BY StepFrame

LEMMA StepKeepsPublished ==
  ASSUME NEW t \in Thread, Step(t)
  PROVE  /\ published' = published
         /\ ~HandOver(t) => delivered' = delivered
BY DEF Step, Send, SendFails, AwaitReply, Overtaken, SendRecvReturns,
   Relock, RelockFails, TimedEnter, LookAtQueue, PollReadable, PollTimesOut,
   PollFails, TryLock, TimedUnlock, EventEnter, EventLock, ReadHeader, ReadBody,
   Receive, ReceiveFails, Save, HandOver, FailUnlock, MarkDead, Purge, Drain, FreeMutex, Wipe,
   Crash, serverVars

LEMMA StreamStep ==
  FInv /\ [Next]_vars => [Stream!StreamNext]_(Stream!streamVars)
<1> SUFFICES ASSUME FInv, [Next]_vars PROVE [Stream!StreamNext]_(Stream!streamVars)
  OBVIOUS
<1> USE DEF Stream!StreamNext, Stream!streamVars
<1>1. ASSUME UNCHANGED <<published, delivered, purged>>
      PROVE  UNCHANGED Stream!streamVars
  BY <1>1
<1>2. ASSUME NEW t \in Thread, Step(t) PROVE [Stream!StreamNext]_(Stream!streamVars)
  <2>1. published' = published /\ (~HandOver(t) => delivered' = delivered)
    BY <1>2, StepKeepsPublished
  <2>2. CASE HandOver(t)
    <3>1. Handed
      BY <2>2, HandOverKeeps
    <3>2. purged' = purged
      BY <2>2 DEF HandOver, handleVars
    <3>3. ~purged
      BY <2>2 DEF HandOver, At, FInv, DInv, Quiet
    <3>4. CASE delivered' = delivered
      BY <1>1, <2>1, <3>2, <3>4
    <3>5. CASE /\ delivered' = Append(delivered, Len(delivered) + 1)
               /\ Len(delivered) < published
      BY <2>1, <3>2, <3>3, <3>5 DEF Stream!Deliver
    <3>6. QED BY <3>1, <3>4, <3>5 DEF Handed
  <2>3. CASE Purge(t)
    <3>1. purged' = TRUE /\ delivered' = delivered
      BY <2>3 DEF Purge
    <3>2. CASE purged
      <4>1. (~purged') = (~purged)
        BY <3>1, <3>2
      <4>2. QED BY <2>1, <3>1, <4>1
    <3>3. CASE ~purged
      BY <2>1, <3>1, <3>3 DEF Stream!Close
    <3>4. QED BY <3>2, <3>3
  <2>4. CASE ~HandOver(t) /\ ~Purge(t)
    BY <1>1, <1>2, <2>1, <2>4, StepKeepsOpen
  <2>5. QED BY <2>2, <2>3, <2>4
<1>3. CASE Calls
  <2>1. ASSUME NEW t, NEW timed, SendRecv(t, timed) PROVE UNCHANGED <<published, delivered>>
    BY <2>1 DEF SendRecv, serverVars
  <2>2. ASSUME NEW t, NEW timed, Recv(t, timed) PROVE UNCHANGED <<published, delivered>>
    BY <2>2 DEF Recv, serverVars
  <2>3. ASSUME NEW t, Disconnect(t) PROVE UNCHANGED <<published, delivered>>
    BY <2>3 DEF Disconnect, Disconnects, serverVars
  <2>4. UNCHANGED <<published, delivered, purged>>
    BY <1>3, <2>1, <2>2, <2>3, OtherFrame DEF Calls
  <2>5. QED BY <1>1, <2>4
<1>4. CASE Publish
  BY <1>4 DEF Publish, handleVars, Stream!Publish
<1>5. CASE Answer \/ Hangup
  BY <1>1, <1>5 DEF Answer, Hangup, handleVars
<1>6. CASE UNCHANGED vars
  BY <1>1, <1>6 DEF vars, handleVars, serverVars
<1>7. QED
  BY <1>2, <1>3, <1>4, <1>5, <1>6 DEF Next, Server

\* The handle implements the stream of events: every step of any number of
\* threads, of the server and of the network publishes an event, hands over the
\* next one, closes the stream or leaves it alone.  It holds beyond the loss of
\* the connection, where EventsConserved says nothing: what is handed over is a
\* gapless beginning of what was published to the end.
THEOREM HandleIsStream ==
  Spec => EventRefinement
<1>1. Init => Stream!StreamInit
  BY StreamStart
<1>2. FInv /\ [Next]_vars => [Stream!StreamNext]_(Stream!streamVars)
  BY StreamStep
<1>3. QED
  BY <1>1, <1>2, InitFInv, NextKeepsFInv, PTL DEF Spec, EventRefinement, Stream!StreamSpec

-----------------------------------------------------------------------------
(* The reply to a command, for a program of one thread without time limits.  *)
(* At most one reply is owed at a time: the one to the command that waits,   *)
(* as a command for the server, under way, in the buffer, in the hand of the *)
(* thread or saved.                                                          *)

\* The replies among the chunks of w.
Replies(w) == {i \in DOMAIN w : w[i].part = "header" /\ w[i].kind = "reply"}
OneReply(w, c) == \E k \in DOMAIN w : Replies(w) = {k} /\ w[k].id = c

\* Nothing is owed; the reply to c is owed and has not been read.
Clear == commands = <<>> /\ Replies(packet_buf) = {} /\ Replies(transit) = {}
Due(c) ==
  \/ commands = <<c>> /\ Replies(packet_buf) = {} /\ Replies(transit) = {}
  \/ commands = <<>> /\ OneReply(packet_buf, c) /\ Replies(transit) = {}
  \/ commands = <<>> /\ Replies(packet_buf) = {} /\ OneReply(transit, c)

\* The command c has met the message m.
Met(m, c) == IF IsReply(m) THEN m = Reply(c) /\ Clear ELSE Due(c)

\* What is owed to a thread at label p in call c, with r in its hand, m saved.
Owed(p, c, r, m) ==
  /\ \/ p \in {"idle", "sr_lock"}
     \/ c.op = "recv" /\ p \in {"re_enter", "re_lock", "re_loop", "re_body", "re_parse"}
     => Clear
  /\ c.op = "send_recv" =>
       /\ p \in {"sr_recv", "sr_relock", "re_enter", "re_lock", "re_loop", "re_body"}
            => Due(c.cmd)
       /\ p = "re_parse" => Met(r, c.cmd)
       /\ p = "sr_check" => m # None /\ Met(m, c.cmd)

\* The one thread: where it can be, when its connection is up, and what it is owed.
Alive(t) ==
  /\ ~call[t].timed /\ ~call[t].tried
  /\ pc[t] \notin {"rt_enter", "rt_queue", "rt_poll", "rt_trylock", "rt_unlock"}
  /\ call[t].op # "disconnect" => sock
  /\ pc[t] \in {"re_loop", "re_body", "re_parse"} => connected
  /\ pc[t] = "sr_check" => IF status[t] = "success" THEN connected ELSE ~connected
  /\ connected => Owed(pc[t], call[t], revent[t], last_sr_event)
  /\ call[t].op # "none" => returned[t] = 0
  /\ call[t].op # "send_recv" => call[t].cmd = 0

OInv == FInv /\ DOMAIN returned = Thread /\ OwnReply /\ \A t \in Thread : Alive(t)

LEMMA RepliesTail ==
  ASSUME NEW w \in Seq(Chunk), w # <<>>
  PROVE  /\ Replies(w) = {} => Replies(Tail(w)) = {}
         /\ \A c : OneReply(w, c) =>
              IF Head(w).part = "header" /\ Head(w).kind = "reply"
              THEN Head(w).id = c /\ Replies(Tail(w)) = {}
              ELSE OneReply(Tail(w), c)
<1> DEFINE v == Tail(w)
<1>1. Len(w) \in Nat /\ Len(w) >= 1 /\ v \in Seq(Chunk) /\ Head(w) = w[1]
      /\ Len(v) = Len(w) - 1 /\ \A i \in 1 .. Len(v) : v[i] = w[i + 1]
  OBVIOUS
<1> HIDE DEF v
<1>2. ASSUME NEW i \in DOMAIN v
      PROVE  i \in Nat /\ 1 <= i /\ i + 1 \in DOMAIN w /\ v[i] = w[i + 1]
  BY <1>1
<1>3. ASSUME NEW i \in DOMAIN w, i # 1
      PROVE  i - 1 \in DOMAIN v /\ v[i - 1] = w[i]
  <2>1. i \in 1 .. Len(w)
    BY <1>1
  <2>2. i - 1 \in 1 .. Len(v) /\ (i - 1) + 1 = i
    BY <1>1, <1>3, <2>1
  <2>3. v[i - 1] = w[(i - 1) + 1]
    BY <1>1, <2>2
  <2> QED BY <1>1, <2>2, <2>3
<1>4. ASSUME NEW i \in Replies(v)
      PROVE  i + 1 \in Replies(w) /\ i + 1 # 1
  <2>1. i \in DOMAIN v /\ v[i].part = "header" /\ v[i].kind = "reply"
    BY DEF Replies
  <2>2. i \in Nat /\ 1 <= i /\ i + 1 \in DOMAIN w /\ w[i + 1] = v[i]
    BY <1>2, <2>1
  <2>3. i + 1 \in Replies(w)
    BY <2>1, <2>2 DEF Replies
  <2> QED BY <2>2, <2>3
<1>5. ASSUME NEW c, OneReply(w, c)
      PROVE  IF Head(w).part = "header" /\ Head(w).kind = "reply"
             THEN Head(w).id = c /\ Replies(v) = {} ELSE OneReply(v, c)
  <2>1. PICK k \in DOMAIN w : Replies(w) = {k} /\ w[k].id = c
    BY <1>5 DEF OneReply
  <2>2. CASE k = 1
    <3>1. Replies(v) = {}
      BY <1>4, <2>1, <2>2
    <3>2. w[1].part = "header" /\ w[1].kind = "reply"
      BY <2>1, <2>2 DEF Replies
    <3> QED BY <1>1, <2>1, <2>2, <3>1, <3>2
  <2>3. CASE k # 1
    <3>1. ~(w[1].part = "header" /\ w[1].kind = "reply")
      BY <1>1, <2>1, <2>3 DEF Replies
    <3>2. k - 1 \in DOMAIN v /\ v[k - 1] = w[k] /\ k \in Nat
      BY <1>1, <1>3, <2>3
    <3>3. Replies(v) = {k - 1}
      <4>1. k - 1 \in Replies(v)
        BY <2>1, <3>2 DEF Replies
      <4>2. ASSUME NEW i \in Replies(v) PROVE i = k - 1
        <5>1. i \in DOMAIN v
          BY DEF Replies
        <5>2. i + 1 \in Replies(w) /\ i \in Nat
          BY <1>2, <1>4, <5>1
        <5> QED BY <2>1, <3>2, <5>2
      <4> QED BY <4>1, <4>2
    <3>4. OneReply(v, c)
      BY <2>1, <3>2, <3>3 DEF OneReply
    <3> QED BY <1>1, <3>1, <3>4
  <2> QED BY <2>2, <2>3
<1> QED BY <1>4, <1>5 DEF v

\* The words w cut into p and q.
Cut(w, p, q) ==
  \E n \in 1 .. Len(w) : p = SubSeq(w, 1, n) /\ q = SubSeq(w, n + 1, Len(w))

LEMMA RepliesCut ==
  ASSUME NEW w \in Seq(Chunk), NEW p \in Seq(Chunk), NEW q \in Seq(Chunk), Cut(w, p, q)
  PROVE  /\ Replies(w) = {} => Replies(p) = {} /\ Replies(q) = {}
         /\ \A c : OneReply(w, c) => \/ OneReply(p, c) /\ Replies(q) = {}
                                     \/ Replies(p) = {} /\ OneReply(q, c)
<1>0. PICK n \in 1 .. Len(w) : p = SubSeq(w, 1, n) /\ q = SubSeq(w, n + 1, Len(w))
  BY DEF Cut
<1>1. Len(w) \in Nat /\ n \in Nat /\ n <= Len(w) /\ DOMAIN w = 1 .. Len(w)
  OBVIOUS
<1>2. DOMAIN p = 1 .. n /\ \A i \in 1 .. n : p[i] = w[i]
  BY <1>0, <1>1
<1>3. DOMAIN q = 1 .. (Len(w) - n) /\ \A i \in 1 .. (Len(w) - n) : q[i] = w[i + n]
  BY <1>0, <1>1
<1>4. Replies(p) = {i \in Replies(w) : i <= n}
  BY <1>1, <1>2 DEF Replies
<1>5. ASSUME NEW i \in Replies(q) PROVE i + n \in Replies(w) /\ i \in 1 .. (Len(w) - n)
  BY <1>1, <1>3 DEF Replies
<1>6. Replies(w) = {} => Replies(p) = {} /\ Replies(q) = {}
  BY <1>4, <1>5
<1>7. ASSUME NEW c, OneReply(w, c)
      PROVE  \/ OneReply(p, c) /\ Replies(q) = {}
             \/ Replies(p) = {} /\ OneReply(q, c)
  <2>1. PICK k \in DOMAIN w : Replies(w) = {k} /\ w[k].id = c
    BY <1>7 DEF OneReply
  <2>2. CASE k <= n
    <3>1. Replies(p) = {k} /\ k \in DOMAIN p /\ p[k] = w[k]
      BY <1>1, <1>2, <1>4, <2>1, <2>2
    <3>2. Replies(q) = {}
      BY <1>1, <1>5, <2>1, <2>2
    <3> QED BY <2>1, <3>1, <3>2 DEF OneReply
  <2>3. CASE k > n
    <3>1. k - n \in DOMAIN q /\ k - n + n = k /\ q[k - n] = w[k]
      <4>1. k \in 1 .. Len(w)
        BY <1>1
      <4>2. k - n \in 1 .. (Len(w) - n) /\ k - n + n = k
        BY <1>1, <2>3, <4>1
      <4>3. q[k - n] = w[k - n + n]
        BY <1>3, <4>2
      <4> QED BY <1>3, <4>2, <4>3
    <3>2. Replies(p) = {}
      BY <1>1, <1>4, <2>1, <2>3
    <3>3. k - n \in Replies(q)
      BY <2>1, <3>1 DEF Replies
    <3>4. ASSUME NEW i \in Replies(q) PROVE i = k - n
      BY <1>1, <1>5, <2>1
    <3> QED BY <2>1, <3>1, <3>2, <3>3, <3>4 DEF OneReply
  <2> QED BY <1>1, <2>2, <2>3
<1> QED BY <1>6, <1>7

LEMMA RepliesSent ==
  ASSUME NEW w \in Seq(Chunk), NEW v \in Seq(Chunk)
  PROVE  /\ Replies(v) = {} => Replies(w \o v) = Replies(w)
         /\ Replies(v) = {} => \A c : OneReply(w, c) => OneReply(w \o v, c)
         /\ \A c \in Nat : v = <<Reply(c)>> /\ Replies(w) = {} => OneReply(w \o v, c)
<1> DEFINE u == w \o v
<1>1. /\ Len(w) \in Nat /\ Len(v) \in Nat
      /\ DOMAIN w = 1 .. Len(w) /\ DOMAIN v = 1 .. Len(v) /\ DOMAIN u = 1 .. (Len(w) + Len(v))
      /\ \A i \in 1 .. Len(w) : u[i] = w[i]
      /\ \A i \in 1 .. Len(v) : u[i + Len(w)] = v[i]
  OBVIOUS
<1> HIDE DEF u
<1>2. ASSUME NEW i \in DOMAIN u
      PROVE  i \in DOMAIN w \/ (i - Len(w) \in DOMAIN v /\ i = i - Len(w) + Len(w))
  BY <1>1
<1>3. ASSUME Replies(v) = {} PROVE Replies(u) = Replies(w)
  <2>1. ASSUME NEW i \in Replies(u) PROVE i \in Replies(w)
    <3>1. i \in DOMAIN u
      BY DEF Replies
    <3>2. CASE i \in DOMAIN w
      BY <1>1, <3>2 DEF Replies
    <3>3. CASE i - Len(w) \in DOMAIN v /\ i = i - Len(w) + Len(w)
      <4>1. u[i] = v[i - Len(w)]
        BY <1>1, <3>3
      <4> QED BY <1>3, <3>3, <4>1 DEF Replies
    <3> QED BY <1>2, <3>1, <3>2, <3>3
  <2>2. ASSUME NEW i \in Replies(w) PROVE i \in Replies(u)
    BY <1>1 DEF Replies
  <2> QED BY <2>1, <2>2
<1>4. ASSUME Replies(v) = {}, NEW c, OneReply(w, c) PROVE OneReply(u, c)
  <2>1. PICK k \in DOMAIN w : Replies(w) = {k} /\ w[k].id = c
    BY <1>4 DEF OneReply
  <2>2. Replies(u) = {k} /\ k \in DOMAIN u /\ u[k] = w[k]
    BY <1>1, <1>3, <1>4, <2>1
  <2> QED BY <2>1, <2>2 DEF OneReply
<1>5. ASSUME NEW c \in Nat, v = <<Reply(c)>>, Replies(w) = {} PROVE OneReply(u, c)
  <2> DEFINE k == Len(w) + 1
  <2>1. Len(v) = 1 /\ v[1] = Reply(c)
    BY <1>5
  <2>2. k \in DOMAIN u /\ u[k] = Reply(c)
    <3>1. 1 \in 1 .. Len(v) /\ 1 + Len(w) = k
      BY <1>1, <2>1
    <3>2. u[k] = v[1]
      BY <1>1, <3>1
    <3> QED BY <1>1, <2>1, <3>2
  <2>3. ASSUME NEW i \in Replies(u) PROVE i = k
    <3>1. i \in DOMAIN u
      BY DEF Replies
    <3>2. i \notin DOMAIN w
      BY <1>1, <1>5 DEF Replies
    <3> QED BY <1>1, <2>1, <3>1, <3>2
  <2>4. k \in Replies(u)
    BY <2>2 DEF Replies, Reply, Header
  <2>5. u[k].id = c
    BY <2>2 DEF Reply, Header
  <2> QED BY <2>2, <2>3, <2>4, <2>5 DEF OneReply
<1> QED BY <1>3, <1>4, <1>5 DEF u

\* The program has one thread, and sets no time limits.
Single(t) == Thread = {t} /\ Timed = {FALSE}

\* What the proofs about one thread start from.
LEMMA OwnFacts ==
  ASSUME NEW t \in Thread, OInv
  PROVE  /\ pc \in [Thread -> Label] /\ call \in [Thread -> Call]
         /\ status \in [Thread -> Status] /\ revent \in [Thread -> Message \cup {None}]
         /\ last_sr_event \in Message \cup {None}
         /\ packet_buf \in Seq(Chunk) /\ transit \in Seq(Chunk) /\ commands \in Seq(Nat)
         /\ Fits(pc[t], call[t]) /\ Alive(t) /\ HoldsAt(t) /\ DOMAIN returned = Thread
BY DEF OInv, FInv, DInv, IInv, Typed, Stored, Holding

\* A step inside a call.
LEMMA ContinueOwn ==
  ASSUME NEW t \in Thread, OInv, Single(t), NEW label, Continue(t, label),
         call[t].op # "none"
  PROVE  /\ OwnReply' /\ DOMAIN returned' = Thread
         /\ pc'[t] = label /\ call'[t] = call[t] /\ status'[t] = status[t]
         /\ returned'[t] = 0
<1>1. /\ pc'[t] = label /\ call'[t] = call[t] /\ status'[t] = status[t]
      /\ DOMAIN returned' = Thread /\ returned'[t] = 0
  BY OwnFacts DEF Continue, Goto, Alive
<1>2. \A u \in Thread : returned'[u] = 0
  BY <1>1 DEF Single
<1> QED BY <1>1, <1>2 DEF OwnReply

\* The end of a call.
LEMMA FinishOwn ==
  ASSUME NEW t \in Thread, OInv, Single(t), NEW s, Finish(t, s),
         call[t].op = "send_recv" /\ s = "success" =>
           last_sr_event' = Reply(call[t].cmd)
  PROVE  /\ OwnReply' /\ DOMAIN returned' = Thread
         /\ pc'[t] = "idle" /\ call'[t] = NoCall
<1>1. /\ pc'[t] = "idle" /\ call'[t] = NoCall /\ DOMAIN returned' = Thread
      /\ returned'[t] = IF s = "success" THEN call[t].cmd ELSE 0
  BY OwnFacts DEF Finish, Goto
<1>2. call[t].op # "send_recv" => call[t].cmd = 0
  BY OwnFacts DEF Alive
<1>3. returned'[t] # 0 => last_sr_event' = Reply(returned'[t])
  BY <1>1, <1>2
<1>4. OwnReply'
  BY <1>3 DEF OwnReply, Single
<1> QED BY <1>1, <1>4

\* A call that ends leaves the thread with what is owed to an idle one.
LEMMA IdleAlive ==
  ASSUME NEW t \in Thread, pc'[t] = "idle", call'[t] = NoCall, sock', connected' => Clear'
  PROVE  Alive(t)'
BY DEF Alive, Owed, NoCall

LEMMA SendRecvOwn ==
  ASSUME NEW t \in Thread, OInv, Single(t),
         \/ Send(t) \/ SendFails(t) \/ AwaitReply(t) \/ Overtaken(t)
         \/ SendRecvReturns(t) \/ Relock(t) \/ RelockFails(t)
  PROVE  Alive(t)' /\ OwnReply' /\ DOMAIN returned' = Thread
<1>1. /\ Fits(pc[t], call[t]) /\ Alive(t) /\ call[t].cmd \in Nat
  BY OwnFacts DEF Call
<1>2. call[t].op = "send_recv" /\ sock
  BY <1>1 DEF Send, SendFails, AwaitReply, Overtaken, SendRecvReturns, Relock, RelockFails,
              At, Fits, Alive
<1>3. CASE Send(t)
  <2>1. Continue(t, "sr_recv") /\ pc[t] = "sr_lock" /\ Up /\ sock' = sock
    BY <1>3 DEF Send, At
  <2>2. OwnReply' /\ DOMAIN returned' = Thread
    BY <1>2, <2>1, ContinueOwn
  <2>3. /\ pc'[t] = "sr_recv" /\ call'[t] = call[t] /\ returned'[t] = 0
    BY <1>2, <2>1, ContinueOwn
  <2>4. Clear
    BY <1>1, <2>1 DEF Alive, Owed, Up
  <2>5. commands' = <<call[t].cmd>>
    BY <1>1, <1>3, <2>4 DEF Send, Clear
  <2>6. Due(call[t].cmd)'
    BY <1>3, <2>3, <2>4, <2>5 DEF Send, Clear, Due
  <2> QED BY <1>1, <1>2, <2>1, <2>2, <2>3, <2>6 DEF Alive, Owed
<1>4. CASE SendFails(t)
  <2>1. Finish(t, "fail") /\ sock' = sock /\ ~connected'
    BY <1>4 DEF SendFails
  <2> QED BY <1>2, <2>1, FinishOwn, IdleAlive
<1>5. CASE AwaitReply(t)
  <2>1. Continue(t, "re_enter") /\ pc[t] = "sr_recv" /\ sock' = sock
        /\ connected' = connected
    BY <1>1, <1>5 DEF AwaitReply, At, Alive
  <2>2. /\ OwnReply' /\ DOMAIN returned' = Thread
        /\ pc'[t] = "re_enter" /\ call'[t] = call[t] /\ returned'[t] = 0
    BY <1>2, <2>1, ContinueOwn
  <2>3. connected => Due(call[t].cmd)
    BY <1>1, <1>2, <2>1 DEF Alive, Owed
  <2>4. Due(call[t].cmd)' <=> Due(call[t].cmd)
    BY <1>5, <2>2 DEF AwaitReply, Due, serverVars
  <2> QED BY <1>1, <1>2, <2>1, <2>2, <2>3, <2>4 DEF Alive, Owed
<1>6. CASE Overtaken(t)
  <2>1. Continue(t, "sr_relock") /\ pc[t] = "sr_check" /\ sock' = sock
        /\ connected' = connected /\ ~IsReply(last_sr_event)
    BY <1>6 DEF Overtaken, At
  <2>2. /\ OwnReply' /\ DOMAIN returned' = Thread
        /\ pc'[t] = "sr_relock" /\ call'[t] = call[t] /\ returned'[t] = 0
    BY <1>2, <2>1, ContinueOwn
  <2>3. connected => Due(call[t].cmd)
    BY <1>1, <1>2, <2>1 DEF Alive, Owed, Met
  <2>4. Due(call[t].cmd)' <=> Due(call[t].cmd)
    BY <1>6, <2>2 DEF Overtaken, Due, serverVars
  <2> QED BY <1>1, <1>2, <2>1, <2>2, <2>3, <2>4 DEF Alive, Owed
<1>7. CASE SendRecvReturns(t)
  <2>1. /\ Finish(t, status[t]) /\ pc[t] = "sr_check" /\ sock' = sock
        /\ connected' = connected /\ last_sr_event' = last_sr_event
        /\ last_sr_event = None \/ IsReply(last_sr_event)
    BY <1>7 DEF SendRecvReturns, At, handleVars
  <2>2. connected => last_sr_event = Reply(call[t].cmd) /\ Clear
    BY <1>1, <1>2, <2>1 DEF Alive, Owed, Met
  <2>3. Clear' <=> Clear
    BY <1>7 DEF SendRecvReturns, Clear, handleVars, serverVars
  <2>4. status[t] = "success" => connected
    BY <1>1, <2>1 DEF Alive
  <2>5. status[t] = "success" => last_sr_event' = Reply(call[t].cmd)
    BY <2>1, <2>2, <2>4
  <2>6. OwnReply' /\ DOMAIN returned' = Thread /\ pc'[t] = "idle" /\ call'[t] = NoCall
    BY <2>1, <2>5, FinishOwn
  <2> QED BY <1>2, <2>1, <2>2, <2>3, <2>6, IdleAlive
<1>8. CASE Relock(t)
  <2>1. Continue(t, "sr_recv") /\ pc[t] = "sr_relock" /\ sock' = sock
        /\ connected' = connected
    BY <1>8 DEF Relock, At, handleVars
  <2>2. /\ OwnReply' /\ DOMAIN returned' = Thread
        /\ pc'[t] = "sr_recv" /\ call'[t] = call[t] /\ returned'[t] = 0
    BY <1>2, <2>1, ContinueOwn
  <2>3. connected => Due(call[t].cmd)
    BY <1>1, <1>2, <2>1 DEF Alive, Owed
  <2>4. Due(call[t].cmd)' <=> Due(call[t].cmd)
    BY <1>8, <2>2 DEF Relock, Due, serverVars, handleVars
  <2> QED BY <1>1, <1>2, <2>1, <2>2, <2>3, <2>4 DEF Alive, Owed
<1>9. CASE RelockFails(t)
  <2>1. Finish(t, "fail") /\ sock' = sock /\ ~connected'
    BY <1>9 DEF RelockFails
  <2> QED BY <1>2, <2>1, FinishOwn, IdleAlive
<1> QED BY <1>3, <1>4, <1>5, <1>6, <1>7, <1>8, <1>9

\* esl_recv_event returns, to the program or to esl_send_recv_timed.
LEMMA EventReturnOwn ==
  ASSUME NEW t \in Thread, OInv, Single(t), NEW s, EventReturn(t, s)
  PROVE  /\ OwnReply' /\ DOMAIN returned' = Thread
         /\ \/ /\ call[t].op = "recv"
               /\ pc'[t] = "idle" /\ call'[t] = NoCall
            \/ /\ call[t].op = "send_recv"
               /\ pc'[t] = "sr_check" /\ call'[t] = call[t] /\ status'[t] = s
               /\ returned'[t] = 0
<1>1. TimedReturn(t, s)
  BY OwnFacts DEF EventReturn, Alive
<1>2. CASE call[t].op = "recv"
  <2>1. Finish(t, s)
    BY <1>1, <1>2 DEF TimedReturn
  <2> QED BY <1>2, <2>1, FinishOwn
<1>3. CASE call[t].op = "send_recv"
  <2>1. /\ pc'[t] = "sr_check" /\ status'[t] = s /\ returned' = returned
        /\ call' = [call EXCEPT ![t].tried = FALSE]
    BY <1>1, <1>3, OwnFacts DEF TimedReturn, Goto
  <2>2. call'[t] = call[t]
    <3>1. call[t] \in Call /\ call[t].tried = FALSE /\ t \in DOMAIN call
      <4>1. call \in [Thread -> Call] /\ ~call[t].tried
        BY OwnFacts DEF Alive
      <4>2. call[t] \in Call
        BY <4>1
      <4>3. call[t].tried \in BOOLEAN
        BY <4>2 DEF Call
      <4> QED BY <4>1, <4>2, <4>3
    <3>2. call'[t] = [call[t] EXCEPT !.tried = FALSE]
      BY <2>1, <3>1
    <3>3. [call[t] EXCEPT !.tried = FALSE] = call[t]
      BY <3>1 DEF Call
    <3> QED BY <3>2, <3>3
  <2>3. DOMAIN returned' = Thread /\ \A u \in Thread : returned'[u] = 0
    BY <1>3, <2>1, OwnFacts DEF Alive, Single
  <2> QED BY <1>3, <2>1, <2>2, <2>3 DEF OwnReply
<1> QED BY <1>1, <1>2, <1>3 DEF TimedReturn

\* What is owed does not change while the wire does not.
LEMMA OwedSame ==
  ASSUME UNCHANGED <<commands, packet_buf, transit>>
  PROVE  /\ Clear' <=> Clear
         /\ \A c : Due(c)' <=> Due(c)
BY DEF Clear, Due

\* A step inside esl_recv_event that leaves wire and connection alone.
LEMMA QuietOwn ==
  ASSUME NEW t \in Thread, OInv, Single(t), NEW label, Continue(t, label),
         call[t].op # "none",
         UNCHANGED <<commands, packet_buf, transit, connected, sock>>,
         \/ /\ label \in {"re_enter", "re_lock", "re_loop"}
            /\ pc[t] \in {"re_enter", "re_lock", "re_loop"}
            /\ label = "re_loop" => connected
         \/ label \in {"re_fail", "re_dead", "crashed"}
  PROVE  Alive(t)' /\ OwnReply' /\ DOMAIN returned' = Thread
<1>1. /\ OwnReply' /\ DOMAIN returned' = Thread
      /\ pc'[t] = label /\ call'[t] = call[t] /\ returned'[t] = 0
  BY ContinueOwn
<1>2. Alive(t)
  BY OwnFacts
<1>3. Clear' <=> Clear
  BY OwedSame
<1>4. Due(call[t].cmd)' <=> Due(call[t].cmd)
  BY <1>1, OwedSame DEF Due
<1> QED BY <1>1, <1>2, <1>3, <1>4 DEF Alive, Owed

LEMMA EventReceiveOwn ==
  ASSUME NEW t \in Thread, OInv, Single(t),
         \/ EventEnter(t) \/ EventLock(t) \/ ReceiveFails(t) \/ FailUnlock(t)
         \/ MarkDead(t) \/ Crash(t)
  PROVE  Alive(t)' /\ OwnReply' /\ DOMAIN returned' = Thread
<1>1. Fits(pc[t], call[t]) /\ Alive(t) /\ HoldsAt(t) /\ pc[t] \in Label
  BY OwnFacts
<1>2. CASE EventEnter(t)
  <2>1. /\ call[t].op \in {"send_recv", "recv"} /\ pc[t] = "re_enter"
        /\ UNCHANGED <<commands, packet_buf, transit, connected, sock>>
    BY <1>1, <1>2 DEF EventEnter, At, Fits, handleVars, serverVars
  <2>2. CASE Up /\ Continue(t, "re_lock")
    BY <2>1, <2>2, QuietOwn
  <2>3. CASE ~Up /\ EventReturn(t, "fail")
    <3>1. sock' /\ ~connected'
      BY <1>1, <2>1, <2>3 DEF Up, Alive
    <3>2. /\ OwnReply' /\ DOMAIN returned' = Thread
          /\ \/ pc'[t] = "idle" /\ call'[t] = NoCall
             \/ /\ pc'[t] = "sr_check" /\ call'[t] = call[t] /\ status'[t] = "fail"
                /\ returned'[t] = 0
      BY <2>3, EventReturnOwn
    <3> QED BY <1>1, <3>1, <3>2, IdleAlive DEF Alive
  <2> QED BY <1>2, <2>2, <2>3 DEF EventEnter
<1>3. CASE EventLock(t)
  <2>1. /\ call[t].op \in {"send_recv", "recv"} /\ pc[t] = "re_lock"
        /\ UNCHANGED <<commands, packet_buf, transit, connected, sock>>
    BY <1>1, <1>3 DEF EventLock, At, Fits, serverVars
  <2>2. CASE ~Up /\ Continue(t, "re_fail")
    BY <2>1, <2>2, QuietOwn
  <2>3. CASE Up /\ Continue(t, "re_loop")
    BY <2>1, <2>3, QuietOwn DEF Up
  <2>4. CASE Up /\ ChecksQueue(t) /\ Continue(t, "re_parse")
    <3>1. /\ OwnReply' /\ DOMAIN returned' = Thread
          /\ pc'[t] = "re_parse" /\ call'[t] = call[t] /\ returned'[t] = 0
      BY <2>1, <2>4, ContinueOwn
    <3>2. Clear' <=> Clear
      BY <2>1, OwedSame
    <3>3. call[t].op = "recv" /\ connected
      BY <2>4 DEF ChecksQueue, Up
    <3> QED BY <1>1, <2>1, <3>1, <3>2, <3>3 DEF Alive, Owed
  <2> QED BY <1>3, <2>2, <2>3, <2>4 DEF EventLock
<1>4. CASE ReceiveFails(t)
  <2>1. /\ call[t].op \in {"send_recv", "recv"} /\ Continue(t, "re_fail")
        /\ UNCHANGED <<commands, packet_buf, transit, connected, sock>>
    BY <1>1, <1>4 DEF ReceiveFails, Reading, Fits, handleVars, serverVars
  <2> QED BY <2>1, QuietOwn
<1>5. CASE FailUnlock(t)
  <2>1. /\ call[t].op \in {"send_recv", "recv"} /\ Continue(t, "re_dead")
        /\ UNCHANGED <<commands, packet_buf, transit, connected, sock>>
    BY <1>1, <1>5 DEF FailUnlock, At, Fits, handleVars, serverVars
  <2> QED BY <2>1, QuietOwn
<1>6. CASE MarkDead(t)
  <2>1. call[t].op \in {"send_recv", "recv"} /\ ~connected' /\ sock' = sock
        /\ EventReturn(t, "fail")
    BY <1>1, <1>6 DEF MarkDead, At, Fits
  <2>2. /\ OwnReply' /\ DOMAIN returned' = Thread
        /\ \/ pc'[t] = "idle" /\ call'[t] = NoCall
           \/ /\ pc'[t] = "sr_check" /\ call'[t] = call[t] /\ status'[t] = "fail"
              /\ returned'[t] = 0
    BY <2>1, EventReturnOwn
  <2>3. sock'
    BY <1>1, <2>1 DEF Alive
  <2> QED BY <1>1, <2>1, <2>2, <2>3, IdleAlive DEF Alive
<1>7. CASE Crash(t)
  <2>1. /\ call[t].op # "none" /\ Continue(t, "crashed")
        /\ UNCHANGED <<commands, packet_buf, transit, connected, sock>>
    BY <1>1, <1>7 DEF Crash, AtMutex, At, Fits, handleVars, serverVars
  <2> QED BY <2>1, QuietOwn
<1> QED BY <1>2, <1>3, <1>4, <1>5, <1>6, <1>7

\* Reading a header takes the reply off the wire, or leaves it there.
LEMMA ReadHeaderOwn ==
  ASSUME NEW t \in Thread, OInv, Single(t), ReadHeader(t)
  PROVE  Alive(t)' /\ OwnReply' /\ DOMAIN returned' = Thread
<1> DEFINE h == Head(packet_buf)
           c == call[t].cmd
<1>1. /\ Fits(pc[t], call[t]) /\ Alive(t) /\ HoldsAt(t)
      /\ packet_buf \in Seq(Chunk) /\ packet_buf # <<>> /\ pc[t] = "re_loop" /\ connected
      /\ revent \in [Thread -> Message \cup {None}]
  BY OwnFacts DEF ReadHeader, At
<1>2. /\ packet_buf' = Tail(packet_buf) /\ revent'[t] = h
      /\ UNCHANGED <<commands, transit, connected, sock>>
      /\ Continue(t, IF HasBody(h) THEN "re_body" ELSE "re_parse")
  BY <1>1 DEF ReadHeader, serverVars
<1>3. h \in Chunk
  BY <1>1
<1>4. h.part = "header"
  <2>1. ~ReadingBody
    BY <1>1 DEF ReadingBody, Single
  <2>2. Framed(packet_buf, FALSE)
    <3>1. Framed(packet_buf, ReadingBody) /\ ReadingBody \in BOOLEAN
      BY DEF OInv, FInv, Framing, ReadingBody
    <3>2. ReadingBody = FALSE
      BY <2>1, <3>1
    <3> QED BY <3>1, <3>2
  <2>3. 1 \in DOMAIN packet_buf /\ h = packet_buf[1]
    BY <1>1
  <2>4. packet_buf[1].part # "body"
    BY <2>2, <2>3 DEF Framed
  <2> QED BY <1>3, <2>3, <2>4 DEF Chunk
<1>5. call[t].op \in {"send_recv", "recv"}
  BY <1>1 DEF Fits
<1>6. /\ OwnReply' /\ DOMAIN returned' = Thread /\ call'[t] = call[t]
      /\ pc'[t] = IF HasBody(h) THEN "re_body" ELSE "re_parse"
      /\ returned'[t] = 0
  BY <1>2, <1>5, ContinueOwn
<1>7. /\ Replies(packet_buf) = {} => Replies(Tail(packet_buf)) = {}
      /\ \A d : OneReply(packet_buf, d) =>
           IF h.part = "header" /\ h.kind = "reply"
           THEN h.id = d /\ Replies(Tail(packet_buf)) = {}
           ELSE OneReply(Tail(packet_buf), d)
  BY <1>1, RepliesTail
<1> HIDE DEF h
<1>8. CASE call[t].op = "recv"
  <2>1. Clear'
    BY <1>1, <1>2, <1>7, <1>8 DEF Alive, Owed, Clear
  <2> QED BY <1>1, <1>2, <1>6, <1>8, <2>1 DEF Alive, Owed
<1>9. CASE call[t].op = "send_recv"
  <2>1. Due(c)
    BY <1>1, <1>9 DEF Alive, Owed
  <2>2. CASE h.kind = "reply"
    <3>1. h.part = "header" /\ h \in Chunk /\ ~HasBody(h)
      BY <1>3, <1>4, <2>2 DEF HasBody
    <3>2. Replies(packet_buf) # {}
      <4>1. 1 \in DOMAIN packet_buf /\ h = packet_buf[1]
        BY <1>1 DEF h
      <4> QED BY <2>2, <3>1, <4>1 DEF Replies
    <3>3. h.id = c /\ Clear'
      BY <1>2, <1>7, <2>1, <2>2, <3>1, <3>2 DEF Due, Clear
    <3>4. h = Reply(c)
      BY <2>2, <3>1, <3>3 DEF Chunk, Reply, Header
    <3>5. pc'[t] = "re_parse"
      BY <1>6, <3>1
    <3>6. Met(revent[t], call[t].cmd)'
      <4>1. revent'[t] = Reply(call'[t].cmd)
        BY <1>2, <1>6, <3>4
      <4>2. h # None
        <5>1. h \in Message
          BY <3>1 DEF Chunk, Message
        <5> QED BY <5>1, HandleAssumption
      <4>3. revent'[t] # None /\ revent'[t].kind = "reply"
        BY <1>2, <2>2, <4>2
      <4> QED BY <3>3, <4>1, <4>3 DEF Met, IsReply, Clear
    <3>7. Owed(pc[t], call[t], revent[t], last_sr_event)'
      BY <1>6, <1>9, <3>5, <3>6 DEF Owed
    <3> QED BY <1>1, <1>2, <1>6, <1>9, <3>5, <3>7 DEF Alive
  <2>3. CASE h.kind # "reply"
    <3>1. Due(c)'
      BY <1>2, <1>6, <1>7, <2>1, <2>3 DEF Due
    <3>2. ~IsReply(h)
      BY <2>3 DEF IsReply
    <3> QED BY <1>1, <1>2, <1>6, <1>9, <3>1, <3>2 DEF Alive, Owed, Met
  <2> QED BY <2>2, <2>3
<1> QED BY <1>5, <1>8, <1>9

\* What is read behind a header is no reply.
LEMMA ReadBodyOwn ==
  ASSUME NEW t \in Thread, OInv, Single(t), ReadBody(t)
  PROVE  Alive(t)' /\ OwnReply' /\ DOMAIN returned' = Thread
<1>1. /\ Fits(pc[t], call[t]) /\ Alive(t) /\ HoldsAt(t)
      /\ packet_buf \in Seq(Chunk) /\ packet_buf # <<>> /\ pc[t] = "re_body"
  BY OwnFacts DEF ReadBody, At
<1>2. /\ packet_buf' = Tail(packet_buf) /\ Continue(t, "re_parse")
      /\ UNCHANGED <<commands, transit, connected, sock, revent>>
  BY <1>1 DEF ReadBody, serverVars
<1>3. call[t].op \in {"send_recv", "recv"}
  BY <1>1 DEF Fits
<1>4. /\ OwnReply' /\ DOMAIN returned' = Thread /\ call'[t] = call[t]
      /\ pc'[t] = "re_parse" /\ returned'[t] = 0
  BY <1>2, <1>3, ContinueOwn
<1>5. Head(packet_buf).part = "body"
  <2>1. ReadingBody
    BY <1>1 DEF ReadingBody
  <2>2. Framed(packet_buf, TRUE)
    BY <2>1 DEF OInv, FInv, Framing
  <2>3. 1 \in DOMAIN packet_buf /\ Head(packet_buf) = packet_buf[1]
    BY <1>1
  <2> QED BY <2>2, <2>3 DEF Framed
<1>6. /\ Replies(packet_buf) = {} => Replies(Tail(packet_buf)) = {}
      /\ \A d : OneReply(packet_buf, d) => OneReply(Tail(packet_buf), d)
  BY <1>1, <1>5, RepliesTail
<1>7. Clear => Clear'
  BY <1>2, <1>6 DEF Clear
<1>8. Due(call[t].cmd) => Due(call[t].cmd)'
  BY <1>2, <1>4, <1>6 DEF Due
<1>9. ~IsReply(revent[t])
  BY <1>1 DEF HoldsAt, HasBody, IsReply
<1> QED BY <1>1, <1>2, <1>3, <1>4, <1>7, <1>8, <1>9 DEF Alive, Owed, Met

\* recv() takes a part of what is under way, cut anywhere.
LEMMA ReceiveOwn ==
  ASSUME NEW t \in Thread, OInv, Single(t), Receive(t)
  PROVE  Alive(t)' /\ OwnReply' /\ DOMAIN returned' = Thread
<1>1. /\ Alive(t) /\ transit \in Seq(Chunk) /\ packet_buf = <<>>
      /\ pc[t] \in {"re_loop", "re_body"} /\ DOMAIN returned = Thread
  BY OwnFacts DEF Receive, Reading
<1>2. PICK k \in 1 .. Len(transit) :
        packet_buf' = SubSeq(transit, 1, k) /\ transit' = SubSeq(transit, k + 1, Len(transit))
  BY DEF Receive
<1>3. UNCHANGED <<pc, call, status, revent, returned, connected, sock, commands, last_sr_event>>
  BY DEF Receive, threadVars
<1>4. packet_buf' \in Seq(Chunk) /\ transit' \in Seq(Chunk)
  BY <1>1, <1>2
<1>5. /\ Replies(transit) = {} => Replies(packet_buf') = {} /\ Replies(transit') = {}
      /\ \A c : OneReply(transit, c) => \/ OneReply(packet_buf', c) /\ Replies(transit') = {}
                                        \/ Replies(packet_buf') = {} /\ OneReply(transit', c)
  <2>1. Cut(transit, packet_buf', transit')
    BY <1>2 DEF Cut
  <2> QED BY <1>1, <1>4, <2>1, RepliesCut
<1>6. Clear => Clear'
  BY <1>3, <1>5 DEF Clear
<1>7. Due(call[t].cmd) => Due(call[t].cmd)'
  <2>1. ~OneReply(packet_buf, call[t].cmd)
    BY <1>1 DEF OneReply
  <2> QED BY <1>3, <1>5, <2>1 DEF Due
<1>8. OwnReply'
  BY <1>3 DEF OInv, OwnReply
<1> QED BY <1>1, <1>3, <1>6, <1>7, <1>8 DEF Alive, Owed

\* The message that was read is saved for the command, or handed over.
LEMMA ParseOwn ==
  ASSUME NEW t \in Thread, OInv, Single(t), Save(t) \/ HandOver(t)
  PROVE  Alive(t)' /\ OwnReply' /\ DOMAIN returned' = Thread
<1>1. /\ Fits(pc[t], call[t]) /\ Alive(t) /\ HoldsAt(t) /\ pc[t] = "re_parse"
      /\ connected /\ revent[t] # None
      /\ UNCHANGED <<commands, packet_buf, transit, connected, sock>>
  BY OwnFacts DEF Save, HandOver, At, Alive, HoldsAt, handleVars, serverVars
<1>2. call[t].op \in {"send_recv", "recv"} /\ sock
  BY <1>1 DEF Fits, Alive
<1>3. Clear' <=> Clear
  BY <1>1, OwedSame
<1>4. CASE Save(t)
  <2>1. call[t].op = "send_recv" /\ last_sr_event' = revent[t] /\ EventReturn(t, "success")
    BY <1>4 DEF Save, SavesEvent
  <2>2. /\ OwnReply' /\ DOMAIN returned' = Thread
        /\ pc'[t] = "sr_check" /\ call'[t] = call[t] /\ status'[t] = "success"
        /\ returned'[t] = 0
    BY <2>1, EventReturnOwn
  <2>3. Due(call[t].cmd)' <=> Due(call[t].cmd)
    BY <1>1, <2>2 DEF Due
  <2>4. Met(revent[t], call[t].cmd)
    BY <1>1, <2>1 DEF Alive, Owed
  <2>5. (Met(last_sr_event, call[t].cmd))'
    BY <1>3, <2>1, <2>2, <2>3, <2>4 DEF Met
  <2> QED BY <1>1, <1>2, <2>1, <2>2, <2>5 DEF Alive, Owed
<1>5. CASE HandOver(t) /\ Continue(t, "re_fail")
  BY <1>1, <1>2, <1>5, QuietOwn
<1>6. CASE HandOver(t) /\ EventReturn(t, "success")
  <2>1. call[t].op = "recv"
    BY <1>2, <1>6 DEF HandOver, SavesEvent
  <2>2. OwnReply' /\ DOMAIN returned' = Thread /\ pc'[t] = "idle" /\ call'[t] = NoCall
    BY <1>6, <2>1, EventReturnOwn
  <2>3. Clear
    BY <1>1, <2>1 DEF Alive, Owed
  <2> QED BY <1>1, <1>2, <1>3, <2>2, <2>3, IdleAlive
<1> QED BY <1>4, <1>5, <1>6 DEF HandOver

\* esl_disconnect.
LEMMA DisconnectOwn ==
  ASSUME NEW t \in Thread, OInv, Single(t),
         Purge(t) \/ Drain(t) \/ FreeMutex(t) \/ Wipe(t)
  PROVE  Alive(t)' /\ OwnReply' /\ DOMAIN returned' = Thread
<1>1. Fits(pc[t], call[t]) /\ Alive(t) /\ call[t].op = "disconnect"
  BY OwnFacts DEF Purge, Drain, FreeMutex, Wipe, At, Fits
<1>2. CASE Purge(t) \/ Drain(t) \/ FreeMutex(t)
  <2>1. PICK label \in Past : Continue(t, label)
    BY <1>2 DEF Purge, Drain, FreeMutex, Past
  <2>2. /\ OwnReply' /\ DOMAIN returned' = Thread /\ call'[t] = call[t]
        /\ pc'[t] = label /\ returned'[t] = 0
    BY <1>1, <2>1, ContinueOwn
  <2> QED BY <1>1, <2>2 DEF Alive, Owed, Past
<1>3. CASE Wipe(t)
  <2>1. Finish(t, status[t]) /\ ~connected' /\ sock'
    BY <1>3 DEF Wipe
  <2> QED BY <1>1, <2>1, FinishOwn, IdleAlive
<1> QED BY <1>2, <1>3

\* A call begins, or is refused.
LEMMA BeginOwn ==
  ASSUME NEW t \in Thread, OInv, Single(t),
         \/ \E timed \in Timed : SendRecv(t, timed) \/ Recv(t, timed)
         \/ Disconnect(t)
  PROVE  Alive(t)' /\ OwnReply' /\ DOMAIN returned' = Thread
<1>1. /\ Alive(t) /\ pc[t] = "idle" /\ Fits(pc[t], call[t])
      /\ UNCHANGED <<commands, packet_buf, transit, connected>>
  BY OwnFacts DEF SendRecv, Recv, Disconnect, Disconnects, At, handleVars, serverVars
<1>2. Clear' <=> Clear
  BY <1>1, OwedSame
<1>3. call[t].op = "none"
  BY <1>1 DEF Fits
<1>4. CASE \E timed \in Timed : SendRecv(t, timed) /\ ~Up
  <2>1. /\ UNCHANGED <<pc, call, status, revent, sock, last_sr_event>>
        /\ returned' = [returned EXCEPT ![t] = 0]
    BY <1>4 DEF SendRecv, handleVars
  <2>2. returned'[t] = 0 /\ DOMAIN returned' = Thread
    BY <2>1, OwnFacts
  <2> QED BY <1>1, <1>2, <1>3, <2>1, <2>2 DEF Alive, Owed, OwnReply, Single
<1>5. CASE ~\E timed \in Timed : SendRecv(t, timed) /\ ~Up
  <2>1. PICK op, cmd, label :
          /\ Begin(t, op, FALSE, cmd, label)
          /\ \/ op = "send_recv" /\ label = "sr_lock"
             \/ op = "recv" /\ label = "re_enter" /\ cmd = 0
             \/ op = "disconnect" /\ label = "dc_lock" /\ cmd = 0
          /\ op # "disconnect" => sock' = sock
    <3>1. CASE \E timed \in Timed : SendRecv(t, timed)
      BY <1>5, <3>1 DEF SendRecv, Single, handleVars
    <3>2. CASE \E timed \in Timed : Recv(t, timed)
      BY <3>2 DEF Recv, Single, handleVars
    <3>3. CASE Disconnect(t)
      BY <3>3 DEF Disconnect, Disconnects
    <3> QED BY <3>1, <3>2, <3>3
  <2> DEFINE c == [op |-> op, timed |-> FALSE, tried |-> FALSE, cmd |-> cmd, up |-> Up]
  <2>2. c.op = op /\ c.timed = FALSE /\ c.tried = FALSE /\ c.cmd = cmd
    OBVIOUS
  <2>3. /\ pc' = [pc EXCEPT ![t] = label] /\ call' = [call EXCEPT ![t] = c]
        /\ returned' = [returned EXCEPT ![t] = 0]
    BY <2>1 DEF Begin, Goto
  <2> HIDE DEF c
  <2>4. /\ pc'[t] = label /\ DOMAIN returned' = Thread /\ returned'[t] = 0
        /\ call'[t].op = op /\ ~call'[t].timed /\ ~call'[t].tried /\ call'[t].cmd = cmd
    BY <2>2, <2>3, OwnFacts
  <2>5. OwnReply'
    BY <2>4 DEF OwnReply, Single
  <2>6. connected' => Clear'
    BY <1>1, <1>2 DEF Alive, Owed
  <2>7. op # "disconnect" => sock'
    BY <1>1, <1>3, <2>1 DEF Alive
  <2>8. label \in {"sr_lock", "re_enter", "dc_lock"} /\ (label = "re_enter" => op = "recv")
    BY <2>1
  <2>9. (Owed(pc[t], call[t], revent[t], last_sr_event))' \/ ~connected'
    BY <2>4, <2>6, <2>8 DEF Owed
  <2>10. Alive(t)'
    BY <2>1, <2>4, <2>7, <2>8, <2>9 DEF Alive
  <2> QED BY <2>4, <2>5, <2>10
<1> QED BY <1>4, <1>5

\* The server answers what it was sent; an event or a notice is no reply.
LEMMA ServerOwn ==
  ASSUME NEW t \in Thread, OInv, Single(t), Server
  PROVE  Alive(t)' /\ OwnReply' /\ DOMAIN returned' = Thread
<1>1. UNCHANGED <<pc, call, status, revent, returned, connected, sock, packet_buf,
                  last_sr_event>>
  BY DEF Server, Publish, Answer, Hangup, threadVars, handleVars
<1>2. /\ Alive(t) /\ transit \in Seq(Chunk) /\ packet_buf \in Seq(Chunk)
      /\ commands \in Seq(Nat) /\ DOMAIN returned = Thread /\ published \in Nat
  BY OwnFacts DEF OInv, FInv, Stored
<1>3. OwnReply'
  BY <1>1 DEF OInv, OwnReply
<1>4. CASE Publish \/ Hangup
  <2>1. PICK v \in Seq(Chunk) : transit' = transit \o v /\ Replies(v) = {}
    <3>1. CASE Publish
      <4> DEFINE v == <<Event(published'), Body("event", published')>>
      <4>1. transit' = transit \o v /\ published' \in Nat
        BY <1>2, <3>1 DEF Publish, Sends
      <4>2. v \in Seq(Chunk)
        BY <4>1 DEF Chunk, Event, Header, Body
      <4>3. Replies(v) = {}
        BY DEF Replies, Event, Header, Body
      <4> QED BY <4>1, <4>2, <4>3
    <3>2. CASE Hangup
      <4> DEFINE v == <<Notice, Body("notice", 0)>>
      <4>1. transit' = transit \o <<>> \/ transit' = transit \o v
        BY <3>2 DEF Hangup, Sends
      <4>2. v \in Seq(Chunk)
        BY DEF Chunk, Notice, Header, Body
      <4>3. Replies(v) = {}
        BY DEF Replies, Notice, Header, Body
      <4>4. <<>> \in Seq(Chunk) /\ Replies(<<>>) = {}
        BY DEF Replies
      <4> QED BY <4>1, <4>2, <4>3, <4>4
    <3> QED BY <1>4, <3>1, <3>2
  <2>2. Replies(transit') = Replies(transit)
        /\ \A c : OneReply(transit, c) => OneReply(transit', c)
    BY <1>2, <2>1, RepliesSent
  <2>3. commands' = commands
    BY <1>4 DEF Publish, Hangup
  <2>4. Clear => Clear'
    BY <1>1, <2>2, <2>3 DEF Clear
  <2>5. \A c : Due(c) => /\ commands' = commands
                         /\ \/ commands = <<c>> /\ Replies(packet_buf) = {} /\ Replies(transit') = {}
                            \/ commands = <<>> /\ OneReply(packet_buf, c) /\ Replies(transit') = {}
                            \/ commands = <<>> /\ Replies(packet_buf) = {} /\ OneReply(transit', c)
    BY <2>2, <2>3 DEF Due
  <2>6. Due(call[t].cmd) => Due(call[t].cmd)'
    BY <1>1, <2>5 DEF Due
  <2> QED BY <1>1, <1>2, <1>3, <2>4, <2>6 DEF Alive, Owed, Met
<1>5. CASE Answer
  <2>1. /\ commands # <<>> /\ transit' = transit \o <<Reply(Head(commands))>>
        /\ commands' = Tail(commands)
    BY <1>5 DEF Answer, Sends
  <2>2. ~Clear
    BY <2>1 DEF Clear
  <2>3. Due(call[t].cmd) => Due(call[t].cmd)'
    <3>1. HAVE Due(call[t].cmd)
    <3>2. /\ commands = <<call[t].cmd>> /\ Replies(packet_buf) = {} /\ Replies(transit) = {}
      BY <2>1, <3>1 DEF Due
    <3>3. Head(commands) = call[t].cmd /\ call[t].cmd \in Nat /\ Tail(commands) = <<>>
      BY <1>2, <3>2
    <3>4. <<Reply(call[t].cmd)>> \in Seq(Chunk)
      BY <3>3 DEF Chunk, Reply, Header
    <3>5. OneReply(transit', call[t].cmd)
      BY <1>2, <2>1, <3>2, <3>3, <3>4, RepliesSent
    <3> QED BY <1>1, <2>1, <3>2, <3>3, <3>5 DEF Due
  <2> QED BY <1>1, <1>2, <1>3, <2>2, <2>3 DEF Alive, Owed, Met
<1> QED BY <1>4, <1>5 DEF Server

LEMMA NextKeepsOwn ==
  ASSUME NEW t \in Thread, Single(t), OInv, [Next]_vars
  PROVE  OInv'
<1>1. FInv'
  BY NextKeepsFInv DEF OInv
<1>2. Alive(t)' /\ OwnReply' /\ DOMAIN returned' = Thread
  <2>1. CASE UNCHANGED vars
    <3>1. UNCHANGED <<pc, call, status, revent, returned, connected, sock, commands, packet_buf,
                      transit, last_sr_event>>
      BY <2>1 DEF vars, threadVars, handleVars, serverVars
    <3>2. Clear' <=> Clear
      BY <3>1, OwedSame
    <3>3. Due(call[t].cmd)' <=> Due(call[t].cmd)
      BY <3>1 DEF Due
    <3>4. Alive(t)
      BY DEF OInv
    <3>5. OwnReply' /\ DOMAIN returned' = Thread
      BY <3>1 DEF OInv, OwnReply
    <3> QED BY <3>1, <3>2, <3>3, <3>4, <3>5 DEF Alive, Owed, Met
  <2>2. CASE Calls
    BY <2>2, BeginOwn DEF Calls, Single, Thread
  <2>3. CASE Server
    BY <2>3, ServerOwn
  <2>4. CASE \E u \in Thread : Step(u)
    <3>1. Step(t)
      BY <2>4 DEF Single
    <3>2. ~(\/ TimedEnter(t) \/ LookAtQueue(t) \/ PollReadable(t) \/ PollTimesOut(t)
            \/ PollFails(t) \/ TryLock(t) \/ TimedUnlock(t))
      BY OwnFacts DEF Alive, TimedEnter, LookAtQueue, PollReadable, PollTimesOut, PollFails,
                      TryLock, TimedUnlock, At
    <3> QED BY <3>1, <3>2, SendRecvOwn, EventReceiveOwn, ReadHeaderOwn, ReadBodyOwn, ReceiveOwn,
               ParseOwn, DisconnectOwn DEF Step
  <2> QED BY <2>1, <2>2, <2>3, <2>4 DEF Next
<1>3. \A u \in Thread : Alive(u)'
  BY <1>2 DEF Single
<1> QED BY <1>1, <1>2, <1>3 DEF OInv

LEMMA InitOwn ==
  ASSUME NEW t \in Thread, Single(t), Init
  PROVE  OInv
<1>1. FInv
  BY InitFInv
<1>2. /\ \A u \in Thread : pc[u] = "idle" /\ call[u] = NoCall /\ returned[u] = 0
      /\ DOMAIN returned = Thread /\ sock /\ commands = <<>> /\ packet_buf = <<>>
      /\ transit = <<>>
  BY DEF Init
<1>3. Clear
  BY <1>2 DEF Clear, Replies
<1>4. \A u \in Thread : Alive(u)
  BY <1>2, <1>3 DEF Alive, Owed, NoCall
<1>5. OwnReply
  BY <1>2 DEF OwnReply
<1> QED BY <1>1, <1>2, <1>4, <1>5 DEF OInv

\* A program of one thread that sets no time limits, as venilla.c is, gets the
\* reply to the command it sent, however many events overtake it, whatever the
\* program received before, and wherever recv() cuts: a call that fails leaves
\* the handle unconnected, so that no reply is left over for the next one.
THEOREM ReplyIsOwn ==
  ASSUME NEW t, Single(t)
  PROVE  Spec => []OwnReply
<1>1. t \in Thread
  BY DEF Single
<1>2. Init => OInv
  BY <1>1, InitOwn
<1>3. OInv /\ [Next]_vars => OInv'
  BY <1>1, NextKeepsOwn
<1>4. OInv => OwnReply
  BY DEF OInv
<1> QED BY <1>2, <1>3, <1>4, PTL DEF Spec
=============================================================================
