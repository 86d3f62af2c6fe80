------------------------------ MODULE SilentCall ------------------------------
(***************************************************************************)
(* A call in which the customer keeps silent.  `silent' counts the ticks   *)
(* of silence of an open call, between the answers, since anything else    *)
(* was asked of the engine.                                                *)
(***************************************************************************)
EXTENDS Dialog

CONSTANT Patience   \* the ticks of silence by which the call is over

VARIABLE silent

silentVars == <<vars, silent>>

Open == sa.system_status \in {"s_start", "s_running"}

\* A tick while nothing is played, and nothing is left to be played.
Waits == sa.ai_status # "ai_play" /\ ~unplayed

SilentInit == Init /\ silent = 0

SilentNext ==
  \/ \E d \in Demands :
       /\ Request(d)
       /\ silent' = IF d.type # "TIMEOUT" \/ ~Open' THEN 0
                    ELSE IF Waits /\ silent < Patience THEN silent + 1 ELSE silent
  \/ (PlayStart \/ PlayEnd \/ Tick) /\ UNCHANGED silent
  \/ Reset /\ silent' = 0

SilentSpec == SilentInit /\ [][SilentNext]_silentVars

\* Nothing says any more where in the talk the call is: an answer time-out gave up, which
\* clears the context, while the answer before still played, and was kept back for it.
Lost == sa.context.cur = ""

\* A customer who says nothing is hung up on: within so many ticks of silence the call
\* is not open any more, neither before nor within the talk, whatever it was about,
\* unless the engine has lost its place in it.
SilentCallEnds == silent < Patience \/ Lost
=============================================================================
