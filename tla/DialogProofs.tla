----------------------------- MODULE DialogProofs -----------------------------
(***************************************************************************)
(* Proofs about the dialog engine, whatever the database holds and the     *)
(* customer says.  First the registry of used contexts, which stays within *)
(* its arrays; then sa_info: every handler that gets a sound one hands on  *)
(* a sound one, and so do the loops that call them.  At last what a closed  *)
(* call still does.                                                        *)
(***************************************************************************)
EXTENDS Dialog, FiniteSetTheorems, WellFoundedInduction, TLAPS

\* The registry q is finite, and so is what each of its entries notes.
Bounded(q) ==
  /\ IsFiniteSet(DOMAIN q) /\ Cardinality(DOMAIN q) <= MaxContexts
  /\ \A c \in DOMAIN q : /\ IsFiniteSet(q[c].floors)
                         /\ Cardinality(q[c].floors) <= MaxFloors

IInv == Bounded(context_queue)

-----------------------------------------------------------------------------
(* set_floor notes at most MAX_FLOOR floors.                                *)
LEMMA SetFloorBounded ==
  ASSUME NEW entry, NEW level,
         IsFiniteSet(entry.floors), Cardinality(entry.floors) <= MaxFloors
  PROVE  /\ IsFiniteSet(SetFloor(entry, level).floors)
         /\ Cardinality(SetFloor(entry, level).floors) <= MaxFloors
<1> DEFINE old == entry.floors
           new == old \cup {level}
<1>1. /\ SetFloor(entry, level).floors
           = IF Cardinality(old) < MaxFloors THEN new ELSE old
      /\ MaxFloors \in Nat /\ Cardinality(old) \in Nat
  BY RegistryAssumption, FS_CardinalityType DEF SetFloor
<1>2. IsFiniteSet(new) /\ Cardinality(new) <= Cardinality(old) + 1
  <2>1. /\ IsFiniteSet(new)
        /\ Cardinality(new) = IF level \in old THEN Cardinality(old)
                              ELSE Cardinality(old) + 1
    BY FS_AddElement
  <2> HIDE DEF old, new
  <2> QED
    BY <1>1, <2>1
<1>3. Cardinality(new) \in Nat
  BY <1>2, FS_CardinalityType
<1> QED
  BY <1>1, <1>2, <1>3

(* set_used_floor leaves the table within its bounds.                       *)
LEMMA UsedFloorBounded ==
  ASSUME NEW q, Bounded(q), NEW c, NEW level
  PROVE  Bounded(UsedFloor(q, c, level))
<1> DEFINE n   == MainOf[c]
           old == IF n \in DOMAIN q THEN q[n]
                  ELSE [ct_type |-> "ct_null", floors |-> {}]
           new == [m \in DOMAIN q \cup {n} |->
                     IF m = n THEN SetFloor(old, level) ELSE q[m]]
           Full == n \notin DOMAIN q /\ Cardinality(DOMAIN q) >= MaxContexts
<1>1. CASE level \in Unrecorded \/ Full
  BY <1>1 DEF UsedFloor
<1>2. CASE ~(level \in Unrecorded \/ Full)
  <2>1. UsedFloor(q, c, level) = new
    BY <1>2 DEF UsedFloor
  <2>2. IsFiniteSet(old.floors) /\ Cardinality(old.floors) <= MaxFloors
    <3>1. CASE n \in DOMAIN q
      BY <3>1 DEF Bounded
    <3>2. CASE n \notin DOMAIN q
      BY <3>2, FS_EmptySet, RegistryAssumption
    <3> QED
      BY <3>1, <3>2
  <2>3. IsFiniteSet(DOMAIN q \cup {n})
    BY FS_AddElement DEF Bounded
  <2>4. Cardinality(DOMAIN q \cup {n}) <= MaxContexts
    <3>1. CASE n \in DOMAIN q
      <4>1. DOMAIN q \cup {n} = DOMAIN q
        BY <3>1
      <4> QED
        BY <4>1 DEF Bounded
    <3>2. CASE n \notin DOMAIN q
      <4>1. Cardinality(DOMAIN q \cup {n}) = Cardinality(DOMAIN q) + 1
        BY <3>2, FS_AddElement DEF Bounded
      <4>2. Cardinality(DOMAIN q) \in Nat
        BY FS_CardinalityType DEF Bounded
      <4> QED
        BY <4>1, <4>2, <3>2, <1>2, RegistryAssumption
    <3> QED
      BY <3>1, <3>2
  <2>5. ASSUME NEW m \in DOMAIN new
        PROVE  IsFiniteSet(new[m].floors) /\ Cardinality(new[m].floors) <= MaxFloors
    <3>1. CASE m = n
      BY <3>1, <2>2, SetFloorBounded
    <3>2. CASE m # n
      BY <3>2 DEF Bounded
    <3> QED
      BY <3>1, <3>2
  <2> HIDE DEF old
  <2>6. DOMAIN new = DOMAIN q \cup {n}
    OBVIOUS
  <2> QED
    BY <2>1, <2>3, <2>4, <2>5, <2>6 DEF Bounded
<1> QED
  BY <1>1, <1>2

LEMMA InitBounded == Init => IInv
<1> SUFFICES ASSUME Init PROVE IInv
  OBVIOUS
<1>1. context_queue = EmptyRegistry /\ DOMAIN EmptyRegistry = {}
  BY DEF Init, EmptyRegistry
<1> QED
  BY <1>1, FS_EmptySet, RegistryAssumption DEF IInv, Bounded

(* Only what the host plays is noted, and only sa_info_init forgets it.     *)
LEMMA StepBounded == IInv /\ [Next]_vars => IInv'
<1> SUFFICES ASSUME IInv, [Next]_vars PROVE IInv'
  OBVIOUS
<1>1. CASE \E d \in Demands : Request(d)
  <2>1. context_queue' = context_queue
    BY <1>1 DEF Request
  <2> QED
    BY <2>1 DEF IInv, Bounded
<1>2. CASE PlayStart
  <2>1. \/ context_queue' = context_queue
        \/ \E c, level : context_queue' = UsedFloor(context_queue, c, level)
    BY <1>2 DEF PlayStart
  <2> QED
    BY <2>1, UsedFloorBounded DEF IInv
<1>3. CASE Reset
  <2>1. context_queue' = EmptyRegistry /\ DOMAIN EmptyRegistry = {}
    BY <1>3 DEF Reset, EmptyRegistry
  <2> QED
    BY <2>1, FS_EmptySet, RegistryAssumption DEF IInv, Bounded
<1>4. CASE PlayEnd \/ Tick \/ UNCHANGED vars
  <2>1. context_queue' = context_queue
    BY <1>4 DEF PlayEnd, Tick, vars
  <2> QED
    BY <2>1 DEF IInv, Bounded
<1> QED
  BY <1>1, <1>2, <1>3, <1>4 DEF Next

(* The registry never holds more than MAX_CONTEX contexts of MAX_FLOOR      *)
(* floors each: set_used_floor never writes behind its arrays.              *)
THEOREM RegistryBounded == Spec => []RegistryInBounds
<1>1. IInv => RegistryInBounds
  BY DEF IInv, Bounded, RegistryInBounds
<1> QED
  BY <1>1, InitBounded, StepBounded, PTL DEF Spec

-----------------------------------------------------------------------------
(* sa_info, whatever a handler does to it.  The fields that no property is    *)
(* about are only there.                                                     *)
Fields == {"db", "event", "continue_event", "answer_type", "system_status", "context",
           "silent", "total_score", "question_cnt", "play_response_id", "last_id",
           "not_memery_id", "timeout_cnt", "timeout", "timeout_flag", "ai_status",
           "text_type", "cur_priority", "qustion_notfind_times",
           "noting_notfind_times", "question_notfind_cur_floor", "reason",
           "wait_queue", "notclean_waitqueue", "fr_type", "prev_fr_type",
           "this_word_say_times", "purpose_flag", "ivr_cnt"}

SystemStatus == {"s_null", "s_before_call", "s_start", "s_running", "s_wait",
                 "s_session", "s_hangup"}
AiStatus == {"ai_null", "ai_play", "ai_play_end"}
ResponseType == {"KEEP", "READ", "CLEAN", "CLOSE", "SKIP_OPERATOR", "SKIP_IVR"}

Ids == DOMAIN Answers \cup DOMAIN Publics \cup {0}

\* A context that was read from the database, or none.
Read(c) == c \in Context /\ c.id \in Ids

Sound(e) ==
  /\ DOMAIN e = Fields
  /\ Read(e.context)
  /\ e.system_status \in SystemStatus
  /\ e.ai_status \in AiStatus
  /\ e.wait_queue.id \in Ids
  /\ e.play_response_id \in Ids
  /\ e.timeout \in Nat /\ e.timeout < SEC_5_0
  /\ e.db => e.question_notfind_cur_floor \in 1 .. QuestionFloors

\* What a handler returns.
SoundResult(r) == {"ret", "sa"} \subseteq DOMAIN r /\ Sound(r.sa)

-----------------------------------------------------------------------------
(* The queries on the database return rows of it, or none.                   *)

RowOf(table) == DOMAIN table \cup {NoRow}

LEMMA Least ==
  ASSUME NEW T, T \subseteq Nat, T # {}
  PROVE  \E x \in T : \A y \in T : x <= y
<1>1. PICK x \in T : \A y \in T : <<y, x>> \notin OpToRel(<, Nat)
  BY WFMin, NatLessThanWellFounded
<1>2. \A y, z \in Nat : y < z => <<y, z>> \in OpToRel(<, Nat)
  BY DEF OpToRel
<1>3. ASSUME NEW y \in T PROVE x <= y
  <2>1. x \in Nat /\ y \in Nat
    OBVIOUS
  <2>2. ~(y < x)
    BY <1>1, <1>2, <2>1
  <2> QED
    BY <2>1, <2>2
<1> QED
  BY <1>3

LEMMA FirstIn ==
  ASSUME NEW ids, ids \subseteq Nat, ids # {}
  PROVE  First(ids) \in ids
BY Least DEF First

LEMMA FirstIsRow ==
  ASSUME NEW table, DOMAIN table \subseteq Nat, NEW ids, ids \subseteq DOMAIN table
  PROVE  First(ids) \in RowOf(table)
<1>1. CASE ids = {}
  BY <1>1 DEF First, RowOf
<1>2. CASE ids # {}
  BY <1>2, FirstIn DEF RowOf
<1> QED
  BY <1>1, <1>2

LEMMA NamedIsRow ==
  ASSUME NEW table, DOMAIN table \subseteq Nat, NEW name
  PROVE  Named(table, name) \in RowOf(table)
BY FirstIsRow DEF Named

LEMMA MatchingIsRow ==
  ASSUME NEW table, DOMAIN table \subseteq Nat, NEW name, NEW heard
  PROVE  Matching(table, name, heard) \in RowOf(table)
BY FirstIsRow DEF Matching

LEMMA ByIdIsRow ==
  ASSUME NEW table, NEW id
  PROVE  ById(table, id) \in RowOf(table)
BY DEF ById, RowOf

LEMMA OwnRowIsRow ==
  ASSUME NEW c
  PROVE  OwnRow(c) \in RowOf(Answers)
BY NamedIsRow, DatabaseAssumption DEF OwnRow, RowOf

LEMMA HereIsRow ==
  ASSUME NEW e, NEW kind
  PROVE  Here(e, kind) \in RowOf(Answers)
BY NamedIsRow, DatabaseAssumption DEF Here

LEMMA PublicRowIsRow ==
  ASSUME NEW kind
  PROVE  PublicRow(kind) \in RowOf(Publics)
BY NamedIsRow, DatabaseAssumption DEF PublicRow

(* The next purpose and the next context are names.                          *)
LEMMA ElementIsName ==
  ASSUME NEW list \in Seq(ContextName)
  PROVE  /\ DOMAIN list \subseteq Nat
         /\ \A i \in DOMAIN list : list[i] \in ContextName
         /\ list # <<>> => list[Len(list)] \in ContextName
OBVIOUS

LEMMA PurposeIsName ==
  ASSUME NEW q
  PROVE  UnusedPurpose(q) \in ContextName
<1> DEFINE fresh == {i \in DOMAIN Purposes : ~IsPurpose(q, Purposes[i])}
<1>1. Purposes \in Seq(ContextName) /\ "" \in ContextName
  BY DatabaseAssumption
<1>2. ASSUME fresh # {} PROVE Purposes[First(fresh)] \in ContextName
  <2>1. fresh \subseteq DOMAIN Purposes
    OBVIOUS
  <2> HIDE DEF fresh
  <2>2. First(fresh) \in DOMAIN Purposes
    BY <1>1, <1>2, <2>1, FirstIn, ElementIsName
  <2> QED
    BY <1>1, <2>2, ElementIsName
<1>3. ASSUME Purposes # <<>> PROVE Purposes[Len(Purposes)] \in ContextName
  BY <1>1, <1>3, ElementIsName
<1> QED
  BY <1>1, <1>2, <1>3 DEF UnusedPurpose

LEMMA FlowIsName ==
  ASSUME NEW q, NEW c
  PROVE  UnusedFlow(q, c) \in ContextName
<1> DEFINE fresh == {i \in DOMAIN Flows : Flows[i] \notin DOMAIN q}
<1>1. Flows \in Seq(ContextName) /\ "" \in ContextName
  BY DatabaseAssumption
<1>2. ASSUME fresh # {} PROVE Flows[First(fresh)] \in ContextName
  <2>1. fresh \subseteq DOMAIN Flows
    OBVIOUS
  <2> HIDE DEF fresh
  <2>2. First(fresh) \in DOMAIN Flows
    BY <1>1, <1>2, <2>1, FirstIn, ElementIsName
  <2> QED
    BY <1>1, <2>2, ElementIsName
<1> QED
  BY <1>1, <1>2 DEF UnusedFlow

LEMMA NextIsName ==
  ASSUME NEW q, NEW c, NEW flag
  PROVE  NextUnused(q, c, flag) \in ContextName
<1>1. "" \in ContextName
  BY DatabaseAssumption
<1> QED
  BY <1>1, PurposeIsName, FlowIsName DEF NextUnused

-----------------------------------------------------------------------------
(* Reading a row.                                                            *)

LEMMA LoadedIsRead ==
  ASSUME NEW c \in Context, NEW table, NEW id \in DOMAIN table,
         table[id] \in Row, id \in Nat, id \in Ids
  PROVE  Read(Loaded(c, table, id))
BY DEF Loaded, Context, Row, Read

LEMMA ReadKeepsSound ==
  ASSUME NEW e, Sound(e), NEW c, Read(c), NEW silent, NEW fr
  PROVE  Sound([e EXCEPT !.context = c, !.silent = silent, !.fr_type = fr])
<1> DEFINE f == [e EXCEPT !.context = c, !.silent = silent, !.fr_type = fr]
<1>1. DOMAIN e = Fields
  BY DEF Sound
<1>2. DOMAIN f = Fields /\ f.context = c
  BY <1>1 DEF Fields
<1>3. /\ f.system_status = e.system_status /\ f.ai_status = e.ai_status
      /\ f.wait_queue = e.wait_queue /\ f.play_response_id = e.play_response_id
      /\ f.timeout = e.timeout /\ f.db = e.db
      /\ f.question_notfind_cur_floor = e.question_notfind_cur_floor
  BY <1>1 DEF Fields
<1> HIDE DEF f
<1> QED
  BY <1>2, <1>3 DEF Sound

(* Only the context, the text and the kind of the answer change.             *)
LEMMA AnswerSound ==
  ASSUME NEW e, Sound(e), NEW id \in RowOf(Answers), NEW fr
  PROVE  SoundResult(Answer(e, id, fr))
<1>1. CASE id = NoRow
  BY <1>1 DEF Answer, Miss, SoundResult
<1>2. CASE id # NoRow
  <2> DEFINE new == Loaded(e.context, Answers, id)
  <2>1. Read(new)
    BY <1>2, LoadedIsRead, DatabaseAssumption DEF RowOf, Ids, Sound, Read
  <2>2. Answer(e, id, fr) =
          Hit([e EXCEPT !.context = new, !.silent = Answers[id].silent, !.fr_type = fr])
    BY <1>2 DEF Answer
  <2> HIDE DEF new
  <2> DEFINE f == [e EXCEPT !.context = new, !.silent = Answers[id].silent,
                            !.fr_type = fr]
  <2>3. Sound(f)
    BY <2>1, ReadKeepsSound
  <2> QED
    BY <2>2, <2>3 DEF Hit, SoundResult
<1> QED
  BY <1>1, <1>2

LEMMA PublicAnswerSound ==
  ASSUME NEW e, Sound(e), NEW id \in RowOf(Publics), NEW fr
  PROVE  SoundResult(PublicAnswer(e, id, fr))
<1>1. CASE id = NoRow
  BY <1>1 DEF PublicAnswer, Miss, SoundResult
<1>2. CASE id # NoRow
  <2> DEFINE loaded == Loaded(e.context, Publics, id)
             new == [loaded EXCEPT !.public = TRUE]
  <2>1. Read(loaded)
    BY <1>2, LoadedIsRead, DatabaseAssumption DEF RowOf, Ids, Sound, Read
  <2>2. PublicAnswer(e, id, fr) =
          Hit([e EXCEPT !.context = new, !.silent = Publics[id].silent, !.fr_type = fr])
    BY <1>2 DEF PublicAnswer
  <2> HIDE DEF loaded
  <2>3. Read(new)
    BY <2>1 DEF Read, Context
  <2> HIDE DEF new
  <2> DEFINE f == [e EXCEPT !.context = new, !.silent = Publics[id].silent,
                            !.fr_type = fr]
  <2>4. Sound(f)
    BY <2>3, ReadKeepsSound
  <2> QED
    BY <2>2, <2>4 DEF Hit, SoundResult
<1> QED
  BY <1>1, <1>2

-----------------------------------------------------------------------------
(* The fields that a handler may set without a second thought ...            *)
Frame(e, f) ==
  /\ DOMAIN f = DOMAIN e
  /\ f.context = e.context
  /\ f.system_status = e.system_status
  /\ f.ai_status = e.ai_status
  /\ f.wait_queue = e.wait_queue
  /\ f.play_response_id = e.play_response_id
  /\ f.timeout = e.timeout
  /\ f.db = e.db
  /\ f.question_notfind_cur_floor = e.question_notfind_cur_floor

LEMMA FrameSound ==
  ASSUME NEW e, Sound(e), NEW f, Frame(e, f)
  PROVE  Sound(f)
BY DEF Frame, Sound

LEMMA OtherFields ==
  ASSUME NEW e, Sound(e), NEW x
  PROVE  /\ Sound([e EXCEPT !.event = x])
         /\ Sound([e EXCEPT !.continue_event = x])
         /\ Sound([e EXCEPT !.fr_type = x])
         /\ Sound([e EXCEPT !.prev_fr_type = x])
         /\ Sound([e EXCEPT !.silent = x])
         /\ Sound([e EXCEPT !.reason = x])
         /\ Sound([e EXCEPT !.question_cnt = x])
         /\ Sound([e EXCEPT !.noting_notfind_times = x])
         /\ Sound([e EXCEPT !.qustion_notfind_times = x])
         /\ Sound([e EXCEPT !.notclean_waitqueue = x])
<1>1. DOMAIN e = Fields
  BY DEF Sound
<1>2. /\ Frame(e, [e EXCEPT !.event = x])
      /\ Frame(e, [e EXCEPT !.continue_event = x])
      /\ Frame(e, [e EXCEPT !.fr_type = x])
      /\ Frame(e, [e EXCEPT !.prev_fr_type = x])
      /\ Frame(e, [e EXCEPT !.silent = x])
      /\ Frame(e, [e EXCEPT !.reason = x])
      /\ Frame(e, [e EXCEPT !.question_cnt = x])
      /\ Frame(e, [e EXCEPT !.noting_notfind_times = x])
      /\ Frame(e, [e EXCEPT !.qustion_notfind_times = x])
      /\ Frame(e, [e EXCEPT !.notclean_waitqueue = x])
  BY <1>1 DEF Fields, Frame
<1> QED
  BY <1>2, FrameSound

(* ... and those that are bound.                                             *)
LEMMA ContextSound ==
  ASSUME NEW e, Sound(e), NEW c, Read(c)
  PROVE  Sound([e EXCEPT !.context = c])
<1> DEFINE f == [e EXCEPT !.context = c]
<1>1. DOMAIN e = Fields
  BY DEF Sound
<1>2. DOMAIN f = Fields /\ f.context = c
  BY <1>1 DEF Fields
<1>3. /\ f.system_status = e.system_status /\ f.ai_status = e.ai_status
      /\ f.wait_queue = e.wait_queue /\ f.play_response_id = e.play_response_id
      /\ f.timeout = e.timeout /\ f.db = e.db
      /\ f.question_notfind_cur_floor = e.question_notfind_cur_floor
  BY <1>1 DEF Fields
<1> HIDE DEF f
<1> QED
  BY <1>2, <1>3 DEF Sound

LEMMA StatusSound ==
  ASSUME NEW e, Sound(e), NEW status \in SystemStatus
  PROVE  Sound([e EXCEPT !.system_status = status])
BY DEF Sound, Fields

LEMMA TimeoutSound ==
  ASSUME NEW e, Sound(e), NEW n \in Nat, n < SEC_5_0
  PROVE  Sound([e EXCEPT !.timeout = n])
BY DEF Sound, Fields

LEMMA QueueSound ==
  ASSUME NEW e, Sound(e), NEW w, w.id \in Ids
  PROVE  Sound([e EXCEPT !.wait_queue = w])
BY DEF Sound, Fields

LEMMA FloorSound ==
  ASSUME NEW e, Sound(e), NEW floor, e.db => floor \in 1 .. QuestionFloors
  PROVE  Sound([e EXCEPT !.question_notfind_cur_floor = floor])
BY DEF Sound, Fields

LEMMA CleanQueueSound ==
  ASSUME NEW e, Sound(e)
  PROVE  Sound(CleanQueue(e))
<1>1. EmptyQueue.id \in Ids
  BY DEF EmptyQueue, Ids
<1>2. Sound([e EXCEPT !.wait_queue = EmptyQueue])
  BY <1>1, QueueSound
<1> DEFINE f == [e EXCEPT !.wait_queue = EmptyQueue]
<1>3. CleanQueue(e) = [f EXCEPT !.notclean_waitqueue = FALSE]
  BY DEF CleanQueue, Sound, Fields
<1> HIDE DEF f
<1>4. Sound([f EXCEPT !.notclean_waitqueue = FALSE])
  BY <1>2, OtherFields DEF f
<1> QED
  BY <1>3, <1>4

LEMMA HitSound ==
  ASSUME NEW e, Sound(e)
  PROVE  SoundResult(Hit(e)) /\ SoundResult(Miss(e))
BY DEF Hit, Miss, SoundResult

\* Choices of FirstOf: rows of the database, where they exist.
Rows(choices) ==
  /\ DOMAIN choices \subseteq Nat
  /\ \A i \in DOMAIN choices : choices[i][1] \in RowOf(Answers)

LEMMA FirstOfSound ==
  ASSUME NEW e, Sound(e), NEW choices, Rows(choices)
  PROVE  SoundResult(FirstOf(e, choices))
<1> DEFINE found == {i \in DOMAIN choices : choices[i][1] # NoRow}
<1>1. CASE found = {}
  BY <1>1, HitSound DEF FirstOf
<1>2. CASE found # {}
  <2>1. First(found) \in found
    BY <1>2, FirstIn DEF Rows
  <2>2. choices[First(found)][1] \in RowOf(Answers)
    BY <2>1 DEF Rows
  <2> QED
    BY <1>2, <2>2, AnswerSound DEF FirstOf
<1> QED
  BY <1>1, <1>2

LEMMA OneRow ==
  ASSUME NEW a \in RowOf(Answers), NEW fr
  PROVE  Rows(<< <<a, fr>> >>)
BY DEF Rows

LEMMA TwoRows ==
  ASSUME NEW a \in RowOf(Answers), NEW b \in RowOf(Answers), NEW fr, NEW gr
  PROVE  Rows(<< <<a, fr>>, <<b, gr>> >>)
BY DEF Rows

LEMMA ThreeRows ==
  ASSUME NEW a \in RowOf(Answers), NEW b \in RowOf(Answers), NEW c \in RowOf(Answers),
         NEW fr, NEW gr, NEW hr
  PROVE  Rows(<< <<a, fr>>, <<b, gr>>, <<c, hr>> >>)
BY DEF Rows

LEMMA FourRows ==
  ASSUME NEW a \in RowOf(Answers), NEW b \in RowOf(Answers), NEW c \in RowOf(Answers),
         NEW d \in RowOf(Answers), NEW fr, NEW gr, NEW hr, NEW ir
  PROVE  Rows(<< <<a, fr>>, <<b, gr>>, <<c, hr>>, <<d, ir>> >>)
BY DEF Rows

-----------------------------------------------------------------------------
(* The handlers.                                                             *)

LEMMA TimeAnswerSound ==
  ASSUME NEW e, Sound(e)
  PROVE  SoundResult(TimeAnswer(e))
<1> DEFINE row   == IF "ai2human" \in overtime THEN PublicRow("time_ai2human") ELSE NoRow
           all   == IF "all" \in overtime THEN PublicRow("phone_time_all") ELSE NoRow
           human == PublicAnswer(e, row, "fr_time_ai2human")
<1>1. row \in RowOf(Publics) /\ all \in RowOf(Publics)
  BY PublicRowIsRow DEF RowOf
<1>2. TimeAnswer(e) \in {human, PublicAnswer(human.sa, all, "fr_time_all")}
  BY DEF TimeAnswer
<1> HIDE DEF row, all
<1>3. SoundResult(human)
  BY <1>1, PublicAnswerSound
<1> HIDE DEF human
<1>4. SoundResult(PublicAnswer(human.sa, all, "fr_time_all"))
  BY <1>1, <1>3, PublicAnswerSound DEF SoundResult
<1> QED
  BY <1>2, <1>3, <1>4

LEMMA TakeQueuedSound ==
  ASSUME NEW e, Sound(e)
  PROVE  SoundResult(TakeQueued(e))
<1> DEFINE w == e.wait_queue
           taken == IF FromPublics(w.fr_type)
                    THEN PublicAnswer(e, ById(Publics, w.id), w.fr_type)
                    ELSE Answer(e, ById(Answers, w.id), w.fr_type)
           marked == [taken.sa EXCEPT !.fr_type = w.fr_type]
<1>1. SoundResult(taken)
  BY ByIdIsRow, PublicAnswerSound, AnswerSound
<1>2. /\ w.id = 0 => TakeQueued(e) = Miss(e)
      /\ w.id # 0 =>
           TakeQueued(e) = [taken EXCEPT !.sa = CleanQueue([@ EXCEPT !.fr_type = w.fr_type])]
  BY DEF TakeQueued
<1> HIDE DEF taken
<1>3. Sound(marked)
  BY <1>1, OtherFields DEF SoundResult
<1> HIDE DEF marked
<1>4. Sound(CleanQueue(marked))
  BY <1>3, CleanQueueSound
<1>5. w.id # 0 => TakeQueued(e) = [taken EXCEPT !.sa = CleanQueue(marked)]
  BY <1>2 DEF marked
<1>6. SoundResult([taken EXCEPT !.sa = CleanQueue(marked)])
  BY <1>1, <1>4 DEF SoundResult
<1> QED
  BY <1>2, <1>5, <1>6, HitSound

LEMMA PutQueuedSound ==
  ASSUME NEW e, Sound(e)
  PROVE  Sound(PutQueued(e))
<1> DEFINE w == [id |-> e.context.id, priority |-> e.context.priority,
                 fr_type |-> e.fr_type, public |-> e.context.public]
<1>1. w.id \in Ids
  BY DEF Sound, Read
<1>2. PutQueued(e) \in {e, [e EXCEPT !.wait_queue = w]}
  BY DEF PutQueued
<1> HIDE DEF w
<1> QED
  BY <1>1, <1>2, QueueSound

LEMMA PurposeRowIsRow ==
  ASSUME NEW e
  PROVE  PurposeRow(e) \in RowOf(Answers)
BY OwnRowIsRow DEF PurposeRow, RowOf

LEMMA InvitedSound ==
  ASSUME NEW e, Sound(e)
  PROVE  Sound(Invited(e))
<1> DEFINE more == IF e.question_cnt = 2 THEN 2 ELSE e.question_cnt + 1
           cnt  == IF e.system_status # "s_running" THEN e.question_cnt
                   ELSE IF more > 1 /\ e.ai_status # "ai_play" THEN 0 ELSE more
           id   == PurposeRow(e)
           counted == [e EXCEPT !.question_cnt = cnt]
           w == [id |-> id, priority |-> Answers[id].priority,
                 fr_type |-> e.fr_type, public |-> FALSE]
           queued == [counted EXCEPT !.wait_queue = w]
           invited == [counted EXCEPT !.wait_queue = w, !.notclean_waitqueue = TRUE]
<1>1. IF cnt # 0 \/ id = NoRow \/ e.context.question THEN Invited(e) = counted
      ELSE Invited(e) = invited
  BY DEF Invited
<1> HIDE DEF cnt
<1>2. Sound(counted)
  BY OtherFields
<1> HIDE DEF counted
<1>3. id \in RowOf(Answers)
  BY PurposeRowIsRow
<1>4. ASSUME id # NoRow PROVE Sound(invited)
  <2>1. w.id \in Ids
    BY <1>3, <1>4 DEF RowOf, Ids
  <2>2. invited = [queued EXCEPT !.notclean_waitqueue = TRUE]
    OBVIOUS
  <2> HIDE DEF w
  <2>3. Sound(queued)
    BY <1>2, <2>1, QueueSound
  <2> HIDE DEF queued
  <2> QED
    BY <2>2, <2>3, OtherFields
<1> QED
  BY <1>1, <1>2, <1>4

LEMMA SpecialIsRow ==
  ASSUME NEW e, NEW u
  PROVE  SpecialRow(e, u) \in RowOf(Answers)
BY MatchingIsRow, DatabaseAssumption DEF SpecialRow

LEMMA AgainIsRow ==
  ASSUME NEW e
  PROVE  AgainRow(e) \in RowOf(Answers)
BY ByIdIsRow DEF AgainRow, RowOf

LEMMA QuestionsAreRows ==
  ASSUME NEW u
  PROVE  Rows(QuestionRows(u))
<1> DEFINE a == Matching(Answers, Public("question"), u.heard)
           b == Matching(Answers, Public("second_question"), u.heard)
<1>1. a \in RowOf(Answers) /\ b \in RowOf(Answers)
  BY MatchingIsRow, DatabaseAssumption
<1>2. QuestionRows(u) = << <<a, "fr_question1">>, <<b, "fr_question2">> >>
  BY DEF QuestionRows
<1> HIDE DEF a, b
<1> QED
  BY <1>1, <1>2, TwoRows

LEMMA SpecialAndQuestions ==
  ASSUME NEW e, NEW u
  PROVE  Rows(<< <<SpecialRow(e, u), "fr_special">> >> \o QuestionRows(u))
<1> DEFINE a == Matching(Answers, Public("question"), u.heard)
           b == Matching(Answers, Public("second_question"), u.heard)
           c == SpecialRow(e, u)
           Choice == RowOf(Answers) \X {"fr_special", "fr_question1", "fr_question2"}
           s == << <<c, "fr_special">> >>
           t == << <<a, "fr_question1">>, <<b, "fr_question2">> >>
<1>1. a \in RowOf(Answers) /\ b \in RowOf(Answers) /\ c \in RowOf(Answers)
  BY MatchingIsRow, SpecialIsRow, DatabaseAssumption
<1>2. QuestionRows(u) = t
  BY DEF QuestionRows
<1> HIDE DEF a, b, c
<1>3. s \in Seq(Choice) /\ t \in Seq(Choice)
  <2>1. /\ <<c, "fr_special">> \in Choice
        /\ <<a, "fr_question1">> \in Choice /\ <<b, "fr_question2">> \in Choice
    BY <1>1
  <2> HIDE DEF Choice
  <2> QED
    BY <2>1
<1> HIDE DEF s, t
<1>4. s \o t \in Seq(Choice)
  BY <1>3
<1>5. ASSUME NEW r \in Seq(Choice) PROVE Rows(r)
  BY DEF Rows
<1> QED
  BY <1>2, <1>4, <1>5 DEF s, c

LEMMA AsksSound ==
  ASSUME NEW e, Sound(e)
  PROVE  SoundResult(Ignored(e)) /\ SoundResult(Inconvenient(e))
BY OtherFields DEF Ignored, Inconvenient, Hit, SoundResult

LEMMA AskHandleSound ==
  ASSUME NEW e, Sound(e), NEW u
  PROVE  SoundResult(AskHandle(e, u))
<1> DEFINE found == FirstOf(e, << <<SpecialRow(e, u), "fr_special">> >> \o QuestionRows(u))
           rest == FirstOf(e, << <<AgainRow(e), "fr_again">>,
                                 <<Here(e, "auto0"), "fr_auto0">>,
                                 <<Here(e, "qany"), "fr_qany">>,
                                 <<Here(e, "any"), "fr_any">> >>)
<1>1. AskHandle(e, u) \in {Ignored(e), Answer(e, Here(e, "qign"), "fr_qign"),
                           Hit(Invited(found.sa)), Inconvenient(e), rest}
  BY DEF AskHandle
<1>2. SoundResult(found)
  BY SpecialAndQuestions, FirstOfSound
<1> HIDE DEF found
<1>3. SoundResult(Hit(Invited(found.sa)))
  BY <1>2, InvitedSound, HitSound DEF SoundResult
<1>4. SoundResult(rest)
  BY AgainIsRow, HereIsRow, FourRows, FirstOfSound
<1> HIDE DEF rest
<1>5. SoundResult(Answer(e, Here(e, "qign"), "fr_qign"))
  BY HereIsRow, AnswerSound
<1> QED
  BY <1>1, <1>3, <1>4, <1>5, AsksSound

LEMMA UntypedAnswerSound ==
  ASSUME NEW e, Sound(e), NEW u
  PROVE  SoundResult(UntypedAnswer(e, u))
<1> DEFINE found == FirstOf(e, QuestionRows(u))
           rest == FirstOf(e, << <<Here(e, "auto0"), "fr_auto0">>,
                                 <<Here(e, "any"), "fr_any">> >>)
<1>1. UntypedAnswer(e, u) \in {Ignored(e), Answer(e, SpecialRow(e, u), "fr_special"),
                               Answer(e, Here(e, "qign"), "fr_qign"),
                               Hit(Invited(found.sa)), rest}
  BY DEF UntypedAnswer
<1>2. SoundResult(found)
  BY QuestionsAreRows, FirstOfSound
<1> HIDE DEF found
<1>3. SoundResult(Hit(Invited(found.sa)))
  BY <1>2, InvitedSound, HitSound DEF SoundResult
<1>4. SoundResult(rest)
  BY HereIsRow, TwoRows, FirstOfSound
<1> HIDE DEF rest
<1>5. /\ SoundResult(Answer(e, Here(e, "qign"), "fr_qign"))
      /\ SoundResult(Answer(e, SpecialRow(e, u), "fr_special"))
  BY HereIsRow, SpecialIsRow, AnswerSound
<1> QED
  BY <1>1, <1>3, <1>4, <1>5, AsksSound

LEMMA DeepenSound ==
  ASSUME NEW e, Sound(e)
  PROVE  SoundResult(Deepen(e))
<1> DEFINE row == DeepRow[Untold(context_queue)]
           r == Answer(e, row, e.fr_type)
           told == [r.sa EXCEPT !.reason = TRUE]
<1>1. row \in RowOf(Answers)
  BY DatabaseAssumption DEF Untold, RowOf, NoRow
<1> HIDE DEF row
<1>2. SoundResult(r)
  BY <1>1, AnswerSound
<1>3. Deepen(e) = [r EXCEPT !.sa.reason = TRUE]
  BY DEF Deepen, row
<1> HIDE DEF r
<1>4. Sound(told)
  BY <1>2, OtherFields DEF SoundResult
<1>5. [r EXCEPT !.sa.reason = TRUE] = [r EXCEPT !.sa = told]
  OBVIOUS
<1> HIDE DEF told
<1>6. SoundResult([r EXCEPT !.sa = told])
  BY <1>2, <1>4 DEF SoundResult
<1> QED
  BY <1>3, <1>5, <1>6

LEMMA AgreedSound ==
  ASSUME NEW e, Sound(e), NEW kind, NEW fr
  PROVE  SoundResult(Agreed(e, kind, fr))
<1> DEFINE r == Answer(e, Here(e, kind), fr)
           row == NextUnusedRow(e, e.context.cur)
           on == [e EXCEPT !.continue_event = "evt_continue_run"]
<1>1. Agreed(e, kind, fr) \in {Hit(on), Answer(r.sa, row, fr), r}
  BY DEF Agreed
<1>2. SoundResult(r)
  BY HereIsRow, AnswerSound
<1>3. row \in RowOf(Answers)
  BY OwnRowIsRow DEF NextUnusedRow
<1>4. Sound(on)
  BY OtherFields
<1> HIDE DEF r, row, on
<1>5. SoundResult(Answer(r.sa, row, fr))
  BY <1>2, <1>3, AnswerSound DEF SoundResult
<1> QED
  BY <1>1, <1>2, <1>4, <1>5, HitSound

LEMMA FlowAnswerSound ==
  ASSUME NEW e, Sound(e)
  PROVE  SoundResult(FlowAnswer(e))
<1> DEFINE row == FlowRows[e.answer_type]
<1>1. FlowAnswer(e) \in {Miss(e), Agreed(e, row[1], row[2]), Deepen(e),
                         Answer(e, Here(e, row[1]), row[2])}
  BY DEF FlowAnswer
<1> HIDE DEF row
<1> QED
  BY <1>1, HitSound, AgreedSound, DeepenSound, HereIsRow, AnswerSound

LEMMA ToParentSound ==
  ASSUME NEW e, Sound(e)
  PROVE  Sound(ToParent(e))
<1> DEFINE c == [e.context EXCEPT !.cur = e.context.parent]
<1>1. Read(c)
  BY DEF Sound, Read, Context
<1>2. ToParent(e) \in {e, [e EXCEPT !.context = c]}
  BY DEF ToParent
<1> HIDE DEF c
<1> QED
  BY <1>1, <1>2, ContextSound

LEMMA InContextSound ==
  ASSUME NEW e, Sound(e)
  PROVE  SoundResult(InContext(e))
<1> DEFINE flow == FlowAnswer(e)
           choices == << <<AgainRow(e), "fr_again">>,
                         <<Here(e, "auto0"), "fr_auto0">>,
                         <<Here(e, "any"), "fr_any">> >>
<1>1. InContext(e) \in {Hit(flow.sa), Inconvenient(flow.sa), FirstOf(flow.sa, choices)}
  BY DEF InContext
<1>2. Sound(flow.sa)
  BY FlowAnswerSound DEF SoundResult
<1>3. Rows(choices)
  BY AgainIsRow, HereIsRow, ThreeRows
<1> HIDE DEF flow, choices
<1> QED
  BY <1>1, <1>2, <1>3, HitSound, AsksSound, FirstOfSound

LEMMA AnswerHandleSound ==
  ASSUME NEW e, Sound(e), NEW u
  PROVE  SoundResult(AnswerHandle(e, u))
<1> DEFINE r == InContext(e)
<1>1. AnswerHandle(e, u) \in {UntypedAnswer(e, u), Answer(e, SpecialRow(e, u), "fr_special"),
                              r, FlowAnswer(ToParent(r.sa))}
  BY DEF AnswerHandle, TypedAnswer
<1>2. SoundResult(r) /\ Sound(r.sa)
  BY InContextSound DEF SoundResult
<1> HIDE DEF r
<1>3. SoundResult(FlowAnswer(ToParent(r.sa)))
  BY <1>2, ToParentSound, FlowAnswerSound
<1>4. SoundResult(Answer(e, SpecialRow(e, u), "fr_special"))
  BY SpecialIsRow, AnswerSound
<1> QED
  BY <1>1, <1>2, <1>3, <1>4, UntypedAnswerSound

LEMMA HangUpNextSound ==
  ASSUME NEW e, Sound(e)
  PROVE  SoundResult(HangUpNext(e))
BY OtherFields, HitSound DEF HangUpNext

LEMMA GiveUpSound ==
  ASSUME NEW e, Sound(e)
  PROVE  SoundResult(GiveUp(e))
<1> DEFINE r == Answer(e, PurposeRow(e), e.fr_type)
           tried == [r.sa EXCEPT !.fr_type = "fr_ans_timeout_purpose"]
<1>1. GiveUp(e) \in {Hit(tried), HangUpNext(r.sa)}
  BY DEF GiveUp
<1>2. Sound(r.sa)
  BY PurposeRowIsRow, AnswerSound DEF SoundResult
<1> HIDE DEF r
<1>3. Sound(tried)
  BY <1>2, OtherFields
<1> HIDE DEF tried
<1> QED
  BY <1>1, <1>2, <1>3, HitSound, HangUpNextSound

(* The handlers of silence count ticks, and never past the limit.            *)
LEMMA WaitHandleSound ==
  ASSUME NEW e, Sound(e)
  PROVE  SoundResult(WaitHandle(e))
<1> DEFINE n == e.timeout + 1
<1>1. n \in Nat /\ n <= SEC_5_0 /\ 0 < SEC_5_0
  BY DialogAssumption DEF Sound
<1>2. Sound([e EXCEPT !.timeout = 0])
  BY <1>1, TimeoutSound
<1>3. SoundResult(PublicAnswer([e EXCEPT !.timeout = 0], PublicRow("wait0"), e.fr_type))
  BY <1>2, PublicRowIsRow, PublicAnswerSound
<1>4. ASSUME ~(n >= SEC_2_0 /\ n = SEC_5_0)
      PROVE  SoundResult(Miss([e EXCEPT !.timeout = n]))
  <2>1. n < SEC_5_0
    BY <1>1, <1>4, DialogAssumption
  <2> QED
    BY <1>1, <2>1, TimeoutSound, HitSound
<1> QED
  BY <1>3, <1>4 DEF WaitHandle

LEMMA AnswerTimeoutSound ==
  ASSUME NEW e, Sound(e)
  PROVE  SoundResult(AnswerTimeout(e))
<1> DEFINE n == e.timeout + 1
           reset == [e EXCEPT !.timeout = 0]
           late == TimeAnswer(reset)
           success == [reset EXCEPT !.continue_event = "evt_success"]
           row == Named(Publics, Numbered("ansout", e.timeout_cnt, 0))
<1>1. n \in Nat /\ 0 < SEC_5_0
  BY DialogAssumption DEF Sound
<1>2. \/ AnswerTimeout(e) = Miss([e EXCEPT !.timeout = n]) /\ n < SEC_5_0
      \/ AnswerTimeout(e) \in {Answer(reset, Here(e, "auto0"), "fr_auto0"), Hit(success),
                               late, Answer(late.sa, Here(e, "auto"), "fr_auto"),
                               GiveUp(late.sa),
                               PublicAnswer(late.sa, row, "fr_ans_timeout")}
  BY DEF AnswerTimeout
<1>3. n < SEC_5_0 => SoundResult(Miss([e EXCEPT !.timeout = n]))
  BY <1>1, TimeoutSound, HitSound
<1>4. Sound(reset)
  BY <1>1, TimeoutSound
<1> HIDE DEF reset
<1>5. SoundResult(late) /\ Sound(late.sa)
  BY <1>4, TimeAnswerSound DEF SoundResult
<1>6. SoundResult(Hit(success))
  BY <1>4, OtherFields, HitSound
<1>7. row \in RowOf(Publics)
  BY NamedIsRow, DatabaseAssumption
<1> HIDE DEF n, late, success, row
<1> QED
  BY <1>2, <1>3, <1>4, <1>5, <1>6, <1>7, HereIsRow, AnswerSound, GiveUpSound,
     PublicAnswerSound

LEMMA SilentTimeoutSound ==
  ASSUME NEW e, Sound(e)
  PROVE  SoundResult(SilentTimeout(e))
<1> DEFINE n == e.timeout + 1
           reset == [e EXCEPT !.timeout = 0]
           r == Answer(reset, ById(Answers, 0), "fr_sil_timeout")
           row == Named(Publics, Numbered("timeout", e.timeout_cnt - 1, 0))
           hello == [r EXCEPT !.sa.fr_type = "fr_sil_timeout"]
<1>1. n \in Nat /\ n <= SEC_5_0 /\ 0 < SEC_5_0 /\ SEC_2_0 < SEC_5_0
  BY DialogAssumption DEF Sound
<1>2. \/ SilentTimeout(e) = Miss([e EXCEPT !.timeout = n]) /\ (n < SEC_2_0 \/ n # SEC_5_0)
      \/ SilentTimeout(e) \in {HangUpNext(reset), hello,
                               PublicAnswer(reset, row, "fr_sil_timeout")}
  BY DEF SilentTimeout
<1>3. (n < SEC_2_0 \/ n # SEC_5_0) => SoundResult(Miss([e EXCEPT !.timeout = n]))
  <2> HAVE n < SEC_2_0 \/ n # SEC_5_0
  <2>1. n < SEC_5_0
    BY <1>1, DialogAssumption
  <2> QED
    BY <1>1, <2>1, TimeoutSound, HitSound
<1>4. Sound(reset)
  BY <1>1, TimeoutSound
<1> HIDE DEF reset
<1>5. SoundResult(r)
  BY <1>4, ByIdIsRow, AnswerSound
<1>6. SoundResult(hello)
  <2> DEFINE f == [r.sa EXCEPT !.fr_type = "fr_sil_timeout"]
  <2>1. hello = [r EXCEPT !.sa = f]
    OBVIOUS
  <2>2. Sound(f)
    BY <1>5, OtherFields DEF SoundResult
  <2> HIDE DEF f, r, hello
  <2> QED
    BY <1>5, <2>1, <2>2 DEF SoundResult
<1>7. row \in RowOf(Publics)
  BY NamedIsRow, DatabaseAssumption
<1> HIDE DEF n, hello, row
<1> QED
  BY <1>2, <1>3, <1>4, <1>6, <1>7, HangUpNextSound, PublicAnswerSound

\* A result whose status is set.
LEMMA StatusResult ==
  ASSUME NEW r, SoundResult(r), NEW status \in SystemStatus
  PROVE  SoundResult([r EXCEPT !.sa.system_status = status])
<1> DEFINE f == [r.sa EXCEPT !.system_status = status]
<1>1. [r EXCEPT !.sa.system_status = status] = [r EXCEPT !.sa = f]
  OBVIOUS
<1>2. Sound(f)
  BY StatusSound DEF SoundResult
<1> HIDE DEF f
<1> QED
  BY <1>1, <1>2 DEF SoundResult

LEMMA TelphoneSound ==
  ASSUME NEW e, Sound(e)
  PROVE  SoundResult(TelphoneHandle(e))
<1> DEFINE r == Answer(e, ById(Answers, 0), e.fr_type)
<1>1. SoundResult(r)
  BY ByIdIsRow, AnswerSound
<1>2. TelphoneHandle(e) = [r EXCEPT !.sa.system_status = "s_start"]
  BY DEF TelphoneHandle
<1> HIDE DEF r
<1> QED
  BY <1>1, <1>2, StatusResult DEF SystemStatus

LEMMA StartTalkSound ==
  ASSUME NEW e, Sound(e), NEW u
  PROVE  SoundResult(StartTalk(e, u))
<1> DEFINE a == Matching(Answers, Own("nihao"), u.heard)
           b == ById(Answers, 1)
           r == FirstOf(e, << <<a, "fr_start">>, <<b, "fr_start">> >>)
<1>1. a \in RowOf(Answers) /\ b \in RowOf(Answers)
  BY MatchingIsRow, ByIdIsRow, DatabaseAssumption
<1>2. StartTalk(e, u) \in {[r EXCEPT !.sa.system_status = "s_running"], r}
  BY DEF StartTalk
<1> HIDE DEF a, b
<1>3. SoundResult(r)
  BY <1>1, TwoRows, FirstOfSound
<1> HIDE DEF r
<1> QED
  BY <1>2, <1>3, StatusResult DEF SystemStatus

LEMMA NoContextRead == Read(NoContext) /\ Read([NoContext EXCEPT !.next = "#"])
BY DatabaseAssumption DEF Read, NoContext, Context, Ids, Signs

LEMMA HangUpSound ==
  ASSUME NEW e, Sound(e)
  PROVE  SoundResult(HangUp(e))
<1> DEFINE c == [NoContext EXCEPT !.next = "#"]
           f == [e EXCEPT !.context = c]
<1>1. HangUp(e) = Hit([f EXCEPT !.silent = FALSE])
  BY DEF HangUp
<1>2. Sound(f)
  BY NoContextRead, ContextSound
<1> HIDE DEF f
<1> QED
  BY <1>1, <1>2, OtherFields, HitSound

LEMMA ContinueRunSound ==
  ASSUME NEW e, Sound(e)
  PROVE  SoundResult(ContinueRun(e))
<1> DEFINE up == ToParent(e)
           purpose == Answer(up, OwnRow(UnusedPurpose(context_queue)), e.fr_type)
           on == FirstOf(up, << <<NextUnusedRow(up, up.context.cur), e.fr_type>>,
                                <<Here(up, "any"), e.fr_type>> >>)
<1>1. \/ ContinueRun(e) \in {purpose, on}
      \/ ContinueRun(e) \in {[purpose EXCEPT !.ret = -1], [on EXCEPT !.ret = -1]}
  BY DEF ContinueRun
<1>2. Sound(up)
  BY ToParentSound
<1>3. NextUnusedRow(up, up.context.cur) \in RowOf(Answers)
  BY OwnRowIsRow DEF NextUnusedRow
<1> HIDE DEF up
<1>4. SoundResult(purpose) /\ SoundResult(on)
  BY <1>2, <1>3, OwnRowIsRow, HereIsRow, TwoRows, AnswerSound, FirstOfSound
<1> HIDE DEF purpose, on
<1> QED
  BY <1>1, <1>4 DEF SoundResult

LEMMA BeforeCallSound ==
  ASSUME NEW e, Sound(e), NEW u
  PROVE  SoundResult(BeforeCall(e, u))
<1> DEFINE row == Matching(Publics, Public("before_call"), u.heard_public)
           r == PublicAnswer(e, row, e.fr_type)
<1>1. BeforeCall(e, u) \in {r, [r EXCEPT !.ret = 2]}
  BY DEF BeforeCall
<1>2. row \in RowOf(Publics)
  BY MatchingIsRow, DatabaseAssumption
<1> HIDE DEF row
<1>3. SoundResult(r)
  BY <1>2, PublicAnswerSound
<1> HIDE DEF r
<1> QED
  BY <1>1, <1>3 DEF SoundResult

LEMMA HandledSound ==
  ASSUME NEW e, Sound(e), NEW u
  PROVE  SoundResult(Handled(e, u))
<1>1. /\ SoundResult(Answer(e, OwnRow("busy"), "fr_busy"))
      /\ SoundResult(Answer(e, Here(e, "sure"), "fr_sure"))
  BY OwnRowIsRow, HereIsRow, AnswerSound
<1>2. /\ SoundResult(PublicAnswer(e, PublicRow("skip_session_fail"),
                                  "fr_skip_session_fail"))
      /\ SoundResult(PublicAnswer(e, PublicRow("skip_session_sucsses"),
                                  "fr_skip_session_success"))
  BY PublicRowIsRow, PublicAnswerSound
<1>3. SoundResult([ret |-> 2, sa |-> e])
  BY DEF SoundResult
<1>4. Handled(e, u) \in
        {AnswerHandle(e, u), AskHandle(e, u), WaitHandle(e), AnswerTimeout(e),
         SilentTimeout(e), TelphoneHandle(e), StartTalk(e, u), HangUp(e),
         Answer(e, OwnRow("busy"), "fr_busy"), ContinueRun(e), BeforeCall(e, u),
         Answer(e, Here(e, "sure"), "fr_sure"),
         PublicAnswer(e, PublicRow("skip_session_fail"), "fr_skip_session_fail"),
         PublicAnswer(e, PublicRow("skip_session_sucsses"), "fr_skip_session_success"),
         [ret |-> 2, sa |-> e]}
  BY DEF Handled
<1> QED
  BY <1>1, <1>2, <1>3, <1>4, AnswerHandleSound, AskHandleSound, WaitHandleSound,
     AnswerTimeoutSound, SilentTimeoutSound, TelphoneSound, StartTalkSound, HangUpSound,
     ContinueRunSound, BeforeCallSound

LEMMA ChainedSound ==
  ASSUME NEW r, SoundResult(r), NEW event
  PROVE  Sound(Chained(r, event))
<1> DEFINE e == r.sa
           up == [e.context EXCEPT !.cur = e.context.parent]
           ask == [e EXCEPT !.continue_event = "evt_pre_answer"]
           on == [e EXCEPT !.context.cur = e.context.parent,
                           !.continue_event = "evt_continue_run"]
           moved == [e EXCEPT !.context = up]
<1>1. Sound(e)
  BY DEF SoundResult
<1>2. \E f \in {ask, on, e} :
        Chained(r, event) = [f EXCEPT !.event = f.continue_event,
                                      !.continue_event = "evt_null"]
  BY DEF Chained
<1>3. Sound(ask)
  BY <1>1, OtherFields
<1>4. Sound(on)
  <2>1. Read(up)
    BY <1>1 DEF Sound, Read, Context
  <2>2. Sound(moved)
    BY <1>1, <2>1, ContextSound
  <2>3. on = [moved EXCEPT !.continue_event = "evt_continue_run"]
    BY <1>1 DEF Sound, Fields
  <2> HIDE DEF moved, on
  <2> QED
    BY <2>2, <2>3, OtherFields
<1> HIDE DEF e, ask, on
<1>5. PICK f \in {ask, on, e} :
        Chained(r, event) = [f EXCEPT !.event = f.continue_event,
                                      !.continue_event = "evt_null"]
  BY <1>2
<1>6. Sound(f)
  BY <1>1, <1>3, <1>4
<1> DEFINE next == [f EXCEPT !.event = f.continue_event]
<1>7. Chained(r, event) = [next EXCEPT !.continue_event = "evt_null"]
  BY <1>5
<1>8. Sound(next)
  BY <1>6, OtherFields
<1> HIDE DEF next
<1>9. Sound([next EXCEPT !.continue_event = "evt_null"])
  BY <1>8, OtherFields
<1> QED
  BY <1>7, <1>9

\* What a turn of a loop hands on: a result, and whether the loop goes on.
Progress(p) == p.more \in BOOLEAN /\ SoundResult(p)

LEMMA TurnSound ==
  ASSUME NEW p, Progress(p), NEW u
  PROVE  Progress(Turn(p, u))
<1> DEFINE r == Handled(p.sa, u)
           f == Chained(r, p.sa.event)
<1>1. Turn(p, u) \in {[ret |-> r.ret, sa |-> f, more |-> f.event # "evt_null"], p}
  BY DEF Turn, Ended
<1>2. SoundResult(r)
  BY HandledSound DEF Progress, SoundResult
<1>3. Sound(f)
  BY <1>2, ChainedSound
<1> HIDE DEF r, f
<1> DEFINE more == f.event # "evt_null"
           q == [ret |-> r.ret, sa |-> f, more |-> more]
<1>4. Turn(p, u) \in {q, p}
  BY <1>1
<1>5. more \in BOOLEAN
  OBVIOUS
<1> HIDE DEF more
<1>6. q.more \in BOOLEAN /\ SoundResult(q)
  BY <1>3, <1>5 DEF SoundResult
<1> HIDE DEF q
<1> QED
  BY <1>4, <1>6 DEF Progress

-----------------------------------------------------------------------------
(* The loops.  Each is a function on 0 .. n defined from its value before:    *)
(* the prover has to be shown that there is one, and then goes along it.     *)

\* Numbers up to n that a step leads on from one to the next.
Inductive(S, n) == 0 \in S /\ \A m \in Nat : m \in S /\ m < n => m + 1 \in S

LEMMA UpTo ==
  ASSUME NEW n \in Nat, NEW S, Inductive(S, n)
  PROVE  \A m \in 0 .. n : m \in S
<1> SUFFICES ASSUME NEW m \in 0 .. n, m \notin S PROVE FALSE
  OBVIOUS
<1> DEFINE T == {i \in 0 .. n : i \notin S}
<1>1. T \subseteq Nat /\ m \in T
  OBVIOUS
<1> HIDE DEF T
<1>2. \E x \in T : \A y \in T : x <= y
  BY <1>1, Least
<1> USE DEF T
<1>3. PICK x \in T : \A y \in T : x <= y
  BY <1>2
<1>4. x \in Nat /\ x <= n /\ x \notin S
  OBVIOUS
<1>5. x # 0
  BY <1>4 DEF Inductive
<1>6. x - 1 \in Nat /\ x - 1 < n /\ x - 1 \in 0 .. n /\ ~(x <= x - 1)
  BY <1>4, <1>5
<1>7. x - 1 \in S
  BY <1>3, <1>6
<1>8. (x - 1) + 1 \in S
  BY <1>6, <1>7 DEF Inductive
<1> QED
  BY <1>4, <1>8

(* sa_event_handle.                                                          *)
LEMMA EventHandleSound ==
  ASSUME NEW e, Sound(e), NEW u
  PROVE  Progress(EventHandle(e, u))
<1> DEFINE start == [ret |-> 0, sa |-> e, more |-> TRUE]
           Step(p) == Turn(p, u)
           turns == CHOOSE f : f = [n \in 0 .. MaxTurns |->
                                      IF n = 0 THEN start ELSE Step(f[n - 1])]
           Table(f, m) == f = [n \in 0 .. m |-> IF n = 0 THEN start ELSE Step(f[n - 1])]
           S == {m \in Nat : \E f : Table(f, m)}
           G == {m \in Nat : Progress(turns[m])}
<1>1. EventHandle(e, u) = turns[MaxTurns]
  BY DEF EventHandle
<1>2. MaxTurns \in Nat
  BY DialogAssumption
<1>3. Progress(start)
  BY DEF Progress, SoundResult
<1>4. ASSUME NEW p, Progress(p) PROVE Progress(Step(p))
  BY <1>4, TurnSound
<1> HIDE DEF start, Step
<1>5. Inductive(S, MaxTurns)
  <2>1. Table([n \in 0 .. 0 |-> start], 0)
    OBVIOUS
  <2>2. ASSUME NEW m \in Nat, NEW f, Table(f, m)
        PROVE  \E g : Table(g, m + 1)
    <3> DEFINE g == [n \in 0 .. m + 1 |-> IF n <= m THEN f[n] ELSE Step(f[m])]
    <3>1. ASSUME NEW n \in 0 .. m + 1
          PROVE  g[n] = IF n = 0 THEN start ELSE Step(g[n - 1])
      <4>1. CASE n = m + 1
        BY <4>1
      <4>2. CASE n <= m
        BY <4>2, <2>2
      <4> QED
        BY <4>1, <4>2
    <3>2. Table(g, m + 1)
      BY <3>1
    <3> QED
      BY <3>2
  <2>3. 0 \in S
    BY <2>1
  <2>4. ASSUME NEW m \in Nat, m \in S PROVE m + 1 \in S
    <3>1. PICK f : Table(f, m)
      BY <2>4
    <3>2. \E g : Table(g, m + 1)
      BY <2>2, <3>1
    <3> HIDE DEF Table
    <3> QED
      BY <3>2
  <2> HIDE DEF S
  <2> QED
    BY <2>3, <2>4 DEF Inductive
<1>6. \E f : Table(f, MaxTurns)
  BY <1>2, <1>5, UpTo
<1>7. Table(turns, MaxTurns)
  BY <1>6
<1> HIDE DEF turns
<1>8. Inductive(G, MaxTurns)
  <2>1. 0 \in G
    BY <1>2, <1>3, <1>7
  <2>2. ASSUME NEW m \in Nat, m \in G, m < MaxTurns PROVE m + 1 \in G
    <3>1. turns[m + 1] = Step(turns[m])
      BY <1>2, <1>7, <2>2
    <3> QED
      BY <1>4, <2>2, <3>1
  <2> QED
    BY <2>1, <2>2 DEF Inductive
<1> QED
  BY <1>1, <1>2, <1>8, UpTo

LEMMA HearSound ==
  ASSUME NEW p, Progress(p), NEW u, NEW spoken
  PROVE  Progress(Hear(p, u, spoken))
<1> DEFINE f == IF spoken THEN SetEvent(p.sa, u) ELSE p.sa
           g == [p.sa EXCEPT !.event = u.event]
<1>1. Hear(p, u, spoken) \in {p, EventHandle(f, u)}
  BY DEF Hear
<1>2. Sound(p.sa)
  BY DEF Progress, SoundResult
<1>3. Sound(SetEvent(p.sa, u))
  <2>1. Frame(p.sa, SetEvent(p.sa, u))
    BY <1>2 DEF SetEvent, Frame, Sound, Fields
  <2> QED
    BY <1>2, <2>1, FrameSound
<1>4. Sound(f)
  BY <1>2, <1>3
<1> HIDE DEF f
<1> QED
  BY <1>1, <1>4, EventHandleSound

(* The loop over the words.                                                  *)
LEMMA WordLoopSound ==
  ASSUME NEW e, Sound(e), NEW words, Len(words) \in Nat
  PROVE  Progress(WordLoop(e, words))
<1> DEFINE spoken == e.event = "evt_null"
           heard  == IF spoken THEN words
                     ELSE <<IF words = <<>> THEN Silence ELSE words[1]>>
           start == [ret |-> 0, sa |-> e, more |-> FALSE]
           Step(p, n) == Hear(p, heard[n], spoken)
           N == Len(heard)
           after == CHOOSE f : f = [n \in 0 .. N |->
                                      IF n = 0 THEN start ELSE Step(f[n - 1], n)]
           end == after[N]
           Table(f, m) == f = [n \in 0 .. m |->
                                 IF n = 0 THEN start ELSE Step(f[n - 1], n)]
           S == {m \in Nat : \E f : Table(f, m)}
           G == {m \in Nat : Progress(after[m])}
<1>1. WordLoop(e, words) \in {[end EXCEPT !.sa.event = "evt_ai_hang_up"], end}
  BY DEF WordLoop, Refused
<1>2. N \in Nat
  <2>1. CASE spoken
    BY <2>1
  <2>2. CASE ~spoken
    BY <2>2
  <2> QED
    BY <2>1, <2>2
<1>3. Progress(start)
  BY DEF Progress, SoundResult
<1>4. ASSUME NEW p, Progress(p), NEW n PROVE Progress(Step(p, n))
  BY <1>4, HearSound
<1> HIDE DEF start, Step, N
<1>5. Inductive(S, N)
  <2>1. Table([n \in 0 .. 0 |-> start], 0)
    OBVIOUS
  <2>2. ASSUME NEW m \in Nat, NEW f, Table(f, m)
        PROVE  \E g : Table(g, m + 1)
    <3> DEFINE g == [n \in 0 .. m + 1 |-> IF n <= m THEN f[n] ELSE Step(f[m], n)]
    <3>1. ASSUME NEW n \in 0 .. m + 1
          PROVE  g[n] = IF n = 0 THEN start ELSE Step(g[n - 1], n)
      <4>1. CASE n = m + 1
        BY <4>1
      <4>2. CASE n <= m
        BY <4>2, <2>2
      <4> QED
        BY <4>1, <4>2
    <3>2. Table(g, m + 1)
      BY <3>1
    <3> QED
      BY <3>2
  <2>3. 0 \in S
    BY <2>1
  <2>4. ASSUME NEW m \in Nat, m \in S PROVE m + 1 \in S
    <3>1. PICK f : Table(f, m)
      BY <2>4
    <3>2. \E g : Table(g, m + 1)
      BY <2>2, <3>1
    <3> HIDE DEF Table
    <3> QED
      BY <3>2
  <2> HIDE DEF S
  <2> QED
    BY <2>3, <2>4 DEF Inductive
<1>6. \E f : Table(f, N)
  BY <1>2, <1>5, UpTo
<1>7. Table(after, N)
  BY <1>6
<1> HIDE DEF after
<1>8. Inductive(G, N)
  <2>1. 0 \in G
    BY <1>2, <1>3, <1>7
  <2>2. ASSUME NEW m \in Nat, m \in G, m < N PROVE m + 1 \in G
    <3>1. after[m + 1] = Step(after[m], m + 1)
      BY <1>2, <1>7, <2>2
    <3> QED
      BY <1>4, <2>2, <3>1
  <2> QED
    BY <2>1, <2>2 DEF Inductive
<1>9. Progress(end)
  BY <1>2, <1>8, UpTo
<1> HIDE DEF end
<1>10. Progress([end EXCEPT !.sa.event = "evt_ai_hang_up"])
  <2> DEFINE f == [end.sa EXCEPT !.event = "evt_ai_hang_up"]
  <2>1. [end EXCEPT !.sa.event = "evt_ai_hang_up"] = [end EXCEPT !.sa = f]
    OBVIOUS
  <2>2. Sound(f)
    BY <1>9, OtherFields DEF Progress, SoundResult
  <2> HIDE DEF f
  <2> QED
    BY <1>9, <2>1, <2>2 DEF Progress, SoundResult
<1> QED
  BY <1>1, <1>9, <1>10

-----------------------------------------------------------------------------
(* Words that led nowhere.                                                   *)

LEMMA QuestionNotFoundSound ==
  ASSUME NEW e, Sound(e)
  PROVE  SoundResult(QuestionNotFound(e))
<1> DEFINE floor == e.question_notfind_cur_floor
           next == IF floor + 1 > QuestionFloors THEN 1 ELSE floor + 1
           reset == [e EXCEPT !.qustion_notfind_times = 0]
           moved == [reset EXCEPT !.question_notfind_cur_floor = next]
           Row1(f) == Named(Answers, Numbered("question.notfind", f.question_notfind_cur_floor,
                                              f.qustion_notfind_times))
<1>1. \E f \in {e, moved} :
        QuestionNotFound(e) = Answer(f, Row1(f), "fr_question_notfind")
  BY DEF QuestionNotFound
<1>2. Sound(reset)
  BY OtherFields
<1>3. reset.db = e.db
  BY DEF Sound, Fields
<1>4. e.db => next \in 1 .. QuestionFloors
  <2>1. QuestionFloors \in Nat /\ QuestionFloors # 0
    BY DialogAssumption
  <2>2. e.db => floor \in 1 .. QuestionFloors
    BY DEF Sound
  <2> HIDE DEF floor
  <2> QED
    BY <2>1, <2>2
<1> HIDE DEF reset, next
<1>5. Sound(moved)
  BY <1>2, <1>3, <1>4, FloorSound
<1>6. ASSUME NEW f PROVE Row1(f) \in RowOf(Answers)
  BY NamedIsRow, DatabaseAssumption
<1> HIDE DEF moved, Row1
<1> QED
  BY <1>1, <1>5, <1>6, AnswerSound

LEMMA OtherNotFoundSound ==
  ASSUME NEW e, Sound(e)
  PROVE  SoundResult(OtherNotFound(e))
<1> DEFINE times == IF e.noting_notfind_times = NotfindNub THEN 0
                    ELSE e.noting_notfind_times
           f == [e EXCEPT !.noting_notfind_times = times]
           row == Named(Publics, Numbered("notfind", f.noting_notfind_times, 0))
<1>1. OtherNotFound(e) = PublicAnswer(f, row, "fr_other_notfind")
  BY DEF OtherNotFound
<1>2. Sound(f)
  BY OtherFields
<1>3. row \in RowOf(Publics)
  BY NamedIsRow, DatabaseAssumption
<1> HIDE DEF f, row
<1> QED
  BY <1>1, <1>2, <1>3, PublicAnswerSound

LEMMA ScoreProcessSound ==
  ASSUME NEW e, Sound(e)
  PROVE  SoundResult(ScoreProcess(e))
<1> DEFINE late == TimeAnswer(e)
<1>1. ScoreProcess(e) \in {late, QuestionNotFound(late.sa), OtherNotFound(late.sa)}
  BY DEF ScoreProcess
<1>2. SoundResult(late) /\ Sound(late.sa)
  BY TimeAnswerSound DEF SoundResult
<1> HIDE DEF late
<1> QED
  BY <1>1, <1>2, QuestionNotFoundSound, OtherNotFoundSound

LEMMA FoundSound ==
  ASSUME NEW e, Sound(e), NEW words, Len(words) \in Nat
  PROVE  Found(e, words).more \in BOOLEAN /\ Sound(Found(e, words).sa)
<1> DEFINE r == WordLoop(e, words)
<1>1. Found(e, words) = Otherwise(r, words)
  BY DEF Found
<1>2. Progress(r)
  BY WordLoopSound
<1> HIDE DEF r
<1>3. PICK f \in {r, TakeQueued(r.sa), ScoreProcess(r.sa)} :
        Otherwise(r, words) = [ret |-> f.ret, sa |-> f.sa, more |-> r.more]
  BY DEF Otherwise
<1>4. Sound(r.sa)
  BY <1>2 DEF Progress, SoundResult
<1>5. Sound(f.sa)
  <2>1. Sound(TakeQueued(r.sa).sa) /\ Sound(ScoreProcess(r.sa).sa)
    BY <1>4, TakeQueuedSound, ScoreProcessSound DEF SoundResult
  <2> QED
    BY <1>3, <1>4, <2>1
<1> QED
  BY <1>1, <1>2, <1>3, <1>5 DEF Progress

-----------------------------------------------------------------------------
(* The answer.                                                               *)

LEMMA HopSound ==
  ASSUME NEW p, Progress(p)
  PROVE  Progress(Hop(p))
<1> DEFINE r == Answer(p.sa, OwnRow(p.sa.context.skip_to), p.sa.fr_type)
           more == r.ret = 1
           q == [ret |-> r.ret, sa |-> r.sa, more |-> more]
<1>1. Hop(p) \in {[p EXCEPT !.more = FALSE], q}
  BY DEF Hop
<1>2. Sound(p.sa)
  BY DEF Progress, SoundResult
<1>3. SoundResult(r)
  BY <1>2, OwnRowIsRow, AnswerSound
<1>4. more \in BOOLEAN
  OBVIOUS
<1> HIDE DEF r, more
<1>5. Progress(q)
  BY <1>3, <1>4 DEF Progress, SoundResult
<1>6. Progress([p EXCEPT !.more = FALSE])
  BY DEF Progress, SoundResult
<1> QED
  BY <1>1, <1>5, <1>6

LEMMA SkippedSound ==
  ASSUME NEW e, Sound(e)
  PROVE  Sound(Skipped(e))
<1> DEFINE next == e.context.next
           to == IF IsPurpose(context_queue, next) THEN UnusedPurpose(context_queue)
                 ELSE IF IsFlow(next) THEN NextUnused(context_queue, next, e.purpose_flag)
                 ELSE ""
           marked == [e EXCEPT !.fr_type = "fr_skip"]
           skip == CleanQueue(marked)
           c == [skip.context EXCEPT !.next = to]
           f == [skip EXCEPT !.context = c]
<1>1. Skipped(e) \in {skip, Answer(f, OwnRow(to), "fr_skip").sa}
  BY DEF Skipped
<1>2. to \in ContextName
  BY PurposeIsName, NextIsName, DatabaseAssumption
<1> HIDE DEF to
<1>3. Sound(marked)
  BY OtherFields
<1> HIDE DEF marked
<1>4. Sound(skip)
  BY <1>3, CleanQueueSound
<1> HIDE DEF skip
<1>5. Read(c)
  BY <1>2, <1>4 DEF Sound, Read, Context
<1> HIDE DEF c
<1>6. Sound(f)
  BY <1>4, <1>5, ContextSound
<1> HIDE DEF f
<1>7. SoundResult(Answer(f, OwnRow(to), "fr_skip"))
  BY <1>6, OwnRowIsRow, AnswerSound
<1> QED
  BY <1>1, <1>4, <1>7 DEF SoundResult

LEMMA SkipSound ==
  ASSUME NEW e, Sound(e)
  PROVE  Sound(Skip(e))
<1> DEFINE N == SkipLimit - 1
           start == [ret |-> 0, sa |-> e, more |-> TRUE]
           after == CHOOSE f : f = [n \in 0 .. N |->
                                      IF n = 0 THEN start ELSE Hop(f[n - 1])]
           end == after[N]
           Table(f, m) == f = [n \in 0 .. m |-> IF n = 0 THEN start ELSE Hop(f[n - 1])]
           S == {m \in Nat : \E f : Table(f, m)}
           G == {m \in Nat : Progress(after[m])}
<1>1. Skip(e) \in {Skipped(end.sa), e}
  BY DEF Skip
<1>2. N \in Nat
  BY DialogAssumption
<1>3. Progress(start)
  BY DEF Progress, SoundResult
<1> HIDE DEF start, N
<1>4. Inductive(S, N)
  <2>1. Table([n \in 0 .. 0 |-> start], 0)
    OBVIOUS
  <2>2. ASSUME NEW m \in Nat, NEW f, Table(f, m)
        PROVE  \E g : Table(g, m + 1)
    <3> DEFINE g == [n \in 0 .. m + 1 |-> IF n <= m THEN f[n] ELSE Hop(f[m])]
    <3>1. ASSUME NEW n \in 0 .. m + 1
          PROVE  g[n] = IF n = 0 THEN start ELSE Hop(g[n - 1])
      <4>1. CASE n = m + 1
        BY <4>1
      <4>2. CASE n <= m
        BY <4>2, <2>2
      <4> QED
        BY <4>1, <4>2
    <3>2. Table(g, m + 1)
      BY <3>1
    <3> QED
      BY <3>2
  <2>3. 0 \in S
    BY <2>1
  <2>4. ASSUME NEW m \in Nat, m \in S PROVE m + 1 \in S
    <3>1. PICK f : Table(f, m)
      BY <2>4
    <3>2. \E g : Table(g, m + 1)
      BY <2>2, <3>1
    <3> HIDE DEF Table
    <3> QED
      BY <3>2
  <2> HIDE DEF S
  <2> QED
    BY <2>3, <2>4 DEF Inductive
<1>5. \E f : Table(f, N)
  BY <1>2, <1>4, UpTo
<1>6. Table(after, N)
  BY <1>5
<1> HIDE DEF after
<1>7. Inductive(G, N)
  <2>1. 0 \in G
    BY <1>2, <1>3, <1>6
  <2>2. ASSUME NEW m \in Nat, m \in G, m < N PROVE m + 1 \in G
    <3>1. after[m + 1] = Hop(after[m])
      BY <1>2, <1>6, <2>2
    <3> QED
      BY HopSound, <2>2, <3>1
  <2> QED
    BY <2>1, <2>2 DEF Inductive
<1>8. Progress(end)
  BY <1>2, <1>7, UpTo
<1> HIDE DEF end
<1> QED
  BY <1>1, <1>8, SkippedSound DEF Progress, SoundResult

\* What becomes of a request: an answer and sa_info after it.
Decision(d) == d.type \in ResponseType /\ Sound(d.sa)

LEMMA KeptSound ==
  ASSUME NEW e, Sound(e)
  PROVE  /\ Decision(Kept(e)) /\ Decision(Kept(CleanQueue(e))) /\ Decision(Kept(PutQueued(e)))
         /\ \A type \in {"READ", "CLEAN"} :
               Decision(Said(type, e)) /\ Decision(Said(type, CleanQueue(e)))
BY CleanQueueSound, PutQueuedSound DEF Kept, Said, Decision, ResponseType

LEMMA InterruptSound ==
  ASSUME NEW e, Sound(e), NEW when
  PROVE  Decision(Interrupt(e, when))
<1>1. Interrupt(e, when) \in {Said("CLEAN", CleanQueue(e)), Kept(CleanQueue(e)),
                              Said("CLEAN", e), Kept(PutQueued(e))}
  BY DEF Interrupt
<1> QED
  BY <1>1, KeptSound

LEMMA ReplySound ==
  ASSUME NEW e, Sound(e), NEW when
  PROVE  Decision(Reply(e, when))
<1> DEFINE better == IF e.context.priority < GENERAL_PRIORITY THEN TakeQueued(e).sa ELSE e
<1>1. Reply(e, when) \in {Kept(CleanQueue(e)), Said("CLEAN", CleanQueue(e)),
                          Kept(PutQueued(e)), Said("READ", e), Kept(better),
                          Said("READ", better)}
  BY DEF Reply
<1>2. Sound(better)
  BY TakeQueuedSound DEF SoundResult
<1> HIDE DEF better
<1> QED
  BY <1>1, <1>2, KeptSound

\* An answer, and sa_info after it.
Reported(a) == DOMAIN a = {"type", "context", "sa"} /\ Decision(a) /\ Read(a.context)

LEMMA OutcomeIsType ==
  ASSUME NEW e, NEW type \in ResponseType
  PROVE  Outcome(e, type) \in ResponseType
BY DEF Outcome, ResponseType

LEMMA ToldSound ==
  ASSUME NEW e, Sound(e), NEW type \in ResponseType
  PROVE  Reported(Told(e, type))
<1> DEFINE times  == IF e.context.id = e.play_response_id THEN e.this_word_say_times + 1 ELSE 0
           enough == times >= 3
           next   == IF enough THEN "!"
                     ELSE IF type = "SKIP_IVR" /\ e.context.next = "#9" THEN AfterTransfer
                     ELSE e.context.next
           queued == IF e.notclean_waitqueue THEN [e EXCEPT !.notclean_waitqueue = FALSE]
                     ELSE CleanQueue(e)
           status == IF type = "CLOSE" THEN "s_hangup" ELSE queued.system_status
           ivr    == IF ToHuman(e) THEN 1 ELSE queued.ivr_cnt
           said   == IF enough THEN 0 ELSE times
           c      == [e.context EXCEPT !.next = next]
           f == [queued EXCEPT !.system_status = status, !.ivr_cnt = ivr,
                               !.this_word_say_times = said]
           g == [queued EXCEPT !.system_status = status]
<1>1. Told(e, type) = [type |-> type, context |-> c, sa |-> f]
  BY DEF Told
<1>2. next \in ContextName
  BY DatabaseAssumption, DialogAssumption DEF Signs, Sound, Read, Context
<1> HIDE DEF next
<1>3. Read(c)
  BY <1>2 DEF Sound, Read, Context
<1>4. Sound(queued)
  BY CleanQueueSound, OtherFields
<1>5. status \in SystemStatus
  BY <1>4 DEF Sound, SystemStatus
<1> HIDE DEF queued, status, ivr, said, c
<1>6. Sound(g)
  BY <1>4, <1>5, StatusSound
<1>7. Frame(g, f)
  BY <1>4 DEF Sound, Fields, Frame
<1> HIDE DEF g
<1>8. Sound(f)
  BY <1>6, <1>7, FrameSound
<1> HIDE DEF f
<1> QED
  BY <1>1, <1>3, <1>8 DEF Reported, Decision

LEMMA FormatResponseSound ==
  ASSUME NEW e, Sound(e), NEW when, Read(response.context)
  PROVE  Reported(FormatResponse(e, when))
<1> DEFINE d == IF IsHello(e) THEN Said("CLEAN", CleanQueue(e))
                ELSE IF e.ai_status = "ai_play" THEN Interrupt(e, when)
                ELSE Reply(e, when)
           f == [d.sa EXCEPT !.prev_fr_type = d.sa.fr_type]
           same == [type |-> "KEEP", context |-> response.context, sa |-> f]
<1>1. FormatResponse(e, when) \in {same, Told(f, Outcome(f, d.type))}
  BY DEF FormatResponse
<1>2. Decision(d)
  BY KeptSound, InterruptSound, ReplySound
<1> HIDE DEF d
<1>3. Sound(f)
  BY <1>2, OtherFields DEF Decision
<1> HIDE DEF f
<1>4. Reported(same)
  BY <1>3 DEF Reported, Decision, ResponseType
<1>5. Reported(Told(f, Outcome(f, d.type)))
  BY <1>2, <1>3, OutcomeIsType, ToldSound DEF Decision
<1> QED
  BY <1>1, <1>4, <1>5

LEMMA UpdateSystemSound ==
  ASSUME NEW e, Sound(e)
  PROVE  Sound(UpdateSystem(e))
<1> DEFINE score == Scored(e.fr_type, e.context.score)
           c == [e.context EXCEPT !.score = score]
           status == IF e.fr_type = "fr_skip_session_success" THEN "s_session"
                     ELSE IF e.fr_type = "fr_skip_session_fail" /\ e.system_status = "s_session"
                     THEN "s_running" ELSE e.system_status
           f == [e EXCEPT !.context = c]
           g == [f EXCEPT !.system_status = status]
<1>1. DOMAIN e = Fields
  BY DEF Sound
<1>2. Frame(g, UpdateSystem(e))
  <2>1. UpdateSystem(e).context = c /\ UpdateSystem(e).system_status = status
    BY <1>1 DEF UpdateSystem, Fields
  <2>2. g.context = c /\ g.system_status = status
    BY <1>1 DEF Fields
  <2>3. DOMAIN UpdateSystem(e) = DOMAIN g
    BY DEF UpdateSystem
  <2>4. /\ UpdateSystem(e).ai_status = g.ai_status
        /\ UpdateSystem(e).wait_queue = g.wait_queue
        /\ UpdateSystem(e).play_response_id = g.play_response_id
        /\ UpdateSystem(e).timeout = g.timeout
        /\ UpdateSystem(e).db = g.db
        /\ UpdateSystem(e).question_notfind_cur_floor = g.question_notfind_cur_floor
    BY <1>1 DEF UpdateSystem, Fields
  <2> QED
    BY <2>1, <2>2, <2>3, <2>4 DEF Frame
<1>3. Read(c)
  BY DEF Sound, Read, Context, Scored
<1>4. status \in SystemStatus
  BY DEF Sound, SystemStatus
<1> HIDE DEF c, status
<1>5. Sound(f)
  BY <1>3, ContextSound
<1> HIDE DEF f
<1>6. Sound(g)
  BY <1>4, <1>5, StatusSound
<1> HIDE DEF g
<1> QED
  BY <1>2, <1>6, FrameSound

LEMMA AnsweredSound ==
  ASSUME NEW e, Sound(e), NEW when, Read(response.context)
  PROVE  Reported(Answered(e, when))
<1> DEFINE reset == [e EXCEPT !.timeout = 0]
           a == FormatResponse(Skip(reset), when)
           f == UpdateSystem(a.sa)
<1>1. Answered(e, when) \in {a, [a EXCEPT !.sa = f]}
  BY DEF Answered, Updated
<1>2. Sound(reset)
  <2>1. 0 < SEC_5_0
    BY DialogAssumption
  <2> QED
    BY <2>1, TimeoutSound
<1> HIDE DEF reset
<1>3. Reported(a)
  BY <1>2, SkipSound, FormatResponseSound
<1> HIDE DEF a
<1>4. Sound(f)
  BY <1>3, UpdateSystemSound DEF Reported, Decision
<1> HIDE DEF f
<1> QED
  BY <1>1, <1>3, <1>4 DEF Reported, Decision

-----------------------------------------------------------------------------
(* The requests.                                                             *)

LEMMA FormattedSound ==
  ASSUME NEW e, Sound(e), NEW type \in RequestType, NEW old
  PROVE  Sound(Formatted(e, type, old))
<1> DEFINE heard == [e EXCEPT !.fr_type = "fr_null", !.event = SpeechEvent(e, old)]
<1>1. \/ Formatted(e, type, old) = heard
      \/ \E x : Formatted(e, type, old) = [e EXCEPT !.event = x]
  BY DEF Formatted, RequestType
<1>2. Frame(e, heard)
  BY DEF Sound, Fields, Frame
<1> HIDE DEF heard
<1> QED
  BY <1>1, <1>2, FrameSound, OtherFields

LEMMA OpenedSound ==
  ASSUME NEW e, Sound(e), NEW readable
  PROVE  Sound(Opened(e, readable))
<1> DEFINE status == IF e.event = "evt_ai_183" THEN "s_before_call" ELSE "s_start"
           failed == [e EXCEPT !.last_id = -1, !.system_status = "s_before_call",
                               !.event = "evt_ai_hang_up"]
           opened == [e EXCEPT !.last_id = -1, !.db = TRUE,
                               !.question_notfind_cur_floor = 1, !.system_status = status]
<1>1. Opened(e, readable) \in {e, failed, opened}
  BY DEF Opened
<1>2. DOMAIN e = Fields
  BY DEF Sound
<1>3. Sound(failed)
  <2> DEFINE f == [e EXCEPT !.system_status = "s_before_call"]
  <2>1. Sound(f)
    BY StatusSound DEF SystemStatus
  <2>2. Frame(f, failed)
    BY <1>2 DEF Fields, Frame
  <2> HIDE DEF f, failed
  <2> QED
    BY <2>1, <2>2, FrameSound
<1>4. Sound(opened)
  <2>1. status \in SystemStatus
    BY DEF SystemStatus
  <2> HIDE DEF status
  <2>2. /\ DOMAIN opened = Fields
        /\ opened.system_status = status /\ opened.question_notfind_cur_floor = 1
    BY <1>2 DEF Fields
  <2>3. /\ opened.context = e.context /\ opened.ai_status = e.ai_status
        /\ opened.wait_queue = e.wait_queue
        /\ opened.play_response_id = e.play_response_id /\ opened.timeout = e.timeout
    BY <1>2 DEF Fields
  <2>4. 1 \in 1 .. QuestionFloors
    <3>1. QuestionFloors \in Nat /\ QuestionFloors # 0
      BY DialogAssumption
    <3> QED
      BY <3>1
  <2> HIDE DEF opened
  <2> QED
    BY <2>1, <2>2, <2>3, <2>4 DEF Sound
<1> HIDE DEF failed, opened
<1> QED
  BY <1>1, <1>3, <1>4

\* The invariant: what holds of the variables before and after each step.
Replied == /\ DOMAIN response = {"type", "context"}
           /\ response.type \in ResponseType /\ Read(response.context)

DInv == /\ Sound(sa)
        /\ Replied
        /\ IsRegistry(context_queue)
        /\ overtime \subseteq Limits /\ unplayed \in BOOLEAN /\ connected \in BOOLEAN

LEMMA KeepsResponse ==
  ASSUME Replied, response' = [response EXCEPT !.type = "KEEP"]
  PROVE  Replied'
BY DEF Replied, ResponseType

LEMMA RequestKeeps ==
  ASSUME DInv, NEW d \in Demands, Request(d)
  PROVE  DInv'
<1> DEFINE words == IF d.type = "SPEECH" /\ sa.context.cur \notin Final THEN d.sentence
                    ELSE <<>>
           asked == [Formatted(sa, d.type, d.old) EXCEPT !.silent = FALSE]
           o == Opened(asked, d.readable)
           hangup == [o EXCEPT !.event = "evt_ai_hang_up"]
           Keeps(f) == /\ sa' = f
                       /\ response' = [response EXCEPT !.type = "KEEP"]
                       /\ UNCHANGED unplayed
           Replies(a) == /\ sa' = a.sa
                         /\ response' = [type |-> a.type, context |-> a.context]
                         /\ unplayed' = (unplayed \/ a.type # "KEEP")
<1>1. d.type \in RequestType /\ (d.sentence = <<>> \/ d.sentence \in Sentences)
  BY DEF Demands, Demand, RequestType
<1>2. Len(words) \in Nat
  <2>1. Len(<<>>) \in Nat
    OBVIOUS
  <2>2. d.sentence \in Sentences => Len(d.sentence) \in Nat
    <3> HAVE d.sentence \in Sentences
    <3>1. d.sentence \in Seq(Utterance)
      BY DialogAssumption
    <3> QED
      BY <3>1
  <2> QED
    BY <1>1, <2>1, <2>2
<1>3. Sound(o)
  <2>1. Sound(Formatted(sa, d.type, d.old))
    BY <1>1, FormattedSound DEF DInv
  <2>2. Sound(asked)
    BY <2>1, OtherFields
  <2> QED
    BY <2>2, OpenedSound
<1>4. /\ connected' = (connected \/ d.type = "CONNECT")
      /\ overtime' = IF d.type = "CONNECT" THEN {} ELSE overtime
      /\ context_queue' = context_queue
      /\ \E e \in {o, hangup} :
           \/ Keeps(o)
           \/ Keeps(Found(e, words).sa)
           \/ \E when : Replies(Answered(Found(e, words).sa, when))
  <2> DEFINE Outcomes(found) ==
               IF found.ret # 1 \/ found.more THEN Keeps(found.sa)
               ELSE \E when \in Moments(d.type) :
                      \E a \in {Answered(found.sa, when)} : Replies(a)
  <2>1. /\ connected' = (connected \/ d.type = "CONNECT")
        /\ overtime' = IF d.type = "CONNECT" THEN {} ELSE overtime
        /\ context_queue' = context_queue
    BY DEF Request
  <2>2. \E e \in {IF o.db THEN o ELSE hangup} :
           IF Deaf(o) THEN Keeps(o) /\ hung' = FALSE
           ELSE \E found \in {Found(e, words)} : hung' = found.more /\ Outcomes(found)
    BY DEF Request
  <2> HIDE DEF words, o, hangup, Keeps, Replies
  <2>3. PICK e \in {o, hangup} :
           IF Deaf(o) THEN Keeps(o) /\ hung' = FALSE
           ELSE \E found \in {Found(e, words)} : hung' = found.more /\ Outcomes(found)
    BY <2>2
  <2>4. CASE Deaf(o)
    BY <2>1, <2>3, <2>4
  <2>5. CASE ~Deaf(o)
    <3>1. Outcomes(Found(e, words))
      BY <2>3, <2>5
    <3>2. \/ Keeps(Found(e, words).sa)
          \/ \E when : Replies(Answered(Found(e, words).sa, when))
      BY <3>1
    <3> QED
      BY <2>1, <2>3, <3>2
  <2> QED
    BY <2>4, <2>5
<1> HIDE DEF words, o
<1>5. Sound(hangup)
  BY <1>3, OtherFields
<1> HIDE DEF hangup
<1>6. /\ IsRegistry(context_queue)' /\ connected' \in BOOLEAN
      /\ overtime' \subseteq Limits
  BY <1>4 DEF DInv, IsRegistry
<1>7. PICK e \in {o, hangup} :
           \/ Keeps(o)
           \/ Keeps(Found(e, words).sa)
           \/ \E when : Replies(Answered(Found(e, words).sa, when))
  BY <1>4
<1>8. Sound(Found(e, words).sa)
  BY <1>2, <1>3, <1>5, FoundSound
<1>9. CASE Keeps(o) \/ Keeps(Found(e, words).sa)
  <2>1. Sound(sa') /\ unplayed' = unplayed
    BY <1>3, <1>8, <1>9
  <2>2. Replied'
    BY <1>9, KeepsResponse DEF DInv
  <2> QED
    BY <1>6, <2>1, <2>2 DEF DInv, Sound
<1>10. ASSUME NEW when, Replies(Answered(Found(e, words).sa, when)) PROVE DInv'
  <2> DEFINE a == Answered(Found(e, words).sa, when)
  <2>1. Reported(a)
    BY <1>8, AnsweredSound DEF DInv, Replied
  <2>2. /\ sa' = a.sa /\ response' = [type |-> a.type, context |-> a.context]
        /\ unplayed' = (unplayed \/ a.type # "KEEP")
    BY <1>10
  <2> HIDE DEF a
  <2>3. Sound(sa') /\ Replied'
    BY <2>1, <2>2 DEF Reported, Decision, Replied
  <2>4. unplayed' \in BOOLEAN
    BY <2>2
  <2> QED
    BY <1>6, <2>3, <2>4 DEF DInv
<1> QED
  BY <1>7, <1>9, <1>10

-----------------------------------------------------------------------------
(* What the host reports.                                                    *)

LEMMA ArrivedSound ==
  ASSUME NEW e, Sound(e), NEW c, Read(c)
  PROVE  Sound(Arrived(e, c))
<1> DEFINE parent == [c EXCEPT !.cur = c.parent]
           previous == [c EXCEPT !.cur = c.previous]
           next == [c EXCEPT !.cur = c.next, !.previous = e.context.cur]
<1>1. \/ Arrived(e, c) \in {e, [e EXCEPT !.system_status = "s_wait"]}
      \/ \E x \in {parent, previous, next, c} : Arrived(e, c) = [e EXCEPT !.context = x]
  BY DEF Arrived
<1>2. Read(parent) /\ Read(previous) /\ Read(next)
  BY DEF Sound, Read, Context
<1> HIDE DEF parent, previous, next
<1>3. Sound([e EXCEPT !.system_status = "s_wait"])
  BY StatusSound DEF SystemStatus
<1>4. \A x \in {parent, previous, next, c} : Sound([e EXCEPT !.context = x])
  BY <1>2, ContextSound
<1> QED
  BY <1>1, <1>3, <1>4

LEMMA NextFloorSound ==
  ASSUME NEW e, Sound(e)
  PROVE  Sound(NextFloor(e))
<1> DEFINE floor == e.question_notfind_cur_floor
           next == IF e.qustion_notfind_times = 0 \/ QuestionFloors = 1 THEN floor
                   ELSE IF floor + 1 > QuestionFloors THEN 1 ELSE floor + 1
           f == [e EXCEPT !.question_notfind_cur_floor = next]
           g == [e EXCEPT !.question_notfind_cur_floor = next, !.qustion_notfind_times = 0]
<1>1. NextFloor(e) \in {e, g}
  BY DEF NextFloor
<1>2. e.db => next \in 1 .. QuestionFloors
  <2>1. QuestionFloors \in Nat /\ QuestionFloors # 0
    BY DialogAssumption
  <2>2. e.db => floor \in 1 .. QuestionFloors
    BY DEF Sound
  <2> HIDE DEF floor
  <2> QED
    BY <2>1, <2>2
<1>3. g = [f EXCEPT !.qustion_notfind_times = 0]
  BY DEF Sound, Fields
<1> HIDE DEF next, g
<1>4. Sound(f)
  BY <1>2, FloorSound
<1> HIDE DEF f
<1>5. Sound([f EXCEPT !.qustion_notfind_times = 0])
  BY <1>4, OtherFields
<1> QED
  BY <1>1, <1>3, <1>5

LEMMA RememberedSound ==
  ASSUME NEW e, Sound(e), NEW c, Read(c)
  PROVE  Sound(Remembered(e, c))
<1> DEFINE f == NextFloor(e)
           g == [f EXCEPT !.play_response_id = c.id]
           h == [f EXCEPT !.play_response_id = c.id, !.text_type = "text_words"]
<1>1. \/ Remembered(e, c) = h
      \/ \E x : Remembered(e, c) \in {[f EXCEPT !.text_type = x], [e EXCEPT !.text_type = x]}
  BY DEF Remembered
<1>2. Sound(f)
  BY NextFloorSound
<1> HIDE DEF f
<1>3. ASSUME NEW s, Sound(s), NEW x PROVE Sound([s EXCEPT !.text_type = x])
  <2>1. Frame(s, [s EXCEPT !.text_type = x])
    BY <1>3 DEF Sound, Fields, Frame
  <2> QED
    BY <1>3, <2>1, FrameSound
<1>4. Sound(g)
  BY <1>2 DEF Sound, Fields, Read
<1>5. h = [g EXCEPT !.text_type = "text_words"]
  BY <1>2 DEF Sound, Fields
<1> HIDE DEF g, h
<1> QED
  BY <1>1, <1>2, <1>3, <1>4, <1>5

LEMMA UsedFloorIsRegistry ==
  ASSUME NEW q, IsRegistry(q), NEW c \in ContextName, NEW level \in Level
  PROVE  IsRegistry(UsedFloor(q, c, level))
<1> DEFINE n   == MainOf[c]
           old == IF n \in DOMAIN q THEN q[n]
                  ELSE [ct_type |-> "ct_null", floors |-> {}]
           new == [m \in DOMAIN q \cup {n} |->
                     IF m = n THEN SetFloor(old, level) ELSE q[m]]
<1>1. UsedFloor(q, c, level) \in {q, new}
  BY DEF UsedFloor
<1>2. n \in ContextName
  BY RegistryAssumption
<1>3. old \in Entry
  BY DEF IsRegistry, Entry, ContextType
<1> HIDE DEF old
<1>4. SetFloor(old, level) \in Entry
  <2>1. ClassOf(level, old.ct_type) \in ContextType
    BY <1>3 DEF ClassOf, ContextType, Entry
  <2>2. old.floors \subseteq Level
    BY <1>3 DEF Entry
  <2> QED
    BY <2>1, <2>2 DEF SetFloor, Entry
<1>5. IsRegistry(new)
  BY <1>2, <1>4 DEF IsRegistry
<1> QED
  BY <1>1, <1>5

LEMMA PlayStartKeeps ==
  ASSUME DInv, PlayStart
  PROVE  DInv'
<1> DEFINE c == response.context
           playing == [sa EXCEPT !.ai_status = "ai_play"]
           e == Remembered(Arrived(playing, c), c)
           used == UsedFloor(context_queue, e.context.cur, e.context.level)
           cnt == IF e.timeout_flag THEN e.timeout_cnt + 1 ELSE 0
           told == e.purpose_flag \/ IsPurpose(used, e.context.cur)
           f == [e EXCEPT !.not_memery_id = 0, !.last_id = c.id, !.timeout_flag = FALSE,
                          !.timeout_cnt = cnt, !.cur_priority = e.context.priority,
                          !.purpose_flag = told]
<1>1. /\ \/ UNCHANGED <<sa, context_queue>>
         \/ sa' = f /\ context_queue' = used
      /\ UNCHANGED <<response, overtime, connected>> /\ unplayed' = FALSE
  BY DEF PlayStart
<1>2. Sound(playing)
  BY DEF DInv, Sound, Fields, AiStatus
<1> HIDE DEF playing
<1>3. Sound(e)
  BY <1>2, ArrivedSound, RememberedSound DEF DInv, Replied
<1> HIDE DEF e
<1>4. IsRegistry(used)
  BY <1>3, UsedFloorIsRegistry DEF DInv, Sound, Read, Context
<1> HIDE DEF used, cnt, told
<1>5. Frame(e, f)
  BY <1>3 DEF Sound, Fields, Frame
<1> HIDE DEF f
<1>6. Sound(f)
  BY <1>3, <1>5, FrameSound
<1>7. Sound(sa') /\ IsRegistry(context_queue')
  BY <1>1, <1>4, <1>6 DEF DInv
<1>8. Replied'
  BY <1>1 DEF DInv, Replied
<1> QED
  BY <1>1, <1>7, <1>8 DEF DInv

LEMMA ZeroedSound == Sound(Zeroed) /\ IsRegistry(EmptyRegistry)
<1>1. /\ DOMAIN Zeroed = Fields /\ Zeroed.context = NoContext
      /\ Zeroed.system_status = "s_null" /\ Zeroed.ai_status = "ai_null"
      /\ Zeroed.wait_queue.id = 0 /\ Zeroed.play_response_id = 0
      /\ Zeroed.timeout = 0 /\ Zeroed.db = FALSE
  BY DEF Zeroed, Fields, EmptyQueue
<1>2. Sound(Zeroed)
  BY <1>1, NoContextRead, DialogAssumption DEF Sound, SystemStatus, AiStatus, Ids
<1> QED
  BY <1>2 DEF IsRegistry, EmptyRegistry

LEMMA NoResponseReplied ==
  /\ DOMAIN NoResponse = {"type", "context"}
  /\ NoResponse.type \in ResponseType /\ Read(NoResponse.context)
BY NoContextRead DEF NoResponse, ResponseType

LEMMA InitDInv == Init => DInv
BY ZeroedSound, NoResponseReplied DEF Init, DInv, Replied

LEMMA NextKeepsDInv == DInv /\ [Next]_vars => DInv'
<1> SUFFICES ASSUME DInv, [Next]_vars PROVE DInv'
  OBVIOUS
<1>1. CASE \E d \in Demands : Request(d)
  BY <1>1, RequestKeeps
<1>2. CASE PlayStart
  BY <1>2, PlayStartKeeps
<1>3. CASE PlayEnd
  <2>1. Sound([sa EXCEPT !.ai_status = "ai_play_end"])
    BY DEF DInv, Sound, Fields, AiStatus
  <2> QED
    BY <1>3, <2>1 DEF PlayEnd, DInv, Replied
<1>4. CASE Reset
  BY <1>4, ZeroedSound, NoResponseReplied DEF Reset, DInv, Replied
<1>5. CASE Tick
  BY <1>5 DEF Tick, DInv, Replied
<1>6. CASE UNCHANGED vars
  BY <1>6 DEF vars, DInv, Replied
<1> QED
  BY <1>1, <1>2, <1>3, <1>4, <1>5, <1>6 DEF Next

(* Whatever rows the database holds and whatever the customer says, the      *)
(* variables keep their types: every context is one that was read from the   *)
(* database, every id that of a row, and the registry one of known contexts. *)
THEOREM DialogTypeOK == Spec => []TypeOK
<1>1. DInv => TypeOK
  BY DEF DInv, Sound, Replied, Read, TypeOK, SystemStatus, AiStatus, ResponseType, Ids
<1> QED
  BY <1>1, InitDInv, NextKeepsDInv, PTL DEF Spec

(* The count of ticks never steps over SEC_5_0, with which the handlers of   *)
(* silence compare it by ==, whatever requests come in between.              *)
THEOREM SilenceIsMet == Spec => []LimitIsMet
<1>1. DInv => LimitIsMet
  BY DEF DInv, Sound, LimitIsMet
<1> QED
  BY <1>1, InitDInv, NextKeepsDInv, PTL DEF Spec

(* Once the database is open, the floor of the questions without an answer,  *)
(* less one, is an index of question_notfind_nub.                            *)
THEOREM FloorIsIndex == Spec => []FloorInRange
<1>1. DInv => FloorInRange
  BY DEF DInv, Sound, FloorInRange
<1> QED
  BY <1>1, InitDInv, NextKeepsDInv, PTL DEF Spec

-----------------------------------------------------------------------------
(* A closed call.                                                            *)

ClosedStep ==
  sa.db /\ sa.system_status = "s_hangup" =>
    \/ sa'.system_status = "s_hangup" /\ (unplayed' => unplayed)
    \/ unplayed /\ ~unplayed' /\ response.context.next = ">"
    \/ sa' = Zeroed

\* semantic_analyzer answers KEEP before it has opened or asked anything.
LEMMA ClosedRequest ==
  ASSUME DInv, NEW d \in Demands, Request(d), sa.db, sa.system_status = "s_hangup"
  PROVE  sa'.system_status = "s_hangup" /\ unplayed' = unplayed
<1> DEFINE heard == Formatted(sa, d.type, d.old)
           asked == [heard EXCEPT !.silent = FALSE]
           o == Opened(asked, d.readable)
<1>1. d.type \in RequestType
  BY DEF Demands, Demand, RequestType
<1>2. DOMAIN sa = Fields
  BY DEF DInv, Sound
<1>3. DOMAIN heard = Fields /\ heard.db = sa.db /\ heard.system_status = sa.system_status
  <2> DEFINE spoken == [sa EXCEPT !.fr_type = "fr_null", !.event = SpeechEvent(sa, d.old)]
  <2>1. heard = spoken \/ \E x : heard = [sa EXCEPT !.event = x]
    BY <1>1 DEF Formatted, RequestType
  <2>2. DOMAIN spoken = Fields /\ spoken.db = sa.db /\ spoken.system_status = sa.system_status
    BY <1>2 DEF Fields
  <2> HIDE DEF heard, spoken
  <2> QED
    BY <1>2, <2>1, <2>2 DEF Fields
<1> HIDE DEF heard
<1>4. asked.db /\ asked.system_status = "s_hangup"
  BY <1>3 DEF Fields
<1>5. o = asked
  BY <1>4 DEF Opened
<1>6. Deaf(o)
  BY <1>4, <1>5 DEF Deaf
<1>7. sa' = o /\ UNCHANGED unplayed
  BY <1>6 DEF Request, heard
<1> QED
  BY <1>4, <1>5, <1>7

\* What is played in a closed call leaves it closed, but for the hold.
LEMMA ClosedPlay ==
  ASSUME DInv, PlayStart, sa.system_status = "s_hangup", response.context.next # ">"
  PROVE  sa'.system_status = "s_hangup"
<1> DEFINE c == response.context
           playing == [sa EXCEPT !.ai_status = "ai_play"]
           there == Arrived(playing, c)
           e == Remembered(there, c)
<1>1. DOMAIN playing = Fields /\ playing.system_status = "s_hangup"
  BY DEF DInv, Sound, Fields
<1> HIDE DEF playing
<1>2. DOMAIN there = Fields /\ there.system_status = "s_hangup"
  <2>1. there = playing \/ \E x : there = [playing EXCEPT !.context = x]
    BY DEF Arrived
  <2> HIDE DEF there
  <2> QED
    BY <1>1, <2>1 DEF Fields
<1> HIDE DEF there
<1>3. DOMAIN e = Fields /\ e.system_status = "s_hangup"
  <2> DEFINE f == NextFloor(there)
  <2>1. DOMAIN f = Fields /\ f.system_status = "s_hangup"
    BY <1>2 DEF NextFloor, Fields
  <2>2. \/ e = [f EXCEPT !.play_response_id = c.id, !.text_type = "text_words"]
        \/ e = [f EXCEPT !.text_type = "text_break"]
        \/ e = [there EXCEPT !.text_type = "text_tips"]
    BY DEF Remembered
  <2> HIDE DEF e, f
  <2> QED
    BY <1>2, <2>1, <2>2 DEF Fields
<1>4. sa' = sa \/ sa'.system_status = e.system_status
  <2> DEFINE used == UsedFloor(context_queue, e.context.cur, e.context.level)
             cnt == IF e.timeout_flag THEN e.timeout_cnt + 1 ELSE 0
             told == e.purpose_flag \/ IsPurpose(used, e.context.cur)
             f == [e EXCEPT !.not_memery_id = 0, !.last_id = c.id, !.timeout_flag = FALSE,
                            !.timeout_cnt = cnt, !.cur_priority = e.context.priority,
                            !.purpose_flag = told]
  <2>1. sa' = sa \/ sa' = f
    BY DEF PlayStart, there, playing
  <2> HIDE DEF cnt, told, e
  <2>2. f.system_status = e.system_status
    BY <1>3 DEF Fields
  <2> HIDE DEF f
  <2> QED
    BY <2>1, <2>2
<1> QED
  BY <1>3, <1>4

(* Whatever rows the database holds: once a call is closed, no request and no  *)
(* report of the host makes the engine answer or take another status, until   *)
(* sa_info_init, except that the closing answer itself may lead to the hold    *)
(* (semantic_analyzer, set_context_name of dialog_process.c).                  *)
THEOREM ClosedForGood == Spec => ClosedStaysClosed
<1>1. DInv /\ [Next]_vars => [ClosedStep]_vars
  <2> SUFFICES ASSUME DInv, Next, sa.db, sa.system_status = "s_hangup" PROVE ClosedStep
    BY DEF ClosedStep
  <2>1. CASE \E d \in Demands : Request(d)
    BY <2>1, ClosedRequest DEF ClosedStep
  <2>2. CASE PlayStart
    <3>1. unplayed /\ ~unplayed'
      BY <2>2 DEF PlayStart
    <3>2. response.context.next # ">" => sa'.system_status = "s_hangup"
      BY <2>2, ClosedPlay
    <3> QED
      BY <3>1, <3>2 DEF ClosedStep
  <2>3. CASE PlayEnd
    <3>1. DOMAIN sa = Fields
      BY DEF DInv, Sound
    <3> QED
      BY <2>3, <3>1 DEF PlayEnd, ClosedStep, Fields
  <2>4. CASE Reset
    BY <2>4 DEF Reset, ClosedStep
  <2>5. CASE Tick
    BY <2>5 DEF Tick, ClosedStep
  <2> QED
    BY <2>1, <2>2, <2>3, <2>4, <2>5 DEF Next
<1> QED
  BY <1>1, InitDInv, NextKeepsDInv, PTL DEF Spec, ClosedStaysClosed, ClosedStep
=============================================================================
