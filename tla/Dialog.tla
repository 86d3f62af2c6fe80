-------------------------------- MODULE Dialog --------------------------------
(***************************************************************************)
(* The dialog engine of the telephone robot                                *)
(* (src/semantic/dialog_process.c, with sa_score_process of sa_score.c and *)
(* the time limits of sa_time.c).  A host hands it requests (what the      *)
(* customer said, a tick of 100 ms of silence, connect, session) and gets  *)
(* an answer for each: keep, read, clean (interrupt and read), close, or a *)
(* transfer.  The host reports when it begins and ends to play an answer.  *)
(*                                                                         *)
(* `sa' is the global sa_info.  Handlers are operators from a value of it  *)
(* to a result [ret, sa], as the code passes event_t copies around.  The   *)
(* engine is called by one thread: a request is one step, the whole of     *)
(* semantic_analyzer.  The loop of sa_event_handle may not end; after      *)
(* MaxTurns turns the model gives the call up as hung.                     *)
(* The database is readable, once it is open.                              *)
(***************************************************************************)
EXTENDS AnswerBase

CONSTANTS
  Sentences,       \* what a customer can say: sequences of utterances
  Wild,            \* the rows with condition "*": [answers, publics]
  AfterTransfer,   \* what follows "#9#" in a next_context
  NotfindNub, AnsoutNub, TimeoutNub, QuestionNub, QuestionFloors, ScoreP,
                   \* the numbers get_init_arg reads from the database
  SkipLimit,       \* SKIP_TIMES_LIMITED
  Limits,          \* the limits the database sets to the time of a call
  MaxTurns,        \* a bound: the turns of sa_event_handle that the model follows
  Requests,        \* the types of the requests that the host sends
  AwaitsPlay,      \* does the host play an answer before it asks again
  ConnectsOnce,    \* does it connect a call once
  SEC_0_5, SEC_2_0, SEC_4_5, SEC_5_0   \* in ticks

\* What a host hears of one sentence: its kind, and the rows that its words match.
Utterance == [event : STRING, answer_type : STRING, short : BOOLEAN,
              heard : SUBSET Int, heard_public : SUBSET Int]

RequestType == {"SPEECH", "TIMEOUT", "CONNECT", "SESSION", "SESSION_FAIL", "183"}

ASSUME DialogAssumption ==
  /\ Requests \subseteq RequestType
  /\ \A sentence \in Sentences : sentence \in Seq(Utterance)
  /\ {NotfindNub, AnsoutNub, TimeoutNub, QuestionFloors, ScoreP} \subseteq Nat \ {0}
  /\ QuestionNub \in [1..QuestionFloors -> Nat \ {0}]
  /\ SkipLimit \in Nat \ {0} /\ MaxTurns \in Nat /\ {AwaitsPlay, ConnectsOnce} \subseteq BOOLEAN
  /\ {SEC_0_5, SEC_2_0, SEC_4_5, SEC_5_0} \subseteq Nat
  /\ 0 < SEC_0_5 /\ SEC_0_5 < SEC_5_0 /\ SEC_2_0 <= SEC_4_5 /\ SEC_4_5 < SEC_5_0
  /\ AfterTransfer \in ContextName /\ Limits \subseteq {"ai2human", "all"}

TIMEOUT_PRIORITY == 1
GENERAL_PRIORITY == 5
BREAK_PRIORITY   == 9

VARIABLES
  sa,             \* sa_info
  context_queue,  \* the registry of used contexts
  response,       \* the answer of the host: its type and context
  unplayed,       \* the host has not begun to play it
  overtime,       \* the limits that the time since the connect has passed
  connected,      \* the host has connected this call
  hung            \* semantic_analyzer has not returned

vars == <<sa, context_queue, response, unplayed, overtime, connected, hung>>

NoContext ==
  [cur |-> "", parent |-> "", previous |-> "", next |-> "", skip_condition |-> "",
   skip_to |-> "", id |-> 0, score |-> 0, weight |-> 0, level |-> "",
   priority |-> 0, question |-> FALSE, public |-> FALSE]

Context ==
  [cur : ContextName, parent : ContextName, previous : ContextName,
   next : ContextName, skip_condition : ContextName, skip_to : ContextName,
   id : Nat, score : Nat, weight : {0, 1}, level : Level, priority : Nat,
   question : BOOLEAN, public : BOOLEAN]

EmptyQueue == [id |-> 0, priority |-> 0, fr_type |-> "fr_null", public |-> FALSE]

\* sa_info after memset.  `public' says from which table an answer was loaded, the
\* context and the one in the queue.  The code does not know.
Zeroed ==
  [db |-> FALSE, event |-> "evt_null", continue_event |-> "evt_null",
   answer_type |-> "type_null", system_status |-> "s_null", context |-> NoContext,
   silent |-> FALSE, total_score |-> 0, question_cnt |-> 0,
   play_response_id |-> 0, last_id |-> 0, not_memery_id |-> 0,
   timeout_cnt |-> 0, timeout |-> 0, timeout_flag |-> FALSE,
   ai_status |-> "ai_null", text_type |-> "text_null", cur_priority |-> 0,
   qustion_notfind_times |-> 0, noting_notfind_times |-> 0,
   question_notfind_cur_floor |-> 0, reason |-> FALSE,
   wait_queue |-> EmptyQueue, notclean_waitqueue |-> FALSE,
   fr_type |-> "fr_null", prev_fr_type |-> "fr_null",
   this_word_say_times |-> 0, purpose_flag |-> FALSE, ivr_cnt |-> 0]

NoResponse == [type |-> "KEEP", context |-> NoContext]

Silence == [event |-> "evt_null", answer_type |-> "type_null", short |-> TRUE,
            heard |-> Wild.answers, heard_public |-> Wild.publics]
-----------------------------------------------------------------------------
(* Looking answers up.                                                      *)

\* The contexts a talk ends in.
Final == {"success", "bye"}

Miss(e) == [ret |-> 0, sa |-> e]
Hit(e)  == [ret |-> 1, sa |-> e]

Answer(e, id, fr) ==
  IF id = NoRow THEN Miss(e)
  ELSE Hit([e EXCEPT !.context = Loaded(@, Answers, id),
                     !.silent = Answers[id].silent, !.fr_type = fr])

PublicAnswer(e, id, fr) ==
  IF id = NoRow THEN Miss(e)
  ELSE Hit([e EXCEPT !.context = [Loaded(@, Publics, id) EXCEPT !.public = TRUE],
                     !.silent = Publics[id].silent, !.fr_type = fr])

\* The first of these rows of Answers that exists.
FirstOf(e, choices) ==
  LET found == {i \in DOMAIN choices : choices[i][1] # NoRow}
  IN  IF found = {} THEN Miss(e)
      ELSE Answer(e, choices[First(found)][1], choices[First(found)][2])

\* The row "<cur_context>.<kind>".
Here(e, kind) == Named(Answers, Name(e.context.cur, kind))
PublicRow(kind) == Named(Publics, Public(kind))

ToParent(e) == IF StartsWithDot(e.context.cur) /\ e.context.parent # ""
               THEN [e EXCEPT !.context.cur = e.context.parent] ELSE e

\* purpose_test: the purpose to lead the customer to.
PurposeRow(e) ==
  IF IsPurpose(context_queue, e.context.cur) \/ e.total_score >= ScoreP
  THEN OwnRow(UnusedPurpose(context_queue)) ELSE NoRow

NextUnusedRow(e, c) == OwnRow(NextUnused(context_queue, c, e.purpose_flag))


\* get_time_ai2human and, unless the call is handed to a human, get_time_all_answer.
TimeAnswer(e) ==
  LET human == PublicAnswer(e, IF "ai2human" \in overtime THEN PublicRow("time_ai2human")
                               ELSE NoRow, "fr_time_ai2human")
  IN  IF human.ret = 1 /\ e.ivr_cnt = 0 THEN human
      ELSE PublicAnswer(human.sa, IF "all" \in overtime
                                  THEN PublicRow("phone_time_all") ELSE NoRow,
                        "fr_time_all")
-----------------------------------------------------------------------------
(* The wait queue.                                                          *)

CleanQueue(e) == [e EXCEPT !.wait_queue = EmptyQueue, !.notclean_waitqueue = FALSE]

IsQuestion(fr) == fr \in {"fr_question1", "fr_question2"}
\* A mutant: one kind is forgotten.
FromPublicsButAnsout(fr) == fr \in {"fr_sil_timeout", "fr_other_notfind"}

FromPublics(fr) == fr \in {"fr_sil_timeout", "fr_ans_timeout", "fr_other_notfind"}

\* get_anser_from_wait_queue
TakeQueued(e) ==
  LET w == e.wait_queue
      taken == IF FromPublics(w.fr_type)
               THEN PublicAnswer(e, ById(Publics, w.id), w.fr_type)
               ELSE Answer(e, ById(Answers, w.id), w.fr_type)
  IN  IF w.id = 0 THEN Miss(e)
      ELSE [taken EXCEPT !.sa = CleanQueue([@ EXCEPT !.fr_type = w.fr_type])]

\* put_anser_in_wait_queue
PutQueued(e) ==
  IF /\ e.context.id # e.last_id
     /\ e.context.priority >= e.wait_queue.priority
     /\ e.context.priority > TIMEOUT_PRIORITY
     /\ IsQuestion(e.wait_queue.fr_type) => IsQuestion(e.fr_type)
  THEN [e EXCEPT !.wait_queue = [id |-> e.context.id, priority |-> e.context.priority,
                                 fr_type |-> e.fr_type, public |-> e.context.public]]
  ELSE e

\* ask_handle, answer_handle after a question was found; word_add_invite.  Only
\* "zero" and "more than one" of the counter are told apart.
Invited(e) ==
  LET more == IF e.question_cnt = 2 THEN 2 ELSE e.question_cnt + 1
      cnt  == IF e.system_status # "s_running" THEN e.question_cnt
              ELSE IF more > 1 /\ e.ai_status # "ai_play" THEN 0 ELSE more
      id   == PurposeRow(e)
      counted == [e EXCEPT !.question_cnt = cnt]
  IN  IF cnt # 0 \/ id = NoRow \/ e.context.question THEN counted
      ELSE [counted EXCEPT
              !.wait_queue = [id |-> id, priority |-> Answers[id].priority,
                              fr_type |-> e.fr_type, public |-> FALSE],
              !.notclean_waitqueue = TRUE]
-----------------------------------------------------------------------------
(* The handlers of sa_event_handle.                                         *)

SpecialRow(e, u) == Matching(Answers, Name(e.context.cur, "spec"), u.heard)
QuestionRows(u) ==
  << <<Matching(Answers, Public("question"), u.heard), "fr_question1">>,
     <<Matching(Answers, Public("second_question"), u.heard), "fr_question2">> >>

Ignored(e) == [ret |-> 2, sa |-> [e EXCEPT !.fr_type = "fr_1wd_ignore"]]

\* Sends the customer a message: goes on with busy_handle.
Inconvenient(e) == Hit([e EXCEPT !.continue_event = "evt_sa_send_mesg"])

AgainRow(e) == IF e.answer_type = "type_again"
               THEN ById(Answers, e.play_response_id) ELSE NoRow

AskHandle(e, u) ==
  LET spec  == SpecialRow(e, u)
      found == FirstOf(e, << <<spec, "fr_special">> >> \o QuestionRows(u))
  IN  IF u.short THEN Ignored(e)
      ELSE IF spec = NoRow /\ Here(e, "qign") # NoRow
           THEN Answer(e, Here(e, "qign"), "fr_qign")
      ELSE IF found.ret = 1 THEN Hit(Invited(found.sa))
      ELSE IF e.answer_type = "type_inconvenient" THEN Inconvenient(e)
      ELSE FirstOf(e, << <<AgainRow(e), "fr_again">>,
                         <<Here(e, "auto0"), "fr_auto0">>,
                         <<Here(e, "qany"), "fr_qany">>,
                         <<Here(e, "any"), "fr_any">> >>)

\* answer_handle, words of no type.
UntypedAnswer(e, u) ==
  LET spec == SpecialRow(e, u)
      found == FirstOf(e, QuestionRows(u))
  IN  IF u.short THEN Ignored(e)
      ELSE IF spec # NoRow THEN Answer(e, spec, "fr_special")
      ELSE IF found.ret = 1
           THEN IF Here(e, "qign") # NoRow THEN Answer(e, Here(e, "qign"), "fr_qign")
                ELSE Hit(Invited(found.sa))
      ELSE FirstOf(e, << <<Here(e, "auto0"), "fr_auto0">>,
                         <<Here(e, "any"), "fr_any">> >>)

\* A refusal at a purpose: tell what has not been told yet, once.
Deepens(e) == /\ e.answer_type \in {"type_negtive", "type_refuse"}
              /\ IsPurpose(context_queue, e.context.cur) /\ ~e.reason
              /\ Untold(context_queue) # {}

Deepen(e) ==
  LET r == Answer(e, DeepRow[Untold(context_queue)], e.fr_type)
  IN  [r EXCEPT !.sa.reason = TRUE]

\* The answer of the flow to a yes: on to an unused context if the next was used.
Agreed(e, kind, fr) ==
  LET r == Answer(e, Here(e, kind), fr)
  IN  IF r.ret # 1 THEN Hit([e EXCEPT !.continue_event = "evt_continue_run"])
      ELSE IF IsUsed(context_queue, r.sa.context.next)
      THEN Answer(r.sa, NextUnusedRow(e, e.context.cur), fr)
      ELSE r

\* The rows of the flow for the kinds of words.
FlowRows == [type_sure |-> <<"sure", "fr_sure">>, type_neuter |-> <<"neuter", "fr_neuter">>,
             type_negtive |-> <<"negative", "fr_negtive">>,
             type_refuse |-> <<"refuse", "fr_refuse">>]

FlowAnswer(e) ==
  LET kind == e.answer_type
      row  == FlowRows[kind]
  IN  IF kind \notin DOMAIN FlowRows THEN Miss(e)
      ELSE IF kind \in {"type_sure", "type_neuter"} THEN Agreed(e, row[1], row[2])
      ELSE IF Deepens(e) THEN Deepen(e)
      ELSE Answer(e, Here(e, row[1]), row[2])

\* answer_handle, words of a type: as in the context itself ...
InContext(e) ==
  LET flow == FlowAnswer(e)
  IN  IF flow.ret = 1 \/ Deepens(e) THEN Hit(flow.sa)
      ELSE IF e.answer_type = "type_inconvenient" THEN Inconvenient(flow.sa)
      ELSE FirstOf(flow.sa, << <<AgainRow(e), "fr_again">>,
                               <<Here(e, "auto0"), "fr_auto0">>,
                               <<Here(e, "any"), "fr_any">> >>)

\* ... then as in the parent of a small context.
TypedAnswer(e, u) ==
  LET r == InContext(e)
  IN  IF SpecialRow(e, u) # NoRow THEN Answer(e, SpecialRow(e, u), "fr_special")
      ELSE IF r.ret = 1 THEN r ELSE FlowAnswer(ToParent(r.sa))

AnswerHandle(e, u) ==
  IF e.answer_type = "type_null" THEN UntypedAnswer(e, u) ELSE TypedAnswer(e, u)

WaitHandle(e) ==
  LET n == e.timeout + 1
  IN  IF n >= SEC_2_0 /\ n = SEC_5_0
      THEN PublicAnswer([e EXCEPT !.timeout = 0], PublicRow("wait0"), e.fr_type)
      ELSE Miss([e EXCEPT !.timeout = n])

HangUpNext(e) == Hit([e EXCEPT !.continue_event = "evt_ai_hang_up"])

\* A mutant: the purpose is tried again and again.
GiveUpLater(e) ==
  LET r == Answer(e, PurposeRow(e), e.fr_type)
  IN  IF r.ret = 1 THEN Hit([r.sa EXCEPT !.fr_type = "fr_ans_timeout_purpose"])
      ELSE HangUpNext(r.sa)

\* answer_timeout_handle from "always no answer": hang up, once a purpose was tried.
GiveUp(e) ==
  LET r == Answer(e, PurposeRow(e), e.fr_type)
  IN  IF r.ret = 1 /\ e.timeout_cnt = AnsoutNub
      THEN Hit([r.sa EXCEPT !.fr_type = "fr_ans_timeout_purpose"])
      ELSE HangUpNext(r.sa)

\* A mutant: one tick more.
AnswerTimeoutLate(e) ==
  LET n == e.timeout + 1
  IN  IF n <= SEC_5_0 THEN Miss([e EXCEPT !.timeout = n])
      ELSE IF e.timeout_cnt >= AnsoutNub THEN GiveUp([e EXCEPT !.timeout = 0])
      ELSE PublicAnswer([e EXCEPT !.timeout = 0],
                        Named(Publics, Numbered("ansout", e.timeout_cnt, 0)),
                        "fr_ans_timeout")

AnswerTimeout(e) ==
  LET n     == e.timeout + 1
      reset == [e EXCEPT !.timeout = 0]
      late  == TimeAnswer(reset)
  IN  IF n = SEC_0_5 /\ Here(e, "auto0") # NoRow
      THEN Answer(reset, Here(e, "auto0"), "fr_auto0")
      ELSE IF n < SEC_5_0 THEN Miss([e EXCEPT !.timeout = n])
      ELSE IF e.context.cur \in Final
           THEN Hit([reset EXCEPT !.continue_event = "evt_success"])
      ELSE IF late.ret = 1 THEN late
      ELSE IF Here(e, "auto") # NoRow THEN Answer(late.sa, Here(e, "auto"), "fr_auto")
      ELSE IF e.timeout_cnt >= AnsoutNub THEN GiveUp(late.sa)
      ELSE PublicAnswer(late.sa, Named(Publics, Numbered("ansout", e.timeout_cnt, 0)),
                        "fr_ans_timeout")

IsHello(e) == e.context.cur = "1"

SilentTimeout(e) ==
  LET n == e.timeout + 1
      reset == [e EXCEPT !.timeout = 0]
  IN  IF n < SEC_2_0 THEN Miss([e EXCEPT !.timeout = n])
      ELSE IF e.timeout_cnt > TimeoutNub /\ n = SEC_5_0 THEN HangUpNext(reset)
      ELSE IF IsHello(e) /\ e.timeout_cnt = 0 /\ n = SEC_4_5
           THEN [Answer(reset, ById(Answers, 0), "fr_sil_timeout")
                   EXCEPT !.sa.fr_type = "fr_sil_timeout"]
      ELSE IF n = SEC_5_0
           THEN PublicAnswer(reset,
                             Named(Publics, Numbered("timeout", e.timeout_cnt - 1, 0)),
                             "fr_sil_timeout")
      ELSE Miss([e EXCEPT !.timeout = n])

TelphoneHandle(e) == [Answer(e, ById(Answers, 0), e.fr_type)
                        EXCEPT !.sa.system_status = "s_start"]

StartTalk(e, u) ==
  LET r == FirstOf(e, << <<Matching(Answers, Own("nihao"), u.heard), "fr_start">>,
                         <<ById(Answers, 1), "fr_start">> >>)
  IN  IF r.ret = 1 THEN [r EXCEPT !.sa.system_status = "s_running"] ELSE r

HangUp(e) == Hit([e EXCEPT !.context = [NoContext EXCEPT !.next = "#"],
                           !.silent = FALSE])

ContinueRun(e) ==
  LET up == ToParent(e)
      cur == up.context.cur
      r == IF IsPurpose(context_queue, cur)
           THEN Answer(up, OwnRow(UnusedPurpose(context_queue)), e.fr_type)
           ELSE FirstOf(up, << <<NextUnusedRow(up, cur), e.fr_type>>,
                               <<Here(up, "any"), e.fr_type>> >>)
  IN  IF r.ret = 1 THEN r ELSE [r EXCEPT !.ret = -1]

BeforeCall(e, u) ==
  LET r == PublicAnswer(e, Matching(Publics, Public("before_call"), u.heard_public),
                        e.fr_type)
  IN  IF r.ret = 1 THEN r ELSE [r EXCEPT !.ret = 2]

\* The switch of sa_event_handle.
Handled(e, u) ==
  CASE e.event = "evt_pre_answer"           -> AnswerHandle(e, u)
    [] e.event = "evt_pre_ask"              -> AskHandle(e, u)
    [] e.event = "evt_wait"                 -> WaitHandle(e)
    [] e.event = "evt_ai_answer_timeout"    -> AnswerTimeout(e)
    [] e.event = "evt_ai_silent_timeout"    -> SilentTimeout(e)
    [] e.event = "evt_ai_telphone"          -> TelphoneHandle(e)
    [] e.event = "evt_start_talk"           -> StartTalk(e, u)
    [] e.event = "evt_ai_hang_up"           -> HangUp(e)
    [] e.event = "evt_sa_send_mesg"         -> Answer(e, OwnRow("busy"), "fr_busy")
    [] e.event = "evt_continue_run"         -> ContinueRun(e)
    [] e.event = "evt_before_call"          -> BeforeCall(e, u)
    [] e.event = "evt_success"              -> Answer(e, Here(e, "sure"), "fr_sure")
    [] e.event = "evt_ai_skip_session_fail" ->
         PublicAnswer(e, PublicRow("skip_session_fail"), "fr_skip_session_fail")
    [] e.event = "evt_ai_skip_session_success" ->
         PublicAnswer(e, PublicRow("skip_session_sucsses"), "fr_skip_session_success")
    [] OTHER -> [ret |-> 2, sa |-> e]   \* evt_null, evt_ignore, evt_ai_183

\* A mutant: clean_event forgets the event that was to follow.
ChainedForEver(r, event) ==
  [r.sa EXCEPT !.event = r.sa.continue_event]

\* The end of a turn of the loop: what follows, then clean_event.
Chained(r, event) ==
  LET e == r.sa
      f == IF /\ r.ret # 1 /\ event = "evt_pre_ask"
              /\ e.answer_type \notin {"type_question", "type_null"}
           THEN [e EXCEPT !.continue_event = "evt_pre_answer"]
           ELSE IF r.ret = 1 /\ e.context.next = "!" /\ e.silent
           THEN [e EXCEPT !.context.cur = e.context.parent,
                          !.continue_event = "evt_continue_run"]
           ELSE e
  IN  [f EXCEPT !.event = f.continue_event, !.continue_event = "evt_null"]

\* `more': the loop would go on.
Ended(r, event) ==
  LET f == Chained(r, event)
  IN  [ret |-> r.ret, sa |-> f, more |-> f.event # "evt_null"]

\* One turn.
Turn(p, u) == IF p.more THEN Ended(Handled(p.sa, u), p.sa.event) ELSE p

\* sa_event_handle
EventHandle(e, u) ==
  LET turns[n \in 0 .. MaxTurns] ==
        IF n = 0 THEN [ret |-> 0, sa |-> e, more |-> TRUE] ELSE Turn(turns[n - 1], u)
  IN  turns[MaxTurns]
-----------------------------------------------------------------------------
(* The requests.                                                            *)

\* set_envent: the kind of the word decides whether it asks or answers.
SetEvent(e, u) == [e EXCEPT !.event = u.event, !.answer_type = u.answer_type]

SpeechEvent(e, old) ==
  IF e.system_status = "s_before_call" THEN "evt_before_call"
  ELSE IF old THEN "evt_ignore"
  ELSE IF e.system_status = "s_start" THEN "evt_start_talk"
  ELSE IF e.context.next = "!" THEN "evt_continue_run"
  ELSE "evt_null"

TimeoutEvent(e) ==
  IF e.system_status = "s_wait" THEN "evt_wait"
  ELSE IF e.system_status = "s_before_call" THEN "evt_before_call"
  ELSE IF e.context.next = "!" THEN "evt_continue_run"
  ELSE IF e.system_status = "s_start" THEN "evt_ai_silent_timeout"
  ELSE IF e.system_status = "s_running" THEN "evt_ai_answer_timeout"
  ELSE e.event

\* A mutant: the kind of the answer before is kept.
FormattedOnly(e, type, old) ==
  CASE type = "SPEECH"       -> [e EXCEPT !.event = IF e.context.cur \in Final
                                                    THEN "evt_success"
                                                    ELSE SpeechEvent(e, old)]
    [] type = "TIMEOUT"      -> [e EXCEPT !.event = TimeoutEvent(e)]
    [] type = "CONNECT"      -> [e EXCEPT !.event = "evt_ai_telphone"]
    [] type = "SESSION"      -> [e EXCEPT !.event = "evt_ai_skip_session_success"]
    [] type = "SESSION_FAIL" -> [e EXCEPT !.event = "evt_ai_skip_session_fail"]
    [] type = "183"          -> [e EXCEPT !.event = "evt_ai_183"]

\* format_request.  `old': the words began before the connect.
Formatted(e, type, old) ==
  CASE type = "SPEECH" /\ e.context.cur \in Final -> [e EXCEPT !.event = "evt_success"]
    [] type = "SPEECH" /\ e.context.cur \notin Final ->
         [e EXCEPT !.fr_type = "fr_null", !.event = SpeechEvent(e, old)]
    [] type = "TIMEOUT"      -> [e EXCEPT !.event = TimeoutEvent(e)]
    [] type = "CONNECT"      -> [e EXCEPT !.event = "evt_ai_telphone"]
    [] type = "SESSION"      -> [e EXCEPT !.event = "evt_ai_skip_session_success"]
    [] type = "SESSION_FAIL" -> [e EXCEPT !.event = "evt_ai_skip_session_fail"]
    [] type = "183"          -> [e EXCEPT !.event = "evt_ai_183"]

\* samantic_init, on the first 183 or CONNECT.
Opened(e, readable) ==
  IF e.db \/ e.event \notin {"evt_ai_183", "evt_ai_telphone"} THEN e
  ELSE IF ~readable THEN [e EXCEPT !.last_id = -1, !.system_status = "s_before_call",
                                   !.event = "evt_ai_hang_up"]
  ELSE [e EXCEPT !.last_id = -1, !.db = TRUE, !.question_notfind_cur_floor = 1,
                 !.system_status = IF e.event = "evt_ai_183" THEN "s_before_call"
                                   ELSE "s_start"]

\* Mutants: a status is forgotten.
DeafInSession(e) == \/ e.system_status = "s_null"
                    \/ e.system_status = "s_session" /\ e.event # "evt_ai_skip_session_fail"
DeafWhenClosed(e) == e.system_status \in {"s_hangup", "s_null"}

\* The states in which semantic_analyzer answers KEEP at once.
Deaf(e) == \/ e.system_status \in {"s_hangup", "s_null"}
           \/ e.system_status = "s_session" /\ e.event # "evt_ai_skip_session_fail"

\* One word, after those before it led to p.
Hear(p, u, spoken) ==
  IF p.ret = 1 \/ p.more THEN p
  ELSE EventHandle(IF spoken THEN SetEvent(p.sa, u) ELSE p.sa, u)

\* A flow that has no row to go on with (evt_continue_run) ends the call.
Refused(p, spoken) ==
  IF spoken /\ p.ret < 0 THEN [p EXCEPT !.sa.event = "evt_ai_hang_up"] ELSE p

\* The loop over the words, up to the first that has an answer; one turn when the
\* request itself is the event.
WordLoop(e, words) ==
  LET spoken == e.event = "evt_null"
      heard  == IF spoken THEN words ELSE <<IF words = <<>> THEN Silence ELSE words[1]>>
      after[n \in 0 .. Len(heard)] ==
        IF n = 0 THEN [ret |-> 0, sa |-> e, more |-> FALSE]
        ELSE Hear(after[n - 1], heard[n], spoken)
  IN  Refused(after[Len(heard)], spoken)
-----------------------------------------------------------------------------
(* The answer.                                                              *)

\* sa_score_process, when the words led nowhere.
QuestionNotFound(e) ==
  LET floor == e.question_notfind_cur_floor
      f == IF e.qustion_notfind_times >= QuestionNub[floor]
           THEN [e EXCEPT !.qustion_notfind_times = 0,
                          !.question_notfind_cur_floor =
                             IF floor + 1 > QuestionFloors THEN 1 ELSE floor + 1]
           ELSE e
  IN  Answer(f, Named(Answers, Numbered("question.notfind", f.question_notfind_cur_floor,
                                        f.qustion_notfind_times)),
             "fr_question_notfind")

OtherNotFound(e) ==
  LET f == [e EXCEPT !.noting_notfind_times = IF @ = NotfindNub THEN 0 ELSE @]
  IN  PublicAnswer(f, Named(Publics, Numbered("notfind", f.noting_notfind_times, 0)),
                   "fr_other_notfind")

ScoreProcess(e) ==
  LET late == TimeAnswer(e)
  IN  IF late.ret = 1 THEN late
      ELSE IF e.answer_type = "type_question" THEN QuestionNotFound(late.sa)
      ELSE OtherNotFound(late.sa)

\* get_skip_answer: one hop of the while loop.
Hop(p) ==
  LET c == p.sa.context
      r == Answer(p.sa, OwnRow(c.skip_to), p.sa.fr_type)
  IN  IF ~p.more \/ "0" \in {c.skip_condition, c.skip_to}
         \/ ~IsUsed(context_queue, c.skip_condition)
      THEN [p EXCEPT !.more = FALSE]
      ELSE [ret |-> r.ret, sa |-> r.sa, more |-> r.ret = 1]

\* ... and what follows it: not into a flow or a purpose that was used.
Skipped(e) ==
  LET next == e.context.next
      to   == IF IsPurpose(context_queue, next) THEN UnusedPurpose(context_queue)
              ELSE IF IsFlow(next) THEN NextUnused(context_queue, next, e.purpose_flag)
              ELSE ""
      skip == CleanQueue([e EXCEPT !.fr_type = "fr_skip"])
  IN  IF to = "" THEN skip
      ELSE Answer([skip EXCEPT !.context.next = to], OwnRow(to), "fr_skip").sa

Skip(e) ==
  LET after[n \in 0 .. SkipLimit - 1] ==
        IF n = 0 THEN [ret |-> 0, sa |-> e, more |-> TRUE]
        ELSE Hop(after[n - 1])
      end == after[SkipLimit - 1]
  IN  IF end.ret = 1 THEN Skipped(end.sa) ELSE e

\* When the words of a request were said, for the answer last played: before it began
\* (while it plays, also less than 1.5 s after) or while it was played, as far as they
\* ended before its end; else soon after its end, or late.  `Soon' is within 0.5 s, from
\* where they begin, for a break, within times_nfr_ignore, to where they end, else.
When == {"early", "during", "soon", "late"}
EndsBefore(when) == when \in {"early", "during"}

Notices == {"fr_question_notfind", "fr_other_notfind", "fr_sil_timeout",
            "fr_ans_timeout"}
Breaks == {"fr_question1", "fr_question2", "fr_busy", "fr_again", "fr_special",
           "fr_skip", "fr_refuse"}

\* The moments that are possible: silence is now, and before anything was played
\* the time since the end of it has no meaning (it overflows timeval_sub's int).
Moments(type) ==
  CASE sa.ai_status = "ai_play" -> {"early", "during"}
    [] sa.ai_status = "ai_null" -> {"soon", "late"}
    [] sa.ai_status = "ai_play_end" ->
         IF type = "SPEECH" THEN When ELSE {"soon", "late"}

Kept(e) == [type |-> "KEEP", sa |-> e]
Said(type, e) == [type |-> type, sa |-> e]

\* format_response while an answer is played ...
Interrupt(e, when) ==
  LET priority == e.context.priority
  IN  IF priority >= BREAK_PRIORITY
      THEN IF e.text_type # "text_break" THEN Said("CLEAN", CleanQueue(e))
           ELSE Kept(CleanQueue(e))
      ELSE IF e.text_type = "text_words" /\ when = "early" THEN Kept(CleanQueue(e))
      ELSE IF priority > e.cur_priority THEN Said("CLEAN", e)
      ELSE IF priority < e.cur_priority THEN Kept(CleanQueue(e))
      ELSE IF priority >= GENERAL_PRIORITY /\ e.fr_type \in Breaks THEN Said("CLEAN", e)
      ELSE Kept(PutQueued(e))

\* ... and while none is.
Reply(e, when) ==
  LET priority == e.context.priority
      pressing == \/ e.system_status = "s_before_call"
                  \/ e.fr_type = "fr_time_all"
                  \/ e.context.id = 0 /\ e.fr_type # "fr_sil_timeout"
                  \/ e.context.id \in {1, 2}
      better == IF priority < GENERAL_PRIORITY THEN TakeQueued(e).sa ELSE e
  IN  IF priority >= BREAK_PRIORITY
      THEN IF e.text_type = "text_break" /\ when # "late" THEN Kept(CleanQueue(e))
           ELSE Said("CLEAN", CleanQueue(e))
      ELSE IF e.text_type = "text_words" /\ EndsBefore(when)
      THEN IF /\ IsQuestion(e.fr_type) \/ e.fr_type = "fr_sure"
              /\ priority >= GENERAL_PRIORITY /\ when = "during"
           THEN Kept(PutQueued(e)) ELSE Kept(CleanQueue(e))
      ELSE IF pressing THEN Said("READ", e)
      ELSE IF /\ better.prev_fr_type \notin Notices /\ better.fr_type \in Notices
              /\ when # "late"
           THEN Kept(better)
      ELSE Said("READ", better)

\* The type of the answer that format_response turns READ or CLEAN into.
Outcome(e, type) ==
  CASE e.context.next = "#" \/ e.fr_type = "fr_time_all" -> "CLOSE"
    [] e.context.next = "@" /\ e.fr_type # "fr_time_all" -> "SKIP_OPERATOR"
    [] e.context.next \in {"&", "#9"} /\ e.fr_type # "fr_time_all" -> "SKIP_IVR"
    [] e.context.next \notin {"#", "@", "&", "#9"} ->
         IF e.fr_type \in {"fr_time_ai2human", "fr_skip_session_success"} THEN "SKIP_IVR"
         ELSE IF e.fr_type = "fr_time_all" THEN "CLOSE" ELSE type

\* Is the answer the transfer of a call that lasted too long?
ToHuman(e) == e.fr_type = "fr_time_ai2human" /\ e.context.next \notin {"#", "@", "&"}

\* format_response: the answer and sa_info after it.  Only "zero" and "more" of the
\* transfers are told apart.
Told(e, type) ==
  LET times  == IF e.context.id = e.play_response_id THEN e.this_word_say_times + 1 ELSE 0
      enough == times >= 3
      next   == IF enough THEN "!"
                ELSE IF type = "SKIP_IVR" /\ e.context.next = "#9" THEN AfterTransfer
                ELSE e.context.next
      queued == IF e.notclean_waitqueue THEN [e EXCEPT !.notclean_waitqueue = FALSE]
                ELSE CleanQueue(e)
  IN  [type |-> type, context |-> [e.context EXCEPT !.next = next],
       sa |-> [queued EXCEPT
                 !.system_status = IF type = "CLOSE" THEN "s_hangup" ELSE @,
                 !.ivr_cnt = IF ToHuman(e) THEN 1 ELSE @,
                 !.this_word_say_times = IF enough THEN 0 ELSE times]]

FormatResponse(e, when) ==
  LET d == IF IsHello(e) THEN Said("CLEAN", CleanQueue(e))
           ELSE IF e.ai_status = "ai_play" THEN Interrupt(e, when)
           ELSE Reply(e, when)
      f == [d.sa EXCEPT !.prev_fr_type = d.sa.fr_type]
  IN  IF d.type = "KEEP" THEN [type |-> "KEEP", context |-> response.context, sa |-> f]
      ELSE Told(f, Outcome(f, d.type))

\* What update_system does to sa_info for each kind of answer.
Scored(fr, score) ==
  CASE fr = "fr_sure" -> IF score = 0 THEN 15 ELSE score
    [] fr \in {"fr_neuter", "fr_busy", "fr_again"} -> IF score = 0 THEN 10 ELSE score
    [] fr = "fr_negtive" -> IF score = 0 THEN 5 ELSE score
    [] fr = "fr_time_ai2human" -> 20
    [] fr = "fr_time_all" -> 0
    [] OTHER -> score

NotMemorised(e) ==
  CASE IsQuestion(e.fr_type) /\ e.context.priority = BREAK_PRIORITY -> 2
    [] e.fr_type \in {"fr_auto", "fr_sil_timeout", "fr_ans_timeout"} -> 1
    [] e.fr_type \in {"fr_question_notfind", "fr_other_notfind"}
         /\ e.context.priority < GENERAL_PRIORITY - 1 -> 1
    [] OTHER -> e.not_memery_id

\* A mutant: a silence is not noted.
UpdateSystemOnce(e) == [e EXCEPT !.not_memery_id = NotMemorised(e),
                                 !.context.score = Scored(e.fr_type, @)]

\* update_system, then the total score, which matters up to ScoreP only.  Once it is
\* past NotfindNub, nothing resets the count of the words that led nowhere, nor has a
\* row its number: it is counted no further.
UpdateSystem(e) ==
  LET fr == e.fr_type
      score == Scored(fr, e.context.score)
      total == e.total_score * e.context.weight + score
  IN  [e EXCEPT
         !.context.score = score,
         !.total_score = IF total > ScoreP THEN ScoreP ELSE total,
         !.not_memery_id = NotMemorised(e),
         !.qustion_notfind_times = IF fr = "fr_question_notfind" THEN @ + 1 ELSE @,
         !.noting_notfind_times = IF fr = "fr_other_notfind" /\ @ <= NotfindNub
                                    THEN @ + 1 ELSE @,
         !.timeout_flag = @ \/ fr \in {"fr_sil_timeout", "fr_ans_timeout",
                                       "fr_ans_timeout_purpose"},
         !.system_status = IF fr = "fr_skip_session_success" THEN "s_session"
                           ELSE IF fr = "fr_skip_session_fail" /\ @ = "s_session"
                           THEN "s_running" ELSE @]

\* semantic_analyzer: who answers, the handlers, the wait queue or the score.
Otherwise(r, words) ==
  LET f == IF r.ret = 1 \/ r.more \/ r.sa.ai_status = "ai_play" THEN r
           ELSE IF r.sa.wait_queue.id > 0 THEN TakeQueued(r.sa)
           ELSE IF r.ret = 0 /\ words # <<>> THEN ScoreProcess(r.sa)
           ELSE r
  IN  [ret |-> f.ret, sa |-> f.sa, more |-> r.more]

Found(e, words) == Otherwise(WordLoop(e, words), words)

Updated(a) == IF a.type = "KEEP" THEN a ELSE [a EXCEPT !.sa = UpdateSystem(@)]

\* ... and the answer that becomes of it.
Answered(e, when) == Updated(FormatResponse(Skip([e EXCEPT !.timeout = 0]), when))

\* What a host sends: words, words that began before the connect (what they are does
\* not matter), a silence, or an event of the call.  `readable': can the database be opened.
Demand(type, sentence, old, readable) ==
  [type |-> type, sentence |-> sentence, old |-> old, readable |-> readable]
Demands == {Demand("SPEECH", s, FALSE, TRUE) : s \in Sentences}
             \cup {Demand("SPEECH", <<>>, TRUE, TRUE)}
             \cup {Demand(type, <<>>, FALSE, TRUE) : type \in RequestType \ {"SPEECH"}}
             \cup {Demand(type, <<>>, FALSE, FALSE) : type \in {"183", "CONNECT"}}

\* When it sends them: at any time, but for what its host does not do.
MaySend(d) ==
  /\ d.type \in Requests
  /\ AwaitsPlay => ~unplayed
  /\ ConnectsOnce /\ d.type = "CONNECT" => ~connected
  /\ d.old => connected

\* semantic_analyzer
Request(d) ==
  LET words == IF d.type = "SPEECH" /\ sa.context.cur \notin Final THEN d.sentence
               ELSE <<>>
      o == Opened([Formatted(sa, d.type, d.old) EXCEPT !.silent = FALSE], d.readable)
      Keeps(f) == /\ sa' = f
                  /\ response' = [response EXCEPT !.type = "KEEP"]
                  /\ UNCHANGED unplayed
      Replies(found) ==
        IF found.ret # 1 \/ found.more THEN Keeps(found.sa)
        ELSE \E when \in Moments(d.type) :
               \E a \in {Answered(found.sa, when)} :
                  /\ sa' = a.sa
                  /\ response' = [type |-> a.type, context |-> a.context]
                  /\ unplayed' = (unplayed \/ a.type # "KEEP")
  IN  /\ ~hung /\ MaySend(d)
      /\ connected' = (connected \/ d.type = "CONNECT")
      /\ overtime' = IF d.type = "CONNECT" THEN {} ELSE overtime
      /\ UNCHANGED context_queue
      /\ \E e \in {IF o.db THEN o ELSE [o EXCEPT !.event = "evt_ai_hang_up"]} :
           IF Deaf(o) THEN Keeps(o) /\ hung' = FALSE
           ELSE \E found \in {Found(e, words)} : hung' = found.more /\ Replies(found)
-----------------------------------------------------------------------------
(* What the host reports.                                                   *)

\* set_context_name: where the answer it begins to play leads.
Arrived(e, c) ==
  CASE c.next = "!" -> [e EXCEPT !.context = [c EXCEPT !.cur = c.parent]]
    [] c.next = ">" -> [e EXCEPT !.system_status = "s_wait"]
    [] c.next = "^" -> [e EXCEPT !.context = [c EXCEPT !.cur = c.previous]]
    [] c.next \in {"#", "#9"} -> [e EXCEPT !.context = c]
    [] c.next = "0" -> e
    [] OTHER -> [e EXCEPT !.context = [c EXCEPT !.cur = c.next,
                                                !.previous = e.context.cur]]

\* A mutant: the floors have no end.
NextFloorOn(e) ==
  IF e.fr_type = "fr_question_notfind" \/ e.qustion_notfind_times = 0 THEN e
  ELSE [e EXCEPT !.question_notfind_cur_floor = @ + 1, !.qustion_notfind_times = 0]

\* The questions without an answer are over: the next ones begin on the next floor.
NextFloor(e) ==
  LET floor == e.question_notfind_cur_floor
  IN  IF e.fr_type = "fr_question_notfind" THEN e
      ELSE [e EXCEPT
              !.question_notfind_cur_floor =
                 IF e.qustion_notfind_times = 0 \/ QuestionFloors = 1 THEN @
                 ELSE IF floor + 1 > QuestionFloors THEN 1 ELSE floor + 1,
              !.qustion_notfind_times = 0]

Remembered(e, c) ==
  CASE e.not_memery_id = 0 -> [NextFloor(e) EXCEPT !.play_response_id = c.id,
                                                   !.text_type = "text_words"]
    [] e.not_memery_id = 2 -> [NextFloor(e) EXCEPT !.text_type = "text_break"]
    [] OTHER               -> [e EXCEPT !.text_type = "text_tips"]

PlayStart ==
  LET c == response.context
      e == Remembered(Arrived([sa EXCEPT !.ai_status = "ai_play"], c), c)
      used == UsedFloor(context_queue, e.context.cur, e.context.level)
  IN  /\ ~hung /\ unplayed
      /\ unplayed' = FALSE
      /\ IF c.next = "" THEN UNCHANGED <<sa, context_queue>>
         ELSE /\ sa' = [e EXCEPT
                          !.not_memery_id = 0,
                          !.last_id = c.id,
                          !.timeout_flag = FALSE,
                          !.timeout_cnt = IF e.timeout_flag THEN @ + 1 ELSE 0,
                          !.cur_priority = e.context.priority,
                          !.purpose_flag = @ \/ IsPurpose(used, e.context.cur)]
              /\ context_queue' = used
      /\ UNCHANGED <<response, overtime, connected, hung>>

\* set_end_status
PlayEnd ==
  /\ ~hung /\ sa.ai_status = "ai_play"
  /\ sa' = [sa EXCEPT !.ai_status = "ai_play_end"]
  /\ UNCHANGED <<context_queue, response, unplayed, overtime, connected, hung>>

\* sa_info_init, between two calls.
Reset ==
  /\ ~hung
  /\ sa' = Zeroed /\ context_queue' = EmptyRegistry
  /\ response' = NoResponse /\ unplayed' = FALSE
  /\ overtime' = {} /\ connected' = FALSE
  /\ UNCHANGED hung

\* The call lasts: one limit after the other is over.
Tick ==
  /\ ~hung /\ connected
  /\ \E limit \in Limits \ overtime :
       /\ limit = "all" => Limits \subseteq overtime \cup {"all"}
       /\ overtime' = overtime \cup {limit}
  /\ UNCHANGED <<sa, context_queue, response, unplayed, connected, hung>>

Init == /\ sa = Zeroed /\ context_queue = EmptyRegistry
        /\ response = NoResponse /\ unplayed = FALSE
        /\ overtime = {} /\ connected = FALSE /\ hung = FALSE

Next == (\E d \in Demands : Request(d)) \/ PlayStart \/ PlayEnd \/ Reset \/ Tick

Spec == Init /\ [][Next]_vars

-----------------------------------------------------------------------------
TypeOK ==
  /\ sa.context \in Context /\ response.context \in Context
  /\ sa.system_status \in {"s_null", "s_before_call", "s_start", "s_running", "s_wait",
                           "s_session", "s_hangup"}
  /\ sa.ai_status \in {"ai_null", "ai_play", "ai_play_end"}
  /\ sa.wait_queue.id \in DOMAIN Answers \cup DOMAIN Publics \cup {0}
  /\ sa.play_response_id \in DOMAIN Answers \cup DOMAIN Publics \cup {0}
  /\ IsRegistry(context_queue)
  /\ response.type \in {"KEEP", "READ", "CLEAN", "CLOSE", "SKIP_OPERATOR", "SKIP_IVR"}
  /\ overtime \subseteq Limits /\ unplayed \in BOOLEAN /\ connected \in BOOLEAN

\* sa_event_handle goes from event to event until none is left; no answer of the
\* database leads a call around in it for ever.
NeverHangs == ~hung

\* A call that was closed gets no answer and no other status any more, whatever is
\* asked or reported, until sa_info_init.  Only the answer it was closed with, while it
\* is waiting to be played, can open it again: by leading to the hold.
ClosedStaysClosed ==
  [][sa.db /\ sa.system_status = "s_hangup" =>
       \/ sa'.system_status = "s_hangup" /\ (unplayed' => unplayed)
       \/ unplayed /\ ~unplayed' /\ response.context.next = ">"
       \/ sa' = Zeroed]_vars

\* Handed over to another session the engine says nothing, until it fails.
SessionIsLeftAlone ==
  [][sa.system_status = "s_session" /\ ~unplayed /\ unplayed' =>
       sa'.fr_type = "fr_skip_session_fail"]_vars

\* The handlers of silence compare the count of ticks with SEC_5_0 by ==.  It never
\* steps over it, so that the limit is met.
LimitIsMet == sa.timeout < SEC_5_0

\* The count of unanswered silences, which numbers the rows .timeoutN and .ansoutN
\* and is compared with ansout_nub by == too.
SilencesCounted ==
  sa.system_status # "s_hangup" =>
    sa.timeout_cnt <= (IF TimeoutNub > AnsoutNub THEN TimeoutNub ELSE AnsoutNub) + 1

\* The floor, less one, is an index of question_notfind_nub.
FloorInRange == sa.db => sa.question_notfind_cur_floor \in 1 .. QuestionFloors

\* The count, reset when it equals notfind_nub, never gets past it.
NotfindCounted == sa.noting_notfind_times <= NotfindNub

\* The wait queue keeps an id only: the kind of the answer tells the table to read
\* it from, and it tells the one the answer was read from before.
QueueKnowsTable ==
  sa.wait_queue.id # 0 => sa.wait_queue.public = FromPublics(sa.wait_queue.fr_type)

\* context_queue and the floors of its entries are arrays of fixed size: whatever is
\* played, what is noted fits in.
RegistryInBounds ==
  /\ Cardinality(DOMAIN context_queue) <= MaxContexts
  /\ \A c \in DOMAIN context_queue :
       Cardinality(context_queue[c].floors) <= MaxFloors

\* A call that lasts too long is handed to a human once: the answer that hands it
\* over is not given to it again, whatever else was counted as a transfer.
HandsOver == /\ ~unplayed /\ unplayed'
             /\ response'.context.public
             /\ response'.context.id = PublicRow("time_ai2human")
=============================================================================
