------------------------------- MODULE MCDialog -------------------------------
(***************************************************************************)
(* A small answer database: two flows a and b, a small context ".a", a     *)
(* purpose p and "success".                                                *)
(***************************************************************************)
EXTENDS SilentCall, TLC

MCContextName == {"", "1", "nihao", "a", ".a", "b", "p", "success", "bye", "busy"} \cup Signs
MCMainOf == [c \in MCContextName |-> IF c = ".a" THEN "a" ELSE c]
MCLevel == {"", "0", "1", "2", "A"}

R(name, next, priority, level) ==
  [name |-> name, next |-> next, skip_condition |-> "0", skip_to |-> "0",
   score |-> 0, weight |-> 1, level |-> level, priority |-> priority,
   question |-> FALSE, silent |-> FALSE]

\* Row 0 greets, row 1 begins to talk.  Talk: from a to the purpose p, and by way of
\* the small context ".a"; questions, and words that are not understood.
Greeting == 0 :> R(Name("1", "greeting"), "1", 1, "0") @@
            1 :> R(Own("nihao"), "a", 5, "1")
MCTalk ==
  Greeting @@
  3 :> R(Name("a", "sure"), "p", 5, "A") @@
  4 :> R(Name("a", "negative"), ".a", 5, "1") @@
  5 :> [R(Name(".a", "sure"), "!", 5, "1") EXCEPT !.silent = TRUE] @@
  6 :> R(Name("a", "any"), "0", 3, "0") @@
  9 :> R(Own("p"), "p", 5, "A") @@
  10 :> R(Name("p", "sure"), "success", 5, "0") @@
  12 :> R(Name("success", "sure"), "#", 5, "hangup") @@
  13 :> R(Public("question"), "0", 5, "0") @@
  15 :> R(Numbered("question.notfind", 1, 0), "0", 3, "0") @@
  16 :> R(Numbered("question.notfind", 2, 0), "0", 3, "0") @@
  17 :> R(Name("", "deep"), "0", 5, "2") @@
  18 :> R(Own("busy"), ">", 5, "0")

\* A database that leads nowhere by itself, and one that leads to the hold only.
MCShort == [i \in {0, 1, 15, 16, 17} |-> MCTalk[i]]
MCHold  == [i \in {0, 1, 17, 18} |-> MCTalk[i]]

MCPublics ==
  101 :> R(Numbered("timeout", 0, 0), "0", 1, "0") @@
  102 :> R(Numbered("ansout", 0, 0), "0", 5, "0") @@
  103 :> R(Numbered("notfind", 0, 0), "0", 3, "0") @@
  104 :> R(Public("time_ai2human"), "0", 1, "0") @@
  105 :> R(Public("phone_time_all"), "0", 1, "0") @@
  106 :> R(Public("skip_session_sucsses"), "0", 1, "0") @@
  107 :> R(Public("skip_session_fail"), "0", 1, "0") @@
  108 :> R(Public("wait0"), "0", 1, "0")

U(event, type, heard) == [event |-> event, answer_type |-> type, short |-> FALSE,
                          heard |-> heard, heard_public |-> {}]
Yes    == U("evt_pre_answer", "type_sure", {})
No     == U("evt_pre_answer", "type_negtive", {})
Ask    == U("evt_pre_ask", "type_question", {13})
What   == U("evt_pre_ask", "type_question", {})
Busy   == U("evt_pre_answer", "type_inconvenient", {})
Mumble == U("evt_pre_answer", "type_null", {})
MCTalkers    == { <<Mumble>>, <<No, Yes, Ask>> }
MCWhat       == { <<What>> }
MCMumbleBusy == { <<Mumble>>, <<Busy>> }
MCWild == [answers |-> {}, publics |-> {}]

MCQuestionNub == <<1, 1>>
MCFlows == <<"a">>
MCPurposes == <<"p">>
MCDeepFloors == "a" :> 2
MCDeepRow == [s \in SUBSET DOMAIN MCDeepFloors |-> IF s = {} THEN -1 ELSE 17]
=============================================================================
