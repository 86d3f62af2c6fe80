------------------------------ MODULE AnswerBase ------------------------------
(***************************************************************************)
(* The answer database of the dialog engine and the queries on it          *)
(* (src/semantic/sa_sql.c).  Answers stands for the table REQ_ANS_DATA,    *)
(* Publics for REQ_PUBLIC_DATA, Flows and Purposes for the names of level  *)
(* 1 and level 2 in REQ_ANS_FLOW, DeepFloors for its FLOOR column.         *)
(*                                                                         *)
(* The name of a row, a string such as "price.sure", ".timeout1" or        *)
(* ".question.notfind_2_0", is the tuple of its parts.  Its text is        *)
(* reduced to `silent': does it begin with "0".  Which rows the words of   *)
(* the customer match is part of the utterance: for every name it holds    *)
(* at most the row that compare_answer scores best.                        *)
(***************************************************************************)
EXTENDS ContextRegistry, Sequences

CONSTANTS
  Answers, Publics,   \* rows by id
  Flows, Purposes,    \* sequences of names
  DeepFloors,         \* how many floors the deep contexts want
  DeepRow             \* the row named after a set of deep contexts, ".a&b&"

Name(c, kind) == <<c, kind, 0, 0>>
Own(c) == Name(c, "")
Public(kind) == Name("", kind)
Numbered(kind, i, j) == <<"", kind, i, j>>

\* What next_context can be: a context, or a sign.
Signs == {"!", ">", "^", "#", "#9", "@", "&", "0"}

Row == [name : ContextName \X STRING \X Int \X Int,
        next : ContextName, skip_condition : ContextName, skip_to : ContextName,
        score : Nat, weight : {0, 1}, level : Level \cup {"hangup"},
        priority : Nat, question : BOOLEAN, silent : BOOLEAN]

ASSUME DatabaseAssumption ==
  /\ DOMAIN Answers \subseteq Nat /\ \A i \in DOMAIN Answers : Answers[i] \in Row
  /\ DOMAIN Publics \subseteq Nat /\ \A i \in DOMAIN Publics : Publics[i] \in Row
  /\ Signs \cup {""} \subseteq ContextName /\ "" \in Level
  /\ Flows \in Seq(ContextName) /\ Purposes \in Seq(ContextName)
  /\ \A c \in DOMAIN DeepFloors : c \in ContextName /\ DeepFloors[c] \in Nat
  /\ DeepRow \in [SUBSET DOMAIN DeepFloors -> DOMAIN Answers \cup {-1}]

NoRow == -1

\* The first of the rows with these ids: the queries take the lowest id.
First(ids) == IF ids = {} THEN NoRow
              ELSE CHOOSE i \in ids : \A j \in ids : i <= j

\* sql_get_response_by_context_only and the public one: the first row of a name.
Named(table, name) == First({i \in DOMAIN table : table[i].name = name})

\* The same for the name of a context itself; "" is no context.
OwnRow(c) == IF c = "" THEN NoRow ELSE Named(Answers, Own(c))

\* sql_get_response, sql_get_public_response: the row of a name that matches.
Matching(table, name, heard) ==
  First({i \in DOMAIN table \cap heard : table[i].name = name})

\* sql_get_by_id, sql_get_public_by_id
ById(table, id) == IF id \in DOMAIN table THEN id ELSE NoRow

\* A mutant: the status of a hang-up is taken for a level.
LoadedHangup(context, table, id) ==
  LET row == table[id]
  IN  [cur |-> context.cur,
       parent |-> IF context.cur # "" /\ ~HasDot(context.cur)
                  THEN context.cur ELSE context.parent,
       previous |-> context.previous, next |-> row.next,
       skip_condition |-> row.skip_condition, skip_to |-> row.skip_to,
       id |-> id, score |-> row.score, weight |-> row.weight, level |-> row.level,
       priority |-> row.priority, question |-> row.question, public |-> FALSE]

\* sql_get_default_data: the context after a row was read into it.
Loaded(context, table, id) ==
  LET row == table[id]
  IN  [cur |-> context.cur,
       parent |-> IF context.cur # "" /\ ~HasDot(context.cur)
                  THEN context.cur ELSE context.parent,
       previous |-> context.previous,
       next |-> row.next, skip_condition |-> row.skip_condition,
       skip_to |-> row.skip_to, id |-> id, score |-> row.score,
       weight |-> row.weight,
       level |-> IF row.level = "hangup" THEN context.level ELSE row.level,
       priority |-> row.priority, question |-> row.question,
       public |-> FALSE]

\* is_flow_type
IsFlow(c) == \E i \in DOMAIN Flows : Flows[i] = c

\* sql_get_unused_context: "" when c is not a flow or when all flows were used.
UnusedFlow(q, c) ==
  LET fresh == {i \in DOMAIN Flows : Flows[i] \notin DOMAIN q}
  IN  IF IsFlow(c) /\ fresh # {} THEN Flows[First(fresh)] ELSE ""

\* sql_get_unused_purpose: the last one when all were used.
UnusedPurpose(q) ==
  LET fresh == {i \in DOMAIN Purposes : ~IsPurpose(q, Purposes[i])}
  IN  IF Purposes = <<>> THEN ""
      ELSE IF fresh # {} THEN Purposes[First(fresh)] ELSE Purposes[Len(Purposes)]

\* sql_get_introduce_deep: the deep contexts that have not been told in full.
Untold(q) == {c \in DOMAIN DeepFloors : UsedFloors(q, c) < DeepFloors[c]}

\* sql_get_next_notused_response: where to go from c, "" for nowhere.
NextUnused(q, c, purpose_flag) ==
  LET flow == UnusedFlow(q, c)
  IN  IF ~IsUsed(q, c) THEN ""
      ELSE IF purpose_flag \/ flow = "" THEN UnusedPurpose(q) ELSE flow
=============================================================================
