------------------------------ MODULE WordMatch ------------------------------
(* What the words of a customer are taken for: the row of an answer table    *)
(* they match best (src/semantic/sa_sql.c), and the event and the type they  *)
(* raise (src/semantic/semantic_pretreatment.c).  Dialog takes an utterance  *)
(* as the outcome of these functions; here the outcome is computed.          *)
(*                                                                           *)
(* A sentence is a sequence of characters, three bytes each (Chinese, as in  *)
(* the tables); the blank, "*" and ">" of a key have one byte.  Positions    *)
(* count characters.                                                         *)
EXTENDS Integers, Sequences, SequencesExt, FiniteSets

-----------------------------------------------------------------------------
(* strstr, 0 for NULL, and the words of a key. *)

Least(S) == IF S = {} THEN 0 ELSE CHOOSE p \in S : \A q \in S : p <= q

At(src, word) ==
    {p \in 1 .. Len(src) - Len(word) + 1 : SubSeq(src, p, p + Len(word) - 1) = word}
Strstr(src, from, word) == Least({p \in At(src, word) : p >= from})

(* The first loop of pub_reg_cmp_word and of cmp_word_by_reg: the runs of    *)
(* characters between blanks.                                                *)
Runs(key) ==
    {r \in (DOMAIN key) \X (DOMAIN key) :
       /\ r[1] <= r[2]
       /\ \A k \in r[1] .. r[2] : key[k] # " "
       /\ r[1] > 1 => key[r[1] - 1] = " "
       /\ r[2] < Len(key) => key[r[2] + 1] = " "}
Cut(key, runs) == [i \in DOMAIN runs |-> SubSeq(key, runs[i][1], runs[i][2])]
Words(key) == Cut(key, SetToSortSeq(Runs(key), LAMBDA r, s : r[1] < s[1]))

Length(words) == FoldLeft(LAMBDA sum, w : sum + Len(w), 0, words)

-----------------------------------------------------------------------------
(* The score of a key: each of its words is looked for behind the one before *)
(* and recorded in a list ordered by address, each address once.             *)

(* A mutant: a word is recorded at the end of the list. *)
AppendNode(head, node) == Append(head, node)

(* ai_insert_node, of an address that is not in the list. *)
InsertNode(head, node) ==
    SelectSeq(head, LAMBDA n : n.at < node.at) \o <<node>>
    \o SelectSeq(head, LAMBDA n : n.at > node.at)

(* find_key_and_record: an address that is taken is passed over. *)
FindKey(head, src, from, word) ==
    Least({p \in At(src, word) : p >= from /\ \A i \in DOMAIN head : head[i].at # p})

(* The search for the next word begins where the last one found stands first. *)
Record(st, src, word, i, before, at) ==
    IF at = 0 THEN [st EXCEPT !.before = before]
    ELSE [head |-> InsertNode(st.head, [order |-> i, at |-> at]),
          before |-> Strstr(src, 1, word)]
SeekFrom(st, src, word, i, before) ==
    Record(st, src, word, i, before,
           FindKey(st.head, src, IF before = 0 THEN 1 ELSE before, word))
Seek(st, src, word, i) ==
    SeekFrom(st, src, word, i,
             IF i > 1 /\ st.before = 0 THEN 0
             ELSE Strstr(src, IF i = 1 THEN 1 ELSE st.before, word))

Found(src, words) ==
    FoldLeftDomain(LAMBDA st, i : Seek(st, src, words[i], i),
                   [head |-> <<>>, before |-> 0], words).head

(* How many words follow their predecessor, and all if all do. *)
Follow(head) == Cardinality({k \in 1 .. Len(head) - 1 :
                               head[k].order + 1 = head[k + 1].order})
SumOrder(sum, follow) == IF sum > 1 /\ follow + 1 = sum THEN sum ELSE follow

(* pub_reg_cmp_word, of a key with at least one word: none divides by zero. *)
Value(src, words, order) ==
    ((Len(words) + 3 * Length(words)) * 10) \div (3 * Len(src))
    + (order * 10) \div Len(words)
Scored(src, words, sum, order, use_order) ==
    CASE sum # Len(words) -> 0
      [] sum = 1 /\ Len(words) = 1 /\ Len(words[1]) = 1 /\ Len(src) # 1 -> 0
      [] sum = Len(words) /\ sum > 1 /\ use_order /\ order # sum -> -1
      [] OTHER -> Value(src, words, order)
Judged(src, words, head, use_order) ==
    Scored(src, words, Len(head), SumOrder(Len(head), Follow(head)), use_order)
Split(src, words, use_order) == Judged(src, words, Found(src, words), use_order)
Score(src, key, use_order) == Split(src, Words(key), use_order)

-----------------------------------------------------------------------------
(* compare_answer: the first of the best rows, a key after ">" in order. *)

Star == <<"*">>
NoMatch == [id |-> 0, score |-> 0]

RowScore(src, condition) ==
    Score(src, IF Head(condition) = ">" THEN Tail(condition) ELSE condition,
          Head(condition) = ">")

Better(best, row) == IF row.score > best.score THEN row ELSE best

(* recompare_answer, over the rows of the contexts without a dot in the name. *)
Recompare(src, conditions) ==
    FoldLeftDomain(LAMBDA best, i : Better(best, [id |-> i, score |-> Score(src, conditions[i], FALSE)]),
                   NoMatch, conditions)

(* A row "*" ends the comparison, whatever matched before it. *)
Compared(src, conditions) ==
    FoldLeftDomain(LAMBDA b, i : Better(b, [id |-> i, score |-> RowScore(src, conditions[i])]),
                   NoMatch, conditions)
Recompared(src, best, fallback) ==
    IF best.score = 4 /\ Len(src) > 4 THEN Better(best, Recompare(src, fallback)) ELSE best
FirstStar(conditions) == Least({i \in DOMAIN conditions : conditions[i] = Star})
CompareAnswer(src, conditions, fallback) ==
    IF FirstStar(conditions) # 0 THEN [id |-> FirstStar(conditions), score |-> 20]
    ELSE Recompared(src, Compared(src, conditions), fallback)

-----------------------------------------------------------------------------
(* set_envent: the sentence is stripped, normalised and compared with the    *)
(* rows of CMP_NO, whose ITYPE is 4 for a question.                          *)

Symbols == {","}

(* Cancel_Symbol: at most two symbols at the end. *)
CancelOne(s) == IF s # <<>> /\ Last(s) \in Symbols THEN Front(s) ELSE s
CancelSymbol(s) == CancelOne(CancelOne(s))

(* replace_word and normative_word: of each rule, the first place is replaced. *)
Replaced(s, rule, at) ==
    IF at = 0 THEN s
    ELSE SubSeq(s, 1, at - 1) \o rule.word \o SubSeq(s, at + Len(rule.condition), Len(s))
ReplaceWord(s, rule) == Replaced(s, rule, Strstr(s, 1, rule.condition))
NormativeWord(s, rules) == FoldLeft(ReplaceWord, s, rules)

(* cmp_word_by_reg: 0 if the words fill the sentence, their bytes if they    *)
(* only occur in it one behind the other, -1 if not; a key of one character  *)
(* must be the whole sentence, but for a question.                           *)
InOrder(at, words) ==
    \A i \in DOMAIN words : at[i] # 0 /\ (i > 1 => at[i] >= at[i - 1] + Len(words[i - 1]))
Matched(src, words, single, itype) ==
    CASE ~InOrder([i \in DOMAIN words |-> Strstr(src, 1, words[i])], words) -> -1
      [] Length(words) = Len(src) -> 0
      [] Length(words) < Len(src) /\ single /\ itype # 4 -> -1
      [] OTHER -> 3 * Length(words)
CmpWordByReg(src, key, itype) == Matched(src, Words(key), Len(key) = 1, itype)

(* The loop over the rows; it ends with the first row that fills the sentence. *)
NoType == [ask |-> 0, itype |-> 0, longest |-> -1, full |-> FALSE]
Classify(st, row, length) ==
    CASE st.full \/ length < 0 -> st
      [] ~st.full /\ length = 0 ->
           IF row.itype = 4 THEN [st EXCEPT !.ask = 4, !.itype = 0, !.full = TRUE]
           ELSE [st EXCEPT !.ask = 1, !.itype = row.itype, !.full = TRUE]
      [] ~st.full /\ length > 0 ->
           IF row.itype = 4 THEN [st EXCEPT !.ask = 4]
           ELSE IF length > st.longest
                THEN [st EXCEPT !.itype = row.itype, !.longest = length] ELSE st
Event(st) ==
    [event |-> IF st.ask = 4 THEN "evt_pre_ask" ELSE "evt_pre_answer",
     answer_type |-> IF st.ask = 4 /\ st.itype = 0 THEN "type_question" ELSE st.itype]
Classified(src, rows) ==
    Event(FoldLeft(LAMBDA st, row : Classify(st, row, CmpWordByReg(src, row.name, row.itype)),
                   NoType, rows))
SetEnvent(word, rules, rows) == Classified(NormativeWord(CancelSymbol(word), rules), rows)

-----------------------------------------------------------------------------
(* What they should compute. *)

(* The words stand at places of their own, in their order if that matters. *)
Placed(src, words, ordered) ==
    \E at \in [DOMAIN words -> DOMAIN src] :
       /\ \A i \in DOMAIN words : at[i] \in At(src, words[i])
       /\ \A i, j \in DOMAIN words : i < j => IF ordered THEN at[i] < at[j] ELSE at[i] # at[j]

(* A key scores only if its words are placed, and scores then if none of     *)
(* them occurs twice, unless the sentence is so long that the share of the   *)
(* words in it is rounded to 0: the list of addresses, the search that       *)
(* starts over and the passed-over addresses never make up a match           *)
(* (sa_sql.c: 515-880).                                                      *)
KeyIsPlaced(src, words, scores, ordered) ==
    /\ scores => Placed(src, words, ordered)
    /\ ( /\ \A w \in Range(words) : Cardinality(At(src, w)) = 1
         /\ Placed(src, words, ordered)
         /\ Len(words) = 1 => Len(words[1]) > 1
         /\ 3 * Len(src) <= 10 * (Len(words) + 3 * Length(words)) )
       => scores
KeyScores(src, key, ordered) ==
    KeyIsPlaced(src, Words(key), Score(src, key, ordered) > 0, ordered)

(* The row that is chosen beats every other one (sa_sql.c: 937-1021). *)
Beats(best, scores) == \A i \in DOMAIN scores : /\ scores[i] <= best.score
                                              /\ i < best.id => scores[i] < best.score
BestRow(src, conditions) ==
    Star \notin Range(conditions) =>
      Beats(CompareAnswer(src, conditions, <<>>),
            [i \in DOMAIN conditions |-> RowScore(src, conditions[i])])

(* A row whose words are the whole sentence decides, the first one of them,  *)
(* whatever partial matches come before it; and no other fills the sentence  *)
(* (semantic_pretreatment.c: 13-95 and 503-570).                             *)
Decides(event, row) ==
    event = IF row.itype = 4
            THEN [event |-> "evt_pre_ask", answer_type |-> "type_question"]
            ELSE [event |-> "evt_pre_answer", answer_type |-> row.itype]
RowDecides(src, event, rows) ==
    /\ \A row \in Range(rows) :
         CmpWordByReg(src, row.name, row.itype) = 0 => FlattenSeq(Words(row.name)) = src
    /\ \A i \in DOMAIN rows :
         ( /\ CmpWordByReg(src, rows[i].name, rows[i].itype) = 0
           /\ \A j \in 1 .. i - 1 : CmpWordByReg(src, rows[j].name, rows[j].itype) # 0 )
         => Decides(event, rows[i])
=============================================================================
