----------------------------- MODULE MCClients -----------------------------
(* The parts of the clients that share no state: which of them runs is       *)
(* chosen at the start, and the variables of the others keep their initial   *)
(* values.                                                                   *)
EXTENDS EslConnect, EslServer, EslObject, EventHeaders

VARIABLES part,  \* the part that runs
          tree, buffer, step, position, stack, root, live, \* of the reader
          said   \* a sentence

readerVars == <<tree, buffer, step, position, stack, root, live>>
vars == <<part, event, connectVars, readerVars, serveVars, objectVars, said>>

MCServed == <<"s1", "s2">>

-----------------------------------------------------------------------------
(* Trees of one to three levels with the documents that say them; and the    *)
(* documents of up to four characters, and small ones that were damaged.     *)

Node(name, content, children) ==
    [name |-> name, content |-> content, children |-> children]
Leaves == {Node(name, content, <<>>) :
             name \in {<<"a">>, <<"b", "a">>},
             content \in {<<>>, <<"b">>, <<"a", " ", "b">>}}
Small == {Node(<<"b">>, <<>>, <<x>>) : x \in Leaves}
         \cup {Node(<<"b">>, <<>>, <<x, y>>) : x, y \in Leaves}
MCTrees == Leaves \cup Small
           \cup {Node(<<"a">>, <<>>, <<x, y>>) : x \in Small, y \in Leaves}

Written == INSTANCE XmlReader WITH pc <- step, Trees <- {}, Documents <- {}
Damaged(d) == {RemoveAt(d, i) : i \in DOMAIN d}
              \cup {[d EXCEPT ![i] = c] : i \in DOMAIN d, c \in {" ", ">", "<"}}
MCDocuments ==
    UNION {[1 .. n -> {"<", ">", "/", " ", "a"}] : n \in 0 .. 4}
    \cup UNION {Damaged(Written!Image(t)) :
                  t \in Leaves \cup {Node(<<"b">>, <<>>, <<x, x>>) : x \in Leaves}}

Reader == INSTANCE XmlReader WITH pc <- step, Trees <- MCTrees, Documents <- MCDocuments

-----------------------------------------------------------------------------
(* Sentences with a key, with the rows of an answer table, and with the rows *)
(* of the table of types and a rule that shortens them; a long sentence.     *)
Words == INSTANCE WordMatch

Strings(chars, n) == UNION {[1 .. i -> chars] : i \in 1 .. n}
Keys == {k \in Strings({"a", "b", " "}, 4) : Words!Words(k) # <<>>}
Long == [i \in 1 .. 24 |-> CASE i = 23 -> "a" [] i = 24 -> "b" [] OTHER -> "c"]
Conditions == {<<"b">>, <<"a", "b">>, <<"b", "a">>, <<"a", " ", "b">>,
               <<">", "a", " ", "b">>, <<">", "b", " ", "a">>, Words!Star}
Row(name, itype) == [name |-> name, itype |-> itype]
Types == {Row(<<"a">>, 4), Row(<<"a">>, 7), Row(<<"a", "b">>, 7),
          Row(<<"a", " ", "b">>, 4), Row(<<"b", " ", "a", "b">>, 7)}
Rule == [condition |-> <<"a", "a">>, word |-> <<"b">>]
Repeated == {<<"a", "b", "a", "b">>, <<"b", "a", "b", "a">>}
Sentences ==
    [kind : {"key"}, src : Strings({"a", "b"}, 3) \cup Repeated \cup {Long},
     key : Keys, ordered : BOOLEAN]
    \cup [kind : {"row"}, src : Strings({"a", "b"}, 4), rows : [1 .. 2 -> Conditions]]
    \cup [kind : {"type"}, src : Strings({"a", "b", ","}, 3), rules : {<<>>, <<Rule>>},
          rows : [1 .. 2 -> Types]]

-----------------------------------------------------------------------------
Init == /\ part \in {"headers", "connect", "reader", "server", "object", "words"}
        /\ HeadersInit
        /\ ConnectInit
        /\ part # "connect" => good /\ timeout = 0
        /\ IF part = "reader" THEN Reader!Init
           ELSE /\ tree = Written!NoNode /\ buffer = <<>> /\ step = "done"
                /\ position = 1 /\ stack = <<>> /\ root = Written!NoNode /\ live = 0
        /\ ServeInit
        /\ part # "server" => listener.threaded /\ owner[1] = "free"
        /\ ObjectInit
        /\ IF part = "words" THEN said \in Sentences ELSE said = <<>>

Runs(name) == part = name /\ UNCHANGED part

HeadersStep == /\ Runs("headers") /\ HeadersNext
               /\ UNCHANGED <<connectVars, readerVars, serveVars, objectVars, said>>
ConnectStep == /\ Runs("connect") /\ ConnectNext
               /\ UNCHANGED <<event, readerVars, serveVars, objectVars, said>>
ReaderStep == /\ Runs("reader") /\ Reader!Next
              /\ UNCHANGED <<event, connectVars, serveVars, objectVars, said>>
ServerStep == /\ Runs("server") /\ ServeNext
              /\ UNCHANGED <<event, connectVars, readerVars, objectVars, said>>
ObjectStep == /\ Runs("object") /\ ObjectNext
              /\ UNCHANGED <<event, connectVars, readerVars, serveVars, said>>

Next == HeadersStep \/ ConnectStep \/ ReaderStep \/ ServerStep \/ ObjectStep

(* The fairness of each part, while it runs.  The reader can take a step      *)
(* exactly when it has not stopped: its weak fairness is written out, which  *)
(* spares TLC the search for such a step.                                    *)
Apart == UNCHANGED <<part, event, readerVars, serveVars, objectVars, said>>
Fairness ==
    /\ WF_vars(part = "connect" /\ Main /\ Apart)
    /\ WF_vars(part = "connect" /\ SwitchAnswers /\ Apart)
    /\ WF_vars(part = "connect" /\ Close /\ peer = "bye"
               /\ Apart)
    /\ \/ []<>(part # "reader" \/ Reader!Stopped)
       \/ []<><<ReaderStep>>_vars

Spec == Init /\ [][Next]_vars /\ Fairness

-----------------------------------------------------------------------------
(* The properties of the parts.                                              *)

(* The loop of main connects in the end, as long as there are descriptors    *)
(* (venilla.c: 605-609).                                                     *)
MainConnects == part = "connect" => Connects

(* No document makes the reader lose memory (venilla_xml.c: 524-630).        *)
NothingLeaks == part = "reader" => Reader!NothingLeaks

(* Every document is read to an end, and a correct one as the tree it says   *)
(* (venilla_xml.c: 508-614).                                                 *)
ReadsTrees == part = "reader" => Reader!ReadsTrees

(* What is said is taken for what its words say: the key, the row and the    *)
(* type it matches (sa_sql.c: 515-1021, semantic_pretreatment.c: 13-257 and  *)
(* 409-589).                                                                 *)
WordsDecide ==
    part = "words" =>
        CASE said.kind = "key" -> Words!KeyScores(said.src, said.key, said.ordered)
          [] said.kind = "row" -> Words!BestRow(said.src, said.rows)
          [] said.kind = "type" -> Words!RowDecides(Words!NormativeWord(Words!CancelSymbol(said.src), said.rules),
                                              Words!SetEnvent(said.src, said.rules, said.rows),
                                              said.rows)
=============================================================================
