------------------------------ MODULE XmlReader ------------------------------
(* The reader of the configuration of the call robot (src/esl/venilla_xml.c): *)
(* a recursive descent over a buffer, in which a position that would leave    *)
(* the buffer stays on its last character.  The recursion of xml_parse_node   *)
(* is a stack of frames; every step is one call of a parsing function, and    *)
(* live counts what was allocated and not freed.                             *)
(*                                                                           *)
(* A character is what the reader tells apart: "<", ">", "/", a blank and     *)
(* letters.  The document that is read is the image of a tree or any other    *)
(* sequence of characters.                                                   *)
EXTENDS Naturals, Sequences, SequencesExt, FiniteSetsExt

CONSTANTS Trees,     \* trees: what correct documents say
          Documents  \* other documents, correct or not

VARIABLES
  tree,      \* history: the tree whose image the document is, or NoNode
  buffer,    \* the characters of the document
  pc,        \* the step of xml_parse_node the innermost call is at
  position,  \* of the parser, 1 for the first character
  stack,     \* the calls of xml_parse_node, the innermost last
  root,      \* what the outermost call returned
  live       \* allocations: strings, nodes, arrays of children, the buffer

vars == <<tree, buffer, pc, position, stack, root, live>>

Node(name, content, children) ==
    [name |-> name, content |-> content, children |-> children]
NoNode == Node(<<"none">>, <<>>, <<>>)

(* tag_open, content and children of a call that has read nothing. *)
Unread == <<"unread">>
Frame == Node(Unread, <<>>, <<>>)

(* What is written for a tree: every tag on a place of its own, blanks before *)
(* tags and around a content, an empty leaf as <name/>.                       *)
RECURSIVE Image(_)
Image(n) ==
    LET Tag(name) == <<" ", "<">> \o name \o <<">">>
    IN IF n.children = <<>> /\ n.content = <<>> THEN <<" ", "<">> \o n.name \o <<"/", ">">>
       ELSE Tag(n.name)
            \o (IF n.content = <<>> THEN <<>> ELSE <<" ">> \o n.content \o <<" ">>)
            \o FlattenSeq([i \in DOMAIN n.children |-> Image(n.children[i])])
            \o <<" ", "<", "/">> \o n.name \o <<">">>

(* The allocations of a node: itself, its name, its content, its children. *)
RECURSIVE Allocated(_)
Allocated(n) == 3 + (IF n.content = <<>> THEN 0 ELSE 1)
                + FoldSeq(+, 0, [i \in DOMAIN n.children |-> Allocated(n.children[i])])

(* xml_open_document has read the file into a buffer of its own.  An empty   *)
(* document fails at once.                                                   *)
Init == /\ \/ tree \in Trees /\ buffer = Image(tree)
           \/ tree = NoNode /\ buffer \in Documents
        /\ pc = IF buffer = <<>> THEN "failed" ELSE "open"
        /\ position = 1
        /\ stack = IF buffer = <<>> THEN <<>> ELSE <<Frame>>
        /\ root = NoNode
        /\ live = IF buffer = <<>> THEN 1 ELSE 2

-----------------------------------------------------------------------------
(* The scanner. *)

Blanks == {" "}
Size == Len(buffer)

Blank(p, q) == \A r \in p .. q - 1 : buffer[r] \in Blanks

(* xml_parser_peek: the first character from p on that is no blank, or the    *)
(* one behind it; "" when there is none.                                     *)
Visible(p) == IF Blank(p, Size + 1) THEN Size + 1
              ELSE CHOOSE q \in p .. Size : Blank(p, q) /\ buffer[q] \notin Blanks
At(q) == IF q > Size THEN "" ELSE buffer[q]
Peek(p) == At(Visible(p))
PeekNext(p) == At(Visible(Visible(p) + 1))

(* xml_parser_consume. *)
Consumed(p, n) == IF p + n > Size THEN Size ELSE p + n

(* A mutant: blanks are left to peek. *)
Unskipped(p) == p

(* xml_skip_whitespace. *)
Skipped(p) == IF Visible(p) > Size THEN Size ELSE Visible(p)

(* How many characters are consumed one by one until peek sees stop.  It sees *)
(* through blanks, so that those in front of stop are not among them.        *)
Until(start, stop) ==
    IF \A r \in start .. Size : buffer[r] # stop THEN Size + 1 - start
    ELSE LET at == CHOOSE q \in start .. Size :
                     /\ buffer[q] = stop
                     /\ \A r \in start .. q - 1 : buffer[r] # stop
         IN CHOOSE k \in 0 .. at - start :
              /\ Blank(start + k, at)
              /\ k > 0 => buffer[start + k - 1] \notin Blanks
Text(start, length) == SubSeq(buffer, start, start + length - 1)

Nothing == [ok |-> FALSE, text |-> <<>>, position |-> 0]
Found(text, p) == [ok |-> TRUE, text |-> text, position |-> p]

(* xml_parse_tag_end: the name up to the end of the tag. *)
TagEnd(start) ==
    LET length == Until(start, ">")
        end == Consumed(start, length)
    IN IF Peek(end) = ">" THEN Found(Text(start, length), Consumed(end, 1)) ELSE Nothing

TagOpen == LET p == Skipped(position)
           IN IF Peek(p) = "<" THEN TagEnd(Consumed(p, 1)) ELSE Nothing

TagClose == LET p == Skipped(position)
            IN IF Peek(p) = "<" /\ PeekNext(p) = "/" THEN TagEnd(Consumed(p, 2)) ELSE Nothing

(* xml_parse_content.  Blanks at its end were not consumed: the loop that     *)
(* takes them off finds none.                                                *)
Content ==
    LET start == Skipped(position)
        length == Until(start, "<")
        end == Consumed(start, length)
    IN IF Peek(end) = "<" THEN Found(Text(start, length), end) ELSE Nothing

-----------------------------------------------------------------------------
(* xml_parse_node, the call on top of the stack. *)

Call == Last(stack)
SetCall(call) == stack' = Append(Front(stack), call)
Goto(p, at) == pc' = at /\ position' = p

(* The label exit_failure, entered. *)
GiveUp == /\ pc' = "failed"
          /\ UNCHANGED <<position, stack, root, live>>

(* The label node_creation: the node goes to the calling xml_parse_node, or   *)
(* to xml_parse_document, which makes a document of it.                       *)
Return(node, p, allocated) ==
    /\ live' = live + allocated + (IF Len(stack) = 1 THEN 2 ELSE 1)
    /\ IF Len(stack) = 1
       THEN /\ Goto(p, "done")
            /\ stack' = <<>>
            /\ root' = node
       ELSE /\ Goto(p, "children")
            /\ stack' = LET outer == Front(stack)
                        IN Append(Front(outer), [Last(outer) EXCEPT !.children = Append(@, node)])
            /\ UNCHANGED root

Open ==
    /\ pc = "open"
    /\ \E tag \in {TagOpen} :
         IF ~tag.ok THEN GiveUp
         ELSE IF tag.text # <<>> /\ Last(tag.text) = "/"
         THEN Return([Call EXCEPT !.name = Front(tag.text)], tag.position, 1)
         ELSE /\ SetCall([Call EXCEPT !.name = tag.text])
              /\ Goto(tag.position, IF Peek(tag.position) = "<" THEN "children" ELSE "content")
              /\ live' = live + 1
              /\ UNCHANGED root
    /\ UNCHANGED <<tree, buffer>>

ReadContent ==
    /\ pc = "content"
    /\ \E content \in {Content} :
         IF ~content.ok THEN GiveUp
         ELSE /\ SetCall([Call EXCEPT !.content = content.text])
              /\ Goto(content.position, "close")
              /\ live' = live + 1
              /\ UNCHANGED root
    /\ UNCHANGED <<tree, buffer>>

(* The loop over the children ends at a closing tag. *)
Children ==
    /\ pc = "children"
    /\ IF PeekNext(position) = "/"
       THEN pc' = "close" /\ UNCHANGED <<stack, live>>
       ELSE /\ pc' = "open"
            /\ stack' = Append(stack, Frame)
            /\ live' = live + 1
    /\ UNCHANGED <<tree, buffer, position, root>>

(* The name of the closing tag is allocated, compared and freed. *)
Close ==
    /\ pc = "close"
    /\ \E tag \in {TagClose} :
         IF tag.ok /\ tag.text = Call.name
         THEN Return(Call, tag.position, 0)
         ELSE GiveUp
    /\ UNCHANGED <<tree, buffer>>

(* The array of the children, the tag and the content a call has read; as a    *)
(* mutant, all that is freed.                                                *)
HeldWithoutChildren(call) == 1 + (IF call.name = Unread THEN 0 ELSE 1)
                               + (IF call.content = <<>> THEN 0 ELSE 1)

(* What a call holds, its children with all they hold included. *)
Held(call) == HeldWithoutChildren(call)
              + FoldSeq(+, 0, [i \in DOMAIN call.children |-> Allocated(call.children[i])])

(* exit_failure: what the call holds is freed and the caller fails too; at    *)
(* last xml_open_document frees the buffer.                                   *)
Fail ==
    /\ pc = "failed"
    /\ IF stack = <<>>
       THEN /\ pc' = "done"
            /\ live' = live - 1
            /\ UNCHANGED stack
       ELSE /\ stack' = Front(stack)
            /\ live' = live - Held(Call)
            /\ UNCHANGED pc
    /\ UNCHANGED <<tree, buffer, position, root>>

(* xml_document_free, with the buffer. *)
Free == /\ pc = "done" /\ root # NoNode
        /\ pc' = "freed"
        /\ live' = live - Allocated(root) - 2
        /\ root' = NoNode
        /\ UNCHANGED <<tree, buffer, position, stack>>

Stopped == pc \in {"done", "freed"} /\ root = NoNode
Stops == Stopped /\ UNCHANGED vars

Next == Open \/ ReadContent \/ Children \/ Close \/ Fail \/ Free \/ Stops

(* One thread, which is not stopped. *)
Spec == Init /\ [][Next]_vars /\ WF_vars(Next)

-----------------------------------------------------------------------------
(* Properties. *)

(* Every parse ends, and what was written for a tree is read as that tree,    *)
(* wherever blanks stand between its tags (venilla_xml.c: 508-614).           *)
ReadsTrees == <>(pc = "done" /\ (tree # NoNode => root = tree))

(* Whatever the document holds and wherever its reading fails, all that is    *)
(* allocated hangs on the calls under way or on the document: nothing is left *)
(* when the parse has failed or the document was freed.                       *)
NothingLeaks ==
    live = FoldSeq(+, 0, [i \in DOMAIN stack |-> Held(stack[i])])
           + (IF pc \in {"done", "freed"} /\ root = NoNode THEN 0 ELSE 1)
           + (IF root = NoNode THEN 0 ELSE Allocated(root) + 1)
=============================================================================
