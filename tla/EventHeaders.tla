---------------------------- MODULE EventHeaders ----------------------------
(* The headers of an event (src/esl/esl_event.c): a linked list with a       *)
(* pointer to its last member, in which a header holds one value or an array *)
(* whose drawing "ARRAY::a|:b" is kept beside it.  One action per call of    *)
(* the interface (the methods of ESLevent), and, as operators, the ways an   *)
(* event is copied: duplicated, merged, sent as text, and sent as JSON.      *)
(*                                                                           *)
(* A text is the sequence of its parts: <<"a">> is the plain text a,         *)
(* <<"a","b">> is ARRAY::a|:b, <<"">> is the empty string.  Header names are *)
(* without an index; "_body" is not used as one.                             *)
EXTENDS Integers, Sequences, SequencesExt, FiniteSetsExt

CONSTANTS HeaderNames,  \* names of headers, "priority" among them
          Parts,        \* what is written into headers
          MaxHeaders,   \* bound: headers of the event
          MaxElements,  \* bound: elements of all arrays together
          Indices       \* indices written in a name, as in name[1]

VARIABLE event

(* A header has a name: the empty one stands for a null pointer (NoName).    *)
(* Callers leave to the copies the names that these write themselves.  What  *)
(* atoi makes of the digits in name[1] is an integer.                        *)
ASSUME HeadersAssumption ==
    /\ {"", "Content-Length", "_body"} \cap HeaderNames = {}
    /\ Indices \subseteq Int

NULL == 0
Empty == <<"">>
Undef == <<"_undef_">>
BOTTOM == 0
TOP == 1
PUSH == 2
UNSHIFT == 3
MaxIndex == 4000

(* Memory that no header uses: its name is a null pointer. *)
NoName == ""
Freed == [name |-> NoName, value |-> Empty, array |-> <<>>, next |-> NULL]
NewHeader(name) == [Freed EXCEPT !.name = name]

(* A body: none, a text, and a text with a % in it. *)
Plain == <<"text">>
Percent == <<"100%">>
Bodies == {<<>>, Plain, Percent}

(* esl_event_create with ESL_EVENT_CLONE: no header, no body. *)
Created == [headers |-> NULL, last |-> NULL, cells |-> <<>>, body |-> <<>>]

-----------------------------------------------------------------------------
(* The list. *)

(* The headers in the order in which the next pointers lead through them. *)
Walk(e) ==
    LET from[k \in 0 .. Len(e.cells)] ==
          [c \in {NULL} \cup DOMAIN e.cells |->
             IF k = 0 \/ c = NULL THEN <<>> ELSE <<c>> \o from[k - 1][e.cells[c].next]]
    IN from[Len(e.cells)][e.headers]

Listed(e) ==
    LET Header(c) == [name |-> c.name, value |-> c.value, array |-> c.array]
        w == Walk(e)
    IN [k \in DOMAIN w |-> Header(e.cells[w[k]])]

(* esl_event_get_header_ptr: the first header of that name. *)
HeaderPtr(e, name) ==
    LET w == Walk(e)
        At(k) == e.cells[w[k]].name = name
    IN IF \A k \in DOMAIN w : ~At(k) THEN NULL
       ELSE w[CHOOSE k \in DOMAIN w : At(k) /\ \A j \in 1 .. k - 1 : ~At(j)]

(* esl_event_get_header_idx, without an index and with one. *)
Lookup(e, name, i) ==
    LET p == HeaderPtr(e, name)
    IN CASE p = NULL -> <<>>
         [] p # NULL /\ i < 0 -> e.cells[p].value
         [] p # NULL /\ i >= 0 /\ i < Len(e.cells[p].array) -> <<e.cells[p].array[i + 1]>>
         [] OTHER -> <<>>

(* A mutant: last is looked after only when it is the header in front. *)
UnlinkedKeepingLast(e, lp, hp) ==
    LET n == e.cells[hp].next
        cells == IF lp = NULL THEN e.cells ELSE [e.cells EXCEPT ![lp].next = n]
    IN [e EXCEPT !.cells = [cells EXCEPT ![hp] = Freed],
                 !.headers = IF lp = NULL THEN n ELSE @,
                 !.last = IF lp = NULL /\ n = NULL THEN NULL ELSE @]

(* One header taken out of the list, lp the one before it. *)
Unlinked(e, lp, hp) ==
    LET n == e.cells[hp].next
        cells == IF lp = NULL THEN e.cells ELSE [e.cells EXCEPT ![lp].next = n]
    IN [e EXCEPT !.cells = [cells EXCEPT ![hp] = Freed],
                 !.headers = IF lp = NULL THEN n ELSE @,
                 !.last = IF hp = @ \/ n = NULL THEN lp ELSE @]

(* esl_event_del_header_val: every header of the name, or of name and value. *)
Deleted(e, name, val) ==
    LET w == Walk(e)
        d[k \in 0 .. Len(w)] ==
          IF k = 0 THEN [e |-> e, lp |-> NULL]
          ELSE LET c == d[k - 1].e.cells[w[k]]
               IN IF c.name = name /\ val \in {Empty, c.value}
                  THEN [d[k - 1] EXCEPT !.e = Unlinked(d[k - 1].e, d[k - 1].lp, w[k])]
                  ELSE [d[k - 1] EXCEPT !.lp = w[k]]
    IN d[Len(w)].e

(* new_header gives memory that no header uses. *)
NewId(e) == Min({i \in 1 .. Len(e.cells) + 1 :
                   i > Len(e.cells) \/ e.cells[i] = Freed})
Placed(e, id, header) == IF id > Len(e.cells) THEN Append(e.cells, header)
                         ELSE [e.cells EXCEPT ![id] = header]

(* The end of esl_event_base_add_header links the header in: in front with   *)
(* the lowest bit of stack set, or else at the end.                          *)
Linked(e, header, stack) ==
    LET id == NewId(e)
    IN IF stack % 2 = 1
       THEN [e EXCEPT !.cells = Placed(e, id, [header EXCEPT !.next = e.headers]),
                      !.headers = id,
                      !.last = IF @ = NULL THEN id ELSE @]
       ELSE LET cells == Placed(e, id, header)
            IN [e EXCEPT !.cells = IF e.last = NULL THEN cells
                                   ELSE [cells EXCEPT ![e.last].next = id],
                         !.headers = IF e.last = NULL THEN id ELSE @,
                         !.last = id]

-----------------------------------------------------------------------------
(* Adding. *)

(* The label redraw: the value becomes the drawing of the array. *)
Redrawn(header, array) == [header EXCEPT !.array = array, !.value = array]

(* A value in an array: a plain value becomes the first element. *)
Pushed(header, part) ==
    Redrawn(header, (IF header.array = <<>> THEN header.value ELSE header.array)
                    \o <<part>>)

(* A header of that name is there and stack is not ESL_STACK_BOTTOM: the test *)
(* of ESL_STACK_UNSHIFT, which is 3, holds for ESL_STACK_TOP too.  The lowest *)
(* bit is cleared: what is put on top replaces the value beside the array,    *)
(* what is unshifted is pushed.                                               *)
InPlace(header, stack, part) ==
    IF stack = TOP THEN [header EXCEPT !.value = <<part>>] ELSE Pushed(header, part)

(* A new header: an array of one unless stack is ESL_STACK_BOTTOM. *)
Fresh(name, stack, part) ==
    IF stack = BOTTOM THEN [NewHeader(name) EXCEPT !.value = <<part>>]
    ELSE Redrawn(NewHeader(name), <<part>>)

(* esl_event_base_add_header for a name without index and plain text. *)
AddPlain(e, stack, name, part) ==
    LET p == HeaderPtr(e, name)
    IN IF stack # BOTTOM /\ p # NULL
       THEN [e EXCEPT !.cells[p] = InPlace(@, stack, part)]
       ELSE IF part = "" THEN Deleted(e, name, Empty)
            ELSE Linked(e, Fresh(name, stack, part), stack)

(* A mutant: the parts are added and not pushed. *)
AddArrayAtBottom(e, name, text) ==
    LET a[k \in 0 .. Len(text)] ==
          IF k = 0 THEN e ELSE AddPlain(a[k - 1], BOTTOM, name, text[k])
    IN a[Len(text)]

(* esl_event_add_array pushes the parts one after the other. *)
AddArray(e, name, text) ==
    LET a[k \in 0 .. Len(text)] ==
          IF k = 0 THEN e ELSE AddPlain(a[k - 1], PUSH, name, text[k])
    IN a[Len(text)]

(* esl_event_add_header(_string): the drawing of an array is taken apart. *)
AddHeader(e, stack, name, text) ==
    IF Len(text) > 1 THEN AddArray(e, name, text) ELSE AddPlain(e, stack, name, text[1])

Filled(array, i, part) == array \o [k \in 1 .. i - Len(array) |-> ""] \o <<part>>

(* esl_event_base_add_header for name[i]: an element that is there is        *)
(* overwritten and not drawn again; an array that is too short is filled up. *)
AddIndexed(e, stack, name, i, part) ==
    LET p == HeaderPtr(e, name)
    IN CASE i \notin 0 .. MaxIndex -> e
         [] i \in 0 .. MaxIndex /\ p = NULL ->
              Linked(e, Redrawn(NewHeader(name), Filled(<<>>, i, part)), stack)
         [] i \in 0 .. MaxIndex /\ p # NULL /\ i < Len(e.cells[p].array) ->
              [e EXCEPT !.cells[p].array[i + 1] = part]
         [] OTHER ->
              [e EXCEPT !.cells[p] = Redrawn(@, Filled(@.array, i, part))]

-----------------------------------------------------------------------------
(* Copying. *)

(* The headers of another event added to this one, arrays element by element. *)
Copied(target, e) ==
    LET from == Listed(e)
        c[k \in 0 .. Len(from)] ==
          IF k = 0 THEN target
          ELSE LET h == from[k]
               IN IF h.array # <<>> THEN AddArray(c[k - 1], h.name, h.array)
                  ELSE AddHeader(c[k - 1], BOTTOM, h.name, h.value)
    IN c[Len(from)]

Merged(e, other) == Copied(e, other)
Dup(e) == [Copied(Created, e) EXCEPT !.body = e.body]

(* esl_event_serialize writes the values, an empty one as _undef_, and the   *)
(* length of the body.                                                       *)
Length == [name |-> "Content-Length", text |-> <<"length">>]
Lines(e) ==
    LET Line(h) == [name |-> h.name, text |-> IF h.value = Empty THEN Undef ELSE h.value]
        listed == Listed(e)
    IN [k \in DOMAIN listed |-> Line(listed[k])]
Serialized(e) == [lines |-> Lines(e) \o (IF e.body = <<>> THEN <<>> ELSE <<Length>>),
                  body |-> e.body]

(* esl_recv_event adds line by line and keeps the body if its length came. *)
Parsed(text) ==
    LET p[k \in 0 .. Len(text.lines)] ==
          IF k = 0 THEN Created
          ELSE AddHeader(p[k - 1], BOTTOM, text.lines[k].name, text.lines[k].text)
        e == p[Len(text.lines)]
    IN IF Lookup(e, Length.name, -1) = <<>> THEN e ELSE [e EXCEPT !.body = text.body]
Sent(e) == Parsed(Serialized(e))

(* A mutant: only an array of several elements goes as an array. *)
JsonByDrawing(e) ==
    LET Item(h) == [name |-> h.name, isArray |-> Len(h.value) > 1, items |-> h.value]
        listed == Listed(e)
    IN [k \in DOMAIN listed |-> Item(listed[k])]
       \o (IF e.body = <<>> THEN <<>>
        ELSE << [name |-> "_body", isArray |-> FALSE, items |-> e.body] >>)

(* esl_event_serialize_json: an array goes as an array, any other header as  *)
(* its value.                                                                *)
Json(e) == LET Item(h) == [name |-> h.name, isArray |-> h.array # <<>>,
                           items |-> IF h.array # <<>> THEN h.array ELSE h.value]
               listed == Listed(e)
           IN [k \in DOMAIN listed |-> Item(listed[k])]
           \o (IF e.body = <<>> THEN <<>>
               ELSE << [name |-> Length.name, isArray |-> FALSE, items |-> Length.text],
                       [name |-> "_body", isArray |-> FALSE, items |-> e.body] >>)

(* esl_event_add_body with a body as its format: vasprintf keeps one without *)
(* a %, and makes any text of another, or none where it fails.               *)
Printed(body) == IF body = Percent THEN Bodies ELSE {body}

(* esl_event_create_json, whose body is `printed'. *)
FromJson(json, printed) ==
    LET j[k \in 0 .. Len(json)] ==
          IF k = 0 THEN Created
          ELSE LET item == json[k]
               IN IF item.name = "_body" THEN [j[k - 1] EXCEPT !.body = printed]
                  ELSE IF item.isArray THEN AddArray(j[k - 1], item.name, item.items)
                  ELSE AddHeader(j[k - 1], BOTTOM, item.name, item.items)
    IN j[Len(json)]
JsonCopies(e) == {FromJson(Json(e), printed) : printed \in Printed(e.body)}

-----------------------------------------------------------------------------
(* The calls on one event. *)

InRange(e) == /\ Len(Walk(e)) <= MaxHeaders
              /\ SumFunction([i \in DOMAIN e.cells |-> Len(e.cells[i].array)]) <= MaxElements
Becomes(e) == InRange(e) /\ event' = e

(* Texts a caller hands over: plain ones and the drawing of two elements. *)
Texts == {<<p>> : p \in Parts} \cup {<<p, q>> : p, q \in Parts}

HeadersInit == event = Created

(* ESLevent::addHeader. *)
Add(name, text) == Becomes(AddHeader(event, BOTTOM, name, text))

(* esl_event_set_priority puts the name of the priority on top. *)
SetPriority(part) == Becomes(AddHeader(event, TOP, "priority", <<part>>))

(* ESLevent::pushHeader and ESLevent::unshiftHeader. *)
Push(name, part) == Becomes(AddHeader(event, PUSH, name, <<part>>))
Unshift(name, part) == Becomes(AddHeader(event, UNSHIFT, name, <<part>>))

AddAt(name, i, part) == Becomes(AddIndexed(event, BOTTOM, name, i, part))

(* ESLevent::delHeader and esl_event_del_header_val. *)
Delete(name, val) == Becomes(Deleted(event, name, val))

(* ESLevent::addBody. *)
AddBody(body) == Becomes([event EXCEPT !.body = body])

(* esl_event_merge with an event of one header, plain or an array. *)
Merge(name, text) == Becomes(Merged(event, AddHeader(Created, BOTTOM, name, text)))

(* esl_event_destroy, and the next event. *)
Destroy == event' = Created

HeadersNext ==
        \/ \E name \in HeaderNames, text \in Texts : Add(name, text) \/ Merge(name, text)
        \/ \E part \in Parts \ {""} : SetPriority(part)
        \/ \E name \in HeaderNames, part \in Parts :
             Push(name, part) \/ Unshift(name, part) \/ Delete(name, <<part>>)
        \/ \E name \in HeaderNames, i \in Indices, part \in Parts : AddAt(name, i, part)
        \/ \E body \in {Plain, Percent} : AddBody(body)
        \/ Destroy

HeadersSpec == HeadersInit /\ [][HeadersNext]_event

-----------------------------------------------------------------------------
(* Properties. *)

(* The pointers describe one list: the walk meets no header twice, ends at   *)
(* the one last points to, and every header that was allocated and not freed *)
(* is met (esl_event.c: 293-346 and 566-586).                                *)
ListSound ==
    LET w == Walk(event)
    IN /\ \A j, k \in DOMAIN w : w[j] = w[k] => j = k
       /\ event.last = (IF w = <<>> THEN NULL ELSE Last(w))
       /\ ToSet(w) = {i \in DOMAIN event.cells : event.cells[i] # Freed}

(* What readers find in two events, by name and by name and index. *)
SameValues(e, f) == \A name \in HeaderNames : Lookup(e, name, -1) = Lookup(f, name, -1)
SameElements(e, f) ==
    \A name \in HeaderNames, i \in Indices : Lookup(e, name, i) = Lookup(f, name, i)

(* A copy loses what it loses at once: the duplicate of a duplicate is the   *)
(* duplicate, an event sent on looks the same after one hop and after two,   *)
(* and a duplicate and a JSON copy agree, but for a body with a % in it,     *)
(* which the JSON copy prints (esl_event.c: 724-758, 762-980 and 912).       *)
CopiesSettle ==
    /\ \E dup \in {Dup(event)}, sent \in {Sent(event)} :
         /\ Listed(Dup(dup)) = Listed(dup)
         /\ SameValues(Sent(sent), sent) /\ sent.body = event.body
         /\ \A json \in JsonCopies(event) :
              SameValues(json, dup) /\ SameElements(json, dup)
    /\ event.body # Percent => \A json \in JsonCopies(event) : json.body = event.body

(* Every call is one of the steps a list of headers allows. *)
Abstract == INSTANCE HeaderList WITH list <- Listed(event)
ListRefinement == Abstract!Spec
=============================================================================
