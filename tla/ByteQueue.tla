------------------------------ MODULE ByteQueue ------------------------------
(***************************************************************************)
(* What an esl_buffer without a length limit promises its user: a queue of *)
(* bytes that can be rewound over the bytes it still remembers.  Bytes     *)
(* leave at the front in the order in which they were written, none is     *)
(* lost, repeated or changed.  A write that finds no room leaves the       *)
(* unread bytes as they are.  A write may forget bytes that were already   *)
(* taken; a rewind goes back over those that were not forgotten.           *)
(***************************************************************************)
EXTENDS Integers, Sequences

CONSTANTS
  Chunk,     \* the byte strings that are written
  MaxCount   \* bound: largest number of bytes asked for

VARIABLES
  passed,    \* the bytes taken and still remembered, oldest first
  content,   \* the bytes written and not yet taken, oldest first
  result     \* what the last call handed back: its bytes and return value

queueVars == <<passed, content, result>>

\* The first n elements of s and what follows them.
First(s, n) == SubSeq(s, 1, n)
Rest(s, n)  == SubSeq(s, n + 1, Len(s))

Answer(op, bytes, ret) == result' = [op |-> op, bytes |-> bytes, ret |-> ret]

QueueInit ==
  /\ passed = <<>> /\ content = <<>>
  /\ result = [op |-> "create", bytes |-> <<>>, ret |-> 0]

Put(chunk) ==
  /\ passed' \in {passed, <<>>}
  /\ content' = content \o chunk
  /\ Answer("write", <<>>, Len(content'))

Reject ==
  /\ passed' = <<>>
  /\ UNCHANGED content
  /\ Answer("write", <<>>, 0)

\* The queue holds the chunk behind what it held, or the chunk alone, or
\* (no room even so) nothing.
Force(chunk) ==
  /\ \/ passed' \in {passed, <<>>} /\ content' = content \o chunk
     \/ passed' = <<>> /\ content' \in {chunk, <<>>}
  /\ Answer("zwrite", <<>>, Len(content'))

Pass(n) ==
  /\ passed' = passed \o First(content, n)
  /\ content' = Rest(content, n)

Take(op, n) == Pass(n) /\ Answer(op, First(content, n), n)

Drop(n) == Pass(n) /\ Answer("toss", <<>>, Len(content) - n)

Clear ==
  /\ passed' = <<>> /\ content' = <<>>
  /\ Answer("zero", <<>>, 0)

All == passed \o content

\* Position the queue behind the first n remembered bytes.
SetTo(n) ==
  /\ passed' = First(All, n)
  /\ content' = Rest(All, n)

\* An empty queue is not moved.
Rewind(n) ==
  /\ IF content = <<>> THEN UNCHANGED <<passed, content>> ELSE SetTo(n)
  /\ Answer("seek", <<>>, n)

\* All unread bytes, then n more from the oldest remembered byte on.
TakeAround(n) == SetTo(n) /\ Answer("read_loop", content \o First(All, n), n)

\* Calls that only look: what they answer is not the queue's concern.
Look(op) == UNCHANGED <<passed, content>> /\ result'.op = op

QueueNext ==
  \/ \E chunk \in Chunk : Put(chunk) \/ Force(chunk)
  \/ Reject
  \/ \E n \in 0..Len(content) :
       Take("read", n) \/ Take("read_packet", n) \/ Take("read_loop", n) \/ Drop(n)
  \/ \E n \in 0..Len(content) : Rewind(n)
  \/ \E n \in 0..MaxCount : n <= Len(All) /\ TakeAround(n)
  \/ Clear
  \/ \E op \in {"set_loops", "packet_count"} : Look(op)

QueueSpec == QueueInit /\ [][QueueNext]_queueVars
=============================================================================
