------------------------------ MODULE EslBuffer ------------------------------
(***************************************************************************)
(* The growable byte buffer between the socket and the packet parser       *)
(* (src/esl/esl_buffer.c).  The buffer is one allocation of datalen bytes; *)
(* the unread bytes are the `used' bytes from `head' on, and               *)
(* `actually_used' counts the bytes of the allocation that were ever       *)
(* filled since it was last compacted.  A write that does not fit behind   *)
(* actually_used first moves the unread bytes to the front, then enlarges  *)
(* the allocation.  Bytes behind the unread ones are whatever an earlier   *)
(* use of the memory left there.                                           *)
(***************************************************************************)
EXTENDS Integers, Sequences

CONSTANTS
  Byte,        \* the byte values told apart
  NL, CR, NUL, \* '\n', '\r' and '\0'; the other bytes are plain text
  BlockSize,   \* blocksize of esl_buffer_create
  StartLen,    \* start_len of esl_buffer_create
  MaxLen,      \* max_len of esl_buffer_create, 0 for none
  Memory,      \* bound: realloc fails above this size
  Chunk,       \* the byte strings that are written
  MaxCount,    \* bound: largest datalen argument of a read, toss or seek
  MaxLoops     \* bound: |loops| stays at or below this

ASSUME ByteAssumption ==
  /\ {NL, CR, NUL} \subseteq Byte
  /\ NL # CR /\ NL # NUL /\ CR # NUL
  /\ Chunk \subseteq Seq(Byte)

ASSUME SizeAssumption ==
  /\ BlockSize \in Nat /\ StartLen \in Nat \ {0} /\ MaxLen \in Nat
  /\ Memory \in Nat /\ MaxCount \in Nat /\ MaxLoops \in Nat

VARIABLES
  buf,     \* struct esl_buffer: data, datalen, head, used, actually_used
  loops,   \* its `loops' field
  result   \* what the last call handed back: its bytes and return value

vars == <<buf, loops, result>>

Min2(a, b) == IF a <= b THEN a ELSE b
Max2(a, b) == IF a >= b THEN a ELSE b

\* struct esl_buffer with these fields
Buffer(data, datalen, head, used, actually_used) ==
  [data |-> data, datalen |-> datalen, head |-> head, used |-> used,
   actually_used |-> actually_used]

\* The unread bytes, and the bytes read that are still in memory, in order.
Content(b) == [k \in 1..b.used |-> b.data[b.head + k - 1]]
Behind(b)  == [k \in 1..b.head |-> b.data[k - 1]]

Returned(op, bytes, ret) == result' = [op |-> op, bytes |-> bytes, ret |-> ret]
-----------------------------------------------------------------------------
(* Reading: the first n unread bytes, or all of them if there are fewer.    *)

\* Mutant: the argument is not limited to the unread bytes.
ReadingUnlimited(b, n) == n

Reading(b, n) == Min2(b.used, n)

Advanced(b, n) == Buffer(b.data, b.datalen, b.head + Reading(b, n),
                         b.used - Reading(b, n), b.actually_used)

ReadBytes(b, n) == [k \in 1..Reading(b, n) |-> b.data[b.head + k - 1]]

Read(n) ==
  /\ buf' = Advanced(buf, n)
  /\ Returned("read", ReadBytes(buf, n), Reading(buf, n))
  /\ UNCHANGED loops

Toss(n) ==
  /\ buf' = Advanced(buf, n)
  /\ Returned("toss", <<>>, buf'.used)
  /\ UNCHANGED loops

Positioned(b, pos) ==
  Buffer(b.data, b.datalen, pos, b.actually_used - pos, b.actually_used)

\* esl_buffer_seek: an empty buffer stays as it is; otherwise the position is
\* clamped to the number of unread bytes.
Seek(n) ==
  LET pos == Reading(buf, n)
  IN /\ buf' = IF buf.used < 1 THEN buf ELSE Positioned(buf, pos)
     /\ Returned("seek", <<>>, pos)
     /\ UNCHANGED loops

SetLoops(n) ==
  /\ loops' = n
  /\ Returned("set_loops", <<>>, 0)
  /\ UNCHANGED buf

\* esl_buffer_read_loop: a short read starts over at the front of the
\* allocation; the return value is then the length of the second part only.
ReadLoop(n) ==
  LET len    == Reading(buf, n)
      again  == Positioned(Advanced(buf, n), 0)
      wraps  == len < n /\ loops # 0
      rest   == n - len
  IN /\ loops > -MaxLoops
     /\ buf' = IF wraps THEN Advanced(again, rest) ELSE Advanced(buf, n)
     /\ loops' = IF wraps THEN loops - 1 ELSE loops
     /\ IF wraps
        THEN Returned("read_loop", ReadBytes(buf, n) \o ReadBytes(again, rest),
                      Reading(again, rest))
        ELSE Returned("read_loop", ReadBytes(buf, n), len)
-----------------------------------------------------------------------------
(* Packets: a packet ends with a blank line.  The scan may look at the one  *)
(* byte behind the unread ones, `past'.                                     *)

\* The unread bytes followed by the byte the scan finds behind them.
Window(b, past) == Append(Content(b), past)

\* What that byte can be: inside the allocation the byte stored there, behind
\* the allocation anything.
Past(b) == IF b.head + b.used < b.datalen THEN {b.data[b.head + b.used]} ELSE Byte

\* Where the blank line ends that follows the line break at p.
BlankEnd(w, p) == IF w[p + 1] = CR THEN p + 2 ELSE p + 1

\* Mutant: any line break ends a packet, whatever follows it.
EndsPacketAtAnyBreak(w, p) ==
  /\ w[p] = NL
  /\ BlankEnd(w, p) <= Len(w)
  /\ \A i \in 1..p : w[i] # NUL

EndsPacket(w, p) ==
  /\ w[p] = NL
  /\ BlankEnd(w, p) <= Len(w)
  /\ w[BlankEnd(w, p)] = NL
  /\ \A i \in 1..p : w[i] # NUL

PacketEnds(w) == {p \in 1..(Len(w) - 1) : EndsPacket(w, p)}

\* The length of the first packet of the window, 0 if there is none.
PacketLen(w) ==
  IF PacketEnds(w) = {} THEN 0
  ELSE BlankEnd(w, CHOOSE p \in PacketEnds(w) : \A q \in PacketEnds(w) : p <= q)

ReadPacket(n) ==
  \E past \in Past(buf) :
    LET len == Min2(PacketLen(Window(buf, past)), n)
    IN /\ buf' = Advanced(buf, len)
       /\ Returned("read_packet", ReadBytes(buf, len), Reading(buf, len))
       /\ UNCHANGED loops

\* Mutant: the scan goes on at the second line break of the blank line.
CountOverlapping(w) ==
  LET count[p \in 1..(Len(w) + 1)] ==
        IF p >= Len(w) THEN 0
        ELSE IF w[p] = NUL THEN 0
        ELSE (IF p \in PacketEnds(w) THEN 1 ELSE 0) + count[p + 1]
  IN count

\* esl_buffer_packet_count: after a packet the scan goes on behind it.
CountFrom(w) ==
  LET count[p \in 1..(Len(w) + 1)] ==
        IF p >= Len(w) THEN 0
        ELSE IF w[p] = NUL THEN 0
        ELSE IF p \in PacketEnds(w) THEN 1 + count[BlankEnd(w, p) + 1]
        ELSE count[p + 1]
  IN count

PacketCount ==
  \E past \in Past(buf) :
    /\ Returned("packet_count", <<>>, CountFrom(Window(buf, past))[1])
    /\ UNCHANGED <<buf, loops>>
-----------------------------------------------------------------------------
(* Writing.                                                                 *)

\* memmove of the unread bytes to the front.
Moved(b) == [i \in 0..(b.datalen - 1) |->
               IF i < b.used THEN b.data[b.head + i] ELSE b.data[i]]

\* Mutant: the bytes are moved, actually_used is not.
CompactedKeepingCount(b) ==
  Buffer(Moved(b), b.datalen, 0, b.used, b.actually_used)

\* Mutant: the head is reset without the memmove.
CompactedInPlace(b) == Buffer(b.data, b.datalen, 0, b.used, b.used)

Compacted(b) == Buffer(Moved(b), b.datalen, 0, b.used, b.used)

Placed(b, n) ==
  IF /\ b.datalen - b.actually_used < n
     /\ MaxLen = 0 \/ b.used + n <= MaxLen
  THEN Compacted(b) ELSE b

NewSize(b, n) == Max2(b.datalen + n, b.datalen + BlockSize)

\* realloc keeps the old bytes; the new ones are not initialised.
Enlarged(b, n) ==
  { [i \in 0..(NewSize(b, n) - 1) |-> IF i < b.datalen THEN b.data[i] ELSE fresh[i]]
    : fresh \in [b.datalen..(NewSize(b, n) - 1) -> Byte] }

Grown(b, n) ==
  { Buffer(d, NewSize(b, n), 0, b.used, b.actually_used) : d \in Enlarged(b, n) }

\* memcpy behind the unread bytes.
Stored(b, chunk) ==
  LET end  == b.head + b.used
      data == [i \in 0..(b.datalen - 1) |->
                 IF i \in end..(end + Len(chunk) - 1)
                 THEN chunk[i - end + 1] ELSE b.data[i]]
  IN Buffer(data, b.datalen, b.head, b.used + Len(chunk),
            b.actually_used + Len(chunk))

\* What esl_buffer_write can leave behind: the buffer, and whether it stored.
WriteOutcomes(b, chunk) ==
  LET n == Len(chunk)
      c == Placed(b, n)
  IN IF n = 0 THEN {[buf |-> b, stored |-> TRUE]}
     ELSE IF c.datalen - c.used >= n
     THEN {[buf |-> Stored(c, chunk), stored |-> TRUE]}
     ELSE {[buf |-> Buffer(c.data, c.datalen, 0, c.used, c.actually_used),
            stored |-> FALSE]} \cup
          {[buf |-> Stored(g, chunk), stored |-> TRUE] :
             g \in IF NewSize(c, n) <= Memory THEN Grown(c, n) ELSE {}}

WriteReturn(o) == IF o.stored THEN o.buf.used ELSE 0

Write(chunk) ==
  \E o \in WriteOutcomes(buf, chunk) :
    /\ buf' = o.buf
    /\ Returned("write", <<>>, WriteReturn(o))
    /\ UNCHANGED loops

Zeroed(b) == Buffer(b.data, b.datalen, 0, 0, 0)

Zero ==
  /\ buf' = Zeroed(buf)
  /\ Returned("zero", <<>>, 0)
  /\ UNCHANGED loops

\* esl_buffer_zwrite: a write that returned 0 is repeated on the emptied buffer.
ZwriteOutcomes(b, chunk) ==
  { o \in WriteOutcomes(b, chunk) : WriteReturn(o) # 0 } \cup
  UNION { WriteOutcomes(Zeroed(o.buf), chunk) :
            o \in { x \in WriteOutcomes(b, chunk) : WriteReturn(x) = 0 } }

Zwrite(chunk) ==
  \E o \in ZwriteOutcomes(buf, chunk) :
    /\ buf' = o.buf
    /\ Returned("zwrite", <<>>, WriteReturn(o))
    /\ UNCHANGED loops
-----------------------------------------------------------------------------
\* esl_buffer_create
Init ==
  /\ buf = Buffer([i \in 0..(StartLen - 1) |-> NUL], StartLen, 0, 0, 0)
  /\ loops = 0
  /\ result = [op |-> "create", bytes |-> <<>>, ret |-> 0]

Next ==
  \/ \E chunk \in Chunk : Write(chunk)
  \/ \E chunk \in Chunk : Zwrite(chunk)
  \/ \E n \in 0..MaxCount : Read(n)
  \/ \E n \in 0..MaxCount : ReadPacket(n)
  \/ \E n \in 0..MaxCount : ReadLoop(n)
  \/ \E n \in 0..MaxCount : Toss(n)
  \/ \E n \in 0..MaxCount : Seek(n)
  \/ \E n \in {-1, 0, 1} : SetLoops(n)
  \/ PacketCount
  \/ Zero

Spec == Init /\ [][Next]_vars
-----------------------------------------------------------------------------
(* Properties.                                                              *)

\* The fields have their types and the data array is as long as datalen says.
IsBuffer(b) ==
  b \in [data : [0..(b.datalen - 1) -> Byte], datalen : Nat, head : Nat,
         used : Nat, actually_used : Nat]

TypeOK == IsBuffer(buf) /\ loops \in Int /\ result.bytes \in Seq(Byte)

\* Without a length limit the unread bytes always end at actually_used, inside
\* the allocation: no read, scan or memcpy of esl_buffer.c leaves it, however
\* compaction, growth, seeks and loops are mixed.
InBounds(b) == b.head + b.used = b.actually_used /\ b.actually_used <= b.datalen

Coherent == MaxLen = 0 => InBounds(buf)

\* A packet that was read ends with its blank line whenever the byte behind
\* the unread ones is not a line break that an earlier use of the memory left
\* there: then esl_buffer_read_packet never returns part of a packet.
EndsBlank(s) ==
  \E p \in DOMAIN s : /\ s[p] = NL /\ s[Len(s)] = NL
                      /\ Len(s) = p + 1 \/ (Len(s) = p + 2 /\ s[p + 1] = CR)

FramingExact ==
  [][ \A n \in 0..MaxCount :
        /\ ReadPacket(n)
        /\ 0 < result'.ret /\ result'.ret < n
        /\ NL \notin Past(buf)
        => EndsBlank(result'.bytes) ]_vars

\* esl_buffer_packet_count, which lets esl_recv_event_timed skip its poll, is
\* the number of packets that reading one after the other would return.
CountIsReads ==
  \A past \in Past(buf) :
    LET w   == Window(buf, past)
        len == PacketLen(w)
    IN CountFrom(w)[1] =
         IF len = 0 THEN 0 ELSE 1 + CountFrom(SubSeq(w, len + 1, Len(w)))[1]

\* Without a length limit the buffer is a rewindable queue of bytes: writes
\* append or change nothing, reads take from the front and seeks go back over
\* bytes really read, through compaction, growth and failed growth.
Queue == INSTANCE ByteQueue WITH passed <- Behind(buf), content <- Content(buf)
QueueRefinement == Queue!QueueSpec
-----------------------------------------------------------------------------
(* What a comment of esl_buffer.h says and the code does not do.            *)

\* "max_len length the buffer is allowed to grow to" (esl_buffer.h): the buffer
\* never holds more unread bytes than that.
MaxLenRespected == MaxLen > 0 => buf.used <= MaxLen
=============================================================================
