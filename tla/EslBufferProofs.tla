--------------------------- MODULE EslBufferProofs ---------------------------
(***************************************************************************)
(* Proofs about EslBuffer for every block size, start length, memory size  *)
(* and set of chunks, for a buffer without a length limit.                 *)
(*                                                                         *)
(* IInv keeps the accesses inside the allocation.  The function for the    *)
(* loop of esl_buffer_packet_count is shown to exist and to depend on the  *)
(* text behind a position alone, by induction on sets of positions.  The   *)
(* last part says what each step does to the two byte strings ByteQueue is *)
(* about: the unread bytes, and the bytes read that are still in memory.   *)
(***************************************************************************)
EXTENDS EslBuffer, WellFoundedInduction, SequenceTheorems, TLAPS

\* A buffer whose accesses stay inside its allocation.
Sound(b) == IsBuffer(b) /\ InBounds(b)

\* Fields that fit together make a sound buffer.
LEMMA BufferSound ==
  ASSUME NEW l \in Nat, NEW d \in [0..(l - 1) -> Byte],
         NEW h \in Nat, NEW u \in Nat, h + u <= l
  PROVE  Sound(Buffer(d, l, h, u, h + u))
BY DEF Sound, IsBuffer, InBounds, Buffer

\* The number of bytes a read hands over.
LEMMA ReadingBounds ==
  ASSUME NEW b, Sound(b), NEW n \in Nat
  PROVE  /\ Reading(b, n) \in Nat
         /\ Reading(b, n) <= b.used /\ Reading(b, n) <= n
BY DEF Reading, Min2, Sound, IsBuffer

\* Reading any number of bytes keeps the buffer sound and yields bytes.
LEMMA AdvancedSound ==
  ASSUME NEW b, Sound(b), NEW n \in Nat
  PROVE  /\ Sound(Advanced(b, n))
         /\ ReadBytes(b, n) \in Seq(Byte)
         /\ Len(ReadBytes(b, n)) = Reading(b, n)
<1> DEFINE r == Reading(b, n)
<1>1. r \in Nat /\ r <= b.used /\ r <= n
  BY ReadingBounds
<1>2. \A k \in 1..r : b.data[b.head + k - 1] \in Byte
  BY <1>1 DEF Sound, IsBuffer, InBounds
<1>3. ReadBytes(b, n) \in [1..r -> Byte]
  BY <1>2 DEF ReadBytes
<1>4. ReadBytes(b, n) \in Seq(Byte) /\ Len(ReadBytes(b, n)) = r
  BY <1>1, <1>3
<1>5. Advanced(b, n) = Buffer(b.data, b.datalen, b.head + r, b.used - r, b.actually_used)
  BY DEF Advanced
<1> HIDE DEF r
<1>6. Sound(Advanced(b, n))
  BY <1>1, <1>5 DEF Sound, IsBuffer, InBounds, Buffer
<1> QED BY <1>4, <1>6 DEF r

\* So does moving the position to any of the bytes that were ever filled.
LEMMA PositionedSound ==
  ASSUME NEW b, Sound(b), NEW pos \in Nat, pos <= b.actually_used
  PROVE  Sound(Positioned(b, pos))
BY DEF Positioned, Buffer, Sound, IsBuffer, InBounds

\* Emptying a buffer leaves a sound buffer.
LEMMA ZeroedSound ==
  ASSUME NEW b, Sound(b)
  PROVE  Sound(Zeroed(b))
BY DEF Zeroed, Buffer, Sound, IsBuffer, InBounds

\* Moving the unread bytes to the front keeps the buffer sound.
LEMMA CompactedSound ==
  ASSUME NEW b, Sound(b)
  PROVE  /\ Sound(Compacted(b))
         /\ Compacted(b).used = b.used /\ Compacted(b).head = 0
         /\ Compacted(b).datalen = b.datalen
<1>1. \A i \in 0..(b.datalen - 1) :
        (IF i < b.used THEN b.data[b.head + i] ELSE b.data[i]) \in Byte
  BY DEF Sound, IsBuffer, InBounds
<1>2. Moved(b) \in [0..(b.datalen - 1) -> Byte]
  BY <1>1 DEF Moved
<1> QED BY <1>2 DEF Compacted, Buffer, Sound, IsBuffer, InBounds

\* A larger allocation that starts at its front holds the bytes it held.
LEMMA GrownSound ==
  ASSUME NEW b, Sound(b), b.head = 0, NEW n \in Nat, NEW g \in Grown(b, n)
  PROVE  /\ Sound(g) /\ g.head = 0 /\ g.used = b.used
         /\ g.datalen >= b.datalen + n
<1> DEFINE size == NewSize(b, n)
<1>1. size \in Nat /\ size >= b.datalen + n
  BY SizeAssumption DEF NewSize, Max2, Sound, IsBuffer
<1>2. PICK fresh \in [b.datalen..(size - 1) -> Byte] :
        g = Buffer([i \in 0..(size - 1) |-> IF i < b.datalen THEN b.data[i] ELSE fresh[i]],
                   size, 0, b.used, b.actually_used)
  BY DEF Grown, Enlarged
<1> DEFINE d == [i \in 0..(size - 1) |-> IF i < b.datalen THEN b.data[i] ELSE fresh[i]]
<1> HIDE DEF size
<1>3. \A i \in 0..(size - 1) : (IF i < b.datalen THEN b.data[i] ELSE fresh[i]) \in Byte
  <2> TAKE i \in 0..(size - 1)
  <2>1. CASE i < b.datalen
    <3>1. b.data \in [0..(b.datalen - 1) -> Byte] /\ i \in 0..(b.datalen - 1)
      BY <1>1, <2>1 DEF Sound, IsBuffer
    <3> QED BY <2>1, <3>1
  <2>2. CASE ~(i < b.datalen)
    <3>1. fresh \in [b.datalen..(size - 1) -> Byte] /\ i \in b.datalen..(size - 1)
      BY <1>1, <1>2, <2>2 DEF Sound, IsBuffer
    <3> QED BY <2>2, <3>1
  <2> QED BY <2>1, <2>2
<1>4. d \in [0..(size - 1) -> Byte]
  BY <1>3
<1> HIDE DEF d
<1>5. g = Buffer(d, size, 0, b.used, b.actually_used)
  BY <1>2 DEF d
<1> QED BY <1>1, <1>4, <1>5 DEF Buffer, Sound, IsBuffer, InBounds

\* A chunk that fits behind the unread bytes is stored inside the allocation.
LEMMA StoredSound ==
  ASSUME NEW b, Sound(b), NEW chunk \in Seq(Byte),
         b.actually_used + Len(chunk) <= b.datalen
  PROVE  /\ Sound(Stored(b, chunk))
         /\ Stored(b, chunk).used = b.used + Len(chunk)
<1> DEFINE end == b.head + b.used
           d == [i \in 0..(b.datalen - 1) |->
                   IF i \in end..(end + Len(chunk) - 1)
                   THEN chunk[i - end + 1] ELSE b.data[i]]
<1>1. \A i \in 0..(b.datalen - 1) :
        (IF i \in end..(end + Len(chunk) - 1)
         THEN chunk[i - end + 1] ELSE b.data[i]) \in Byte
  <2> TAKE i \in 0..(b.datalen - 1)
  <2>1. CASE i \in end..(end + Len(chunk) - 1)
    <3>1. i - end + 1 \in 1..Len(chunk)
      BY <2>1 DEF Sound, IsBuffer
    <3> QED BY <2>1, <3>1
  <2>2. CASE i \notin end..(end + Len(chunk) - 1)
    <3>1. b.data[i] \in Byte
      BY DEF Sound, IsBuffer
    <3> QED BY <2>2, <3>1
  <2> QED BY <2>1, <2>2
<1>2. d \in [0..(b.datalen - 1) -> Byte]
  BY <1>1
<1>3. Stored(b, chunk) = Buffer(d, b.datalen, b.head, b.used + Len(chunk),
                                b.actually_used + Len(chunk))
  BY DEF Stored
<1> HIDE DEF d
<1> QED BY <1>2, <1>3 DEF Buffer, Sound, IsBuffer, InBounds

\* Whatever a write leaves behind is sound: stored where there was room, stored
\* after growing, or refused.
LEMMA WriteSound ==
  ASSUME MaxLen = 0, NEW b, Sound(b), NEW chunk \in Seq(Byte),
         NEW o \in WriteOutcomes(b, chunk)
  PROVE  Sound(o.buf)
<1> DEFINE n == Len(chunk)
           c == Placed(b, n)
<1>1. CASE n = 0
  BY <1>1 DEF WriteOutcomes
<1>2. CASE n # 0
  <2>1. n \in Nat /\ n > 0
    BY <1>2
  <2>2. /\ Sound(c)
        /\ \/ c = b /\ b.actually_used + n <= b.datalen
           \/ c.head = 0 /\ c.actually_used = c.used
    <3>1. CASE b.datalen - b.actually_used < n
      <4>1. c = Compacted(b)
        BY <3>1 DEF Placed
      <4>2. Sound(c) /\ c.head = 0
        BY <4>1, CompactedSound
      <4> HIDE DEF c
      <4> QED BY <4>2 DEF Sound, IsBuffer, InBounds
    <3>2. CASE ~(b.datalen - b.actually_used < n)
      <4>1. c = b
        BY <3>2 DEF Placed
      <4> HIDE DEF c
      <4> QED BY <2>1, <3>2, <4>1 DEF Sound, IsBuffer
    <3> QED BY <3>1, <3>2
  <2> HIDE DEF c
  <2>3. CASE c.datalen - c.used >= n
    <3>1. c.actually_used + n <= c.datalen
      BY <2>1, <2>2, <2>3 DEF Sound, IsBuffer, InBounds
    <3>2. Sound(Stored(c, chunk))
      BY <2>2, <3>1, StoredSound
    <3>3. o = [buf |-> Stored(c, chunk), stored |-> TRUE]
      BY <1>2, <2>3 DEF WriteOutcomes, c
    <3> QED BY <3>2, <3>3
  <2>4. CASE ~(c.datalen - c.used >= n)
    <3>1. Sound(c) /\ c.head = 0 /\ c.actually_used = c.used
      BY <2>1, <2>2, <2>4 DEF Sound, IsBuffer, InBounds
    <3>2. \/ o = [buf |-> Buffer(c.data, c.datalen, 0, c.used, c.actually_used),
                  stored |-> FALSE]
          \/ \E g \in Grown(c, n) : o = [buf |-> Stored(g, chunk), stored |-> TRUE]
      BY <1>2, <2>4 DEF WriteOutcomes, c
    <3>3. Sound(Buffer(c.data, c.datalen, 0, c.used, c.actually_used))
      BY <3>1 DEF Sound, IsBuffer, InBounds, Buffer
    <3>4. ASSUME NEW g \in Grown(c, n)
          PROVE  Sound(Stored(g, chunk))
      <4>1. Sound(g) /\ g.head = 0 /\ g.used = c.used /\ g.datalen >= c.datalen + n
        BY <2>1, <3>1, GrownSound
      <4>2. g.actually_used + n <= g.datalen
        BY <2>1, <3>1, <4>1 DEF Sound, IsBuffer, InBounds
      <4> QED BY <4>1, <4>2, StoredSound
    <3> QED BY <3>2, <3>3, <3>4
  <2> QED BY <2>3, <2>4
<1> QED BY <1>1, <1>2

LEMMA ZwriteSound ==
  ASSUME MaxLen = 0, NEW b, Sound(b), NEW chunk \in Seq(Byte),
         NEW o \in ZwriteOutcomes(b, chunk)
  PROVE  Sound(o.buf)
<1>1. CASE o \in WriteOutcomes(b, chunk)
  BY <1>1, WriteSound
<1>2. CASE \E x \in WriteOutcomes(b, chunk) : o \in WriteOutcomes(Zeroed(x.buf), chunk)
  <2>1. PICK x \in WriteOutcomes(b, chunk) : o \in WriteOutcomes(Zeroed(x.buf), chunk)
    BY <1>2
  <2>2. Sound(Zeroed(x.buf))
    BY WriteSound, ZeroedSound
  <2> QED BY <2>1, <2>2, WriteSound
<1> QED BY <1>1, <1>2 DEF ZwriteOutcomes

\* The window the scan looks at is a sequence, one byte longer than the unread
\* ones.
LEMMA WindowLen ==
  ASSUME NEW b, Sound(b), NEW past
  PROVE  Window(b, past) \in Seq(Byte \cup {past}) /\ Len(Window(b, past)) = b.used + 1
<1>1. b.used \in Nat
  BY DEF Sound, IsBuffer
<1>2. \A k \in 1..b.used : b.data[b.head + k - 1] \in Byte
  BY <1>1 DEF Sound, IsBuffer, InBounds
<1>3. Content(b) \in [1..b.used -> Byte \cup {past}]
  BY <1>2 DEF Content
<1>4. Content(b) \in Seq(Byte \cup {past}) /\ Len(Content(b)) = b.used
  BY <1>1, <1>3
<1> HIDE DEF Content
<1> QED BY <1>4 DEF Window

\* The first packet of a window has a length.
LEMMA PacketLenNat ==
  ASSUME NEW b, Sound(b), NEW past
  PROVE  PacketLen(Window(b, past)) \in Nat
<1> DEFINE w == Window(b, past)
<1>1. Len(w) \in Nat
  <2>1. b.used \in Nat
    BY DEF Sound, IsBuffer
  <2>2. Len(w) = b.used + 1
    BY WindowLen
  <2> QED BY <2>1, <2>2
<1> HIDE DEF w
<1>2. CASE PacketEnds(w) = {}
  BY <1>2 DEF PacketLen, w
<1>3. CASE PacketEnds(w) # {}
  <2>1. PacketEnds(w) \in SUBSET Nat
    BY <1>1 DEF PacketEnds
  <2>2. \E p \in PacketEnds(w) : \A q \in PacketEnds(w) : p <= q
    <3>1. PICK p \in PacketEnds(w) :
            \A q \in PacketEnds(w) : ~(<<q, p>> \in OpToRel(<, Nat))
      BY <1>3, <2>1, WFMin, NatLessThanWellFounded
    <3>2. \A x, y \in Nat : x < y => <<x, y>> \in OpToRel(<, Nat)
      BY DEF OpToRel
    <3>3. ASSUME NEW q \in PacketEnds(w)
          PROVE  p <= q
      <4>1. p \in Nat /\ q \in Nat
        BY <2>1
      <4>2. ~(q < p)
        BY <3>1, <3>2, <4>1
      <4> QED BY <4>1, <4>2
    <3> QED BY <3>3
  <2> DEFINE p == CHOOSE x \in PacketEnds(w) : \A q \in PacketEnds(w) : x <= q
  <2>3. p \in Nat
    BY <2>1, <2>2
  <2>4. PacketLen(w) = BlankEnd(w, p)
    BY <1>3 DEF PacketLen
  <2> HIDE DEF p
  <2> QED BY <2>3, <2>4 DEF BlankEnd, w
<1> QED BY <1>2, <1>3
-----------------------------------------------------------------------------
IInv == TypeOK /\ Coherent

LEMMA IInvSound ==
  ASSUME MaxLen = 0
  PROVE  IInv <=> Sound(buf) /\ loops \in Int /\ result.bytes \in Seq(Byte)
BY DEF IInv, TypeOK, Coherent, Sound

LEMMA IInvInit ==
  ASSUME MaxLen = 0, Init
  PROVE  IInv
<1>1. [i \in 0..(StartLen - 1) |-> NUL] \in [0..(StartLen - 1) -> Byte]
  BY ByteAssumption
<1>2. StartLen \in Nat /\ 0 + 0 <= StartLen
  BY SizeAssumption
<1>3. Sound(Buffer([i \in 0..(StartLen - 1) |-> NUL], StartLen, 0, 0, 0))
  BY <1>1, <1>2 DEF Sound, IsBuffer, InBounds, Buffer
<1>4. loops \in Int /\ result.bytes \in Seq(Byte)
  BY DEF Init
<1> QED BY <1>3, <1>4, IInvSound DEF Init

\* The strengthening: IInv is inductive as it stands, one step per operation.
LEMMA IInvNext ==
  ASSUME MaxLen = 0, IInv, [Next]_vars
  PROVE  IInv'
<1> USE DEF Returned
<1>0. Sound(buf) /\ loops \in Int /\ result.bytes \in Seq(Byte)
  BY IInvSound
<1>1. SUFFICES Sound(buf)' /\ loops' \in Int /\ result'.bytes \in Seq(Byte)
  BY DEF IInv, TypeOK, Coherent, Sound
<1>2. ASSUME NEW chunk \in Chunk, Write(chunk)
      PROVE  Sound(buf)' /\ loops' \in Int /\ result'.bytes \in Seq(Byte)
  <2>1. chunk \in Seq(Byte)
    BY ByteAssumption
  <2>2. PICK o \in WriteOutcomes(buf, chunk) : buf' = o.buf
    BY <1>2 DEF Write
  <2>3. Sound(o.buf)
    BY <1>0, <2>1, WriteSound
  <2> QED BY <1>0, <1>2, <2>2, <2>3 DEF Write, Sound, IsBuffer, InBounds
<1>3. ASSUME NEW chunk \in Chunk, Zwrite(chunk)
      PROVE  Sound(buf)' /\ loops' \in Int /\ result'.bytes \in Seq(Byte)
  <2>1. chunk \in Seq(Byte)
    BY ByteAssumption
  <2>2. PICK o \in ZwriteOutcomes(buf, chunk) : buf' = o.buf
    BY <1>3 DEF Zwrite
  <2>3. Sound(o.buf)
    BY <1>0, <2>1, ZwriteSound
  <2> QED BY <1>0, <1>3, <2>2, <2>3 DEF Zwrite, Sound, IsBuffer, InBounds
<1>4. ASSUME NEW n \in 0..MaxCount, Read(n)
      PROVE  Sound(buf)' /\ loops' \in Int /\ result'.bytes \in Seq(Byte)
  <2>1. Sound(Advanced(buf, n)) /\ ReadBytes(buf, n) \in Seq(Byte)
    <3>1. n \in Nat
      BY SizeAssumption
    <3> QED BY <1>0, <3>1, AdvancedSound
  <2> QED BY <1>0, <1>4, <2>1 DEF Read, Sound, IsBuffer, InBounds
<1>5. ASSUME NEW n \in 0..MaxCount, ReadPacket(n)
      PROVE  Sound(buf)' /\ loops' \in Int /\ result'.bytes \in Seq(Byte)
  <2>1. PICK past \in Past(buf) :
          LET len == Min2(PacketLen(Window(buf, past)), n)
          IN buf' = Advanced(buf, len) /\ result'.bytes = ReadBytes(buf, len)
    BY <1>5 DEF ReadPacket
  <2> DEFINE len == Min2(PacketLen(Window(buf, past)), n)
  <2>2. Sound(Advanced(buf, len)) /\ ReadBytes(buf, len) \in Seq(Byte)
    <3>1. len \in Nat
      <4>1. PacketLen(Window(buf, past)) \in Nat
        BY <1>0, PacketLenNat
      <4>2. n \in Nat
        BY SizeAssumption
      <4> QED BY <4>1, <4>2 DEF Min2
    <3> HIDE DEF len
    <3> QED BY <1>0, <3>1, AdvancedSound
  <2> QED BY <1>0, <1>5, <2>1, <2>2 DEF ReadPacket, Sound, IsBuffer, InBounds
<1>6. ASSUME NEW n \in 0..MaxCount, ReadLoop(n)
      PROVE  Sound(buf)' /\ loops' \in Int /\ result'.bytes \in Seq(Byte)
  <2> DEFINE len == Reading(buf, n)
             again == Positioned(Advanced(buf, n), 0)
             rest == n - len
  <2>1. n \in Nat
    BY SizeAssumption
  <2>2. Sound(Advanced(buf, n)) /\ ReadBytes(buf, n) \in Seq(Byte)
    BY <1>0, <2>1, AdvancedSound
  <2>3. Sound(again)
    <3>1. 0 <= Advanced(buf, n).actually_used
      BY <2>2 DEF Sound, IsBuffer
    <3> QED BY <2>2, <3>1, PositionedSound
  <2>4. rest \in Nat
    BY <1>0, <2>1, ReadingBounds
  <2> HIDE DEF again, rest
  <2>5. Sound(Advanced(again, rest)) /\ ReadBytes(again, rest) \in Seq(Byte)
    BY <2>3, <2>4, AdvancedSound
  <2>6. CASE len < n /\ loops # 0
    <3>1. /\ buf' = Advanced(again, rest) /\ loops' = loops - 1
          /\ result'.bytes = ReadBytes(buf, n) \o ReadBytes(again, rest)
      BY <1>6, <2>6 DEF ReadLoop, again, rest
    <3>2. result'.bytes \in Seq(Byte)
      BY <2>2, <2>5, <3>1
    <3> QED BY <1>0, <2>5, <3>1, <3>2 DEF Sound, IsBuffer, InBounds
  <2>7. CASE ~(len < n /\ loops # 0)
    <3>1. /\ buf' = Advanced(buf, n) /\ loops' = loops
          /\ result'.bytes = ReadBytes(buf, n)
      BY <1>6, <2>7 DEF ReadLoop
    <3> QED BY <1>0, <2>2, <3>1 DEF Sound, IsBuffer, InBounds
  <2> QED BY <2>6, <2>7
<1>7. ASSUME NEW n \in 0..MaxCount, Toss(n)
      PROVE  Sound(buf)' /\ loops' \in Int /\ result'.bytes \in Seq(Byte)
  <2>1. Sound(Advanced(buf, n))
    <3>1. n \in Nat
      BY SizeAssumption
    <3> QED BY <1>0, <3>1, AdvancedSound
  <2> QED BY <1>0, <1>7, <2>1 DEF Toss, Sound, IsBuffer, InBounds
<1>8. ASSUME NEW n \in 0..MaxCount, Seek(n)
      PROVE  Sound(buf)' /\ loops' \in Int /\ result'.bytes \in Seq(Byte)
  <2> DEFINE pos == Reading(buf, n)
  <2>1. n \in Nat
    BY SizeAssumption
  <2>2. pos \in Nat /\ pos <= buf.actually_used
    <3>1. pos \in Nat /\ pos <= buf.used
      BY <1>0, <2>1, ReadingBounds
    <3> HIDE DEF pos
    <3> QED BY <1>0, <3>1 DEF Sound, IsBuffer, InBounds
  <2>3. Sound(Positioned(buf, pos))
    BY <1>0, <2>2, PositionedSound
  <2>4. buf' = buf \/ buf' = Positioned(buf, pos)
    BY <1>8 DEF Seek
  <2>5. loops' = loops /\ result'.bytes = <<>>
    BY <1>8 DEF Seek
  <2> HIDE DEF pos
  <2> QED BY <1>0, <2>3, <2>4, <2>5 DEF Sound, IsBuffer, InBounds
<1>9. ASSUME NEW n \in {-1, 0, 1}, SetLoops(n)
      PROVE  Sound(buf)' /\ loops' \in Int /\ result'.bytes \in Seq(Byte)
  BY <1>0, <1>9 DEF SetLoops, Sound, IsBuffer, InBounds
<1>10. CASE PacketCount
  BY <1>0, <1>10 DEF PacketCount, Sound, IsBuffer, InBounds
<1>11. CASE Zero
  <2>1. Sound(Zeroed(buf))
    BY <1>0, ZeroedSound
  <2> QED BY <1>0, <1>11, <2>1 DEF Zero, Sound, IsBuffer, InBounds
<1>12. CASE UNCHANGED vars
  BY <1>0, <1>12 DEF vars, Sound, IsBuffer, InBounds
<1> QED BY <1>2, <1>3, <1>4, <1>5, <1>6, <1>7, <1>8, <1>9, <1>10, <1>11, <1>12 DEF Next

\* The fields keep their types and every access of esl_buffer.c stays inside
\* the allocation, for every block size, start length and chunk.
THEOREM BufferInvariant ==
  ASSUME MaxLen = 0
  PROVE  Spec => [](TypeOK /\ Coherent)
<1>1. Init => IInv
  BY IInvInit
<1>2. IInv /\ [Next]_vars => IInv'
  BY IInvNext
<1>3. IInv => TypeOK /\ Coherent
  BY DEF IInv
<1> QED BY <1>1, <1>2, <1>3, PTL DEF Spec

\* The type invariant on its own.
THEOREM BufferTyped ==
  ASSUME MaxLen = 0
  PROVE  Spec => []TypeOK
<1>1. TypeOK /\ Coherent => TypeOK
  OBVIOUS
<1> QED BY <1>1, BufferInvariant, PTL
-----------------------------------------------------------------------------
\* What esl_buffer_read_packet scans for: the length of the first packet is
\* the place of a line break that ends a blank line.
LEMMA PacketLenEnds ==
  ASSUME NEW b, Sound(b), NEW past, PacketLen(Window(b, past)) # 0
  PROVE  \E p \in PacketEnds(Window(b, past)) :
           PacketLen(Window(b, past)) = BlankEnd(Window(b, past), p)
<1> DEFINE w == Window(b, past)
<1>1. Len(w) \in Nat
  <2>1. b.used \in Nat
    BY DEF Sound, IsBuffer
  <2>2. Len(w) = b.used + 1
    BY WindowLen
  <2> QED BY <2>1, <2>2
<1> HIDE DEF w
<1>2. PacketEnds(w) # {} /\ PacketEnds(w) \in SUBSET Nat
  BY <1>1 DEF PacketLen, PacketEnds, w
<1>3. \E p \in PacketEnds(w) : \A q \in PacketEnds(w) : p <= q
  <2>1. PICK p \in PacketEnds(w) :
          \A q \in PacketEnds(w) : ~(<<q, p>> \in OpToRel(<, Nat))
    BY <1>2, WFMin, NatLessThanWellFounded
  <2>2. \A x, y \in Nat : x < y => <<x, y>> \in OpToRel(<, Nat)
    BY DEF OpToRel
  <2>3. ASSUME NEW q \in PacketEnds(w)
        PROVE  p <= q
    <3>1. p \in Nat /\ q \in Nat
      BY <1>2
    <3>2. ~(q < p)
      BY <2>1, <2>2, <3>1
    <3> QED BY <3>1, <3>2
  <2> QED BY <2>3
<1> QED BY <1>2, <1>3 DEF PacketLen, w

\* A packet that was read in full ends with its blank line, when the byte
\* behind the unread ones is no line break.
LEMMA PacketReadEnds ==
  ASSUME NEW b, Sound(b), NEW past \in Byte, past # NL, NEW n \in Nat,
         Reading(b, Min2(PacketLen(Window(b, past)), n)) > 0,
         Reading(b, Min2(PacketLen(Window(b, past)), n)) < n
  PROVE  EndsBlank(ReadBytes(b, Min2(PacketLen(Window(b, past)), n)))
<1> DEFINE w   == Window(b, past)
           len == PacketLen(w)
           r   == Reading(b, Min2(len, n))
           s   == ReadBytes(b, Min2(len, n))
<1>1. b.used \in Nat /\ len \in Nat /\ Len(w) = b.used + 1
  BY PacketLenNat, WindowLen DEF Sound, IsBuffer
<1>2. \A k \in 1..b.used : w[k] = b.data[b.head + k - 1]
  BY <1>1 DEF Window, Content
<1>3. w[b.used + 1] # NL
  <2>1. Content(b) = [k \in 1..b.used |-> b.data[b.head + k - 1]]
    BY DEF Content
  <2>2. Len(Content(b)) = b.used
    BY <1>1, <2>1
  <2> QED BY <1>1, <2>1, <2>2 DEF Window
<1> HIDE DEF w
<1>4. len # 0
  BY <1>1 DEF Reading, Min2, w
<1>5. PICK p \in PacketEnds(w) : len = BlankEnd(w, p)
  BY <1>4, PacketLenEnds DEF w
<1>6. /\ p \in Nat /\ 1 <= p /\ w[p] = NL /\ len <= b.used + 1 /\ w[len] = NL
      /\ len = p + 1 \/ (len = p + 2 /\ w[p + 1] = CR)
  BY <1>1, <1>5 DEF PacketEnds, EndsPacket, BlankEnd
<1>7. len <= b.used
  BY <1>1, <1>3, <1>6
<1> HIDE DEF len
<1>8. r = len
  BY <1>1, <1>7 DEF Reading, Min2, w, len
<1>9. s = [k \in 1..len |-> b.data[b.head + k - 1]]
  BY <1>8 DEF ReadBytes
<1>10. Len(s) = len /\ DOMAIN s = 1..len /\ \A k \in 1..len : s[k] = w[k]
  BY <1>1, <1>2, <1>7, <1>9
<1> HIDE DEF s
<1>11. EndsBlank(s)
  <2>1. p \in 1..len /\ len \in 1..len /\ (len = p + 2 => p + 1 \in 1..len)
    BY <1>1, <1>6
  <2>2. /\ p \in DOMAIN s /\ s[p] = NL /\ s[Len(s)] = NL
        /\ Len(s) = p + 1 \/ (Len(s) = p + 2 /\ s[p + 1] = CR)
    BY <1>6, <1>10, <2>1
  <2> QED BY <2>2, Zenon DEF EndsBlank
<1> QED BY <1>11 DEF s, len, w

\* esl_buffer_read_packet never hands over part of a packet, unless the buffer
\* of the caller is full or a stale line break lies behind the unread bytes.
THEOREM FramingIsExact ==
  ASSUME MaxLen = 0
  PROVE  Spec => FramingExact
<1>1. ASSUME IInv, NEW n \in 0..MaxCount, ReadPacket(n),
             0 < result'.ret, result'.ret < n, NL \notin Past(buf)
      PROVE  EndsBlank(result'.bytes)
  <2>1. Sound(buf) /\ n \in Nat
    BY <1>1, IInvSound, SizeAssumption
  <2>2. PICK past \in Past(buf) :
          LET len == Min2(PacketLen(Window(buf, past)), n)
          IN result'.bytes = ReadBytes(buf, len) /\ result'.ret = Reading(buf, len)
    BY <1>1 DEF ReadPacket, Returned
  <2>3. past \in Byte /\ past # NL
    <3>1. buf.head + buf.used < buf.datalen => buf.data[buf.head + buf.used] \in Byte
      BY <2>1 DEF Sound, IsBuffer
    <3> QED BY <1>1, <3>1 DEF Past
  <2> QED BY <1>1, <2>1, <2>2, <2>3, PacketReadEnds
<1>2. IInv /\ [Next]_vars =>
        [ \A n \in 0..MaxCount :
            /\ ReadPacket(n)
            /\ 0 < result'.ret /\ result'.ret < n
            /\ NL \notin Past(buf)
            => EndsBlank(result'.bytes) ]_vars
  BY <1>1
<1>3. Init => IInv
  BY IInvInit
<1>4. IInv /\ [Next]_vars => IInv'
  BY IInvNext
<1> QED BY <1>2, <1>3, <1>4, PTL DEF Spec, FramingExact
-----------------------------------------------------------------------------
(* esl_buffer_packet_count.  Its loop is a function on the positions of the  *)
(* window, each of which is defined from a later one.                        *)

\* A set of naturals has a least one.
LEMMA Least ==
  ASSUME NEW T, T \subseteq Nat, T # {}
  PROVE  \E x \in T : \A y \in T : x <= y
<1>1. PICK x \in T : \A y \in T : <<y, x>> \notin OpToRel(<, Nat)
  BY WFMin, NatLessThanWellFounded
<1>2. \A y, z \in Nat : y < z => <<y, z>> \in OpToRel(<, Nat)
  BY DEF OpToRel
<1>3. ASSUME NEW y \in T PROVE x <= y
  <2>1. x \in Nat /\ y \in Nat
    OBVIOUS
  <2>2. ~(y < x)
    BY <1>1, <1>2, <2>1
  <2> QED
    BY <2>1, <2>2
<1> QED
  BY <1>3

\* Numbers up to n that a step leads on from one to the next.
Inductive(S, n) == 0 \in S /\ \A m \in Nat : m \in S /\ m < n => m + 1 \in S

LEMMA UpTo ==
  ASSUME NEW n \in Nat, NEW S, Inductive(S, n)
  PROVE  \A m \in 0..n : m \in S
<1> SUFFICES ASSUME NEW m \in 0..n, m \notin S PROVE FALSE
  OBVIOUS
<1> DEFINE T == {i \in 0..n : i \notin S}
<1>1. T \subseteq Nat /\ m \in T
  OBVIOUS
<1> HIDE DEF T
<1>2. \E x \in T : \A y \in T : x <= y
  BY <1>1, Least
<1> USE DEF T
<1>3. PICK x \in T : \A y \in T : x <= y
  BY <1>2
<1>4. x \in Nat /\ x <= n /\ x \notin S
  OBVIOUS
<1>5. x # 0
  BY <1>4 DEF Inductive
<1>6. x - 1 \in Nat /\ x - 1 < n /\ x - 1 \in 0..n /\ ~(x <= x - 1)
  BY <1>4, <1>5
<1>7. (x - 1) + 1 \in S
  BY <1>3, <1>6 DEF Inductive
<1> QED BY <1>4, <1>7

\* What the loop counts from p on, given what it counts from later positions.
Entry(w, f, p) ==
  IF p >= Len(w) THEN 0
  ELSE IF w[p] = NUL THEN 0
  ELSE IF p \in PacketEnds(w) THEN 1 + f[BlankEnd(w, p) + 1]
  ELSE f[p + 1]

Table(w, f, lo) == f = [p \in lo..(Len(w) + 1) |-> Entry(w, f, p)]

LEMMA EndBounds ==
  ASSUME NEW X, NEW w \in Seq(X), NEW p \in PacketEnds(w)
  PROVE  /\ p \in Nat /\ 1 <= p /\ p < Len(w)
         /\ BlankEnd(w, p) \in {p + 1, p + 2} /\ BlankEnd(w, p) <= Len(w)
BY DEF PacketEnds, EndsPacket, BlankEnd

\* There is such a function.
LEMMA CountTable ==
  ASSUME NEW X, NEW w \in Seq(X)
  PROVE  Table(w, CountFrom(w), 1)
<1> DEFINE L == Len(w)
           S == {m \in Nat : \E f : Table(w, f, L + 1 - m)}
<1>1. L \in Nat
  OBVIOUS
<1>2. Inductive(S, L)
  <2>1. 0 \in S
    <3>1. Table(w, [p \in (L + 1)..(L + 1) |-> 0], L + 1 - 0)
      BY <1>1 DEF Table, Entry
    <3> QED BY <3>1
  <2>2. ASSUME NEW m \in Nat, m < L, NEW f, Table(w, f, L + 1 - m)
        PROVE  \E g : Table(w, g, L + 1 - (m + 1))
    <3> DEFINE lo == L - m
               g == [p \in lo..(L + 1) |-> IF p = lo THEN Entry(w, f, p) ELSE f[p]]
    <3>1. lo \in Nat /\ 1 <= lo /\ lo <= L /\ L + 1 - m = lo + 1 /\ L + 1 - (m + 1) = lo
      BY <1>1, <2>2
    <3>2. DOMAIN f = (lo + 1)..(L + 1) /\ \A p \in (lo + 1)..(L + 1) : f[p] = Entry(w, f, p)
      BY <2>2, <3>1 DEF Table
    <3> HIDE DEF lo
    <3>3. \A p \in (lo + 1)..(L + 1) : g[p] = f[p]
      BY <1>1, <3>1
    <3> HIDE DEF g, L
    <3>4. ASSUME NEW p \in lo..(L + 1)
          PROVE  Entry(w, g, p) = Entry(w, f, p)
      <4>1. CASE p >= Len(w)
        BY <4>1 DEF Entry
      <4>2. CASE p < Len(w) /\ p \in PacketEnds(w)
        <5>1. BlankEnd(w, p) + 1 \in (lo + 1)..(L + 1)
          BY <3>1, <4>2, EndBounds DEF L
        <5>2. g[BlankEnd(w, p) + 1] = f[BlankEnd(w, p) + 1]
          BY <3>3, <5>1
        <5> QED BY <4>2, <5>2 DEF Entry
      <4>3. CASE p < Len(w) /\ p \notin PacketEnds(w)
        <5>1. p + 1 \in (lo + 1)..(L + 1)
          BY <3>1, <4>3 DEF L
        <5> QED BY <3>3, <4>3, <5>1 DEF Entry
      <4> QED BY <3>1, <4>1, <4>2, <4>3 DEF L
    <3>5. g = [p \in lo..(L + 1) |-> Entry(w, g, p)]
      <4>1. ASSUME NEW p \in lo..(L + 1)
            PROVE  (IF p = lo THEN Entry(w, f, p) ELSE f[p]) = Entry(w, g, p)
        <5>1. CASE p = lo
          BY <3>4, <5>1
        <5>2. CASE p # lo
          <6>1. p \in (lo + 1)..(L + 1)
            BY <1>1, <3>1, <5>2
          <6> QED BY <3>2, <3>4, <5>2, <6>1
        <5> QED BY <5>1, <5>2
      <4> QED BY <4>1 DEF g
    <3>6. Table(w, g, L + 1 - (m + 1))
      BY <3>1, <3>5 DEF Table, L
    <3> QED BY <3>6
  <2>3. ASSUME NEW m \in Nat, m \in S, m < L PROVE m + 1 \in S
    <3>1. PICK f : Table(w, f, L + 1 - m)
      BY <2>3
    <3>2. \E g : Table(w, g, L + 1 - (m + 1))
      BY <2>2, <2>3, <3>1
    <3> HIDE DEF L
    <3> QED BY <3>2
  <2> HIDE DEF S
  <2> QED BY <2>1, <2>3 DEF Inductive
<1>3. L \in S
  <2> HIDE DEF S, L
  <2> QED BY <1>1, <1>2, UpTo
<1>4. \E f : Table(w, f, 1)
  BY <1>1, <1>3
<1>5. CountFrom(w) = CHOOSE f : Table(w, f, 1)
  BY DEF CountFrom, Table, Entry
<1> QED BY <1>4, <1>5

\* Its equation, position by position.
LEMMA CountEquation ==
  ASSUME NEW X, NEW w \in Seq(X), NEW p \in 1..(Len(w) + 1)
  PROVE  CountFrom(w)[p] = Entry(w, CountFrom(w), p)
<1> DEFINE f == CountFrom(w)
<1>1. f = [q \in 1..(Len(w) + 1) |-> Entry(w, f, q)]
  BY CountTable DEF Table
<1> HIDE DEF f
<1>2. f[p] = Entry(w, f, p)
  BY <1>1
<1> QED BY <1>2 DEF f

\* A window without the end of a packet counts as none.
LEMMA CountNone ==
  ASSUME NEW X, NEW w \in Seq(X), PacketEnds(w) = {}
  PROVE  CountFrom(w)[1] = 0
<1> DEFINE L == Len(w)
           S == {m \in Nat : m <= L => CountFrom(w)[L + 1 - m] = 0}
<1>1. L \in Nat
  OBVIOUS
<1>2. ASSUME NEW p \in 1..(L + 1)
      PROVE  CountFrom(w)[p] = IF p >= L \/ w[p] = NUL THEN 0 ELSE CountFrom(w)[p + 1]
  BY CountEquation DEF Entry
<1> HIDE DEF L
<1>3. Inductive(S, L)
  <2>1. 0 \in S
    BY <1>1, <1>2
  <2>2. ASSUME NEW m \in Nat, m \in S, m < L PROVE m + 1 \in S
    <3>1. L - m \in 1..(L + 1) /\ L + 1 - (m + 1) = L - m /\ L - m + 1 = L + 1 - m
      BY <1>1, <2>2
    <3>2. CountFrom(w)[L + 1 - m] = 0
      BY <1>1, <2>2
    <3> QED BY <1>2, <3>1, <3>2
  <2> QED BY <2>1, <2>2 DEF Inductive
<1>4. L \in S
  <2> HIDE DEF S
  <2> QED BY <1>1, <1>3, UpTo
<1> QED BY <1>1, <1>4

\* Up to the end of the first packet the loop counts nothing.
LEMMA CountFirst ==
  ASSUME NEW X, NEW w \in Seq(X), NEW p \in PacketEnds(w),
         \A q \in PacketEnds(w) : p <= q
  PROVE  CountFrom(w)[1] = 1 + CountFrom(w)[BlankEnd(w, p) + 1]
<1> DEFINE S == {m \in Nat : m < p => CountFrom(w)[p - m] = CountFrom(w)[p]}
<1>1. p \in Nat /\ 1 <= p /\ p < Len(w) /\ Len(w) \in Nat
  BY EndBounds
<1>2. \A i \in 1..p : w[i] # NUL
  BY DEF PacketEnds, EndsPacket
<1>3. CountFrom(w)[p] = 1 + CountFrom(w)[BlankEnd(w, p) + 1]
  BY <1>1, <1>2, CountEquation DEF Entry
<1>4. ASSUME NEW q \in 1..(p - 1)
      PROVE  CountFrom(w)[q] = CountFrom(w)[q + 1]
  <2>1. q \notin PacketEnds(w) /\ q \in 1..(Len(w) + 1) /\ ~(q >= Len(w)) /\ w[q] # NUL
    BY <1>1, <1>2
  <2> QED BY <2>1, CountEquation DEF Entry
<1>5. Inductive(S, p)
  <2>1. 0 \in S
    BY <1>1
  <2>2. ASSUME NEW m \in Nat, m \in S, m < p PROVE m + 1 \in S
    <3>1. CASE m + 1 < p
      <4>1. p - (m + 1) \in 1..(p - 1) /\ p - (m + 1) + 1 = p - m
        BY <1>1, <3>1
      <4>2. CountFrom(w)[p - m] = CountFrom(w)[p]
        BY <2>2
      <4>3. CountFrom(w)[p - (m + 1)] = CountFrom(w)[p - m]
        BY <1>4, <4>1
      <4> QED BY <4>2, <4>3
    <3> QED BY <3>1
  <2> HIDE DEF S
  <2> QED BY <2>1, <2>2 DEF Inductive
<1>6. p - 1 \in S
  <2> HIDE DEF S
  <2> QED BY <1>1, <1>5, UpTo
<1>7. CountFrom(w)[1] = CountFrom(w)[p]
  BY <1>1, <1>6
<1> QED BY <1>3, <1>7

\* Behind text without a NUL the ends of packets are the ones of what follows.
LEMMA EndsBehind ==
  ASSUME NEW X, NEW w \in Seq(X), NEW len \in 0..Len(w),
         \A i \in 1..len : w[i] # NUL,
         NEW q \in 1..(Len(w) - len)
  PROVE  LET v == SubSeq(w, len + 1, Len(w))
         IN  /\ q \in PacketEnds(v) <=> q + len \in PacketEnds(w)
             /\ q \in PacketEnds(v) => BlankEnd(w, q + len) = BlankEnd(v, q) + len
<1> DEFINE v == SubSeq(w, len + 1, Len(w))
<1>1. /\ len \in Nat /\ Len(w) \in Nat /\ len <= Len(w)
      /\ q \in Nat /\ 1 <= q /\ q <= Len(w) - len
  OBVIOUS
<1>2. Len(v) = Len(w) - len /\ \A i \in 1..(Len(w) - len) : v[i] = w[i + len]
  BY <1>1
<1> HIDE DEF v
<1>3. CASE q + len >= Len(w)
  BY <1>1, <1>2, <1>3 DEF PacketEnds
<1>4. CASE q + len < Len(w)
  <2>1. v[q] = w[q + len] /\ v[q + 1] = w[q + len + 1]
    <3>1. q + 1 \in 1..(Len(w) - len) /\ q + 1 + len = q + len + 1
      BY <1>1, <1>4
    <3> QED BY <1>2, <3>1
  <2>2. BlankEnd(w, q + len) = BlankEnd(v, q) + len /\ BlankEnd(v, q) \in {q + 1, q + 2}
    BY <1>1, <2>1 DEF BlankEnd
  <2> DEFINE b == BlankEnd(v, q)
  <2>3. b \in Nat /\ b >= 1
    BY <1>1, <2>2
  <2>4. b <= Len(v) <=> b + len <= Len(w)
    BY <1>1, <1>2, <2>3
  <2>5. b <= Len(v) => v[b] = w[b + len]
    BY <1>1, <1>2, <2>3
  <2>6. (\A i \in 1..q : v[i] # NUL) <=> (\A i \in 1..(q + len) : w[i] # NUL)
    <3>1. ASSUME \A i \in 1..q : v[i] # NUL, NEW i \in 1..(q + len)
          PROVE  w[i] # NUL
      <4>1. CASE i <= len
        BY <1>1, <4>1
      <4>2. CASE i > len
        <5>1. i - len \in 1..q /\ i - len \in 1..(Len(w) - len) /\ i - len + len = i
          BY <1>1, <4>2
        <5>2. v[i - len] = w[i]
          BY <1>2, <5>1
        <5> QED BY <3>1, <5>1, <5>2
      <4> QED BY <1>1, <4>1, <4>2
    <3>2. ASSUME \A i \in 1..(q + len) : w[i] # NUL, NEW i \in 1..q
          PROVE  v[i] # NUL
      <4>1. i + len \in 1..(q + len) /\ i \in 1..(Len(w) - len)
        BY <1>1
      <4> QED BY <1>2, <3>2, <4>1
    <3> QED BY <3>1, <3>2
  <2>7. EndsPacket(v, q) <=> EndsPacket(w, q + len)
    BY <2>1, <2>2, <2>4, <2>5, <2>6 DEF EndsPacket
  <2>8. q \in 1..(Len(v) - 1) /\ q + len \in 1..(Len(w) - 1)
    BY <1>1, <1>2, <1>4
  <2> QED BY <2>2, <2>7, <2>8 DEF PacketEnds, v
<1> QED BY <1>1, <1>3, <1>4

\* What the loop counts behind such text is what it counts in the rest alone.
LEMMA CountBehind ==
  ASSUME NEW X, NEW w \in Seq(X), NEW len \in 0..Len(w),
         \A i \in 1..len : w[i] # NUL
  PROVE  CountFrom(w)[len + 1] = CountFrom(SubSeq(w, len + 1, Len(w)))[1]
<1> DEFINE v == SubSeq(w, len + 1, Len(w))
           N == Len(w) - len
           S == {m \in Nat : \A q \in 1..(N + 1) :
                               N + 1 <= q + m => CountFrom(w)[q + len] = CountFrom(v)[q]}
<1>1. len \in Nat /\ Len(w) \in Nat /\ N \in Nat
  OBVIOUS
<1>2. v \in Seq(X) /\ Len(v) = N /\ \A i \in 1..N : v[i] = w[i + len]
  BY <1>1
<1>3. ASSUME NEW q \in 1..N
      PROVE  /\ q \in PacketEnds(v) <=> q + len \in PacketEnds(w)
             /\ q \in PacketEnds(v) => BlankEnd(w, q + len) = BlankEnd(v, q) + len
  BY EndsBehind
<1>4. ASSUME NEW q \in 1..(N + 1)
      PROVE  /\ CountFrom(v)[q] = Entry(v, CountFrom(v), q)
             /\ CountFrom(w)[q + len] = Entry(w, CountFrom(w), q + len)
  <2>1. q + len \in 1..(Len(w) + 1)
    BY <1>1
  <2> QED BY <1>2, <2>1, CountEquation
<1>5. ASSUME NEW q \in PacketEnds(v)
      PROVE  q \in 1..N /\ BlankEnd(v, q) \in (q + 1)..N
  <2>1. /\ q \in Nat /\ 1 <= q /\ q < Len(v)
        /\ BlankEnd(v, q) \in {q + 1, q + 2} /\ BlankEnd(v, q) <= Len(v)
    BY <1>2, EndBounds
  <2> QED BY <1>1, <1>2, <2>1
<1> HIDE DEF v
<1>6. Len(w) = N + len
  BY <1>1
<1> HIDE DEF N
<1>7. Inductive(S, N)
  <2>1. 0 \in S
    <3>1. ASSUME NEW q \in 1..(N + 1), N + 1 <= q + 0
          PROVE  CountFrom(w)[q + len] = CountFrom(v)[q]
      BY <1>1, <1>2, <1>4, <1>6, <3>1 DEF Entry
    <3> QED BY <3>1
  <2>2. ASSUME NEW m \in Nat, m \in S, m < N PROVE m + 1 \in S
    <3>1. ASSUME NEW r \in 1..(N + 1), N + 1 <= r + m
          PROVE  CountFrom(w)[r + len] = CountFrom(v)[r]
      BY <2>2, <3>1
    <3>2. ASSUME NEW q \in 1..(N + 1), N + 1 <= q + (m + 1)
          PROVE  CountFrom(w)[q + len] = CountFrom(v)[q]
      <4>1. CASE q >= N
        BY <1>1, <1>2, <1>4, <1>6, <4>1 DEF Entry
      <4>2. CASE q < N
        <5>1. /\ q \in 1..N /\ v[q] = w[q + len] /\ ~(q >= Len(v)) /\ ~(q + len >= Len(w))
          BY <1>1, <1>2, <1>6, <4>2
        <5>2. CASE q \in PacketEnds(v)
          <6> DEFINE r == BlankEnd(v, q) + 1
          <6>1. r \in 1..(N + 1) /\ N + 1 <= r + m
            BY <1>1, <1>5, <3>2, <5>2
          <6>2. CountFrom(w)[r + len] = CountFrom(v)[r]
            BY <3>1, <6>1
          <6>3. BlankEnd(w, q + len) + 1 = r + len
            BY <1>1, <1>3, <1>5, <5>1, <5>2
          <6>4. q + len \in PacketEnds(w)
            BY <1>3, <5>1, <5>2
          <6> HIDE DEF r
          <6>5. Entry(w, CountFrom(w), q + len) = Entry(v, CountFrom(v), q)
            BY <5>1, <5>2, <6>2, <6>3, <6>4 DEF Entry, r
          <6> QED BY <1>4, <6>5
        <5>3. CASE q \notin PacketEnds(v)
          <6>1. q + 1 \in 1..(N + 1) /\ N + 1 <= (q + 1) + m /\ q + 1 + len = q + len + 1
            BY <1>1, <3>2, <4>2
          <6>2. CountFrom(w)[q + len + 1] = CountFrom(v)[q + 1]
            BY <3>1, <6>1
          <6>3. q + len \notin PacketEnds(w)
            BY <1>3, <5>1, <5>3
          <6>4. Entry(w, CountFrom(w), q + len) = Entry(v, CountFrom(v), q)
            BY <5>1, <5>3, <6>2, <6>3 DEF Entry
          <6> QED BY <1>4, <6>4
        <5> QED BY <5>2, <5>3
      <4> QED BY <1>1, <4>1, <4>2
    <3> QED BY <2>2, <3>2
  <2> HIDE DEF S
  <2> QED BY <2>1, <2>2 DEF Inductive
<1>8. N \in S
  <2> HIDE DEF S
  <2> QED BY <1>1, <1>7, UpTo
<1>9. CountFrom(w)[1 + len] = CountFrom(v)[1]
  <2>1. 1 \in 1..(N + 1) /\ N + 1 <= 1 + N
    BY <1>1
  <2> QED BY <1>8, <2>1
<1> QED BY <1>1, <1>9 DEF v

\* Taking the first packet away takes one from the count.
LEMMA CountStep ==
  ASSUME NEW X, NEW w \in Seq(X)
  PROVE  CountFrom(w)[1] =
           IF PacketLen(w) = 0 THEN 0
           ELSE 1 + CountFrom(SubSeq(w, PacketLen(w) + 1, Len(w)))[1]
<1>1. CASE PacketEnds(w) = {}
  BY <1>1, CountNone DEF PacketLen
<1>2. CASE PacketEnds(w) # {}
  <2>1. PacketEnds(w) \subseteq Nat
    BY EndBounds
  <2> DEFINE p == CHOOSE i \in PacketEnds(w) : \A q \in PacketEnds(w) : i <= q
  <2>2. p \in PacketEnds(w) /\ \A q \in PacketEnds(w) : p <= q
    BY <1>2, <2>1, Least
  <2>3. PacketLen(w) = BlankEnd(w, p)
    BY <1>2 DEF PacketLen
  <2> HIDE DEF p
  <2>4. /\ p \in Nat /\ 1 <= p /\ BlankEnd(w, p) \in {p + 1, p + 2}
        /\ BlankEnd(w, p) <= Len(w) /\ Len(w) \in Nat
    BY <2>2, EndBounds
  <2>5. \A i \in 1..BlankEnd(w, p) : w[i] # NUL
    <3>1. \A i \in 1..p : w[i] # NUL
      BY <2>2 DEF PacketEnds, EndsPacket
    <3>2. w[BlankEnd(w, p)] = NL /\ (BlankEnd(w, p) = p + 2 => w[p + 1] = CR)
      BY <2>2, <2>4 DEF PacketEnds, EndsPacket, BlankEnd
    <3> QED BY <2>4, <3>1, <3>2, ByteAssumption
  <2>6. BlankEnd(w, p) \in 0..Len(w) /\ BlankEnd(w, p) # 0
    BY <2>4
  <2>7. CountFrom(w)[1] = 1 + CountFrom(w)[BlankEnd(w, p) + 1]
    BY <2>2, CountFirst
  <2>8. CountFrom(w)[BlankEnd(w, p) + 1]
          = CountFrom(SubSeq(w, BlankEnd(w, p) + 1, Len(w)))[1]
    BY <2>5, <2>6, CountBehind
  <2> QED BY <2>3, <2>6, <2>7, <2>8
<1> QED BY <1>1, <1>2

\* esl_buffer_packet_count promises as many packets as esl_buffer_read_packet
\* will cut off one after the other, for every content of the buffer and of the
\* memory behind it.
THEOREM CountMatchesReads ==
  ASSUME MaxLen = 0
  PROVE  Spec => []CountIsReads
<1>1. IInv => CountIsReads
  <2> SUFFICES ASSUME IInv, NEW past \in Past(buf)
               PROVE  LET w == Window(buf, past)
                      IN  CountFrom(w)[1] =
                            IF PacketLen(w) = 0 THEN 0
                            ELSE 1 + CountFrom(SubSeq(w, PacketLen(w) + 1, Len(w)))[1]
    BY DEF CountIsReads
  <2>1. Window(buf, past) \in Seq(Byte \cup {past})
    BY IInvSound, WindowLen
  <2> QED BY <2>1, CountStep
<1>2. Init => IInv
  BY IInvInit
<1>3. IInv /\ [Next]_vars => IInv'
  BY IInvNext
<1> QED BY <1>1, <1>2, <1>3, PTL DEF Spec

-----------------------------------------------------------------------------
(* The buffer without a length limit implements the rewindable queue.        *)

\* A sequence is determined by its length and its elements.
LEMMA SameSeq ==
  ASSUME NEW s \in Seq(Byte), NEW t \in Seq(Byte),
         Len(s) = Len(t), \A k \in 1..Len(s) : s[k] = t[k]
  PROVE  s = t
BY SeqEqual

\* The two byte strings of a buffer.
LEMMA Views ==
  ASSUME NEW b, Sound(b)
  PROVE  /\ Content(b) \in Seq(Byte) /\ Len(Content(b)) = b.used
         /\ \A k \in 1..b.used : Content(b)[k] = b.data[b.head + k - 1]
         /\ Behind(b) \in Seq(Byte) /\ Len(Behind(b)) = b.head
         /\ \A k \in 1..b.head : Behind(b)[k] = b.data[k - 1]
         /\ b.used \in Nat /\ b.head \in Nat
<1>1. b.used \in Nat /\ b.head \in Nat
  BY DEF Sound, IsBuffer
<1>2. \A k \in 1..b.used : b.data[b.head + k - 1] \in Byte
  BY DEF Sound, IsBuffer, InBounds
<1>3. \A k \in 1..b.head : b.data[k - 1] \in Byte
  BY DEF Sound, IsBuffer, InBounds
<1>4. Content(b) \in [1..b.used -> Byte]
  BY <1>2 DEF Content
<1>5. Behind(b) \in [1..b.head -> Byte]
  BY <1>3 DEF Behind
<1>6. \A k \in 1..b.used : Content(b)[k] = b.data[b.head + k - 1]
  BY DEF Content
<1>7. \A k \in 1..b.head : Behind(b)[k] = b.data[k - 1]
  BY DEF Behind
<1>8. Content(b) \in Seq(Byte) /\ Len(Content(b)) = b.used
  BY <1>1, <1>4
<1>9. Behind(b) \in Seq(Byte) /\ Len(Behind(b)) = b.head
  BY <1>1, <1>5
<1> QED BY <1>1, <1>6, <1>7, <1>8, <1>9

\* What First and Rest of a byte string are.
LEMMA Parts ==
  ASSUME NEW s \in Seq(Byte), NEW n \in 0..Len(s)
  PROVE  /\ Queue!First(s, n) \in Seq(Byte) /\ Len(Queue!First(s, n)) = n
         /\ \A k \in 1..n : Queue!First(s, n)[k] = s[k]
         /\ Queue!Rest(s, n) \in Seq(Byte) /\ Len(Queue!Rest(s, n)) = Len(s) - n
         /\ \A k \in 1..(Len(s) - n) : Queue!Rest(s, n)[k] = s[n + k]
<1>1. /\ SubSeq(s, 1, n) \in Seq(Byte) /\ Len(SubSeq(s, 1, n)) = n
      /\ \A k \in 1..n : SubSeq(s, 1, n)[k] = s[k]
  OBVIOUS
<1>2. /\ SubSeq(s, n + 1, Len(s)) \in Seq(Byte)
      /\ Len(SubSeq(s, n + 1, Len(s))) = Len(s) - n
      /\ \A k \in 1..(Len(s) - n) : SubSeq(s, n + 1, Len(s))[k] = s[n + k]
  OBVIOUS
<1> QED BY <1>1, <1>2 DEF Queue!First, Queue!Rest

\* The bytes remembered and unread together are the bytes ever filled.
LEMMA Whole ==
  ASSUME NEW b, Sound(b)
  PROVE  /\ Behind(b) \o Content(b) \in Seq(Byte)
         /\ Len(Behind(b) \o Content(b)) = b.actually_used
         /\ \A k \in 1..b.actually_used : (Behind(b) \o Content(b))[k] = b.data[k - 1]
<1> DEFINE s == Behind(b)
           t == Content(b)
<1>1. b.head + b.used = b.actually_used
  BY DEF Sound, InBounds
<1>2. /\ s \in Seq(Byte) /\ Len(s) = b.head
      /\ t \in Seq(Byte) /\ Len(t) = b.used
      /\ b.head \in Nat /\ b.used \in Nat
  BY Views
<1>s. \A k \in 1..b.head : s[k] = b.data[k - 1]
  BY Views
<1>t. \A k \in 1..b.used : t[k] = b.data[b.head + k - 1]
  BY Views
<1> HIDE DEF s, t
<1>3. ASSUME NEW k \in 1..b.actually_used
      PROVE  (s \o t)[k] = b.data[k - 1]
  <2>1. CASE k <= b.head
    <3>1. k \in 1..b.head /\ (s \o t)[k] = s[k]
      BY <1>1, <1>2, <2>1
    <3> QED BY <1>s, <3>1
  <2>2. CASE k > b.head
    <3>1. k - b.head \in 1..b.used /\ b.head + (k - b.head) - 1 = k - 1
      BY <1>1, <1>2, <2>2
    <3>2. (s \o t)[k] = t[k - b.head]
      BY <1>1, <1>2, <2>2
    <3>3. t[k - b.head] = b.data[b.head + (k - b.head) - 1]
      BY <1>t, <3>1
    <3> QED BY <3>1, <3>2, <3>3
  <2>3. k \in Nat
    BY <1>1, <1>2
  <2>4. k <= b.head \/ k > b.head
    BY <1>2, <2>3
  <2> QED BY <2>1, <2>2, <2>4
<1>4. s \o t \in Seq(Byte) /\ Len(s \o t) = b.actually_used
  BY <1>1, <1>2
<1> QED BY <1>3, <1>4 DEF s, t

\* Moving the position splits the same bytes elsewhere.
LEMMA PositionedView ==
  ASSUME NEW b, Sound(b), NEW pos \in Nat, pos <= b.actually_used
  PROVE  LET all == Behind(b) \o Content(b)
         IN /\ Behind(Positioned(b, pos)) = Queue!First(all, pos)
            /\ Content(Positioned(b, pos)) = Queue!Rest(all, pos)
<1> DEFINE all == Behind(b) \o Content(b)
           p == Positioned(b, pos)
<1>1. Sound(p) /\ p.head = pos /\ p.used = b.actually_used - pos /\ p.data = b.data
  BY PositionedSound DEF Positioned, Buffer
<1>2. /\ all \in Seq(Byte) /\ Len(all) = b.actually_used
      /\ \A k \in 1..b.actually_used : all[k] = b.data[k - 1]
  BY Whole
<1> HIDE DEF all, p
<1>3. b.actually_used \in Nat /\ pos \in 0..Len(all)
  BY <1>2 DEF Sound, IsBuffer
<1> DEFINE first == Queue!First(all, pos)
           rest  == Queue!Rest(all, pos)
<1>4. /\ first \in Seq(Byte) /\ Len(first) = pos
      /\ \A k \in 1..pos : first[k] = all[k]
      /\ rest \in Seq(Byte) /\ Len(rest) = Len(all) - pos
      /\ \A k \in 1..(Len(all) - pos) : rest[k] = all[pos + k]
  BY <1>2, <1>3, Parts
<1>5. /\ Content(p) \in Seq(Byte) /\ Len(Content(p)) = b.actually_used - pos
      /\ \A k \in 1..(b.actually_used - pos) : Content(p)[k] = b.data[pos + k - 1]
      /\ Behind(p) \in Seq(Byte) /\ Len(Behind(p)) = pos
      /\ \A k \in 1..pos : Behind(p)[k] = b.data[k - 1]
  <2>1. /\ Content(p) \in Seq(Byte) /\ Len(Content(p)) = p.used
        /\ \A k \in 1..p.used : Content(p)[k] = p.data[p.head + k - 1]
        /\ Behind(p) \in Seq(Byte) /\ Len(Behind(p)) = p.head
        /\ \A k \in 1..p.head : Behind(p)[k] = p.data[k - 1]
    BY <1>1, Views, Zenon
  <2> QED BY <1>1, <2>1, Zenon
<1> HIDE DEF first, rest
<1>6. Behind(p) = first
  <2>1. ASSUME NEW k \in 1..pos
        PROVE  Behind(p)[k] = first[k]
    <3>1. k \in 1..b.actually_used
      BY <1>3
    <3>2. Behind(p)[k] = b.data[k - 1]
      BY <1>5
    <3>3. first[k] = all[k]
      BY <1>4
    <3>4. all[k] = b.data[k - 1]
      BY <1>2, <3>1
    <3> QED BY <3>2, <3>3, <3>4
  <2> QED BY <1>4, <1>5, <2>1, SameSeq
<1>7. Content(p) = rest
  <2>1. ASSUME NEW k \in 1..(b.actually_used - pos)
        PROVE  Content(p)[k] = rest[k]
    <3>1. pos + k \in 1..b.actually_used
      BY <1>3
    <3>2. Content(p)[k] = b.data[pos + k - 1]
      BY <1>5
    <3>3. rest[k] = all[pos + k]
      BY <1>2, <1>4
    <3>4. all[pos + k] = b.data[pos + k - 1]
      BY <1>2, <3>1
    <3> QED BY <3>2, <3>3, <3>4
  <2> QED BY <1>2, <1>4, <1>5, <2>1, SameSeq
<1> QED BY <1>6, <1>7 DEF all, p, first, rest

\* Splitting a concatenation inside its second part.
LEMMA SplitSecond ==
  ASSUME NEW s \in Seq(Byte), NEW t \in Seq(Byte), NEW r \in 0..Len(t)
  PROVE  /\ Queue!First(s \o t, Len(s) + r) = s \o Queue!First(t, r)
         /\ Queue!Rest(s \o t, Len(s) + r) = Queue!Rest(t, r)
<1> DEFINE all  == s \o t
           n    == Len(s) + r
           left == Queue!First(t, r)
<1>1. /\ all \in Seq(Byte) /\ Len(all) = Len(s) + Len(t)
      /\ n \in 0..Len(all) /\ Len(s) \in Nat /\ Len(t) \in Nat /\ r \in Nat
  OBVIOUS
<1>2. \A k \in 1..Len(s) : all[k] = s[k]
  OBVIOUS
<1>3. \A k \in 1..Len(t) : all[Len(s) + k] = t[k]
  BY <1>1
<1>4. /\ left \in Seq(Byte) /\ Len(left) = r
      /\ \A k \in 1..r : left[k] = t[k]
  BY Parts
<1>5. /\ Queue!First(all, n) \in Seq(Byte) /\ Len(Queue!First(all, n)) = n
      /\ \A k \in 1..n : Queue!First(all, n)[k] = all[k]
      /\ Queue!Rest(all, n) \in Seq(Byte) /\ Len(Queue!Rest(all, n)) = Len(all) - n
      /\ \A k \in 1..(Len(all) - n) : Queue!Rest(all, n)[k] = all[n + k]
  BY <1>1, Parts
<1>6. /\ Queue!Rest(t, r) \in Seq(Byte) /\ Len(Queue!Rest(t, r)) = Len(t) - r
      /\ \A k \in 1..(Len(t) - r) : Queue!Rest(t, r)[k] = t[r + k]
  BY Parts
<1> HIDE DEF all, left
<1>7. Queue!First(all, n) = s \o left
  <2>1. s \o left \in Seq(Byte) /\ Len(s \o left) = n
    BY <1>1, <1>4
  <2>2. ASSUME NEW k \in 1..n
        PROVE  Queue!First(all, n)[k] = (s \o left)[k]
    <3>1. Queue!First(all, n)[k] = all[k]
      BY <1>5
    <3>2. CASE k <= Len(s)
      <4>1. (s \o left)[k] = s[k] /\ k \in 1..Len(s)
        BY <1>1, <1>4, <3>2
      <4> QED BY <1>2, <3>1, <4>1
    <3>3. CASE k > Len(s)
      <4>1. k - Len(s) \in 1..r /\ k - Len(s) \in 1..Len(t) /\ Len(s) + (k - Len(s)) = k
        BY <1>1, <3>3
      <4>2. (s \o left)[k] = left[k - Len(s)]
        BY <1>1, <1>4, <3>3
      <4>3. left[k - Len(s)] = t[k - Len(s)]
        BY <1>4, <4>1
      <4>4. all[Len(s) + (k - Len(s))] = t[k - Len(s)]
        BY <1>3, <4>1
      <4> QED BY <3>1, <4>1, <4>2, <4>3, <4>4
    <3>4. k <= Len(s) \/ k > Len(s)
      BY <1>1
    <3> QED BY <3>2, <3>3, <3>4
  <2> QED BY <1>5, <2>1, <2>2, SameSeq
<1>8. Queue!Rest(all, n) = Queue!Rest(t, r)
  <2>1. Len(all) - n = Len(t) - r
    BY <1>1
  <2>2. ASSUME NEW k \in 1..(Len(t) - r)
        PROVE  Queue!Rest(all, n)[k] = Queue!Rest(t, r)[k]
    <3>1. r + k \in 1..Len(t) /\ n + k = Len(s) + (r + k)
      BY <1>1
    <3>2. Queue!Rest(all, n)[k] = all[n + k]
      BY <1>5, <2>1
    <3>3. Queue!Rest(t, r)[k] = t[r + k]
      BY <1>6
    <3>4. all[Len(s) + (r + k)] = t[r + k]
      BY <1>3, <3>1
    <3> QED BY <3>1, <3>2, <3>3, <3>4
  <2> QED BY <1>5, <1>6, <2>1, <2>2, SameSeq
<1> QED BY <1>7, <1>8 DEF all, left

\* A read takes bytes from the front and remembers them.
LEMMA AdvancedView ==
  ASSUME NEW b, Sound(b), NEW n \in Nat
  PROVE  LET r == Reading(b, n)
         IN /\ r \in 0..Len(Content(b))
            /\ Behind(Advanced(b, n)) = Behind(b) \o Queue!First(Content(b), r)
            /\ Content(Advanced(b, n)) = Queue!Rest(Content(b), r)
            /\ ReadBytes(b, n) = Queue!First(Content(b), r)
<1> DEFINE r == Reading(b, n)
<1>1. r \in Nat /\ r <= b.used
  BY ReadingBounds
<1>2. /\ Content(b) \in Seq(Byte) /\ Len(Content(b)) = b.used
      /\ Behind(b) \in Seq(Byte) /\ Len(Behind(b)) = b.head
      /\ b.used \in Nat /\ b.head \in Nat
  BY Views
<1>3. r \in 0..Len(Content(b))
  BY <1>1, <1>2
<1>4. ReadBytes(b, n) \in Seq(Byte) /\ Len(ReadBytes(b, n)) = r
  BY AdvancedSound
<1>5. \A k \in 1..r : ReadBytes(b, n)[k] = b.data[b.head + k - 1]
  BY DEF ReadBytes
<1>6. Advanced(b, n) = Positioned(b, b.head + r)
  <2>1. b.used - r = b.actually_used - (b.head + r)
    BY <1>1, <1>2 DEF Sound, IsBuffer, InBounds
  <2> QED BY <2>1 DEF Advanced, Positioned
<1> HIDE DEF r
<1>7. b.head + r \in Nat /\ b.head + r <= b.actually_used
  BY <1>1, <1>2 DEF Sound, IsBuffer, InBounds
<1>8. /\ Behind(Advanced(b, n)) = Behind(b) \o Queue!First(Content(b), r)
      /\ Content(Advanced(b, n)) = Queue!Rest(Content(b), r)
  <2>1. /\ Queue!First(Behind(b) \o Content(b), b.head + r)
             = Behind(b) \o Queue!First(Content(b), r)
        /\ Queue!Rest(Behind(b) \o Content(b), b.head + r) = Queue!Rest(Content(b), r)
    BY <1>2, <1>3, SplitSecond
  <2>2. /\ Behind(Positioned(b, b.head + r))
             = Queue!First(Behind(b) \o Content(b), b.head + r)
        /\ Content(Positioned(b, b.head + r))
             = Queue!Rest(Behind(b) \o Content(b), b.head + r)
    BY <1>7, PositionedView
  <2> QED BY <1>6, <2>1, <2>2
<1>9. ReadBytes(b, n) = Queue!First(Content(b), r)
  <2>1. /\ Queue!First(Content(b), r) \in Seq(Byte)
        /\ Len(Queue!First(Content(b), r)) = r
        /\ \A k \in 1..r : Queue!First(Content(b), r)[k] = Content(b)[k]
    BY <1>2, <1>3, Parts
  <2>2. ASSUME NEW k \in 1..r
        PROVE  ReadBytes(b, n)[k] = Queue!First(Content(b), r)[k]
    <3>1. k \in 1..b.used
      BY <1>1, <1>2
    <3>2. Content(b)[k] = b.data[b.head + k - 1]
      BY <3>1, Views
    <3> QED BY <1>5, <2>1, <3>2
  <2> QED BY <1>4, <2>1, <2>2, SameSeq
<1> QED BY <1>3, <1>8, <1>9 DEF r

\* A buffer whose head is at the front remembers nothing.
LEMMA FrontView ==
  ASSUME NEW b, Sound(b), b.head = 0
  PROVE  Behind(b) = <<>>
<1>1. Behind(b) \in Seq(Byte) /\ Len(Behind(b)) = 0
  BY Views
<1> QED BY <1>1

LEMMA ZeroedView ==
  ASSUME NEW b, Sound(b)
  PROVE  Behind(Zeroed(b)) = <<>> /\ Content(Zeroed(b)) = <<>>
<1>1. Sound(Zeroed(b)) /\ Zeroed(b).head = 0 /\ Zeroed(b).used = 0
  BY ZeroedSound DEF Zeroed, Buffer
<1>2. Content(Zeroed(b)) \in Seq(Byte) /\ Len(Content(Zeroed(b))) = 0
  BY <1>1, Views
<1> QED BY <1>1, <1>2, FrontView

\* Two buffers with the same unread bytes at their places.
LEMMA SameContent ==
  ASSUME NEW b, Sound(b), NEW c, Sound(c), b.used = c.used,
         \A k \in 1..b.used : b.data[b.head + k - 1] = c.data[c.head + k - 1]
  PROVE  Content(b) = Content(c)
BY DEF Content

LEMMA CompactedView ==
  ASSUME NEW b, Sound(b)
  PROVE  Behind(Compacted(b)) = <<>> /\ Content(Compacted(b)) = Content(b)
<1> DEFINE c == Compacted(b)
<1>1. Sound(c) /\ c.used = b.used /\ c.head = 0
  BY CompactedSound
<1>2. c.data = Moved(b)
  BY DEF Compacted, Buffer
<1> HIDE DEF c
<1>3. ASSUME NEW k \in 1..b.used
      PROVE  c.data[c.head + k - 1] = b.data[b.head + k - 1]
  <2>1. k - 1 \in 0..(b.datalen - 1) /\ k - 1 < b.used /\ 0 + k - 1 = k - 1
        /\ b.head + (k - 1) = b.head + k - 1
    BY DEF Sound, IsBuffer, InBounds
  <2>2. Moved(b)[k - 1] = b.data[b.head + (k - 1)]
    BY <2>1 DEF Moved
  <2> QED BY <1>1, <1>2, <2>1, <2>2
<1>4. Content(c) = Content(b)
  BY <1>1, <1>3, SameContent
<1> QED BY <1>1, <1>4, FrontView DEF c

LEMMA GrownView ==
  ASSUME NEW b, Sound(b), b.head = 0, NEW n \in Nat, NEW g \in Grown(b, n)
  PROVE  Behind(g) = <<>> /\ Content(g) = Content(b)
<1>1. Sound(g) /\ g.head = 0 /\ g.used = b.used
  BY GrownSound
<1>2. PICK d \in Enlarged(b, n) :
        g = Buffer(d, NewSize(b, n), 0, b.used, b.actually_used)
  BY DEF Grown
<1>3. PICK fresh : d = [i \in 0..(NewSize(b, n) - 1) |->
                          IF i < b.datalen THEN b.data[i] ELSE fresh[i]]
  BY <1>2 DEF Enlarged
<1>4. NewSize(b, n) \in Nat /\ NewSize(b, n) >= b.datalen
  BY SizeAssumption DEF NewSize, Max2, Sound, IsBuffer
<1>5. ASSUME NEW k \in 1..b.used
      PROVE  g.data[g.head + k - 1] = b.data[b.head + k - 1]
  <2>1. k - 1 \in 0..(NewSize(b, n) - 1) /\ k - 1 < b.datalen /\ 0 + k - 1 = k - 1
    BY <1>4 DEF Sound, IsBuffer, InBounds
  <2>2. d[k - 1] = b.data[k - 1]
    BY <1>3, <2>1
  <2>3. g.data = d
    BY <1>2 DEF Buffer
  <2> QED BY <1>1, <2>1, <2>2, <2>3
<1>6. Content(g) = Content(b)
  BY <1>1, <1>5, SameContent
<1> QED BY <1>1, <1>6, FrontView

\* Storing a chunk appends it to the unread bytes and touches no byte behind.
LEMMA StoredView ==
  ASSUME NEW b, Sound(b), NEW chunk \in Seq(Byte),
         b.actually_used + Len(chunk) <= b.datalen
  PROVE  /\ Behind(Stored(b, chunk)) = Behind(b)
         /\ Content(Stored(b, chunk)) = Content(b) \o chunk
<1> DEFINE c   == Stored(b, chunk)
           end == b.head + b.used
           l   == Len(chunk)
<1>1. Sound(c) /\ c.used = b.used + l
  BY StoredSound
<1>2. c.head = b.head
  BY DEF Stored, Buffer
<1>3. c.data = [i \in 0..(b.datalen - 1) |->
                  IF i \in end..(end + l - 1) THEN chunk[i - end + 1] ELSE b.data[i]]
  BY DEF Stored, Buffer
<1>4. /\ b.used \in Nat /\ b.head \in Nat /\ l \in Nat /\ b.datalen \in Nat
      /\ end + l <= b.datalen
  BY DEF Sound, IsBuffer, InBounds
<1> HIDE DEF c
<1>5. \A i \in Nat : i < end => c.data[i] = b.data[i]
  <2> TAKE i \in Nat
  <2> HAVE i < end
  <2>1. i \in 0..(b.datalen - 1) /\ i \notin end..(end + l - 1)
    BY <1>4
  <2> QED BY <1>3, <2>1
<1>6. ASSUME NEW k \in 1..l
      PROVE  c.data[end + k - 1] = chunk[k]
  <2> DEFINE j == end + k - 1
  <2>1. j \in 0..(b.datalen - 1) /\ j \in end..(end + l - 1) /\ j - end + 1 = k
    BY <1>4
  <2> HIDE DEF j, end, l
  <2>2. c.data[j] = chunk[j - end + 1]
    BY <1>3, <2>1
  <2>3. c.data[j] = chunk[k]
    BY <2>1, <2>2
  <2> QED BY <2>3 DEF j, end, l
<1>7. /\ Content(b) \in Seq(Byte) /\ Len(Content(b)) = b.used
      /\ Behind(b) \in Seq(Byte) /\ Len(Behind(b)) = b.head
      /\ Content(c) \in Seq(Byte) /\ Len(Content(c)) = b.used + l
      /\ Behind(c) \in Seq(Byte) /\ Len(Behind(c)) = b.head
  BY <1>1, <1>2, Views
<1>8. Behind(c) = Behind(b)
  <2>1. ASSUME NEW k \in 1..b.head
        PROVE  Behind(c)[k] = Behind(b)[k]
    <3>1. k - 1 \in Nat /\ k - 1 < end
      BY <1>4
    <3>2. c.data[k - 1] = b.data[k - 1]
      BY <1>5, <3>1
    <3>3. Behind(c)[k] = c.data[k - 1]
      BY <1>1, <1>2, Views
    <3>4. Behind(b)[k] = b.data[k - 1]
      BY Views
    <3> QED BY <3>2, <3>3, <3>4
  <2> QED BY <1>7, <2>1, SameSeq
<1>9. Content(c) = Content(b) \o chunk
  <2>1. /\ Content(b) \o chunk \in Seq(Byte)
        /\ Len(Content(b) \o chunk) = b.used + l
    BY <1>7
  <2>2. ASSUME NEW k \in 1..(b.used + l)
        PROVE  Content(c)[k] = (Content(b) \o chunk)[k]
    <3>1. Content(c)[k] = c.data[b.head + k - 1]
      BY <1>1, <1>2, Views
    <3>2. CASE k <= b.used
      <4>1. (Content(b) \o chunk)[k] = Content(b)[k] /\ k \in 1..b.used
        BY <1>4, <1>7, <3>2
      <4>2. Content(b)[k] = b.data[b.head + k - 1]
        BY <4>1, Views
      <4>3. b.head + k - 1 \in Nat /\ b.head + k - 1 < end
        BY <1>4, <3>2
      <4>4. c.data[b.head + k - 1] = b.data[b.head + k - 1]
        BY <1>5, <4>3
      <4> QED BY <3>1, <4>1, <4>2, <4>4
    <3>3. CASE k > b.used
      <4>1. /\ k - b.used \in 1..l
            /\ end + (k - b.used) - 1 = b.head + k - 1
        BY <1>4, <3>3
      <4>2. (Content(b) \o chunk)[k] = chunk[k - b.used]
        BY <1>4, <1>7, <3>3
      <4>3. c.data[end + (k - b.used) - 1] = chunk[k - b.used]
        BY <1>6, <4>1
      <4> QED BY <3>1, <4>1, <4>2, <4>3
    <3>4. k <= b.used \/ k > b.used
      BY <1>4
    <3> QED BY <3>2, <3>3, <3>4
  <2> QED BY <1>7, <2>1, <2>2, SameSeq
<1> QED BY <1>8, <1>9 DEF c

\* A write appends its chunk or, refused, changes nothing.
LEMMA WriteView ==
  ASSUME MaxLen = 0, NEW b, Sound(b), NEW chunk \in Seq(Byte),
         NEW o \in WriteOutcomes(b, chunk)
  PROVE  /\ o.stored \in BOOLEAN
         /\ WriteReturn(o) = IF o.stored THEN Len(Content(o.buf)) ELSE 0
         /\ o.stored  => /\ Content(o.buf) = Content(b) \o chunk
                         /\ Behind(o.buf) \in {Behind(b), <<>>}
         /\ ~o.stored => Content(o.buf) = Content(b) /\ Behind(o.buf) = <<>>
<1> DEFINE n == Len(chunk)
           c == Placed(b, n)
           Kept == /\ o.stored = TRUE
                   /\ Content(o.buf) = Content(b) \o chunk
                   /\ Behind(o.buf) \in {Behind(b), <<>>}
           Refused == /\ o.stored = FALSE
                      /\ Content(o.buf) = Content(b) /\ Behind(o.buf) = <<>>
<1>1. Sound(o.buf)
  BY WriteSound
<1>2. Len(Content(o.buf)) = o.buf.used
  BY <1>1, Views
<1>3. Content(b) \in Seq(Byte)
  BY Views
<1>4. CASE n = 0
  <2>1. o = [buf |-> b, stored |-> TRUE]
    BY <1>4 DEF WriteOutcomes
  <2>2. chunk = <<>>
    BY <1>4
  <2>3. Content(b) \o chunk = Content(b)
    BY <1>3, <2>2
  <2>4. Kept
    BY <2>1, <2>3
  <2> QED BY <1>2, <2>4 DEF WriteReturn
<1>5. CASE n # 0
  <2>1. n \in Nat /\ n > 0
    BY <1>5
  <2>2. /\ Sound(c) /\ Content(c) = Content(b) /\ Behind(c) \in {Behind(b), <<>>}
        /\ \/ c.actually_used + n <= c.datalen
           \/ c.head = 0 /\ c.actually_used = c.used
    <3>1. CASE b.datalen - b.actually_used < n
      <4>1. c = Compacted(b)
        BY <3>1 DEF Placed
      <4>2. Sound(c) /\ c.head = 0 /\ Content(c) = Content(b) /\ Behind(c) = <<>>
        BY <4>1, CompactedSound, CompactedView
      <4> HIDE DEF c
      <4>3. c.actually_used = c.used
        BY <4>2 DEF Sound, IsBuffer, InBounds
      <4> QED BY <4>2, <4>3
    <3>2. CASE ~(b.datalen - b.actually_used < n)
      <4>1. c = b
        BY <3>2 DEF Placed
      <4> HIDE DEF c
      <4>2. b.actually_used + n <= b.datalen
        BY <2>1, <3>2 DEF Sound, IsBuffer
      <4> QED BY <4>1, <4>2
    <3> QED BY <3>1, <3>2
  <2>3. CASE c.datalen - c.used >= n
    <3>1. o = [buf |-> Stored(c, chunk), stored |-> TRUE]
      BY <1>5, <2>3 DEF WriteOutcomes
    <3> HIDE DEF c
    <3>2. c.actually_used + n <= c.datalen
      BY <2>1, <2>2, <2>3 DEF Sound, IsBuffer, InBounds
    <3>3. Kept
      BY <2>2, <3>1, <3>2, StoredView
    <3> QED BY <1>2, <3>3 DEF WriteReturn
  <2>4. CASE ~(c.datalen - c.used >= n)
    <3>1. \/ o = [buf |-> Buffer(c.data, c.datalen, 0, c.used, c.actually_used),
                  stored |-> FALSE]
          \/ \E g \in Grown(c, n) : o = [buf |-> Stored(g, chunk), stored |-> TRUE]
      BY <1>5, <2>4 DEF WriteOutcomes
    <3> HIDE DEF c
    <3>2. c.head = 0 /\ c.actually_used = c.used /\ Behind(c) = <<>>
      <4>1. c.head = 0 /\ c.actually_used = c.used
        BY <2>1, <2>2, <2>4 DEF Sound, IsBuffer, InBounds
      <4> QED BY <2>2, <4>1, FrontView
    <3>3. CASE o = [buf |-> Buffer(c.data, c.datalen, 0, c.used, c.actually_used),
                    stored |-> FALSE]
      <4>1. Content(o.buf) = Content(c) /\ Behind(o.buf) = Behind(c)
        BY <3>2, <3>3 DEF Buffer, Content, Behind
      <4>2. Refused
        BY <2>2, <3>2, <3>3, <4>1
      <4> QED BY <4>2 DEF WriteReturn
    <3>4. CASE \E g \in Grown(c, n) : o = [buf |-> Stored(g, chunk), stored |-> TRUE]
      <4>1. PICK g \in Grown(c, n) : o = [buf |-> Stored(g, chunk), stored |-> TRUE]
        BY <3>4
      <4>2. Sound(g) /\ g.head = 0 /\ g.used = c.used /\ g.datalen >= c.datalen + n
        BY <2>1, <2>2, <3>2, GrownSound
      <4>3. g.actually_used + n <= g.datalen
        BY <2>1, <2>2, <3>2, <4>2 DEF Sound, IsBuffer, InBounds
      <4>4. Behind(g) = <<>> /\ Content(g) = Content(c)
        BY <2>1, <2>2, <3>2, GrownView
      <4>5. Behind(Stored(g, chunk)) = <<>> /\ Content(Stored(g, chunk)) = Content(b) \o chunk
        BY <2>2, <4>2, <4>3, <4>4, StoredView
      <4>6. Kept
        BY <4>1, <4>5
      <4> QED BY <1>2, <4>6 DEF WriteReturn
    <3> QED BY <3>1, <3>3, <3>4
  <2> QED BY <2>3, <2>4
<1> QED BY <1>4, <1>5

\* A zwrite that was refused stores its chunk alone, or nothing.
LEMMA ZwriteView ==
  ASSUME MaxLen = 0, NEW b, Sound(b), NEW chunk \in Seq(Byte),
         NEW o \in ZwriteOutcomes(b, chunk)
  PROVE  /\ WriteReturn(o) = Len(Content(o.buf))
         /\ \/ /\ Content(o.buf) = Content(b) \o chunk
               /\ Behind(o.buf) \in {Behind(b), <<>>}
            \/ Content(o.buf) \in {chunk, <<>>} /\ Behind(o.buf) = <<>>
<1>1. CASE o \in WriteOutcomes(b, chunk) /\ WriteReturn(o) # 0
  <2>1. o.stored
    BY <1>1, WriteView DEF WriteReturn
  <2> QED BY <1>1, <2>1, WriteView
<1>2. CASE \E x \in WriteOutcomes(b, chunk) : o \in WriteOutcomes(Zeroed(x.buf), chunk)
  <2>1. PICK x \in WriteOutcomes(b, chunk) : o \in WriteOutcomes(Zeroed(x.buf), chunk)
    BY <1>2
  <2> DEFINE z == Zeroed(x.buf)
  <2>2. Sound(z) /\ Content(z) = <<>> /\ Behind(z) = <<>>
    BY WriteSound, ZeroedSound, ZeroedView
  <2> HIDE DEF z
  <2>3. o \in WriteOutcomes(z, chunk)
    BY <2>1 DEF z
  <2>4. /\ o.stored \in BOOLEAN
        /\ WriteReturn(o) = IF o.stored THEN Len(Content(o.buf)) ELSE 0
        /\ o.stored  => Content(o.buf) = <<>> \o chunk /\ Behind(o.buf) = <<>>
        /\ ~o.stored => Content(o.buf) = <<>> /\ Behind(o.buf) = <<>>
    BY <2>2, <2>3, WriteView
  <2>5. <<>> \o chunk = chunk
    OBVIOUS
  <2>6. CASE o.stored
    BY <2>4, <2>5, <2>6
  <2>7. CASE ~o.stored
    <3>1. Len(<<>>) = 0
      OBVIOUS
    <3> QED BY <2>4, <2>7, <3>1
  <2> QED BY <2>4, <2>6, <2>7
<1> QED BY <1>1, <1>2 DEF ZwriteOutcomes
-----------------------------------------------------------------------------
\* The queue after a step, read off the buffer after it.
LEMMA NextViews ==
  ASSUME NEW b, buf' = b
  PROVE  Content(buf)' = Content(b) /\ Behind(buf)' = Behind(b)
BY DEF Content, Behind

\* Every step of the buffer is a step of the queue.
LEMMA QueueStep ==
  ASSUME MaxLen = 0, IInv, [Next]_vars
  PROVE  [Queue!QueueNext]_(Queue!queueVars)
<1> USE DEF Returned, Queue!Answer
<1> DEFINE content == Content(buf)
           passed  == Behind(buf)
<1>0. Sound(buf) /\ loops \in Int
  BY IInvSound
<1>1. /\ content \in Seq(Byte) /\ passed \in Seq(Byte) /\ Len(content) = buf.used
      /\ buf.used \in Nat
  BY <1>0, Views
<1>2. ASSUME NEW n \in 0..MaxCount
      PROVE  n \in Nat
  BY SizeAssumption
<1>3. ASSUME NEW chunk \in Chunk, Write(chunk)
      PROVE  Queue!QueueNext
  <2>1. chunk \in Seq(Byte)
    BY ByteAssumption
  <2>2. PICK o \in WriteOutcomes(buf, chunk) :
          buf' = o.buf /\ result' = [op |-> "write", bytes |-> <<>>, ret |-> WriteReturn(o)]
    BY <1>3 DEF Write
  <2>3. Content(buf)' = Content(o.buf) /\ Behind(buf)' = Behind(o.buf)
    BY <2>2, NextViews
  <2>4. CASE o.stored
    <3>1. Queue!Put(chunk)
      BY <1>0, <2>1, <2>2, <2>3, <2>4, WriteView DEF Queue!Put
    <3> QED BY <3>1 DEF Queue!QueueNext
  <2>5. CASE ~o.stored
    <3>1. Queue!Reject
      BY <1>0, <2>1, <2>2, <2>3, <2>5, WriteView DEF Queue!Reject
    <3> QED BY <3>1 DEF Queue!QueueNext
  <2> QED BY <2>4, <2>5
<1>4. ASSUME NEW chunk \in Chunk, Zwrite(chunk)
      PROVE  Queue!QueueNext
  <2>1. chunk \in Seq(Byte)
    BY ByteAssumption
  <2>2. PICK o \in ZwriteOutcomes(buf, chunk) :
          buf' = o.buf /\ result' = [op |-> "zwrite", bytes |-> <<>>, ret |-> WriteReturn(o)]
    BY <1>4 DEF Zwrite
  <2>3. Content(buf)' = Content(o.buf) /\ Behind(buf)' = Behind(o.buf)
    BY <2>2, NextViews
  <2>4. Queue!Force(chunk)
    BY <1>0, <2>1, <2>2, <2>3, ZwriteView DEF Queue!Force
  <2> QED BY <2>4 DEF Queue!QueueNext
<1>5. ASSUME NEW n \in Nat, buf' = Advanced(buf, n)
      PROVE  /\ Reading(buf, n) \in 0..Len(content)
             /\ Queue!Pass(Reading(buf, n))
             /\ ReadBytes(buf, n) = Queue!First(content, Reading(buf, n))
  BY <1>0, <1>5, AdvancedView, NextViews DEF Queue!Pass
<1>6. ASSUME NEW n \in 0..MaxCount, Read(n)
      PROVE  Queue!QueueNext
  <2> DEFINE r == Reading(buf, n)
  <2>1. r \in 0..Len(content) /\ Queue!Pass(r) /\ ReadBytes(buf, n) = Queue!First(content, r)
    BY <1>2, <1>5, <1>6 DEF Read
  <2>2. result' = [op |-> "read", bytes |-> ReadBytes(buf, n), ret |-> r]
    BY <1>6 DEF Read
  <2> HIDE DEF r
  <2>3. Queue!Take("read", r)
    BY <2>1, <2>2 DEF Queue!Take
  <2> QED BY <2>1, <2>3 DEF Queue!QueueNext
<1>7. ASSUME NEW n \in 0..MaxCount, ReadPacket(n)
      PROVE  Queue!QueueNext
  <2>1. PICK past \in Past(buf) :
          LET len == Min2(PacketLen(Window(buf, past)), n)
          IN /\ buf' = Advanced(buf, len)
             /\ result' = [op |-> "read_packet", bytes |-> ReadBytes(buf, len),
                           ret |-> Reading(buf, len)]
    BY <1>7 DEF ReadPacket
  <2> DEFINE len == Min2(PacketLen(Window(buf, past)), n)
             r   == Reading(buf, len)
  <2>2. len \in Nat
    <3>1. PacketLen(Window(buf, past)) \in Nat
      BY <1>0, PacketLenNat
    <3> QED BY <1>2, <3>1 DEF Min2
  <2>3. /\ buf' = Advanced(buf, len)
        /\ result' = [op |-> "read_packet", bytes |-> ReadBytes(buf, len), ret |-> r]
    BY <2>1
  <2> HIDE DEF len
  <2>4. /\ r \in 0..Len(content) /\ Queue!Pass(r)
        /\ ReadBytes(buf, len) = Queue!First(content, r)
    BY <1>5, <2>2, <2>3
  <2> HIDE DEF r
  <2>5. Queue!Take("read_packet", r)
    BY <2>3, <2>4 DEF Queue!Take
  <2> QED BY <2>4, <2>5 DEF Queue!QueueNext
<1>8. ASSUME NEW n \in 0..MaxCount, Toss(n)
      PROVE  Queue!QueueNext
  <2> DEFINE r == Reading(buf, n)
  <2>1. r \in 0..Len(content) /\ Queue!Pass(r)
    BY <1>2, <1>5, <1>8 DEF Toss
  <2>2. result' = [op |-> "toss", bytes |-> <<>>, ret |-> buf.used - r]
    BY <1>8 DEF Toss, Advanced, Buffer
  <2> HIDE DEF r
  <2>3. Queue!Drop(r)
    BY <1>1, <2>1, <2>2 DEF Queue!Drop
  <2> QED BY <2>1, <2>3 DEF Queue!QueueNext
<1>9. ASSUME NEW n \in 0..MaxCount, ReadLoop(n)
      PROVE  Queue!QueueNext
  <2> DEFINE len   == Reading(buf, n)
             gone  == Advanced(buf, n)
             again == Positioned(gone, 0)
             rest  == n - len
             k     == Reading(again, rest)
  <2>1. CASE ~(len < n /\ loops # 0)
    <3>1. /\ buf' = Advanced(buf, n)
          /\ result' = [op |-> "read_loop", bytes |-> ReadBytes(buf, n), ret |-> len]
      BY <2>1, <1>9 DEF ReadLoop
    <3>2. /\ len \in 0..Len(content) /\ Queue!Pass(len)
          /\ ReadBytes(buf, n) = Queue!First(content, len)
      BY <1>2, <1>5, <3>1
    <3> HIDE DEF len
    <3>3. Queue!Take("read_loop", len)
      BY <3>1, <3>2 DEF Queue!Take
    <3> QED BY <3>2, <3>3 DEF Queue!QueueNext
  <2>2. CASE len < n /\ loops # 0
    <3>1. /\ buf' = Advanced(again, rest)
          /\ result' = [op |-> "read_loop", bytes |-> ReadBytes(buf, n) \o ReadBytes(again, rest),
                        ret |-> k]
      BY <2>2, <1>9 DEF ReadLoop
    <3>2. again = Positioned(buf, 0)
      BY DEF Advanced, Positioned, Buffer
    <3>3. /\ Sound(again) /\ Content(again) = Queue!Rest(Queue!All, 0)
          /\ Behind(again) = Queue!First(Queue!All, 0)
      <4>1. buf.actually_used \in Nat
        BY <1>0 DEF Sound, IsBuffer
      <4>2. 0 \in Nat /\ 0 <= buf.actually_used
        BY <4>1
      <4> QED BY <1>0, <3>2, <4>2, PositionedSound, PositionedView DEF Queue!All
    <3>4. Queue!All \in Seq(Byte)
      BY <1>0, Whole DEF Queue!All
    <3>5. Content(again) = Queue!All /\ Behind(again) = <<>>
      <4>1. Queue!Rest(Queue!All, 0) = Queue!All
        BY <3>4 DEF Queue!Rest
      <4>2. Queue!First(Queue!All, 0) = <<>>
        BY <3>4 DEF Queue!First
      <4> QED BY <3>3, <4>1, <4>2
    <3>6. len \in Nat /\ len = Len(content) /\ ReadBytes(buf, n) = content
      <4>1. len \in Nat /\ len = Len(content)
        BY <1>1, <1>2, <2>2 DEF Reading, Min2
      <4>2. ReadBytes(buf, n) = Queue!First(content, len)
        BY <1>0, <1>2, AdvancedView
      <4>3. Queue!First(content, Len(content)) = content
        BY <1>1 DEF Queue!First
      <4> QED BY <4>1, <4>2, <4>3
    <3>7. rest \in Nat /\ rest <= n
      BY <1>2, <2>2, <3>6
    <3> HIDE DEF again, rest
    <3>8. /\ k \in 0..Len(Queue!All)
          /\ Behind(Advanced(again, rest)) = <<>> \o Queue!First(Queue!All, k)
          /\ Content(Advanced(again, rest)) = Queue!Rest(Queue!All, k)
          /\ ReadBytes(again, rest) = Queue!First(Queue!All, k)
      BY <3>3, <3>5, <3>7, AdvancedView
    <3>9. k \in Nat /\ k <= rest
      BY <3>3, <3>7, ReadingBounds
    <3> HIDE DEF k
    <3>10. <<>> \o Queue!First(Queue!All, k) = Queue!First(Queue!All, k)
      BY <3>4, <3>8, Parts
    <3>11. k \in 0..MaxCount /\ k <= Len(Queue!All)
      BY <1>2, <3>7, <3>8, <3>9, SizeAssumption
    <3>12. Queue!SetTo(k)
      BY <3>1, <3>8, <3>10, NextViews DEF Queue!SetTo
    <3>13. Queue!TakeAround(k)
      BY <3>1, <3>6, <3>8, <3>12 DEF Queue!TakeAround
    <3> QED BY <3>11, <3>13 DEF Queue!QueueNext
  <2> QED BY <2>1, <2>2
<1>10. ASSUME NEW n \in 0..MaxCount, Seek(n)
       PROVE  Queue!QueueNext
  <2> DEFINE pos == Reading(buf, n)
  <2>1. pos \in Nat /\ pos <= buf.used
    BY <1>0, <1>2, ReadingBounds
  <2>2. /\ buf' = IF buf.used < 1 THEN buf ELSE Positioned(buf, pos)
        /\ result' = [op |-> "seek", bytes |-> <<>>, ret |-> pos]
    BY <1>10 DEF Seek
  <2> HIDE DEF pos
  <2>3. CASE content = <<>>
    <3>1. buf' = buf
      BY <1>1, <2>2, <2>3
    <3>2. Content(buf)' = content /\ Behind(buf)' = passed
      BY <3>1, NextViews
    <3> QED BY <1>1, <2>1, <2>2, <2>3, <3>2 DEF Queue!Rewind, Queue!QueueNext
  <2>4. CASE content # <<>>
    <3>1. buf' = Positioned(buf, pos)
      BY <1>1, <2>2, <2>4
    <3>2. pos <= buf.actually_used
      BY <1>0, <2>1 DEF Sound, IsBuffer, InBounds
    <3>3. Queue!SetTo(pos)
      BY <1>0, <2>1, <3>1, <3>2, PositionedView, NextViews DEF Queue!SetTo, Queue!All
    <3>4. Queue!Rewind(pos)
      BY <2>2, <2>4, <3>3 DEF Queue!Rewind
    <3> QED BY <1>1, <2>1, <3>4 DEF Queue!QueueNext
  <2> QED BY <2>3, <2>4
<1>11. CASE Zero
  <2>1. Content(buf)' = <<>> /\ Behind(buf)' = <<>>
    BY <1>0, <1>11, ZeroedView, NextViews DEF Zero
  <2>2. Queue!Clear
    BY <1>11, <2>1 DEF Zero, Queue!Clear
  <2> QED BY <2>2 DEF Queue!QueueNext
<1>12. ASSUME buf' = buf
       PROVE  content' = content /\ passed' = passed
  BY <1>12, NextViews
<1>13. ASSUME NEW n \in {-1, 0, 1}, SetLoops(n)
       PROVE  Queue!QueueNext
  BY <1>12, <1>13 DEF SetLoops, Queue!Look, Queue!QueueNext
<1>14. CASE PacketCount
  BY <1>12, <1>14 DEF PacketCount, Queue!Look, Queue!QueueNext
<1>15. CASE UNCHANGED vars
  BY <1>12, <1>15 DEF vars, Queue!queueVars
<1> QED BY <1>3, <1>4, <1>6, <1>7, <1>8, <1>9, <1>10, <1>11, <1>13, <1>14, <1>15 DEF Next

LEMMA QueueStart ==
  ASSUME Init
  PROVE  Queue!QueueInit
BY DEF Init, Queue!QueueInit, Buffer, Content, Behind

\* The buffer without a length limit implements the rewindable queue, for every
\* block size, start length and chunk, and however often growing fails.
THEOREM BufferIsQueue ==
  ASSUME MaxLen = 0
  PROVE  Spec => QueueRefinement
<1>1. Init => Queue!QueueInit
  BY QueueStart
<1>2. IInv /\ [Next]_vars => [Queue!QueueNext]_(Queue!queueVars)
  BY QueueStep
<1>3. Init => IInv
  BY IInvInit
<1>4. IInv /\ [Next]_vars => IInv'
  BY IInvNext
<1> QED BY <1>1, <1>2, <1>3, <1>4, PTL DEF Spec, QueueRefinement, Queue!QueueSpec
=============================================================================
