------------------------------ MODULE G722Proofs ------------------------------
(* Encoder and decoder follow each other, their filters stay stable, every code *)
(* arrives as it was made, and at the full rate is decoded to what it was made  *)
(* of: for every input, any rates, packed and not, and any number of codes on   *)
(* their way.                                                                   *)
EXTENDS G722Codec, WellFoundedInduction, TLAPS

IsBand(g) == g.a[1] \in Int /\ g.a[2] \in Int /\ g.nb \in Int

\* What is sent stands for: the bands after the code.
Followed(bands, code, eight) ==
    [low |-> EncLowBand(bands.low, code.low),
     high |-> IF eight THEN bands.high ELSE EncHighBand(bands.high, code.high)]
IsCode(c, bits) == /\ c.low \in 0..63 /\ c.high \in 0..3
                   /\ c.bits = (c.high * 64 + c.low) \div Dropped(bits)

-----------------------------------------------------------------------------
LEMMA SaturateInt == ASSUME NEW v \in Int PROVE Saturate(v) \in Int
BY DEF Saturate

Clamp(w) == IF w > 12288 THEN 12288 ELSE IF w < -12288 THEN -12288 ELSE w
LEMMA ClampInt ==
  ASSUME NEW w \in Int PROVE Clamp(w) \in Int /\ -12288 <= Clamp(w) /\ Clamp(w) <= 12288
BY DEF Clamp

\* The second pole: the decoder adds in another order.
LEMMA Uppol2Agree ==
  ASSUME NEW g, IsBand(g), NEW p
  PROVE  /\ EncUppol2(g, p) = DecUppol2(g, p)
         /\ EncUppol2(g, p) \in Int /\ -12288 <= EncUppol2(g, p) /\ EncUppol2(g, p) <= 12288
<1> DEFINE wd1 == Saturate(g.a[1] * 4)
           wd2 == IF p \div 32768 = g.p[1] \div 32768
                  THEN IF -wd1 > 32767 THEN 32767 ELSE -wd1 ELSE wd1
           x == wd2 \div 128
           y == IF p \div 32768 = g.p[2] \div 32768 THEN 128 ELSE -128
           z == (g.a[2] * 32512) \div 32768
<1>1. wd1 \in Int
  BY SaturateInt DEF IsBand
<1>2. wd2 \in Int
  BY <1>1
<1>3. x \in Int /\ y \in Int /\ z \in Int
  BY <1>2 DEF IsBand
<1>4. EncUppol2(g, p) = Clamp(x + y + z) /\ DecUppol2(g, p) = Clamp(y + x + z)
  BY DEF EncUppol2, DecUppol2, Clamp
<1> HIDE DEF x, y, z
<1>5. x + y + z = y + x + z /\ x + y + z \in Int
  BY <1>3
<1>7. Clamp(x + y + z) \in Int /\ -12288 <= Clamp(x + y + z) /\ Clamp(x + y + z) <= 12288
  BY <1>5, ClampInt
<1> QED BY <1>4, <1>5, <1>7

LEMMA Uppol1Agree ==
  ASSUME NEW g, IsBand(g), NEW p, NEW a2 \in Int, -12288 <= a2, a2 <= 12288
  PROVE  /\ EncUppol1(g, p, a2) = DecUppol1(g, p, a2)
         /\ EncUppol1(g, p, a2) \in Int
         /\ a2 - 15360 <= EncUppol1(g, p, a2) /\ EncUppol1(g, p, a2) <= 15360 - a2
<1> DEFINE wd1 == IF p \div 32768 = g.p[1] \div 32768 THEN 192 ELSE -192
           ap == Saturate(wd1 + (g.a[1] * 32640) \div 32768)
<1>1. ap \in Int
  <2>1. wd1 \in Int /\ (g.a[1] * 32640) \div 32768 \in Int
    BY DEF IsBand
  <2> HIDE DEF wd1
  <2> QED BY <2>1, SaturateInt
<1>2. Saturate(15360 - a2) = 15360 - a2
  <2>1. 15360 - a2 \in Int /\ 3072 <= 15360 - a2 /\ 15360 - a2 <= 27648
    OBVIOUS
  <2> QED BY <2>1 DEF Saturate
<1>3. EncUppol1(g, p, a2) = DecUppol1(g, p, a2)
  BY DEF EncUppol1, DecUppol1
<1>4. EncUppol1(g, p, a2) = IF ap > 15360 - a2 THEN 15360 - a2 ELSE IF ap < -(15360 - a2) THEN -(15360 - a2) ELSE ap
  BY <1>2 DEF EncUppol1
<1> DEFINE b == 15360 - a2
           r == IF ap > b THEN b ELSE IF ap < -b THEN -b ELSE ap
<1>5. b \in Int /\ 0 <= b
  OBVIOUS
<1>6. r \in Int /\ -b <= r /\ r <= b
  <2> HIDE DEF ap, b
  <2> QED BY <1>1, <1>5
<1>7. EncUppol1(g, p, a2) = r /\ a2 - 15360 = -b
  BY <1>4
<1> HIDE DEF r, b
<1> QED BY <1>3, <1>5, <1>6, <1>7 DEF b

\* Block 4 of both files, and what it keeps.
LEMMA Block4Agree ==
  ASSUME NEW g, IsBand(g), DOMAIN g = DOMAIN Silent(0), NEW d
  PROVE  /\ EncBlock4(g, d) = DecBlock4(g, d)
         /\ DOMAIN EncBlock4(g, d) = DOMAIN g
         /\ EncBlock4(g, d).nb = g.nb
         /\ EncBlock4(g, d).a[1] \in Int /\ EncBlock4(g, d).a[2] \in Int
         /\ \A limit : 0 <= g.nb /\ g.nb <= limit => StableBand(EncBlock4(g, d), limit)
<1> DEFINE p0 == Saturate(g.sz + d)
           a2 == EncUppol2(g, p0)
           a1 == EncUppol1(g, p0, a2)
           an == <<a1, a2>>
<1> HIDE DEF p0
<1>1. a2 = DecUppol2(g, p0) /\ a2 \in Int /\ -12288 <= a2 /\ a2 <= 12288
  BY Uppol2Agree
<1> HIDE DEF a2
<1>2. /\ a1 = DecUppol1(g, p0, a2)
      /\ a1 \in Int /\ a2 - 15360 <= a1 /\ a1 <= 15360 - a2
  BY <1>1, Uppol1Agree
<1>3. \A i : EncUpzero(g, d, i) = DecUpzero(g, d, i)
  BY DEF EncUpzero, DecUpzero
<1>4. \A a, r : EncFiltep(a, r) = DecFiltep(a, r)
  BY DEF EncFiltep, DecFiltep
<1>5. \A b, e : EncFiltez(b, e) = DecFiltez(b, e)
  BY DEF EncFiltez, DecFiltez, EncTap, DecTap
<1>6. EncBlock4(g, d) = DecBlock4(g, d)
  <2> DEFINE bn == [i \in 1..6 |-> EncUpzero(g, d, i)]
             dn == [i \in 1..6 |-> IF i = 1 THEN d ELSE g.d[i - 1]]
             rn == <<Saturate(g.s + d), g.r[1]>>
             sz == EncFiltez(bn, dn)
             Block(A, B, z) == [g EXCEPT !.p = <<p0, g.p[1]>>, !.a = A, !.r = rn, !.b = B, !.d = dn,
                                         !.sz = z, !.s = Saturate(EncFiltep(A, rn) + z)]
  <2>1. [i \in 1..6 |-> DecUpzero(g, d, i)] = bn
    BY <1>3
  <2>2. DecFiltez(bn, dn) = sz
    BY <1>5
  <2>3. DecFiltep(an, rn) = EncFiltep(an, rn)
    BY <1>4
  <2>4. EncBlock4(g, d) = Block(an, bn, sz)
    BY DEF EncBlock4, p0, a2
  <2>5. an = <<DecUppol1(g, p0, DecUppol2(g, p0)), DecUppol2(g, p0)>>
    <3>1. a2 = DecUppol2(g, p0) /\ a1 = DecUppol1(g, p0, a2)
      BY <1>1, <1>2
    <3> HIDE DEF a1
    <3> QED BY <3>1
  <2>6. DecBlock4(g, d) = Block(an, bn, sz)
    BY <2>1, <2>2, <2>3, <2>5, Zenon DEF DecBlock4, p0
  <2> QED BY <2>4, <2>6
<1>7. /\ DOMAIN EncBlock4(g, d) = DOMAIN g
      /\ EncBlock4(g, d).nb = g.nb
      /\ EncBlock4(g, d).a = an
  BY DEF EncBlock4, Silent, p0, a2
<1> HIDE DEF a1
<1>8. an[1] = a1 /\ an[2] = a2
  OBVIOUS
<1> HIDE DEF an
<1>9. EncBlock4(g, d).a[1] = a1 /\ EncBlock4(g, d).a[2] = a2
  BY <1>7, <1>8
<1> QED BY <1>1, <1>2, <1>6, <1>7, <1>9 DEF StableBand

-----------------------------------------------------------------------------
\* A band with its limit, as every pass leaves it.
GoodBand(g, limit) == DOMAIN g = DOMAIN Silent(0) /\ IsBand(g) /\ StableBand(g, limit)

LEMMA LogsclAgree ==
  ASSUME NEW nb \in Int, NEW w \in Int, NEW limit \in Nat
  PROVE  /\ EncLogscl(nb, w, limit) = DecLogscl(nb, w, limit)
         /\ EncLogscl(nb, w, limit) \in Int
         /\ 0 <= EncLogscl(nb, w, limit) /\ EncLogscl(nb, w, limit) <= limit
BY DEF EncLogscl, DecLogscl

LEMMA ScaleAgree == ASSUME NEW nb, NEW shift PROVE EncScale(nb, shift) = DecScale(nb, shift)
BY DEF EncScale, DecScale

\* The scale factor of a band changes, and block 4 follows.
EncStep(g, w, limit, shift, d) ==
    LET e == EncLogscl(g.nb, w, limit)
    IN  EncBlock4([g EXCEPT !.nb = e, !.det = EncScale(e, shift)], d)
DecStep(g, w, limit, shift, d) ==
    LET f == DecLogscl(g.nb, w, limit)
    IN  DecBlock4([g EXCEPT !.nb = f, !.det = DecScale(f, shift)], d)

LEMMA StepAgree ==
  ASSUME NEW g, NEW limit \in Nat, GoodBand(g, limit), NEW w \in Int, NEW shift, NEW d
  PROVE  /\ EncStep(g, w, limit, shift, d) = DecStep(g, w, limit, shift, d)
         /\ GoodBand(EncStep(g, w, limit, shift, d), limit)
<1> DEFINE e == EncLogscl(g.nb, w, limit)
           k == [g EXCEPT !.nb = e, !.det = EncScale(e, shift)]
<1>1. /\ e = DecLogscl(g.nb, w, limit)
      /\ e \in Int /\ 0 <= e /\ e <= limit
  BY LogsclAgree DEF GoodBand, IsBand
<1> HIDE DEF e
<1>2. EncScale(e, shift) = DecScale(e, shift)
  BY ScaleAgree
<1>3. DOMAIN k = DOMAIN Silent(0) /\ k.nb = e /\ k.a = g.a
  BY DEF GoodBand, Silent
<1>4. k = [g EXCEPT !.nb = DecLogscl(g.nb, w, limit), !.det = DecScale(DecLogscl(g.nb, w, limit), shift)]
  BY <1>1, <1>2
<1> HIDE DEF k
<1>5. IsBand(k)
  BY <1>1, <1>3 DEF IsBand, GoodBand
<1>6. /\ EncBlock4(k, d) = DecBlock4(k, d)
      /\ DOMAIN EncBlock4(k, d) = DOMAIN Silent(0)
      /\ EncBlock4(k, d).nb = e
      /\ EncBlock4(k, d).a[1] \in Int /\ EncBlock4(k, d).a[2] \in Int
      /\ StableBand(EncBlock4(k, d), limit)
  BY <1>1, <1>3, <1>5, Block4Agree
<1>7. GoodBand(EncBlock4(k, d), limit)
  BY <1>1, <1>6 DEF GoodBand, IsBand
<1>8. k = [g EXCEPT !.nb = EncLogscl(g.nb, w, limit), !.det = EncScale(EncLogscl(g.nb, w, limit), shift)]
  BY DEF k, e
<1> QED BY <1>4, <1>6, <1>7, <1>8 DEF EncStep, DecStep

LEMMA LowBandAgree ==
  ASSUME NEW g, GoodBand(g, 18432), NEW ilow \in 0..63
  PROVE  /\ EncLowBand(g, ilow) = DecLowBand(g, ilow \div 4)
         /\ GoodBand(EncLowBand(g, ilow), 18432)
<1> DEFINE ril == ilow \div 4
<1>1. ril \in 0..15
  OBVIOUS
<1> HIDE DEF ril
<1>2. rl42[ril + 1] \in 0..7
  BY <1>1 DEF rl42
<1>3. \A i \in 0..7 : wl[i + 1] \in Int
  BY DEF wl
<1>4. wl[rl42[ril + 1] + 1] \in Int
  BY <1>2, <1>3
<1> DEFINE w == wl[rl42[ril + 1] + 1]
           d == (g.det * qm4[ril + 1]) \div 32768
<1>a. EncLowBand(g, ilow) = EncStep(g, w, 18432, 8, d)
  BY DEF EncLowBand, EncStep, ril
<1>b. DecLowBand(g, ilow \div 4) = DecStep(g, w, 18432, 8, d)
  BY DEF DecLowBand, DecStep, ril
<1> HIDE DEF w, d
<1>c. w \in Int
  BY <1>4 DEF w
<1>d. /\ EncStep(g, w, 18432, 8, d) = DecStep(g, w, 18432, 8, d)
      /\ GoodBand(EncStep(g, w, 18432, 8, d), 18432)
  BY <1>c, StepAgree
<1> QED BY <1>a, <1>b, <1>d

LEMMA HighBandAgree ==
  ASSUME NEW g, GoodBand(g, 22528), NEW ihigh \in 0..3
  PROVE  /\ EncHighBand(g, ihigh) = DecHighBand(g, ihigh)
         /\ GoodBand(EncHighBand(g, ihigh), 22528)
<1>1. rh2[ihigh + 1] \in 1..2
  BY DEF rh2
<1>2. wh[2] \in Int /\ wh[3] \in Int
  BY DEF wh
<1>3. wh[rh2[ihigh + 1] + 1] \in Int
  BY <1>1, <1>2
<1> DEFINE w == wh[rh2[ihigh + 1] + 1]
           d == (g.det * qm2[ihigh + 1]) \div 32768
<1>a. EncHighBand(g, ihigh) = EncStep(g, w, 22528, 10, d)
  BY DEF EncHighBand, EncStep
<1>b. DecHighBand(g, ihigh) = DecStep(g, w, 22528, 10, d)
  BY DEF DecHighBand, DecStep
<1> HIDE DEF w, d
<1>c. w \in Int
  BY <1>3 DEF w
<1>d. /\ EncStep(g, w, 22528, 10, d) = DecStep(g, w, 22528, 10, d)
      /\ GoodBand(EncStep(g, w, 22528, 10, d), 22528)
  BY <1>c, StepAgree
<1> QED BY <1>a, <1>b, <1>d

-----------------------------------------------------------------------------
\* The codes: the decoder takes them apart as the encoder put them together.
LEMMA LeastExists == ASSUME NEW S, S \subseteq Nat, S # {} PROVE \E i \in S : \A j \in S : i <= j
<1>1. PICK i \in S : \A j \in S : ~(<<j, i>> \in OpToRel(<, Nat))
  BY WFMin, NatLessThanWellFounded
<1>2. \A x, y \in Nat : x < y => <<x, y>> \in OpToRel(<, Nat)
  BY DEF OpToRel
<1>3. ASSUME NEW j \in S PROVE i <= j
  <2>1. i \in Nat /\ j \in Nat
    OBVIOUS
  <2>2. ~(j < i)
    BY <1>1, <1>2, <2>1
  <2> QED BY <2>1, <2>2
<1> QED BY <1>3

LEMMA IndexRange == ASSUME NEW e, NEW det PROVE EncIndex(e, det) \in 1..30
<1> DEFINE below == {i \in 1..29 : Magnitude(e) < (q6[i] * det) \div 4096} \cup {30}
<1>1. below \subseteq Nat /\ below \subseteq 1..30 /\ below # {}
  OBVIOUS
<1>2. EncIndex(e, det) = CHOOSE i \in below : \A j \in below : i <= j
  BY DEF EncIndex
<1> HIDE DEF below
<1>3. \E i \in below : \A j \in below : i <= j
  BY <1>1, LeastExists
<1> QED BY <1>1, <1>2, <1>3

LEMMA LowRange == ASSUME NEW e, NEW det PROVE EncLow(e, det) \in 0..63
<1>1. \A i \in 1..30 : iln[i] \in 0..63
  BY DEF iln
<1>2. \A i \in 1..30 : ilp[i] \in 0..63
  BY DEF ilp
<1> QED BY <1>1, <1>2, IndexRange DEF EncLow

LEMMA HighRange == ASSUME NEW e, NEW det PROVE EncHigh(e, det) \in 0..3
BY DEF EncHigh, ihn, ihp

LEMMA CodeMade == ASSUME NEW s, NEW in PROVE IsCode(EncCode(s, in), s.bits)
<1> DEFINE ilow == EncLow(Saturate(in.low - s.low.s), s.low.det)
           ihigh == IF s.eight_k THEN 3 ELSE EncHigh(Saturate(in.high - s.high.s), s.high.det)
<1>1. ilow \in 0..63
  BY LowRange
<1>2. ihigh \in 0..3
  BY HighRange
<1> HIDE DEF ilow, ihigh
<1>3. EncCode(s, in) = [low |-> ilow, high |-> ihigh, bits |-> (ihigh * 64 + ilow) \div Dropped(s.bits)]
  BY DEF EncCode, ilow, ihigh
<1> QED BY <1>1, <1>2, <1>3 DEF IsCode

LEMMA PartsTaken ==
  ASSUME NEW bits \in {6, 7, 8}, NEW c, IsCode(c, bits)
  PROVE  DecParts(bits, c.bits).high = c.high /\ DecParts(bits, c.bits).ril = c.low \div 4
<1> DEFINE l == c.low
           h == c.high
<1>0. l \in 0..63 /\ h \in 0..3 /\ c.bits = (h * 64 + l) \div Dropped(bits)
  BY DEF IsCode
<1> HIDE DEF l, h
<1>1. CASE bits = 8
  <2>1. c.bits = h * 64 + l
    BY <1>0, <1>1 DEF Dropped
  <2>2. (c.bits \div 64) % 4 = h /\ c.bits % 64 = l
    BY <1>0, <2>1
  <2> QED BY <1>1, <2>2 DEF DecParts, l, h
<1>2. CASE bits = 7
  <2>1. c.bits = h * 32 + l \div 2
    BY <1>0, <1>2 DEF Dropped
  <2>2. (c.bits \div 32) % 4 = h /\ c.bits % 32 = l \div 2 /\ (l \div 2) \div 2 = l \div 4
    BY <1>0, <2>1
  <2> QED BY <1>2, <2>2 DEF DecParts, l, h
<1>3. CASE bits = 6
  <2>1. c.bits = h * 16 + l \div 4
    BY <1>0, <1>3 DEF Dropped
  <2>2. (c.bits \div 16) % 4 = h /\ c.bits % 16 = l \div 4
    BY <1>0, <2>1
  <2> QED BY <1>3, <2>2 DEF DecParts, l, h
<1> QED BY <1>1, <1>2, <1>3

-----------------------------------------------------------------------------
\* Sequences of anything.
IsSeq(s) == \E S : s \in Seq(S)

LEMMA EmptyIsSeq == IsSeq(<<>>)
BY DEF IsSeq

LEMMA AppendSeq ==
  ASSUME NEW s, IsSeq(s), NEW x
  PROVE  /\ IsSeq(Append(s, x)) /\ Len(s) \in Nat /\ Len(Append(s, x)) = Len(s) + 1
         /\ \A i \in 1..Len(s) : Append(s, x)[i] = s[i]
         /\ Append(s, x)[Len(s) + 1] = x
         /\ s \o <<x>> = Append(s, x)
<1>1. PICK S : s \in Seq(S)
  BY DEF IsSeq
<1>2. s \in Seq(S \cup {x})
  BY <1>1
<1> DEFINE T == S \cup {x}
<1>3. x \in T
  OBVIOUS
<1> HIDE DEF T
<1>4. Append(s, x) \in Seq(T)
  BY <1>2, <1>3 DEF T
<1>5. s \o <<x>> = Append(s, x)
  BY <1>2, <1>3 DEF T
<1> QED BY <1>2, <1>3, <1>4, <1>5 DEF IsSeq, T

LEMMA TailSeq ==
  ASSUME NEW s, IsSeq(s), Len(s) # 0
  PROVE  /\ IsSeq(Tail(s)) /\ Len(Tail(s)) = Len(s) - 1 /\ Len(s) \in Nat \ {0}
         /\ \A i \in 1..(Len(s) - 1) : Tail(s)[i] = s[i + 1]
         /\ Head(s) = s[1]
<1>1. PICK S : s \in Seq(S)
  BY DEF IsSeq
<1>2. s # <<>>
  BY <1>1
<1> QED BY <1>1, <1>2 DEF IsSeq

-----------------------------------------------------------------------------
\* Packed codes: what of the stream of codes is found in the bits of a byte.
LEMMA Powers ==
  /\ 2 ^ 0 = 1 /\ 2 ^ 1 = 2 /\ 2 ^ 2 = 4 /\ 2 ^ 3 = 8 /\ 2 ^ 4 = 16 /\ 2 ^ 5 = 32 /\ 2 ^ 6 = 64 /\ 2 ^ 7 = 128
  /\ 2 ^ 8 = 256 /\ 2 ^ 9 = 512 /\ 2 ^ 10 = 1024 /\ 2 ^ 11 = 2048 /\ 2 ^ 12 = 4096 /\ 2 ^ 13 = 8192 /\ 2 ^ 14 = 16384
OBVIOUS

Spread(x, y, z, b, r) == x \div 2 ^ r + y * 2 ^ (b - r) + z * 2 ^ (2 * b - r)
Byte(v) == v % 256
Whole(v) == \E z \in Nat : v = 256 * z
Window(c, b, p) == Byte(Spread(c[p \div b], c[p \div b + 1], c[p \div b + 2], b, p % b))

LEMMA Place ==
  ASSUME NEW b \in {6, 7}, NEW k \in Nat, NEW r \in Nat, r < b
  PROVE  (k * b + r) \div b = k /\ (k * b + r) % b = r
<1>1. CASE b = 6 
 BY <1>1
<1>2. CASE b = 7
 BY <1>2
<1> QED BY <1>1, <1>2

LEMMA Placed ==
  ASSUME NEW b \in {6, 7}, NEW p \in Nat
  PROVE  /\ p \div b \in Nat /\ p % b \in Nat /\ p % b < b /\ p = (p \div b) * b + (p % b)
         /\ (p + b) \div b = p \div b + 1 /\ (p + b) % b = p % b
<1>1. CASE b = 6
  <2>1. p \div 6 \in Nat /\ p % 6 \in Nat /\ p % 6 < 6
    OBVIOUS
  <2>2. p = (p \div 6) * 6 + (p % 6)
    OBVIOUS
  <2>3. (p + 6) \div 6 = p \div 6 + 1 /\ (p + 6) % 6 = p % 6
    OBVIOUS
  <2> QED BY <1>1, <2>1, <2>2, <2>3, Zenon
<1>2. CASE b = 7
  <2>1. p \div 7 \in Nat /\ p % 7 \in Nat /\ p % 7 < 7
    OBVIOUS
  <2>2. p = (p \div 7) * 7 + (p % 7)
    OBVIOUS
  <2>3. (p + 7) \div 7 = p \div 7 + 1 /\ (p + 7) % 7 = p % 7
    OBVIOUS
  <2> QED BY <1>2, <2>1, <2>2, <2>3, Zenon
<1> QED BY <1>1, <1>2
LEMMA Multiple ==
  ASSUME NEW y \in Nat, NEW m \in 8..14
  PROVE  Whole(y * 2 ^ m)
<1>1. m = 8 \/ m = 9 \/ m = 10 \/ m = 11 \/ m = 12 \/ m = 13 \/ m = 14
  OBVIOUS
<1>2. \E q \in Nat : 2 ^ m = 256 * q
  <2>1. \A q \in Nat : 2 ^ m = 256 * q => \E i \in Nat : 2 ^ m = 256 * i
    OBVIOUS
  <2>2. m = 8 => 2 ^ m = 256 * 1
    BY Powers
  <2>3. m = 9 => 2 ^ m = 256 * 2
    BY Powers
  <2>4. m = 10 => 2 ^ m = 256 * 4
    BY Powers
  <2>5. m = 11 => 2 ^ m = 256 * 8
    BY Powers
  <2>6. m = 12 => 2 ^ m = 256 * 16
    BY Powers
  <2>7. m = 13 => 2 ^ m = 256 * 32
    BY Powers
  <2>8. m = 14 => 2 ^ m = 256 * 64
    BY Powers
  <2>9. \/ 2 ^ m = 256 * 1 \/ 2 ^ m = 256 * 2 \/ 2 ^ m = 256 * 4 \/ 2 ^ m = 256 * 8 \/ 2 ^ m = 256 * 16 \/ 2 ^ m = 256 * 32
        \/ 2 ^ m = 256 * 64
    BY <1>1, <2>2, <2>3, <2>4, <2>5, <2>6, <2>7, <2>8, Zenon
  <2> QED BY <2>1, <2>9
<1>3. PICK q \in Nat : 2 ^ m = 256 * q
  BY <1>2
<1>4. PICK z \in Nat : z = y * q
  OBVIOUS
<1>5. y * (256 * q) = 256 * z
  BY <1>4
<1> QED BY <1>3, <1>5 DEF Whole

LEMMA PowerNat == ASSUME NEW i \in 0..14 PROVE 2 ^ i \in Nat \ {0}
<1> DEFINE q == 2 ^ i
<1>1. i = 0 => 2 ^ i = 1
  BY Powers
<1>2. i = 1 => 2 ^ i = 2
  BY Powers
<1>3. i = 2 => 2 ^ i = 4
  BY Powers
<1>4. i = 3 => 2 ^ i = 8
  BY Powers
<1>5. i = 4 => 2 ^ i = 16
  BY Powers
<1>6. i = 5 => 2 ^ i = 32
  BY Powers
<1>7. i = 6 => 2 ^ i = 64
  BY Powers
<1>8. i = 7 => 2 ^ i = 128
  BY Powers
<1>9. i = 8 => 2 ^ i = 256
  BY Powers
<1>10. i = 9 => 2 ^ i = 512
  BY Powers
<1>11. i = 10 => 2 ^ i = 1024
  BY Powers
<1>12. i = 11 => 2 ^ i = 2048
  BY Powers
<1>13. i = 12 => 2 ^ i = 4096
  BY Powers
<1>14. i = 13 => 2 ^ i = 8192
  BY Powers
<1>15. i = 14 => 2 ^ i = 16384
  BY Powers
<1>16. \/ q = 1 \/ q = 2 \/ q = 4 \/ q = 8 \/ q = 16 \/ q = 32 \/ q = 64 \/ q = 128 \/ q = 256 \/ q = 512
       \/ q = 1024 \/ q = 2048 \/ q = 4096 \/ q = 8192 \/ q = 16384
  <2>1. \/ i = 0 \/ i = 1 \/ i = 2 \/ i = 3 \/ i = 4 \/ i = 5 \/ i = 6 \/ i = 7 \/ i = 8 \/ i = 9 \/ i = 10 \/ i = 11
        \/ i = 12 \/ i = 13 \/ i = 14
    OBVIOUS
  <2> QED BY <1>1, <1>2, <1>3, <1>4, <1>5, <1>6, <1>7, <1>8, <1>9, <1>10, <1>11, <1>12, <1>13, <1>14, <1>15, <2>1
<1> HIDE DEF q
<1>17. q \in Nat \ {0}
  BY <1>16
<1> QED BY <1>17 DEF q

LEMMA Shifted == ASSUME NEW x \in Nat, NEW i \in 0..14 PROVE x \div 2 ^ i \in Nat /\ x * 2 ^ i \in Nat
<1>1. \A m \in Nat \ {0} : x \div m \in Nat /\ x * m \in Nat
  OBVIOUS
<1> QED BY <1>1, PowerNat, Zenon

LEMMA SpreadNat ==
  ASSUME NEW x \in Nat, NEW y \in Nat, NEW z \in Nat, NEW b \in {6, 7}, NEW r \in Nat, r < b
  PROVE  Spread(x, y, z, b, r) \in Nat
<1>1. r \in 0..14 /\ b - r \in 0..14 /\ 2 * b - r \in 0..14
  OBVIOUS
<1>2. x \div 2 ^ r \in Nat /\ y * 2 ^ (b - r) \in Nat /\ z * 2 ^ (2 * b - r) \in Nat
  BY <1>1, Shifted, Zenon
<1> QED BY <1>2 DEF Spread

LEMMA WindowNat ==
  ASSUME NEW b \in {6, 7}, NEW p \in Nat, NEW c \in [Nat -> Nat]
  PROVE  Window(c, b, p) \in 0..255
<1> DEFINE k == p \div b
           v == Spread(c[k], c[k + 1], c[k + 2], b, p % b)
<1>1. v \in Nat
  <2>1. k \in Nat /\ p % b \in Nat /\ p % b < b
    BY Placed
  <2> HIDE DEF k
  <2>2. c[k] \in Nat /\ c[k + 1] \in Nat /\ c[k + 2] \in Nat
    BY <2>1
  <2> QED BY <2>1, <2>2, SpreadNat
<1> HIDE DEF v
<1>2. v % 256 \in 0..255
  BY <1>1
<1> QED BY <1>2 DEF Window, Byte, v, k

\* The codes that begin after the byte do not count.
LEMMA WindowKept ==
  ASSUME NEW b \in {6, 7}, NEW n \in Nat, NEW c \in [Nat -> Nat], NEW d \in [Nat -> Nat],
         \A i \in Nat : i < n => d[i] = c[i],
         NEW p \in Nat, p + 8 <= b * n
  PROVE  Window(d, b, p) = Window(c, b, p)
<1> DEFINE k == p \div b
           r == p % b
<1>1. k \in Nat /\ r \in Nat /\ r < b /\ p = k * b + r
  BY Placed
<1> HIDE DEF k, r
<1>2. k + 1 < n /\ (k + 2 < n \/ 2 * b - r \in 8..14)
  <2>1. CASE b = 6
    BY <1>1, <2>1
  <2>2. CASE b = 7
    BY <1>1, <2>2
  <2> QED BY <2>1, <2>2
<1>3. k < n /\ k + 1 \in Nat /\ k + 2 \in Nat
  BY <1>1, <1>2
<1>4. d[k] = c[k] /\ d[k + 1] = c[k + 1]
  BY <1>1, <1>2, <1>3
<1>5. CASE k + 2 < n
  <2>1. d[k + 2] = c[k + 2]
    BY <1>3, <1>5
  <2> QED BY <1>4, <2>1 DEF Window, k
<1>6. CASE 2 * b - r \in 8..14
  <2> DEFINE x == c[k] \div 2 ^ r + c[k + 1] * 2 ^ (b - r)
  <2>1. x \in Nat
    <3>1. c[k] \in Nat /\ c[k + 1] \in Nat
      BY <1>1, <1>3
    <3>2. r \in 0..14 /\ b - r \in 0..14
      BY <1>1
    <3>3. c[k] \div 2 ^ r \in Nat /\ c[k + 1] * 2 ^ (b - r) \in Nat
      BY <3>1, <3>2, Shifted, Zenon
    <3> QED BY <3>3
  <2> HIDE DEF x
  <2>2. ASSUME NEW y \in Nat PROVE Byte(x + y * 2 ^ (2 * b - r)) = Byte(x)
    <3>1. Whole(y * 2 ^ (2 * b - r))
      BY <1>6, Multiple, Zenon
    <3>2. ASSUME NEW v, Whole(v) PROVE Byte(x + v) = Byte(x)
      BY <2>1, <3>2 DEF Whole, Byte
    <3> QED BY <3>1, <3>2, Zenon
  <2>3. c[k + 2] \in Nat /\ d[k + 2] \in Nat
    BY <1>3
  <2>4. Byte(x + c[k + 2] * 2 ^ (2 * b - r)) = Byte(x + d[k + 2] * 2 ^ (2 * b - r))
    BY <2>2, <2>3, Zenon
  <2>5. /\ Window(c, b, p) = Byte(x + c[k + 2] * 2 ^ (2 * b - r))
        /\ Window(d, b, p) = Byte(x + d[k + 2] * 2 ^ (2 * b - r))
    BY <1>4 DEF Window, Spread, k, r, x
  <2> QED BY <2>4, <2>5
<1> QED BY <1>2, <1>5, <1>6

\* A code less in front.
Drops(d, c) == \A i \in Nat : d[i] = c[i + 1]
LEMMA WindowShift ==
  ASSUME NEW b \in {6, 7}, NEW c, NEW d, Drops(d, c), NEW p \in Nat
  PROVE  Window(d, b, p) = Window(c, b, p + b)
<1> DEFINE k == p \div b
<1>1. k \in Nat /\ (p + b) \div b = k + 1 /\ (p + b) % b = p % b
  BY Placed
<1> HIDE DEF k
<1>2. k + 1 \in Nat /\ k + 2 \in Nat /\ (k + 1) + 1 = k + 2 /\ (k + 2) + 1 = (k + 1) + 2
  BY <1>1
<1>3. d[k] = c[k + 1] /\ d[k + 1] = c[(k + 1) + 1] /\ d[k + 2] = c[(k + 1) + 2]
  BY <1>1, <1>2 DEF Drops
<1> QED BY <1>1, <1>3 DEF Window, k

\* The codes of n samples, and nothing behind them.
IsCodes(c, b, n) == /\ c \in [Nat -> Nat] /\ \A i \in Nat : c[i] < 2 ^ b
                    /\ \A i \in Nat : n <= i => c[i] = 0

Adds(d, c, n, x) == d = [c EXCEPT ![n] = x]
\* p is where the o bits begin that are not yet put out of n codes.
Waiting(b, n, c, o, p) == b \in {6, 7} /\ n \in Nat /\ IsCodes(c, b, n) /\ o \in 0..7 /\ p \in Nat /\ p + o = b * n

LEMMA ByteTwice == ASSUME NEW x \in Nat, NEW y \in Nat PROVE Byte(Byte(x) + y) = Byte(x + y)
BY DEF Byte

\* The next code is added above the bits that are waiting.
LEMMA WindowAdded ==
  ASSUME NEW b, NEW n, NEW c, NEW o, NEW p, Waiting(b, n, c, o, p), NEW x \in Nat, NEW d, Adds(d, c, n, x)
  PROVE  Window(d, b, p) = Byte(Window(c, b, p) + x * 2 ^ o)
<1>0. b \in {6, 7} /\ n \in Nat /\ IsCodes(c, b, n) /\ o \in 0..7 /\ p \in Nat /\ p + o = b * n
  BY DEF Waiting
<1> DEFINE k == p \div b
           r == p % b
           C == Spread(c[k], c[k + 1], c[k + 2], b, r)
           D == Spread(d[k], d[k + 1], d[k + 2], b, r)
<1>1. k \in Nat /\ r \in Nat /\ r < b /\ p = k * b + r
  BY <1>0, Placed
<1>2. Window(c, b, p) = Byte(C) /\ Window(d, b, p) = Byte(D)
  BY DEF Window
<1> HIDE DEF k, r
<1>3. \/ n = k /\ r = 0 /\ o = 0
      \/ n = k + 1 /\ b - r = o
      \/ n = k + 2 /\ 2 * b - r = o
  <2>1. CASE b = 6
    BY <1>0, <1>1, <2>1
  <2>2. CASE b = 7
    BY <1>0, <1>1, <2>2
  <2> QED BY <1>0, <2>1, <2>2
<1>4. c \in [Nat -> Nat] /\ \A i \in Nat : n <= i => c[i] = 0
  BY <1>0 DEF IsCodes
<1>5. d[n] = x /\ \A i \in Nat : i # n => d[i] = c[i]
  BY <1>0, <1>4 DEF Adds
<1>6. k + 1 \in Nat /\ k + 2 \in Nat
  BY <1>1
<1>7. c[k] \in Nat /\ c[k + 1] \in Nat /\ c[k + 2] \in Nat
  BY <1>1, <1>4, <1>6
<1> DEFINE S == 2 ^ r
           T == 2 ^ (b - r)
           U == 2 ^ (2 * b - r)
<1>8. S \in Nat \ {0} /\ T \in Nat \ {0} /\ U \in Nat \ {0}
  <2>1. r \in 0..14 /\ b - r \in 0..14 /\ 2 * b - r \in 0..14
    BY <1>0, <1>1
  <2> QED BY <2>1, PowerNat, Zenon
<1>9. C = c[k] \div S + c[k + 1] * T + c[k + 2] * U /\ D = d[k] \div S + d[k + 1] * T + d[k + 2] * U
  BY DEF Spread
<1>a. c[k] \div S \in Nat /\ c[k + 1] * T \in Nat /\ c[k + 2] * U \in Nat /\ x * T \in Nat /\ x * U \in Nat
  <2>1. r \in 0..14 /\ b - r \in 0..14 /\ 2 * b - r \in 0..14
    BY <1>0, <1>1
  <2> QED BY <1>7, <2>1, Shifted, Zenon
<1>b. D = C + x * 2 ^ o /\ x * 2 ^ o \in Nat
  <2>1. CASE n = k /\ r = 0 /\ o = 0
    <3>1. c[k] = 0 /\ c[k + 1] = 0 /\ c[k + 2] = 0 /\ d[k] = x /\ d[k + 1] = 0 /\ d[k + 2] = 0
      <4>1. n <= k /\ n <= k + 1 /\ n <= k + 2 /\ k + 1 # n /\ k + 2 # n
        BY <1>0, <1>1, <2>1
      <4> QED BY <1>0, <1>1, <1>4, <1>5, <1>6, <2>1, <4>1
    <3>2. S = 1 /\ 2 ^ o = 1
      BY <2>1, Powers
    <3> HIDE DEF S, T, U, C, D
    <3>3. 0 * T = 0 /\ 0 * U = 0
      BY <1>8
    <3> QED BY <1>9, <3>1, <3>2, <3>3
  <2>2. CASE n = k + 1 /\ b - r = o
    <3>1. c[k + 1] = 0 /\ c[k + 2] = 0 /\ d[k] = c[k] /\ d[k + 1] = x /\ d[k + 2] = 0
      <4>1. n <= k + 1 /\ n <= k + 2 /\ k # n /\ k + 2 # n
        BY <1>0, <1>1, <2>2
      <4> QED BY <1>0, <1>1, <1>4, <1>5, <1>6, <2>2, <4>1
    <3>2. T = 2 ^ o
      BY <2>2
    <3> HIDE DEF S, T, U, C, D
    <3>3. 0 * T = 0 /\ 0 * U = 0
      BY <1>8
    <3>4. C = c[k] \div S /\ D = c[k] \div S + x * T
      BY <1>9, <1>a, <3>1, <3>3
    <3> QED BY <1>a, <3>2, <3>4
  <2>3. CASE n = k + 2 /\ 2 * b - r = o
    <3>1. c[k + 2] = 0 /\ d[k] = c[k] /\ d[k + 1] = c[k + 1] /\ d[k + 2] = x
      <4>1. n <= k + 2 /\ k # n /\ k + 1 # n
        BY <1>0, <1>1, <2>3
      <4> QED BY <1>0, <1>1, <1>4, <1>5, <1>6, <2>3, <4>1
    <3>2. U = 2 ^ o
      BY <2>3
    <3> HIDE DEF S, T, U, C, D
    <3>3. 0 * U = 0
      BY <1>8
    <3>4. C = c[k] \div S + c[k + 1] * T /\ D = c[k] \div S + c[k + 1] * T + x * U
      BY <1>9, <1>a, <3>1, <3>3
    <3> QED BY <1>a, <3>2, <3>4
  <2> QED BY <1>3, <2>1, <2>2, <2>3
<1>c. C \in Nat
  BY <1>0, <1>1, <1>7, SpreadNat
<1> HIDE DEF C, D
<1>d. Byte(C + x * 2 ^ o) = Byte(Byte(C) + x * 2 ^ o)
  BY <1>b, <1>c, ByteTwice
<1> QED BY <1>2, <1>b, <1>d

\* Behind the last code there is nothing, and of the last one the bits not put out yet.
LEMMA WindowEnd ==
  ASSUME NEW b \in {6, 7}, NEW n \in Nat, NEW c, IsCodes(c, b, n)
  PROVE  Window(c, b, b * n) = 0
<1>1. b * n \in Nat /\ (b * n) \div b = n /\ (b * n) % b = 0
  <2>1. CASE b = 6
    BY <2>1
  <2>2. CASE b = 7
    BY <2>2
  <2> QED BY <2>1, <2>2
<1>2. c[n] = 0 /\ c[n + 1] = 0 /\ c[n + 2] = 0
  BY DEF IsCodes
<1>3. Spread(0, 0, 0, b, 0) = 0
  <2>1. b - 0 = b /\ 2 * b - 0 = 2 * b /\ b \in 0..14 /\ 2 * b \in 0..14
    OBVIOUS
  <2>2. 2 ^ b \in Nat \ {0} /\ 2 ^ (2 * b) \in Nat \ {0}
    BY <2>1, PowerNat, Zenon
  <2>3. \A u \in Nat : 0 * u = 0
    OBVIOUS
  <2>4. 0 \div 2 ^ 0 = 0
    BY Powers
  <2> QED BY <2>1, <2>2, <2>3, <2>4 DEF Spread
<1>4. Byte(0) = 0
  BY DEF Byte
<1> QED BY <1>1, <1>2, <1>3, <1>4 DEF Window

LEMMA WindowLast ==
  ASSUME NEW b, NEW m, NEW c, NEW o, NEW p, Waiting(b, m, c, o, p), 0 < o, o < b, m # 0
  PROVE  Window(c, b, p) = Byte(c[m - 1] \div 2 ^ (b - o))
<1> DEFINE r == b - o
           n == m - 1
<1>0. /\ b \in {6, 7} /\ n \in Nat /\ IsCodes(c, b, n + 1) /\ p \in Nat /\ p + (b - r) = b * (n + 1)
      /\ r \in Nat /\ 1 <= r /\ r < b
  BY DEF Waiting
<1> HIDE DEF r, n
<1>1. p \div b = n /\ p % b = r
  <2>1. CASE b = 6
    BY <1>0, <2>1
  <2>2. CASE b = 7
    BY <1>0, <2>2
  <2> QED BY <1>0, <2>1, <2>2
<1>2. c[n] \in Nat /\ c[n + 1] = 0 /\ c[n + 2] = 0
  BY <1>0 DEF IsCodes
<1>3. r \in 0..14 /\ b - r \in 0..14 /\ 2 * b - r \in 0..14
  BY <1>0
<1>4. 2 ^ (b - r) \in Nat \ {0} /\ 2 ^ (2 * b - r) \in Nat \ {0} /\ c[n] \div 2 ^ r \in Nat
  BY <1>2, <1>3, PowerNat, Shifted, Zenon
<1>5. \A u \in Nat : 0 * u = 0 /\ u + 0 + 0 = u
  OBVIOUS
<1>6. Spread(c[n], 0, 0, b, r) = c[n] \div 2 ^ r
  BY <1>4, <1>5 DEF Spread
<1> QED BY <1>1, <1>2, <1>6 DEF Window, r, n

\* A code x above o bits u: what is left when a byte of it is put out.
Above8(v) == v \div 256
Stacks(b, o, x, u) == b \in {6, 7} /\ o \in 0..7 /\ x \in Nat /\ x < 2 ^ b /\ u \in Nat /\ u < 2 ^ o
LEMMA PackArithmetic ==
  ASSUME NEW b, NEW o, NEW x, NEW u, Stacks(b, o, x, u)
  PROVE  /\ o + b < 8 => u + x * 2 ^ o < 2 ^ (o + b) /\ Byte(u + x * 2 ^ o) = u + x * 2 ^ o
         /\ o + b >= 8 => Above8(u + x * 2 ^ o) < 2 ^ (o + b - 8)
         /\ o + b = 8 => Above8(u + x * 2 ^ o) = 0
         /\ o + b > 8 => Above8(u + x * 2 ^ o) = x \div 2 ^ (8 - o) /\ Byte(x \div 2 ^ (8 - o)) = x \div 2 ^ (8 - o)
<1>1. CASE b = 6 /\ o = 0
  <2>1. 2 ^ o = 1 /\ 2 ^ b = 64 /\ o + b = 6 /\ 2 ^ 6 = 64
    BY <1>1, Powers DEF Stacks
  <2>2. u + x * 1 < 64 /\ Byte(u + x * 1) = u + x * 1
    BY <2>1 DEF Byte, Stacks
  <2> QED BY <1>1, <2>1, <2>2
<1>2. CASE b = 6 /\ o = 1
  <2>1. 2 ^ o = 2 /\ 2 ^ b = 64 /\ o + b = 7 /\ 2 ^ 7 = 128
    BY <1>2, Powers DEF Stacks
  <2>2. u + x * 2 < 128 /\ Byte(u + x * 2) = u + x * 2
    BY <2>1 DEF Byte, Stacks
  <2> QED BY <1>2, <2>1, <2>2
<1>3. CASE b = 6 /\ o = 2
  <2>1. 2 ^ o = 4 /\ 2 ^ b = 64 /\ 2 ^ 0 = 1 /\ 2 ^ 6 = 64
    BY <1>3, Powers
  <2>2. o + b - 8 = 0 /\ 8 - o = 6
    BY <1>3
  <2>3. Above8(u + x * 4) = x \div 64 /\ x \div 64 < 1
    BY <2>1 DEF Above8, Stacks
  <2>4. x \div 64 = 0
    BY <2>1 DEF Stacks
  <2> QED BY <1>3, <2>1, <2>2, <2>3, <2>4
<1>4. CASE b = 6 /\ o = 3
  <2>1. 2 ^ o = 8 /\ 2 ^ b = 64 /\ 2 ^ 1 = 2 /\ 2 ^ 5 = 32
    BY <1>4, Powers
  <2>2. o + b - 8 = 1 /\ 8 - o = 5
    BY <1>4
  <2>3. Above8(u + x * 8) = x \div 32 /\ x \div 32 < 2
    BY <2>1 DEF Above8, Stacks
  <2>4. Byte(x \div 32) = x \div 32
    BY <2>1 DEF Byte, Stacks
  <2> QED BY <1>4, <2>1, <2>2, <2>3, <2>4
<1>5. CASE b = 6 /\ o = 4
  <2>1. 2 ^ o = 16 /\ 2 ^ b = 64 /\ 2 ^ 2 = 4 /\ 2 ^ 4 = 16
    BY <1>5, Powers
  <2>2. o + b - 8 = 2 /\ 8 - o = 4
    BY <1>5
  <2>3. Above8(u + x * 16) = x \div 16 /\ x \div 16 < 4
    BY <2>1 DEF Above8, Stacks
  <2>4. Byte(x \div 16) = x \div 16
    BY <2>1 DEF Byte, Stacks
  <2> QED BY <1>5, <2>1, <2>2, <2>3, <2>4
<1>6. CASE b = 6 /\ o = 5
  <2>1. 2 ^ o = 32 /\ 2 ^ b = 64 /\ 2 ^ 3 = 8 /\ 2 ^ 3 = 8
    BY <1>6, Powers
  <2>2. o + b - 8 = 3 /\ 8 - o = 3
    BY <1>6
  <2>3. Above8(u + x * 32) = x \div 8 /\ x \div 8 < 8
    BY <2>1 DEF Above8, Stacks
  <2>4. Byte(x \div 8) = x \div 8
    BY <2>1 DEF Byte, Stacks
  <2> QED BY <1>6, <2>1, <2>2, <2>3, <2>4
<1>7. CASE b = 6 /\ o = 6
  <2>1. 2 ^ o = 64 /\ 2 ^ b = 64 /\ 2 ^ 4 = 16 /\ 2 ^ 2 = 4
    BY <1>7, Powers
  <2>2. o + b - 8 = 4 /\ 8 - o = 2
    BY <1>7
  <2>3. Above8(u + x * 64) = x \div 4 /\ x \div 4 < 16
    BY <2>1 DEF Above8, Stacks
  <2>4. Byte(x \div 4) = x \div 4
    BY <2>1 DEF Byte, Stacks
  <2> QED BY <1>7, <2>1, <2>2, <2>3, <2>4
<1>8. CASE b = 6 /\ o = 7
  <2>1. 2 ^ o = 128 /\ 2 ^ b = 64 /\ 2 ^ 5 = 32 /\ 2 ^ 1 = 2
    BY <1>8, Powers
  <2>2. o + b - 8 = 5 /\ 8 - o = 1
    BY <1>8
  <2>3. Above8(u + x * 128) = x \div 2 /\ x \div 2 < 32
    BY <2>1 DEF Above8, Stacks
  <2>4. Byte(x \div 2) = x \div 2
    BY <2>1 DEF Byte, Stacks
  <2> QED BY <1>8, <2>1, <2>2, <2>3, <2>4
<1>9. CASE b = 7 /\ o = 0
  <2>1. 2 ^ o = 1 /\ 2 ^ b = 128 /\ o + b = 7 /\ 2 ^ 7 = 128
    BY <1>9, Powers DEF Stacks
  <2>2. u + x * 1 < 128 /\ Byte(u + x * 1) = u + x * 1
    BY <2>1 DEF Byte, Stacks
  <2> QED BY <1>9, <2>1, <2>2
<1>10. CASE b = 7 /\ o = 1
  <2>1. 2 ^ o = 2 /\ 2 ^ b = 128 /\ 2 ^ 0 = 1 /\ 2 ^ 7 = 128
    BY <1>10, Powers
  <2>2. o + b - 8 = 0 /\ 8 - o = 7
    BY <1>10
  <2>3. Above8(u + x * 2) = x \div 128 /\ x \div 128 < 1
    BY <2>1 DEF Above8, Stacks
  <2>4. x \div 128 = 0
    BY <2>1 DEF Stacks
  <2> QED BY <1>10, <2>1, <2>2, <2>3, <2>4
<1>11. CASE b = 7 /\ o = 2
  <2>1. 2 ^ o = 4 /\ 2 ^ b = 128 /\ 2 ^ 1 = 2 /\ 2 ^ 6 = 64
    BY <1>11, Powers
  <2>2. o + b - 8 = 1 /\ 8 - o = 6
    BY <1>11
  <2>3. Above8(u + x * 4) = x \div 64 /\ x \div 64 < 2
    BY <2>1 DEF Above8, Stacks
  <2>4. Byte(x \div 64) = x \div 64
    BY <2>1 DEF Byte, Stacks
  <2> QED BY <1>11, <2>1, <2>2, <2>3, <2>4
<1>12. CASE b = 7 /\ o = 3
  <2>1. 2 ^ o = 8 /\ 2 ^ b = 128 /\ 2 ^ 2 = 4 /\ 2 ^ 5 = 32
    BY <1>12, Powers
  <2>2. o + b - 8 = 2 /\ 8 - o = 5
    BY <1>12
  <2>3. Above8(u + x * 8) = x \div 32 /\ x \div 32 < 4
    BY <2>1 DEF Above8, Stacks
  <2>4. Byte(x \div 32) = x \div 32
    BY <2>1 DEF Byte, Stacks
  <2> QED BY <1>12, <2>1, <2>2, <2>3, <2>4
<1>13. CASE b = 7 /\ o = 4
  <2>1. 2 ^ o = 16 /\ 2 ^ b = 128 /\ 2 ^ 3 = 8 /\ 2 ^ 4 = 16
    BY <1>13, Powers
  <2>2. o + b - 8 = 3 /\ 8 - o = 4
    BY <1>13
  <2>3. Above8(u + x * 16) = x \div 16 /\ x \div 16 < 8
    BY <2>1 DEF Above8, Stacks
  <2>4. Byte(x \div 16) = x \div 16
    BY <2>1 DEF Byte, Stacks
  <2> QED BY <1>13, <2>1, <2>2, <2>3, <2>4
<1>14. CASE b = 7 /\ o = 5
  <2>1. 2 ^ o = 32 /\ 2 ^ b = 128 /\ 2 ^ 4 = 16 /\ 2 ^ 3 = 8
    BY <1>14, Powers
  <2>2. o + b - 8 = 4 /\ 8 - o = 3
    BY <1>14
  <2>3. Above8(u + x * 32) = x \div 8 /\ x \div 8 < 16
    BY <2>1 DEF Above8, Stacks
  <2>4. Byte(x \div 8) = x \div 8
    BY <2>1 DEF Byte, Stacks
  <2> QED BY <1>14, <2>1, <2>2, <2>3, <2>4
<1>15. CASE b = 7 /\ o = 6
  <2>1. 2 ^ o = 64 /\ 2 ^ b = 128 /\ 2 ^ 5 = 32 /\ 2 ^ 2 = 4
    BY <1>15, Powers
  <2>2. o + b - 8 = 5 /\ 8 - o = 2
    BY <1>15
  <2>3. Above8(u + x * 64) = x \div 4 /\ x \div 4 < 32
    BY <2>1 DEF Above8, Stacks
  <2>4. Byte(x \div 4) = x \div 4
    BY <2>1 DEF Byte, Stacks
  <2> QED BY <1>15, <2>1, <2>2, <2>3, <2>4
<1>16. CASE b = 7 /\ o = 7
  <2>1. 2 ^ o = 128 /\ 2 ^ b = 128 /\ 2 ^ 6 = 64 /\ 2 ^ 1 = 2
    BY <1>16, Powers
  <2>2. o + b - 8 = 6 /\ 8 - o = 1
    BY <1>16
  <2>3. Above8(u + x * 128) = x \div 2 /\ x \div 2 < 64
    BY <2>1 DEF Above8, Stacks
  <2>4. Byte(x \div 2) = x \div 2
    BY <2>1 DEF Byte, Stacks
  <2> QED BY <1>16, <2>1, <2>2, <2>3, <2>4
<1>17. o = 0 \/ o = 1 \/ o = 2 \/ o = 3 \/ o = 4 \/ o = 5 \/ o = 6 \/ o = 7
  BY DEF Stacks
<1> QED BY <1>1, <1>2, <1>3, <1>4, <1>5, <1>6, <1>7, <1>8, <1>9, <1>10, <1>11, <1>12, <1>13, <1>14, <1>15, <1>16, <1>17 DEF Stacks

LEMMA PackStep ==
  ASSUME NEW b, NEW n, NEW c, NEW o, NEW p, Waiting(b, n, c, o, p), Window(c, b, p) < 2 ^ o,
         NEW x \in Nat, x < 2 ^ b, NEW d, Adds(d, c, n, x), NEW v, v = Window(c, b, p) + x * 2 ^ o
  PROVE  /\ IsCodes(d, b, n + 1)
         /\ o + b < 8 => v = Window(d, b, p) /\ v < 2 ^ (o + b) /\ p + (o + b) = b * (n + 1)
         /\ o + b >= 8 => /\ Byte(v) = Window(d, b, p) /\ Above8(v) = Window(d, b, p + 8)
                          /\ Above8(v) < 2 ^ (o + b - 8) /\ (p + 8) + (o + b - 8) = b * (n + 1)
<1> DEFINE u == Window(c, b, p)
           e == o + b - 8
<1>0. b \in {6, 7} /\ n \in Nat /\ IsCodes(c, b, n) /\ o \in 0..7 /\ p \in Nat /\ p + o = b * n
  BY DEF Waiting
<1>1. u \in Nat /\ c \in [Nat -> Nat]
  <2>1. c \in [Nat -> Nat]
    BY <1>0 DEF IsCodes
  <2>2. Window(c, b, p) \in 0..255
    BY <1>0, <2>1, WindowNat
  <2> QED BY <2>1, <2>2
<1>2. Byte(v) = Window(d, b, p)
  BY WindowAdded
<1>3. IsCodes(d, b, n + 1) /\ d[n] = x
  <2>1. d \in [Nat -> Nat] /\ d[n] = x /\ \A i \in Nat : i # n => d[i] = c[i]
    BY <1>0, <1>1 DEF Adds
  <2>2. \A i \in Nat : n + 1 <= i => n <= i /\ i # n
    BY <1>0
  <2> QED BY <1>0, <2>1, <2>2 DEF IsCodes
<1>4. b * (n + 1) = b * n + b
  <2>1. CASE b = 6
    BY <1>0, <2>1
  <2>2. CASE b = 7
    BY <1>0, <2>2
  <2> QED BY <1>0, <2>1, <2>2
<1> HIDE DEF u
<1>5. u < 2 ^ o /\ v = u + x * 2 ^ o
  BY DEF u
<1>6. /\ o + b < 8 => v < 2 ^ (o + b) /\ Byte(v) = v
      /\ o + b >= 8 => Above8(v) < 2 ^ (o + b - 8)
      /\ o + b = 8 => Above8(v) = 0
      /\ o + b > 8 => Above8(v) = x \div 2 ^ (8 - o) /\ Byte(x \div 2 ^ (8 - o)) = x \div 2 ^ (8 - o)
  <2>1. Stacks(b, o, x, u)
    BY <1>0, <1>1, <1>5 DEF Stacks
  <2> QED BY <1>5, <2>1, PackArithmetic
<1>7. ASSUME o + b < 8 PROVE v = Window(d, b, p)
  BY <1>2, <1>6, <1>7
<1>8. ASSUME o + b >= 8 PROVE Above8(v) = Window(d, b, p + 8)
  <2>1. (p + 8) + e = b * (n + 1) /\ e \in 0..(b - 1)
    BY <1>0, <1>4, <1>8
  <2>2. CASE e = 0
    <3>1. p + 8 = b * (n + 1) /\ o + b = 8 /\ n + 1 \in Nat
      BY <1>0, <2>1, <2>2
    <3> QED BY <1>0, <1>3, <1>6, <3>1, WindowEnd
  <2>3. CASE e # 0
    <3> DEFINE r == 8 - o
    <3>1. r \in Nat /\ 1 <= r /\ r < b /\ o + b > 8 /\ b - r \in 0..7 /\ n + 1 \in Nat
      BY <1>0, <2>1, <2>3
    <3>2. Waiting(b, n + 1, d, e, p + 8)
      BY <1>0, <1>3, <2>1, <3>1 DEF Waiting
    <3>3. Window(d, b, p + 8) = Byte(d[(n + 1) - 1] \div 2 ^ (b - e))
      <4>1. 0 < e /\ e < b /\ n + 1 # 0
        BY <1>0, <2>1, <2>3
      <4> DEFINE m == n + 1
                 q == p + 8
      <4> HIDE DEF e, m, q
      <4>2. Window(d, b, q) = Byte(d[m - 1] \div 2 ^ (b - e))
        BY <3>2, <4>1, WindowLast DEF m, q
      <4> QED BY <4>2 DEF m, q
    <3>4. (n + 1) - 1 = n /\ b - e = r
      BY <1>0
    <3> QED BY <1>3, <1>6, <3>1, <3>3, <3>4
  <2> QED BY <2>2, <2>3
<1>9. p + (o + b) = b * (n + 1) /\ (p + 8) + (o + b - 8) = b * (n + 1)
  BY <1>0, <1>4
<1> QED BY <1>2, <1>3, <1>6, <1>7, <1>8, <1>9

-----------------------------------------------------------------------------
\* The decoder: the bits of the buffer are the first ones of the codes, and with the
\* next byte they hold the next code.
Front(x, y, b, i) == (x + y * 2 ^ b) % 2 ^ i

Ready(b, i, x, y, z) ==
  b \in {6, 7} /\ i \in 0..7 /\ x \in Nat /\ x < 2 ^ b /\ y \in Nat /\ y < 2 ^ b /\ z \in Nat

LEMMA UnpackArithmetic ==
  ASSUME NEW b, NEW i, i < b, NEW x, NEW y, NEW z, Ready(b, i, x, y, z),
         NEW v, v = Front(x, y, b, i) + Byte(Spread(x, y, z, b, i)) * 2 ^ i
  PROVE  v % 2 ^ b = x /\ v \div 2 ^ b = Front(y, z, b, i + 8 - b)
<1>1. CASE b = 6 /\ i = 0
  <2>1. 2 ^ b = 64 /\ 2 ^ i = 1 /\ 2 ^ 6 = 64 /\ 2 ^ 12 = 4096 /\ 2 ^ 2 = 4
    BY <1>1, Powers
  <2> DEFINE q == (y + z * 64) % 4
             s == x \div 1
  <2>3. q \in 0..3 /\ s \in 0..63 /\ x = s * 1 + (x % 1) /\ (x + y * 64) % 1 = x % 1
    BY <2>1 DEF Ready
  <2>4. (s + y * 64 + z * 4096) % 256 = s + q * 64
    <3>1. s + y * 64 + z * 4096 = s + (y + z * 64) * 64
      BY <2>3 DEF Ready
    <3> HIDE DEF s
    <3> QED BY <2>3, <3>1 DEF Ready
  <2>a. 2 ^ (b - i) = 64
    BY <1>1, Powers
  <2>c. 2 ^ (2 * b - i) = 4096
    BY <1>1, Powers
  <2>b. Spread(x, y, z, b, i) = s + y * 64 + z * 4096
    BY <2>1, <2>a, <2>c DEF Spread
  <2>5. v = Front(x, y, b, i) + Byte(s + y * 64 + z * 4096) * 1
    BY <2>1, <2>b
  <2>d. 2 ^ (i + 8 - b) = 4
    BY <1>1, Powers
  <2>e. Front(x, y, b, i) = x % 1
    BY <2>1, <2>3 DEF Front
  <2>6. Front(y, z, b, i + 8 - b) = q
    BY <2>1, <2>d DEF Front
  <2>7. v = x + q * 64
    <3> HIDE DEF s, q
    <3> QED BY <2>3, <2>4, <2>5, <2>e DEF Byte, Ready
  <2>8. v % 64 = x /\ v \div 64 = q
    <3> HIDE DEF s, q
    <3> QED BY <2>1, <2>3, <2>7 DEF Ready
  <2> QED BY <2>1, <2>6, <2>8
<1>2. CASE b = 6 /\ i = 1
  <2>1. 2 ^ b = 64 /\ 2 ^ i = 2 /\ 2 ^ 5 = 32 /\ 2 ^ 11 = 2048 /\ 2 ^ 3 = 8
    BY <1>2, Powers
  <2> DEFINE q == (y + z * 64) % 8
             s == x \div 2
  <2>3. q \in 0..7 /\ s \in 0..31 /\ x = s * 2 + (x % 2) /\ (x + y * 64) % 2 = x % 2
    BY <2>1 DEF Ready
  <2>4. (s + y * 32 + z * 2048) % 256 = s + q * 32
    <3>1. s + y * 32 + z * 2048 = s + (y + z * 64) * 32
      BY <2>3 DEF Ready
    <3> HIDE DEF s
    <3> QED BY <2>3, <3>1 DEF Ready
  <2>a. 2 ^ (b - i) = 32
    BY <1>2, Powers
  <2>c. 2 ^ (2 * b - i) = 2048
    BY <1>2, Powers
  <2>b. Spread(x, y, z, b, i) = s + y * 32 + z * 2048
    BY <2>1, <2>a, <2>c DEF Spread
  <2>5. v = Front(x, y, b, i) + Byte(s + y * 32 + z * 2048) * 2
    BY <2>1, <2>b
  <2>d. 2 ^ (i + 8 - b) = 8
    BY <1>2, Powers
  <2>e. Front(x, y, b, i) = x % 2
    BY <2>1, <2>3 DEF Front
  <2>6. Front(y, z, b, i + 8 - b) = q
    BY <2>1, <2>d DEF Front
  <2>7. v = x + q * 64
    <3> HIDE DEF s, q
    <3> QED BY <2>3, <2>4, <2>5, <2>e DEF Byte, Ready
  <2>8. v % 64 = x /\ v \div 64 = q
    <3> HIDE DEF s, q
    <3> QED BY <2>1, <2>3, <2>7 DEF Ready
  <2> QED BY <2>1, <2>6, <2>8
<1>3. CASE b = 6 /\ i = 2
  <2>1. 2 ^ b = 64 /\ 2 ^ i = 4 /\ 2 ^ 4 = 16 /\ 2 ^ 10 = 1024 /\ 2 ^ 4 = 16
    BY <1>3, Powers
  <2> DEFINE q == (y + z * 64) % 16
             s == x \div 4
  <2>3. q \in 0..15 /\ s \in 0..15 /\ x = s * 4 + (x % 4) /\ (x + y * 64) % 4 = x % 4
    BY <2>1 DEF Ready
  <2>4. (s + y * 16 + z * 1024) % 256 = s + q * 16
    <3>1. s + y * 16 + z * 1024 = s + (y + z * 64) * 16
      BY <2>3 DEF Ready
    <3> HIDE DEF s
    <3> QED BY <2>3, <3>1 DEF Ready
  <2>a. 2 ^ (b - i) = 16
    BY <1>3, Powers
  <2>c. 2 ^ (2 * b - i) = 1024
    BY <1>3, Powers
  <2>b. Spread(x, y, z, b, i) = s + y * 16 + z * 1024
    BY <2>1, <2>a, <2>c DEF Spread
  <2>5. v = Front(x, y, b, i) + Byte(s + y * 16 + z * 1024) * 4
    BY <2>1, <2>b
  <2>d. 2 ^ (i + 8 - b) = 16
    BY <1>3, Powers
  <2>e. Front(x, y, b, i) = x % 4
    BY <2>1, <2>3 DEF Front
  <2>6. Front(y, z, b, i + 8 - b) = q
    BY <2>1, <2>d DEF Front
  <2>7. v = x + q * 64
    <3> HIDE DEF s, q
    <3> QED BY <2>3, <2>4, <2>5, <2>e DEF Byte, Ready
  <2>8. v % 64 = x /\ v \div 64 = q
    <3> HIDE DEF s, q
    <3> QED BY <2>1, <2>3, <2>7 DEF Ready
  <2> QED BY <2>1, <2>6, <2>8
<1>4. CASE b = 6 /\ i = 3
  <2>1. 2 ^ b = 64 /\ 2 ^ i = 8 /\ 2 ^ 3 = 8 /\ 2 ^ 9 = 512 /\ 2 ^ 5 = 32
    BY <1>4, Powers
  <2> DEFINE q == (y + z * 64) % 32
             s == x \div 8
  <2>3. q \in 0..31 /\ s \in 0..7 /\ x = s * 8 + (x % 8) /\ (x + y * 64) % 8 = x % 8
    BY <2>1 DEF Ready
  <2>4. (s + y * 8 + z * 512) % 256 = s + q * 8
    <3>1. s + y * 8 + z * 512 = s + (y + z * 64) * 8
      BY <2>3 DEF Ready
    <3> HIDE DEF s
    <3> QED BY <2>3, <3>1 DEF Ready
  <2>a. 2 ^ (b - i) = 8
    BY <1>4, Powers
  <2>c. 2 ^ (2 * b - i) = 512
    BY <1>4, Powers
  <2>b. Spread(x, y, z, b, i) = s + y * 8 + z * 512
    BY <2>1, <2>a, <2>c DEF Spread
  <2>5. v = Front(x, y, b, i) + Byte(s + y * 8 + z * 512) * 8
    BY <2>1, <2>b
  <2>d. 2 ^ (i + 8 - b) = 32
    BY <1>4, Powers
  <2>e. Front(x, y, b, i) = x % 8
    BY <2>1, <2>3 DEF Front
  <2>6. Front(y, z, b, i + 8 - b) = q
    BY <2>1, <2>d DEF Front
  <2>7. v = x + q * 64
    <3> HIDE DEF s, q
    <3> QED BY <2>3, <2>4, <2>5, <2>e DEF Byte, Ready
  <2>8. v % 64 = x /\ v \div 64 = q
    <3> HIDE DEF s, q
    <3> QED BY <2>1, <2>3, <2>7 DEF Ready
  <2> QED BY <2>1, <2>6, <2>8
<1>5. CASE b = 6 /\ i = 4
  <2>1. 2 ^ b = 64 /\ 2 ^ i = 16 /\ 2 ^ 2 = 4 /\ 2 ^ 8 = 256 /\ 2 ^ 6 = 64
    BY <1>5, Powers
  <2> DEFINE q == (y + z * 64) % 64
             s == x \div 16
  <2>3. q \in 0..63 /\ s \in 0..3 /\ x = s * 16 + (x % 16) /\ (x + y * 64) % 16 = x % 16
    BY <2>1 DEF Ready
  <2>4. (s + y * 4 + z * 256) % 256 = s + q * 4
    <3>1. s + y * 4 + z * 256 = s + (y + z * 64) * 4
      BY <2>3 DEF Ready
    <3> HIDE DEF s
    <3> QED BY <2>3, <3>1 DEF Ready
  <2>a. 2 ^ (b - i) = 4
    BY <1>5, Powers
  <2>c. 2 ^ (2 * b - i) = 256
    BY <1>5, Powers
  <2>b. Spread(x, y, z, b, i) = s + y * 4 + z * 256
    BY <2>1, <2>a, <2>c DEF Spread
  <2>5. v = Front(x, y, b, i) + Byte(s + y * 4 + z * 256) * 16
    BY <2>1, <2>b
  <2>d. 2 ^ (i + 8 - b) = 64
    BY <1>5, Powers
  <2>e. Front(x, y, b, i) = x % 16
    BY <2>1, <2>3 DEF Front
  <2>6. Front(y, z, b, i + 8 - b) = q
    BY <2>1, <2>d DEF Front
  <2>7. v = x + q * 64
    <3> HIDE DEF s, q
    <3> QED BY <2>3, <2>4, <2>5, <2>e DEF Byte, Ready
  <2>8. v % 64 = x /\ v \div 64 = q
    <3> HIDE DEF s, q
    <3> QED BY <2>1, <2>3, <2>7 DEF Ready
  <2> QED BY <2>1, <2>6, <2>8
<1>6. CASE b = 6 /\ i = 5
  <2>1. 2 ^ b = 64 /\ 2 ^ i = 32 /\ 2 ^ 1 = 2 /\ 2 ^ 7 = 128 /\ 2 ^ 7 = 128
    BY <1>6, Powers
  <2> DEFINE q == (y + z * 64) % 128
             s == x \div 32
  <2>3. q \in 0..127 /\ s \in 0..1 /\ x = s * 32 + (x % 32) /\ (x + y * 64) % 32 = x % 32
    BY <2>1 DEF Ready
  <2>4. (s + y * 2 + z * 128) % 256 = s + q * 2
    <3>1. s + y * 2 + z * 128 = s + (y + z * 64) * 2
      BY <2>3 DEF Ready
    <3> HIDE DEF s
    <3> QED BY <2>3, <3>1 DEF Ready
  <2>a. 2 ^ (b - i) = 2
    BY <1>6, Powers
  <2>c. 2 ^ (2 * b - i) = 128
    BY <1>6, Powers
  <2>b. Spread(x, y, z, b, i) = s + y * 2 + z * 128
    BY <2>1, <2>a, <2>c DEF Spread
  <2>5. v = Front(x, y, b, i) + Byte(s + y * 2 + z * 128) * 32
    BY <2>1, <2>b
  <2>d. 2 ^ (i + 8 - b) = 128
    BY <1>6, Powers
  <2>e. Front(x, y, b, i) = x % 32
    BY <2>1, <2>3 DEF Front
  <2>6. Front(y, z, b, i + 8 - b) = q
    BY <2>1, <2>d DEF Front
  <2>7. v = x + q * 64
    <3> HIDE DEF s, q
    <3> QED BY <2>3, <2>4, <2>5, <2>e DEF Byte, Ready
  <2>8. v % 64 = x /\ v \div 64 = q
    <3> HIDE DEF s, q
    <3> QED BY <2>1, <2>3, <2>7 DEF Ready
  <2> QED BY <2>1, <2>6, <2>8
<1>7. CASE b = 7 /\ i = 0
  <2>1. 2 ^ b = 128 /\ 2 ^ i = 1 /\ 2 ^ 7 = 128 /\ 2 ^ 14 = 16384 /\ 2 ^ 1 = 2
    BY <1>7, Powers
  <2> DEFINE q == (y + z * 128) % 2
             s == x \div 1
  <2>3. q \in 0..1 /\ s \in 0..127 /\ x = s * 1 + (x % 1) /\ (x + y * 128) % 1 = x % 1
    BY <2>1 DEF Ready
  <2>4. (s + y * 128 + z * 16384) % 256 = s + q * 128
    <3>1. s + y * 128 + z * 16384 = s + (y + z * 128) * 128
      BY <2>3 DEF Ready
    <3> HIDE DEF s
    <3> QED BY <2>3, <3>1 DEF Ready
  <2>a. 2 ^ (b - i) = 128
    BY <1>7, Powers
  <2>c. 2 ^ (2 * b - i) = 16384
    BY <1>7, Powers
  <2>b. Spread(x, y, z, b, i) = s + y * 128 + z * 16384
    BY <2>1, <2>a, <2>c DEF Spread
  <2>5. v = Front(x, y, b, i) + Byte(s + y * 128 + z * 16384) * 1
    BY <2>1, <2>b
  <2>d. 2 ^ (i + 8 - b) = 2
    BY <1>7, Powers
  <2>e. Front(x, y, b, i) = x % 1
    BY <2>1, <2>3 DEF Front
  <2>6. Front(y, z, b, i + 8 - b) = q
    BY <2>1, <2>d DEF Front
  <2>7. v = x + q * 128
    <3> HIDE DEF s, q
    <3> QED BY <2>3, <2>4, <2>5, <2>e DEF Byte, Ready
  <2>8. v % 128 = x /\ v \div 128 = q
    <3> HIDE DEF s, q
    <3> QED BY <2>1, <2>3, <2>7 DEF Ready
  <2> QED BY <2>1, <2>6, <2>8
<1>8. CASE b = 7 /\ i = 1
  <2>1. 2 ^ b = 128 /\ 2 ^ i = 2 /\ 2 ^ 6 = 64 /\ 2 ^ 13 = 8192 /\ 2 ^ 2 = 4
    BY <1>8, Powers
  <2> DEFINE q == (y + z * 128) % 4
             s == x \div 2
  <2>3. q \in 0..3 /\ s \in 0..63 /\ x = s * 2 + (x % 2) /\ (x + y * 128) % 2 = x % 2
    BY <2>1 DEF Ready
  <2>4. (s + y * 64 + z * 8192) % 256 = s + q * 64
    <3>1. s + y * 64 + z * 8192 = s + (y + z * 128) * 64
      BY <2>3 DEF Ready
    <3> HIDE DEF s
    <3> QED BY <2>3, <3>1 DEF Ready
  <2>a. 2 ^ (b - i) = 64
    BY <1>8, Powers
  <2>c. 2 ^ (2 * b - i) = 8192
    BY <1>8, Powers
  <2>b. Spread(x, y, z, b, i) = s + y * 64 + z * 8192
    BY <2>1, <2>a, <2>c DEF Spread
  <2>5. v = Front(x, y, b, i) + Byte(s + y * 64 + z * 8192) * 2
    BY <2>1, <2>b
  <2>d. 2 ^ (i + 8 - b) = 4
    BY <1>8, Powers
  <2>e. Front(x, y, b, i) = x % 2
    BY <2>1, <2>3 DEF Front
  <2>6. Front(y, z, b, i + 8 - b) = q
    BY <2>1, <2>d DEF Front
  <2>7. v = x + q * 128
    <3> HIDE DEF s, q
    <3> QED BY <2>3, <2>4, <2>5, <2>e DEF Byte, Ready
  <2>8. v % 128 = x /\ v \div 128 = q
    <3> HIDE DEF s, q
    <3> QED BY <2>1, <2>3, <2>7 DEF Ready
  <2> QED BY <2>1, <2>6, <2>8
<1>9. CASE b = 7 /\ i = 2
  <2>1. 2 ^ b = 128 /\ 2 ^ i = 4 /\ 2 ^ 5 = 32 /\ 2 ^ 12 = 4096 /\ 2 ^ 3 = 8
    BY <1>9, Powers
  <2> DEFINE q == (y + z * 128) % 8
             s == x \div 4
  <2>3. q \in 0..7 /\ s \in 0..31 /\ x = s * 4 + (x % 4) /\ (x + y * 128) % 4 = x % 4
    BY <2>1 DEF Ready
  <2>4. (s + y * 32 + z * 4096) % 256 = s + q * 32
    <3>1. s + y * 32 + z * 4096 = s + (y + z * 128) * 32
      BY <2>3 DEF Ready
    <3> HIDE DEF s
    <3> QED BY <2>3, <3>1 DEF Ready
  <2>a. 2 ^ (b - i) = 32
    BY <1>9, Powers
  <2>c. 2 ^ (2 * b - i) = 4096
    BY <1>9, Powers
  <2>b. Spread(x, y, z, b, i) = s + y * 32 + z * 4096
    BY <2>1, <2>a, <2>c DEF Spread
  <2>5. v = Front(x, y, b, i) + Byte(s + y * 32 + z * 4096) * 4
    BY <2>1, <2>b
  <2>d. 2 ^ (i + 8 - b) = 8
    BY <1>9, Powers
  <2>e. Front(x, y, b, i) = x % 4
    BY <2>1, <2>3 DEF Front
  <2>6. Front(y, z, b, i + 8 - b) = q
    BY <2>1, <2>d DEF Front
  <2>7. v = x + q * 128
    <3> HIDE DEF s, q
    <3> QED BY <2>3, <2>4, <2>5, <2>e DEF Byte, Ready
  <2>8. v % 128 = x /\ v \div 128 = q
    <3> HIDE DEF s, q
    <3> QED BY <2>1, <2>3, <2>7 DEF Ready
  <2> QED BY <2>1, <2>6, <2>8
<1>10. CASE b = 7 /\ i = 3
  <2>1. 2 ^ b = 128 /\ 2 ^ i = 8 /\ 2 ^ 4 = 16 /\ 2 ^ 11 = 2048 /\ 2 ^ 4 = 16
    BY <1>10, Powers
  <2> DEFINE q == (y + z * 128) % 16
             s == x \div 8
  <2>3. q \in 0..15 /\ s \in 0..15 /\ x = s * 8 + (x % 8) /\ (x + y * 128) % 8 = x % 8
    BY <2>1 DEF Ready
  <2>4. (s + y * 16 + z * 2048) % 256 = s + q * 16
    <3>1. s + y * 16 + z * 2048 = s + (y + z * 128) * 16
      BY <2>3 DEF Ready
    <3> HIDE DEF s
    <3> QED BY <2>3, <3>1 DEF Ready
  <2>a. 2 ^ (b - i) = 16
    BY <1>10, Powers
  <2>c. 2 ^ (2 * b - i) = 2048
    BY <1>10, Powers
  <2>b. Spread(x, y, z, b, i) = s + y * 16 + z * 2048
    BY <2>1, <2>a, <2>c DEF Spread
  <2>5. v = Front(x, y, b, i) + Byte(s + y * 16 + z * 2048) * 8
    BY <2>1, <2>b
  <2>d. 2 ^ (i + 8 - b) = 16
    BY <1>10, Powers
  <2>e. Front(x, y, b, i) = x % 8
    BY <2>1, <2>3 DEF Front
  <2>6. Front(y, z, b, i + 8 - b) = q
    BY <2>1, <2>d DEF Front
  <2>7. v = x + q * 128
    <3> HIDE DEF s, q
    <3> QED BY <2>3, <2>4, <2>5, <2>e DEF Byte, Ready
  <2>8. v % 128 = x /\ v \div 128 = q
    <3> HIDE DEF s, q
    <3> QED BY <2>1, <2>3, <2>7 DEF Ready
  <2> QED BY <2>1, <2>6, <2>8
<1>11. CASE b = 7 /\ i = 4
  <2>1. 2 ^ b = 128 /\ 2 ^ i = 16 /\ 2 ^ 3 = 8 /\ 2 ^ 10 = 1024 /\ 2 ^ 5 = 32
    BY <1>11, Powers
  <2> DEFINE q == (y + z * 128) % 32
             s == x \div 16
  <2>3. q \in 0..31 /\ s \in 0..7 /\ x = s * 16 + (x % 16) /\ (x + y * 128) % 16 = x % 16
    BY <2>1 DEF Ready
  <2>4. (s + y * 8 + z * 1024) % 256 = s + q * 8
    <3>1. s + y * 8 + z * 1024 = s + (y + z * 128) * 8
      BY <2>3 DEF Ready
    <3> HIDE DEF s
    <3> QED BY <2>3, <3>1 DEF Ready
  <2>a. 2 ^ (b - i) = 8
    BY <1>11, Powers
  <2>c. 2 ^ (2 * b - i) = 1024
    BY <1>11, Powers
  <2>b. Spread(x, y, z, b, i) = s + y * 8 + z * 1024
    BY <2>1, <2>a, <2>c DEF Spread
  <2>5. v = Front(x, y, b, i) + Byte(s + y * 8 + z * 1024) * 16
    BY <2>1, <2>b
  <2>d. 2 ^ (i + 8 - b) = 32
    BY <1>11, Powers
  <2>e. Front(x, y, b, i) = x % 16
    BY <2>1, <2>3 DEF Front
  <2>6. Front(y, z, b, i + 8 - b) = q
    BY <2>1, <2>d DEF Front
  <2>7. v = x + q * 128
    <3> HIDE DEF s, q
    <3> QED BY <2>3, <2>4, <2>5, <2>e DEF Byte, Ready
  <2>8. v % 128 = x /\ v \div 128 = q
    <3> HIDE DEF s, q
    <3> QED BY <2>1, <2>3, <2>7 DEF Ready
  <2> QED BY <2>1, <2>6, <2>8
<1>12. CASE b = 7 /\ i = 5
  <2>1. 2 ^ b = 128 /\ 2 ^ i = 32 /\ 2 ^ 2 = 4 /\ 2 ^ 9 = 512 /\ 2 ^ 6 = 64
    BY <1>12, Powers
  <2> DEFINE q == (y + z * 128) % 64
             s == x \div 32
  <2>3. q \in 0..63 /\ s \in 0..3 /\ x = s * 32 + (x % 32) /\ (x + y * 128) % 32 = x % 32
    BY <2>1 DEF Ready
  <2>4. (s + y * 4 + z * 512) % 256 = s + q * 4
    <3>1. s + y * 4 + z * 512 = s + (y + z * 128) * 4
      BY <2>3 DEF Ready
    <3> HIDE DEF s
    <3> QED BY <2>3, <3>1 DEF Ready
  <2>a. 2 ^ (b - i) = 4
    BY <1>12, Powers
  <2>c. 2 ^ (2 * b - i) = 512
    BY <1>12, Powers
  <2>b. Spread(x, y, z, b, i) = s + y * 4 + z * 512
    BY <2>1, <2>a, <2>c DEF Spread
  <2>5. v = Front(x, y, b, i) + Byte(s + y * 4 + z * 512) * 32
    BY <2>1, <2>b
  <2>d. 2 ^ (i + 8 - b) = 64
    BY <1>12, Powers
  <2>e. Front(x, y, b, i) = x % 32
    BY <2>1, <2>3 DEF Front
  <2>6. Front(y, z, b, i + 8 - b) = q
    BY <2>1, <2>d DEF Front
  <2>7. v = x + q * 128
    <3> HIDE DEF s, q
    <3> QED BY <2>3, <2>4, <2>5, <2>e DEF Byte, Ready
  <2>8. v % 128 = x /\ v \div 128 = q
    <3> HIDE DEF s, q
    <3> QED BY <2>1, <2>3, <2>7 DEF Ready
  <2> QED BY <2>1, <2>6, <2>8
<1>13. CASE b = 7 /\ i = 6
  <2>1. 2 ^ b = 128 /\ 2 ^ i = 64 /\ 2 ^ 1 = 2 /\ 2 ^ 8 = 256 /\ 2 ^ 7 = 128
    BY <1>13, Powers
  <2> DEFINE q == (y + z * 128) % 128
             s == x \div 64
  <2>3. q \in 0..127 /\ s \in 0..1 /\ x = s * 64 + (x % 64) /\ (x + y * 128) % 64 = x % 64
    BY <2>1 DEF Ready
  <2>4. (s + y * 2 + z * 256) % 256 = s + q * 2
    <3>1. s + y * 2 + z * 256 = s + (y + z * 128) * 2
      BY <2>3 DEF Ready
    <3> HIDE DEF s
    <3> QED BY <2>3, <3>1 DEF Ready
  <2>a. 2 ^ (b - i) = 2
    BY <1>13, Powers
  <2>c. 2 ^ (2 * b - i) = 256
    BY <1>13, Powers
  <2>b. Spread(x, y, z, b, i) = s + y * 2 + z * 256
    BY <2>1, <2>a, <2>c DEF Spread
  <2>5. v = Front(x, y, b, i) + Byte(s + y * 2 + z * 256) * 64
    BY <2>1, <2>b
  <2>d. 2 ^ (i + 8 - b) = 128
    BY <1>13, Powers
  <2>e. Front(x, y, b, i) = x % 64
    BY <2>1, <2>3 DEF Front
  <2>6. Front(y, z, b, i + 8 - b) = q
    BY <2>1, <2>d DEF Front
  <2>7. v = x + q * 128
    <3> HIDE DEF s, q
    <3> QED BY <2>3, <2>4, <2>5, <2>e DEF Byte, Ready
  <2>8. v % 128 = x /\ v \div 128 = q
    <3> HIDE DEF s, q
    <3> QED BY <2>1, <2>3, <2>7 DEF Ready
  <2> QED BY <2>1, <2>6, <2>8
<1>14. i = 0 \/ i = 1 \/ i = 2 \/ i = 3 \/ i = 4 \/ i = 5 \/ i = 6
  BY DEF Ready
<1> QED BY <1>1, <1>2, <1>3, <1>4, <1>5, <1>6, <1>7, <1>8, <1>9, <1>10, <1>11, <1>12, <1>13, <1>14 DEF Ready

LEMMA FrontArithmetic ==
  ASSUME NEW b, NEW i, i >= b, NEW x, NEW y, NEW z, Ready(b, i, x, y, z), NEW v, v = Front(x, y, b, i)
  PROVE  v % 2 ^ b = x /\ v \div 2 ^ b = Front(y, z, b, i - b)
<1>1. CASE b = 6 /\ i = 6
  <2>1. 2 ^ b = 64 /\ 2 ^ i = 64 /\ 2 ^ 0 = 1 /\ i - b = 0
    BY <1>1, Powers
  <2>2. v = (x + y * 64) % 64 /\ Front(y, z, b, i - b) = (y + z * 64) % 1
    BY <2>1 DEF Front
  <2>3. (x + y * 64) % 64 = x + (y % 1) * 64 /\ (y + z * 64) % 1 = y % 1 /\ y % 1 \in 0..0
    BY <2>1 DEF Ready
  <2>4. v % 64 = x /\ v \div 64 = y % 1
    BY <2>1, <2>2, <2>3 DEF Ready
  <2> QED BY <2>1, <2>2, <2>3, <2>4
<1>2. CASE b = 6 /\ i = 7
  <2>1. 2 ^ b = 64 /\ 2 ^ i = 128 /\ 2 ^ 1 = 2 /\ i - b = 1
    BY <1>2, Powers
  <2>2. v = (x + y * 64) % 128 /\ Front(y, z, b, i - b) = (y + z * 64) % 2
    BY <2>1 DEF Front
  <2>3. (x + y * 64) % 128 = x + (y % 2) * 64 /\ (y + z * 64) % 2 = y % 2 /\ y % 2 \in 0..1
    BY <2>1 DEF Ready
  <2>4. v % 64 = x /\ v \div 64 = y % 2
    BY <2>1, <2>2, <2>3 DEF Ready
  <2> QED BY <2>1, <2>2, <2>3, <2>4
<1>3. CASE b = 7 /\ i = 7
  <2>1. 2 ^ b = 128 /\ 2 ^ i = 128 /\ 2 ^ 0 = 1 /\ i - b = 0
    BY <1>3, Powers
  <2>2. v = (x + y * 128) % 128 /\ Front(y, z, b, i - b) = (y + z * 128) % 1
    BY <2>1 DEF Front
  <2>3. (x + y * 128) % 128 = x + (y % 1) * 128 /\ (y + z * 128) % 1 = y % 1 /\ y % 1 \in 0..0
    BY <2>1 DEF Ready
  <2>4. v % 128 = x /\ v \div 128 = y % 1
    BY <2>1, <2>2, <2>3 DEF Ready
  <2> QED BY <2>1, <2>2, <2>3, <2>4
<1> QED BY <1>1, <1>2, <1>3 DEF Ready

LEMMA FrontKept ==
  ASSUME NEW b \in {6, 7}, NEW i \in 0..7, i <= b, NEW x \in Nat, NEW y \in Nat
  PROVE  Front(x, y, b, i) = x % 2 ^ i
<1> DEFINE t == 2 ^ b
<1>1. t = 64 \/ (t = 128 /\ b = 7)
  <2>1. b = 6 => t = 64
    BY Powers
  <2>2. b = 7 => t = 128
    BY Powers
  <2>3. b = 6 \/ b = 7
    OBVIOUS
  <2> HIDE DEF t
  <2>4. CASE b = 6
    BY <2>1, <2>4
  <2>5. CASE b = 7
    BY <2>2, <2>5
  <2> QED BY <2>3, <2>4, <2>5
<1>2. CASE i = 0
  <2>1. 2 ^ i = 1
    BY <1>2, Powers
  <2>2. (x + y * 64) % 1 = x % 1 /\ (x + y * 128) % 1 = x % 1
    OBVIOUS
  <2> QED BY <1>1, <2>1, <2>2 DEF Front
<1>3. CASE i = 1
  <2>1. 2 ^ i = 2
    BY <1>3, Powers
  <2>2. (x + y * 64) % 2 = x % 2 /\ (x + y * 128) % 2 = x % 2
    OBVIOUS
  <2> QED BY <1>1, <2>1, <2>2 DEF Front
<1>4. CASE i = 2
  <2>1. 2 ^ i = 4
    BY <1>4, Powers
  <2>2. (x + y * 64) % 4 = x % 4 /\ (x + y * 128) % 4 = x % 4
    OBVIOUS
  <2> QED BY <1>1, <2>1, <2>2 DEF Front
<1>5. CASE i = 3
  <2>1. 2 ^ i = 8
    BY <1>5, Powers
  <2>2. (x + y * 64) % 8 = x % 8 /\ (x + y * 128) % 8 = x % 8
    OBVIOUS
  <2> QED BY <1>1, <2>1, <2>2 DEF Front
<1>6. CASE i = 4
  <2>1. 2 ^ i = 16
    BY <1>6, Powers
  <2>2. (x + y * 64) % 16 = x % 16 /\ (x + y * 128) % 16 = x % 16
    OBVIOUS
  <2> QED BY <1>1, <2>1, <2>2 DEF Front
<1>7. CASE i = 5
  <2>1. 2 ^ i = 32
    BY <1>7, Powers
  <2>2. (x + y * 64) % 32 = x % 32 /\ (x + y * 128) % 32 = x % 32
    OBVIOUS
  <2> QED BY <1>1, <2>1, <2>2 DEF Front
<1>8. CASE i = 6
  <2>1. 2 ^ i = 64
    BY <1>8, Powers
  <2>2. (x + y * 64) % 64 = x % 64 /\ (x + y * 128) % 64 = x % 64
    OBVIOUS
  <2> QED BY <1>1, <2>1, <2>2 DEF Front
<1>9. CASE i = 7
  <2>1. 2 ^ i = 128 /\ 2 ^ b = 128
    <3>1. 2 ^ i = 128
      BY <1>9, Powers
    <3>2. b = 7
      BY <1>9
    <3> QED BY <3>1, <3>2, Powers
  <2>2. (x + y * 128) % 128 = x % 128
    OBVIOUS
  <2> QED BY <2>1, <2>2 DEF Front
<1>10. i = 0 \/ i = 1 \/ i = 2 \/ i = 3 \/ i = 4 \/ i = 5 \/ i = 6 \/ i = 7
  OBVIOUS
<1> QED BY <1>2, <1>3, <1>4, <1>5, <1>6, <1>7, <1>8, <1>9, <1>10

\* n codes c of b bits on their way: i bits of them in the buffer f of the decoder, then
\* the bytes w, then o bits in the buffer u of the encoder.
OnTheWay(c, b, n, i, f, w, o, u) ==
  /\ b \in {6, 7} /\ n \in Nat /\ IsCodes(c, b, n) /\ IsSeq(w) /\ i \in 0..7 /\ o \in 0..7
  /\ i + 8 * Len(w) + o = b * n
  /\ f = Front(c[0], c[1], b, i)
  /\ \A j \in 1..Len(w) : w[j] = Window(c, b, i + 8 * (j - 1))
  /\ u = Window(c, b, i + 8 * Len(w)) /\ u < 2 ^ o

LEMMA WayEncoded ==
  ASSUME NEW c, NEW b, NEW n, NEW i, NEW f, NEW w, NEW o, NEW u, OnTheWay(c, b, n, i, f, w, o, u),
         NEW x \in Nat, x < 2 ^ b, NEW d, Adds(d, c, n, x), NEW v, v = u + x * 2 ^ o
  PROVE  /\ o + b < 8 => OnTheWay(d, b, n + 1, i, f, w, o + b, v)
         /\ o + b >= 8 => OnTheWay(d, b, n + 1, i, f, Append(w, Byte(v)), o + b - 8, Above8(v))
<1> DEFINE p == i + 8 * Len(w)
<1>1. /\ b \in {6, 7} /\ n \in Nat /\ IsCodes(c, b, n) /\ IsSeq(w) /\ i \in 0..7 /\ o \in 0..7
      /\ p + o = b * n /\ f = Front(c[0], c[1], b, i) /\ u = Window(c, b, p) /\ u < 2 ^ o
      /\ \A j \in 1..Len(w) : w[j] = Window(c, b, i + 8 * (j - 1))
  BY DEF OnTheWay
<1>2. Len(w) \in Nat /\ p \in Nat
  BY <1>1, AppendSeq
<1>3. /\ IsSeq(Append(w, Byte(v))) /\ Len(Append(w, Byte(v))) = Len(w) + 1
      /\ \A j \in 1..Len(w) : Append(w, Byte(v))[j] = w[j]
      /\ Append(w, Byte(v))[Len(w) + 1] = Byte(v)
  BY <1>1, AppendSeq
<1> DEFINE L == Len(w)
<1> HIDE DEF L, p
<1>4. p = i + 8 * L /\ L \in Nat
  BY <1>2 DEF L, p
<1>a. b \in {6, 7} /\ n \in Nat /\ i \in 0..7 /\ o \in 0..7 /\ p + o = b * n
  BY <1>1
<1>5. Waiting(b, n, c, o, p)
  BY <1>1, <1>2 DEF Waiting
<1>6. /\ IsCodes(d, b, n + 1)
      /\ o + b < 8 => v = Window(d, b, p) /\ v < 2 ^ (o + b) /\ p + (o + b) = b * (n + 1)
      /\ o + b >= 8 => /\ Byte(v) = Window(d, b, p) /\ Above8(v) = Window(d, b, p + 8)
                       /\ Above8(v) < 2 ^ (o + b - 8) /\ (p + 8) + (o + b - 8) = b * (n + 1)
  <2>1. Window(c, b, p) < 2 ^ o /\ v = Window(c, b, p) + x * 2 ^ o
    BY <1>1
  <2> QED BY <1>5, <2>1, PackStep
<1>7. c \in [Nat -> Nat] /\ d \in [Nat -> Nat] /\ \A k \in Nat : k # n => d[k] = c[k]
  BY <1>1 DEF IsCodes, Adds
<1>8. ASSUME NEW j \in 1..L PROVE w[j] = Window(d, b, i + 8 * (j - 1))
  <2> DEFINE q == i + 8 * (j - 1)
  <2>1. q \in Nat /\ q + 8 <= b * n
    BY <1>1, <1>4
  <2> HIDE DEF q
  <2>2. \A k \in Nat : k < n => d[k] = c[k]
    BY <1>1, <1>7
  <2>3. Window(d, b, q) = Window(c, b, q)
    BY <1>1, <1>7, <2>1, <2>2, WindowKept
  <2>4. w[j] = Window(c, b, q)
    BY <1>1 DEF L, q
  <2> QED BY <2>3, <2>4 DEF q
<1>9. f = Front(d[0], d[1], b, i)
  <2>1. CASE n >= 2
    <3>1. d[0] = c[0] /\ d[1] = c[1]
      BY <1>1, <1>7, <2>1
    <3> QED BY <1>1, <3>1
  <2>2. CASE n = 1
    <3>a. i <= b
      BY <1>a, <1>4, <2>2
    <3>1. d[0] = c[0] /\ c[0] \in Nat /\ c[1] \in Nat /\ d[1] \in Nat
      BY <1>7, <2>2
    <3>2. Front(c[0], c[1], b, i) = c[0] % 2 ^ i /\ Front(d[0], d[1], b, i) = d[0] % 2 ^ i
      BY <1>a, <3>a, <3>1, FrontKept
    <3> QED BY <1>1, <3>1, <3>2
  <2>3. CASE n = 0
    <3>a. i = 0
      BY <1>a, <1>4, <2>3
    <3>b. i <= b
      BY <1>a, <1>4, <2>3
    <3>1. c[0] \in Nat /\ c[1] \in Nat /\ d[0] \in Nat /\ d[1] \in Nat
      BY <1>7
    <3>2. Front(c[0], c[1], b, i) = c[0] % 2 ^ i /\ Front(d[0], d[1], b, i) = d[0] % 2 ^ i
      BY <1>a, <3>b, <3>1, FrontKept
    <3>3. c[0] % 2 ^ i = 0 /\ d[0] % 2 ^ i = 0
      <4>1. 2 ^ i = 1
        BY <3>a, Powers
      <4> QED BY <3>1, <4>1
    <3> QED BY <1>1, <3>2, <3>3
  <2> QED BY <1>1, <2>1, <2>2, <2>3
<1>10. ASSUME o + b < 8 PROVE OnTheWay(d, b, n + 1, i, f, w, o + b, v)
  <2>1. n + 1 \in Nat /\ o + b \in 0..7
    BY <1>1, <1>10
  <2>2. i + 8 * Len(w) + (o + b) = b * (n + 1) /\ v = Window(d, b, i + 8 * Len(w)) /\ v < 2 ^ (o + b)
    BY <1>6, <1>10 DEF p
  <2>3. \A j \in 1..Len(w) : w[j] = Window(d, b, i + 8 * (j - 1))
    BY <1>8 DEF L
  <2> QED BY <1>1, <1>6, <1>9, <2>1, <2>2, <2>3 DEF OnTheWay
<1>11. ASSUME o + b >= 8 PROVE OnTheWay(d, b, n + 1, i, f, Append(w, Byte(v)), o + b - 8, Above8(v))
  <2> DEFINE a == Append(w, Byte(v))
             e == o + b - 8
  <2>1. n + 1 \in Nat /\ e \in 0..7
    BY <1>1, <1>11
  <2>2. Len(a) = L + 1 /\ a[L + 1] = Byte(v) /\ (\A j \in 1..L : a[j] = w[j]) /\ IsSeq(a)
    BY <1>3 DEF L
  <2> HIDE DEF a
  <2>3. i + 8 * Len(a) = p + 8 /\ i + 8 * ((L + 1) - 1) = p
    BY <1>1, <1>4, <2>2
  <2>4. i + 8 * Len(a) + e = b * (n + 1) /\ Above8(v) = Window(d, b, i + 8 * Len(a)) /\ Above8(v) < 2 ^ e
    BY <1>6, <1>11, <2>3
  <2>5. ASSUME NEW j \in 1..(L + 1) PROVE a[j] = Window(d, b, i + 8 * (j - 1))
    <3>1. CASE j \in 1..L
      BY <1>8, <2>2, <3>1
    <3>2. CASE j = L + 1
      BY <1>6, <1>11, <2>2, <2>3, <3>2
    <3> QED BY <1>4, <3>1, <3>2
  <2>6. \A j \in 1..Len(a) : a[j] = Window(d, b, i + 8 * (j - 1))
    BY <2>2, <2>5
  <2> HIDE DEF e
  <2>7. OnTheWay(d, b, n + 1, i, f, a, e, Above8(v))
    BY <1>1, <1>6, <1>9, <2>1, <2>2, <2>4, <2>6 DEF OnTheWay
  <2> QED BY <2>7 DEF a, e
<1> QED BY <1>10, <1>11

Some(w) == Len(w) # 0
Over(v, f, x, i) == v = f + x * 2 ^ i
LEMMA WayDecoded ==
  ASSUME NEW c, NEW b, NEW n, NEW i, NEW f, NEW w, NEW o, NEW u, OnTheWay(c, b, n, i, f, w, o, u), Some(w),
         NEW d \in [Nat -> Nat], Drops(d, c), NEW v, Over(v, f, w[1], i)
  PROVE  /\ n # 0
         /\ i < b => v % 2 ^ b = c[0] /\ OnTheWay(d, b, n - 1, i + 8 - b, v \div 2 ^ b, Tail(w), o, u)
         /\ i >= b => f % 2 ^ b = c[0] /\ OnTheWay(d, b, n - 1, i - b, f \div 2 ^ b, w, o, u)
<1>1. /\ b \in {6, 7} /\ n \in Nat /\ IsCodes(c, b, n) /\ IsSeq(w) /\ i \in 0..7 /\ o \in 0..7
      /\ i + 8 * Len(w) + o = b * n /\ f = Front(c[0], c[1], b, i)
      /\ u = Window(c, b, i + 8 * Len(w)) /\ u < 2 ^ o
      /\ \A j \in 1..Len(w) : w[j] = Window(c, b, i + 8 * (j - 1))
  BY DEF OnTheWay
<1>2. /\ IsSeq(Tail(w)) /\ Len(Tail(w)) = Len(w) - 1 /\ Len(w) \in Nat \ {0}
      /\ \A j \in 1..(Len(w) - 1) : Tail(w)[j] = w[j + 1]
  BY <1>1, TailSeq DEF Some
<1>0. b \in {6, 7} /\ n \in Nat /\ i \in 0..7 /\ o \in 0..7
  BY <1>1
<1>a. f = Front(c[0], c[1], b, i)
  BY <1>1
<1> DEFINE L == Len(w)
<1>3. L \in Nat \ {0} /\ i + 8 * L + o = b * n
  BY <1>1, <1>2
<1> HIDE DEF L
<1>4. n # 0 /\ n - 1 \in Nat /\ b * (n - 1) = b * n - b /\ b <= i + 8 * L
  <2>1. CASE b = 6
    BY <1>0, <1>3, <2>1
  <2>2. CASE b = 7
    BY <1>0, <1>3, <2>2
  <2> QED BY <1>0, <2>1, <2>2
<1>5. c \in [Nat -> Nat] /\ c[0] \in Nat /\ c[1] \in Nat /\ c[2] \in Nat /\ c[0] < 2 ^ b /\ c[1] < 2 ^ b
  BY <1>1 DEF IsCodes
<1>6. d[0] = c[1] /\ d[1] = c[2] /\ \A k \in Nat : d[k] = c[k + 1]
  <2>1. \A k \in Nat : d[k] = c[k + 1]
    BY DEF Drops
  <2>2. 0 \in Nat /\ 1 \in Nat /\ 0 + 1 = 1 /\ 1 + 1 = 2
    OBVIOUS
  <2>3. d[0] = c[0 + 1] /\ d[1] = c[1 + 1]
    BY <2>1, <2>2
  <2> QED BY <2>1, <2>2, <2>3
<1>7. IsCodes(d, b, n - 1)
  <2>1. \A k \in Nat : k + 1 \in Nat /\ (n - 1 <= k => n <= k + 1)
    BY <1>1
  <2> QED BY <1>1, <1>6, <2>1 DEF IsCodes
<1>8. \A p \in Nat : Window(d, b, p) = Window(c, b, p + b)
  BY <1>0, WindowShift
<1>9. ASSUME i < b
      PROVE  v % 2 ^ b = c[0] /\ OnTheWay(d, b, n - 1, i + 8 - b, v \div 2 ^ b, Tail(w), o, u)
  <2> DEFINE e == i + 8 - b
             t == Tail(w)
  <2>1. e \in 0..7 /\ e + b = i + 8 /\ e \in Nat
    BY <1>0, <1>9
  <2>2. Len(t) = L - 1 /\ (\A j \in 1..(L - 1) : t[j] = w[j + 1]) /\ IsSeq(t)
    BY <1>2 DEF L
  <2> HIDE DEF t
  <2>3. w[1] = Byte(Spread(c[0], c[1], c[2], b, i))
    <3>1. w[1] = Window(c, b, i + 8 * (1 - 1))
      <4>1. 1 \in 1..Len(w)
        BY <1>3 DEF L
      <4> QED BY <1>1, <4>1
    <3>2. i + 8 * (1 - 1) = i /\ i \div b = 0 /\ i % b = i
      <4>1. CASE b = 6
        BY <1>0, <1>9, <4>1
      <4>2. CASE b = 7
        BY <1>0, <1>9, <4>2
      <4> QED BY <1>0, <4>1, <4>2
    <3>3. 0 + 1 = 1 /\ 0 + 2 = 2
      OBVIOUS
    <3> QED BY <3>1, <3>2, <3>3 DEF Window
  <2>r. Ready(b, i, c[0], c[1], c[2])
    BY <1>0, <1>5 DEF Ready
  <2>4. v % 2 ^ b = c[0] /\ v \div 2 ^ b = Front(c[1], c[2], b, i + 8 - b)
    <3>1. v = Front(c[0], c[1], b, i) + Byte(Spread(c[0], c[1], c[2], b, i)) * 2 ^ i
      BY <1>a, <2>3 DEF Over
    <3> QED BY <3>1, <2>r, <1>9, UnpackArithmetic
  <2>5. ASSUME NEW j \in 1..(L - 1) PROVE t[j] = Window(d, b, e + 8 * (j - 1))
    <3> DEFINE q == e + 8 * (j - 1)
    <3>1. q \in Nat /\ q + b = i + 8 * ((j + 1) - 1) /\ j + 1 \in 1..L
      BY <1>1, <1>3, <2>1
    <3> HIDE DEF q
    <3>2. w[j + 1] = Window(c, b, i + 8 * ((j + 1) - 1))
      BY <1>1, <3>1 DEF L
    <3>3. Window(d, b, q) = Window(c, b, q + b)
      BY <1>8, <3>1
    <3> QED BY <2>2, <3>1, <3>2, <3>3 DEF q
  <2>6. e + 8 * Len(t) \in Nat /\ (e + 8 * Len(t)) + b = i + 8 * L /\ e + 8 * Len(t) + o = b * (n - 1)
    BY <1>1, <1>3, <1>4, <2>1, <2>2
  <2>7. u = Window(d, b, e + 8 * Len(t))
    <3>1. u = Window(c, b, i + 8 * L)
      BY <1>1 DEF L
    <3> QED BY <1>8, <2>6, <3>1
  <2>8. \A j \in 1..Len(t) : t[j] = Window(d, b, e + 8 * (j - 1))
    BY <2>2, <2>5
  <2>9. v \div 2 ^ b = Front(d[0], d[1], b, e)
    BY <1>6, <2>4
  <2> HIDE DEF e
  <2>10. OnTheWay(d, b, n - 1, e, v \div 2 ^ b, t, o, u)
    BY <1>1, <1>4, <1>7, <2>1, <2>2, <2>6, <2>7, <2>8, <2>9 DEF OnTheWay
  <2> QED BY <2>4, <2>10 DEF e, t
<1>10. ASSUME i >= b
       PROVE  f % 2 ^ b = c[0] /\ OnTheWay(d, b, n - 1, i - b, f \div 2 ^ b, w, o, u)
  <2> DEFINE e == i - b
  <2>1. e \in 0..7 /\ e + b = i /\ e \in Nat
    BY <1>0, <1>10
  <2>r. Ready(b, i, c[0], c[1], c[2])
    BY <1>0, <1>5 DEF Ready
  <2>2. f % 2 ^ b = c[0] /\ f \div 2 ^ b = Front(c[1], c[2], b, i - b)
    BY <1>a, <2>r, <1>10, FrontArithmetic
  <2>3. ASSUME NEW j \in 1..L PROVE w[j] = Window(d, b, e + 8 * (j - 1))
    <3> DEFINE q == e + 8 * (j - 1)
    <3>1. q \in Nat /\ q + b = i + 8 * (j - 1)
      BY <1>1, <1>3, <2>1
    <3> HIDE DEF q
    <3>2. w[j] = Window(c, b, i + 8 * (j - 1))
      BY <1>1 DEF L
    <3>3. Window(d, b, q) = Window(c, b, q + b)
      BY <1>8, <3>1
    <3> QED BY <3>1, <3>2, <3>3 DEF q
  <2>4. e + 8 * L \in Nat /\ (e + 8 * L) + b = i + 8 * L /\ e + 8 * L + o = b * (n - 1)
    BY <1>1, <1>3, <1>4, <2>1
  <2>5. u = Window(d, b, e + 8 * L)
    <3>1. u = Window(c, b, i + 8 * L)
      BY <1>1 DEF L
    <3> QED BY <1>8, <2>4, <3>1
  <2>6. f \div 2 ^ b = Front(d[0], d[1], b, e)
    BY <1>6, <2>2
  <2> HIDE DEF e
  <2>7. OnTheWay(d, b, n - 1, e, f \div 2 ^ b, w, o, u)
    BY <1>1, <1>4, <1>7, <2>1, <2>3, <2>4, <2>5, <2>6 DEF OnTheWay, L
  <2> QED BY <2>2, <2>7 DEF e
<1> QED BY <1>4, <1>9, <1>10

-----------------------------------------------------------------------------
\* n codes of s on their way: a byte each, or packed.
CodesOf(s) == [k \in Nat |-> IF k < Len(s) THEN s[k + 1].bits ELSE 0]
Carries(packed, bits, s, w, i, f, o, u) ==
  IF packed THEN OnTheWay(CodesOf(s), bits, Len(s), i, f, w, o, u)
  ELSE Len(w) = Len(s) /\ i = 0 /\ o = 0 /\ \A k \in 1..Len(s) : w[k] = s[k].bits

LEMMA CodesAdded ==
  ASSUME NEW s, IsSeq(s), NEW x
  PROVE  Adds(CodesOf(Append(s, x)), CodesOf(s), Len(s), x.bits)
<1> DEFINE t == Append(s, x)
           n == Len(s)
<1>1. n \in Nat /\ Len(t) = n + 1 /\ (\A k \in 1..n : t[k] = s[k]) /\ t[n + 1] = x
  BY AppendSeq
<1>2. CodesOf(t) = [k \in Nat |-> IF k < Len(t) THEN t[k + 1].bits ELSE 0]
  BY DEF CodesOf
<1>3. CodesOf(s) = [k \in Nat |-> IF k < n THEN s[k + 1].bits ELSE 0]
  BY DEF CodesOf
<1> HIDE DEF t, n
<1>4. ASSUME NEW k \in Nat
      PROVE  (IF k < Len(t) THEN t[k + 1].bits ELSE 0) = [CodesOf(s) EXCEPT ![n] = x.bits][k]
  <2>1. CASE k < n
    <3>1. k + 1 \in 1..n /\ k < n + 1 /\ k # n
      BY <1>1, <2>1
    <3> QED BY <1>1, <1>3, <2>1, <3>1
  <2>2. CASE k = n
    BY <1>1, <1>3, <2>2
  <2>3. CASE k > n
    <3>1. ~(k < n + 1) /\ ~(k < n) /\ k # n
      BY <1>1, <2>3
    <3> QED BY <1>1, <1>3, <3>1
  <2> QED BY <1>1, <2>1, <2>2, <2>3
<1>5. [CodesOf(s) EXCEPT ![n] = x.bits] = [k \in Nat |-> [CodesOf(s) EXCEPT ![n] = x.bits][k]]
  BY <1>3
<1>6. CodesOf(t) = [CodesOf(s) EXCEPT ![n] = x.bits]
  BY <1>2, <1>4, <1>5
<1> QED BY <1>6 DEF Adds, t, n

LEMMA CodesDropped ==
  ASSUME NEW s, IsSeq(s), Some(s)
  PROVE  /\ Drops(CodesOf(Tail(s)), CodesOf(s)) /\ CodesOf(s)[0] = s[1].bits
         /\ CodesOf(s) \in [Nat -> Nat] => CodesOf(Tail(s)) \in [Nat -> Nat]
<1> DEFINE t == Tail(s)
           n == Len(s)
<1>1. n \in Nat \ {0} /\ Len(t) = n - 1 /\ (\A k \in 1..(n - 1) : t[k] = s[k + 1])
  BY TailSeq DEF Some
<1>2. CodesOf(t) = [k \in Nat |-> IF k < Len(t) THEN t[k + 1].bits ELSE 0]
  BY DEF CodesOf
<1>3. CodesOf(s) = [k \in Nat |-> IF k < n THEN s[k + 1].bits ELSE 0]
  BY DEF CodesOf
<1> HIDE DEF t, n
<1>4. ASSUME NEW k \in Nat PROVE CodesOf(t)[k] = CodesOf(s)[k + 1]
  <2>1. CASE k < n - 1
    <3>1. k + 1 \in 1..(n - 1) /\ k + 1 < n /\ k + 1 \in Nat
      BY <1>1, <2>1
    <3>2. t[k + 1] = s[(k + 1) + 1]
      BY <1>1, <3>1
    <3> QED BY <1>1, <1>2, <1>3, <2>1, <3>1, <3>2
  <2>2. CASE ~(k < n - 1)
    <3>1. ~(k + 1 < n) /\ k + 1 \in Nat
      BY <1>1, <2>2
    <3> QED BY <1>1, <1>2, <1>3, <2>2, <3>1
  <2> QED BY <2>1, <2>2
<1>5. CodesOf(s)[0] = s[1].bits
  <2>1. 0 < n /\ 0 \in Nat /\ 0 + 1 = 1
    BY <1>1
  <2> QED BY <1>3, <2>1
<1>6. ASSUME CodesOf(s) \in [Nat -> Nat] PROVE CodesOf(t) \in [Nat -> Nat]
  <2>1. \A k \in Nat : CodesOf(t)[k] \in Nat
    BY <1>4, <1>6
  <2> QED BY <1>2, <2>1
<1> QED BY <1>4, <1>5, <1>6 DEF Drops, t

LEMMA CarriesEncoded ==
  ASSUME NEW e, NEW s, NEW w, NEW i, NEW f, Carries(e.packed, e.bits, s, w, i, f, e.out_bits, e.out_buffer),
         IsSeq(s), IsSeq(w), e.packed \in BOOLEAN, NEW code, IsCode(code, e.bits),
         NEW x, x.bits = code.bits, NEW pack, pack = Packs(e, code)
  PROVE  /\ Carries(e.packed, e.bits, Append(s, x), w \o pack.out, i, f, pack.bits, pack.buffer)
         /\ IsSeq(w \o pack.out)
<1>1. CASE e.packed
  <2> DEFINE v == e.out_buffer + code.bits * 2 ^ e.out_bits
             b == e.bits
             o == e.out_bits
  <2>1. OnTheWay(CodesOf(s), b, Len(s), i, f, w, o, e.out_buffer)
    BY <1>1 DEF Carries
  <2>2. b \in {6, 7} /\ o \in 0..7
    BY <2>1 DEF OnTheWay
  <2>3. code.bits \in Nat /\ code.bits < 2 ^ b
    <3>1. code.low \in 0..63 /\ code.high \in 0..3 /\ code.bits = (code.high * 64 + code.low) \div Dropped(b)
      BY DEF IsCode
    <3>2. CASE b = 6
      <4>1. code.bits \in 0..63
        BY <3>1, <3>2 DEF Dropped
      <4>2. 2 ^ b = 64
        BY <3>2, Powers
      <4> QED BY <4>1, <4>2
    <3>3. CASE b = 7
      <4>1. code.bits \in 0..127
        BY <3>1, <3>3 DEF Dropped
      <4>2. 2 ^ b = 128
        BY <3>3, Powers
      <4> QED BY <4>1, <4>2
    <3> QED BY <2>2, <3>2, <3>3
  <2>4. Adds(CodesOf(Append(s, x)), CodesOf(s), Len(s), code.bits) /\ Len(Append(s, x)) = Len(s) + 1
    BY CodesAdded, AppendSeq
  <2>5. /\ o + b < 8 => OnTheWay(CodesOf(Append(s, x)), b, Len(s) + 1, i, f, w, o + b, v)
        /\ o + b >= 8 => OnTheWay(CodesOf(Append(s, x)), b, Len(s) + 1, i, f, Append(w, Byte(v)), o + b - 8, Above8(v))
    BY <2>1, <2>3, <2>4, WayEncoded
  <2>6. IsSeq(Append(w, Byte(v))) /\ w \o <<Byte(v)>> = Append(w, Byte(v)) /\ w \o <<>> = w
    <3>1. PICK S : w \in Seq(S)
      BY DEF IsSeq
    <3>2. w \o <<>> = w
      BY <3>1
    <3> QED BY <3>2, AppendSeq
  <2>7. CASE o + b >= 8
    <3>1. pack.out = <<Byte(v)>> /\ pack.buffer = Above8(v) /\ pack.bits = o + b - 8
      <4> DEFINE y == Byte(v)
                 z == Above8(v)
                 r == (o + b) - 8
      <4>1. pack = [out |-> <<y>>, buffer |-> z, bits |-> r]
        BY <1>1, <2>7 DEF Packs, Byte, Above8
      <4> HIDE DEF y, z, r, v
      <4>2. pack.out = <<y>> /\ pack.buffer = z /\ pack.bits = r
        BY <4>1
      <4>3. r = o + b - 8
        BY <2>2 DEF r
      <4> QED BY <4>2, <4>3 DEF y, z
    <3> HIDE DEF v
    <3> QED BY <1>1, <2>4, <2>5, <2>6, <2>7, <3>1 DEF Carries
  <2>8. CASE o + b < 8
    <3>0. ~(o + b >= 8)
      BY <2>2, <2>8
    <3>1. pack.out = <<>> /\ pack.buffer = v /\ pack.bits = o + b
      BY <1>1, <3>0 DEF Packs
    <3> HIDE DEF v
    <3> QED BY <1>1, <2>4, <2>5, <2>6, <2>8, <3>1 DEF Carries
  <2> QED BY <2>2, <2>7, <2>8
<1>2. CASE ~e.packed
  <2> DEFINE n == Len(s)
  <2>1. pack.out = <<code.bits>> /\ pack.bits = e.out_bits
    BY <1>2 DEF Packs
  <2>2. Len(w) = n /\ i = 0 /\ e.out_bits = 0 /\ \A k \in 1..n : w[k] = s[k].bits
    BY <1>2 DEF Carries
  <2>3. /\ n \in Nat /\ Len(Append(s, x)) = n + 1 /\ Append(s, x)[n + 1] = x
        /\ \A k \in 1..n : Append(s, x)[k] = s[k]
    BY AppendSeq
  <2>4. /\ IsSeq(Append(w, code.bits)) /\ Len(Append(w, code.bits)) = n + 1 /\ Append(w, code.bits)[n + 1] = code.bits
        /\ w \o <<code.bits>> = Append(w, code.bits) /\ \A k \in 1..n : Append(w, code.bits)[k] = w[k]
    BY <2>2, AppendSeq
  <2> DEFINE a == Append(w, code.bits)
             t == Append(s, x)
  <2> HIDE DEF n, a, t
  <2>5. ASSUME NEW k \in 1..(n + 1) PROVE a[k] = t[k].bits
    <3>1. CASE k \in 1..n
      BY <2>2, <2>3, <2>4, <3>1 DEF a, t
    <3>2. CASE k = n + 1
      <4>1. a[k] = code.bits /\ t[k] = x
        BY <2>3, <2>4, <3>2 DEF a, t
      <4>2. x.bits = code.bits
        OBVIOUS
      <4> QED BY <4>1, <4>2
    <3> QED BY <2>3, <3>1, <3>2
  <2>6. Len(t) = n + 1 /\ Len(a) = n + 1 /\ IsSeq(a) /\ w \o pack.out = a
    BY <2>1, <2>3, <2>4 DEF a, t
  <2>7. Carries(e.packed, e.bits, t, a, i, f, pack.bits, pack.buffer)
    BY <1>2, <2>1, <2>2, <2>5, <2>6 DEF Carries
  <2> QED BY <2>6, <2>7 DEF t
<1> QED BY <1>1, <1>2

LEMMA CarriesDecoded ==
  ASSUME NEW e, NEW s, NEW w, NEW o, NEW u, Carries(e.packed, e.bits, s, w, e.in_bits, e.in_buffer, o, u),
         IsSeq(s), IsSeq(w), Some(w), e.packed \in BOOLEAN, NEW got, got = Unpacks(e, w)
  PROVE  /\ Some(s) /\ got.code = s[1].bits /\ IsSeq(got.rest)
         /\ Carries(e.packed, e.bits, Tail(s), got.rest, got.bits, got.buffer, o, u)
<1>0. /\ IsSeq(Tail(w)) /\ Len(Tail(w)) = Len(w) - 1 /\ Len(w) \in Nat \ {0} /\ Head(w) = w[1]
      /\ \A k \in 1..(Len(w) - 1) : Tail(w)[k] = w[k + 1]
  BY TailSeq DEF Some
<1>1. CASE e.packed
  <2> DEFINE v == e.in_buffer + w[1] * 2 ^ e.in_bits
             b == e.bits
             i == e.in_bits
             f == e.in_buffer
             n == Len(s)
             c == CodesOf(s)
             d == CodesOf(Tail(s))
  <2>1. OnTheWay(c, b, n, i, f, w, o, u)
    BY <1>1 DEF Carries
  <2>2. c \in [Nat -> Nat] /\ i \in Nat /\ b \in {6, 7}
    <3>1. OnTheWay(c, b, n, i, f, w, o, u) => IsCodes(c, b, n) /\ i \in 0..7 /\ b \in {6, 7}
      <4> HIDE DEF c, n
      <4> QED BY Zenon DEF OnTheWay
    <3>2. IsCodes(c, b, n) => c \in [Nat -> Nat]
      <4> HIDE DEF c, n
      <4> QED BY DEF IsCodes
    <3> HIDE DEF c, n
    <3> QED BY <2>1, <3>1, <3>2
  <2>3. n # 0
    <3>1. OnTheWay(c, b, n, i, f, w, o, u) => n # 0
      <4>1. c \in [Nat -> Nat]
        BY <2>2
      <4> DEFINE h == [k \in Nat |-> c[k + 1]]
      <4>2. h \in [Nat -> Nat] /\ Drops(h, c)
        BY <4>1 DEF Drops
      <4> HIDE DEF h, c, n
      <4>3. Over(v, f, w[1], i)
        BY DEF Over
      <4> QED BY <4>2, <4>3, WayDecoded
    <3> QED BY <2>1, <3>1
  <2>4. Some(s)
    BY <2>3 DEF Some
  <2>5. Drops(d, c) /\ d \in [Nat -> Nat] /\ c[0] = s[1].bits
    BY <2>2, <2>4, CodesDropped
  <2>6. Len(Tail(s)) = n - 1
    BY <2>4, TailSeq DEF Some
  <2>7. Over(v, f, w[1], i)
    BY DEF Over
  <2> HIDE DEF c, d, v
  <2>8. /\ i < b => v % 2 ^ b = c[0] /\ OnTheWay(d, b, n - 1, i + 8 - b, v \div 2 ^ b, Tail(w), o, u)
        /\ i >= b => f % 2 ^ b = c[0] /\ OnTheWay(d, b, n - 1, i - b, f \div 2 ^ b, w, o, u)
    BY <2>1, <2>5, <2>7, WayDecoded
  <2>9. CASE i < b
    <3>1. /\ got.code = v % 2 ^ b /\ got.rest = Tail(w) /\ got.buffer = v \div 2 ^ b /\ got.bits = i + 8 - b
      <4> DEFINE z == 2 ^ b
                 q == v % z
                 h == v \div z
                 r == (i + 8) - b
                 t == Tail(w)
      <4>1. Head(w) = w[1]
        BY <1>0
      <4>2. got = [code |-> q, rest |-> t, buffer |-> h, bits |-> r]
        BY <1>1, <2>9, <4>1 DEF Unpacks, v
      <4> HIDE DEF z, q, h, r, t
      <4>3. got.code = q /\ got.rest = t /\ got.buffer = h /\ got.bits = r
        BY <4>2
      <4>4. r = i + 8 - b
        BY <2>2 DEF r
      <4> QED BY <4>3, <4>4 DEF z, q, h, t
    <3> QED BY <1>0, <1>1, <2>4, <2>5, <2>6, <2>8, <2>9, <3>1 DEF Carries, d
  <2>10. CASE ~(i < b)
    <3>1. /\ got.code = f % 2 ^ b /\ got.rest = w /\ got.buffer = f \div 2 ^ b /\ got.bits = i - b
      <4> DEFINE z == 2 ^ b
      <4>1. got = [code |-> f % z, rest |-> w, buffer |-> f \div z, bits |-> i - b]
        BY <1>1, <2>10 DEF Unpacks
      <4> HIDE DEF z
      <4>2. got.code = f % z /\ got.rest = w /\ got.buffer = f \div z /\ got.bits = i - b
        BY <4>1
      <4> QED BY <4>2 DEF z
    <3>2. i >= b
      BY <2>2, <2>10
    <3> QED BY <1>1, <2>4, <2>5, <2>6, <2>8, <3>1, <3>2 DEF Carries, d
  <2> QED BY <2>9, <2>10
<1>2. CASE ~e.packed
  <2> DEFINE n == Len(s)
  <2>1. got.code = Head(w) /\ got.rest = Tail(w) /\ got.bits = e.in_bits
    BY <1>2 DEF Unpacks
  <2>2. Len(w) = n /\ e.in_bits = 0 /\ o = 0 /\ \A k \in 1..n : w[k] = s[k].bits
    BY <1>2 DEF Carries
  <2>3. n \in Nat \ {0} /\ Some(s)
    BY <1>0, <2>2 DEF Some
  <2>4. Len(Tail(s)) = n - 1 /\ \A k \in 1..(n - 1) : Tail(s)[k] = s[k + 1]
    BY <2>3, TailSeq DEF Some
  <2> HIDE DEF n
  <2>5. \A k \in 1..(n - 1) : k + 1 \in 1..n
    BY <2>3
  <2>6. \A k \in 1..(n - 1) : Tail(w)[k] = Tail(s)[k].bits
    BY <1>0, <2>2, <2>4, <2>5
  <2>7. w[1] = s[1].bits
    <3>1. 1 \in 1..n
      BY <2>3
    <3> QED BY <2>2, <3>1
  <2> QED BY <1>0, <1>2, <2>1, <2>2, <2>3, <2>4, <2>6, <2>7 DEF Carries
<1> QED BY <1>1, <1>2

-----------------------------------------------------------------------------
\* A band holds numbers: what its filters make of them are numbers of sixteen bits, and its step fits
\* the quantiser.
IsWord(x) == x \in Int /\ -32768 <= x /\ x <= 32767
Numbers(g) == /\ IsWord(g.s) /\ g.r[1] \in Int
              /\ \A i \in 1..6 : g.d[i] \in Int /\ g.b[i] \in Int
Quantised(g) == Numbers(g) /\ g.det \in Nat /\ g.det <= 16384

LEMMA SaturateWord == ASSUME NEW v \in Int PROVE IsWord(Saturate(v))
BY DEF Saturate, IsWord

LEMMA FiltepInt ==
  ASSUME NEW a, NEW r, a[1] \in Int, a[2] \in Int, r[1] \in Int, r[2] \in Int
  PROVE  EncFiltep(a, r) \in Int
<1> DEFINE x == Saturate(2 * r[1])
           y == Saturate(2 * r[2])
<1>1. x \in Int /\ y \in Int
  BY SaturateInt
<1> HIDE DEF x, y
<1>2. (a[1] * x) \div 32768 \in Int /\ (a[2] * y) \div 32768 \in Int
  BY <1>1
<1>3. (a[1] * x) \div 32768 + (a[2] * y) \div 32768 \in Int
  BY <1>2
<1> QED BY <1>3, SaturateInt DEF EncFiltep, x, y

LEMMA FiltezInt ==
  ASSUME NEW b, NEW d, \A i \in 1..6 : b[i] \in Int /\ d[i] \in Int
  PROVE  EncFiltez(b, d) \in Int
<1>1. ASSUME NEW i \in 1..6 PROVE EncTap(b, d, i) \in Int
  <2> DEFINE x == Saturate(2 * d[i])
  <2>1. x \in Int /\ b[i] \in Int
    BY SaturateInt
  <2> HIDE DEF x
  <2>2. (b[i] * x) \div 32768 \in Int
    BY <2>1
  <2> QED BY <2>2 DEF EncTap, x
<1>2. EncTap(b, d, 6) + EncTap(b, d, 5) + EncTap(b, d, 4)
        + EncTap(b, d, 3) + EncTap(b, d, 2) + EncTap(b, d, 1) \in Int
  BY <1>1
<1> QED BY <1>2, SaturateInt DEF EncFiltez

LEMMA UpzeroInt ==
  ASSUME NEW g, NEW d, NEW i, g.b[i] \in Int PROVE EncUpzero(g, d, i) \in Int
<1> DEFINE x == IF g.d[i] \div 32768 = d \div 32768 THEN (IF d = 0 THEN 0 ELSE 128) ELSE -(IF d = 0 THEN 0 ELSE 128)
           y == (g.b[i] * 32640) \div 32768
<1>1. x \in Int /\ y \in Int
  OBVIOUS
<1>2. EncUpzero(g, d, i) = Saturate(x + y)
  BY DEF EncUpzero
<1> HIDE DEF x, y
<1>3. x + y \in Int
  BY <1>1
<1> QED BY <1>2, <1>3, SaturateInt

LEMMA Block4Numbers ==
  ASSUME NEW g, IsBand(g), DOMAIN g = DOMAIN Silent(0), Numbers(g), NEW d \in Int
  PROVE  Numbers(EncBlock4(g, d)) /\ EncBlock4(g, d).det = g.det
<1> DEFINE p0 == Saturate(g.sz + d)
           a2 == EncUppol2(g, p0)
           a1 == EncUppol1(g, p0, a2)
           an == <<a1, a2>>
           rn == <<Saturate(g.s + d), g.r[1]>>
           bn == [i \in 1..6 |-> EncUpzero(g, d, i)]
           dn == [i \in 1..6 |-> IF i = 1 THEN d ELSE g.d[i - 1]]
           sz == EncFiltez(bn, dn)
           s == Saturate(EncFiltep(an, rn) + sz)
           e == EncBlock4(g, d)
<1>1. e = [g EXCEPT !.p = <<p0, g.p[1]>>, !.a = an, !.r = rn, !.b = bn, !.d = dn, !.sz = sz, !.s = s]
  BY DEF EncBlock4
<1>2. a1 \in Int /\ a2 \in Int
  <2> HIDE DEF p0
  <2>1. a2 \in Int /\ -12288 <= a2 /\ a2 <= 12288
    BY Uppol2Agree
  <2> HIDE DEF a2
  <2> QED BY <2>1, Uppol1Agree
<1>3. Saturate(g.s + d) \in Int /\ g.r[1] \in Int
  <2>1. g.s + d \in Int
    BY DEF Numbers, IsWord
  <2> QED BY <2>1, SaturateInt DEF Numbers
<1>4. \A i \in 1..6 : bn[i] \in Int
  BY UpzeroInt DEF Numbers
<1>5. \A i \in 1..6 : dn[i] \in Int
  <2>1. ASSUME NEW i \in 1..6 PROVE dn[i] \in Int
    <3>1. CASE i = 1
      BY <3>1
    <3>2. CASE i # 1
      <4>1. i - 1 \in 1..6
        BY <3>2
      <4> QED BY <3>2, <4>1 DEF Numbers
    <3> QED BY <3>1, <3>2
  <2> QED BY <2>1
<1> HIDE DEF p0, a1, a2, bn, dn
<1>6. sz \in Int
  BY <1>4, <1>5, FiltezInt
<1>7. EncFiltep(an, rn) \in Int
  <2> DEFINE q == Saturate(g.s + d)
             h == g.r[1]
  <2>1. q \in Int /\ h \in Int
    BY <1>3
  <2> HIDE DEF q, h
  <2>2. an[1] \in Int /\ an[2] \in Int /\ <<q, h>>[1] \in Int /\ <<q, h>>[2] \in Int
    BY <1>2, <2>1
  <2> HIDE DEF an
  <2>3. EncFiltep(an, <<q, h>>) \in Int
    BY <2>2, FiltepInt
  <2> QED BY <2>3 DEF q, h
<1>8. IsWord(s)
  <2> HIDE DEF sz, an, rn
  <2>1. EncFiltep(an, rn) + sz \in Int
    BY <1>6, <1>7
  <2> QED BY <2>1, SaturateWord
<1>9. rn[1] \in Int
  BY <1>3
<1> HIDE DEF s, sz, an, rn
<1>10. /\ e.s = s /\ e.r = rn /\ e.b = bn /\ e.d = dn /\ e.det = g.det
  <2>1. DOMAIN g = {"s", "sz", "r", "p", "a", "d", "b", "nb", "det"}
    BY DEF Silent
  <2> HIDE DEF e
  <2> QED BY <1>1, <2>1
<1> QED BY <1>4, <1>5, <1>8, <1>9, <1>10 DEF Numbers

LEMMA IlbRange == ASSUME NEW k \in 0..31 PROVE ilb[k + 1] \in Nat /\ ilb[k + 1] <= 4096 /\ (k = 0 => ilb[k + 1] = 2048)
BY DEF ilb

IsLevel(x) == x \in Nat /\ x <= 4096
LEMMA Halved == ASSUME NEW x, IsLevel(x), NEW k \in 0..8 PROVE IsLevel(x \div 2 ^ k)
<1>1. k = 0 => 2 ^ k = 1
  BY Powers
<1>2. k = 1 => 2 ^ k = 2
  BY Powers
<1>3. k = 2 => 2 ^ k = 4
  BY Powers
<1>4. k = 3 => 2 ^ k = 8
  BY Powers
<1>5. k = 4 => 2 ^ k = 16
  BY Powers
<1>6. k = 5 => 2 ^ k = 32
  BY Powers
<1>7. k = 6 => 2 ^ k = 64
  BY Powers
<1>8. k = 7 => 2 ^ k = 128
  BY Powers
<1>9. k = 8 => 2 ^ k = 256
  BY Powers
<1> DEFINE m == 2 ^ k
<1>10. m \in {1, 2, 4, 8, 16, 32, 64, 128, 256}
  BY <1>1, <1>2, <1>3, <1>4, <1>5, <1>6, <1>7, <1>8, <1>9
<1> HIDE DEF m
<1>11. IsLevel(x \div m)
  BY <1>10 DEF IsLevel
<1> QED BY <1>11 DEF m

IsScale(nb) == nb \in Nat /\ nb <= 18432
LEMMA LogsclScale == ASSUME NEW nb \in Int, NEW w \in Int PROVE IsScale(EncLogscl(nb, w, 18432))
BY DEF EncLogscl, IsScale

LEMMA ScaleRange == ASSUME NEW nb, IsScale(nb) PROVE EncScale(nb, 8) \in Nat /\ EncScale(nb, 8) <= 16384
<1> DEFINE k == (nb \div 64) % 32
           h == nb \div 2048
           wd1 == ilb[k + 1]
<1>1. k \in 0..31 /\ h \in 0..9 /\ (h = 9 => k = 0)
  BY DEF IsScale
<1>2. EncScale(nb, 8) = 4 * (IF 8 - h < 0 THEN wd1 * 2 ^ (-(8 - h)) ELSE wd1 \div 2 ^ (8 - h))
  BY DEF EncScale
<1> HIDE DEF k, h
<1>3. wd1 \in Nat /\ wd1 <= 4096 /\ (k = 0 => wd1 = 2048)
  BY <1>1, IlbRange
<1> HIDE DEF wd1
<1>4. CASE h = 9
  <2> DEFINE m == 8 - h
  <2>0. m \in Int /\ m + 1 = 0
    BY <1>4
  <2> HIDE DEF m
  <2>1. -m = 1 /\ m < 0
    BY <2>0
  <2>2. 2 ^ (-m) = 2
    <3>1. 2 ^ 1 = 2
      BY Powers
    <3> QED BY <2>1, <3>1, Zenon
  <2>3. wd1 = 2048
    BY <1>1, <1>3, <1>4
  <2>4. EncScale(nb, 8) = 4 * (wd1 * 2)
    BY <1>2, <2>1, <2>2 DEF m
  <2> QED BY <2>3, <2>4
<1>5. CASE h # 9
  <2>1. 8 - h \in 0..8 /\ ~(8 - h < 0)
    BY <1>1, <1>3, <1>5
  <2> DEFINE x == wd1 \div 2 ^ (8 - h)
  <2>2. EncScale(nb, 8) = 4 * x
    BY <1>2, <2>1
  <2>3. x \in Nat /\ x <= 4096
    <3>1. PICK k8 \in 0..8 : 8 - h = k8
      BY <2>1
    <3>2. IsLevel(wd1)
      BY <1>3 DEF IsLevel
    <3>3. IsLevel(wd1 \div 2 ^ k8)
      BY <3>1, <3>2, Zenon, Halved
    <3>4. IsLevel(wd1 \div 2 ^ (8 - h))
      BY <3>1, <3>3, Zenon
    <3> QED BY <3>4 DEF IsLevel, x
  <2> HIDE DEF x
  <2> QED BY <2>2, <2>3
<1> QED BY <1>4, <1>5

LEMMA LowBandNumbers ==
  ASSUME NEW g, GoodBand(g, 18432), Quantised(g), NEW ilow \in 0..63
  PROVE  Quantised(EncLowBand(g, ilow))
<1> DEFINE ril == ilow \div 4
           w == wl[rl42[ril + 1] + 1]
           nb == EncLogscl(g.nb, w, 18432)
           det == EncScale(nb, 8)
           d == (g.det * qm4[ril + 1]) \div 32768
           k == [g EXCEPT !.nb = nb, !.det = det]
<1>1. ril \in 0..15
  OBVIOUS
<1>2. EncLowBand(g, ilow) = EncBlock4(k, d)
  BY DEF EncLowBand
<1> HIDE DEF ril
<1>3. w \in Int
  <2>1. rl42[ril + 1] \in 0..7
    BY <1>1 DEF rl42
  <2>2. \A i \in 0..7 : wl[i + 1] \in Int
    BY DEF wl
  <2> QED BY <2>1, <2>2
<1>4. d \in Int
  <2> DEFINE q == qm4[ril + 1]
  <2>1. q \in Int
    BY <1>1 DEF qm4
  <2> HIDE DEF q
  <2>2. (g.det * q) \div 32768 \in Int
    BY <2>1 DEF Quantised
  <2> QED BY <2>2 DEF q
<1> HIDE DEF w, d
<1>5. IsScale(nb)
  <2>1. g.nb \in Int
    BY DEF GoodBand, IsBand
  <2> QED BY <1>3, <2>1, LogsclScale
<1> HIDE DEF nb
<1>6. det \in Nat /\ det <= 16384
  BY <1>5, ScaleRange
<1> HIDE DEF det
<1>7. /\ DOMAIN k = DOMAIN Silent(0) /\ k.nb = nb /\ k.a = g.a /\ k.det = det
      /\ k.s = g.s /\ k.r = g.r /\ k.d = g.d /\ k.b = g.b
  BY DEF GoodBand, Silent
<1> HIDE DEF k
<1>8. IsBand(k) /\ Numbers(k)
  BY <1>5, <1>7 DEF IsBand, IsScale, GoodBand, Quantised, Numbers
<1>9. Numbers(EncBlock4(k, d)) /\ EncBlock4(k, d).det = det
  BY <1>4, <1>7, <1>8, Block4Numbers
<1> QED BY <1>2, <1>6, <1>9 DEF Quantised

-----------------------------------------------------------------------------
\* The quantiser: the interval of a difference, and the level it is decoded to.
Threshold(i, det) == (q6[i] * det) \div 4096
Lower(i) == IF i = 1 THEN 0 ELSE q6[i - 1]

LEMMA IndexFirst ==
  ASSUME NEW e, NEW det
  PROVE  /\ EncIndex(e, det) \in 1..30
         /\ EncIndex(e, det) # 30 => Magnitude(e) < Threshold(EncIndex(e, det), det)
         /\ \A j \in 1..29 : Magnitude(e) < Threshold(j, det) => EncIndex(e, det) <= j
<1> DEFINE below == {i \in 1..29 : Magnitude(e) < (q6[i] * det) \div 4096} \cup {30}
           i == EncIndex(e, det)
<1>0. i \in 1..30
  BY IndexRange
<1>1. i = CHOOSE k \in below : \A j \in below : k <= j
  BY DEF EncIndex
<1>2. below \subseteq Nat /\ below # {}
  OBVIOUS
<1>3. \A j : j \in below <=> j = 30 \/ (j \in 1..29 /\ Magnitude(e) < Threshold(j, det))
  BY DEF Threshold
<1> HIDE DEF below, i
<1>4. \E k \in below : \A j \in below : k <= j
  BY <1>2, LeastExists
<1>5. i \in below /\ \A j \in below : i <= j
  BY <1>1, <1>4
<1> QED BY <1>0, <1>3, <1>5 DEF i

LEMMA IlpAt == \A i \in 1..29 : ilp[i] = 62 - i
BY DEF ilp
LEMMA IlnAt == \A i \in 1..29 : iln[i] = IF i <= 2 THEN 64 - i ELSE 34 - i
BY DEF iln
LEMMA ThresholdsRise == \A i \in 1..29 : q6[i] \in Nat /\ q6[i] <= 2919
BY DEF q6
LEMMA LevelsAbove == \A i \in 1..29 : qm6[63 - i] \in Int /\ 8 * Lower(i) <= qm6[63 - i] /\ qm6[63 - i] <= 8 * q6[i]
BY DEF q6, qm6, Lower
LEMMA LevelsBelow ==
  \A i \in 1..29 : \A k \in {IF i <= 2 THEN 65 - i ELSE 35 - i} :
     qm6[k] \in Int /\ 8 * Lower(i) <= 0 - qm6[k] /\ 0 - qm6[k] <= 8 * q6[i]
BY DEF q6, qm6, Lower

LEMMA Grows == ASSUME NEW a \in Int, NEW b \in Int, NEW n \in Nat, a <= b PROVE a * n <= b * n
OBVIOUS
LEMMA Differs == ASSUME NEW a \in Int, NEW b \in Int, NEW n \in Nat PROVE (a - b) * n = a * n - b * n
OBVIOUS
LEMMA Eightfold == ASSUME NEW a \in Int, NEW n \in Nat PROVE (8 * a) * n = 8 * (a * n)
OBVIOUS

LEMMA Floors ==
  ASSUME NEW X \in Int, NEW Y \in Int, NEW C \in Int, 8 * X <= C, C <= 8 * Y
  PROVE  /\ X \div 4096 <= C \div 32768 /\ C \div 32768 <= Y \div 4096
         /\ 0 - (Y \div 4096) - 1 <= (0 - C) \div 32768 /\ (0 - C) \div 32768 <= 0 - (X \div 4096)
         /\ Y \div 4096 - X \div 4096 <= (Y - X) \div 4096 + 1
OBVIOUS

LEMMA LimitClose ==
  ASSUME NEW a \in Int, NEW b \in Int, NEW D \in Int, a - b <= D, b - a <= D, 0 <= D
  PROVE  Limit(a) - Limit(b) <= D /\ Limit(b) - Limit(a) <= D
BY DEF Limit

LEMMA LimitWide ==
  ASSUME NEW a \in Int, NEW b \in Int
  PROVE  Limit(a) - Limit(b) <= 65536 /\ Limit(b) - Limit(a) <= 65536
BY DEF Limit

\* What the decoder makes of a code in the bands p, against what the code was made of.
Level(g, low) == (g.det * qm6[low + 1]) \div 32768
Near(g, c) == LET r == Limit(g.s + Level(g, c.low))
              IN  r - c.aim <= c.slack /\ c.aim - r <= c.slack

\* A difference and the level of its code lie in the same interval, but for the roundings.
LEMMA LevelWithin ==
  ASSUME NEW g, g.det \in Nat, NEW e \in Int, EncIndex(e, g.det) # 30
  PROVE  LET W == Level(g, EncLow(e, g.det))
             i == EncIndex(e, g.det)
             D == ((q6[i] - Lower(i)) * g.det) \div 4096
         IN  W \in Int /\ D \in Int /\ 0 <= D /\ W - e <= D + 2 /\ e - W <= D + 2
<1> DEFINE i == EncIndex(e, g.det)
           det == g.det
           lo == Lower(i)
           hi == q6[i]
           D == ((hi - lo) * det) \div 4096
           A == (lo * det) \div 4096
           B == (hi * det) \div 4096
           W == Level(g, EncLow(e, g.det))
<1>1. i \in 1..29
  BY IndexFirst
<1>2. Magnitude(e) < B
  BY IndexFirst DEF Threshold
<1>3. \A j \in 1..29 : j < i => ~(Magnitude(e) < Threshold(j, det))
  <2>1. i \in 1..30 /\ \A j \in 1..29 : Magnitude(e) < Threshold(j, det) => i <= j
    BY IndexFirst
  <2> HIDE DEF i
  <2> QED BY <2>1
<1>4. EncLow(e, g.det) = IF e < 0 THEN iln[i] ELSE ilp[i]
  BY DEF EncLow
<1>5. det \in Nat
  OBVIOUS
<1> HIDE DEF i, det
<1>6. hi \in Nat /\ lo \in Nat /\ lo <= hi
  <2>1. hi \in Nat
    BY <1>1, ThresholdsRise
  <2>2. lo \in Nat
    <3>1. CASE i = 1
      BY <3>1 DEF Lower
    <3>2. CASE i # 1
      <4>1. i - 1 \in 1..29
        BY <1>1, <3>2
      <4> QED BY <3>2, <4>1, ThresholdsRise DEF Lower
    <3> QED BY <3>1, <3>2
  <2>3. qm6[63 - i] \in Int /\ 8 * lo <= qm6[63 - i] /\ qm6[63 - i] <= 8 * hi
    BY <1>1, LevelsAbove
  <2> HIDE DEF hi, lo
  <2> QED BY <2>1, <2>2, <2>3
<1>7. Magnitude(e) \in Int /\ 0 <= Magnitude(e)
  BY DEF Magnitude
<1>8. A <= Magnitude(e)
  <2>1. CASE i = 1
    <3>1. lo = 0
      BY <2>1 DEF Lower
    <3>2. lo * det = 0
      BY <1>5, <3>1
    <3> QED BY <1>7, <3>2
  <2>2. CASE i # 1
    <3>1. i - 1 \in 1..29 /\ i - 1 < i
      BY <1>1, <2>2
    <3>2. ~(Magnitude(e) < Threshold(i - 1, det))
      BY <1>3, <3>1
    <3>3. A = Threshold(i - 1, det)
      BY <2>2 DEF Threshold, Lower
    <3>4. A \in Int
      BY <1>5, <1>6
    <3> QED BY <1>7, <3>2, <3>3, <3>4
  <2> QED BY <2>1, <2>2
<1> DEFINE X == lo * det
           Y == hi * det
<1>9. X \in Int /\ Y \in Int /\ X <= Y /\ (hi - lo) * det = Y - X
  BY <1>5, <1>6, Grows, Differs
<1> DEFINE m == IF e >= 0 THEN qm6[63 - i] ELSE 0 - qm6[IF i <= 2 THEN 65 - i ELSE 35 - i]
           C == m * det
<1>10. m \in Int /\ 8 * lo <= m /\ m <= 8 * hi
  BY <1>1, LevelsAbove, LevelsBelow
<1>11. W = IF e >= 0 THEN C \div 32768 ELSE (0 - C) \div 32768
  <2>1. CASE e >= 0
    <3>1. EncLow(e, g.det) = 62 - i
      BY <1>1, <1>4, <2>1, IlpAt
    <3>2. (62 - i) + 1 = 63 - i
      BY <1>1
    <3>3. W = (det * qm6[63 - i]) \div 32768
      BY <3>1, <3>2 DEF Level, det
    <3>4. m = qm6[63 - i]
      BY <2>1
    <3> HIDE DEF m
    <3>5. det * m = m * det
      BY <1>5, <1>10
    <3> QED BY <2>1, <3>3, <3>4, <3>5
  <2>2. CASE ~(e >= 0)
    <3> DEFINE k == IF i <= 2 THEN 65 - i ELSE 35 - i
    <3>1. EncLow(e, g.det) + 1 = k
      BY <1>1, <1>4, <2>2, IlnAt
    <3>2. W = (det * qm6[k]) \div 32768
      BY <3>1 DEF Level, det
    <3>3. m = 0 - qm6[k] /\ qm6[k] \in Int
      BY <1>1, <2>2, LevelsBelow
    <3> HIDE DEF m, k
    <3>4. det * qm6[k] = 0 - m * det
      BY <1>5, <3>3
    <3> QED BY <2>2, <3>2, <3>4
  <2> QED BY <2>1, <2>2
<1> HIDE DEF m, hi, lo, W
<1>12. C \in Int /\ 8 * X <= C /\ C <= 8 * Y
  <2>1. (8 * lo) * det <= m * det /\ m * det <= (8 * hi) * det
    BY <1>5, <1>6, <1>10, Grows
  <2>2. (8 * lo) * det = 8 * X /\ (8 * hi) * det = 8 * Y
    BY <1>5, <1>6, Eightfold
  <2>3. C \in Int
    BY <1>5, <1>10
  <2> QED BY <2>1, <2>2, <2>3
<1> HIDE DEF X, Y, C
<1>13. /\ A <= C \div 32768 /\ C \div 32768 <= B
       /\ 0 - B - 1 <= (0 - C) \div 32768 /\ (0 - C) \div 32768 <= 0 - A
       /\ B - A <= D + 1
  BY <1>9, <1>12, Floors DEF X, Y
<1>14. A \in Int /\ B \in Int /\ D \in Int /\ 0 <= D
  BY <1>9 DEF X, Y
<1>15. W \in Int
  BY <1>11, <1>12
<1> HIDE DEF A, B, D
<1>16. /\ e >= 0 => A <= W /\ W <= B
       /\ ~(e >= 0) => 0 - B - 1 <= W /\ W <= 0 - A
  BY <1>11, <1>13
<1>17. W - e <= D + 2 /\ e - W <= D + 2
  <2>1. CASE e >= 0
    <3>1. A <= e /\ e < B
      BY <1>2, <1>8, <2>1 DEF Magnitude
    <3> QED BY <1>13, <1>14, <1>15, <1>16, <2>1, <3>1
  <2>2. CASE ~(e >= 0)
    <3>1. A <= 0 - (e + 1) /\ 0 - (e + 1) < B
      BY <1>2, <1>8, <2>2 DEF Magnitude
    <3> QED BY <1>13, <1>14, <1>15, <1>16, <2>2, <3>1
  <2> QED BY <2>1, <2>2
<1> QED BY <1>14, <1>15, <1>17 DEF W, D, lo, hi, i, det

LEMMA LevelInt == ASSUME NEW g, g.det \in Nat, NEW low \in 0..63 PROVE Level(g, low) \in Int
<1> DEFINE q == qm6[low + 1]
<1>1. q \in Int
  BY DEF qm6
<1> HIDE DEF q
<1>2. (g.det * q) \div 32768 \in Int
  BY <1>1
<1> QED BY <1>2 DEF Level, q

LEMMA NotSaturated ==
  ASSUME NEW v \in Int, NEW i \in 1..29, NEW det \in Nat, det <= 16384, Magnitude(Saturate(v)) < Threshold(i, det)
  PROVE  Saturate(v) = v
<1> DEFINE h == q6[i] * det
<1>1. q6[i] \in Nat /\ q6[i] <= 2919
  BY ThresholdsRise
<1>2. h <= 2919 * det /\ h \in Nat
  BY <1>1, Grows
<1> HIDE DEF h
<1>3. h \div 4096 <= 11676
  BY <1>2
<1>4. Threshold(i, det) = h \div 4096
  BY DEF Threshold, h
<1>5. Magnitude(Saturate(v)) < 11676
  <2>1. Magnitude(Saturate(v)) \in Int
    BY SaturateInt DEF Magnitude
  <2> QED BY <1>2, <1>3, <1>4, <2>1
<1> QED BY <1>5 DEF Magnitude, Saturate

LEMMA CodeNear ==
  ASSUME NEW g, Quantised(g), NEW x \in Int,
         NEW c, c.low = EncLow(Saturate(x - g.s), g.det), c.aim = Limit(x), c.slack = Slack(x, g)
  PROVE  Near(g, c)
<1> DEFINE e == Saturate(x - g.s)
           i == EncIndex(e, g.det)
           W == Level(g, c.low)
           D == ((q6[i] - Lower(i)) * g.det) \div 4096
<1>1. g.det \in Nat /\ g.det <= 16384 /\ g.s \in Int
  BY DEF Quantised, Numbers, IsWord
<1>2. e \in Int /\ x - g.s \in Int
  <2>1. x - g.s \in Int
    BY <1>1
  <2> QED BY <2>1, SaturateInt
<1>3. W \in Int
  <2>1. c.low \in 0..63
    BY LowRange
  <2> QED BY <1>1, <2>1, LevelInt
<1>4. Slack(x, g) = IF i = 30 THEN 65536 ELSE D + 2
  BY DEF Slack, Lower
<1>5. g.s + W \in Int
  BY <1>1, <1>3
<1>6. c.low = EncLow(e, g.det) /\ c.aim = Limit(x) /\ c.slack = Slack(x, g)
  OBVIOUS
<1>7. CASE i = 30
  <2>1. c.slack = 65536
    BY <1>4, <1>6, <1>7
  <2> HIDE DEF W
  <2>2. Limit(g.s + W) - Limit(x) <= 65536 /\ Limit(x) - Limit(g.s + W) <= 65536
    BY <1>5, LimitWide
  <2> QED BY <1>6, <2>1, <2>2 DEF Near, W
<1>8. CASE i # 30
  <2>1. D \in Int /\ 0 <= D /\ W - e <= D + 2 /\ e - W <= D + 2
    BY <1>1, <1>2, <1>6, <1>8, LevelWithin
  <2>2. e = x - g.s
    <3>1. i \in 1..29 /\ Magnitude(e) < Threshold(i, g.det)
      BY <1>8, IndexFirst
    <3> QED BY <1>1, <1>2, <3>1, NotSaturated
  <2>3. c.slack = D + 2
    BY <1>4, <1>6, <1>8
  <2> HIDE DEF W, D, e, i
  <2>4. (g.s + W) - x <= D + 2 /\ x - (g.s + W) <= D + 2 /\ 0 <= D + 2 /\ D + 2 \in Int
    BY <1>1, <1>2, <1>3, <2>1, <2>2
  <2>5. Limit(g.s + W) - Limit(x) <= D + 2 /\ Limit(x) - Limit(g.s + W) <= D + 2
    BY <1>5, <2>4, LimitClose
  <2> QED BY <1>6, <2>3, <2>5 DEF Near, W
<1> QED BY <1>7, <1>8

\* The filter's memory holds numbers, and so does what it makes of two samples.
Memory(x) == \A i \in 1..24 : x[i] \in Int
LEMMA SumInt == ASSUME NEW t, \A i \in 1..12 : t[i] \in Int PROVE Sum12(t) \in Int
<1>1. t[1] \in Int /\ t[2] \in Int /\ t[3] \in Int /\ t[4] \in Int /\ t[5] \in Int /\ t[6] \in Int
  OBVIOUS
<1>2. t[7] \in Int /\ t[8] \in Int /\ t[9] \in Int /\ t[10] \in Int /\ t[11] \in Int /\ t[12] \in Int
  OBVIOUS
<1> DEFINE a == t[1] + t[2] + t[3] + t[4] + t[5] + t[6]
<1>3. a \in Int
  BY <1>1
<1>4. Sum12(t) = a + t[7] + t[8] + t[9] + t[10] + t[11] + t[12]
  BY DEF Sum12
<1> HIDE DEF a
<1> QED BY <1>2, <1>3, <1>4

LEMMA CoeffsInt == \A i \in 1..12 : qmf_coeffs[i] \in Int
BY DEF qmf_coeffs

LEMMA TapsInt == ASSUME NEW x, Memory(x) PROVE EvenTaps(x) \in Int /\ OddTaps(x) \in Int
<1> DEFINE u == [i \in 1..12 |-> x[2 * i] * qmf_coeffs[13 - i]]
           v == [i \in 1..12 |-> x[2 * i - 1] * qmf_coeffs[i]]
<1>1. \A i \in 1..12 : 2 * i \in 1..24 /\ 2 * i - 1 \in 1..24 /\ 13 - i \in 1..12
  OBVIOUS
<1>2. ASSUME NEW i \in 1..12 PROVE u[i] \in Int /\ v[i] \in Int
  <2>1. x[2 * i] \in Int /\ x[2 * i - 1] \in Int /\ qmf_coeffs[i] \in Int /\ qmf_coeffs[13 - i] \in Int
    BY <1>1, CoeffsInt DEF Memory
  <2> QED BY <2>1
<1> HIDE DEF u, v
<1>3. Sum12(u) \in Int /\ Sum12(v) \in Int
  BY <1>2, SumInt
<1> QED BY <1>3 DEF EvenTaps, OddTaps, u, v

LEMMA SplitInt ==
  ASSUME NEW s, Memory(s.x), s.eight_k \in BOOLEAN, NEW y \in Int, NEW z \in Int
  PROVE  Split(s, y, z).low \in Int /\ Memory(Split(s, y, z).x)
<1> DEFINE x == Shuffled(s.x, y, z)
<1>1. Memory(x)
  <2>1. ASSUME NEW i \in 1..24 PROVE x[i] \in Int
    <3>1. x[i] = IF i < 23 THEN s.x[i + 2] ELSE IF i = 23 THEN y ELSE z
      BY DEF Shuffled
    <3>2. i < 23 => i + 2 \in 1..24
      OBVIOUS
    <3> QED BY <3>1, <3>2 DEF Memory
  <2> QED BY <2>1 DEF Memory
<1>2. EvenTaps(x) \in Int /\ OddTaps(x) \in Int
  BY <1>1, TapsInt
<1>3. CASE s.eight_k
  <2>1. Split(s, y, z) = [x |-> s.x, low |-> y \div 2, high |-> 0]
    BY <1>3 DEF Split
  <2> QED BY <2>1
<1>4. CASE ~s.eight_k
  <2> DEFINE a == EvenTaps(x)
             b == OddTaps(x)
  <2>1. Split(s, y, z) = [x |-> x, low |-> (a + b) \div 16384, high |-> (a - b) \div 16384]
    BY <1>4 DEF Split
  <2> HIDE DEF a, b, x
  <2>2. (a + b) \div 16384 \in Int
    BY <1>2 DEF a, b
  <2> QED BY <1>1, <2>1, <2>2
<1> QED BY <1>3, <1>4

LEMMA LevelTaken == ASSUME NEW c, IsCode(c, 8) PROVE DecParts(8, c.bits).wd2 = qm6[c.low + 1]
<1> DEFINE l == c.low
           h == c.high
<1>1. l \in 0..63 /\ h \in 0..3 /\ c.bits = h * 64 + l
  BY DEF IsCode, Dropped
<1> HIDE DEF l, h
<1>2. c.bits % 64 = l
  BY <1>1
<1>3. DecParts(8, c.bits).wd2 = qm6[(c.bits % 64) + 1]
  BY DEF DecParts
<1> QED BY <1>2, <1>3 DEF l

-----------------------------------------------------------------------------
\* The inductive invariant: what is on its way leads from the decoder's bands to the
\* encoder's, code by code, and the bytes hold those codes.
SameKind ==
  /\ DOMAIN enc = DOMAIN EncInit(0, FALSE, FALSE) /\ DOMAIN dec = DOMAIN DecInit(0, FALSE, FALSE)
  /\ enc.bits \in {6, 7, 8} /\ dec.bits = enc.bits /\ dec.eight_k = enc.eight_k /\ enc.eight_k \in BOOLEAN
  /\ enc.packed \in BOOLEAN /\ dec.packed = enc.packed
InStep ==
  /\ IsSeq(sent) /\ IsSeq(wire) /\ IsSeq(trail) /\ Len(trail) = Len(sent) + 1
  /\ trail[1] = Bands(dec) /\ trail[Len(sent) + 1] = Bands(enc)
  /\ \A i \in 1..Len(sent) : IsCode(sent[i], enc.bits)
GoodPair(p) == GoodBand(p.low, 18432) /\ GoodBand(p.high, 22528)
Chain ==
  /\ \A i \in 1..(Len(sent) + 1) : GoodPair(trail[i])
  /\ \A i \in 1..Len(sent) : trail[i + 1] = Followed(trail[i], sent[i], enc.eight_k)
Carried == Carries(enc.packed, enc.bits, sent, wire, dec.in_bits, dec.in_buffer, enc.out_bits, enc.out_buffer)
HeardIt == heard.bits = heard.code.bits
IInv == SameKind /\ InStep /\ Chain /\ Carried /\ HeardIt

LEMMA InitIInv == Init => IInv
<1> SUFFICES ASSUME Init PROVE IInv
  OBVIOUS
<1>1. PICK rate \in Rates, eight \in EightK, pack \in Packing :
        enc = EncInit(rate, eight, pack) /\ dec = DecInit(rate, eight, pack)
  BY DEF Init
<1>p. pack \in BOOLEAN
  BY OptionsAssumption
<1> DEFINE bits == BitsPerSample(rate)
           packs == pack /\ bits # 8
<1>q. packs \in BOOLEAN /\ bits \in {6, 7, 8} /\ (packs => bits \in {6, 7})
  BY <1>p DEF BitsPerSample
<1>r. enc.packed = packs /\ dec.packed = packs /\ enc.bits = bits
  <2>1. enc.packed = packs /\ enc.bits = bits
    <3> HIDE DEF bits
    <3>1. enc.packed = (pack /\ bits # 8) /\ enc.bits = bits
      BY <1>1 DEF EncInit, bits
    <3> QED BY <3>1
  <2>2. dec.packed = packs
    <3>1. dec.packed = (pack /\ (IF rate = 48000 THEN 6 ELSE IF rate = 56000 THEN 7 ELSE 8) # 8)
      BY <1>1 DEF DecInit
    <3> QED BY <3>1 DEF BitsPerSample
  <2> QED BY <2>1, <2>2
<1> HIDE DEF packs, bits
<1>2. SameKind
  <2>1. DOMAIN enc = DOMAIN EncInit(0, FALSE, FALSE)
    BY <1>1 DEF EncInit
  <2>2. DOMAIN dec = DOMAIN DecInit(0, FALSE, FALSE)
    BY <1>1 DEF DecInit
  <2>3. enc.bits \in {6, 7, 8} /\ dec.bits = enc.bits
    BY <1>1 DEF EncInit, DecInit, BitsPerSample
  <2>4. enc.eight_k = eight /\ dec.eight_k = eight
    BY <1>1 DEF EncInit, DecInit
  <2>7. eight \in BOOLEAN
    BY <1>1, OptionsAssumption
  <2> QED BY <1>q, <1>r, <2>1, <2>2, <2>3, <2>4, <2>7 DEF SameKind
<1>3. sent = <<>> /\ wire = <<>> /\ trail = <<Bands(enc)>>
  BY DEF Init
<1>4. Bands(dec) = [low |-> Silent(32), high |-> Silent(8)] /\ Bands(enc) = Bands(dec)
  BY <1>1 DEF Bands, EncInit, DecInit
<1>5. IsSeq(trail)
  <2>1. trail \in Seq({Bands(enc)})
    BY <1>3
  <2> QED BY <2>1 DEF IsSeq
<1>6. Len(sent) = 0 /\ Len(wire) = 0 /\ Len(trail) = 1 /\ trail[1] = Bands(enc)
  BY <1>3
<1>7. InStep
  BY <1>3, <1>4, <1>5, <1>6, EmptyIsSeq DEF InStep
<1>8. \A det : \A limit \in Nat : GoodBand(Silent(det), limit)
  BY DEF GoodBand, IsBand, StableBand, Silent, Zeros
<1>9. GoodPair(trail[1])
  BY <1>4, <1>6, <1>8 DEF GoodPair
<1>10. Chain
  BY <1>6, <1>9 DEF Chain
<1>11. Carried
  <2>1. enc.out_bits = 0 /\ enc.out_buffer = 0 /\ dec.in_bits = 0 /\ dec.in_buffer = 0
    BY <1>1 DEF EncInit, DecInit
  <2>2. CASE packs
    <3> DEFINE c == CodesOf(<<>>)
    <3>1. c = [k \in Nat |-> 0]
      <4>1. \A k \in Nat : ~(k < Len(<<>>))
        OBVIOUS
      <4> QED BY <4>1 DEF CodesOf
    <3>2. bits \in {6, 7} /\ bits \in 0..14
      BY <1>q, <2>2
    <3>3. IsCodes(c, bits, 0)
      <4>1. 2 ^ bits \in Nat \ {0}
        BY <3>2, PowerNat
      <4> QED BY <3>1, <4>1 DEF IsCodes
    <3>4. Front(c[0], c[1], bits, 0) = 0
      <4>1. Front(0, 0, bits, 0) = 0
        <5>1. 0 <= bits /\ 0 \in Nat /\ 0 \in 0..7
          BY <3>2
        <5>2. Front(0, 0, bits, 0) = 0 % 2 ^ 0
          BY <3>2, <5>1, FrontKept
        <5> QED BY <5>2, Powers
      <4> QED BY <3>1, <4>1
    <3>5. Window(c, bits, 0) = 0
      <4>1. bits * 0 = 0
        BY <3>2
      <4> QED BY <3>2, <3>3, <4>1, WindowEnd
    <3> HIDE DEF c
    <3>6. OnTheWay(c, bits, 0, 0, 0, <<>>, 0, 0)
      <4>1. 0 + 8 * Len(<<>>) + 0 = bits * 0 /\ 0 + 8 * Len(<<>>) = 0 /\ 1..Len(<<>>) = {} /\ 0 \in Nat /\ 0 \in 0..7
        BY <3>2
      <4>2. 0 < 2 ^ 0
        BY Powers
      <4> QED BY <3>2, <3>3, <3>4, <3>5, <4>1, <4>2, EmptyIsSeq DEF OnTheWay
    <3> QED BY <1>3, <1>6, <1>r, <2>1, <2>2, <3>6 DEF Carried, Carries, c
  <2>3. CASE ~packs
    BY <1>3, <1>6, <1>r, <2>1, <2>3 DEF Carried, Carries
  <2> QED BY <2>2, <2>3
<1>12. HeardIt
  BY DEF Init, HeardIt
<1> QED BY <1>2, <1>7, <1>10, <1>11, <1>12 DEF IInv

\* One code leads from bands to bands, the same way in both directions.
LEMMA FollowedAgree ==
  ASSUME NEW p, GoodPair(p), NEW c, NEW bits \in {6, 7, 8}, IsCode(c, bits), NEW eight \in BOOLEAN
  PROVE  /\ GoodPair(Followed(p, c, eight))
         /\ Followed(p, c, eight)
              = [low |-> DecLowBand(p.low, DecParts(bits, c.bits).ril),
                 high |-> IF eight THEN p.high ELSE DecHighBand(p.high, DecParts(bits, c.bits).high)]
<1>1. c.low \in 0..63 /\ c.high \in 0..3
  BY DEF IsCode
<1>2. /\ EncLowBand(p.low, c.low) = DecLowBand(p.low, c.low \div 4)
      /\ GoodBand(EncLowBand(p.low, c.low), 18432)
  BY <1>1, LowBandAgree DEF GoodPair
<1>3. /\ EncHighBand(p.high, c.high) = DecHighBand(p.high, c.high)
      /\ GoodBand(EncHighBand(p.high, c.high), 22528)
  BY <1>1, HighBandAgree DEF GoodPair
<1>4. DecParts(bits, c.bits).high = c.high /\ DecParts(bits, c.bits).ril = c.low \div 4
  BY PartsTaken
<1>5. GoodBand(p.high, 22528)
  BY DEF GoodPair
<1> QED BY <1>2, <1>3, <1>4, <1>5 DEF Followed, GoodPair

\* A pass of the encoder adds a code to the end of the chain.
LEMMA EncodeIInv == ASSUME IInv, Encode PROVE IInv'
<1> DEFINE in == Split(enc, input[1], input[2])
           code == EncCode(enc, in)
           next == EncAdapted(enc, in, code)
           pack == Packs(enc, code)
           new == [low |-> code.low, high |-> code.high, bits |-> code.bits,
                   aim |-> Limit(in.low), slack |-> Slack(in.low, enc.low)]
<1>1. /\ enc' = [next EXCEPT !.out_buffer = pack.buffer, !.out_bits = pack.bits]
      /\ wire' = wire \o pack.out /\ sent' = Append(sent, new) /\ trail' = Append(trail, Bands(next))
      /\ dec' = dec /\ heard' = heard
  BY Zenon DEF Encode
<1> HIDE DEF in
<1>3. IsCode(code, enc.bits)
  BY CodeMade
<1> HIDE DEF code, pack
<1>p. pack = Packs(enc, code)
  BY DEF pack
<1>4. IsCode(new, enc.bits) /\ new.bits = code.bits /\ new.low = code.low /\ new.high = code.high
  BY <1>3 DEF IsCode
<1>5. Bands(next) = Followed(Bands(enc), new, enc.eight_k)
  BY <1>4 DEF EncAdapted, Followed, Bands, IInv, SameKind, EncInit
<1>6. /\ DOMAIN next = DOMAIN enc /\ next.bits = enc.bits /\ next.eight_k = enc.eight_k
      /\ next.packed = enc.packed
  BY DEF EncAdapted, IInv, SameKind, EncInit
<1> HIDE DEF next, new
<1>7. /\ DOMAIN enc' = DOMAIN enc /\ enc'.bits = enc.bits /\ enc'.eight_k = enc.eight_k
      /\ enc'.packed = enc.packed /\ Bands(enc') = Bands(next)
      /\ enc'.out_bits = pack.bits /\ enc'.out_buffer = pack.buffer
  BY <1>1, <1>6 DEF Bands, IInv, SameKind, EncInit
<1>8. SameKind'
  BY <1>1, <1>7 DEF IInv, SameKind
<1> DEFINE n == Len(sent)
<1>9. /\ n \in Nat /\ Len(trail) = n + 1
      /\ IsSeq(sent) /\ IsSeq(wire) /\ IsSeq(trail)
  BY AppendSeq DEF IInv, InStep
<1>10. /\ IsSeq(sent') /\ Len(sent') = n + 1 /\ sent'[n + 1] = new
       /\ \A i \in 1..n : sent'[i] = sent[i]
  BY <1>1, <1>9, AppendSeq
<1>11. Carried' /\ IsSeq(wire')
  <2>1. /\ Carries(enc.packed, enc.bits, sent, wire, dec.in_bits, dec.in_buffer, enc.out_bits, enc.out_buffer)
        /\ enc.packed \in BOOLEAN
    BY DEF IInv, Carried, SameKind
  <2>2. /\ Carries(enc.packed, enc.bits, Append(sent, new), wire \o pack.out, dec.in_bits, dec.in_buffer,
                   pack.bits, pack.buffer)
        /\ IsSeq(wire \o pack.out)
    BY <1>3, <1>4, <1>9, <1>p, <2>1, CarriesEncoded
  <2> QED BY <1>1, <1>7, <2>2 DEF Carried
<1>12. /\ IsSeq(trail') /\ Len(trail') = n + 2 /\ trail'[n + 2] = Bands(enc')
       /\ \A i \in 1..(n + 1) : trail'[i] = trail[i]
  <2>1. /\ IsSeq(Append(trail, Bands(next))) /\ Len(Append(trail, Bands(next))) = Len(trail) + 1
        /\ \A i \in 1..Len(trail) : Append(trail, Bands(next))[i] = trail[i]
        /\ Append(trail, Bands(next))[Len(trail) + 1] = Bands(next)
    BY <1>9, AppendSeq
  <2>2. (n + 1) + 1 = n + 2
    BY <1>9
  <2> QED BY <1>1, <1>7, <1>9, <2>1, <2>2
<1>13. /\ trail[1] = Bands(dec) /\ trail[n + 1] = Bands(enc)
       /\ \A i \in 1..n : IsCode(sent[i], enc.bits)
  BY DEF IInv, InStep
<1>14. /\ \A i \in 1..(n + 1) : GoodPair(trail[i])
       /\ \A i \in 1..n : trail[i + 1] = Followed(trail[i], sent[i], enc.eight_k)
  BY DEF IInv, Chain
<1> HIDE DEF n
<1>15. InStep'
  <2>1. trail'[1] = Bands(dec') /\ (n + 1) + 1 = n + 2
    BY <1>1, <1>9, <1>12, <1>13 DEF Bands
  <2>2. ASSUME NEW i \in 1..(n + 1) PROVE IsCode(sent'[i], enc'.bits)
    <3>1. CASE i \in 1..n
      BY <1>7, <1>10, <1>13, <3>1
    <3>2. CASE i = n + 1
      BY <1>4, <1>7, <1>10, <3>2
    <3> QED BY <1>9, <3>1, <3>2
  <2> QED BY <1>10, <1>11, <1>12, <2>1, <2>2 DEF InStep
<1>16. Chain'
  <2>1. n + 1 \in 1..(n + 1) /\ (n + 1) + 1 = n + 2
    BY <1>9
  <2>2. GoodPair(trail'[n + 2])
    <3>1. GoodPair(Bands(enc))
      BY <1>13, <1>14, <2>1
    <3>2. enc.bits \in {6, 7, 8} /\ enc.eight_k \in BOOLEAN
      BY DEF IInv, SameKind
    <3>3. GoodPair(Followed(Bands(enc), new, enc.eight_k))
      BY <1>4, <3>1, <3>2, FollowedAgree
    <3> QED BY <1>5, <1>7, <1>12, <3>3
  <2>3. ASSUME NEW i \in 1..(n + 2) PROVE GoodPair(trail'[i])
    <3>1. CASE i \in 1..(n + 1)
      BY <1>12, <1>14, <3>1
    <3>2. CASE i = n + 2
      BY <2>2, <3>2
    <3> QED BY <1>9, <3>1, <3>2
  <2>4. ASSUME NEW i \in 1..(n + 1)
        PROVE  trail'[i + 1] = Followed(trail'[i], sent'[i], enc'.eight_k)
    <3>1. CASE i \in 1..n
      <4>1. i \in 1..(n + 1) /\ i + 1 \in 1..(n + 1)
        BY <1>9, <3>1
      <4> QED BY <1>7, <1>10, <1>12, <1>14, <3>1, <4>1
    <3>2. CASE i = n + 1
      BY <1>5, <1>7, <1>10, <1>12, <1>13, <2>1, <3>2
    <3> QED BY <1>9, <3>1, <3>2
  <2> QED BY <1>10, <2>1, <2>3, <2>4 DEF Chain
<1>17. HeardIt'
  BY <1>1 DEF IInv, HeardIt
<1> QED BY <1>8, <1>11, <1>15, <1>16, <1>17 DEF IInv

\* A pass of the decoder takes the first one.
LEMMA DecodeIInv == ASSUME IInv, Decode PROVE IInv'
<1> DEFINE n == Len(sent)
<1>w. Some(wire)
  <2>1. wire # <<>> /\ IsSeq(wire)
    BY DEF Decode, IInv, InStep
  <2> QED BY <2>1 DEF IsSeq, Some
<1>2. /\ IsSeq(sent) /\ IsSeq(wire) /\ IsSeq(trail)
      /\ trail[1] = Bands(dec) /\ trail[n + 1] = Bands(enc)
      /\ \A i \in 1..n : IsCode(sent[i], enc.bits)
      /\ \A i \in 1..(n + 1) : GoodPair(trail[i])
      /\ \A i \in 1..n : trail[i + 1] = Followed(trail[i], sent[i], enc.eight_k)
  BY DEF IInv, InStep, Chain
<1> DEFINE got == Unpacks(dec, wire)
           parts == DecParts(dec.bits, got.code)
           x == DecFilter(dec, DecLowOut(dec, parts), DecHighOut(dec, parts))
           next == DecAdapted(dec, parts, x)
<1>3. /\ dec' = [next EXCEPT !.in_buffer = got.buffer, !.in_bits = got.bits]
      /\ wire' = got.rest /\ sent' = Tail(sent) /\ trail' = Tail(trail) /\ enc' = enc
      /\ heard'.code = Head(sent) /\ heard'.bits = got.code
  <2> DEFINE h == [code |-> Head(sent), bits |-> got.code, rlow |-> DecLowOut(dec, parts),
                   pcm |-> DecSamples(dec, DecLowOut(dec, parts), x)]
  <2>1. /\ dec' = [next EXCEPT !.in_buffer = got.buffer, !.in_bits = got.bits]
        /\ wire' = got.rest /\ sent' = Tail(sent) /\ trail' = Tail(trail) /\ enc' = enc /\ heard' = h
    BY Zenon DEF Decode
  <2>2. h.code = Head(sent) /\ h.bits = got.code
    <3> HIDE DEF got, parts, x
    <3> QED OBVIOUS
  <2> QED BY <2>1, <2>2, Zenon
<1>g. got = Unpacks(dec, wire)
  OBVIOUS
<1> HIDE DEF got, x
<1>4. /\ Some(sent) /\ got.code = sent[1].bits /\ IsSeq(got.rest)
      /\ Carries(enc.packed, enc.bits, Tail(sent), got.rest, got.bits, got.buffer, enc.out_bits, enc.out_buffer)
  <2>1. /\ Carries(dec.packed, dec.bits, sent, wire, dec.in_bits, dec.in_buffer, enc.out_bits, enc.out_buffer)
        /\ dec.packed \in BOOLEAN /\ dec.packed = enc.packed /\ dec.bits = enc.bits
    BY DEF IInv, Carried, SameKind
  <2>2. /\ Some(sent) /\ got.code = sent[1].bits /\ IsSeq(got.rest)
        /\ Carries(dec.packed, dec.bits, Tail(sent), got.rest, got.bits, got.buffer, enc.out_bits, enc.out_buffer)
    BY <1>2, <1>w, <1>g, <2>1, CarriesDecoded
  <2> QED BY <2>1, <2>2
<1>1. n \in Nat \ {0} /\ Len(trail) = n + 1
  BY <1>2, <1>4, TailSeq DEF IInv, InStep, Some
<1>5. /\ DOMAIN dec' = DOMAIN dec /\ dec'.bits = dec.bits /\ dec'.eight_k = dec.eight_k
      /\ dec'.packed = dec.packed
      /\ Bands(dec') = [low |-> DecLowBand(dec.low, parts.ril),
                        high |-> IF dec.eight_k THEN dec.high ELSE DecHighBand(dec.high, parts.high)]
      /\ dec'.in_bits = got.bits /\ dec'.in_buffer = got.buffer
  <2> DEFINE low == DecLowBand(dec.low, parts.ril)
             high == IF dec.eight_k THEN dec.high ELSE DecHighBand(dec.high, parts.high)
  <2>1. next = [dec EXCEPT !.x = x, !.low = low, !.high = high]
    BY DEF DecAdapted
  <2>2. DOMAIN dec = {"bits", "eight_k", "packed", "x", "low", "high", "in_buffer", "in_bits"}
    BY DEF IInv, SameKind, DecInit
  <2> HIDE DEF low, high, parts, next
  <2>3. /\ DOMAIN dec' = DOMAIN dec /\ dec'.bits = dec.bits /\ dec'.eight_k = dec.eight_k
        /\ dec'.packed = dec.packed /\ dec'.in_bits = got.bits /\ dec'.in_buffer = got.buffer
    BY <1>3, <2>1, <2>2
  <2>4. dec'.low = low /\ dec'.high = high
    BY <1>3, <2>1, <2>2
  <2>5. Bands(dec') = [low |-> low, high |-> high]
    BY <2>4 DEF Bands
  <2> QED BY <2>3, <2>5 DEF low, high
<1>6. SameKind'
  BY <1>3, <1>5 DEF IInv, SameKind
<1>7. 1 \in 1..n /\ 1 \in 1..(n + 1) /\ 1 + 1 = 2
  BY <1>1
<1>8. got.code = sent[1].bits /\ IsCode(sent[1], enc.bits) /\ Head(sent) = sent[1]
  BY <1>1, <1>2, <1>4, <1>7, TailSeq
<1>9. Bands(dec') = trail[2]
  <2>1. enc.bits \in {6, 7, 8} /\ enc.eight_k \in BOOLEAN /\ dec.bits = enc.bits /\ dec.eight_k = enc.eight_k
    BY DEF IInv, SameKind
  <2>2. GoodPair(Bands(dec))
    BY <1>2, <1>7
  <2>3. trail[2] = Followed(Bands(dec), sent[1], enc.eight_k)
    BY <1>2, <1>7
  <2>4. Followed(Bands(dec), sent[1], enc.eight_k)
          = [low |-> DecLowBand(dec.low, parts.ril),
             high |-> IF enc.eight_k THEN dec.high ELSE DecHighBand(dec.high, parts.high)]
    <3>1. Bands(dec).low = dec.low /\ Bands(dec).high = dec.high
      BY DEF Bands
    <3> QED BY <1>8, <2>1, <2>2, <3>1, FollowedAgree
  <2> QED BY <1>5, <2>1, <2>3, <2>4
<1>10. /\ IsSeq(sent') /\ Len(sent') = n - 1 /\ \A i \in 1..(n - 1) : sent'[i] = sent[i + 1]
       /\ IsSeq(wire')
       /\ IsSeq(trail') /\ Len(trail') = n /\ \A i \in 1..n : trail'[i] = trail[i + 1]
  <2>1. /\ IsSeq(Tail(trail)) /\ Len(Tail(trail)) = Len(trail) - 1
        /\ \A i \in 1..(Len(trail) - 1) : Tail(trail)[i] = trail[i + 1]
    BY <1>1, <1>2, TailSeq
  <2>2. Len(trail) - 1 = n
    BY <1>1
  <2>4. /\ IsSeq(Tail(sent)) /\ Len(Tail(sent)) = n - 1
        /\ \A i \in 1..(n - 1) : Tail(sent)[i] = sent[i + 1]
    BY <1>1, <1>2, TailSeq
  <2> QED BY <1>3, <1>4, <2>1, <2>2, <2>4
<1> HIDE DEF n
<1>11. (n - 1) + 1 = n /\ n \in 1..n
  BY <1>1
<1>12. \A i \in 1..(n - 1) : i \in 1..n /\ i + 1 \in 1..n
  BY <1>1
<1>13. \A i \in 1..n : i + 1 \in 1..(n + 1)
  BY <1>1
<1>14. InStep'
  <2>1. trail'[1] = Bands(dec') /\ trail'[(n - 1) + 1] = Bands(enc')
    BY <1>2, <1>3, <1>7, <1>9, <1>10, <1>11 DEF Bands
  <2>2. \A i \in 1..(n - 1) : IsCode(sent'[i], enc'.bits)
    BY <1>2, <1>3, <1>10, <1>12
  <2> QED BY <1>10, <1>11, <2>1, <2>2 DEF InStep
<1>15. Chain'
  <2>1. \A i \in 1..n : GoodPair(trail'[i])
    BY <1>2, <1>10, <1>13
  <2>2. \A i \in 1..(n - 1) : trail'[i + 1] = Followed(trail'[i], sent'[i], enc'.eight_k)
    BY <1>2, <1>3, <1>10, <1>12
  <2> QED BY <1>10, <1>11, <2>1, <2>2 DEF Chain
<1>16. Carried'
  BY <1>3, <1>4, <1>5 DEF Carried
<1>17. HeardIt'
  BY <1>3, <1>8 DEF HeardIt
<1> QED BY <1>6, <1>14, <1>15, <1>16, <1>17 DEF IInv

LEMMA NextIInv == IInv /\ [Next]_vars => IInv'
<1> SUFFICES ASSUME IInv, [Next]_vars PROVE IInv'
  OBVIOUS
<1>1. CASE Encode
  BY <1>1, EncodeIInv
<1>2. CASE Decode
  BY <1>2, DecodeIInv
<1>3. CASE Change \/ UNCHANGED vars
  <2>1. enc' = enc /\ dec' = dec /\ wire' = wire /\ sent' = sent /\ trail' = trail /\ heard' = heard
    BY <1>3 DEF Change, vars
  <2>2. SameKind'
    BY <2>1 DEF IInv, SameKind
  <2>3. InStep'
    BY <2>1 DEF IInv, InStep, Bands
  <2>4. Chain'
    BY <2>1 DEF IInv, Chain
  <2>5. Carried' /\ HeardIt'
    BY <2>1 DEF IInv, Carried, HeardIt
  <2> QED BY <2>2, <2>3, <2>4, <2>5 DEF IInv
<1> QED BY <1>1, <1>2, <1>3 DEF Next

LEMMA IInvProperties == IInv => PredictorsAgree /\ Stable /\ CodesIntact
<1> SUFFICES ASSUME IInv PROVE PredictorsAgree /\ Stable /\ CodesIntact
  OBVIOUS
<1> DEFINE n == Len(sent)
<1>1. n \in Nat /\ Len(wire) \in Nat
  BY AppendSeq DEF IInv, InStep
<1>2. 1 \in 1..(n + 1) /\ n + 1 \in 1..(n + 1)
  BY <1>1
<1>3. GoodPair(Bands(dec)) /\ GoodPair(Bands(enc))
  BY <1>2 DEF IInv, InStep, Chain
<1>4. Stable
  BY <1>3 DEF Stable, GoodPair, GoodBand, Bands
<1>5. CodesIntact
  <2>1. Carries(enc.packed, enc.bits, sent, wire, dec.in_bits, dec.in_buffer, enc.out_bits, enc.out_buffer)
    BY DEF IInv, Carried
  <2>2. enc.packed \in BOOLEAN
    BY DEF IInv, SameKind
  <2>3. CASE enc.packed
    BY <2>1, <2>3 DEF Carries, OnTheWay, CodesIntact, IInv, HeardIt
  <2>4. CASE ~enc.packed
    BY <1>1, <2>1, <2>4 DEF Carries, CodesIntact, IInv, HeardIt
  <2> QED BY <2>2, <2>3, <2>4
<1> QED BY <1>4, <1>5 DEF IInv, InStep, PredictorsAgree

-----------------------------------------------------------------------------
\* The invariant of the values: every band on the way holds numbers, and the decoder will find each code
\* near what it was made of.
Values ==
  /\ Memory(enc.x) /\ input \in Samples
  /\ \A i \in 1..(Len(sent) + 1) : Quantised(trail[i].low)
  /\ \A i \in 1..Len(sent) : Near(trail[i].low, sent[i])
  /\ CloseToInput

LEMMA SampleInt == \A p \in Samples : p[1] \in Int /\ p[2] \in Int
<1>1. Int16 \subseteq Int
  BY DEF Int16
<1> QED BY <1>1, SamplesAssumption

LEMMA InitValues == Init => Values
<1> SUFFICES ASSUME Init PROVE Values
  OBVIOUS
<1>1. PICK rate \in Rates, eight \in EightK, pack \in Packing : enc = EncInit(rate, eight, pack)
  BY DEF Init
<1>2. enc.x = Zeros(24) /\ enc.low = Silent(32)
  BY <1>1 DEF EncInit
<1>3. Memory(enc.x)
  BY <1>2 DEF Memory, Zeros
<1>4. sent = <<>> /\ trail = <<Bands(enc)>> /\ input \in Samples
  BY DEF Init
<1>5. Len(sent) = 0 /\ trail[1].low = Silent(32)
  BY <1>2, <1>4 DEF Bands
<1>6. Quantised(Silent(32))
  BY DEF Quantised, Numbers, IsWord, Silent, Zeros
<1>7. CloseToInput
  BY DEF Init, CloseToInput
<1> QED BY <1>3, <1>4, <1>5, <1>6, <1>7 DEF Values

LEMMA EncodeValues == ASSUME IInv, Values, Encode PROVE Values'
<1> DEFINE in == Split(enc, input[1], input[2])
           code == EncCode(enc, in)
           next == EncAdapted(enc, in, code)
           pack == Packs(enc, code)
           new == [low |-> code.low, high |-> code.high, bits |-> code.bits,
                   aim |-> Limit(in.low), slack |-> Slack(in.low, enc.low)]
           n == Len(sent)
<1>1. /\ enc' = [next EXCEPT !.out_buffer = pack.buffer, !.out_bits = pack.bits]
      /\ sent' = Append(sent, new) /\ trail' = Append(trail, Bands(next))
      /\ heard' = heard /\ input' = input
  BY Zenon DEF Encode
<1>2. Memory(enc.x) /\ enc.eight_k \in BOOLEAN /\ input[1] \in Int /\ input[2] \in Int
  <2>1. Memory(enc.x) /\ input \in Samples
    BY DEF Values
  <2>2. enc.eight_k \in BOOLEAN
    BY DEF IInv, SameKind
  <2> QED BY <2>1, <2>2, SampleInt
<1>3. in.low \in Int /\ Memory(in.x)
  BY <1>2, SplitInt
<1>4. code.low = EncLow(Saturate(in.low - enc.low.s), enc.low.det)
  BY DEF EncCode
<1> HIDE DEF in, code, pack
<1>5. new.low = code.low /\ new.aim = Limit(in.low) /\ new.slack = Slack(in.low, enc.low)
  OBVIOUS
<1> HIDE DEF new
<1>6. enc'.x = in.x /\ enc'.bits = enc.bits
  BY <1>1 DEF EncAdapted, IInv, SameKind, EncInit
<1> HIDE DEF next
<1>7. IInv'
  BY EncodeIInv
<1>8. /\ IsSeq(sent) /\ IsSeq(trail) /\ n \in Nat /\ Len(trail) = n + 1 /\ trail[n + 1] = Bands(enc)
  BY AppendSeq DEF IInv, InStep
<1>9. /\ Len(sent') = n + 1 /\ sent'[n + 1] = new /\ \A i \in 1..n : sent'[i] = sent[i]
      /\ \A i \in 1..(n + 1) : trail'[i] = trail[i]
  <2>1. Len(sent') = n + 1 /\ sent'[n + 1] = new /\ \A i \in 1..n : sent'[i] = sent[i]
    BY <1>1, <1>8, AppendSeq
  <2>2. \A i \in 1..Len(trail) : trail'[i] = trail[i]
    BY <1>1, <1>8, AppendSeq
  <2> QED BY <1>8, <2>1, <2>2
<1>10. /\ \A i \in 1..(n + 1) : Quantised(trail[i].low)
       /\ \A i \in 1..n : Near(trail[i].low, sent[i])
       /\ CloseToInput
  BY DEF Values
<1> HIDE DEF n
<1>11. Quantised(enc.low) /\ enc.low = trail[n + 1].low
  <2>1. n + 1 \in 1..(n + 1)
    BY <1>8
  <2> QED BY <1>8, <1>10, <2>1 DEF Bands
<1>12. Near(enc.low, new)
  BY <1>3, <1>4, <1>5, <1>11, CodeNear
<1>13. Quantised(trail'[n + 2].low)
  <2>1. /\ n + 1 \in 1..Len(sent') /\ n + 1 \in 1..(Len(sent') + 1) /\ (n + 1) + 1 = n + 2 /\ n + 1 \in 1..(n + 1)
    BY <1>8, <1>9
  <2>2. /\ GoodPair(trail'[n + 1]) /\ IsCode(sent'[n + 1], enc'.bits)
        /\ trail'[n + 2] = Followed(trail'[n + 1], sent'[n + 1], enc'.eight_k)
    BY <1>7, <2>1 DEF IInv, InStep, Chain
  <2>3. GoodBand(enc.low, 18432) /\ trail'[n + 1].low = enc.low
    BY <1>9, <1>11, <2>1, <2>2 DEF GoodPair
  <2>4. trail'[n + 2].low = EncLowBand(enc.low, new.low) /\ new.low \in 0..63
    BY <1>9, <2>2, <2>3 DEF Followed, IsCode
  <2> QED BY <1>11, <2>3, <2>4, LowBandNumbers
<1>14. ASSUME NEW i \in 1..(n + 2) PROVE Quantised(trail'[i].low)
  <2>1. CASE i \in 1..(n + 1)
    BY <1>9, <1>10, <2>1
  <2>2. CASE i = n + 2
    BY <1>13, <2>2
  <2> QED BY <1>8, <2>1, <2>2
<1>15. ASSUME NEW i \in 1..(n + 1) PROVE Near(trail'[i].low, sent'[i])
  <2>1. CASE i \in 1..n
    BY <1>9, <1>10, <2>1
  <2>2. CASE i = n + 1
    BY <1>9, <1>11, <1>12, <2>2
  <2> QED BY <1>8, <2>1, <2>2
<1>16. CloseToInput'
  BY <1>1, <1>6, <1>10 DEF CloseToInput
<1>17. (n + 1) + 1 = n + 2
  BY <1>8
<1>18. Memory(enc'.x) /\ input' \in Samples
  BY <1>1, <1>3, <1>6 DEF Values
<1> QED BY <1>9, <1>14, <1>15, <1>16, <1>17, <1>18 DEF Values

LEMMA DecodeValues == ASSUME IInv, Values, Decode PROVE Values'
<1> DEFINE n == Len(sent)
           got == Unpacks(dec, wire)
           parts == DecParts(dec.bits, got.code)
           h == [code |-> Head(sent), bits |-> got.code, rlow |-> DecLowOut(dec, parts),
                 pcm |-> DecSamples(dec, DecLowOut(dec, parts), DecFilter(dec, DecLowOut(dec, parts), DecHighOut(dec, parts)))]
<1>1. heard' = h /\ sent' = Tail(sent) /\ trail' = Tail(trail) /\ enc' = enc /\ input' = input
  BY Zenon DEF Decode
<1>2. IInv'
  BY DecodeIInv
<1>3. Len(trail) = n + 1 /\ Len(trail') = Len(sent') + 1 /\ IsSeq(sent) /\ IsSeq(trail) /\ n \in Nat /\ Len(sent') \in Nat
  BY <1>2, AppendSeq DEF IInv, InStep
<1>4. Some(trail)
  BY <1>3 DEF Some
<1>5. Len(trail') = n /\ \A i \in 1..n : trail'[i] = trail[i + 1]
  <2>1. Len(Tail(trail)) = Len(trail) - 1 /\ \A i \in 1..(Len(trail) - 1) : Tail(trail)[i] = trail[i + 1]
    BY <1>3, <1>4, TailSeq DEF Some
  <2>2. Len(trail) - 1 = n
    BY <1>3
  <2> QED BY <1>1, <2>1, <2>2
<1>6. n \in Nat \ {0} /\ Some(sent)
  BY <1>3, <1>5 DEF Some
<1>7. Len(sent') = n - 1 /\ Head(sent) = sent[1] /\ \A i \in 1..(n - 1) : sent'[i] = sent[i + 1]
  BY <1>1, <1>3, <1>6, TailSeq DEF Some
<1>8. h.code = Head(sent) /\ h.bits = got.code /\ h.rlow = DecLowOut(dec, parts)
  <2> HIDE DEF got, parts
  <2> QED OBVIOUS
<1> HIDE DEF h
<1>9. got.code = sent[1].bits /\ heard'.code = sent[1] /\ heard'.rlow = DecLowOut(dec, parts)
  BY <1>1, <1>2, <1>7, <1>8 DEF IInv, HeardIt
<1> HIDE DEF got
<1>10. /\ \A i \in 1..(n + 1) : Quantised(trail[i].low)
       /\ \A i \in 1..n : Near(trail[i].low, sent[i])
  BY DEF Values
<1>11. IsCode(sent[1], enc.bits) /\ trail[1] = Bands(dec) /\ dec.bits = enc.bits /\ 1 \in 1..n
  <2>1. 1 \in 1..n
    BY <1>6
  <2>2. trail[1] = Bands(dec) /\ \A i \in 1..n : IsCode(sent[i], enc.bits)
    BY DEF IInv, InStep
  <2>3. dec.bits = enc.bits
    BY DEF IInv, SameKind
  <2> QED BY <2>1, <2>2, <2>3
<1>12. ASSUME enc.bits = 8
       PROVE  heard'.rlow = Limit(dec.low.s + Level(dec.low, sent[1].low))
  <2>1. parts.wd2 = qm6[sent[1].low + 1]
    BY <1>9, <1>11, <1>12, LevelTaken
  <2> HIDE DEF parts
  <2> QED BY <1>9, <2>1 DEF DecLowOut, Level
<1>13. Near(dec.low, sent[1])
  <2>1. trail[1].low = dec.low
    BY <1>11 DEF Bands
  <2> QED BY <1>10, <1>11, <2>1
<1> HIDE DEF n, parts
<1>14. CloseToInput'
  BY <1>1, <1>9, <1>12, <1>13 DEF CloseToInput, Near
<1>15. \A i \in 1..n : i + 1 \in 1..(n + 1)
  BY <1>6
<1>16. \A i \in 1..n : Quantised(trail'[i].low)
  BY <1>5, <1>10, <1>15
<1>17. \A i \in 1..(n - 1) : i \in 1..n /\ i + 1 \in 1..n
  BY <1>6
<1>18. \A i \in 1..(n - 1) : Near(trail'[i].low, sent'[i])
  BY <1>5, <1>7, <1>10, <1>17
<1>19. (n - 1) + 1 = n
  BY <1>6
<1>20. Memory(enc'.x) /\ input' \in Samples
  BY <1>1 DEF Values
<1> QED BY <1>7, <1>14, <1>16, <1>18, <1>19, <1>20 DEF Values

LEMMA NextValues == IInv /\ Values /\ [Next]_vars => Values'
<1> SUFFICES ASSUME IInv, Values, [Next]_vars PROVE Values'
  OBVIOUS
<1>1. CASE Encode
  BY <1>1, EncodeValues
<1>2. CASE Decode
  BY <1>2, DecodeValues
<1>3. CASE Change \/ UNCHANGED vars
  <2>1. enc' = enc /\ sent' = sent /\ trail' = trail /\ heard' = heard
    BY <1>3 DEF Change, vars
  <2>2. input' \in Samples
    BY <1>3 DEF Change, vars, Values
  <2> QED BY <2>1, <2>2 DEF Values, CloseToInput
<1> QED BY <1>1, <1>2, <1>3 DEF Next

-----------------------------------------------------------------------------
\* Whatever is said, at every rate, packed or not, and however far the decoder is behind: its bands are
\* the ones the encoder had before the oldest code on its way (g722_encode.c and g722_decode.c).
THEOREM PredictorsFollow == Spec => []PredictorsAgree
BY InitIInv, NextIInv, IInvProperties, PTL DEF Spec

\* Whatever is said, the filters of both directions stay stable (UPPOL1 and UPPOL2 of block4)
\* and their scale factors within their table.
THEOREM FiltersStable == Spec => []Stable
BY InitIInv, NextIInv, IInvProperties, PTL DEF Spec

\* However the codes of six or seven bits and the bytes of the wire overlap (out_buffer and in_buffer of
\* the packed formats): the decoder takes every code as the encoder made it, and no bit is lost.
THEOREM CodesArrive == Spec => []CodesIntact
BY InitIInv, NextIInv, IInvProperties, PTL DEF Spec

\* At the full rate and whatever is said, the low band is decoded to the value that was encoded, but for the
\* width of the quantiser's step: q6 and iln, ilp of the encoder, qm6 of the decoder, and a scale factor
\* that never exceeds what keeps the difference from saturating.
THEOREM LowBandClose == Spec => []CloseToInput
<1>1. Init => IInv /\ Values
  BY InitIInv, InitValues
<1>2. IInv /\ Values /\ [Next]_vars => IInv' /\ Values'
  BY NextIInv, NextValues
<1>3. Values => CloseToInput
  BY DEF Values
<1> QED BY <1>1, <1>2, <1>3, PTL DEF Spec
=============================================================================
