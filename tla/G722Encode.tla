----------------------------- MODULE G722Encode -----------------------------
(* The encoder, g722_encode.c.  A pass of its loop turns two samples (one at   *)
(* 8 kHz) into one code of `bits' bits; the state is a record with the fields  *)
(* of g722_encode_state_t.                                                     *)
EXTENDS G722Tables

\* Block 4: the second pole, the first pole, the six zeros.
EncUppol2(g, p) ==
    LET wd1 == Saturate(g.a[1] * 4)
        wd2 == IF p \div 32768 = g.p[1] \div 32768
               THEN IF -wd1 > 32767 THEN 32767 ELSE -wd1 ELSE wd1
        wd3 == wd2 \div 128 + (IF p \div 32768 = g.p[2] \div 32768 THEN 128 ELSE -128)
               + (g.a[2] * 32512) \div 32768
    IN  IF wd3 > 12288 THEN 12288 ELSE IF wd3 < -12288 THEN -12288 ELSE wd3
EncUppol1Stale(g, p, a2) ==
    LET wd1 == IF p \div 32768 = g.p[1] \div 32768 THEN 192 ELSE -192
        ap  == Saturate(wd1 + (g.a[1] * 32640) \div 32768)
        wd3 == Saturate(15360 - g.a[2])
    IN  IF ap > wd3 THEN wd3 ELSE IF ap < -wd3 THEN -wd3 ELSE ap
EncUppol1(g, p, a2) ==
    LET wd1 == IF p \div 32768 = g.p[1] \div 32768 THEN 192 ELSE -192
        ap  == Saturate(wd1 + (g.a[1] * 32640) \div 32768)
        wd3 == Saturate(15360 - a2)
    IN  IF ap > wd3 THEN wd3 ELSE IF ap < -wd3 THEN -wd3 ELSE ap
EncUpzero(g, d, i) ==
    LET wd1 == IF d = 0 THEN 0 ELSE 128
    IN  Saturate((IF g.d[i] \div 32768 = d \div 32768 THEN wd1 ELSE -wd1)
                 + (g.b[i] * 32640) \div 32768)

\* The filters over the updated coefficients and delay lines.
EncFiltep(a, r) == Saturate((a[1] * Saturate(2 * r[1])) \div 32768
                            + (a[2] * Saturate(2 * r[2])) \div 32768)
EncTap(b, d, i) == (b[i] * Saturate(2 * d[i])) \div 32768
EncFiltez(b, d) == Saturate(EncTap(b, d, 6) + EncTap(b, d, 5) + EncTap(b, d, 4)
                            + EncTap(b, d, 3) + EncTap(b, d, 2) + EncTap(b, d, 1))

\* The band after the quantised difference d was added to its prediction.
EncBlock4(g, d) ==
    LET p0 == Saturate(g.sz + d)
        a2 == EncUppol2(g, p0)
        an == <<EncUppol1(g, p0, a2), a2>>
        rn == <<Saturate(g.s + d), g.r[1]>>
        bn == [i \in 1..6 |-> EncUpzero(g, d, i)]
        dn == [i \in 1..6 |-> IF i = 1 THEN d ELSE g.d[i - 1]]
        sz == EncFiltez(bn, dn)
    IN  [g EXCEPT !.p = <<p0, g.p[1]>>, !.a = an, !.r = rn, !.b = bn, !.d = dn,
                  !.sz = sz, !.s = Saturate(EncFiltep(an, rn) + sz)]

\* The logarithmic scale factor and the step it stands for.
EncLogscl(nb, w, limit) ==
    LET wd == (nb * 127) \div 128 + w IN IF wd < 0 THEN 0 ELSE IF wd > limit THEN limit ELSE wd
EncScale(nb, shift) ==
    LET wd1 == ilb[((nb \div 64) % 32) + 1]
        wd2 == shift - nb \div 2048
    IN  4 * (IF wd2 < 0 THEN wd1 * 2 ^ (-wd2) ELSE wd1 \div 2 ^ wd2)

q6 == <<35, 72, 110, 150, 190, 233, 276, 323, 370, 422, 473, 530, 587, 650, 714,
        786, 858, 940, 1023, 1121, 1219, 1339, 1458, 1612, 1765, 1980, 2195, 2557, 2919>>
iln == <<63, 62, 31, 30, 29, 28, 27, 26, 25, 24, 23, 22, 21, 20, 19, 18, 17, 16,
         15, 14, 13, 12, 11, 10, 9, 8, 7, 6, 5, 4>>
ilp == <<61, 60, 59, 58, 57, 56, 55, 54, 53, 52, 51, 50, 49, 48, 47, 46, 45, 44,
         43, 42, 41, 40, 39, 38, 37, 36, 35, 34, 33, 32>>
ihn == <<1, 0>>
ihp == <<3, 2>>

\* QUANTL, QUANTH: the first threshold the difference e stays below.
Magnitude(e) == IF e >= 0 THEN e ELSE -(e + 1)
EncIndex(e, det) ==
    LET below == {i \in 1..29 : Magnitude(e) < (q6[i] * det) \div 4096} \cup {30}
    IN  CHOOSE i \in below : \A j \in below : i <= j
EncLowSwapped(e, det) == IF e < 0 THEN ilp[EncIndex(e, det)] ELSE iln[EncIndex(e, det)]
EncLow(e, det) == IF e < 0 THEN iln[EncIndex(e, det)] ELSE ilp[EncIndex(e, det)]
EncHigh(e, det) ==
    LET mih == IF Magnitude(e) >= (564 * det) \div 4096 THEN 2 ELSE 1
    IN  IF e < 0 THEN ihn[mih] ELSE ihp[mih]

\* The two bands after the codes ilow and ihigh.
EncLowBand(g, ilow) ==
    LET ril == ilow \div 4
        nb  == EncLogscl(g.nb, wl[rl42[ril + 1] + 1], 18432)
    IN  EncBlock4([g EXCEPT !.nb = nb, !.det = EncScale(nb, 8)], (g.det * qm4[ril + 1]) \div 32768)
EncHighBand(g, ihigh) ==
    LET nb == EncLogscl(g.nb, wh[rh2[ihigh + 1] + 1], 22528)
    IN  EncBlock4([g EXCEPT !.nb = nb, !.det = EncScale(nb, 10)], (g.det * qm2[ihigh + 1]) \div 32768)

\* WebRtc_g722_encode_init.  itu_test_mode stays 0: nothing in the code sets it.
BitsPerSample(rate) == IF rate = 48000 THEN 6 ELSE IF rate = 56000 THEN 7 ELSE 8
EncInit(rate, eight, pack) ==
    [bits |-> BitsPerSample(rate), eight_k |-> eight, packed |-> pack /\ BitsPerSample(rate) # 8,
     x |-> Zeros(24), low |-> Silent(32), high |-> Silent(8), out_buffer |-> 0, out_bits |-> 0]

\* What the filter passes on of the samples y and z; at 8 kHz there is only y.
Split(s, y, z) ==
    IF s.eight_k THEN [x |-> s.x, low |-> y \div 2, high |-> 0]
    ELSE LET x == Shuffled(s.x, y, z)
         IN  [x |-> x, low |-> (EvenTaps(x) + OddTaps(x)) \div 16384,
              high |-> (EvenTaps(x) - OddTaps(x)) \div 16384]

\* One pass: the code, the new state, and the bytes put out (none or one).  Of a code
\* the lower rates drop the last bits.
Dropped(bits) == IF bits = 8 THEN 1 ELSE IF bits = 7 THEN 2 ELSE 4
EncCode(s, in) ==
    LET ilow  == EncLow(Saturate(in.low - s.low.s), s.low.det)
        ihigh == IF s.eight_k THEN 3 ELSE EncHigh(Saturate(in.high - s.high.s), s.high.det)
    IN  [low |-> ilow, high |-> ihigh, bits |-> (ihigh * 64 + ilow) \div Dropped(s.bits)]
EncAdapted(s, in, code) ==
    [s EXCEPT !.x = in.x, !.low = EncLowBand(s.low, code.low),
              !.high = IF s.eight_k THEN s.high ELSE EncHighBand(s.high, code.high)]
PacksTwice(s, code) ==
    LET buffer == s.out_buffer + code.bits * 2 ^ s.out_bits
        filled == s.out_bits + s.bits
    IN  IF ~s.packed THEN [out |-> <<code.bits>>, buffer |-> s.out_buffer, bits |-> s.out_bits]
        ELSE IF filled >= 8 THEN [out |-> <<buffer % 256>>, buffer |-> buffer, bits |-> filled - 8]
        ELSE [out |-> <<>>, buffer |-> buffer, bits |-> filled]
Packs(s, code) ==
    LET buffer == s.out_buffer + code.bits * 2 ^ s.out_bits
        filled == s.out_bits + s.bits
    IN  IF ~s.packed THEN [out |-> <<code.bits>>, buffer |-> s.out_buffer, bits |-> s.out_bits]
        ELSE IF filled >= 8 THEN [out |-> <<buffer % 256>>, buffer |-> buffer \div 256, bits |-> filled - 8]
        ELSE [out |-> <<>>, buffer |-> buffer, bits |-> filled]
=============================================================================
