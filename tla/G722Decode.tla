----------------------------- MODULE G722Decode -----------------------------
(* The decoder, g722_decode.c, translated on its own: that its predictor stays *)
(* equal to the encoder's is what G722Codec checks.                            *)
EXTENDS G722Tables

DecUppol2(g, p) ==
    LET wd1 == Saturate(g.a[1] * 4)
        wd2 == IF p \div 32768 = g.p[1] \div 32768
               THEN IF -wd1 > 32767 THEN 32767 ELSE -wd1 ELSE wd1
        wd3 == (IF p \div 32768 = g.p[2] \div 32768 THEN 128 ELSE -128) + wd2 \div 128
               + (g.a[2] * 32512) \div 32768
    IN  IF wd3 > 12288 THEN 12288 ELSE IF wd3 < -12288 THEN -12288 ELSE wd3
DecUppol1(g, p, a2) ==
    LET wd1 == IF p \div 32768 = g.p[1] \div 32768 THEN 192 ELSE -192
        ap  == Saturate(wd1 + (g.a[1] * 32640) \div 32768)
        wd3 == Saturate(15360 - a2)
    IN  IF ap > wd3 THEN wd3 ELSE IF ap < -wd3 THEN -wd3 ELSE ap
DecUpzero(g, d, i) ==
    LET wd1 == IF d = 0 THEN 0 ELSE 128
    IN  Saturate((IF g.d[i] \div 32768 = d \div 32768 THEN wd1 ELSE -wd1)
                 + (g.b[i] * 32640) \div 32768)
DecFiltep(a, r) == Saturate((a[1] * Saturate(2 * r[1])) \div 32768
                            + (a[2] * Saturate(2 * r[2])) \div 32768)
DecTap(b, d, i) == (b[i] * Saturate(2 * d[i])) \div 32768
DecFiltez(b, d) == Saturate(DecTap(b, d, 6) + DecTap(b, d, 5) + DecTap(b, d, 4)
                            + DecTap(b, d, 3) + DecTap(b, d, 2) + DecTap(b, d, 1))
DecBlock4(g, d) ==
    LET p0 == Saturate(g.sz + d)
        a2 == DecUppol2(g, p0)
        an == <<DecUppol1(g, p0, a2), a2>>
        rn == <<Saturate(g.s + d), g.r[1]>>
        bn == [i \in 1..6 |-> DecUpzero(g, d, i)]
        dn == [i \in 1..6 |-> IF i = 1 THEN d ELSE g.d[i - 1]]
        sz == DecFiltez(bn, dn)
    IN  [g EXCEPT !.p = <<p0, g.p[1]>>, !.a = an, !.r = rn, !.b = bn, !.d = dn,
                  !.sz = sz, !.s = Saturate(DecFiltep(an, rn) + sz)]
DecLogsclBelow(nb, w, limit) ==
    LET wd == (nb * 127) \div 128 + w IN IF wd > limit THEN limit ELSE wd
DecLogscl(nb, w, limit) ==
    LET wd == (nb * 127) \div 128 + w IN IF wd < 0 THEN 0 ELSE IF wd > limit THEN limit ELSE wd
DecScale(nb, shift) ==
    LET wd1 == ilb[((nb \div 64) % 32) + 1]
        wd2 == shift - nb \div 2048
    IN  4 * (IF wd2 < 0 THEN wd1 * 2 ^ (-wd2) ELSE wd1 \div 2 ^ wd2)

qm5 == <<-280, -280, -23352, -17560, -14120, -11664, -9752, -8184, -6864, -5712,
         -4696, -3784, -2960, -2208, -1520, -880, 23352, 17560, 14120, 11664, 9752,
         8184, 6864, 5712, 4696, 3784, 2960, 2208, 1520, 880, 280, -280>>
qm6 == <<-136, -136, -136, -136, -24808, -21904, -19008, -16704, -14984, -13512,
         -12280, -11192, -10232, -9360, -8576, -7856, -7192, -6576, -6000, -5456,
         -4944, -4464, -4008, -3576, -3168, -2776, -2400, -2032, -1688, -1360, -1040,
         -728, 24808, 21904, 19008, 16704, 14984, 13512, 12280, 11192, 10232, 9360,
         8576, 7856, 7192, 6576, 6000, 5456, 4944, 4464, 4008, 3576, 3168, 2776,
         2400, 2032, 1688, 1360, 1040, 728, 432, 136, -432, -136>>

\* The parts of a code: the high band, the four bits the predictor follows, and
\* the value the low band is decoded with.
DecParts(bits, code) ==
    CASE bits = 8 -> [high |-> (code \div 64) % 4, ril |-> (code % 64) \div 4, wd2 |-> qm6[(code % 64) + 1]]
      [] bits = 7 -> [high |-> (code \div 32) % 4, ril |-> (code % 32) \div 2, wd2 |-> qm5[(code % 32) + 1]]
      [] bits = 6 -> [high |-> (code \div 16) % 4, ril |-> code % 16, wd2 |-> qm4[(code % 16) + 1]]

DecLowBand(g, ril) ==
    LET nb == DecLogscl(g.nb, wl[rl42[ril + 1] + 1], 18432)
    IN  DecBlock4([g EXCEPT !.nb = nb, !.det = DecScale(nb, 8)], (g.det * qm4[ril + 1]) \div 32768)
DecHighBand(g, ihigh) ==
    LET nb == DecLogscl(g.nb, wh[rh2[ihigh + 1] + 1], 22528)
    IN  DecBlock4([g EXCEPT !.nb = nb, !.det = DecScale(nb, 10)], (g.det * qm2[ihigh + 1]) \div 32768)

\* WebRtc_g722_decode_init.
DecInit(rate, eight, pack) ==
    LET bits == IF rate = 48000 THEN 6 ELSE IF rate = 56000 THEN 7 ELSE 8
    IN  [bits |-> bits, eight_k |-> eight, packed |-> pack /\ bits # 8, x |-> Zeros(24),
         low |-> Silent(32), high |-> Silent(8), in_buffer |-> 0, in_bits |-> 0]

\* The next code: of packed data a byte is taken only when the rest in in_buffer
\* is too short for a code.
UnpacksAlways(s, data) ==
    IF ~s.packed THEN [code |-> Head(data), rest |-> Tail(data), buffer |-> s.in_buffer, bits |-> s.in_bits]
    ELSE LET buffer == s.in_buffer + Head(data) * 2 ^ s.in_bits
         IN  [code |-> buffer % 2 ^ s.bits, rest |-> Tail(data),
              buffer |-> buffer \div 2 ^ s.bits, bits |-> s.in_bits + 8 - s.bits]
Unpacks(s, data) ==
    IF ~s.packed THEN [code |-> Head(data), rest |-> Tail(data), buffer |-> s.in_buffer, bits |-> s.in_bits]
    ELSE LET short  == s.in_bits < s.bits
             buffer == IF short THEN s.in_buffer + Head(data) * 2 ^ s.in_bits ELSE s.in_buffer
             filled == IF short THEN s.in_bits + 8 ELSE s.in_bits
         IN  [code |-> buffer % 2 ^ s.bits, rest |-> IF short THEN Tail(data) ELSE data,
              buffer |-> buffer \div 2 ^ s.bits, bits |-> filled - s.bits]

\* One pass: the reconstructed bands, the state after it, and the samples.
Limit(r) == IF r > 16383 THEN 16383 ELSE IF r < -16384 THEN -16384 ELSE r
DecLowOut(s, parts) == Limit(s.low.s + (s.low.det * parts.wd2) \div 32768)
DecHighOut(s, parts) ==
    IF s.eight_k THEN 0 ELSE Limit((s.high.det * qm2[parts.high + 1]) \div 32768 + s.high.s)
DecAdapted(s, parts, x) ==
    [s EXCEPT !.x = x, !.low = DecLowBand(s.low, parts.ril),
              !.high = IF s.eight_k THEN s.high ELSE DecHighBand(s.high, parts.high)]
DecFilter(s, rlow, rhigh) == IF s.eight_k THEN s.x ELSE Shuffled(s.x, rlow + rhigh, rlow - rhigh)
\* (WebRtc_Word16): what the type of the output keeps of a value.
Word16(v) == ((v + 32768) % 65536) - 32768
DecSamples(s, rlow, x) ==
    IF s.eight_k THEN <<Word16(2 * rlow)>>
    ELSE <<Saturate(EvenTaps(x) \div 2048), Saturate(OddTaps(x) \div 2048)>>
=============================================================================
