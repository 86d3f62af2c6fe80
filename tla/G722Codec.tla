------------------------------ MODULE G722Codec ------------------------------
(* An encoder, the bytes it put out, and a decoder that reads them, in any      *)
(* interleaving.  The predictors are nowhere sent: the decoder is right only    *)
(* as long as its bands are the ones the encoder had one code earlier.          *)
EXTENDS G722Encode, G722Decode

CONSTANTS Rates,       \* of 48000, 56000, 64000 bit/s
          EightK,      \* which values the option G722_SAMPLE_RATE_8000 takes
          Packing,     \* which values the option G722_PACKED takes
          Samples,     \* the pairs of samples the input is made of
          ChangesAt,   \* after how many codes the input may change to another pair
          MaxCodes,    \* how many codes are made
          MaxLag       \* how many codes may be on their way

ASSUME RatesAssumption == Rates \subseteq {48000, 56000, 64000}
ASSUME OptionsAssumption == EightK \subseteq BOOLEAN /\ Packing \subseteq BOOLEAN
Int16 == -32768..32767   \* WebRtc_Word16, a sample
ASSUME SamplesAssumption == Samples \subseteq Int16 \X Int16

VARIABLES enc, dec,    \* g722_encode_state_t, g722_decode_state_t
          wire,        \* the bytes encoded and not yet decoded
          sent,        \* the codes of those bytes, with the band values they stand for
          trail,       \* the encoder's bands before and after each of them
          heard,       \* what the last code was decoded to
          input, changes, coded
vars == <<enc, dec, wire, sent, trail, heard, input, changes, coded>>

Bands(s) == [low |-> s.low, high |-> s.high]

Init ==
  /\ \E rate \in Rates, eight \in EightK, pack \in Packing :
       enc = EncInit(rate, eight, pack) /\ dec = DecInit(rate, eight, pack)
  /\ wire = <<>> /\ sent = <<>> /\ trail = <<Bands(enc)>>
  /\ heard = [code |-> [low |-> 0, high |-> 0, bits |-> 0, aim |-> 0, slack |-> 0],
              bits |-> 0, rlow |-> 0, pcm |-> <<0>>]
  /\ input \in Samples /\ changes = 0 /\ coded = 0

\* How far from the band value x the code of the difference x - s may lie: the width of
\* its decision interval and the two roundings; the outermost interval has no end.
Slack(x, g) ==
    LET e == Saturate(x - g.s)
        i == EncIndex(e, g.det)
    IN  IF i = 30 THEN 65536
        ELSE ((q6[i] - (IF i = 1 THEN 0 ELSE q6[i - 1])) * g.det) \div 4096 + 2

\* A pass of the loop of WebRtc_g722_encode.
Encode ==
  /\ coded < MaxCodes /\ Len(sent) < MaxLag
  /\ LET in == Split(enc, input[1], input[2])
     IN  \E code \in {EncCode(enc, in)} :
         \E next \in {EncAdapted(enc, in, code)}, pack \in {Packs(enc, code)} :
           /\ enc' = [next EXCEPT !.out_buffer = pack.buffer, !.out_bits = pack.bits]
           /\ wire' = wire \o pack.out
           /\ sent' = Append(sent, [low |-> code.low, high |-> code.high, bits |-> code.bits,
                                    aim |-> Limit(in.low), slack |-> Slack(in.low, enc.low)])
           /\ trail' = Append(trail, Bands(next))
  /\ coded' = coded + 1
  /\ UNCHANGED <<dec, heard, input, changes>>

\* A pass of the loop of WebRtc_g722_decode: it ends with the data, even when a
\* whole code is left in in_buffer.
Decode ==
  /\ wire # <<>>
  /\ \E got \in {Unpacks(dec, wire)} :
       LET parts == DecParts(dec.bits, got.code)
           rlow  == DecLowOut(dec, parts)
           x     == DecFilter(dec, rlow, DecHighOut(dec, parts))
       IN  /\ dec' = [DecAdapted(dec, parts, x) EXCEPT !.in_buffer = got.buffer, !.in_bits = got.bits]
           /\ wire' = got.rest
           /\ heard' = [code |-> Head(sent), bits |-> got.code, rlow |-> rlow,
                        pcm |-> DecSamples(dec, rlow, x)]
  /\ sent' = Tail(sent) /\ trail' = Tail(trail)
  /\ UNCHANGED <<enc, input, changes, coded>>

\* The speaker: another pair of samples from now on.
Change ==
  /\ changes = 0 /\ coded \in ChangesAt
  /\ input' \in Samples \ {input} /\ changes' = changes + 1
  /\ UNCHANGED <<enc, dec, wire, sent, trail, heard, coded>>

Next == Encode \/ Decode \/ Change
Spec == Init /\ [][Next]_vars

-----------------------------------------------------------------------------
\* The poles of each predictor stay in the triangle in which its filter is stable, and
\* the scale factors in the range of their table: block4 limits the first pole by the
\* second one of the same pass.
StableBand(g, limit) ==
  /\ -12288 <= g.a[2] /\ g.a[2] <= 12288
  /\ g.a[2] - 15360 <= g.a[1] /\ g.a[1] <= 15360 - g.a[2]
  /\ 0 <= g.nb /\ g.nb <= limit
Stable == \A s \in {enc, dec} : StableBand(s.low, 18432) /\ StableBand(s.high, 22528)

\* The code the decoder takes is the code the encoder made, at every rate and however
\* codes and bytes overlap; no bit is lost between the two buffers, and neither ever
\* holds back a whole byte.
CodesIntact ==
  /\ heard.bits = heard.code.bits
  /\ dec.in_bits + 8 * Len(wire) + enc.out_bits
       = IF enc.packed THEN enc.bits * Len(sent) ELSE 8 * Len(wire)
  /\ dec.in_bits \in 0..7 /\ enc.out_bits \in 0..7

\* The bands of the decoder are those the encoder had before the oldest code that is
\* still on its way: block4 and the scale factors of g722_encode.c and g722_decode.c
\* follow each other without ever being compared.
PredictorsAgree == Bands(dec) = trail[1]

\* At the full rate the low band is decoded to the value that was encoded, but for the width
\* of the quantiser's step: the thresholds of the encoder enclose the levels of the decoder.
CloseToInput ==
  enc.bits = 8 => /\ heard.rlow - heard.code.aim <= heard.code.slack
                  /\ heard.code.aim - heard.rlow <= heard.code.slack
=============================================================================
