----------------------------- MODULE G722Tables -----------------------------
(* What g722_encode.c and g722_decode.c have in common: the adaptive state of  *)
(* one band, 16-bit saturation, and the tables both files contain word for     *)
(* word.  A right shift of the C code is a division rounded down.              *)
EXTENDS Integers, Sequences

Saturate(amp) == IF amp > 32767 THEN 32767 ELSE IF amp < -32768 THEN -32768 ELSE amp

\* `band[]' of the state: the fields that one call leaves for the next (ap, bp,
\* sg and the entries 0 of the arrays are rewritten before they are read).
Zeros(n) == [i \in 1..n |-> 0]
Silent(det) == [s |-> 0, sz |-> 0, r |-> Zeros(2), p |-> Zeros(2), a |-> Zeros(2),
                d |-> Zeros(6), b |-> Zeros(6), nb |-> 0, det |-> det]

\* The sums of the two branches of the band split filter over the 24 samples x.
qmf_coeffs == <<3, -11, 12, 32, -210, 951, 3876, -805, 362, -156, 53, -11>>
Sum12(t) == t[1] + t[2] + t[3] + t[4] + t[5] + t[6]
            + t[7] + t[8] + t[9] + t[10] + t[11] + t[12]
OddTaps(x) == Sum12([i \in 1..12 |-> x[2 * i - 1] * qmf_coeffs[i]])
EvenTaps(x) == Sum12([i \in 1..12 |-> x[2 * i] * qmf_coeffs[13 - i]])
\* The filter memory moves on by two samples.
Shuffled(x, y, z) == [i \in 1..24 |-> IF i < 23 THEN x[i + 2] ELSE IF i = 23 THEN y ELSE z]

wl == <<-60, -30, 58, 172, 334, 538, 1198, 3042>>
rl42 == <<0, 7, 6, 5, 4, 3, 2, 1, 7, 6, 5, 4, 3, 2, 1, 0>>
ilb == <<2048, 2093, 2139, 2186, 2233, 2282, 2332, 2383, 2435, 2489, 2543, 2599,
         2656, 2714, 2774, 2834, 2896, 2960, 3025, 3091, 3158, 3228, 3298, 3371,
         3444, 3520, 3597, 3676, 3756, 3838, 3922, 4008>>
qm4 == <<0, -20456, -12896, -8968, -6288, -4240, -2584, -1200,
         20456, 12896, 8968, 6288, 4240, 2584, 1200, 0>>
qm2 == <<-7408, -1616, 7408, 1616>>
wh == <<0, -214, 798>>
rh2 == <<2, 1, 2, 1>>
=============================================================================
