----------------------------- MODULE MCG722Codec -----------------------------
(* G722Codec with silence, the loudest samples in and out of phase, and half    *)
(* as loud ones.                                                               *)
EXTENDS G722Codec

MCSamples == {<<0, 0>>, <<32767, 32767>>, <<-32768, 32767>>, <<16000, -16000>>}
=============================================================================
