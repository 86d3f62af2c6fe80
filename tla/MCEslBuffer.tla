----------------------------- MODULE MCEslBuffer -----------------------------
(* EslBuffer with every byte string of at most ChunkLen bytes as a chunk.   *)
EXTENDS EslBuffer

CONSTANT ChunkLen

MCChunk == UNION { [1..n -> Byte] : n \in 0..ChunkLen }
=============================================================================
