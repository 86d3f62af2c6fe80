SPECIFICATION Spec
CONSTANTS
  Byte = {nl, cr, nul}
  NL = nl
  CR = cr
  NUL = nul
  BlockSize = 1
  StartLen = 1
  MaxLen = 2
  Memory = 3
  ChunkLen = 2
  Chunk <- MCChunk
  MaxCount = 3
  MaxLoops = 1
INVARIANT MaxLenRespected

