\* Limits small enough for the client to go beyond each of them; a recv can hold a chunk of one byte and the last size line.
CONSTANTS
  MaxHeaderSize = 5
  MaxUri = 1
  MaxHeaders = 2
  MaxBody = 2
  MaxTotal = 30
  Word = 32
  MaxLength = 3
  MaxChunkSize = 2
  MaxRecv = 9
SPECIFICATION DecoderSpec
CHECK_DEADLOCK FALSE
INVARIANTS
  TypeOK
  NotRefused
  EndsWithMessage
  RequestIntact
  SameBody
