CONSTANTS
  zeros = zeros
  Mode = 1
  MaxPayload = 27
  EchoMax = 64
  SeqModulus = 65536
  Sequences = {}
  Lengths = {}
  Payloads <- MCPayloads
  Blank = zeros
  ControlWords <- MCControlWords
  Frames <- MCFrames
  CapDelay = 7
  Fades = FALSE
SPECIFICATION JoinedSpec
INVARIANTS
  JoinedTypeOK
  OneAnswerOwed
  AnswerMatches
  NoStaleAbort
  AnswerSettled
VIEW MCView
