CONSTANTS
  zeros = zeros
  Mode = 1
  MaxPayload = 27
  EchoMax = 64
  SeqModulus = 65536
  Sequences = {}
  Lengths = {}
  Payloads <- MCPayloads
  Blank = zeros
  ControlWords <- MCListenWords
  Frames <- MCBadFrames
  CapDelay = 3
  Fades = FALSE
SPECIFICATION JoinedFairSpec
PROPERTIES
  StopTakesEffect
