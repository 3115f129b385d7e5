CONSTANTS
  zeros = zeros
  Mode = 1
  MaxPayload = 27
  EchoMax = 64
  SeqModulus = 65536
  Sequences = {}
  Lengths = {40}
  Payloads <- MCPayloads
  Blank = zeros
  ControlWords <- MCControlWords
  Frames <- MCFrames
SPECIFICATION FairSpec
INVARIANTS
  TypeOK
  OneUser
PROPERTIES
  RequestHeld
  ListeningDeliversGood
  TxCompletes
  StoppedAttemptEnds
