CONSTANTS
  alice = alice
  bob = bob
  Boards <- MCBoards
  FirstSeq <- MCFirstSeq
  FirstId <- MCFirstId
  SeqModulus = 65536
  IdModulus = 256
  ARQ_TRIES = 2
  Plans <- MCBothType
CHECK_DEADLOCK FALSE
SPECIFICATION Spec
INVARIANT OwnBurstDiscarded
