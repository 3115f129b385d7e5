CONSTANTS
  alice = alice
  bob = bob
  Boards <- MCBoards
  FirstSeq <- MCFirstSeq
  FirstId <- MCFirstId
  SeqModulus = 65536
  IdModulus = 256
  ARQ_TRIES = 2
  Plans <- MCPlans
CHECK_DEADLOCK FALSE
SPECIFICATION FairSpec
INVARIANTS TypeOK PrintedOnce ShownWhole ListensBetweenSends
PROPERTIES DeliverySpec LineReported
