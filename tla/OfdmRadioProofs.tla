-------------------------- MODULE OfdmRadioProofs --------------------------
(***************************************************************************)
(* Proofs about OfdmRadio.  What is proved of the TX FIFO for any use of   *)
(* its ports holds in the core, whose steps clock one of its sides, both   *)
(* or neither; the frame zofdm reads is followed through the receiver,     *)
(* from the search by way of the modem and the writer to the RX buffer;    *)
(* and the frame zofdm sends from the TX buffer by way of the feeder, the  *)
(* modem, the gain pipeline and the FIFO to the DAC.                       *)
(***************************************************************************)
EXTENDS OfdmRadio, NatLemmas

Fifo == INSTANCE AsyncFifoProofs
          WITH Pow2 <- Powers, Words <- {}, NoWord <- Silence

-----------------------------------------------------------------------------
(* The powers of two.                                                      *)

\* the recursive definition of PowerOfTwo defines what it says
LEMMA PowerOfTwoDefined ==
  PowerOfTwo = [n \in Nat |-> IF n = 0 THEN 1 ELSE 2 * PowerOfTwo[n - 1]]
  <1> DEFINE Good(g, n) == /\ g \in [0..n -> Nat]
                           /\ \A i \in 0..n : g[i] = IF i = 0 THEN 1 ELSE 2 * g[i - 1]
  <1>1. ASSUME NEW n \in Nat PROVE \E g : Good(g, n)
    <2> DEFINE T == {k \in Nat : ~ \E g : Good(g, k)}
    <2> SUFFICES ASSUME T # {} PROVE FALSE
      OBVIOUS
    <2>1. PICK k \in T : \A j \in T : k <= j
      BY LeastElement
    <2>2. k # 0
      <3>1. Good([i \in 0..0 |-> 1], 0)
        OBVIOUS
      <3> QED
        BY <2>1, <3>1
    <2>3. k - 1 \in Nat /\ k - 1 \notin T
      <3>1. k \in Nat
        OBVIOUS
      <3> HIDE DEF T
      <3> QED
        BY <2>1, <2>2, <3>1
    <2>4. PICK g : Good(g, k - 1)
      BY <2>3
    <2>5. Good([i \in 0..k |-> IF i = k THEN 2 * g[k - 1] ELSE g[i]], k)
      BY <2>1, <2>2, <2>4
    <2> QED
      BY <2>1, <2>5
  <1>2. ASSUME NEW m \in Nat, NEW n \in Nat, NEW g, NEW h, Good(g, m), Good(h, n)
        PROVE  \A i \in Nat : i <= m /\ i <= n => g[i] = h[i]
    <2> DEFINE T == {i \in Nat : i <= m /\ i <= n /\ g[i] # h[i]}
    <2> SUFFICES ASSUME T # {} PROVE FALSE
      OBVIOUS
    <2>1. PICK k \in T : \A j \in T : k <= j
      BY LeastElement
    <2>2. k # 0
      BY <1>2, <2>1
    <2>3. g[k - 1] = h[k - 1]
      BY <2>1, <2>2
    <2> QED
      BY <1>2, <2>1, <2>2, <2>3
  <1> DEFINE G(n) == CHOOSE g : Good(g, n)
             p == [n \in Nat |-> G(n)[n]]
  <1>3. \A n \in Nat : Good(G(n), n)
    BY <1>1
  <1>4. p = [n \in Nat |-> IF n = 0 THEN 1 ELSE 2 * p[n - 1]]
    <2> HIDE DEF G
    <2> SUFFICES ASSUME NEW n \in Nat
                 PROVE  p[n] = IF n = 0 THEN 1 ELSE 2 * p[n - 1]
      OBVIOUS
    <2>1. CASE n = 0
      BY <1>3, <2>1
    <2>2. CASE n # 0
      <3>1. Good(G(n), n) /\ Good(G(n - 1), n - 1) /\ n - 1 \in Nat
        BY <1>3, <2>2
      <3>2. G(n)[n] = 2 * G(n)[n - 1]
        BY <3>1, <2>2
      <3> HIDE DEF Good
      <3>3. \A i \in Nat : i <= n /\ i <= n - 1 => G(n)[i] = G(n - 1)[i]
        BY <1>2, <3>1
      <3> QED
        BY <2>2, <3>1, <3>2, <3>3
    <2> QED
      BY <2>1, <2>2
  <1> HIDE DEF p
  <1>5. \E g : g = [n \in Nat |-> IF n = 0 THEN 1 ELSE 2 * g[n - 1]]
    BY <1>4
  <1> QED
    BY <1>5, Zenon DEF PowerOfTwo

\* the table of powers is as the FIFO needs it
LEMMA PowersAre == ASSUME AW \in Nat PROVE Fifo!PowersOfTwo
  <1>1. PowerOfTwo[0] = 1 /\ \A n \in Nat : PowerOfTwo[n + 1] = 2 * PowerOfTwo[n]
    BY PowerOfTwoDefined
  <1>2. \A i \in 0..AW : Powers[i] = PowerOfTwo[i] /\ Powers[i + 1] = PowerOfTwo[i + 1]
    BY DEF Powers
  <1> QED
    BY <1>1, <1>2 DEF Fifo!PowersOfTwo

-----------------------------------------------------------------------------
(* The TX FIFO.                                                            *)

\* the two instances of the FIFO are one
LEMMA SameFifo ==
  /\ TxFifo!FifoInit => Fifo!FifoInit
  /\ \A en, w : TxFifo!WriteClock(en, w) => Fifo!WriteClock(en, w)
  /\ \A en : TxFifo!ReadClock(en) => Fifo!ReadClock(en)
  /\ \A wr_en, rd_en, w :
       TxFifo!BothClocks(wr_en, w, rd_en) => Fifo!BothClocks(wr_en, w, rd_en)
  /\ Fifo!NeverWrong => TxFifo!NeverWrong
  BY Zenon DEF
    TxFifo!FifoInit, TxFifo!WriteClock, TxFifo!ReadClock, TxFifo!BothClocks,
    TxFifo!NeverWrong, TxFifo!WriteEdge, TxFifo!ReadEdge, TxFifo!Caught,
    TxFifo!GrayWords, TxFifo!wr_full, TxFifo!rd_empty, TxFifo!LapAhead,
    TxFifo!Gray, TxFifo!Bit, TxFifo!NextOf, TxFifo!Held, TxFifo!Depth, TxFifo!Lap,
    TxFifo!writeSide, TxFifo!readSide,
    Fifo!FifoInit, Fifo!WriteClock, Fifo!ReadClock, Fifo!BothClocks,
    Fifo!NeverWrong, Fifo!WriteEdge, Fifo!ReadEdge, Fifo!Caught,
    Fifo!GrayWords, Fifo!wr_full, Fifo!rd_empty, Fifo!LapAhead,
    Fifo!Gray, Fifo!Bit, Fifo!NextOf, Fifo!Held, Fifo!Depth, Fifo!Lap,
    Fifo!writeSide, Fifo!readSide

\* a step of the core is a step of its FIFO or leaves it alone
LEMMA FifoSteps == ASSUME [Next]_vars PROVE Fifo!FifoStep \/ UNCHANGED fifo
  <1>1. CASE Zofdm
    BY <1>1 DEF Zofdm, Run, Stop, PutFrame, Arm, StartTx, WaitRx, WaitTx, Poll,
                CheckFrame, Checked, RxArm, TxStart, hardware
  <1>2. CASE Receive
    BY <1>2 DEF Receive
  <1>3. ASSUME NEW ready \in IfftReady, ControlClock(ready) PROVE Fifo!FifoStep
    <2>1. TxFifo!WriteClock(s2 # Silence, s2) /\ (s2 # Silence) \in BOOLEAN
      BY <1>3 DEF ControlClock
    <2> QED
      BY <2>1, SameFifo DEF Fifo!FifoStep
  <1>4. ASSUME NEW req \in BOOLEAN, SampleClock(req) PROVE Fifo!FifoStep
    <2>1. TxFifo!ReadClock(req /\ s_active) /\ (req /\ s_active) \in BOOLEAN
      BY <1>4 DEF SampleClock
    <2> QED
      BY <2>1, SameFifo DEF Fifo!FifoStep
  <1>5. ASSUME NEW ready \in IfftReady, NEW req \in BOOLEAN, BothClocks(ready, req)
        PROVE  Fifo!FifoStep
    <2>1. /\ TxFifo!BothClocks(s2 # Silence, s2, req /\ s_active)
          /\ (s2 # Silence) \in BOOLEAN /\ (req /\ s_active) \in BOOLEAN
      BY <1>5 DEF BothClocks
    <2> QED
      BY <2>1, SameFifo DEF Fifo!FifoStep
  <1>6. CASE UNCHANGED vars
    BY <1>6 DEF vars
  <1> QED
    BY <1>1, <1>2, <1>3, <1>4, <1>5, <1>6 DEF Next

(***************************************************************************)
(* Full and empty of the TX FIFO are never wrong, for every depth and      *)
(* whatever the clocks catch of each other's pointers.                     *)
(***************************************************************************)
THEOREM FifoFlagsRight == Spec => []FifoNeverWrong
  <1>0. AW \in Nat /\ AW >= 1 /\ Fifo!PowersOfTwo
    BY RadioAssumption, PowersAre DEF RadioAssumption
  <1>1. Init => Fifo!FifoInv
    BY <1>0, SameFifo, Fifo!InitInv DEF Init
  <1>2. Fifo!FifoInv /\ [Next]_vars => Fifo!FifoInv'
    <2> SUFFICES ASSUME Fifo!FifoInv, [Next]_vars PROVE Fifo!FifoInv'
      OBVIOUS
    <2>1. CASE Fifo!FifoStep
      BY <1>0, <2>1, Fifo!StepKeepsInv
    <2>2. CASE UNCHANGED fifo
      BY <2>2, Fifo!StutterKeepsInv DEF fifo, Fifo!fifoVars, Fifo!writeSide, Fifo!readSide
    <2> QED
      BY <2>1, <2>2, FifoSteps
  <1>3. Fifo!FifoInv => FifoNeverWrong
    BY <1>0, SameFifo, Fifo!InvNeverWrong DEF FifoNeverWrong
  <1> QED
    BY <1>1, <1>2, <1>3, PTL DEF Spec

-----------------------------------------------------------------------------
(* The frame received.                                                     *)

One(p) == IF p THEN 1 ELSE 0

Place(n, i) == [frame |-> n, sym |-> i]

\* word a of the data of frame n, as the RX buffer holds it
Stored(n, a) == [frame |-> n, sym |-> a \div SymbolWords + 1, word |-> a % SymbolWords]

\* words of the frame written so far
Filled == rx_syms * SymbolWords + w_k

ReceiveTypes ==
  /\ found \in Nat /\ found_at_arm \in 0..found
  /\ rx_armed \in BOOLEAN /\ rx_fed \in BOOLEAN /\ trained \in BOOLEAN
  /\ fed_syms \in 0..DataSymbols + 1 /\ rx_syms \in 0..DataSymbols
  /\ w_k \in 0..SymbolWords - 1
  /\ rxbuf \in [0..MaxSymbols * SymbolWords - 1 -> ReceivedWord]
  /\ rx_fed <=> (fed_syms = DataSymbols + 1)
  /\ writing = Nothing => w_k = 0

\* what the search gives out was found since RX_ARM
Searching ==
  search # Nothing =>
    \E n \in found_at_arm + 1..found, i \in 0..DataSymbols : search = Place(n, i)

\* nothing has been fed to the modem since RX_ARM
Waiting ==
  /\ chain = Nothing /\ writing = Nothing /\ ~ trained /\ rx_syms = 0
  /\ (rx_armed /\ search # Nothing) => search.sym = 0

\* frame n is being taken in: where each of its symbols has got to
Taken(n) ==
  /\ n \in found_at_arm + 1..found
  /\ (rx_armed /\ ~ rx_fed) => search = Place(n, fed_syms)
  /\ chain # Nothing => chain = Place(n, fed_syms - 1)
  /\ ~ trained => fed_syms = 1 /\ rx_syms = 0 /\ chain # Nothing
  /\ trained => fed_syms = 1 + rx_syms + One(writing # Nothing) + One(chain # Nothing)
  /\ writing # Nothing => trained /\ writing = Place(n, rx_syms + 1)
  /\ \A a \in 0..Filled - 1 : rxbuf[a] = Stored(n, a)

Taking == IF fed_syms = 0 THEN Waiting ELSE \E n \in Nat : Taken(n)

\* what zofdm has read of it
Reading ==
  /\ got \in Seq(ReceivedWord)
  /\ pc # "check" => got = <<>>
  /\ pc \in {"wait_both", "check"} => RxDone
  /\ Len(got) <= DataWords /\ \A k \in 1..Len(got) : got[k] = rxbuf[k - 1]

FrameInv == ReceiveTypes /\ Searching /\ Taking /\ Reading

\* the sizes of the core
LEMMA Sizes ==
  /\ SymbolWords \in Nat \ {0} /\ DataSymbols \in Nat \ {0} /\ MaxSymbols \in Nat
  /\ DataSymbols <= MaxSymbols /\ DataWords \in Nat \ {0}
  /\ DataWords = DataSymbols * SymbolWords
  <1>1. /\ SymbolWords \in Nat \ {0} /\ DataSymbols \in Nat \ {0} /\ MaxSymbols \in Nat
        /\ DataSymbols <= MaxSymbols
    BY RadioAssumption DEF RadioAssumption
  <1>2. 1 * SymbolWords <= DataSymbols * SymbolWords
    BY <1>1, ProductGrows
  <1>3. DataSymbols * SymbolWords \in Nat
    BY <1>1
  <1> QED
    BY <1>1, <1>2, <1>3 DEF DataWords

\* a place is not nothing, and tells its frame and symbol
LEMMA PlaceIs ==
  ASSUME NEW n \in Nat \ {0}, NEW i \in Nat
  PROVE  /\ Place(n, i) # Nothing /\ Place(n, i).sym = i /\ Place(n, i).frame = n
         /\ [Place(n, i) EXCEPT !.sym = @ + 1] = Place(n, i + 1)
         /\ \A m, j : Place(n, i) = Place(m, j) => m = n /\ j = i
  BY DEF Place, Nothing

\* nothing has been found and nothing read
LEMMA InitFrame == Init => FrameInv
  <1> SUFFICES ASSUME Init PROVE FrameInv
    OBVIOUS
  <1>1. ReceiveTypes
    <2>1. rxbuf \in [0..MaxSymbols * SymbolWords - 1 -> ReceivedWord]
      BY DEF Init, ReceivedWord
    <2>2. rx_fed <=> (fed_syms = DataSymbols + 1)
      BY Sizes DEF Init
    <2>3. /\ found = 0 /\ found_at_arm = 0 /\ rx_armed = FALSE /\ rx_fed = FALSE
          /\ trained = FALSE /\ fed_syms = 0 /\ rx_syms = 0 /\ w_k = 0
      BY DEF Init
    <2>4. 0 \in 0..DataSymbols + 1 /\ 0 \in 0..DataSymbols /\ 0 \in 0..SymbolWords - 1
          /\ 0 \in Nat /\ 0 \in 0..0
      BY Sizes
    <2> QED
      BY <2>1, <2>2, <2>3, <2>4, Zenon DEF ReceiveTypes
  <1>2. Searching /\ Taking
    BY DEF Init, Searching, Taking, Waiting
  <1>3. Reading
    BY Sizes DEF Init, Reading
  <1> QED
    BY <1>1, <1>2, <1>3 DEF FrameInv

\* what does not touch the receiver or what was read keeps the invariant
LEMMA FrameKept ==
  ASSUME FrameInv, UNCHANGED <<receive, pc, got, found_at_arm>>
  PROVE  FrameInv'
  BY DEF FrameInv, receive, ReceiveTypes, Searching, Taking, Waiting, Taken, Filled,
         Reading, RxDone

\* a step of the receiver that writes no word disturbs no reader
LEMMA ReadingKept ==
  ASSUME Reading, UNCHANGED <<pc, got, rx_armed, rx_syms, rxbuf>>
  PROVE  Reading'
  BY DEF Reading, RxDone

\* the search has found a frame
LEMMA FoundFrame ==
  ASSUME FrameInv, FrameFound, UNCHANGED ps
  PROVE  FrameInv'
  <1> USE DEF FrameFound
  <1>1. ReceiveTypes'
    BY DEF FrameInv, ReceiveTypes, ps
  <1>2. Searching' /\ search' = Place(found + 1, 0) /\ search'.sym = 0
    BY Sizes DEF Searching, Place, ps, FrameInv, ReceiveTypes
  <1>3. Taking'
    <2>1. CASE fed_syms = 0
      BY <1>2, <2>1 DEF FrameInv, Taking, Waiting
    <2>2. CASE fed_syms # 0
      <3>1. PICK n \in Nat : Taken(n)
        BY <2>2 DEF FrameInv, Taking
      <3>2. ~ (rx_armed /\ ~ rx_fed)
        <4>1. fed_syms \in Nat /\ n \in Nat \ {0}
          BY <3>1 DEF FrameInv, ReceiveTypes, Taken
        <4> QED
          BY <3>1, <4>1, PlaceIs DEF Taken
      <3>3. Taken(n)'
        BY <3>1, <3>2 DEF Taken, Filled, ps, FrameInv, ReceiveTypes
      <3> QED
        BY <2>2, <3>3 DEF Taking
    <2> QED
      BY <2>1, <2>2
  <1>4. Reading'
    BY ReadingKept DEF FrameInv, ps
  <1> QED
    BY <1>1, <1>2, <1>3, <1>4 DEF FrameInv

\* the search gives out a symbol, to the modem or to nobody
LEMMA SymbolGiven ==
  ASSUME FrameInv, SymbolOut, UNCHANGED ps
  PROVE  FrameInv'
  <1> USE DEF SymbolOut
  <1>1. PICK n \in found_at_arm + 1..found, i \in 0..DataSymbols : search = Place(n, i)
    BY DEF FrameInv, Searching
  <1>2. n \in Nat \ {0} /\ i \in Nat
    BY <1>1 DEF FrameInv, ReceiveTypes
  <1>3. search' = IF i = DataSymbols THEN Nothing ELSE Place(n, i + 1)
    BY <1>1, <1>2, PlaceIs
  <1>4. Searching'
    BY <1>1, <1>3, Sizes DEF Searching, ps
  <1>5. forward => i = fed_syms /\ fed_syms < DataSymbols + 1 /\ (fed_syms # 0 => Taken(n))
    <2> SUFFICES ASSUME forward
                 PROVE  i = fed_syms /\ fed_syms < DataSymbols + 1
                        /\ (fed_syms # 0 => Taken(n))
      OBVIOUS
    <2>1. fed_syms < DataSymbols + 1
      <3>1. fed_syms # DataSymbols + 1 /\ fed_syms \in 0..DataSymbols + 1
        BY DEF FrameInv, ReceiveTypes, forward
      <3> QED
        BY <3>1, Sizes
    <2>2. CASE fed_syms = 0
      <3>1. search.sym = 0
        BY <2>2 DEF FrameInv, Taking, Waiting, forward
      <3> QED
        BY <1>1, <1>2, <2>1, <2>2, <3>1, PlaceIs
    <2>3. CASE fed_syms # 0
      <3>1. PICK m \in Nat : Taken(m)
        BY <2>3 DEF FrameInv, Taking
      <3>2. search = Place(m, fed_syms)
        BY <3>1 DEF Taken, forward
      <3>3. m = n /\ i = fed_syms
        BY <1>1, <3>2 DEF Place
      <3> QED
        BY <2>1, <3>1, <3>3
    <2> QED
      BY <2>2, <2>3
  <1>6. CASE forward
    <2>1. chain = Nothing /\ chain' = Place(n, fed_syms) /\ fed_syms' = fed_syms + 1
          /\ rx_fed' \in BOOLEAN /\ (rx_fed' <=> fed_syms + 1 = DataSymbols + 1)
      BY <1>1, <1>5, <1>6 DEF Enough
    <2>2. chain' # Nothing
      BY <1>2, <2>1 DEF Place, Nothing
    <2>3. ReceiveTypes'
      BY <1>5, <1>6, <2>1, Sizes DEF FrameInv, ReceiveTypes, ps
    <2>4. Taken(n)'
      <3>1. (n \in found_at_arm + 1..found)'
        BY <1>1 DEF ps
      <3>2. (rx_armed' /\ ~ rx_fed') => search' = Place(n, fed_syms')
        BY <1>3, <1>5, <1>6, <2>1
      <3>3. chain' = Place(n, fed_syms' - 1)
        BY <2>1, <2>3 DEF FrameInv, ReceiveTypes
      <3>4. CASE fed_syms = 0
        <4>1. ~ trained /\ writing = Nothing /\ rx_syms = 0 /\ w_k = 0
          BY <3>4 DEF FrameInv, Taking, Waiting, ReceiveTypes
        <4>2. Filled' = 0
          BY <4>1, Sizes DEF Filled
        <4> QED
          BY <2>1, <2>2, <3>1, <3>2, <3>3, <3>4, <4>1, <4>2 DEF Taken
      <3>5. CASE fed_syms # 0
        <4>1. Taken(n)
          BY <1>5, <1>6, <3>5
        <4>2. trained /\ fed_syms = 1 + rx_syms + One(writing # Nothing)
          BY <2>1, <4>1 DEF Taken, One, FrameInv, ReceiveTypes
        <4>3. /\ trained'
              /\ fed_syms' = 1 + rx_syms' + One(writing' # Nothing) + One(chain' # Nothing)
          BY <2>1, <2>2, <4>2 DEF One, FrameInv, ReceiveTypes
        <4>4. writing' # Nothing => writing' = Place(n, rx_syms' + 1)
          BY <4>1 DEF Taken
        <4>5. \A a \in 0..Filled' - 1 : rxbuf'[a] = Stored(n, a)
          BY <4>1 DEF Taken, Filled
        <4> QED
          BY <3>1, <3>2, <3>3, <4>3, <4>4, <4>5 DEF Taken
      <3> QED
        BY <3>4, <3>5
    <2>5. Taking'
      BY <1>2, <2>1, <2>4 DEF Taking, FrameInv, ReceiveTypes
    <2> QED
      BY <1>4, <2>3, <2>5, ReadingKept DEF FrameInv, ps
  <1>7. CASE ~ forward
    <2>1. ReceiveTypes'
      BY <1>7 DEF FrameInv, ReceiveTypes, ps
    <2>2. CASE fed_syms = 0
      <3>1. ~ rx_armed
        <4>1. fed_syms # DataSymbols + 1
          BY <2>2, Sizes
        <4> QED
          BY <1>7, <4>1 DEF forward, FrameInv, ReceiveTypes
      <3> QED
        BY <1>4, <1>7, <2>1, <2>2, <3>1, ReadingKept DEF FrameInv, Taking, Waiting, ps
    <2>3. CASE fed_syms # 0
      <3>1. PICK m \in Nat : Taken(m)
        BY <2>3 DEF FrameInv, Taking
      <3>2. Taken(m)'
        BY <1>7, <3>1 DEF Taken, Filled, ps, forward
      <3>3. Taking'
        BY <1>7, <2>3, <3>2 DEF Taking
      <3> QED
        BY <1>4, <2>1, <3>3, ReadingKept DEF FrameInv, ps
    <2> QED
      BY <2>2, <2>3
  <1> QED
    BY <1>6, <1>7

\* the modem trains on the first symbol and decides the others
LEMMA SymbolDecided ==
  ASSUME FrameInv, Decide, UNCHANGED ps
  PROVE  FrameInv'
  <1> USE DEF Decide
  <1>1. fed_syms # 0
    BY DEF FrameInv, Taking, Waiting
  <1>2. PICK n \in Nat : Taken(n)
    BY <1>1 DEF FrameInv, Taking
  <1>3. n \in Nat \ {0} /\ fed_syms \in Nat
    BY <1>2 DEF Taken, FrameInv, ReceiveTypes
  <1>4. ReceiveTypes'
    BY Sizes DEF FrameInv, ReceiveTypes, ps
  <1>5. chain' = Nothing /\ UNCHANGED <<rx_syms, rxbuf, fed_syms>>
    OBVIOUS
  <1>6. Filled' = Filled
    BY DEF Filled, FrameInv, ReceiveTypes
  <1>7. Taken(n)'
    <2>1. CASE ~ trained
      <3>1. /\ fed_syms = 1 /\ rx_syms = 0 /\ writing = Nothing
            /\ trained' /\ writing' = Nothing
        BY <1>2, <2>1 DEF Taken
      <3>2. fed_syms' = 1 + rx_syms' + One(writing' # Nothing) + One(chain' # Nothing)
        BY <1>5, <3>1 DEF One
      <3> QED
        BY <1>2, <1>5, <1>6, <3>1, <3>2 DEF Taken, ps
    <2>2. CASE trained
      <3>1. writing = Nothing /\ writing' = chain /\ trained' = trained
        BY <2>2
      <3>2. fed_syms = rx_syms + 2 /\ chain = Place(n, rx_syms + 1)
        BY <1>2, <1>3, <2>2, <3>1 DEF Taken, One, FrameInv, ReceiveTypes
      <3>3. fed_syms' = 1 + rx_syms' + One(writing' # Nothing) + One(chain' # Nothing)
        BY <1>5, <3>1, <3>2 DEF One, FrameInv, ReceiveTypes
      <3> QED
        BY <1>2, <1>5, <1>6, <2>2, <3>1, <3>2, <3>3 DEF Taken, ps
    <2> QED
      BY <1>4, <2>1, <2>2 DEF FrameInv, ReceiveTypes
  <1>8. Taking'
    BY <1>1, <1>5, <1>7 DEF Taking
  <1>9. Searching'
    BY DEF FrameInv, Searching, ps
  <1> QED
    BY <1>4, <1>8, <1>9, ReadingKept DEF FrameInv, ps

\* the writer puts a word of a decided symbol into the RX buffer
LEMMA WordWritten ==
  ASSUME FrameInv, WriteWord, UNCHANGED ps
  PROVE  FrameInv'
  <1> USE DEF WriteWord
  <1>1. fed_syms # 0
    BY DEF FrameInv, Taking, Waiting
  <1>2. PICK n \in Nat : Taken(n)
    BY <1>1 DEF FrameInv, Taking
  <1>3. n \in Nat \ {0} /\ rx_syms \in Nat /\ w_k \in 0..SymbolWords - 1 /\ fed_syms \in Nat
    BY <1>2, Sizes DEF Taken, FrameInv, ReceiveTypes
  <1>4. trained /\ writing = Place(n, rx_syms + 1) /\ rx_syms < DataSymbols
    <2>1. trained /\ writing = Place(n, rx_syms + 1)
      BY <1>2 DEF Taken
    <2>2. fed_syms = 1 + rx_syms + 1 + One(chain # Nothing)
      BY <1>2, <2>1 DEF Taken, One
    <2> QED
      BY <1>3, <2>1, <2>2, Sizes DEF One, FrameInv, ReceiveTypes
  <1>5. writing.frame = n /\ writing.sym = rx_syms + 1
    BY <1>4 DEF Place
  <1> DEFINE a == rx_syms * SymbolWords + w_k
  <1>6. a \in Nat /\ Filled = a
    BY <1>3, Sizes DEF Filled
  <1>7. a < MaxSymbols * SymbolWords
    <2>1. (rx_syms + 1) * SymbolWords <= MaxSymbols * SymbolWords
      BY <1>3, <1>4, Sizes, ProductGrows
    <2>2. (rx_syms + 1) * SymbolWords = rx_syms * SymbolWords + SymbolWords
      BY <1>3, Sizes
    <2> QED
      BY <1>3, <2>1, <2>2, Sizes
  <1>8. a \div SymbolWords = rx_syms /\ a % SymbolWords = w_k
    BY <1>3, Sizes, PlaceOf
  <1>9. rxbuf' = [rxbuf EXCEPT ![a] = Stored(n, a)]
    <2>1. rx_syms < MaxSymbols
      BY <1>3, <1>4, Sizes
    <2> QED
      BY <1>5, <1>8, <2>1 DEF Stored
  <1>10. Filled' = a + 1
    <2>1. CASE w_k + 1 = SymbolWords
      <3>1. (rx_syms + 1) * SymbolWords = rx_syms * SymbolWords + SymbolWords
        BY <1>3, Sizes
      <3>2. Filled' = (rx_syms + 1) * SymbolWords + 0
        BY <2>1 DEF Filled
      <3> QED
        BY <1>3, <2>1, <3>1, <3>2, Sizes
    <2>2. CASE w_k + 1 # SymbolWords
      BY <1>3, <2>2, Sizes DEF Filled
    <2> QED
      BY <2>1, <2>2
  <1>11. Stored(n, a) \in ReceivedWord
    BY <1>3, <1>8, Sizes DEF Stored, ReceivedWord
  <1>12. ReceiveTypes'
    <2>1. rxbuf' \in [0..MaxSymbols * SymbolWords - 1 -> ReceivedWord]
      BY <1>6, <1>7, <1>9, <1>11 DEF FrameInv, ReceiveTypes
    <2> QED
      BY <1>3, <1>4, <2>1, Sizes DEF FrameInv, ReceiveTypes, ps
  <1>13. Taken(n)'
    <2>1. \A b \in 0..Filled' - 1 : rxbuf'[b] = Stored(n, b)
      <3> SUFFICES ASSUME NEW b \in 0..a PROVE rxbuf'[b] = Stored(n, b)
        BY <1>6, <1>10
      <3> HIDE DEF a
      <3>1. rxbuf \in [0..MaxSymbols * SymbolWords - 1 -> ReceivedWord]
            /\ MaxSymbols * SymbolWords \in Nat
        BY Sizes DEF FrameInv, ReceiveTypes
      <3>2. CASE b = a
        BY <1>6, <1>7, <1>9, <3>1, <3>2
      <3>3. CASE b # a
        <4>1. b \in 0..a - 1
          BY <1>6, <3>3
        <4> QED
          BY <1>2, <1>6, <1>7, <1>9, <3>1, <3>3, <4>1 DEF Taken
      <3> QED
        BY <3>2, <3>3
    <2>2. /\ trained'
          /\ fed_syms' = 1 + rx_syms' + One(writing' # Nothing) + One(chain' # Nothing)
          /\ writing' # Nothing => writing' = Place(n, rx_syms' + 1)
      BY <1>2, <1>3, <1>4 DEF Taken, One
    <2> QED
      BY <1>2, <2>1, <2>2 DEF Taken, ps
  <1>14. Taking'
    BY <1>1, <1>13 DEF Taking
  <1>15. Searching'
    BY DEF FrameInv, Searching, ps
  <1>16. pc # "check" /\ got = <<>> /\ pc' = pc /\ got' = got
    <2>1. ~ RxDone
      BY <1>3, <1>4, Sizes DEF RxDone
    <2> QED
      BY <2>1 DEF FrameInv, Reading, ps
  <1>17. Reading'
    <2>1. RxDone => RxDone'
      BY <1>3, Sizes DEF RxDone
    <2> QED
      BY <1>16, <2>1, Sizes DEF FrameInv, Reading
  <1> QED
    BY <1>12, <1>14, <1>15, <1>17 DEF FrameInv

\* a register write or read of zofdm
LEMMA ProgramFrame ==
  ASSUME FrameInv, Zofdm
  PROVE  FrameInv'
  <1>1. CASE \E p \in {"loop", "tx", "rx"} : Run(p)
    <2>1. UNCHANGED <<receive, found_at_arm>> /\ got' = <<>> /\ pc' \in {"arm", "put"}
      BY <1>1 DEF Run, hardware
    <2> QED
      BY <2>1, Sizes DEF FrameInv, receive, ReceiveTypes, Searching, Taking, Waiting, Taken,
                  Filled, Reading
  <1>2. CASE Stop
    <2>1. /\ UNCHANGED <<rx_found, rx_fed, fed_syms, search, chain, trained, writing, w_k,
                         rx_syms, rxbuf, found, pc, got, found_at_arm>>
          /\ rx_armed' = FALSE /\ pc = "idle"
      BY <1>2 DEF Stop, RxStop
    <2> QED
      BY <2>1 DEF FrameInv, ReceiveTypes, Searching, Taking, Waiting, Taken, Filled,
                  Reading
  <1>3. CASE PutFrame
    <2>1. UNCHANGED <<receive, found_at_arm, got>> /\ pc = "put" /\ pc' \in {"arm", "start"}
      BY <1>3 DEF PutFrame
    <2> QED
      BY <2>1 DEF FrameInv, receive, ReceiveTypes, Searching, Taking, Waiting, Taken,
                  Filled, Reading
  <1>4. CASE Arm
    <2>1. /\ pc = "arm" /\ pc' \in {"start", "idle", "poll"} /\ got' = got
          /\ rx_armed' = TRUE /\ rx_fed' = FALSE /\ fed_syms' = 0 /\ rx_syms' = 0
          /\ search' = Nothing /\ writing' = Nothing /\ w_k' = 0
          /\ found_at_arm' = found /\ found' = found /\ rxbuf' = rxbuf
          /\ chain' = Nothing /\ trained' = FALSE
      BY <1>4 DEF Arm, RxArm, ModemAfterArm, ResetModem
    <2>2. ReceiveTypes'
      <3>1. rx_fed' <=> (fed_syms' = DataSymbols + 1)
        BY <2>1, Sizes
      <3>2. found' \in Nat /\ found_at_arm' \in 0..found'
        BY <2>1 DEF FrameInv, ReceiveTypes
      <3>3. fed_syms' \in 0..DataSymbols + 1 /\ rx_syms' \in 0..DataSymbols
            /\ w_k' \in 0..SymbolWords - 1
        BY <2>1, Sizes
      <3> QED
        BY <2>1, <3>1, <3>2, <3>3 DEF FrameInv, ReceiveTypes
    <2> QED
      BY <2>1, <2>2 DEF FrameInv, Searching, Taking, Waiting, Reading
  <1>5. CASE StartTx
    <2>1. UNCHANGED <<receive, found_at_arm, got>> /\ pc = "start"
          /\ pc' \in {"wait_rx", "wait_tx"}
      BY <1>5 DEF StartTx, TxStart
    <2> QED
      BY <2>1 DEF FrameInv, receive, ReceiveTypes, Searching, Taking, Waiting, Taken,
                  Filled, Reading
  <1>6. CASE WaitRx \/ Poll
    <2>1. /\ UNCHANGED <<receive, found_at_arm, got>> /\ pc \notin {"check", "wait_both"}
          /\ pc' \in {"wait_both", "check"} => RxDone
      BY <1>6 DEF WaitRx, Poll, hardware
    <2>2. got = <<>>
      BY <2>1 DEF FrameInv, Reading
    <2> QED
      BY <2>1, <2>2, Sizes
      DEF FrameInv, receive, ReceiveTypes, Searching, Taking, Waiting, Taken, Filled,
          Reading, RxDone
  <1>7. CASE WaitTx \/ Checked
    <2>1. /\ UNCHANGED <<receive, found_at_arm>>
          /\ \/ got' = <<>> /\ pc' \in {"idle", "put", "arm"}
             \/ pc = "wait_both" /\ got' = got /\ pc' = "check"
      BY <1>7 DEF WaitTx, Checked, NextFrame, hardware
    <2>2. ASSUME got' = <<>>, pc' \in {"idle", "put", "arm"} PROVE Reading'
      BY <2>2, Sizes DEF Reading
    <2>3. ASSUME pc = "wait_both", got' = got, pc' = "check" PROVE Reading'
      <3>1. got = <<>> /\ RxDone /\ got \in Seq(ReceivedWord)
        BY <2>3 DEF FrameInv, Reading
      <3>2. RxDone'
        BY <2>1, <3>1 DEF receive, RxDone
      <3> QED
        BY <2>3, <3>1, <3>2, Sizes DEF Reading
    <2>4. Reading'
      BY <2>1, <2>2, <2>3
    <2> QED
      BY <2>1, <2>4 DEF FrameInv, receive, ReceiveTypes, Searching, Taking, Waiting,
                        Taken, Filled
  <1>8. CASE CheckFrame
    <2>1. /\ UNCHANGED <<receive, found_at_arm, pc>> /\ pc = "check"
          /\ Len(got) < DataWords /\ got' = Append(got, rxbuf[Len(got)])
      BY <1>8 DEF CheckFrame, hardware
    <2>2. Len(got) \in Nat /\ got \in Seq(ReceivedWord) /\ rxbuf' = rxbuf
      BY <2>1 DEF FrameInv, Reading, receive
    <2>3. Len(got) \in 0..MaxSymbols * SymbolWords - 1
      <3>1. DataSymbols * SymbolWords <= MaxSymbols * SymbolWords
        BY Sizes, ProductGrows
      <3>2. MaxSymbols * SymbolWords \in Nat
        BY Sizes
      <3> QED
        BY <2>1, <2>2, <3>1, <3>2, Sizes
    <2>4. rxbuf[Len(got)] \in ReceivedWord
      BY <2>3 DEF FrameInv, ReceiveTypes
    <2>5. /\ got' \in Seq(ReceivedWord) /\ Len(got') = Len(got) + 1
          /\ \A k \in 1..Len(got) : got'[k] = got[k]
          /\ got'[Len(got) + 1] = rxbuf[Len(got)]
      <3> DEFINE S == ReceivedWord
                 x == rxbuf[Len(got)]
      <3>1. got \in Seq(S) /\ x \in S
        BY <2>2, <2>4
      <3>2. got' = Append(got, x)
        BY <2>1
      <3> HIDE DEF S, x
      <3>3. /\ got' \in Seq(S) /\ Len(got') = Len(got) + 1
            /\ \A k \in 1..Len(got) : got'[k] = got[k]
            /\ got'[Len(got) + 1] = x
        BY <3>1, <3>2
      <3> QED
        BY <3>3 DEF S, x
    <2>6. \A k \in 1..Len(got') : got'[k] = rxbuf'[k - 1]
      <3> SUFFICES ASSUME NEW k \in 1..Len(got) + 1 PROVE got'[k] = rxbuf[k - 1]
        BY <2>2, <2>5
      <3>1. CASE k = Len(got) + 1
        <4>1. k - 1 = Len(got)
          BY <2>2, <3>1
        <4> QED
          BY <2>5, <3>1, <4>1
      <3>2. CASE k # Len(got) + 1
        <4>1. k \in 1..Len(got)
          BY <2>2, <3>2
        <4> QED
          BY <2>5, <4>1 DEF FrameInv, Reading
      <3> QED
        BY <3>1, <3>2
    <2>7. Reading'
      <3>1. Len(got') <= DataWords
        BY <2>1, <2>2, <2>5, Sizes
      <3>2. RxDone'
        BY <2>1 DEF FrameInv, Reading, RxDone, receive
      <3> QED
        BY <2>1, <2>5, <2>6, <3>1, <3>2 DEF Reading
    <2> QED
      BY <2>1, <2>7 DEF FrameInv, receive, ReceiveTypes, Searching, Taking, Waiting,
                        Taken, Filled
  <1> QED
    BY <1>1, <1>2, <1>3, <1>4, <1>5, <1>6, <1>7, <1>8 DEF Zofdm

\* every step keeps the frame in its place
LEMMA FrameSteps == FrameInv /\ [Next]_vars => FrameInv'
  <1> SUFFICES ASSUME FrameInv, [Next]_vars PROVE FrameInv'
    OBVIOUS
  <1>1. CASE Receive
    BY <1>1, FoundFrame, SymbolGiven, SymbolDecided, WordWritten DEF Receive
  <1>2. CASE Zofdm
    BY <1>2, ProgramFrame
  <1>3. CASE \/ \E ready \in IfftReady : ControlClock(ready)
             \/ \E req \in BOOLEAN : SampleClock(req)
             \/ \E ready \in IfftReady, req \in BOOLEAN : BothClocks(ready, req)
             \/ UNCHANGED vars
    <2>1. UNCHANGED <<receive, pc, got, found_at_arm>>
      BY <1>3 DEF ControlClock, SampleClock, BothClocks, vars, ps
    <2> QED
      BY <2>1, FrameKept
  <1> QED
    BY <1>1, <1>2, <1>3 DEF Next

(***************************************************************************)
(* What check_frame has read, once it has read all, is the data of one     *)
(* frame found since RX_ARM, whole and in order: for any number of symbols *)
(* and words, and wherever RX_ARM and RX_STOP cut the frames on the air.   *)
(***************************************************************************)
THEOREM WholeFrameRead == Spec => []ReadsWhole
  <1>1. FrameInv => ReadsWhole
    <2> SUFFICES ASSUME FrameInv, Len(got) = DataWords PROVE ReadsWhole
      BY DEF ReadsWhole
    <2>1. pc = "check"
      BY Sizes DEF FrameInv, Reading
    <2>2. rx_syms = DataSymbols /\ rx_armed
      BY <2>1, Sizes DEF FrameInv, Reading, RxDone, ReceiveTypes
    <2>3. fed_syms # 0
      BY <2>2, Sizes DEF FrameInv, Taking, Waiting
    <2>4. PICK n \in Nat : Taken(n)
      BY <2>3 DEF FrameInv, Taking
    <2>5. n > found_at_arm
      BY <2>4 DEF Taken, FrameInv, ReceiveTypes
    <2>6. DataWords <= Filled
      BY <2>2, Sizes DEF Filled, FrameInv, ReceiveTypes
    <2>7. ASSUME NEW k \in 1..DataWords PROVE got[k] = Stored(n, k - 1)
      <3>1. k - 1 \in 0..Filled - 1
        BY <2>2, <2>6, Sizes DEF Filled, FrameInv, ReceiveTypes
      <3> QED
        BY <2>4, <3>1 DEF Taken, FrameInv, Reading
    <2>8. got[1].frame = n
      BY <2>7, Sizes DEF Stored
    <2> QED
      BY <2>5, <2>7, <2>8, Sizes DEF ReadsWhole, Stored
  <1> QED
    BY <1>1, InitFrame, FrameSteps, PTL DEF Spec

-----------------------------------------------------------------------------
(* The burst sent.                                                         *)

SymbolWord == [part : {"train", "data"}, frame : 0..Frames, word : Nat]

Flags ==
  /\ primed \in BOOLEAN /\ s_active \in BOOLEAN /\ tx_busy \in BOOLEAN
  /\ tx_done \in BOOLEAN /\ go_toggle \in BOOLEAN /\ done_toggle \in BOOLEAN
  /\ \A i \in 1..3 : go_sync[i] \in BOOLEAN /\ done_sync[i] \in BOOLEAN

SourceTypes ==
  /\ modem_rst_count \in 0..ResetClocks
  /\ symbol \in Seq(SymbolWord) /\ sample_index \in 0..SymbolSamples - 1
  /\ t_state \in {"IDLE", "PRE", "MOD", "DRAIN"}
  /\ pre_idx \in 0..PreambleSamples /\ t_sym \in 0..DataSymbols + 1

FeederTypes ==
  /\ f_state \in {"IDLE", "TRAIN", "FETCH", "SEND"} /\ f_bits \in 0..Frames
  /\ f_state = "IDLE" => f_word = 0
  /\ f_state = "TRAIN" => f_word \in 0..SymbolWords - 1
  /\ f_state \in {"FETCH", "SEND"} => f_word \in 0..DataWords - 1

\* words the feeder has handed to the modem
Accepted == IF f_state = "TRAIN" THEN f_word
            ELSE IF f_state = "IDLE" THEN SymbolWords + DataWords
            ELSE SymbolWords + f_word

\* the modem holds the first words of the symbol it is at
Filling ==
  /\ Len(symbol) <= SymbolWords
  /\ Accepted = t_sym * SymbolWords + Len(symbol)
  /\ \A k \in 1..Len(symbol) : symbol[k] = SymbolOf(frame, t_sym)[k]
  /\ f_state = "SEND" => f_bits = frame

Feeding ==
  /\ t_state \in {"IDLE", "DRAIN"} =>
       f_state = "IDLE" /\ symbol = <<>> /\ sample_index = 0
  /\ t_state = "PRE" => pre_idx < PreambleSamples /\ t_sym = 0 /\ sample_index = 0
  /\ t_state = "MOD" => t_sym <= DataSymbols
  /\ t_state \in {"PRE", "MOD"} => Filling

\* samples of the burst taken from the preamble and the modem
Made == IF t_state = "PRE" THEN pre_idx
        ELSE IF t_state = "MOD"
        THEN PreambleSamples + (t_sym * SymbolSamples + sample_index)
        ELSE BurstLength

\* what was taken and not yet queued is in the two places of the pipeline
Pipeline ==
  /\ t_state = "IDLE" => s1 = Silence /\ s2 = Silence
  /\ t_state # "IDLE" =>
       /\ Made = tx_samples + One(s2 # Silence) + One(s1 # Silence)
       /\ s2 # Silence => s2 = BurstSample(frame, tx_samples + 1)
       /\ s1 # Silence => s1 = BurstSample(frame, tx_samples + One(s2 # Silence) + 1)

\* what was queued and not yet played is in the FIFO
Queue ==
  /\ tx_samples \in 0..BurstLength /\ played \in 0..BurstLength
  /\ mem = [a \in 0..Fifo!Depth - 1 |-> mem[a]]
  /\ t_state = "IDLE" => Fifo!Held = 0
  /\ t_state # "IDLE" =>
       /\ tx_samples = played + Fifo!Held
       /\ \A j \in 0..Fifo!Held - 1 : Fifo!Item(j) = BurstSample(frame, played + 1 + j)

\* a toggle seen at the end of its synchronizer, and one still on the way
Seen(sync, toggle) ==
  (sync[1] <=> toggle) /\ (sync[2] <=> toggle) /\ (sync[3] <=> toggle)
OnTheWay(sync, toggle) ==
  (sync[3] <=> ~ toggle) /\ ((sync[2] <=> toggle) => (sync[1] <=> toggle))

\* the DAC side waits for go, plays once it has seen it, and is through
Going ==
  \/ /\ ~ s_active /\ Seen(go_sync, go_toggle)
     /\ t_state = "IDLE" \/ (~ primed /\ played = 0) \/ played = BurstLength
  \/ /\ ~ s_active /\ OnTheWay(go_sync, go_toggle)
     /\ t_state # "IDLE" /\ primed /\ played = 0
  \/ /\ s_active /\ Seen(go_sync, go_toggle)
     /\ t_state # "IDLE" /\ primed /\ played < BurstLength

\* the transmit machine is told when the last sample is out
Ending ==
  IF t_state # "IDLE" /\ played = BurstLength
  THEN OnTheWay(done_sync, done_toggle)
  ELSE Seen(done_sync, done_toggle)

Sending == /\ Flags /\ SourceTypes /\ FeederTypes /\ Feeding /\ Pipeline
           /\ Queue /\ Going /\ Ending

\* zofdm leaves the TX buffer, the modem and the transmitter alone in a burst
Calling ==
  /\ txbuf \in 0..Frames /\ frame \in 0..Frames
  /\ f \in 0..Frames + 1 /\ runs \in 0..MaxRuns
  /\ f = 0 => pc = "idle"
  /\ f = Frames + 1 => program = "rx" /\ pc \in {"arm", "idle"}
  /\ tx_busy <=> t_state # "IDLE"
  /\ tx_busy => /\ ~ tx_done /\ frame = txbuf
                /\ pc \in {"wait_rx", "wait_tx", "wait_both"}
  /\ \/ pc = "idle"
     \/ pc \in {"put", "start", "wait_tx"} /\ program \in {"loop", "tx"}
     \/ pc \in {"arm", "check"} /\ program \in {"loop", "rx"}
     \/ pc \in {"wait_rx", "wait_both"} /\ program = "loop"
     \/ pc = "poll" /\ program = "rx"

BurstInv == Fifo!FifoInv /\ Sending /\ Calling

\* the sizes of a burst
LEMMA BurstSizes ==
  /\ PreambleSamples \in Nat \ {0} /\ SymbolSamples \in Nat \ {0}
  /\ Frames \in Nat \ {0} /\ ResetClocks \in Nat \ {0} /\ MaxRuns \in Nat
  /\ DataSymbols * SymbolSamples \in Nat
  /\ BurstLength = PreambleSamples + (DataSymbols * SymbolSamples + SymbolSamples)
  /\ BurstLength \in Nat /\ PreambleSamples < BurstLength
  /\ (DataSymbols + 1) * SymbolWords = DataWords + SymbolWords
  <1>1. /\ PreambleSamples \in Nat \ {0} /\ SymbolSamples \in Nat \ {0}
        /\ Frames \in Nat \ {0} /\ ResetClocks \in Nat \ {0} /\ MaxRuns \in Nat
    BY RadioAssumption DEF RadioAssumption
  <1>2. ASSUME NEW x \in Nat, NEW m \in Nat
        PROVE  x * m \in Nat /\ (x + 1) * m = x * m + m
    OBVIOUS
  <1>3. DataSymbols * SymbolSamples \in Nat
    BY <1>1, <1>2, Sizes
  <1>4. BurstLength = PreambleSamples + (DataSymbols * SymbolSamples + SymbolSamples)
    BY <1>1, <1>2, Sizes DEF BurstLength
  <1>5. (DataSymbols + 1) * SymbolWords = DataWords + SymbolWords
    BY <1>2, Sizes
  <1>6. BurstLength \in Nat /\ PreambleSamples < BurstLength
    BY <1>1, <1>3, <1>4
  <1> QED
    BY <1>1, <1>3, <1>4, <1>5, <1>6

\* the samples of a burst: the preamble's and those of the symbols
LEMMA BurstIs ==
  ASSUME NEW n \in 0..Frames
  PROVE  /\ \A k \in 0..PreambleSamples - 1 :
              BurstSample(n, k + 1) = SampleWord(Preamble, k, FALSE)
         /\ \A s \in 0..DataSymbols, i \in 0..SymbolSamples - 1 :
              LET k == PreambleSamples + (s * SymbolSamples + i)
              IN  /\ k \in 0..BurstLength - 1
                  /\ BurstSample(n, k + 1)
                       = SampleWord(SymbolOf(n, s), i,
                                    i + 1 = SymbolSamples /\ s = DataSymbols)
         /\ \A k \in 1..BurstLength : /\ BurstSample(n, k) # Silence
                                      /\ BurstSample(n, k).last <=> (k = BurstLength)
  <1>1. ASSUME NEW k \in 0..PreambleSamples - 1
        PROVE  BurstSample(n, k + 1) = SampleWord(Preamble, k, FALSE)
    <2>1. (k + 1) - 1 - PreambleSamples < 0 /\ (k + 1) - 1 = k
      BY BurstSizes
    <2> QED
      BY <2>1 DEF BurstSample
  <1>2. ASSUME NEW s \in 0..DataSymbols, NEW i \in 0..SymbolSamples - 1,
               NEW k, k = PreambleSamples + (s * SymbolSamples + i)
        PROVE  /\ k \in 0..BurstLength - 1
               /\ BurstSample(n, k + 1)
                    = SampleWord(SymbolOf(n, s), i,
                                 i + 1 = SymbolSamples /\ s = DataSymbols)
    <2>1. s \in Nat /\ s * SymbolSamples \in Nat /\ i \in Nat /\ DataSymbols \in Nat
      BY BurstSizes, Sizes
    <2>2. s * SymbolSamples <= DataSymbols * SymbolSamples
      BY <2>1, BurstSizes, Sizes, ProductGrows
    <2>3. s # DataSymbols =>
            s * SymbolSamples + SymbolSamples <= DataSymbols * SymbolSamples
      <3>1. ASSUME s # DataSymbols
            PROVE  s * SymbolSamples + SymbolSamples <= DataSymbols * SymbolSamples
        <4>1. s + 1 <= DataSymbols
          BY <2>1, <3>1
        <4>2. (s + 1) * SymbolSamples <= DataSymbols * SymbolSamples
          BY <2>1, <4>1, BurstSizes, ProductGrows
        <4>3. (s + 1) * SymbolSamples = s * SymbolSamples + SymbolSamples
          BY <2>1, BurstSizes
        <4> QED
          BY <4>2, <4>3
      <3> QED
        BY <3>1
    <2>4. k \in 0..BurstLength - 1
      BY <1>2, <2>1, <2>2, BurstSizes
    <2>5. (k + 1 = BurstLength) <=> (i + 1 = SymbolSamples /\ s = DataSymbols)
      BY <1>2, <2>1, <2>3, BurstSizes
    <2>6. (k + 1) - 1 - PreambleSamples = s * SymbolSamples + i
      BY <1>2, <2>1, BurstSizes
    <2>7. /\ (s * SymbolSamples + i) \div SymbolSamples = s
          /\ (s * SymbolSamples + i) % SymbolSamples = i
      BY <2>1, BurstSizes, PlaceOf
    <2>8. ~ (s * SymbolSamples + i < 0)
      BY <2>1
    <2>9. BurstSample(n, k + 1) = SampleWord(SymbolOf(n, s), i, k + 1 = BurstLength)
      BY <2>6, <2>7, <2>8 DEF BurstSample
    <2>10. (k + 1 = BurstLength) = (i + 1 = SymbolSamples /\ s = DataSymbols)
      BY <2>5
    <2> QED
      BY <2>4, <2>9, <2>10
  <1>3. ASSUME NEW k \in 1..BurstLength
        PROVE  BurstSample(n, k) # Silence /\ (BurstSample(n, k).last <=> (k = BurstLength))
    <2>1. BurstSample(n, k) # Silence
      BY SilenceAssumption
    <2>2. CASE k - 1 - PreambleSamples < 0
      <3>1. k # BurstLength
        BY <2>2, BurstSizes
      <3>2. BurstSample(n, k).last = FALSE
        BY <2>2 DEF BurstSample, SampleWord
      <3> QED
        BY <2>1, <3>1, <3>2
    <2>3. CASE ~ (k - 1 - PreambleSamples < 0)
      BY <2>1, <2>3 DEF BurstSample, SampleWord
    <2> QED
      BY <2>2, <2>3
  <1> QED
    BY <1>1, <1>2, <1>3

\* what the flags and the word shown are is the same in both instances
LEMMA SamePorts ==
  /\ TxFifo!wr_full <=> Fifo!wr_full
  /\ TxFifo!rd_empty <=> Fifo!rd_empty
  /\ TxFifo!rd_data = Fifo!rd_data
  /\ TxFifo!Held = Fifo!Held /\ TxFifo!Depth = Fifo!Depth
  /\ \A en, w : TxFifo!WriteEdge(en, w) => Fifo!WriteEdge(en, w)
  /\ \A en : TxFifo!ReadEdge(en) => Fifo!ReadEdge(en)
  BY Zenon DEF
    TxFifo!WriteEdge, TxFifo!ReadEdge, TxFifo!wr_full, TxFifo!rd_empty, TxFifo!rd_data,
    TxFifo!LapAhead, TxFifo!Gray, TxFifo!Bit, TxFifo!NextOf, TxFifo!Held, TxFifo!Depth,
    TxFifo!Lap,
    Fifo!WriteEdge, Fifo!ReadEdge, Fifo!wr_full, Fifo!rd_empty, Fifo!rd_data,
    Fifo!LapAhead, Fifo!Gray, Fifo!Bit, Fifo!NextOf, Fifo!Held, Fifo!Depth, Fifo!Lap

\* the FIFO as the theorems about it want it
LEMMA FifoIs == AW \in Nat /\ AW >= 1 /\ Fifo!PowersOfTwo
  BY RadioAssumption, PowersAre DEF RadioAssumption

(***************************************************************************)
(* A step seen from the burst: an edge of the control clock or none, which *)
(* queues e words, and one of the sample clock or none, which plays d.     *)
(***************************************************************************)
ControlMoves(e) ==
  \/ e = 0 /\ UNCHANGED controlTx
  \/ e = One(txf_wr) /\ \E ready \in IfftReady : ControlEdge(ready)

SampleMoves(d) ==
  \/ d = 0 /\ UNCHANGED sampleTx
  \/ \E req \in BOOLEAN : SampleEdge(req) /\ d = One(txf_rd(req))

FifoMoves(e, d) ==
  /\ Fifo!WriteMoves(e) /\ Fifo!ReadMoves(d)
  /\ mem' = IF e = 1 THEN [mem EXCEPT ![wr_bin % Fifo!Depth] = s2] ELSE mem

Clocked(e, d) ==
  ControlMoves(e) /\ SampleMoves(d) /\ FifoMoves(e, d) /\ UNCHANGED ps

\* an edge of the control clock on the FIFO
LEMMA WriteEdgeMoves ==
  ASSUME TxFifo!WriteEdge(s2 # Silence, s2)
  PROVE  /\ One(txf_wr) \in {0, 1} /\ Fifo!WriteMoves(One(txf_wr))
         /\ mem' = IF One(txf_wr) = 1 THEN [mem EXCEPT ![wr_bin % Fifo!Depth] = s2]
                                      ELSE mem
  <1>1. Fifo!WriteEdge(s2 # Silence, s2)
    BY SamePorts
  <1>2. CASE txf_wr
    <2>1. s2 # Silence /\ ~ Fifo!wr_full /\ One(txf_wr) = 1
      BY <1>2, SamePorts DEF txf_wr, One
    <2> QED
      BY <1>1, <2>1 DEF Fifo!WriteEdge, Fifo!WriteMoves
  <1>3. CASE ~ txf_wr
    <2>1. ~ ((s2 # Silence) /\ ~ Fifo!wr_full) /\ One(txf_wr) = 0
      BY <1>3, SamePorts DEF txf_wr, One
    <2> QED
      BY <1>1, <2>1 DEF Fifo!WriteEdge, Fifo!WriteMoves
  <1> QED
    BY <1>2, <1>3

\* an edge of the sample clock on the FIFO
LEMMA ReadEdgeMoves ==
  ASSUME NEW req \in BOOLEAN, TxFifo!ReadEdge(req /\ s_active)
  PROVE  One(txf_rd(req)) \in {0, 1} /\ Fifo!ReadMoves(One(txf_rd(req)))
  <1>1. Fifo!ReadEdge(req /\ s_active)
    BY SamePorts
  <1>2. CASE txf_rd(req)
    <2>1. req /\ s_active /\ ~ Fifo!rd_empty /\ One(txf_rd(req)) = 1
      BY <1>2, SamePorts DEF txf_rd, One
    <2> QED
      BY <1>1, <2>1 DEF Fifo!ReadEdge, Fifo!ReadMoves
  <1>3. CASE ~ txf_rd(req)
    <2>1. ~ ((req /\ s_active) /\ ~ Fifo!rd_empty) /\ One(txf_rd(req)) = 0
      BY <1>3, SamePorts DEF txf_rd, One
    <2> QED
      BY <1>1, <2>1 DEF Fifo!ReadEdge, Fifo!ReadMoves
  <1> QED
    BY <1>2, <1>3

\* what is not a step of zofdm is an edge of the clocks or moves nothing of the burst
LEMMA ClockSteps ==
  ASSUME [Next]_vars, ~ Zofdm
  PROVE  \E e, d \in {0, 1} : Clocked(e, d)
  <1>1. ASSUME UNCHANGED <<controlTx, sampleTx, fifo, ps>>
        PROVE  \E e, d \in {0, 1} : Clocked(e, d)
    <2>1. FifoMoves(0, 0)
      BY <1>1 DEF FifoMoves, Fifo!WriteMoves, Fifo!ReadMoves, fifo
    <2>2. ControlMoves(0) /\ SampleMoves(0)
      BY <1>1 DEF ControlMoves, SampleMoves
    <2> QED
      BY <1>1, <2>1, <2>2 DEF Clocked
  <1>2. CASE Receive \/ UNCHANGED vars
    BY <1>1, <1>2 DEF Receive, vars
  <1>3. ASSUME NEW ready \in IfftReady, ControlClock(ready)
        PROVE  \E e, d \in {0, 1} : Clocked(e, d)
    <2>1. TxFifo!WriteEdge(s2 # Silence, s2) /\ rd_bin' = rd_bin
      BY <1>3, Zenon DEF ControlClock, TxFifo!WriteClock, TxFifo!readSide
    <2>2. FifoMoves(One(txf_wr), 0) /\ One(txf_wr) \in {0, 1}
      BY <2>1, WriteEdgeMoves DEF FifoMoves, Fifo!ReadMoves
    <2>3. ControlMoves(One(txf_wr)) /\ SampleMoves(0) /\ UNCHANGED ps
      BY <1>3 DEF ControlClock, ControlMoves, SampleMoves
    <2> QED
      BY <2>2, <2>3 DEF Clocked
  <1>4. ASSUME NEW req \in BOOLEAN, SampleClock(req)
        PROVE  \E e, d \in {0, 1} : Clocked(e, d)
    <2>1. TxFifo!ReadEdge(req /\ s_active) /\ wr_bin' = wr_bin /\ mem' = mem
      BY <1>4, Zenon DEF SampleClock, TxFifo!ReadClock, TxFifo!writeSide
    <2>2. FifoMoves(0, One(txf_rd(req))) /\ One(txf_rd(req)) \in {0, 1}
      BY <2>1, ReadEdgeMoves DEF FifoMoves, Fifo!WriteMoves
    <2>3. ControlMoves(0) /\ SampleMoves(One(txf_rd(req))) /\ UNCHANGED ps
      BY <1>4 DEF SampleClock, ControlMoves, SampleMoves
    <2> QED
      BY <2>2, <2>3 DEF Clocked
  <1>5. ASSUME NEW ready \in IfftReady, NEW req \in BOOLEAN, BothClocks(ready, req)
        PROVE  \E e, d \in {0, 1} : Clocked(e, d)
    <2>1. TxFifo!WriteEdge(s2 # Silence, s2) /\ TxFifo!ReadEdge(req /\ s_active)
      BY <1>5 DEF BothClocks, TxFifo!BothClocks
    <2>2. /\ FifoMoves(One(txf_wr), One(txf_rd(req)))
          /\ One(txf_wr) \in {0, 1} /\ One(txf_rd(req)) \in {0, 1}
      BY <2>1, WriteEdgeMoves, ReadEdgeMoves DEF FifoMoves
    <2>3. ControlMoves(One(txf_wr)) /\ SampleMoves(One(txf_rd(req))) /\ UNCHANGED ps
      BY <1>5 DEF BothClocks, ControlMoves, SampleMoves
    <2> QED
      BY <2>2, <2>3 DEF Clocked
  <1> QED
    BY <1>2, <1>3, <1>4, <1>5 DEF Next

-----------------------------------------------------------------------------
(* The feeder and the modem.                                               *)

Accepts == mt_valid /\ mt_ready

\* the feeder counts the words the modem takes
LEMMA FeederCounts ==
  ASSUME FeederTypes, Feeder, txbuf \in 0..Frames
  PROVE  /\ FeederTypes' /\ Accepted' = Accepted + One(Accepts)
         /\ f_state = "IDLE" => f_state' = "IDLE"
         /\ f_state' = "SEND" => f_bits' = IF f_state = "SEND" THEN f_bits ELSE txbuf
  <1>1. /\ SymbolWords \in Nat \ {0} /\ DataWords \in Nat \ {0}
        /\ f_bits' \in 0..Frames
    BY Sizes DEF Feeder, FeederTypes
  <1>2. CASE f_state = "FETCH"
    BY <1>1, <1>2 DEF Feeder, FeederTypes, Accepted, Accepts, One, mt_valid
  <1>3. CASE f_state = "TRAIN"
    <2>1. f_word \in 0..SymbolWords - 1
      BY <1>3 DEF FeederTypes
    <2>2. CASE ~ mt_ready
      BY <1>1, <1>3, <2>1, <2>2 DEF Feeder, FeederTypes, Accepted, Accepts, One, mt_valid
    <2>3. CASE mt_ready /\ f_word + 1 = SymbolWords
      BY <1>1, <1>3, <2>1, <2>3 DEF Feeder, FeederTypes, Accepted, Accepts, One, mt_valid
    <2>4. CASE mt_ready /\ f_word + 1 # SymbolWords
      BY <1>1, <1>3, <2>1, <2>4 DEF Feeder, FeederTypes, Accepted, Accepts, One, mt_valid
    <2> QED
      BY <2>2, <2>3, <2>4
  <1>4. CASE f_state = "SEND"
    <2>1. f_word \in 0..DataWords - 1
      BY <1>4 DEF FeederTypes
    <2>2. CASE ~ mt_ready
      BY <1>1, <1>4, <2>1, <2>2 DEF Feeder, FeederTypes, Accepted, Accepts, One, mt_valid
    <2>3. CASE mt_ready /\ f_word + 1 = DataWords
      BY <1>1, <1>4, <2>1, <2>3 DEF Feeder, FeederTypes, Accepted, Accepts, One, mt_valid
    <2>4. CASE mt_ready /\ f_word + 1 # DataWords
      BY <1>1, <1>4, <2>1, <2>4 DEF Feeder, FeederTypes, Accepted, Accepts, One, mt_valid
    <2> QED
      BY <2>2, <2>3, <2>4
  <1>5. CASE f_state = "IDLE"
    BY <1>1, <1>5 DEF Feeder, FeederTypes, Accepted, Accepts, One, mt_valid
  <1> QED
    BY <1>2, <1>3, <1>4, <1>5 DEF FeederTypes

\* the word the feeder offers is the next of the symbol
LEMMA WordIsNext ==
  ASSUME FeederTypes, SourceTypes, Filling, Accepts
  PROVE  /\ Len(symbol) + 1 <= SymbolWords
         /\ mt_data \in SymbolWord
         /\ mt_data = SymbolOf(frame, t_sym)[Len(symbol) + 1]
  <1>1. /\ Len(symbol) \in Nat /\ t_sym \in Nat /\ t_sym * SymbolWords \in Nat
        /\ SymbolWords \in Nat \ {0}
    BY Sizes, BurstSizes DEF SourceTypes
  <1>2. Len(symbol) + 1 <= SymbolWords /\ Len(symbol) + 1 \in 1..SymbolWords
    BY <1>1 DEF Accepts, mt_ready
  <1>3. Accepted = t_sym * SymbolWords + Len(symbol)
    BY DEF Filling
  <1>4. t_sym # 0 => (t_sym - 1) \in Nat /\ t_sym * SymbolWords = (t_sym - 1) * SymbolWords + SymbolWords
                     /\ (t_sym - 1) * SymbolWords \in Nat
    <2>1. ASSUME t_sym # 0 PROVE t_sym - 1 \in Nat /\ t_sym = (t_sym - 1) + 1
      BY <1>1, <2>1
    <2>2. ASSUME NEW x \in Nat, NEW m \in Nat
          PROVE  x * m \in Nat /\ (x + 1) * m = x * m + m
      OBVIOUS
    <2> QED
      BY <1>1, <2>1, <2>2
  <1>5. CASE f_state = "TRAIN"
    <2>1. f_word \in 0..SymbolWords - 1 /\ Accepted = f_word
      BY <1>5 DEF FeederTypes, Accepted
    <2>2. t_sym = 0
      BY <1>1, <1>3, <1>4, <2>1
    <2>3. f_word = Len(symbol)
      BY <1>1, <1>3, <2>1, <2>2
    <2>4. mt_data = Word("train", 0, f_word) /\ (Len(symbol) + 1) - 1 = f_word
      BY <1>1, <1>5, <2>3 DEF mt_data
    <2>5. SymbolOf(frame, t_sym)[Len(symbol) + 1] = Word("train", 0, (Len(symbol) + 1) - 1)
      BY <1>2, <2>2 DEF SymbolOf
    <2>6. mt_data \in SymbolWord
      BY <2>1, <2>4, BurstSizes DEF Word, SymbolWord
    <2> QED
      BY <1>2, <2>4, <2>5, <2>6
  <1>6. CASE f_state = "SEND"
    <2>1. f_word \in Nat /\ Accepted = SymbolWords + f_word /\ f_bits = frame /\ f_bits \in 0..Frames
      BY <1>6, Sizes DEF FeederTypes, Accepted, Filling
    <2>2. t_sym # 0
      BY <1>1, <1>2, <1>3, <2>1
    <2>3. f_word = (t_sym - 1) * SymbolWords + Len(symbol)
      BY <1>1, <1>3, <1>4, <2>1, <2>2
    <2>4. mt_data = Word("data", frame, f_word)
      BY <1>6, <2>1 DEF mt_data
    <2>5. SymbolOf(frame, t_sym)[Len(symbol) + 1]
            = Word("data", frame, (t_sym - 1) * SymbolWords + (Len(symbol) + 1) - 1)
      BY <1>2, <2>2 DEF SymbolOf
    <2>6. (t_sym - 1) * SymbolWords + (Len(symbol) + 1) - 1 = f_word
      BY <1>1, <1>4, <2>2, <2>3
    <2>7. mt_data \in SymbolWord
      BY <2>1, <2>4 DEF Word, SymbolWord
    <2> QED
      BY <1>2, <2>4, <2>5, <2>6, <2>7
  <1> QED
    BY <1>5, <1>6 DEF Accepts, mt_valid

\* where the transmit machine goes
LEMMA StateMoves ==
  ASSUME NEW ready \in IfftReady, Transmit(ready), SourceTypes
  PROVE  /\ t_state = "IDLE" => t_state' = "IDLE"
         /\ t_state = "PRE" =>
              t_state' = IF adv /\ pre_idx + 1 = PreambleSamples THEN "MOD" ELSE "PRE"
         /\ t_state = "MOD" =>
              t_state' = IF Takes(ready) /\ mo_last /\ LastSymbol THEN "DRAIN" ELSE "MOD"
         /\ t_state = "DRAIN" => t_state' = IF Drained THEN "IDLE" ELSE "DRAIN"
         /\ Drained => t_state = "DRAIN"
         /\ Takes(ready) => t_state = "MOD" /\ adv /\ mo_valid(ready)
  <1>1. t_state' = CASE t_state = "PRE" /\ adv /\ pre_idx + 1 = PreambleSamples -> "MOD"
                     [] Takes(ready) /\ mo_last /\ LastSymbol -> "DRAIN"
                     [] Drained -> "IDLE"
                     [] OTHER -> t_state
    BY Zenon DEF Transmit
  <1>2. (Takes(ready) => t_state = "MOD" /\ adv /\ mo_valid(ready))
        /\ (Drained => t_state = "DRAIN")
    BY DEF Takes, Drained
  <1> QED
    BY <1>1, <1>2, Zenon DEF SourceTypes

\* a word more of the symbol, or none
LEMMA FillingGoesOn ==
  ASSUME FeederTypes, SourceTypes, Filling, Feeder, txbuf = frame, frame \in 0..Frames,
         frame' = frame, t_sym' = t_sym,
         symbol' = IF Accepts THEN Append(symbol, mt_data) ELSE symbol
  PROVE  Filling' /\ symbol' \in Seq(SymbolWord)
  <1>1. /\ FeederTypes' /\ Accepted' = Accepted + One(Accepts)
        /\ f_state' = "SEND" => f_bits' = frame'
    BY FeederCounts DEF Filling
  <1>2. /\ Len(symbol) \in Nat /\ t_sym \in Nat /\ t_sym * SymbolWords \in Nat
        /\ Accepted = t_sym * SymbolWords + Len(symbol)
    BY Sizes DEF SourceTypes, Filling
  <1>3. \A k : SymbolOf(frame', t_sym')[k] = SymbolOf(frame, t_sym)[k]
    OBVIOUS
  <1>4. CASE ~ Accepts
    <2>1. symbol' = symbol /\ Accepted' = Accepted
      BY <1>1, <1>2, <1>4 DEF One
    <2> QED
      BY <1>1, <1>3, <2>1 DEF Filling, SourceTypes
  <1>5. CASE Accepts
    <2>1. /\ Len(symbol) + 1 <= SymbolWords /\ mt_data \in SymbolWord
          /\ mt_data = SymbolOf(frame, t_sym)[Len(symbol) + 1]
      BY <1>5, WordIsNext
    <2> DEFINE w == mt_data
               L == Len(symbol)
    <2>2. symbol' = Append(symbol, w) /\ w \in SymbolWord /\ symbol \in Seq(SymbolWord)
      BY <1>5, <2>1 DEF SourceTypes
    <2> HIDE DEF w
    <2>3. /\ symbol' \in Seq(SymbolWord) /\ Len(symbol') = L + 1
          /\ \A k \in 1..L : symbol'[k] = symbol[k]
          /\ symbol'[L + 1] = w
      BY <2>2
    <2>4. Accepted' = t_sym' * SymbolWords + Len(symbol')
      BY <1>1, <1>2, <1>5, <2>3 DEF One
    <2>5. ASSUME NEW k \in 1..L + 1 PROVE symbol'[k] = SymbolOf(frame, t_sym)[k]
      <3>1. CASE k = L + 1
        BY <2>1, <2>3, <3>1 DEF w
      <3>2. CASE k # L + 1
        <4>1. k \in 1..L
          BY <1>2, <3>2
        <4> QED
          BY <2>3, <4>1 DEF Filling
      <3> QED
        BY <3>1, <3>2
    <2> QED
      BY <1>1, <1>3, <2>1, <2>3, <2>4, <2>5 DEF Filling
  <1> QED
    BY <1>4, <1>5

\* the modem has a whole symbol: it is the one it is at
LEMMA SymbolWhole ==
  ASSUME SourceTypes, Filling, Len(symbol) = SymbolWords
  PROVE  symbol = SymbolOf(frame, t_sym)
  <1>1. symbol \in Seq(SymbolWord)
    BY DEF SourceTypes
  <1>2. symbol = [k \in 1..SymbolWords |-> symbol[k]]
    BY <1>1
  <1>3. \A k \in 1..SymbolWords : symbol[k] = SymbolOf(frame, t_sym)[k]
    BY DEF Filling
  <1> DEFINE g == SymbolOf(frame, t_sym)
  <1>4. g = [k \in 1..SymbolWords |-> g[k]]
    BY DEF SymbolOf
  <1> HIDE DEF g
  <1> QED
    BY <1>2, <1>3, <1>4 DEF g

\* an edge of the control clock keeps feeder, modem and transmit machine together
LEMMA FeedingKept ==
  ASSUME FeederTypes, SourceTypes, Feeding, NEW ready \in IfftReady, ControlEdge(ready),
         txbuf \in 0..Frames, t_state # "IDLE" => txbuf = frame, frame' = frame
  PROVE  FeederTypes' /\ SourceTypes' /\ Feeding'
  <1>1. Feeder /\ Modem(ready) /\ Transmit(ready)
    BY DEF ControlEdge
  <1>2. /\ FeederTypes' /\ Accepted' = Accepted + One(Accepts)
        /\ f_state = "IDLE" => f_state' = "IDLE"
    BY <1>1, FeederCounts
  <1>3. /\ SymbolWords \in Nat \ {0} /\ DataSymbols \in Nat \ {0}
        /\ PreambleSamples \in Nat \ {0} /\ SymbolSamples \in Nat \ {0}
        /\ ResetClocks \in Nat
    BY Sizes, BurstSizes
  <1>4. modem_rst_count' \in 0..ResetClocks
    BY <1>3 DEF ControlEdge, SourceTypes
  <1>5. /\ pre_idx' = IF t_state = "PRE" /\ adv THEN pre_idx + 1 ELSE pre_idx
        /\ t_sym' = IF Takes(ready) /\ mo_last THEN t_sym + 1 ELSE t_sym
    BY <1>1 DEF Transmit
  <1>6. /\ symbol' = IF Takes(ready) /\ mo_last THEN <<>>
                     ELSE IF Accepts THEN Append(symbol, mt_data) ELSE symbol
        /\ sample_index' = IF Takes(ready) /\ mo_last THEN 0
                           ELSE IF Takes(ready) THEN sample_index + 1 ELSE sample_index
    BY <1>1 DEF Modem, Accepts
  <1>7. CASE t_state = "IDLE" \/ t_state = "DRAIN"
    <2>1. f_state = "IDLE" /\ symbol = <<>> /\ sample_index = 0 /\ ~ Takes(ready) /\ ~ Accepts
      BY <1>7 DEF Feeding, Takes, Accepts, mt_valid
    <2>2. /\ t_state' \in {"IDLE", "DRAIN"} /\ f_state' = "IDLE"
          /\ UNCHANGED <<symbol, sample_index, pre_idx, t_sym>>
      BY <1>1, <1>2, <1>5, <1>6, <1>7, <2>1, StateMoves
    <2> QED
      BY <1>2, <1>4, <2>1, <2>2 DEF SourceTypes, Feeding
  <1>8. CASE t_state = "PRE"
    <2>1. /\ pre_idx < PreambleSamples /\ t_sym = 0 /\ sample_index = 0
          /\ Filling /\ ~ Takes(ready) /\ txbuf = frame
      BY <1>8 DEF Feeding, Takes
    <2>2. UNCHANGED <<sample_index, t_sym>>
      BY <1>5, <1>6, <2>1
    <2>3. Filling' /\ symbol' \in Seq(SymbolWord)
      BY <1>1, <1>6, <2>1, <2>2, FillingGoesOn
    <2>4. t_state' = IF adv /\ pre_idx + 1 = PreambleSamples THEN "MOD" ELSE "PRE"
      BY <1>1, <1>8, StateMoves
    <2>5. /\ pre_idx' \in 0..PreambleSamples
          /\ t_state' = "PRE" => pre_idx' < PreambleSamples
      BY <1>3, <1>5, <1>8, <2>1, <2>4 DEF SourceTypes
    <2>6. SourceTypes'
      BY <1>4, <2>2, <2>3, <2>4, <2>5 DEF SourceTypes
    <2>7. Feeding'
      BY <1>3, <2>1, <2>2, <2>3, <2>4, <2>5 DEF Feeding
    <2> QED
      BY <1>2, <2>6, <2>7
  <1>9. CASE t_state = "MOD"
    <2>1. t_sym \in 0..DataSymbols /\ Filling /\ txbuf = frame /\ pre_idx' = pre_idx
      BY <1>3, <1>5, <1>9 DEF Feeding, SourceTypes
    <2>2. t_state' = IF Takes(ready) /\ mo_last /\ LastSymbol THEN "DRAIN" ELSE "MOD"
      BY <1>1, <1>9, StateMoves
    <2>3. CASE ~ (Takes(ready) /\ mo_last)
      <3>1. t_sym' = t_sym /\ t_state' = "MOD"
        BY <1>5, <2>2, <2>3
      <3>2. Filling' /\ symbol' \in Seq(SymbolWord)
        BY <1>1, <1>6, <2>1, <2>3, <3>1, FillingGoesOn
      <3>3. sample_index' \in 0..SymbolSamples - 1
        BY <1>3, <1>6, <2>3 DEF SourceTypes, mo_last
      <3> QED
        BY <1>2, <1>4, <2>1, <3>1, <3>2, <3>3 DEF SourceTypes, Feeding
    <2>4. CASE Takes(ready) /\ mo_last
      <3>1. /\ Len(symbol) = SymbolWords /\ ~ Accepts
            /\ t_sym' = t_sym + 1 /\ symbol' = <<>> /\ sample_index' = 0
        BY <1>5, <1>6, <2>4 DEF Takes, mo_valid, Accepts, mt_ready
      <3>2. Accepted' = Accepted /\ Accepted = t_sym * SymbolWords + SymbolWords
        <4>1. Accepted = t_sym * SymbolWords + SymbolWords /\ t_sym * SymbolWords \in Nat
          BY <1>3, <2>1, <3>1 DEF Filling
        <4> QED
          BY <1>2, <1>3, <3>1, <4>1 DEF One
      <3>3. t_sym' * SymbolWords = t_sym * SymbolWords + SymbolWords
        <4>1. \A x, m \in Nat : (x + 1) * m = x * m + m
          OBVIOUS
        <4> QED
          BY <1>3, <2>1, <3>1, <4>1
      <3>4. f_state' = "SEND" => f_bits' = frame'
        BY <1>1, <2>1, FeederCounts DEF Filling
      <3>5. Filling'
        <4>1. Len(symbol') = 0 /\ Len(symbol') <= SymbolWords
          BY <1>3, <3>1
        <4>2. Accepted' = t_sym' * SymbolWords + Len(symbol')
          <5>1. t_sym * SymbolWords \in Nat
            BY <1>3, <2>1
          <5> QED
            BY <1>3, <3>2, <3>3, <4>1, <5>1
        <4> QED
          BY <3>4, <4>1, <4>2 DEF Filling
      <3>6. SourceTypes'
        <4>1. t_sym' \in 0..DataSymbols + 1
          BY <1>3, <2>1, <3>1
        <4>2. symbol' \in Seq(SymbolWord) /\ sample_index' \in 0..SymbolSamples - 1
          BY <1>3, <3>1
        <4> QED
          BY <1>4, <2>1, <2>2, <4>1, <4>2 DEF SourceTypes
      <3>7. CASE ~ LastSymbol
        <4>1. t_state' = "MOD" /\ t_sym' <= DataSymbols
          BY <1>3, <2>1, <2>2, <3>1, <3>7 DEF LastSymbol
        <4> QED
          BY <1>2, <3>5, <3>6, <4>1 DEF Feeding
      <3>8. CASE LastSymbol
        <4>1. t_state' = "DRAIN" /\ t_sym = DataSymbols
          BY <2>2, <2>4, <3>8 DEF LastSymbol
        <4>2. Accepted = DataWords + SymbolWords /\ DataWords \in Nat \ {0}
          BY <3>2, <4>1, Sizes
        <4>3. f_state = "IDLE"
          BY <1>3, <4>2 DEF Accepted, FeederTypes
        <4> QED
          BY <1>2, <3>1, <3>6, <4>1, <4>3 DEF Feeding
      <3> QED
        BY <3>7, <3>8
    <2> QED
      BY <2>3, <2>4
  <1> QED
    BY <1>7, <1>8, <1>9 DEF SourceTypes

-----------------------------------------------------------------------------
(* The pipeline.                                                           *)

\* the samples made are some of the burst
LEMMA MadeIs ==
  ASSUME SourceTypes, Feeding
  PROVE  Made \in 0..BurstLength
  <1>1. CASE t_state = "PRE"
    BY <1>1, BurstSizes DEF SourceTypes, Made
  <1>2. CASE t_state = "MOD"
    <2>1. t_sym \in 0..DataSymbols /\ sample_index \in 0..SymbolSamples - 1
      BY <1>2, Sizes DEF SourceTypes, Feeding
    <2>2. 0 \in 0..Frames
      BY BurstSizes
    <2>3. PreambleSamples + (t_sym * SymbolSamples + sample_index) \in 0..BurstLength - 1
      BY <2>1, <2>2, BurstIs
    <2> QED
      BY <1>2, <2>3, BurstSizes DEF Made
  <1>3. CASE t_state \notin {"PRE", "MOD"}
    BY <1>3, BurstSizes DEF Made
  <1> QED
    BY <1>1, <1>2, <1>3

(***************************************************************************)
(* What goes into the pipeline when it moves is the next sample of the     *)
(* burst, or nothing.                                                      *)
(***************************************************************************)
LEMMA SourceGives ==
  ASSUME SourceTypes, Feeding, NEW ready \in IfftReady, ControlEdge(ready),
         frame \in 0..Frames, t_state # "IDLE", ~ Drained
  PROVE  /\ t_state' # "IDLE"
         /\ ~ adv => Made' = Made
         /\ adv => \/ Source(ready) = Silence /\ Made' = Made
                   \/ /\ Source(ready) = BurstSample(frame, Made + 1)
                      /\ Source(ready) # Silence /\ Made' = Made + 1
  <1>1. Modem(ready) /\ Transmit(ready)
    BY DEF ControlEdge
  <1>2. /\ pre_idx' = IF t_state = "PRE" /\ adv THEN pre_idx + 1 ELSE pre_idx
        /\ t_sym' = IF Takes(ready) /\ mo_last THEN t_sym + 1 ELSE t_sym
        /\ sample_index' = IF Takes(ready) /\ mo_last THEN 0
                           ELSE IF Takes(ready) THEN sample_index + 1 ELSE sample_index
    BY <1>1 DEF Transmit, Modem
  <1>3. CASE t_state = "DRAIN"
    <2>1. t_state' = "DRAIN" /\ Source(ready) = Silence
      BY <1>1, <1>3, StateMoves DEF Source
    <2> QED
      BY <1>3, <2>1 DEF Made
  <1>4. CASE t_state = "PRE"
    <2>1. /\ pre_idx \in 0..PreambleSamples - 1 /\ t_sym = 0 /\ sample_index = 0
          /\ ~ Takes(ready)
      BY <1>4, BurstSizes DEF Feeding, SourceTypes, Takes
    <2>2. t_sym' = 0 /\ sample_index' = 0
      BY <1>2, <2>1
    <2>3. t_state' = IF adv /\ pre_idx + 1 = PreambleSamples THEN "MOD" ELSE "PRE"
      BY <1>1, <1>4, StateMoves
    <2>4. /\ Source(ready) = BurstSample(frame, pre_idx + 1)
          /\ pre_idx + 1 \in 1..BurstLength
      <3>1. Source(ready) = SampleWord(Preamble, pre_idx, FALSE)
        BY <1>4 DEF Source
      <3>2. BurstSample(frame, pre_idx + 1) = SampleWord(Preamble, pre_idx, FALSE)
        BY <2>1, BurstIs
      <3>3. pre_idx + 1 \in 1..BurstLength
        BY <2>1, BurstSizes
      <3> QED
        BY <3>1, <3>2, <3>3
    <2>5. Source(ready) # Silence
      BY <2>4, BurstIs
    <2>6. Made' = IF adv THEN pre_idx + 1 ELSE pre_idx
      <3>1. 0 * SymbolSamples + 0 = 0
        BY BurstSizes
      <3>2. CASE adv /\ pre_idx + 1 = PreambleSamples
        BY <1>2, <1>4, <2>1, <2>2, <2>3, <3>1, <3>2, BurstSizes DEF Made
      <3>3. CASE ~ (adv /\ pre_idx + 1 = PreambleSamples)
        BY <1>2, <1>4, <2>3, <3>3 DEF Made
      <3> QED
        BY <3>2, <3>3
    <2>7. Made = pre_idx
      BY <1>4 DEF Made
    <2> QED
      BY <2>3, <2>4, <2>5, <2>6, <2>7
  <1>5. CASE t_state = "MOD"
    <2>1. /\ t_sym \in 0..DataSymbols /\ sample_index \in 0..SymbolSamples - 1
          /\ t_sym \in Nat /\ t_sym * SymbolSamples \in Nat
      BY <1>5, Sizes, BurstSizes DEF SourceTypes, Feeding
    <2>2. t_state' = IF Takes(ready) /\ mo_last /\ LastSymbol THEN "DRAIN" ELSE "MOD"
      BY <1>1, <1>5, StateMoves
    <2> DEFINE m == PreambleSamples + (t_sym * SymbolSamples + sample_index)
    <2>3. Made = m
      BY <1>5 DEF Made
    <2>4. CASE ~ Takes(ready)
      <3>1. Made' = Made
        BY <1>2, <1>5, <2>2, <2>4 DEF Made
      <3>2. adv => Source(ready) = Silence
        BY <1>5, <2>4 DEF Source, Takes
      <3> QED
        BY <2>2, <3>1, <3>2
    <2>5. CASE Takes(ready)
      <3>1. adv /\ mo_valid(ready) /\ Len(symbol) = SymbolWords /\ Filling
        BY <1>5, <2>5 DEF Takes, mo_valid, Feeding
      <3>2. symbol = SymbolOf(frame, t_sym)
        BY <3>1, SymbolWhole
      <3>3. Source(ready) = SampleWord(SymbolOf(frame, t_sym), sample_index,
                                       sample_index + 1 = SymbolSamples /\ t_sym = DataSymbols)
        BY <1>5, <3>1, <3>2 DEF Source, mo_last, LastSymbol
      <3>4. m \in 0..BurstLength - 1 /\ Source(ready) = BurstSample(frame, m + 1)
        BY <2>1, <3>3, BurstIs
      <3>5. Source(ready) # Silence
        <4>1. m + 1 \in 1..BurstLength
          BY <3>4, BurstSizes
        <4> QED
          BY <3>4, <4>1, BurstIs
      <3>6. Made' = m + 1
        <4>1. CASE ~ mo_last
          <5>1. t_state' = "MOD" /\ t_sym' = t_sym /\ sample_index' = sample_index + 1
            BY <1>2, <2>2, <2>5, <4>1
          <5> QED
            BY <2>1, <5>1, BurstSizes DEF Made
        <4>2. CASE mo_last /\ ~ LastSymbol
          <5>1. t_state' = "MOD" /\ t_sym' = t_sym + 1 /\ sample_index' = 0
            BY <1>2, <2>2, <2>5, <4>2
          <5>2. (t_sym + 1) * SymbolSamples = t_sym * SymbolSamples + SymbolSamples
            <6>1. \A x, y \in Nat : (x + 1) * y = x * y + y
              OBVIOUS
            <6> QED
              BY <2>1, <6>1, BurstSizes
          <5>3. Made' = PreambleSamples + (t_sym' * SymbolSamples + sample_index')
            BY <5>1 DEF Made
          <5> QED
            BY <2>1, <4>2, <5>1, <5>2, <5>3, BurstSizes DEF mo_last
        <4>3. CASE mo_last /\ LastSymbol
          <5>1. t_state' = "DRAIN"
            BY <2>2, <2>5, <4>3
          <5> QED
            BY <2>1, <4>3, <5>1, BurstSizes DEF Made, mo_last, LastSymbol
        <4> QED
          BY <4>1, <4>2, <4>3
      <3> QED
        BY <2>2, <2>3, <3>1, <3>4, <3>5, <3>6
    <2> QED
      BY <2>4, <2>5
  <1> QED
    BY <1>3, <1>4, <1>5 DEF SourceTypes

-----------------------------------------------------------------------------
(* The steps of the two clocks.                                            *)

\* the queue over a step
LEMMA QueueSteps ==
  ASSUME Fifo!FifoInv, mem = [a \in 0..Fifo!Depth - 1 |-> mem[a]],
         NEW e \in {0, 1}, NEW d \in {0, 1}, FifoMoves(e, d)
  PROVE  /\ mem' = [a \in 0..Fifo!Depth - 1 |-> mem'[a]]
         /\ Fifo!Held \in Nat /\ Fifo!Held' \in Nat
         /\ Fifo!Held' = Fifo!Held + e - d
         /\ d = 1 => Fifo!Held > 0
         /\ \A j \in 0..Fifo!Held - 1 - d : Fifo!Item(j)' = Fifo!Item(j + d)
         /\ \A j : (e = 1 /\ j = Fifo!Held - d) => Fifo!Item(j)' = s2
  <1> DEFINE w == s2
  <1>1. /\ Fifo!WriteMoves(e) /\ Fifo!ReadMoves(d)
        /\ mem' = IF e = 1 THEN [mem EXCEPT ![wr_bin % Fifo!Depth] = w] ELSE mem
    BY DEF FifoMoves
  <1> HIDE DEF w
  <1>2. /\ mem' = [a \in 0..Fifo!Depth - 1 |-> mem'[a]]
        /\ Fifo!Held \in 0..Fifo!Depth /\ Fifo!Held' = Fifo!Held + e - d
        /\ e = 1 => Fifo!Held < Fifo!Depth
        /\ d = 1 => Fifo!Held > 0
        /\ \A j \in 0..Fifo!Held - 1 - d : Fifo!Item(j)' = Fifo!Item(j + d)
        /\ \A j : (e = 1 /\ j = Fifo!Held - d) => Fifo!Item(j)' = w
    BY <1>1, FifoIs, Fifo!QueueMoves
  <1>3. Fifo!Depth \in Nat
    BY FifoIs, Fifo!PointerFacts
  <1>4. Fifo!Held \in Nat /\ Fifo!Held' \in Nat
    BY <1>2, <1>3
  <1> QED
    BY <1>2, <1>4 DEF w

\* the word shown is the first of the queue
LEMMA ShownIsFirst ==
  ASSUME Fifo!FifoInv
  PROVE  Fifo!rd_data = Fifo!Item(0)
  <1>1. rd_bin \in Nat
    BY FifoIs, Fifo!PointerFacts DEF Fifo!FifoInv
  <1>2. rd_bin + 0 = rd_bin
    BY <1>1
  <1> QED
    BY <1>2 DEF Fifo!rd_data, Fifo!Item

\* when all has been played nothing of the burst is left anywhere
LEMMA AllPlayed ==
  ASSUME Fifo!FifoInv, SourceTypes, Feeding, Pipeline, Queue, t_state # "IDLE",
         played = BurstLength
  PROVE  /\ t_state = "DRAIN" /\ s1 = Silence /\ s2 = Silence
         /\ Fifo!Held = 0 /\ tx_samples = BurstLength
  <1>1. Fifo!Held \in Nat
    BY FifoIs, Fifo!InvNeverWrong, Fifo!PointerFacts
  <1>2. Made \in 0..BurstLength
    BY MadeIs
  <1>3. /\ tx_samples = BurstLength + Fifo!Held /\ tx_samples \in 0..BurstLength
        /\ Made = tx_samples + One(s2 # Silence) + One(s1 # Silence)
        /\ One(s2 # Silence) \in {0, 1} /\ One(s1 # Silence) \in {0, 1}
    BY DEF Queue, Pipeline, One
  <1>4. /\ Fifo!Held = 0 /\ tx_samples = BurstLength /\ Made = BurstLength
        /\ One(s2 # Silence) = 0 /\ One(s1 # Silence) = 0
    BY <1>1, <1>2, <1>3, BurstSizes
  <1>5. s1 = Silence /\ s2 = Silence
    BY <1>4 DEF One
  <1>6. t_state # "PRE"
    BY <1>4, BurstSizes DEF Made, SourceTypes
  <1>7. t_state # "MOD"
    <2>1. ASSUME t_state = "MOD" PROVE FALSE
      <3>1. t_sym \in 0..DataSymbols /\ sample_index \in 0..SymbolSamples - 1
            /\ 0 \in 0..Frames
        BY <2>1, Sizes, BurstSizes DEF SourceTypes, Feeding
      <3>2. PreambleSamples + (t_sym * SymbolSamples + sample_index) \in 0..BurstLength - 1
        BY <3>1, BurstIs
      <3> QED
        BY <1>4, <2>1, <3>2, BurstSizes DEF Made
    <2> QED
      BY <2>1
  <1> QED
    BY <1>4, <1>5, <1>6, <1>7 DEF SourceTypes

\* what a word queued, a word played and the end of a burst presuppose
LEMMA StepNeeds ==
  ASSUME Fifo!FifoInv, Sending, frame \in 0..Frames,
         NEW e \in {0, 1}, NEW d \in {0, 1}, Clocked(e, d)
  PROVE  /\ d = 1 => /\ s_active /\ t_state # "IDLE" /\ primed /\ played < BurstLength
                     /\ Fifo!Held > 0
                     /\ TxFifo!rd_data = BurstSample(frame, played + 1)
                     /\ TxFifo!rd_data.last <=> (played + 1 = BurstLength)
         /\ e = 1 => /\ t_state # "IDLE" /\ s2 = BurstSample(frame, tx_samples + 1)
                     /\ tx_samples < BurstLength
         /\ Drained => /\ t_state = "DRAIN" /\ played = BurstLength
                       /\ s1 = Silence /\ s2 = Silence /\ e = 0 /\ d = 0
         /\ t_state = "IDLE" => e = 0 /\ d = 0
  <1>1. Fifo!Held \in Nat /\ (d = 1 => Fifo!Held > 0)
    BY QueueSteps DEF Clocked, Sending, Queue
  <1>2. d = 1 => s_active
    BY DEF Clocked, SampleMoves, One, txf_rd
  <1>3. e = 1 => s2 # Silence
    BY DEF Clocked, ControlMoves, One, txf_wr
  <1>4. ASSUME d = 1
        PROVE  /\ s_active /\ t_state # "IDLE" /\ primed /\ played < BurstLength
               /\ Fifo!Held > 0
               /\ TxFifo!rd_data = BurstSample(frame, played + 1)
               /\ TxFifo!rd_data.last <=> (played + 1 = BurstLength)
    <2>1. s_active /\ t_state # "IDLE" /\ primed /\ played < BurstLength
      BY <1>2, <1>4 DEF Sending, Going
    <2>2. 0 \in 0..Fifo!Held - 1
      BY <1>1, <1>4
    <2>3. Fifo!Item(0) = BurstSample(frame, played + 1 + 0)
      BY <2>1, <2>2 DEF Sending, Queue
    <2>4. played + 1 + 0 = played + 1 /\ played + 1 \in 1..BurstLength
      BY <2>1, BurstSizes DEF Sending, Queue
    <2>5. TxFifo!rd_data = BurstSample(frame, played + 1)
      BY <2>3, <2>4, ShownIsFirst, SamePorts
    <2>6. TxFifo!rd_data.last <=> (played + 1 = BurstLength)
      BY <2>4, <2>5, BurstIs
    <2> QED
      BY <1>1, <1>4, <2>1, <2>5, <2>6
  <1>5. ASSUME e = 1
        PROVE  /\ t_state # "IDLE" /\ s2 = BurstSample(frame, tx_samples + 1)
               /\ tx_samples < BurstLength
    <2>1. t_state # "IDLE" /\ s2 = BurstSample(frame, tx_samples + 1)
      BY <1>3, <1>5 DEF Sending, Pipeline
    <2>2. /\ Made = tx_samples + 1 + One(s1 # Silence) /\ One(s1 # Silence) \in {0, 1}
          /\ tx_samples \in 0..BurstLength
      BY <1>3, <1>5, <2>1 DEF Sending, Pipeline, Queue, One
    <2>3. Made \in 0..BurstLength
      BY MadeIs DEF Sending
    <2> QED
      BY <2>1, <2>2, <2>3, BurstSizes
  <1>6. ASSUME Drained
        PROVE  /\ t_state = "DRAIN" /\ played = BurstLength
               /\ s1 = Silence /\ s2 = Silence /\ e = 0 /\ d = 0
    <2>1. t_state = "DRAIN" /\ done_sync[3] # done_sync[2]
      BY <1>6 DEF Drained
    <2>2. ~ Seen(done_sync, done_toggle)
      BY <2>1 DEF Seen, Sending, Flags
    <2>3. played = BurstLength
      BY <2>1, <2>2 DEF Sending, Ending
    <2>4. s1 = Silence /\ s2 = Silence /\ Fifo!Held = 0
      BY <2>1, <2>3, AllPlayed DEF Sending
    <2>5. e = 0 /\ d = 0
      BY <1>1, <1>3, <2>4
    <2> QED
      BY <2>1, <2>3, <2>4, <2>5
  <1>7. ASSUME t_state = "IDLE" PROVE e = 0 /\ d = 0
    BY <1>4, <1>5, <1>7
  <1> QED
    BY <1>4, <1>5, <1>6, <1>7

\* the transmit machine over a step: no edge, the end of the burst, or neither
LEMMA MachineSteps ==
  ASSUME Fifo!FifoInv, Sending, frame \in 0..Frames,
         NEW e \in {0, 1}, NEW d \in {0, 1}, Clocked(e, d)
  PROVE  /\ tx_samples' = tx_samples + e
         /\ t_state = "IDLE" => t_state' = "IDLE"
         /\ t_state # "IDLE" /\ t_state' = "IDLE" => Drained
         /\ \/ UNCHANGED controlTx
            \/ /\ done_sync' = <<done_toggle, done_sync[1], done_sync[2]>>
               /\ Drained => t_state' = "IDLE"
               /\ tx_busy' = (tx_busy /\ ~ Drained) /\ tx_done' = (tx_done \/ Drained)
  <1>1. CASE e = 0 /\ UNCHANGED controlTx
    BY <1>1, BurstSizes DEF controlTx, transmit, Sending, Queue
  <1>2. ASSUME NEW ready \in IfftReady, ControlEdge(ready), e = One(txf_wr)
        PROVE  /\ tx_samples' = tx_samples + e
               /\ t_state = "IDLE" => t_state' = "IDLE"
               /\ t_state # "IDLE" /\ t_state' = "IDLE" => Drained
               /\ done_sync' = <<done_toggle, done_sync[1], done_sync[2]>>
               /\ Drained => t_state' = "IDLE"
               /\ tx_busy' = (tx_busy /\ ~ Drained) /\ tx_done' = (tx_done \/ Drained)
    <2>1. Transmit(ready) /\ SourceTypes
      BY <1>2 DEF ControlEdge, Sending
    <2>2. tx_samples' = tx_samples + e
      BY <1>2, <2>1 DEF Transmit, One, Sending, Queue
    <2>3. /\ t_state = "IDLE" => t_state' = "IDLE"
          /\ t_state # "IDLE" /\ t_state' = "IDLE" => Drained
          /\ Drained => t_state' = "IDLE"
      BY <2>1, StateMoves DEF SourceTypes
    <2>4. done_sync' = <<done_toggle, done_sync[1], done_sync[2]>>
      BY <1>2 DEF ControlEdge
    <2>5. tx_busy' = (tx_busy /\ ~ Drained) /\ tx_done' = (tx_done \/ Drained)
      BY <2>1, Zenon DEF Transmit
    <2> QED
      BY <2>2, <2>3, <2>4, <2>5
  <1> QED
    BY <1>1, <1>2 DEF Clocked, ControlMoves

\* the pipeline over a step
LEMMA PipelineKept ==
  ASSUME Fifo!FifoInv, Sending, frame \in 0..Frames,
         NEW e \in {0, 1}, NEW d \in {0, 1}, Clocked(e, d)
  PROVE  Pipeline'
  <1>0. frame' = frame
    BY DEF Clocked, ps
  <1>1. CASE UNCHANGED controlTx
    <2>1. UNCHANGED <<t_state, pre_idx, t_sym, sample_index, tx_samples, s1, s2>>
      BY <1>1 DEF controlTx, transmit, modemTx
    <2> QED
      BY <1>0, <2>1 DEF Sending, Pipeline, Made, One
  <1>2. ASSUME NEW ready \in IfftReady, ControlEdge(ready), e = One(txf_wr)
        PROVE  Pipeline'
    <2>1. Gain(ready)
      BY <1>2 DEF ControlEdge
    <2>2. tx_samples' = tx_samples + e /\ tx_samples \in Nat
      BY MachineSteps, BurstSizes DEF Sending, Queue
    <2>3. CASE t_state = "IDLE"
      <3>1. s1 = Silence /\ s2 = Silence /\ t_state' = "IDLE"
        BY <2>3, MachineSteps DEF Sending, Pipeline
      <3>2. Source(ready) = Silence
        BY <2>3 DEF Source
      <3> QED
        BY <2>1, <3>1, <3>2 DEF Pipeline, Gain
    <2>4. CASE t_state # "IDLE" /\ Drained
      <3>1. s1 = Silence /\ s2 = Silence /\ t_state = "DRAIN"
        BY <2>4, StepNeeds
      <3>2. Transmit(ready)
        BY <1>2 DEF ControlEdge
      <3>3. t_state' = "IDLE"
        BY <2>4, <3>1, <3>2, StateMoves DEF Sending
      <3>4. Source(ready) = Silence
        BY <3>1 DEF Source
      <3> QED
        BY <2>1, <3>1, <3>3, <3>4 DEF Pipeline, Gain
    <2>5. CASE t_state # "IDLE" /\ ~ Drained
      <3>1. /\ t_state' # "IDLE"
            /\ ~ adv => Made' = Made
            /\ adv => \/ Source(ready) = Silence /\ Made' = Made
                      \/ /\ Source(ready) = BurstSample(frame, Made + 1)
                         /\ Source(ready) # Silence /\ Made' = Made + 1
        BY <1>2, <2>5, SourceGives DEF Sending
      <3> DEFINE q2 == One(s2 # Silence)
                 q1 == One(s1 # Silence)
      <3>2. /\ Made = tx_samples + q2 + q1
            /\ s2 # Silence => s2 = BurstSample(frame, tx_samples + 1)
            /\ s1 # Silence => s1 = BurstSample(frame, tx_samples + q2 + 1)
            /\ q1 \in {0, 1} /\ q2 \in {0, 1}
        BY <2>5 DEF Sending, Pipeline, One
      <3>3. CASE ~ adv
        <4>1. s1' = s1 /\ s2' = s2 /\ e = 0
          BY <1>2, <2>1, <3>3 DEF Gain, adv, txf_wr, One
        <4>2. tx_samples' = tx_samples
          BY <2>2, <4>1
        <4> QED
          BY <1>0, <3>1, <3>2, <3>3, <4>1, <4>2 DEF Pipeline, One
      <3>4. CASE adv
        <4>1. s1' = Source(ready) /\ s2' = s1 /\ e = q2
          BY <1>2, <2>1, <3>4 DEF Gain, adv, txf_wr, One
        <4>2. tx_samples' = tx_samples + q2 /\ One(s2' # Silence) = q1
          BY <2>2, <4>1
        <4>3. s2' # Silence => s2' = BurstSample(frame', tx_samples' + 1)
          BY <1>0, <3>2, <4>1, <4>2
        <4> HIDE DEF q1, q2
        <4>4. CASE Source(ready) = Silence /\ Made' = Made
          <5>1. s1' = Silence /\ One(s1' # Silence) = 0
            BY <4>1, <4>4 DEF One
          <5>2. Made' = tx_samples' + One(s2' # Silence) + One(s1' # Silence)
            BY <2>2, <3>2, <4>2, <4>4, <5>1
          <5> QED
            BY <3>1, <4>3, <5>1, <5>2 DEF Pipeline, One
        <4>5. CASE /\ Source(ready) = BurstSample(frame, Made + 1)
                   /\ Source(ready) # Silence /\ Made' = Made + 1
          <5>1. s1' # Silence /\ One(s1' # Silence) = 1
            BY <4>1, <4>5 DEF One
          <5>2. Made' = tx_samples' + One(s2' # Silence) + One(s1' # Silence)
            BY <2>2, <3>2, <4>2, <4>5, <5>1
          <5>3. Made + 1 = tx_samples' + One(s2' # Silence) + 1
            BY <2>2, <3>2, <4>2
          <5>4. s1' = BurstSample(frame', tx_samples' + One(s2' # Silence) + 1)
            BY <1>0, <4>1, <4>5, <5>3
          <5> QED
            BY <3>1, <4>3, <5>1, <5>2, <5>4 DEF Pipeline, One
        <4> QED
          BY <3>1, <3>4, <4>4, <4>5
      <3> QED
        BY <3>3, <3>4
    <2> QED
      BY <2>3, <2>4, <2>5
  <1> QED
    BY <1>1, <1>2 DEF Clocked, ControlMoves

\* samples played, over a step
LEMMA PlayedSteps ==
  ASSUME NEW d \in {0, 1}, SampleMoves(d), played \in Nat
  PROVE  played' = played + d
  <1>1. CASE UNCHANGED sampleTx /\ d = 0
    BY <1>1 DEF sampleTx
  <1>2. ASSUME NEW req \in BOOLEAN, SampleEdge(req), d = One(txf_rd(req))
        PROVE  played' = played + d
    <2>1. played' = IF txf_rd(req) THEN played + 1 ELSE played
      BY <1>2, Zenon DEF SampleEdge
    <2> QED
      BY <1>2, <2>1 DEF One
  <1> QED
    BY <1>1, <1>2 DEF SampleMoves

\* the queue holds what was made and not played, over a step
LEMMA QueueKept ==
  ASSUME Fifo!FifoInv, Sending, frame \in 0..Frames,
         NEW e \in {0, 1}, NEW d \in {0, 1}, Clocked(e, d)
  PROVE  Queue'
  <1>1. /\ mem' = [a \in 0..Fifo!Depth - 1 |-> mem'[a]]
        /\ Fifo!Held \in Nat /\ Fifo!Held' \in Nat
        /\ Fifo!Held' = Fifo!Held + e - d
        /\ d = 1 => Fifo!Held > 0
        /\ \A j \in 0..Fifo!Held - 1 - d : Fifo!Item(j)' = Fifo!Item(j + d)
        /\ \A j : (e = 1 /\ j = Fifo!Held - d) => Fifo!Item(j)' = s2
    BY QueueSteps DEF Clocked, Sending, Queue
  <1>2. /\ tx_samples' = tx_samples + e /\ frame' = frame
        /\ tx_samples \in 0..BurstLength /\ played \in 0..BurstLength
        /\ t_state = "IDLE" => t_state' = "IDLE"
        /\ t_state # "IDLE" /\ t_state' = "IDLE" => Drained
    BY MachineSteps DEF Clocked, ps, Sending, Queue
  <1>3. played' = played + d
    BY <1>2, PlayedSteps, BurstSizes DEF Clocked
  <1>4. /\ d = 1 => played < BurstLength
        /\ e = 1 => tx_samples < BurstLength /\ s2 = BurstSample(frame, tx_samples + 1)
        /\ Drained => t_state = "DRAIN" /\ played = BurstLength /\ e = 0 /\ d = 0
        /\ t_state = "IDLE" => e = 0 /\ d = 0
    BY StepNeeds
  <1>5. tx_samples' \in 0..BurstLength /\ played' \in 0..BurstLength
    BY <1>2, <1>3, <1>4, BurstSizes
  <1>6. t_state' = "IDLE" => Fifo!Held' = 0
    <2>1. CASE t_state = "IDLE"
      <3>1. Fifo!Held = 0
        BY <2>1 DEF Sending, Queue
      <3> QED
        BY <1>1, <1>4, <2>1, <3>1
    <2>2. CASE t_state # "IDLE" /\ Drained
      <3>1. Fifo!Held = 0
        BY <1>4, <2>2, AllPlayed DEF Sending
      <3> QED
        BY <1>1, <1>4, <2>2, <3>1
    <2> QED
      BY <1>2, <2>1, <2>2
  <1>7. ASSUME t_state' # "IDLE"
        PROVE  /\ tx_samples' = played' + Fifo!Held'
               /\ \A j \in 0..Fifo!Held' - 1 :
                    Fifo!Item(j)' = BurstSample(frame', played' + 1 + j)
    <2>1. /\ tx_samples = played + Fifo!Held
          /\ \A j \in 0..Fifo!Held - 1 : Fifo!Item(j) = BurstSample(frame, played + 1 + j)
      BY <1>2, <1>7 DEF Sending, Queue
    <2>2. tx_samples' = played' + Fifo!Held'
      BY <1>1, <1>2, <1>3, <2>1
    <2>3. ASSUME NEW j \in 0..Fifo!Held' - 1
          PROVE  Fifo!Item(j)' = BurstSample(frame', played' + 1 + j)
      <3>1. CASE j < Fifo!Held - d
        <4>1. j \in 0..Fifo!Held - 1 - d /\ j + d \in 0..Fifo!Held - 1
          BY <1>1, <3>1
        <4>2. Fifo!Item(j)' = BurstSample(frame, played + 1 + (j + d))
          BY <1>1, <2>1, <4>1
        <4>3. played + 1 + (j + d) = played' + 1 + j
          BY <1>1, <1>2, <1>3
        <4> QED
          BY <1>2, <4>2, <4>3
      <3>2. CASE ~ (j < Fifo!Held - d)
        <4>1. e = 1 /\ j = Fifo!Held - d
          BY <1>1, <3>2
        <4>2. Fifo!Item(j)' = BurstSample(frame, tx_samples + 1)
          BY <1>1, <1>4, <4>1
        <4>3. tx_samples + 1 = played' + 1 + j
          BY <1>1, <1>2, <1>3, <2>1, <4>1
        <4> QED
          BY <1>2, <4>2, <4>3
      <3> QED
        BY <3>1, <3>2
    <2> QED
      BY <2>2, <2>3
  <1>8. Fifo!Depth' = Fifo!Depth
    BY DEF Fifo!Depth
  <1> QED
    BY <1>1, <1>5, <1>6, <1>7, <1>8 DEF Queue

\* a toggle on its way through a synchronizer
LEMMA ToggleTravels ==
  ASSUME NEW sync, NEW t \in BOOLEAN, NEW next,
         \A i \in 1..3 : sync[i] \in BOOLEAN,
         next = <<t, sync[1], sync[2]>>
  PROVE  /\ \A i \in 1..3 : next[i] \in BOOLEAN
         /\ Seen(sync, t) => Seen(next, t) /\ (sync[3] <=> sync[2])
         /\ Seen(sync, t) => OnTheWay(next, ~ t)
         /\ OnTheWay(sync, t) /\ (sync[2] <=> t) => Seen(next, t)
         /\ OnTheWay(sync, t) /\ ~ (sync[2] <=> t) => OnTheWay(next, t)
         /\ OnTheWay(sync, t) => ((sync[3] <=> ~ sync[2]) <=> (sync[2] <=> t))
  <1>1. next[1] = t /\ next[2] = sync[1] /\ next[3] = sync[2]
    OBVIOUS
  <1>2. sync[1] \in BOOLEAN /\ sync[2] \in BOOLEAN /\ sync[3] \in BOOLEAN
    OBVIOUS
  <1>3. \A i \in 1..3 : next[i] \in BOOLEAN
    <2>1. ASSUME NEW i \in 1..3 PROVE i = 1 \/ i = 2 \/ i = 3
      OBVIOUS
    <2> QED
      BY <1>1, <1>2, <2>1
  <1> QED
    BY <1>1, <1>2, <1>3 DEF Seen, OnTheWay

\* go: primed once a burst, by a word queued
LEMMA GoSteps ==
  ASSUME Flags, NEW e \in {0, 1}, ControlMoves(e)
  PROVE  \E p \in BOOLEAN :
           /\ p => ~ primed /\ e = 1
           /\ (primed' <=> (primed \/ p)) /\ primed' \in BOOLEAN
           /\ (go_toggle' <=> (IF p THEN ~ go_toggle ELSE go_toggle))
           /\ go_toggle' \in BOOLEAN
  <1>1. CASE UNCHANGED controlTx
    BY <1>1 DEF controlTx, transmit, Flags
  <1>2. ASSUME NEW ready \in IfftReady, ControlEdge(ready), e = One(txf_wr)
        PROVE  \E p \in BOOLEAN :
                 /\ p => ~ primed /\ e = 1
                 /\ (primed' <=> (primed \/ p)) /\ primed' \in BOOLEAN
                 /\ (go_toggle' <=> (IF p THEN ~ go_toggle ELSE go_toggle))
                 /\ go_toggle' \in BOOLEAN
    <2> DEFINE p == Primes
    <2>1. p \in BOOLEAN /\ (p => txf_wr /\ ~ primed)
      BY DEF Primes
    <2>2. primed' = (primed \/ p) /\ go_toggle' = (go_toggle # p)
      BY <1>2, Zenon DEF ControlEdge, Transmit, GoToggled
    <2> HIDE DEF p
    <2>3. p => e = 1
      BY <1>2, <2>1 DEF One
    <2>4. PICK q \in BOOLEAN : q = p
      BY <2>1
    <2>5. /\ (primed' <=> (primed \/ q)) /\ primed' \in BOOLEAN
          /\ (go_toggle' <=> (IF q THEN ~ go_toggle ELSE go_toggle))
          /\ go_toggle' \in BOOLEAN
      BY <2>2, <2>4 DEF Flags
    <2> QED
      BY <2>1, <2>3, <2>4, <2>5
  <1> QED
    BY <1>1, <1>2 DEF ControlMoves

\* the DAC side over a step
LEMMA DacSteps ==
  ASSUME Flags, NEW d \in {0, 1}, SampleMoves(d)
  PROVE  \E ends \in BOOLEAN :
           /\ ends <=> (d = 1 /\ TxFifo!rd_data.last)
           /\ (done_toggle' <=> (IF ends THEN ~ done_toggle ELSE done_toggle))
           /\ done_toggle' \in BOOLEAN
           /\ \/ /\ d = 0 /\ s_active' = s_active /\ go_sync' = go_sync
              \/ /\ go_sync' = <<go_toggle, go_sync[1], go_sync[2]>>
                 /\ s_active' \in BOOLEAN
                 /\ s_active' <=> ((s_active \/ (go_sync[3] <=> ~ go_sync[2])) /\ ~ ends)
  <1>1. CASE d = 0 /\ UNCHANGED sampleTx
    <2>1. /\ ~ (d = 1 /\ TxFifo!rd_data.last)
          /\ s_active' = s_active /\ go_sync' = go_sync
          /\ (done_toggle' <=> done_toggle) /\ done_toggle' \in BOOLEAN
      BY <1>1 DEF sampleTx, Flags
    <2> QED
      BY <1>1, <2>1, Zenon
  <1>2. ASSUME NEW req \in BOOLEAN, SampleEdge(req), d = One(txf_rd(req))
        PROVE  \E ends \in BOOLEAN :
                 /\ ends <=> (d = 1 /\ TxFifo!rd_data.last)
                 /\ (done_toggle' <=> (IF ends THEN ~ done_toggle ELSE done_toggle))
                 /\ done_toggle' \in BOOLEAN
                 /\ go_sync' = <<go_toggle, go_sync[1], go_sync[2]>>
                 /\ s_active' \in BOOLEAN
                 /\ s_active' <=> ((s_active \/ (go_sync[3] <=> ~ go_sync[2])) /\ ~ ends)
    <2> DEFINE x == txf_rd(req) /\ TxFifo!rd_data.last
    <2>1. x \in BOOLEAN /\ (x <=> (d = 1 /\ TxFifo!rd_data.last))
      BY <1>2 DEF One
    <2>2. /\ go_sync' = <<go_toggle, go_sync[1], go_sync[2]>>
          /\ s_active' = ((s_active \/ go_sync[3] # go_sync[2]) /\ ~ x)
          /\ done_toggle' = (done_toggle # x)
      BY <1>2, Zenon DEF SampleEdge
    <2> HIDE DEF x
    <2>3. PICK q \in BOOLEAN : q = x
      BY <2>1
    <2>4. /\ (done_toggle' <=> (IF q THEN ~ done_toggle ELSE done_toggle))
          /\ done_toggle' \in BOOLEAN
      BY <2>2, <2>3 DEF Flags
    <2>5. /\ s_active' \in BOOLEAN
          /\ s_active' <=> ((s_active \/ (go_sync[3] <=> ~ go_sync[2])) /\ ~ q)
      <3>1. go_sync[3] \in BOOLEAN /\ go_sync[2] \in BOOLEAN
        BY DEF Flags
      <3> QED
        BY <2>2, <2>3, <3>1 DEF Flags
    <2>6. q <=> (d = 1 /\ TxFifo!rd_data.last)
      BY <2>1, <2>3
    <2>7. go_sync' = <<go_toggle, go_sync[1], go_sync[2]>>
      BY <2>2
    <2> QED
      BY <2>4, <2>5, <2>6, <2>7, Zenon
  <1> QED
    BY <1>1, <1>2 DEF SampleMoves

\* start and end of a burst over a step of the clocks
LEMMA HandshakesKept ==
  ASSUME Fifo!FifoInv, Sending, frame \in 0..Frames,
         NEW e \in {0, 1}, NEW d \in {0, 1}, Clocked(e, d)
  PROVE  /\ Going' /\ Ending'
         /\ primed' \in BOOLEAN /\ s_active' \in BOOLEAN
         /\ go_toggle' \in BOOLEAN /\ done_toggle' \in BOOLEAN
         /\ \A i \in 1..3 : go_sync'[i] \in BOOLEAN /\ done_sync'[i] \in BOOLEAN
  <1>1. Flags /\ ControlMoves(e) /\ SampleMoves(d)
    BY DEF Sending, Clocked
  <1>2. PICK p \in BOOLEAN :
           /\ p => ~ primed /\ e = 1
           /\ (primed' <=> (primed \/ p)) /\ primed' \in BOOLEAN
           /\ (go_toggle' <=> (IF p THEN ~ go_toggle ELSE go_toggle))
           /\ go_toggle' \in BOOLEAN
    BY <1>1, GoSteps
  <1>3. PICK ends \in BOOLEAN :
           /\ ends <=> (d = 1 /\ TxFifo!rd_data.last)
           /\ (done_toggle' <=> (IF ends THEN ~ done_toggle ELSE done_toggle))
           /\ done_toggle' \in BOOLEAN
           /\ \/ /\ d = 0 /\ s_active' = s_active /\ go_sync' = go_sync
              \/ /\ go_sync' = <<go_toggle, go_sync[1], go_sync[2]>>
                 /\ s_active' \in BOOLEAN
                 /\ s_active' <=> ((s_active \/ (go_sync[3] <=> ~ go_sync[2])) /\ ~ ends)
    BY <1>1, DacSteps
  <1>4. /\ played \in 0..BurstLength /\ BurstLength \in Nat \ {0} /\ played' = played + d
    BY <1>1, PlayedSteps, BurstSizes DEF Sending, Queue
  <1>5. /\ d = 1 => /\ s_active /\ t_state # "IDLE" /\ primed /\ played < BurstLength
                    /\ TxFifo!rd_data.last <=> (played + 1 = BurstLength)
        /\ e = 1 => t_state # "IDLE" /\ tx_samples < BurstLength
        /\ Drained => t_state = "DRAIN" /\ played = BurstLength /\ e = 0 /\ d = 0
        /\ t_state = "IDLE" => e = 0 /\ d = 0
    BY StepNeeds
  <1>6. /\ t_state = "IDLE" => t_state' = "IDLE"
        /\ t_state # "IDLE" /\ t_state' = "IDLE" => Drained
        /\ \/ done_sync' = done_sync /\ t_state' = t_state
           \/ /\ done_sync' = <<done_toggle, done_sync[1], done_sync[2]>>
              /\ Drained => t_state' = "IDLE"
    BY MachineSteps DEF controlTx, transmit
  <1>7. p => played # BurstLength
    <2>1. ASSUME p, played = BurstLength PROVE FALSE
      <3>1. tx_samples = BurstLength
        BY <1>2, <1>5, <2>1, AllPlayed DEF Sending
      <3> QED
        BY <1>2, <1>4, <1>5, <2>1, <3>1
    <2> QED
      BY <2>1
  <1>8. /\ \A i \in 1..3 : go_sync[i] \in BOOLEAN
        /\ \A i \in 1..3 : done_sync[i] \in BOOLEAN
        /\ go_toggle \in BOOLEAN /\ done_toggle \in BOOLEAN
        /\ primed \in BOOLEAN /\ s_active \in BOOLEAN
    BY <1>1 DEF Flags
  <1>9. ends <=> (d = 1 /\ played' = BurstLength)
    BY <1>3, <1>4, <1>5
  <1>10. Going' /\ s_active' \in BOOLEAN /\ \A i \in 1..3 : go_sync'[i] \in BOOLEAN
    <2>1. CASE go_sync' = go_sync /\ d = 0 /\ s_active' = s_active
      <3>1. played' = played /\ \A i \in 1..3 : go_sync'[i] \in BOOLEAN
        BY <1>4, <1>8, <2>1
      <3>2. CASE p
        <4>1. ~ s_active /\ Seen(go_sync, go_toggle) /\ played = 0 /\ t_state # "IDLE"
          BY <1>2, <1>5, <1>7, <3>2 DEF Sending, Going
        <4>2. t_state' # "IDLE"
          BY <1>2, <1>5, <1>6, <3>2, <4>1
        <4>3. OnTheWay(go_sync', go_toggle')
          BY <1>2, <1>8, <2>1, <3>2, <4>1 DEF Seen, OnTheWay
        <4> QED
          BY <1>2, <1>8, <2>1, <3>1, <3>2, <4>1, <4>2, <4>3 DEF Going
      <3>3. CASE ~ p
        <4>1. (go_toggle' <=> go_toggle) /\ (primed' <=> primed)
          BY <1>2, <3>3
        <4>2. t_state # "IDLE" /\ t_state' = "IDLE" => played = BurstLength
          BY <1>5, <1>6
        <4>3. /\ Seen(go_sync, go_toggle) => Seen(go_sync', go_toggle')
              /\ OnTheWay(go_sync, go_toggle) => OnTheWay(go_sync', go_toggle')
          BY <1>8, <2>1, <4>1 DEF Seen, OnTheWay
        <4>4. s_active' <=> s_active
          BY <2>1
        <4> QED
          BY <1>4, <1>6, <1>8, <2>1, <3>1, <4>1, <4>2, <4>3, <4>4 DEF Sending, Going
      <3> QED
        BY <3>2, <3>3
    <2>2. CASE /\ go_sync' = <<go_toggle, go_sync[1], go_sync[2]>>
               /\ s_active' \in BOOLEAN
               /\ s_active' <=> ((s_active \/ (go_sync[3] <=> ~ go_sync[2])) /\ ~ ends)
      <3>1. /\ \A i \in 1..3 : go_sync'[i] \in BOOLEAN
            /\ Seen(go_sync, go_toggle) =>
                 Seen(go_sync', go_toggle) /\ (go_sync[3] <=> go_sync[2])
            /\ Seen(go_sync, go_toggle) => OnTheWay(go_sync', ~ go_toggle)
            /\ OnTheWay(go_sync, go_toggle) /\ (go_sync[2] <=> go_toggle) =>
                 Seen(go_sync', go_toggle)
            /\ OnTheWay(go_sync, go_toggle) /\ ~ (go_sync[2] <=> go_toggle) =>
                 OnTheWay(go_sync', go_toggle)
            /\ OnTheWay(go_sync, go_toggle) =>
                 ((go_sync[3] <=> ~ go_sync[2]) <=> (go_sync[2] <=> go_toggle))
        BY <1>8, <2>2, ToggleTravels
      <3>2. CASE p
        <4>1. ~ s_active /\ Seen(go_sync, go_toggle) /\ played = 0 /\ t_state # "IDLE"
          BY <1>2, <1>5, <1>7, <3>2 DEF Sending, Going
        <4>2. t_state' # "IDLE" /\ d = 0 /\ ~ ends
          BY <1>2, <1>3, <1>5, <1>6, <3>2, <4>1
        <4>3. OnTheWay(go_sync', go_toggle')
          <5>1. go_toggle' = (~ go_toggle)
            BY <1>2, <1>8, <3>2
          <5> QED
            BY <3>1, <4>1, <5>1
        <4>4. ~ s_active'
          BY <1>8, <2>2, <3>1, <4>1, <4>2
        <4> QED
          BY <1>2, <1>4, <2>2, <3>1, <3>2, <4>1, <4>2, <4>3, <4>4 DEF Going
      <3>3. CASE ~ p
        <4>1. go_toggle' = go_toggle /\ (primed' <=> primed)
          BY <1>2, <1>8, <3>3
        <4>2. t_state # "IDLE" /\ t_state' = "IDLE" => played = BurstLength
          BY <1>5, <1>6
        <4>3. CASE /\ ~ s_active /\ Seen(go_sync, go_toggle)
                   /\ t_state = "IDLE" \/ (~ primed /\ played = 0) \/ played = BurstLength
          <5>1. d = 0 /\ ~ ends /\ played' = played
            BY <1>3, <1>4, <1>5, <4>3
          <5>2. ~ s_active' /\ Seen(go_sync', go_toggle')
            BY <1>8, <2>2, <3>1, <4>1, <4>3, <5>1
          <5> QED
            BY <1>6, <2>2, <3>1, <4>1, <4>3, <5>1, <5>2 DEF Going
        <4>4. CASE /\ ~ s_active /\ OnTheWay(go_sync, go_toggle)
                   /\ t_state # "IDLE" /\ primed /\ played = 0
          <5>1. d = 0 /\ ~ ends /\ played' = played /\ t_state' # "IDLE"
            BY <1>3, <1>4, <1>5, <4>2, <4>4
          <5>2. CASE go_sync[2] <=> go_toggle
            <6>1. s_active' /\ Seen(go_sync', go_toggle')
              BY <1>8, <2>2, <3>1, <4>1, <4>4, <5>1, <5>2
            <6> QED
              BY <1>4, <2>2, <3>1, <4>1, <4>4, <5>1, <6>1 DEF Going
          <5>3. CASE ~ (go_sync[2] <=> go_toggle)
            <6>1. ~ s_active' /\ OnTheWay(go_sync', go_toggle')
              BY <1>8, <2>2, <3>1, <4>1, <4>4, <5>1, <5>3
            <6> QED
              BY <1>4, <2>2, <3>1, <4>1, <4>4, <5>1, <6>1 DEF Going
          <5> QED
            BY <5>2, <5>3
        <4>5. CASE /\ s_active /\ Seen(go_sync, go_toggle)
                   /\ t_state # "IDLE" /\ primed /\ played < BurstLength
          <5>1. t_state' # "IDLE" /\ Seen(go_sync', go_toggle') /\ (s_active' <=> ~ ends)
            BY <1>4, <1>8, <2>2, <3>1, <4>1, <4>2, <4>5
          <5>2. CASE ends
            BY <1>9, <2>2, <3>1, <5>1, <5>2 DEF Going
          <5>3. CASE ~ ends
            <6>1. played' < BurstLength
              BY <1>4, <1>9, <4>5, <5>3
            <6> QED
              BY <2>2, <3>1, <4>1, <4>5, <5>1, <5>3, <6>1 DEF Going
          <5> QED
            BY <5>2, <5>3
        <4> QED
          BY <4>3, <4>4, <4>5 DEF Sending, Going
      <3> QED
        BY <3>2, <3>3
    <2> QED
      BY <1>3, <2>1, <2>2
  <1>11. Ending' /\ \A i \in 1..3 : done_sync'[i] \in BOOLEAN
    <2> DEFINE next == <<done_toggle, done_sync[1], done_sync[2]>>
    <2>1. /\ \A i \in 1..3 : next[i] \in BOOLEAN
          /\ Seen(done_sync, done_toggle) =>
               Seen(next, done_toggle) /\ (done_sync[3] <=> done_sync[2])
          /\ Seen(done_sync, done_toggle) => OnTheWay(next, ~ done_toggle)
          /\ OnTheWay(done_sync, done_toggle) /\ (done_sync[2] <=> done_toggle) =>
               Seen(next, done_toggle)
          /\ OnTheWay(done_sync, done_toggle) /\ ~ (done_sync[2] <=> done_toggle) =>
               OnTheWay(next, done_toggle)
          /\ OnTheWay(done_sync, done_toggle) =>
               ((done_sync[3] <=> ~ done_sync[2]) <=> (done_sync[2] <=> done_toggle))
      BY <1>8, ToggleTravels
    <2> HIDE DEF next
    <2>2. done_sync' = done_sync \/ done_sync' = next
      BY <1>6 DEF next
    <2>3. \A i \in 1..3 : done_sync'[i] \in BOOLEAN
      BY <1>8, <2>1, <2>2
    <2>4. CASE ~ (t_state # "IDLE" /\ played = BurstLength)
      <3>1. Seen(done_sync, done_toggle) /\ (t_state' = "IDLE" <=> t_state = "IDLE")
        BY <1>5, <1>6, <2>4 DEF Sending, Ending
      <3>2. CASE ends
        <4>1. done_toggle' = (~ done_toggle) /\ t_state' # "IDLE" /\ played' = BurstLength
          BY <1>3, <1>5, <1>8, <1>9, <3>1, <3>2
        <4>2. OnTheWay(done_sync, ~ done_toggle)
          BY <1>8, <3>1 DEF Seen, OnTheWay
        <4>3. OnTheWay(done_sync', done_toggle')
          BY <2>1, <2>2, <3>1, <4>1, <4>2
        <4> QED
          BY <2>3, <4>1, <4>3 DEF Ending
      <3>3. CASE ~ ends
        <4>1. done_toggle' = done_toggle
          BY <1>3, <1>8, <3>3
        <4>2. ~ (t_state' # "IDLE" /\ played' = BurstLength)
          BY <1>4, <1>9, <2>4, <3>1, <3>3
        <4>3. Seen(done_sync', done_toggle')
          BY <2>1, <2>2, <3>1, <4>1
        <4> QED
          BY <2>3, <4>2, <4>3 DEF Ending
      <3> QED
        BY <3>2, <3>3
    <2>5. CASE t_state # "IDLE" /\ played = BurstLength
      <3>1. /\ OnTheWay(done_sync, done_toggle) /\ t_state = "DRAIN"
            /\ d = 0 /\ ~ ends /\ played' = played
        BY <1>3, <1>4, <1>5, <2>5, AllPlayed DEF Sending, Ending
      <3>2. done_toggle' = done_toggle
        BY <1>3, <1>8, <3>1
      <3>3. Drained <=> (done_sync[3] <=> ~ done_sync[2])
        <4>1. done_sync[3] \in BOOLEAN /\ done_sync[2] \in BOOLEAN
          BY <1>8
        <4> QED
          BY <3>1, <4>1 DEF Drained
      <3>4. CASE done_sync' = done_sync /\ t_state' = t_state
        BY <2>3, <2>5, <3>1, <3>2, <3>4 DEF Ending
      <3>5. CASE done_sync' = next /\ (Drained => t_state' = "IDLE")
        <4>1. CASE Drained
          <5>1. t_state' = "IDLE" /\ Seen(done_sync', done_toggle')
            BY <2>1, <3>1, <3>2, <3>3, <3>5, <4>1
          <5> QED
            BY <2>3, <5>1 DEF Ending
        <4>2. CASE ~ Drained
          <5>1. t_state' # "IDLE" /\ OnTheWay(done_sync', done_toggle')
            BY <1>6, <2>1, <2>5, <3>1, <3>2, <3>3, <3>5, <4>2
          <5> QED
            BY <2>3, <2>5, <3>1, <5>1 DEF Ending
        <4> QED
          BY <4>1, <4>2
      <3> QED
        BY <1>6, <3>4, <3>5 DEF next
    <2> QED
      BY <2>4, <2>5
  <1> QED
    BY <1>2, <1>3, <1>10, <1>11

\* a step of the clocks
LEMMA ClocksKeepBurst ==
  ASSUME BurstInv, NEW e \in {0, 1}, NEW d \in {0, 1}, Clocked(e, d)
  PROVE  Sending' /\ Calling'
  <1>1. /\ Fifo!FifoInv /\ Sending /\ Calling /\ UNCHANGED ps
        /\ frame \in 0..Frames /\ txbuf \in 0..Frames /\ frame' = frame
        /\ t_state # "IDLE" => txbuf = frame
    BY DEF BurstInv, Calling, Clocked, ps
  <1>2. Pipeline' /\ Queue'
    BY <1>1, PipelineKept, QueueKept
  <1>3. /\ Going' /\ Ending'
        /\ primed' \in BOOLEAN /\ s_active' \in BOOLEAN
        /\ go_toggle' \in BOOLEAN /\ done_toggle' \in BOOLEAN
        /\ \A i \in 1..3 : go_sync'[i] \in BOOLEAN /\ done_sync'[i] \in BOOLEAN
    BY <1>1, HandshakesKept
  <1>4. FeederTypes' /\ SourceTypes' /\ Feeding'
    <2>1. CASE UNCHANGED controlTx
      <3>1. UNCHANGED <<modem_rst_count, f_state, f_word, f_bits, symbol, sample_index,
                        t_state, pre_idx, t_sym, frame>>
        BY <1>1, <2>1 DEF controlTx, feeder, modemTx, transmit
      <3> QED
        BY <1>1, <3>1 DEF Sending, FeederTypes, SourceTypes, Feeding, Filling, Accepted
    <2>2. ASSUME NEW ready \in IfftReady, ControlEdge(ready)
          PROVE  FeederTypes' /\ SourceTypes' /\ Feeding'
      BY <1>1, <2>2, FeedingKept DEF Sending
    <2> QED
      BY <2>1, <2>2 DEF Clocked, ControlMoves
  <1>5. /\ t_state = "IDLE" => t_state' = "IDLE"
        /\ t_state # "IDLE" /\ t_state' = "IDLE" => Drained
        /\ Drained => t_state # "IDLE"
        /\ \/ UNCHANGED <<t_state, tx_busy, tx_done>>
           \/ /\ Drained => t_state' = "IDLE"
              /\ tx_busy' = (tx_busy /\ ~ Drained) /\ tx_done' = (tx_done \/ Drained)
    BY <1>1, MachineSteps DEF controlTx, transmit, Drained
  <1>6. tx_busy' \in BOOLEAN /\ tx_done' \in BOOLEAN
    BY <1>1, <1>5 DEF Sending, Flags
  <1>7. Flags'
    BY <1>3, <1>6 DEF Flags
  <1>8. (tx_busy' <=> t_state' # "IDLE") /\ (tx_busy' => tx_busy /\ ~ tx_done')
    BY <1>1, <1>5, <1>6 DEF Calling, Sending, Flags
  <1>9. Calling'
    BY <1>1, <1>8 DEF Calling, ps
  <1> QED
    BY <1>2, <1>3, <1>4, <1>7, <1>9 DEF Sending

\* what leaves the transmit half alone
LEMMA SendingSame ==
  ASSUME Sending, UNCHANGED <<controlTx, sampleTx, fifo, frame>>
  PROVE  Sending'
  <1>1. /\ UNCHANGED <<modem_rst_count, f_state, f_word, f_bits, symbol, sample_index>>
        /\ UNCHANGED <<t_state, pre_idx, t_sym, tx_samples, tx_busy, tx_done, primed>>
        /\ UNCHANGED <<go_toggle, s1, s2, done_sync, frame>>
        /\ UNCHANGED <<go_sync, s_active, tx_select, tx_out, done_toggle, played>>
        /\ UNCHANGED <<mem, wr_bin, rd_bin>>
    BY DEF controlTx, feeder, modemTx, transmit, sampleTx, fifo
  <1>2. Flags' /\ SourceTypes' /\ FeederTypes' /\ Feeding'
    BY <1>1 DEF Sending, Flags, SourceTypes, FeederTypes, Feeding, Filling, Accepted
  <1>3. Pipeline'
    BY <1>1 DEF Sending, Pipeline, Made, One
  <1>4. Queue'
    BY <1>1 DEF Sending, Queue, Fifo!Held, Fifo!Item, Fifo!Depth, Fifo!Lap
  <1>5. Going' /\ Ending'
    BY <1>1 DEF Sending, Going, Ending, Seen, OnTheWay
  <1> QED
    BY <1>2, <1>3, <1>4, <1>5 DEF Sending

\* no burst is on: everything is as the next one wants it
LEMMA Resting ==
  ASSUME Sending, t_state = "IDLE"
  PROVE  /\ f_state = "IDLE" /\ f_word = 0 /\ symbol = <<>> /\ sample_index = 0
         /\ s1 = Silence /\ s2 = Silence /\ Fifo!Held = 0
         /\ ~ s_active /\ Seen(go_sync, go_toggle) /\ Seen(done_sync, done_toggle)
  BY DEF Sending, Feeding, FeederTypes, Pipeline, Queue, Going, Ending

\* RX_ARM between bursts
LEMMA ArmKeepsBurst ==
  ASSUME BurstInv, Arm
  PROVE  Sending' /\ Calling'
  <1>1. /\ pc = "arm" /\ Sending /\ Calling /\ t_state = "IDLE"
        /\ program \in {"loop", "rx"}
    BY DEF BurstInv, Calling, Arm, Sending, Flags
  <1>2. /\ symbol' = <<>> /\ sample_index' = 0 /\ f_state' = "IDLE"
        /\ modem_rst_count' = ResetClocks
        /\ UNCHANGED <<f_word, f_bits, transmit, done_sync, sampleTx, fifo, frame>>
        /\ UNCHANGED <<txbuf, program, f, runs, got>>
        /\ pc' = IF program = "loop" THEN "start" ELSE IF f > Frames THEN "idle" ELSE "poll"
    BY DEF Arm, RxArm, ModemAfterArm, ResetModem
  <1>3. UNCHANGED <<controlTx, sampleTx, fifo, frame>> \/ modem_rst_count' = ResetClocks
    BY <1>2
  <1>4. /\ UNCHANGED <<t_state, pre_idx, t_sym, tx_samples, tx_busy, tx_done, primed>>
        /\ UNCHANGED <<go_toggle, s1, s2, done_sync, frame>>
        /\ UNCHANGED <<go_sync, s_active, done_toggle, played, mem, wr_bin, rd_bin>>
    BY <1>2 DEF transmit, sampleTx, fifo
  <1>5. SourceTypes'
    <2>1. /\ 0 \in 0..SymbolSamples - 1 /\ ResetClocks \in 0..ResetClocks
          /\ <<>> \in Seq(SymbolWord)
      BY BurstSizes
    <2> QED
      BY <1>1, <1>2, <1>4, <2>1 DEF Sending, SourceTypes
  <1>6. Flags' /\ FeederTypes' /\ Feeding'
    BY <1>1, <1>2, <1>4, Resting DEF Sending, Flags, FeederTypes, Feeding
  <1>7. Pipeline' /\ Queue' /\ Going' /\ Ending'
    BY <1>1, <1>4 DEF Sending, Pipeline, Made, One, Queue, Going, Ending, Seen, OnTheWay,
                      Fifo!Held, Fifo!Item, Fifo!Depth, Fifo!Lap
  <1>8. Calling'
    <2>1. f > Frames => f = Frames + 1
      BY <1>1, BurstSizes DEF Calling
    <2>2. f = Frames + 1 => f > Frames /\ program = "rx"
      BY <1>1, BurstSizes DEF Calling
    <2>3. f # 0 /\ ~ tx_busy
      BY <1>1 DEF Calling
    <2> QED
      BY <1>1, <1>2, <1>4, <2>1, <2>2, <2>3 DEF Calling
  <1> QED
    BY <1>5, <1>6, <1>7, <1>8 DEF Sending

\* TX_START between bursts
LEMMA StartKeepsBurst ==
  ASSUME BurstInv, StartTx
  PROVE  Sending' /\ Calling'
  <1>1. /\ pc = "start" /\ Sending /\ Calling /\ t_state = "IDLE" /\ ~ tx_busy
        /\ program \in {"loop", "tx"}
    BY DEF BurstInv, Calling, StartTx, Sending, Flags
  <1>2. /\ f_state = "IDLE" /\ f_word = 0 /\ symbol = <<>> /\ sample_index = 0
        /\ s1 = Silence /\ s2 = Silence /\ Fifo!Held = 0
        /\ ~ s_active /\ Seen(go_sync, go_toggle) /\ Seen(done_sync, done_toggle)
    BY <1>1, Resting
  <1>3. /\ f_state' = "TRAIN" /\ f_word' = 0
        /\ t_state' = "PRE" /\ pre_idx' = 0 /\ t_sym' = 0 /\ tx_samples' = 0
        /\ tx_busy' = TRUE /\ tx_done' = FALSE /\ primed' = FALSE
        /\ frame' = txbuf /\ played' = 0
        /\ UNCHANGED <<go_toggle, s1, s2>>
        /\ UNCHANGED <<modem_rst_count, f_bits, modemTx, done_sync, go_sync, s_active>>
        /\ UNCHANGED <<done_toggle, fifo, txbuf, program, f, runs, got>>
        /\ pc' = IF program = "loop" THEN "wait_rx" ELSE "wait_tx"
    BY <1>1, <1>2 DEF StartTx, TxStart
  <1>4. UNCHANGED <<symbol, sample_index, mem, wr_bin, rd_bin>>
    BY <1>3 DEF modemTx, fifo
  <1>5. Fifo!Held' = 0
    BY <1>2, <1>4 DEF Fifo!Held, Fifo!Lap, Fifo!Depth
  <1>6. SourceTypes' /\ FeederTypes'
    <2>1. 0 \in 0..PreambleSamples /\ 0 \in 0..DataSymbols + 1 /\ 0 \in 0..SymbolWords - 1
      BY BurstSizes, Sizes
    <2> QED
      BY <1>1, <1>3, <1>4, <2>1 DEF Sending, SourceTypes, FeederTypes
  <1>7. Feeding'
    <2>1. /\ Len(symbol') = 0 /\ Accepted' = 0 /\ t_sym' * SymbolWords = 0
          /\ 0 <= SymbolWords /\ 0 < PreambleSamples
      BY <1>2, <1>3, <1>4, BurstSizes, Sizes DEF Accepted
    <2>2. Filling'
      BY <1>3, <2>1 DEF Filling
    <2> QED
      BY <1>2, <1>3, <1>4, <2>1, <2>2 DEF Feeding
  <1>8. Pipeline'
    BY <1>2, <1>3 DEF Pipeline, Made, One
  <1>9. Queue'
    <2>1. 0 \in 0..BurstLength /\ Fifo!Depth' = Fifo!Depth
      BY BurstSizes DEF Fifo!Depth
    <2> QED
      BY <1>1, <1>3, <1>4, <1>5, <2>1 DEF Sending, Queue
  <1>10. Going' /\ Ending'
    <2>1. played' # BurstLength /\ played' < BurstLength
      BY <1>3, BurstSizes
    <2> QED
      BY <1>2, <1>3, <2>1 DEF Going, Ending, Seen
  <1>11. Flags'
    BY <1>1, <1>3 DEF Sending, Flags
  <1>12. Calling'
    <2>1. f # Frames + 1 /\ f # 0
      BY <1>1 DEF Calling
    <2> QED
      BY <1>1, <1>3, <2>1 DEF Calling
  <1> QED
    BY <1>6, <1>7, <1>8, <1>9, <1>10, <1>11, <1>12 DEF Sending

\* a step of zofdm, whose waits outlast a burst
LEMMA ProgramKeepsBurst ==
  ASSUME ~ ShortWaits, BurstInv, Zofdm
  PROVE  Sending' /\ Calling'
  <1>1. Sending /\ Calling /\ Frames \in Nat \ {0}
    BY BurstSizes DEF BurstInv
  <1>2. MayGiveUp => ~ tx_busy
    BY DEF MayGiveUp
  <1>3. ASSUME NEW p \in {"loop", "tx", "rx"}, Run(p) PROVE Sending' /\ Calling'
    <2>1. /\ UNCHANGED <<controlTx, sampleTx, fifo, frame, txbuf>>
          /\ pc = "idle" /\ ~ tx_busy /\ runs < MaxRuns /\ runs' = runs + 1
          /\ program' = p /\ f' = 1 /\ pc' = IF p = "rx" THEN "arm" ELSE "put"
      BY <1>2, <1>3 DEF Run, hardware
    <2>2. UNCHANGED <<tx_busy, tx_done, t_state>>
      BY <2>1 DEF controlTx, transmit
    <2>3. runs' \in 0..MaxRuns /\ f' \in 0..Frames + 1 /\ f' # 0 /\ f' # Frames + 1
      BY <1>1, <2>1, BurstSizes DEF Calling
    <2> QED
      BY <1>1, <2>1, <2>2, <2>3, SendingSame DEF Calling
  <1>4. CASE Stop
    <2>1. /\ UNCHANGED <<controlTx, sampleTx, fifo, frame, txbuf, program, pc, f>>
          /\ runs < MaxRuns /\ runs' = runs + 1
      BY <1>4 DEF Stop
    <2>2. UNCHANGED <<tx_busy, tx_done, t_state>>
      BY <2>1 DEF controlTx, transmit
    <2>3. runs' \in 0..MaxRuns
      BY <1>1, <2>1, BurstSizes DEF Calling
    <2> QED
      BY <1>1, <2>1, <2>2, <2>3, SendingSame DEF Calling
  <1>5. CASE PutFrame
    <2>1. /\ UNCHANGED <<controlTx, sampleTx, fifo, frame, program, f, runs>>
          /\ pc = "put" /\ txbuf' = f
          /\ pc' = IF program = "loop" THEN "arm" ELSE "start"
      BY <1>5 DEF PutFrame
    <2>2. UNCHANGED <<tx_busy, tx_done, t_state>>
      BY <2>1 DEF controlTx, transmit
    <2>3. txbuf' \in 0..Frames /\ ~ tx_busy /\ f # Frames + 1 /\ f # 0
      BY <1>1, <2>1 DEF Calling
    <2> QED
      BY <1>1, <2>1, <2>2, <2>3, SendingSame DEF Calling
  <1>6. CASE Arm
    BY <1>6, ArmKeepsBurst
  <1>7. CASE StartTx
    BY <1>7, StartKeepsBurst
  <1>8. CASE WaitRx \/ WaitTx \/ Poll \/ CheckFrame \/ Checked
    <2>1. UNCHANGED <<controlTx, sampleTx, fifo, frame, txbuf, program, runs>>
      BY <1>8 DEF WaitRx, WaitTx, Poll, CheckFrame, Checked, hardware
    <2>2. UNCHANGED <<tx_busy, tx_done, t_state>>
      BY <2>1 DEF controlTx, transmit
    <2>3. /\ tx_busy => ~ tx_done
          /\ f # 0 /\ f # Frames + 1 /\ f \in 0..Frames + 1
      BY <1>1, <1>8 DEF Calling, WaitRx, WaitTx, Poll, CheckFrame, Checked
    <2>4. \/ f' = f
          \/ f' = f + 1 /\ f < Frames /\ pc' = "put"
          \/ f' = f + 1 /\ pc' = "arm" /\ pc = "check" /\ program # "loop"
      BY <1>1, <1>8, <2>3
      DEF WaitRx, WaitTx, Poll, CheckFrame, Checked, NextFrame
    <2>5. f' \in 0..Frames + 1 /\ f' # 0
          /\ (f' = Frames + 1 => pc' = "arm" /\ program = "rx")
      BY <1>1, <2>3, <2>4 DEF Calling
    <2>6. \/ pc' = "wait_both" /\ program = "loop"
          \/ pc' = "wait_tx" /\ program = "loop"
          \/ pc' = "check" /\ program \in {"loop", "rx"} /\ ~ tx_busy
          \/ pc' = "idle" /\ ~ tx_busy
          \/ pc' = "put" /\ program \in {"loop", "tx"} /\ ~ tx_busy
          \/ pc' = "arm" /\ program = "rx" /\ ~ tx_busy
      BY <1>1, <1>2, <1>8, <2>3
      DEF Calling, WaitRx, WaitTx, Poll, CheckFrame, Checked, NextFrame
    <2>7. Calling'
      BY <1>1, <2>1, <2>2, <2>5, <2>6 DEF Calling
    <2> QED
      BY <1>1, <2>1, <2>7, SendingSame
  <1> QED
    BY <1>3, <1>4, <1>5, <1>6, <1>7, <1>8 DEF Zofdm

\* the transmitter is at rest at the start
LEMMA InitBurst == Init => BurstInv
  <1> SUFFICES ASSUME Init PROVE BurstInv
    OBVIOUS
  <1>1. Fifo!FifoInit /\ Fifo!FifoInv
    BY FifoIs, SameFifo, Fifo!InitInv DEF Init
  <1>2. Fifo!Held = 0
    <2>1. wr_bin = 0 /\ rd_bin = 0
      BY <1>1 DEF Fifo!FifoInit
    <2> QED
      BY <1>1, <2>1, FifoIs, Fifo!HeldIs DEF Fifo!FifoInv
  <1>3. Flags
    <2>1. go_sync = <<FALSE, FALSE, FALSE>> /\ done_sync = <<FALSE, FALSE, FALSE>>
      BY DEF Init
    <2>2. /\ go_sync[1] = FALSE /\ go_sync[2] = FALSE /\ go_sync[3] = FALSE
          /\ done_sync[1] = FALSE /\ done_sync[2] = FALSE /\ done_sync[3] = FALSE
      BY <2>1
    <2>3. ASSUME NEW i \in 1..3
          PROVE  go_sync[i] \in BOOLEAN /\ done_sync[i] \in BOOLEAN
      <3>1. i = 1 \/ i = 2 \/ i = 3
        OBVIOUS
      <3> QED
        BY <2>2, <3>1, Zenon
    <2> QED
      BY <2>2, <2>3 DEF Init, Flags
  <1>4. SourceTypes /\ FeederTypes /\ Feeding
    <2>1. /\ 0 \in 0..ResetClocks /\ 0 \in 0..SymbolSamples - 1 /\ 0 \in 0..PreambleSamples
          /\ 0 \in 0..DataSymbols + 1 /\ 0 \in 0..Frames /\ <<>> \in Seq(SymbolWord)
      BY BurstSizes, Sizes
    <2> QED
      BY <2>1 DEF Init, SourceTypes, FeederTypes, Feeding
  <1>5. Pipeline
    BY DEF Init, Pipeline
  <1>6. Queue
    <2>1. mem = [a \in 0..Fifo!Depth - 1 |-> Silence]
      BY <1>1 DEF Fifo!FifoInit
    <2>2. mem = [a \in 0..Fifo!Depth - 1 |-> mem[a]]
      BY <2>1
    <2> QED
      BY <1>2, <2>2, BurstSizes DEF Init, Queue
  <1>7. Going /\ Ending
    BY DEF Init, Going, Ending, Seen
  <1>8. Calling
    <2>1. 0 \in 0..Frames /\ 0 \in 0..Frames + 1 /\ 0 \in 0..MaxRuns /\ 0 # Frames + 1
      BY BurstSizes
    <2> QED
      BY <2>1 DEF Init, Calling
  <1> QED
    BY <1>1, <1>3, <1>4, <1>5, <1>6, <1>7, <1>8 DEF BurstInv, Sending

\* BurstInv is inductive, if zofdm's waits outlast a burst
LEMMA BurstSteps ==
  ASSUME ~ ShortWaits, BurstInv, [Next]_vars
  PROVE  BurstInv'
  <1>1. Fifo!FifoInv'
    <2>1. CASE Fifo!FifoStep
      BY <2>1, FifoIs, Fifo!StepKeepsInv DEF BurstInv
    <2>2. CASE UNCHANGED fifo
      BY <2>2, Fifo!StutterKeepsInv
      DEF BurstInv, fifo, Fifo!fifoVars, Fifo!writeSide, Fifo!readSide
    <2> QED
      BY <2>1, <2>2, FifoSteps
  <1>2. Sending' /\ Calling'
    <2>1. CASE Zofdm
      BY <2>1, ProgramKeepsBurst
    <2>2. CASE ~ Zofdm
      BY <2>2, ClockSteps, ClocksKeepBurst
    <2> QED
      BY <2>1, <2>2
  <1> QED
    BY <1>1, <1>2 DEF BurstInv

(***************************************************************************)
(* Every variable has its type, however many runs and frames there are:    *)
(* the counters stay within a burst and the modem within a symbol.         *)
(***************************************************************************)
THEOREM RadioTypesKept == ~ ShortWaits => (Spec => []TypeOK)
  <1> SUFFICES ASSUME ~ ShortWaits PROVE Spec => []TypeOK
    OBVIOUS
  <1>1. BurstInv /\ FrameInv => TypeOK
    <2> SUFFICES ASSUME BurstInv, FrameInv PROVE TypeOK
      OBVIOUS
    <2>1. Sending /\ Calling /\ ReceiveTypes
      BY DEF BurstInv, FrameInv
    <2>2. TxFifo!Held \in 0..TxFifo!Depth
      BY FifoIs, SamePorts, Fifo!InvNeverWrong DEF BurstInv
    <2>3. f_word \in (0..DataWords - 1) \cup (0..SymbolWords - 1)
      BY <2>1, Sizes DEF Sending, FeederTypes
    <2>4. Len(symbol) <= SymbolWords
      <3>1. CASE t_state \in {"PRE", "MOD"}
        BY <2>1, <3>1 DEF Sending, Feeding, Filling
      <3>2. CASE t_state \in {"IDLE", "DRAIN"}
        <4>1. symbol = <<>>
          BY <2>1, <3>2 DEF Sending, Feeding
        <4> QED
          BY <4>1, Sizes
      <3> QED
        BY <2>1, <3>1, <3>2 DEF Sending, SourceTypes
    <2> QED
      BY <2>1, <2>2, <2>3, <2>4
      DEF TypeOK, Sending, Calling, ReceiveTypes, SourceTypes, FeederTypes, Queue
  <1>2. BurstInv /\ [Next]_vars => BurstInv'
    BY BurstSteps
  <1> QED
    BY <1>1, <1>2, InitBurst, InitFrame, FrameSteps, PTL DEF Spec

-----------------------------------------------------------------------------
(* The abstract burst.                                                     *)

\* a step of the clocks is one of the abstract burst, or moves none of it
LEMMA ClocksRefine ==
  ASSUME BurstInv, NEW e \in {0, 1}, NEW d \in {0, 1}, Clocked(e, d)
  PROVE  [Burst!BurstNext]_(Burst!burstVars)
  <1>1. /\ Fifo!FifoInv /\ Sending /\ Calling /\ frame \in 0..Frames /\ frame' = frame
    BY DEF BurstInv, Calling, Clocked, ps
  <1>2. played \in 0..BurstLength /\ played' = played + d
    BY <1>1, PlayedSteps, BurstSizes DEF Clocked, Sending, Queue
  <1>3. /\ d = 1 => /\ t_state # "IDLE" /\ played < BurstLength
                    /\ TxFifo!rd_data = BurstSample(frame, played + 1)
        /\ Drained => /\ t_state = "DRAIN" /\ played = BurstLength /\ e = 0 /\ d = 0
    BY <1>1, StepNeeds
  <1>4. \/ tx_out' = tx_out /\ d = 0
        \/ tx_out' = Silence /\ d = 0
        \/ tx_out' = TxFifo!rd_data /\ d = 1
    <2>1. CASE d = 0 /\ UNCHANGED sampleTx
      BY <2>1 DEF sampleTx
    <2>2. ASSUME NEW req \in BOOLEAN, SampleEdge(req), d = One(txf_rd(req))
          PROVE  \/ tx_out' = tx_out /\ d = 0
                 \/ tx_out' = Silence /\ d = 0
                 \/ tx_out' = TxFifo!rd_data /\ d = 1
      <3>1. tx_out' = IF txf_rd(req) THEN TxFifo!rd_data
                      ELSE IF req THEN Silence ELSE tx_out
        BY <2>2, Zenon DEF SampleEdge
      <3> QED
        BY <2>2, <3>1 DEF One
    <2> QED
      BY <2>1, <2>2 DEF Clocked, SampleMoves
  <1>5. \/ tx_busy' = tx_busy /\ tx_done' = tx_done
        \/ Drained /\ tx_busy /\ tx_busy' = FALSE /\ tx_done' = TRUE
    <2>1. CASE UNCHANGED controlTx
      BY <2>1 DEF controlTx, transmit
    <2>2. CASE tx_busy' = (tx_busy /\ ~ Drained) /\ tx_done' = (tx_done \/ Drained)
      BY <1>1, <1>3, <2>2 DEF Sending, Flags, Calling
    <2> QED
      BY <1>1, <2>1, <2>2, MachineSteps
  <1>6. CASE Drained /\ tx_busy /\ tx_busy' = FALSE /\ tx_done' = TRUE
    <2>1. played = BurstLength /\ played' = played /\ (tx_out' = tx_out \/ tx_out' = Silence)
      BY <1>2, <1>3, <1>4, <1>6
    <2>2. Burst!Finish \/ Burst!FinishInGap
      BY <1>1, <1>6, <2>1 DEF Burst!Finish, Burst!FinishInGap
    <2> QED
      BY <2>2 DEF Burst!BurstNext
  <1>7. CASE tx_busy' = tx_busy /\ tx_done' = tx_done
    <2>1. CASE tx_out' = tx_out /\ d = 0
      BY <1>1, <1>2, <1>7, <2>1 DEF Burst!burstVars
    <2>2. CASE tx_out' = Silence /\ d = 0
      <3>1. Burst!Gap
        BY <1>1, <1>2, <1>7, <2>2 DEF Burst!Gap
      <3> QED
        BY <3>1 DEF Burst!BurstNext
    <2>3. CASE tx_out' = TxFifo!rd_data /\ d = 1
      <3>1. Burst!Play
        BY <1>1, <1>2, <1>3, <1>7, <2>3 DEF Burst!Play, Calling
      <3> QED
        BY <3>1 DEF Burst!BurstNext
    <2> QED
      BY <1>4, <2>1, <2>2, <2>3
  <1> QED
    BY <1>5, <1>6, <1>7

\* so is a step of zofdm: TX_START starts the burst of the frame in the TX buffer
LEMMA ProgramRefines ==
  ASSUME BurstInv, Zofdm
  PROVE  [Burst!BurstNext]_(Burst!burstVars)
  <1>1. CASE StartTx
    <2>1. ~ tx_busy /\ txbuf \in 0..Frames
      BY <1>1 DEF BurstInv, Calling, StartTx
    <2>2. /\ tx_busy' = TRUE /\ tx_done' = FALSE /\ frame' = txbuf /\ played' = 0
          /\ tx_out' = tx_out
      BY <1>1, <2>1 DEF StartTx, TxStart
    <2>3. Burst!Start(txbuf)
      BY <2>1, <2>2 DEF Burst!Start
    <2> QED
      BY <2>1, <2>3 DEF Burst!BurstNext
  <1>2. CASE ~ StartTx
    <2>1. UNCHANGED <<transmit, sampleTx, frame>>
      BY <1>2 DEF Zofdm, Run, Stop, PutFrame, Arm, RxArm, WaitRx, WaitTx, Poll, CheckFrame,
                  Checked, hardware, controlTx
    <2> QED
      BY <2>1 DEF transmit, sampleTx, Burst!burstVars
  <1> QED
    BY <1>1, <1>2

(***************************************************************************)
(* The core implements the abstract burst: whatever the two clocks, the    *)
(* requests of the DAC and the receiver do, a TX_START puts the frame of   *)
(* the TX buffer on the air whole, in order and once, with silence where   *)
(* no sample is ready, and TX done comes after its last sample.            *)
(***************************************************************************)
THEOREM BurstOnAir == ~ ShortWaits => (Spec => BurstKept)
  <1> SUFFICES ASSUME ~ ShortWaits PROVE Spec => BurstKept
    OBVIOUS
  <1>1. Init => Burst!BurstInit
    BY DEF Init, Burst!BurstInit
  <1>2. ASSUME BurstInv, [Next]_vars PROVE [Burst!BurstNext]_(Burst!burstVars)
    <2>1. CASE Zofdm
      BY <1>2, <2>1, ProgramRefines
    <2>2. CASE ~ Zofdm
      BY <1>2, <2>2, ClockSteps, ClocksRefine
    <2> QED
      BY <2>1, <2>2
  <1>3. BurstInv /\ [Next]_vars => [Burst!BurstNext]_(Burst!burstVars)
    BY <1>2
  <1>4. BurstInv /\ [Next]_vars => BurstInv'
    BY BurstSteps
  <1> QED
    BY <1>1, <1>3, <1>4, InitBurst, PTL DEF Spec, BurstKept, Burst!BurstSpec

(***************************************************************************)
(* As long as zofdm's waits outlast a burst, no TX_START meets one: that   *)
(* the feeder takes a start the transmit machine ignores is seen by none   *)
(* of its programs before a wait for TX done has run out.                  *)
(***************************************************************************)
THEOREM NoStartInBurst == ~ ShortWaits => (Spec => BusyStartIgnored)
  <1> SUFFICES ASSUME ~ ShortWaits PROVE Spec => BusyStartIgnored
    OBVIOUS
  <1>1. BurstInv /\ [Next]_vars => BurstInv'
    BY BurstSteps
  <1>2. ASSUME BurstInv, [Next]_vars, tx_busy /\ f_state = "IDLE"
        PROVE  f_state' = "IDLE"
    <2>1. CASE StartTx
      <3>1. pc \in {"wait_rx", "wait_tx", "wait_both"}
        BY <1>2 DEF BurstInv, Calling
      <3> QED
        BY <2>1, <3>1 DEF StartTx
    <2>2. CASE Arm
      BY <2>2 DEF Arm, RxArm
    <2>3. CASE Zofdm /\ ~ StartTx /\ ~ Arm
      <3>1. UNCHANGED controlTx
        BY <2>3 DEF Zofdm, Run, Stop, PutFrame, WaitRx, WaitTx, Poll, CheckFrame,
                    Checked, hardware
      <3> QED
        BY <1>2, <3>1 DEF controlTx, feeder
    <2>4. CASE ~ Zofdm
      <3>1. PICK e \in {0, 1}, d \in {0, 1} : Clocked(e, d)
        BY <1>2, <2>4, ClockSteps
      <3>2. CASE UNCHANGED controlTx
        BY <1>2, <3>2 DEF controlTx, feeder
      <3>3. ASSUME NEW ready \in IfftReady, ControlEdge(ready)
            PROVE  f_state' = "IDLE"
        <4>1. Feeder
          BY <3>3 DEF ControlEdge
        <4> QED
          BY <1>2, <4>1 DEF Feeder, mt_valid
      <3> QED
        BY <3>1, <3>2, <3>3 DEF Clocked, ControlMoves
    <2> QED
      BY <2>1, <2>2, <2>3, <2>4
  <1>3. BurstInv /\ [Next]_vars
          => [tx_busy /\ f_state = "IDLE" => f_state' = "IDLE"]_vars
    BY <1>2
  <1> QED
    BY <1>1, <1>3, InitBurst, PTL DEF Spec, BusyStartIgnored
=============================================================================
