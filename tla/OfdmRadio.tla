----------------------------- MODULE OfdmRadio -----------------------------
(***************************************************************************)
(* The OFDM radio core, ofdm_radio_core.v, driven by zofdm.c.  The control *)
(* clock runs the bit feeder, the modem, the transmit machine and the      *)
(* write side of the TX FIFO; the sample clock takes samples out of it at  *)
(* the requests of the DAC.  The receive half shares RX_ARM and the        *)
(* modem's reset with the transmit half, and its steps are taken apart.    *)
(*                                                                         *)
(* A register write falls into one control clock and is a step of its own: *)
(* where it meets a move of the core in that clock, the outcome is that of *)
(* one of the two orders.                                                  *)
(*                                                                         *)
(* Data: the bit groups of a 32-bit word are one transfer; a symbol is the *)
(* sequence of its words and SymbolSamples samples that name them; what    *)
(* the frame search finds on the air is numbered.                          *)
(***************************************************************************)
EXTENDS Integers, Sequences

CONSTANTS
  AW,               \* log2 of the TX FIFO's depth (8)
  PreambleSamples,  \* 80
  SymbolSamples,    \* 80
  SymbolWords,      \* words of a symbol (3)
  DataSymbols,      \* DATA_SYMBOLS
  MaxSymbols,       \* MAX_SYMBOLS
  Prime,            \* PRIME, samples queued before the burst starts
  ResetClocks,      \* clocks RX_ARM holds the modem in reset (8)
  Frames,           \* --frames of a program run
  MaxRuns,          \* bound: program runs
  MaxFound,         \* bound: frames found on the air
  ShortWaits,       \* TRUE: the DAC may stall for longer than zofdm waits
  Silence           \* the all-zero sample word

ASSUME RadioAssumption ==
  /\ AW \in Nat /\ AW >= 2
  /\ {PreambleSamples, SymbolSamples, SymbolWords, DataSymbols, Prime,
      ResetClocks, Frames} \subseteq Nat \ {0}
  /\ MaxSymbols \in Nat /\ DataSymbols <= MaxSymbols
  /\ MaxRuns \in Nat /\ MaxFound \in Nat
  /\ ShortWaits \in BOOLEAN

VARIABLES
  \* control clock, transmit
  txbuf,                         \* the frame in the TX buffer
  modem_rst_count,
  f_state, f_word, f_bits,       \* bit feeder; f_word counts f_k's words too
  symbol, sample_index,          \* modem: words accepted, samples given
  t_state, pre_idx, t_sym, tx_samples, tx_busy, tx_done, primed, go_toggle,
  s1, s2,                        \* gain pipeline
  done_sync,
  \* sample clock, transmit
  go_sync, s_active, tx_select, tx_out, done_toggle,
  \* TX FIFO
  mem, wr_bin, rd_gray_w1, rd_gray_w2, rd_bin, wr_gray_r1, wr_gray_r2,
  \* receive
  rx_armed, rx_found, rx_fed, fed_syms,
  search,                        \* the frame the search is giving out
  chain, trained,                \* the modem's receiver
  writing, w_k, rx_syms, rxbuf,
  \* zofdm
  program, pc, f, runs, got,
  \* history
  frame, played,                 \* the burst being sent, samples of it played
  found, found_at_arm            \* frames found, and when RX_ARM was written

feeder   == <<f_state, f_word, f_bits>>
modemTx  == <<symbol, sample_index>>
transmit == <<t_state, pre_idx, t_sym, tx_samples, tx_busy, tx_done, primed,
              go_toggle, s1, s2>>
controlTx == <<modem_rst_count, feeder, modemTx, transmit, done_sync>>
sampleTx  == <<go_sync, s_active, tx_select, tx_out, done_toggle, played>>
fifo      == <<mem, wr_bin, rd_gray_w1, rd_gray_w2, rd_bin, wr_gray_r1, wr_gray_r2>>
receive   == <<rx_armed, rx_found, rx_fed, fed_syms, search, chain, trained,
               writing, w_k, rx_syms, rxbuf, found>>
ps        == <<txbuf, program, pc, f, runs, got, frame, found_at_arm>>
vars == <<controlTx, sampleTx, fifo, receive, ps>>

\* 2^i, and those the FIFO's pointers need
PowerOfTwo[n \in Nat] == IF n = 0 THEN 1 ELSE 2 * PowerOfTwo[n - 1]
Powers == [i \in 0..AW + 1 |-> PowerOfTwo[i]]

TxFifo == INSTANCE AsyncFifo WITH Pow2 <- Powers, Words <- {}, NoWord <- Silence

-----------------------------------------------------------------------------
(* Words, samples and frames.                                              *)

Word(part, n, k) == [part |-> part, frame |-> n, word |-> k]

\* the words of symbol s of frame n; symbol 0 is the training symbol
SymbolOf(n, s) ==
  [k \in 1..SymbolWords |->
     IF s = 0 THEN Word("train", 0, k - 1)
              ELSE Word("data", n, (s - 1) * SymbolWords + k - 1)]

Preamble == <<Word("preamble", 0, 0)>>

\* a word of the FIFO: a sample of these words, and whether it ends the burst
SampleWord(of, i, last) == [of |-> of, i |-> i, last |-> last]

BurstLength == PreambleSamples + (DataSymbols + 1) * SymbolSamples

\* sample k of the burst of frame n: preamble, training symbol, data symbols
BurstSample(n, k) ==
  LET p == k - 1 - PreambleSamples
  IN  IF p < 0 THEN SampleWord(Preamble, k - 1, FALSE)
      ELSE SampleWord(SymbolOf(n, p \div SymbolSamples), p % SymbolSamples,
                      k = BurstLength)

\* a sample is told from silence by a valid bit of its own, whatever its value
ASSUME SilenceAssumption ==
  \A n \in 0..Frames, k \in 1..BurstLength : BurstSample(n, k) # Silence

DataWords == DataSymbols * SymbolWords

-----------------------------------------------------------------------------
(* Transmit, control clock.                                                *)

mt_valid == f_state \in {"TRAIN", "SEND"}
mt_ready == modem_rst_count = 0 /\ Len(symbol) < SymbolWords
mt_data  == IF f_state = "TRAIN" THEN Word("train", 0, f_word)
                                 ELSE Word("data", f_bits, f_word)

Feeder ==
  /\ f_bits' = IF f_state = "FETCH" THEN txbuf ELSE f_bits
  /\ \/ f_state = "FETCH" /\ f_state' = "SEND" /\ f_word' = f_word
     \/ /\ f_state = "TRAIN" /\ mt_ready
        /\ IF f_word + 1 = SymbolWords
           THEN f_state' = "FETCH" /\ f_word' = 0
           ELSE f_state' = "TRAIN" /\ f_word' = f_word + 1
     \/ /\ f_state = "SEND" /\ mt_ready
        /\ IF f_word + 1 = DataWords
           THEN f_state' = "IDLE" /\ f_word' = 0
           ELSE f_state' = "FETCH" /\ f_word' = f_word + 1
     \/ /\ f_state = "IDLE" \/ (mt_valid /\ ~ mt_ready)
        /\ UNCHANGED <<f_state, f_word>>

\* the pipeline moves unless its last word waits for a full FIFO
adv == s2 = Silence \/ ~ TxFifo!wr_full
txf_wr == s2 # Silence /\ ~ TxFifo!wr_full

\* whether the IFFT is through matters only when it has a symbol
IfftReady == {TRUE} \cup {Len(symbol) < SymbolWords}

\* the modem has a sample to give, if the IFFT is through
mo_valid(ready) == ready /\ modem_rst_count = 0 /\ Len(symbol) = SymbolWords
mo_last == sample_index + 1 = SymbolSamples
Takes(ready) == t_state = "MOD" /\ adv /\ mo_valid(ready)

\* no bit of the next symbol is accepted before the last sample is taken
Modem(ready) ==
  LET ends == Takes(ready) /\ mo_last
  IN  /\ symbol' = IF ends THEN <<>>
                   ELSE IF mt_valid /\ mt_ready THEN Append(symbol, mt_data)
                   ELSE symbol
      /\ sample_index' = IF ends THEN 0
                         ELSE IF Takes(ready) THEN sample_index + 1
                         ELSE sample_index

LastSymbol == t_sym = DataSymbols

Source(ready) ==
  IF t_state = "PRE" THEN SampleWord(Preamble, pre_idx, FALSE)
  ELSE IF t_state = "MOD" /\ mo_valid(ready)
  THEN SampleWord(symbol, sample_index, mo_last /\ LastSymbol)
  ELSE Silence

Gain(ready) ==
  IF adv THEN s1' = Source(ready) /\ s2' = s1 ELSE UNCHANGED <<s1, s2>>

Primes == txf_wr /\ ~ primed /\ (tx_samples + 1 >= Prime \/ s2.last)

\* variant: done with the last sample queued, not played
DrainedWhenQueued == t_state = "DRAIN" /\ s1 = Silence /\ s2 = Silence

Drained == t_state = "DRAIN" /\ done_sync[3] # done_sync[2]

\* variant: raised, never toggled back
GoRaised == go_toggle \/ Primes

GoToggled == go_toggle # Primes

Transmit(ready) ==
  /\ tx_samples' = IF txf_wr THEN tx_samples + 1 ELSE tx_samples
  /\ primed' = (primed \/ Primes)
  /\ go_toggle' = GoToggled
  /\ pre_idx' = IF t_state = "PRE" /\ adv THEN pre_idx + 1 ELSE pre_idx
  /\ t_sym' = IF Takes(ready) /\ mo_last THEN t_sym + 1 ELSE t_sym
  /\ t_state' = CASE t_state = "PRE" /\ adv /\ pre_idx + 1 = PreambleSamples -> "MOD"
                  [] Takes(ready) /\ mo_last /\ LastSymbol -> "DRAIN"
                  [] Drained -> "IDLE"
                  [] OTHER -> t_state
  /\ tx_busy' = (tx_busy /\ ~ Drained)
  /\ tx_done' = (tx_done \/ Drained)

\* one edge of the control clock
ControlEdge(ready) ==
  /\ Feeder /\ Modem(ready) /\ Gain(ready) /\ Transmit(ready)
  /\ done_sync' = <<done_toggle, done_sync[1], done_sync[2]>>
  /\ modem_rst_count' = IF modem_rst_count > 0 THEN modem_rst_count - 1 ELSE 0

-----------------------------------------------------------------------------
(* Transmit, sample clock: one word for every request of the DAC.          *)

txf_rd(req) == req /\ s_active /\ ~ TxFifo!rd_empty

SampleEdge(req) ==
  LET plays == txf_rd(req)
      ends  == plays /\ TxFifo!rd_data.last
  IN  /\ go_sync' = <<go_toggle, go_sync[1], go_sync[2]>>
      /\ s_active' = ((s_active \/ go_sync[3] # go_sync[2]) /\ ~ ends)
      /\ tx_select' = IF req THEN s_active ELSE tx_select
      /\ tx_out' = IF plays THEN TxFifo!rd_data ELSE IF req THEN Silence ELSE tx_out
      /\ done_toggle' = (done_toggle # ends)
      /\ played' = IF plays THEN played + 1 ELSE played

ControlClock(ready) ==
  /\ ControlEdge(ready)
  /\ TxFifo!WriteClock(s2 # Silence, s2)
  /\ UNCHANGED <<sampleTx, receive, ps>>

SampleClock(req) ==
  /\ SampleEdge(req)
  /\ TxFifo!ReadClock(req /\ s_active)
  /\ UNCHANGED <<controlTx, receive, ps>>

\* edges that coincide without a word moving are as good as one after the other
BothClocks(ready, req) ==
  /\ txf_wr \/ txf_rd(req)
  /\ ControlEdge(ready) /\ SampleEdge(req)
  /\ TxFifo!BothClocks(s2 # Silence, s2, req /\ s_active)
  /\ UNCHANGED <<receive, ps>>

-----------------------------------------------------------------------------
(* Receive: the frame search gives out a frame symbol by symbol, the modem *)
(* trains on the first symbol after its reset and decides the others, the  *)
(* writer puts a decided symbol's words into the RX buffer.                *)

Nothing == [frame |-> 0, sym |-> 0]

\* variant: one symbol short, the training symbol forgotten
EnoughWithoutTraining == fed_syms + 1 = DataSymbols

Enough == fed_syms + 1 = DataSymbols + 1

forward == rx_armed /\ ~ rx_fed

FrameFound ==
  /\ search = Nothing /\ found < MaxFound
  /\ found' = found + 1
  /\ search' = [frame |-> found + 1, sym |-> 0]
  /\ UNCHANGED <<rx_armed, rx_found, rx_fed, fed_syms, chain, trained, writing,
                 w_k, rx_syms, rxbuf>>

SymbolOut ==
  /\ search # Nothing
  /\ search' = IF search.sym = DataSymbols THEN Nothing
               ELSE [search EXCEPT !.sym = @ + 1]
  /\ IF forward
     THEN /\ modem_rst_count = 0 /\ chain = Nothing
          /\ chain' = search
          /\ fed_syms' = fed_syms + 1
          /\ rx_fed' = Enough
          /\ rx_found' = (rx_found \/ search.sym = 0)
     ELSE UNCHANGED <<chain, fed_syms, rx_fed, rx_found>>
  /\ UNCHANGED <<rx_armed, trained, writing, w_k, rx_syms, rxbuf, found>>

Decide ==
  /\ chain # Nothing
  /\ IF ~ trained
     THEN trained' = TRUE /\ UNCHANGED <<writing, w_k>>
     ELSE /\ writing = Nothing
          /\ writing' = chain /\ w_k' = 0
          /\ UNCHANGED trained
  /\ chain' = Nothing
  /\ UNCHANGED <<rx_armed, rx_found, rx_fed, fed_syms, search, rx_syms, rxbuf, found>>

WriteWord ==
  /\ writing # Nothing
  /\ rxbuf' = IF rx_syms < MaxSymbols
              THEN [rxbuf EXCEPT ![rx_syms * SymbolWords + w_k] =
                      [frame |-> writing.frame, sym |-> writing.sym, word |-> w_k]]
              ELSE rxbuf
  /\ IF w_k + 1 = SymbolWords
     THEN writing' = Nothing /\ w_k' = 0 /\ rx_syms' = rx_syms + 1
     ELSE w_k' = w_k + 1 /\ UNCHANGED <<writing, rx_syms>>
  /\ UNCHANGED <<rx_armed, rx_found, rx_fed, fed_syms, search, chain, trained, found>>

Receive ==
  /\ FrameFound \/ SymbolOut \/ Decide \/ WriteWord
  /\ UNCHANGED <<controlTx, sampleTx, fifo, ps>>

RxDone == rx_syms >= DataSymbols /\ rx_armed

-----------------------------------------------------------------------------
(* Register writes.                                                        *)

ResetModem == /\ symbol' = <<>> /\ sample_index' = 0
              /\ chain' = Nothing /\ trained' = FALSE
              /\ modem_rst_count' = ResetClocks

\* variant: the modem keeps what it has
KeepModem == UNCHANGED <<symbol, sample_index, chain, trained, modem_rst_count>>

\* the modem, its estimate of the channel with it, starts afresh
ModemAfterArm == ResetModem

RxArm ==
  /\ ModemAfterArm
  /\ f_state' = "IDLE"
  /\ rx_armed' = TRUE /\ rx_found' = FALSE
  /\ rx_fed' = FALSE /\ fed_syms' = 0 /\ rx_syms' = 0
  /\ search' = Nothing /\ writing' = Nothing /\ w_k' = 0
  /\ found_at_arm' = found
  /\ UNCHANGED <<f_word, f_bits, transmit, done_sync, sampleTx, fifo, rxbuf, found,
                 frame>>

\* the feeder looks at its own state, the transmit machine at TX busy
TxStart ==
  /\ IF f_state = "IDLE" THEN f_state' = "TRAIN" /\ f_word' = 0
                         ELSE UNCHANGED <<f_state, f_word>>
  /\ IF tx_busy
     THEN UNCHANGED <<transmit, frame, played>>
     ELSE /\ t_state' = "PRE" /\ pre_idx' = 0 /\ t_sym' = 0 /\ tx_samples' = 0
          /\ tx_busy' = TRUE /\ tx_done' = FALSE /\ primed' = FALSE
          /\ frame' = txbuf /\ played' = 0
          /\ UNCHANGED <<go_toggle, s1, s2>>
  /\ UNCHANGED <<modem_rst_count, f_bits, modemTx, done_sync, go_sync, s_active,
                 tx_select, tx_out, done_toggle, fifo, receive, found_at_arm>>

RxStop == rx_armed' = FALSE

-----------------------------------------------------------------------------
(* zofdm: loop sends frames to itself, tx sends, rx receives, stop stops.  *)

\* wait_status gives up only when no burst is on: 0.5 s, a burst takes 14 ms
MayGiveUp == ShortWaits \/ ~ tx_busy

hardware == <<controlTx, sampleTx, fifo, receive, txbuf, frame, found_at_arm>>

Run(p) ==
  /\ pc = "idle" /\ runs < MaxRuns /\ MayGiveUp
  /\ runs' = runs + 1
  /\ program' = p /\ f' = 1 /\ got' = <<>>
  /\ pc' = IF p = "rx" THEN "arm" ELSE "put"
  /\ UNCHANGED hardware

Stop ==
  /\ pc = "idle" /\ runs < MaxRuns
  /\ runs' = runs + 1
  /\ RxStop
  /\ UNCHANGED <<controlTx, sampleTx, fifo, rx_found, rx_fed, fed_syms, search, chain,
                 trained, writing, w_k, rx_syms, rxbuf, found, txbuf, program, pc,
                 f, got, frame, found_at_arm>>

PutFrame ==
  /\ pc = "put"
  /\ txbuf' = f
  /\ pc' = IF program = "loop" THEN "arm" ELSE "start"
  /\ UNCHANGED <<controlTx, sampleTx, fifo, receive, program, f, runs, got, frame,
                 found_at_arm>>

Arm ==
  /\ pc = "arm"
  /\ RxArm
  /\ pc' = IF program = "loop" THEN "start"
           ELSE IF f > Frames THEN "idle" ELSE "poll"
  /\ UNCHANGED <<txbuf, program, f, runs, got>>

StartTx ==
  /\ pc = "start"
  /\ TxStart
  /\ pc' = IF program = "loop" THEN "wait_rx" ELSE "wait_tx"
  /\ UNCHANGED <<txbuf, program, f, runs, got>>

\* loop: wait_status(ST_RX_DONE), and whether it saw it
WaitRx ==
  /\ pc = "wait_rx"
  /\ \/ RxDone /\ pc' = "wait_both"
     \/ ~ RxDone /\ MayGiveUp /\ pc' = "wait_tx"
  /\ UNCHANGED <<hardware, program, f, runs, got>>

NextFrame ==
  /\ got' = <<>>
  /\ IF f = Frames THEN pc' = "idle" /\ f' = f ELSE pc' = "put" /\ f' = f + 1

WaitTx ==
  /\ pc \in {"wait_tx", "wait_both"}
  /\ tx_done \/ MayGiveUp
  /\ IF pc = "wait_both" THEN pc' = "check" /\ UNCHANGED <<f, got>> ELSE NextFrame
  /\ UNCHANGED <<hardware, program, runs>>

\* rx: poll STATUS until RX_DONE or --timeout
Poll ==
  /\ pc = "poll"
  /\ \/ RxDone /\ pc' = "check"
     \/ ~ RxDone /\ pc' = "idle"
  /\ UNCHANGED <<hardware, program, f, runs, got>>

\* check_frame reads one word of the RX buffer
CheckFrame ==
  /\ pc = "check" /\ Len(got) < DataWords
  /\ got' = Append(got, rxbuf[Len(got)])
  /\ UNCHANGED <<hardware, program, pc, f, runs>>

Checked ==
  /\ pc = "check" /\ Len(got) = DataWords
  /\ IF program = "loop" THEN NextFrame
     ELSE pc' = "arm" /\ f' = f + 1 /\ got' = <<>>
  /\ UNCHANGED <<hardware, program, runs>>

Zofdm ==
  \/ \E p \in {"loop", "tx", "rx"} : Run(p)
  \/ Stop \/ PutFrame \/ Arm \/ StartTx \/ WaitRx \/ WaitTx
  \/ Poll \/ CheckFrame \/ Checked

-----------------------------------------------------------------------------
Init ==
  /\ txbuf = 0 /\ modem_rst_count = 0
  /\ f_state = "IDLE" /\ f_word = 0 /\ f_bits = 0
  /\ symbol = <<>> /\ sample_index = 0
  /\ t_state = "IDLE" /\ pre_idx = 0 /\ t_sym = 0 /\ tx_samples = 0
  /\ tx_busy = FALSE /\ tx_done = FALSE /\ primed = FALSE /\ go_toggle = FALSE
  /\ s1 = Silence /\ s2 = Silence
  /\ done_sync = <<FALSE, FALSE, FALSE>> /\ go_sync = <<FALSE, FALSE, FALSE>>
  /\ s_active = FALSE /\ tx_select = FALSE /\ tx_out = Silence
  /\ done_toggle = FALSE
  /\ TxFifo!FifoInit
  /\ rx_armed = FALSE /\ rx_found = FALSE /\ rx_fed = FALSE /\ fed_syms = 0
  /\ search = Nothing /\ chain = Nothing /\ trained = FALSE
  /\ writing = Nothing /\ w_k = 0 /\ rx_syms = 0
  /\ rxbuf = [a \in 0..MaxSymbols * SymbolWords - 1 |->
                [frame |-> 0, sym |-> 0, word |-> 0]]
  /\ program = "none" /\ pc = "idle" /\ f = 0 /\ runs = 0 /\ got = <<>>
  /\ frame = 0 /\ played = 0 /\ found = 0 /\ found_at_arm = 0

Next ==
  \/ Zofdm
  \/ Receive
  \/ \E ready \in IfftReady : ControlClock(ready)
  \/ \E req \in BOOLEAN : SampleClock(req)
  \/ \E ready \in IfftReady, req \in BOOLEAN : BothClocks(ready, req)

Spec == Init /\ [][Next]_vars

(***************************************************************************)
(* Both clocks run, the IFFT comes through, the DAC keeps asking, and what *)
(* the receiver has taken in it works off.                                 *)
(***************************************************************************)
FairSpec == /\ Spec
            /\ WF_vars(ControlClock(TRUE))
            /\ WF_vars(SampleClock(TRUE))
            /\ WF_vars(Receive)
-----------------------------------------------------------------------------
(* Properties.                                                             *)

ReceivedWord == [frame : Nat, sym : Nat, word : Nat]

TypeOK ==
  /\ txbuf \in 0..Frames /\ modem_rst_count \in 0..ResetClocks
  /\ f_state \in {"IDLE", "TRAIN", "FETCH", "SEND"}
  /\ f_word \in 0..DataWords - 1 \cup 0..SymbolWords - 1
  /\ f_bits \in 0..Frames
  /\ Len(symbol) <= SymbolWords /\ sample_index \in 0..SymbolSamples - 1
  /\ t_state \in {"IDLE", "PRE", "MOD", "DRAIN"}
  /\ tx_busy <=> t_state # "IDLE"
  /\ pre_idx \in 0..PreambleSamples /\ t_sym \in 0..DataSymbols + 1
  /\ tx_samples \in 0..BurstLength /\ played \in 0..BurstLength
  /\ TxFifo!Held \in 0..TxFifo!Depth
  /\ fed_syms \in 0..DataSymbols + 1 /\ rx_syms \in 0..DataSymbols
  /\ w_k \in 0..SymbolWords - 1
  /\ rxbuf \in [0..MaxSymbols * SymbolWords - 1 -> ReceivedWord]
  /\ f \in 0..Frames + 1 /\ runs \in 0..MaxRuns

(***************************************************************************)
(* Full and empty of the TX FIFO are never wrong, whatever the two clocks  *)
(* catch of each other's pointers.                                         *)
(***************************************************************************)
FifoNeverWrong == TxFifo!NeverWrong

(***************************************************************************)
(* A TX_START puts the frame of the TX buffer on the air as OfdmBurst      *)
(* says: "preamble + the modem's training symbol + DATA_SYMBOLS data       *)
(* symbols", none of it lost, repeated or mixed with another frame, and    *)
(* TX done only when the last sample is out.                               *)
(***************************************************************************)
Burst == INSTANCE OfdmBurst
           WITH Numbers <- 0..Frames, Length <- BurstLength, Sample <- BurstSample,
                busy <- tx_busy, done <- tx_done, out <- tx_out

BurstKept == Burst!BurstSpec

(***************************************************************************)
(* Every burst ends, FIFO, toggles and modem reset permitting.             *)
(***************************************************************************)
TxEnds == tx_busy ~> tx_done

(***************************************************************************)
(* What check_frame reads is the data of one frame, whole and in order,    *)
(* and of one found since RX_ARM was last written.                         *)
(***************************************************************************)
ReadsWhole ==
  Len(got) = DataWords =>
    /\ got[1].frame > found_at_arm
    /\ \A k \in 1..DataWords :
         got[k] = [frame |-> got[1].frame, sym |-> (k - 1) \div SymbolWords + 1,
                   word |-> (k - 1) % SymbolWords]

(***************************************************************************)
(* A frame found is decided to its last symbol, unless the receiver is     *)
(* stopped or armed again.                                                 *)
(***************************************************************************)
RxCompletes == rx_found ~> (RxDone \/ ~ rx_found \/ ~ rx_armed)

(***************************************************************************)
(* "TX_START (ignored while TX is busy)": a start that finds a burst in    *)
(* progress starts nothing.                                                *)
(***************************************************************************)
BusyStartIgnored == [][tx_busy /\ f_state = "IDLE" => f_state' = "IDLE"]_vars
=============================================================================
