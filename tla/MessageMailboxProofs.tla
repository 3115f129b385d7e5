----------------------- MODULE MessageMailboxProofs -----------------------
(***************************************************************************)
(* Proofs about the message mailbox, for both modes and every choice of    *)
(* register contents, payload limits and modem answers.                    *)
(***************************************************************************)
EXTENDS MessageMailbox, TLAPS

(***************************************************************************)
(* Every register keeps its range; in particular RX_LENGTH never points    *)
(* beyond the data window, and what is handed to the modem is a packet it  *)
(* can carry.                                                              *)
(***************************************************************************)
LEMMA InitTyped == Init => TypeOK
  <1> SUFFICES ASSUME Init PROVE TypeOK
    OBVIOUS
  <1>1. /\ 0 \in 0..SeqModulus - 1 /\ 0 \in 0..MaxPayload /\ 0 \in 0..EchoMax
        /\ Blank \in Payloads
    BY MailboxAssumption DEF MailboxAssumption
  <1>2. modem_rx_bits \in FrameType
    BY <1>1 DEF Init, InitPort, BlankFrame, FrameType
  <1>3. modem_rx_sync \in [1..3 -> BOOLEAN]
    BY DEF Init, InitMailbox
  <1> QED
    BY <1>1, <1>2, <1>3 DEF Init, InitMailbox, InitPort, TypeOK, Packet, Metas, Timers

\* what a snapshot may hold
LEMMA SnapshotTyped ==
  ASSUME TypeOK
  PROVE  Snapshot \in [seq : Nat, len : 0..EchoMax, meta : Metas, data : Payloads]
  <1> DEFINE RxType == [seq : Nat, len : 0..EchoMax, meta : Metas, data : Payloads]
  <1>1. /\ Blank \in Payloads /\ EchoMax \in Nat /\ MaxPayload \in Nat
        /\ MaxPayload <= EchoMax
    BY MailboxAssumption DEF MailboxAssumption
  <1>2. EchoSnapshot \in RxType
    BY <1>1 DEF EchoSnapshot, TypeOK, Metas
  <1>3. NoFrameSnapshot \in RxType
    BY <1>1 DEF NoFrameSnapshot, Metas
  <1>4. FrameSnapshot(modem_rx_bits) \in RxType
    <2>1. /\ modem_rx_bits.seq \in Nat /\ modem_rx_bits.len \in Nat
          /\ modem_rx_bits.data \in Payloads /\ modem_rx_bits.crc \in BOOLEAN
      BY DEF TypeOK, FrameType
    <2> QED
      BY <1>1, <2>1 DEF FrameSnapshot, Clip, Metas
  <1> QED
    BY <1>2, <1>3, <1>4 DEF Snapshot

\* the packet built from the TX registers fits the modem when it is sent
LEMMA PacketTyped ==
  ASSUME TypeOK, tx_length <= MaxPayload
  PROVE  TxPacket \in Packet
  <1>1. /\ Blank \in Payloads /\ MaxPayload \in Nat
        /\ SeqModulus \in Nat /\ SeqModulus > 0
    BY MailboxAssumption DEF MailboxAssumption
  <1>2. tx_sequence % SeqModulus \in 0..SeqModulus - 1
    BY <1>1 DEF TypeOK
  <1>3. Clip(tx_length, tx_data) \in Payloads
    BY <1>1 DEF Clip, TypeOK
  <1> QED
    BY <1>1, <1>2, <1>3 DEF TxPacket, Packet, TypeOK

\* an AXI clock keeps every register of the mailbox in its range
LEMMA ClockTyped ==
  ASSUME TypeOK, NEW w \in Writes, NEW expires \in BOOLEAN,
         Clock(w, expires), UNCHANGED modemPort
  PROVE  TypeOK'
  <1> USE DEF Clock
  <1>1. tx_sequence' \in Nat /\ tx_length' \in Nat /\ tx_data' \in Payloads
    <2>1. /\ w.reg = "TX_SEQUENCE" => w.value \in Nat
          /\ w.reg = "TX_LENGTH" => w.value \in Nat
          /\ w.reg = "TX_DATA" => w.value \in Payloads
      BY MailboxAssumption
      DEF Writes, MailboxAssumption, NoWrite, Control, Sequence, Length, Data
    <2> QED
      BY <2>1 DEF TxRegisters, TypeOK
  <1>2. rx' \in [seq : Nat, len : 0..EchoMax, meta : Metas, data : Payloads]
    BY SnapshotTyped DEF RxRegisters, TypeOK
  <1>3. rx_valid' \in BOOLEAN /\ rx_overflow' \in BOOLEAN
    BY DEF RxRegisters
  <1>4. /\ tx_busy' \in BOOLEAN /\ tx_done' \in BOOLEAN
        /\ echo_pending' \in BOOLEAN /\ modem_wait' \in BOOLEAN
        /\ modem_tx_toggle' \in BOOLEAN
    BY DEF Transmission
  <1>5. modem_timer' \in Timers
    BY DEF Transmission, TypeOK, Timers
  <1>6. modem_tx_bits' \in Packet
    BY PacketTyped DEF Transmission, TypeOK, Sends
  <1>7. /\ listening' \in BOOLEAN /\ modem_listen_toggle' \in BOOLEAN
        /\ modem_stop_toggle' \in BOOLEAN /\ listen_timer' \in Timers
    BY DEF Reception, TypeOK, Timers
  <1>8. listen_inflight' \in BOOLEAN
    BY DEF Reception, TypeOK
  <1>9. modem_rx_sync' \in [1..3 -> BOOLEAN]
    BY DEF Synchronizer, TypeOK
  <1>10. s_axi_bvalid' \in BOOLEAN
    BY DEF WriteResponse
  <1>11. /\ modem_rx_toggle' \in BOOLEAN /\ modem_rx_locked' \in BOOLEAN
         /\ modem_rx_bits' \in FrameType
    BY DEF modemPort, TypeOK
  <1> QED
    BY <1>1, <1>2, <1>3, <1>4, <1>5, <1>6, <1>7, <1>8, <1>9, <1>10, <1>11 DEF TypeOK

\* an answer of the modem keeps the port in its range
LEMMA AnswerTyped ==
  ASSUME TypeOK, NEW f \in FrameType, NEW locked \in BOOLEAN, ModemAnswers(f, locked)
  PROVE  TypeOK'
  BY DEF ModemAnswers, TypeOK, mailboxVars, txRegs, rxRegs, coreRegs

\* every step keeps the types
LEMMA NextTyped == TypeOK /\ [Next]_vars => TypeOK'
  <1> SUFFICES ASSUME TypeOK, [Next]_vars PROVE TypeOK'
    OBVIOUS
  <1>1. CASE Tick
    BY <1>1, ClockTyped DEF Tick
  <1>2. CASE \E f \in Frames : ModemAnswers(f, TRUE)
    BY <1>2, AnswerTyped, MailboxAssumption DEF MailboxAssumption
  <1>3. CASE ModemAnswers(BlankFrame, FALSE)
    <2>1. BlankFrame \in FrameType
      BY MailboxAssumption DEF MailboxAssumption, BlankFrame, FrameType
    <2> QED
      BY <1>3, <2>1, AnswerTyped
  <1>4. CASE UNCHANGED vars
    BY <1>4 DEF TypeOK, vars, mailboxVars, txRegs, rxRegs, coreRegs, modemPort
  <1> QED
    BY <1>1, <1>2, <1>3, <1>4 DEF Next

\* type correctness of the mailbox
THEOREM TypeCorrect == Spec => []TypeOK
  BY InitTyped, NextTyped, PTL DEF Spec

-----------------------------------------------------------------------------
(***************************************************************************)
(* The modem port has one user.  With the types, OneUser is inductive.     *)
(***************************************************************************)
OneUserInv == TypeOK /\ OneUser

\* after reset nobody uses the modem port
LEMMA InitOneUser == Init => OneUser
  BY MailboxAssumption DEF Init, InitMailbox, OneUser, MailboxAssumption

\* one control word never starts a transmission and a listening
LEMMA OneCommand ==
  ASSUME NEW w \in Writes
  PROVE  ~ (Starts(w) /\ Listens(w))
  <1>1. \A c \in ControlWords : ~ {"TX_START", "RX_LISTEN"} \subseteq c
    BY MailboxAssumption DEF MailboxAssumption
  <1>2. w.reg = "CONTROL" => w.bits \in ControlWords
    BY DEF Writes, NoWrite, Control, Sequence, Length, Data
  <1> QED
    BY <1>1, <1>2 DEF Starts, Listens, Commands

\* what ends a transmission leaves the port free, what starts one finds it free
LEMMA ClockOneUser ==
  ASSUME OneUserInv, NEW w \in Writes, NEW expires \in BOOLEAN, Clock(w, expires)
  PROVE  OneUser'
  <1> USE DEF OneUserInv
  <1>0. (Mode = 1) <=> ~ (Mode = 0)
    BY MailboxAssumption DEF MailboxAssumption
  <1>1. (tx_busy <=> (echo_pending \/ modem_wait))'
    BY <1>0 DEF Clock, Transmission, OneUser, TypeOK, ModemEnds
  <1>2. (tx_busy => ~ listening /\ ~ listen_inflight /\ ~ tx_done)'
    <2>1. CASE Starts(w)
      BY <2>1, OneCommand
      DEF Clock, Transmission, Reception, Starts, FirstListen, ListenEnds
    <2>2. CASE ~ Starts(w) /\ tx_busy'
      <3>1. tx_busy /\ ~ echo_pending /\ ~ ModemEnds
        BY <2>2 DEF Clock, Transmission
      <3> QED
        BY <2>2, <3>1
        DEF OneUser, Clock, Transmission, Reception, Listens, FirstListen, ListenEnds
    <2> QED
      BY <2>1, <2>2
  <1>3. (Mode = 0 => ~ modem_wait /\ ~ listening /\ ~ listen_inflight)'
    BY <1>0 DEF OneUser, Clock, Transmission, Reception, Listens, FirstListen,
                ModemEnds, ListenEnds
  <1>4. (Mode = 1 => ~ echo_pending)'
    BY <1>0 DEF Clock, Transmission
  <1>5. (rx_overflow => rx_valid)'
    BY DEF OneUser, Clock, RxRegisters
  <1> QED
    BY <1>1, <1>2, <1>3, <1>4, <1>5 DEF OneUser

\* every step keeps the port to one user
LEMMA NextOneUser == OneUserInv /\ [Next]_vars => OneUser'
  <1> SUFFICES ASSUME OneUserInv, [Next]_vars PROVE OneUser'
    OBVIOUS
  <1>1. CASE Tick
    BY <1>1, ClockOneUser DEF Tick
  <1>2. CASE UNCHANGED mailboxVars
    BY <1>2 DEF OneUserInv, OneUser, mailboxVars, txRegs, rxRegs, coreRegs
  <1> QED
    BY <1>1, <1>2 DEF Next, ModemAnswers, vars

\* an answer of the modem can mean only one thing
THEOREM OneUserHolds == Spec => []OneUser
  <1>1. Init => OneUserInv
    BY InitTyped, InitOneUser DEF OneUserInv
  <1>2. OneUserInv /\ [Next]_vars => OneUserInv'
    BY NextTyped, NextOneUser DEF OneUserInv
  <1>3. OneUserInv => OneUser
    BY DEF OneUserInv
  <1> QED
    BY <1>1, <1>2, <1>3, PTL DEF Spec

\* what the modem is sending stays as it is until the modem is done
THEOREM RequestToModemHeld == Spec => RequestHeld
  <1>1. OneUserInv /\ [Next]_vars
          => [modem_wait => UNCHANGED <<modem_tx_bits, modem_tx_toggle>>]_vars
    <2> SUFFICES ASSUME OneUserInv, Next, modem_wait
                 PROVE  UNCHANGED <<modem_tx_bits, modem_tx_toggle>>
      OBVIOUS
    <2>1. tx_busy
      BY DEF OneUserInv, OneUser
    <2>2. ASSUME NEW w \in Writes, NEW expires \in BOOLEAN, Clock(w, expires)
          PROVE  UNCHANGED <<modem_tx_bits, modem_tx_toggle>>
      BY <2>1, <2>2 DEF OneUserInv, TypeOK, Clock, Transmission, Sends, Starts
    <2> QED
      BY <2>2 DEF Next, Tick, ModemAnswers, mailboxVars, coreRegs
  <1>2. Init => OneUserInv
    BY InitTyped, InitOneUser DEF OneUserInv
  <1>3. OneUserInv /\ [Next]_vars => OneUserInv'
    BY NextTyped, NextOneUser DEF OneUserInv
  <1> QED
    BY <1>1, <1>2, <1>3, PTL DEF Spec, RequestHeld

\* but for the answer to a message or an echo, RX_VALID rises only while
\* listening is on and only for a good frame; a stopped attempt delivers nothing
THEOREM ListeningIsClean == Spec => ListeningDeliversGood
  <1> DEFINE Clean == ~ tx_busy /\ ~ rx_valid /\ rx_valid'
                        => listening /\ rx'.meta = "CRC_OK" /\ rx'.len <= MaxPayload
  <1>1. ASSUME OneUserInv, NEW w \in Writes, NEW expires \in BOOLEAN, Clock(w, expires)
        PROVE  Clean
    <2> SUFFICES ASSUME ~ tx_busy, ~ rx_valid, rx_valid' = TRUE
                 PROVE  listening /\ rx'.meta = "CRC_OK" /\ rx'.len <= MaxPayload
      BY DEF Clock, RxRegisters
    <2>1. ~ echo_pending /\ ~ ModemEnds
      BY <1>1 DEF OneUserInv, OneUser, ModemEnds
    <2>2. ListenDelivers /\ rx' = Snapshot
      BY <1>1, <2>1 DEF Clock, RxRegisters, Arrives
    <2>3. rx' = FrameSnapshot(modem_rx_bits)
      BY <2>2 DEF Snapshot
    <2>4. listening /\ modem_rx_bits.crc /\ modem_rx_bits.len <= MaxPayload
      BY <2>2 DEF ListenDelivers
    <2> QED
      BY <2>3, <2>4 DEF FrameSnapshot
  <1>2. OneUserInv /\ [Next]_vars => [Clean]_vars
    <2> SUFFICES ASSUME OneUserInv, Next PROVE Clean
      OBVIOUS
    <2>1. CASE Tick
      BY <1>1, <2>1 DEF Tick
    <2>2. CASE UNCHANGED mailboxVars
      BY <2>2 DEF mailboxVars, rxRegs
    <2> QED
      BY <2>1, <2>2 DEF Next, ModemAnswers
  <1>3. Init => OneUserInv
    BY InitTyped, InitOneUser DEF OneUserInv
  <1>4. OneUserInv /\ [Next]_vars => OneUserInv'
    BY NextTyped, NextOneUser DEF OneUserInv
  <1> QED
    BY <1>2, <1>3, <1>4, PTL DEF Spec, ListeningDeliversGood

-----------------------------------------------------------------------------
(***************************************************************************)
(* In the echo mode the copy is due in the clock after TX_START, when the  *)
(* response of that write still keeps the next write off the bus: no       *)
(* RX_ACK can meet it.                                                     *)
(***************************************************************************)
EchoAlone == echo_pending => s_axi_bvalid
EchoInv == OneUserInv /\ EchoAlone

\* an echo is pending only in the clock after its TX_START write
LEMMA NextEchoAlone == EchoInv /\ [Next]_vars => EchoAlone'
  <1> SUFFICES ASSUME EchoInv, [Next]_vars PROVE EchoAlone'
    OBVIOUS
  <1>1. ASSUME NEW w \in Writes, NEW expires \in BOOLEAN, Clock(w, expires)
        PROVE  EchoAlone'
    BY <1>1 DEF Clock, Transmission, WriteResponse, EchoAlone, Starts, Commands,
                NoWrite
  <1>2. CASE UNCHANGED mailboxVars
    BY <1>2 DEF EchoInv, EchoAlone, mailboxVars, coreRegs
  <1> QED
    BY <1>1, <1>2 DEF Next, Tick, ModemAnswers, vars

\* an echo is delivered or leaves RX_OVERFLOW set, whenever the PS acknowledges
THEOREM EchoNeverLostSilently == Mode = 0 => (Spec => NothingLostSilently)
  <1> SUFFICES ASSUME Mode = 0 PROVE Spec => NothingLostSilently
    OBVIOUS
  <1> DEFINE Traced == Arrives => rx_valid' /\ (rx_valid => rx_overflow')
  <1>1. EchoInv => (Arrives => echo_pending)
    BY DEF EchoInv, OneUserInv, OneUser, Arrives, ModemEnds, ListenDelivers, ListenEnds
  <1>2. ASSUME EchoInv, NEW w \in Writes, NEW expires \in BOOLEAN, Clock(w, expires),
               echo_pending
        PROVE  rx_valid' /\ (rx_valid => rx_overflow')
    <2>1. ~ Commands(w, "RX_ACK")
      BY <1>2 DEF EchoInv, EchoAlone, Clock, WriteResponse, Commands, NoWrite
    <2>2. Arrives
      BY <1>2 DEF Arrives
    <2> QED
      BY <1>2, <2>1, <2>2 DEF Clock, RxRegisters
  <1>3. EchoInv /\ [Next]_vars => [Traced]_vars
    BY <1>1, <1>2 DEF Next, Tick
  <1>4. Init => EchoInv
    BY InitTyped, InitOneUser
    DEF EchoInv, OneUserInv, EchoAlone, Init, InitMailbox
  <1>5. EchoInv /\ [Next]_vars => EchoInv'
    BY NextTyped, NextOneUser, NextEchoAlone DEF EchoInv, OneUserInv
  <1> QED
    BY <1>3, <1>4, <1>5, PTL DEF Spec, NothingLostSilently
=============================================================================
