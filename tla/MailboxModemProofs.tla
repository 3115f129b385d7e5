------------------------ MODULE MailboxModemProofs ------------------------
(***************************************************************************)
(* Proofs about the mailbox joined to the bridge and the QPSK core.        *)
(***************************************************************************)
EXTENDS MailboxModem, MessageMailboxProofs

-----------------------------------------------------------------------------
(* Types.                                                                  *)

\* the empty frame of the reset and the frames of the modem are frames
LEMMA BlankTyped == BlankFrame \in FrameType /\ Frames \subseteq FrameType
  BY MailboxAssumption DEF MailboxAssumption, BlankFrame, FrameType

\* a synchronizer takes its toggle in at the front and moves by one flop
LEMMA ShiftedIs ==
  ASSUME NEW sync \in [1..3 -> BOOLEAN], NEW toggle \in BOOLEAN
  PROVE  /\ Bridge!Shifted(sync, toggle) \in [1..3 -> BOOLEAN]
         /\ Bridge!Shifted(sync, toggle)[1] = toggle
         /\ Bridge!Shifted(sync, toggle)[2] = sync[1]
         /\ Bridge!Shifted(sync, toggle)[3] = sync[2]
  BY DEF Bridge!Shifted

\* the resets of both sides leave every register in its range
LEMMA JoinedInitTyped == JoinedInit => JoinedTypeOK
  <1> SUFFICES ASSUME JoinedInit PROVE JoinedTypeOK
    OBVIOUS
  <1>1. Init
    BY DEF JoinedInit, Init, InitPort, Bridge!Init
  <1>2. TypeOK
    BY <1>1, InitTyped
  <1>3. CapDelay \in Nat
    BY JoinedAssumption DEF JoinedAssumption
  <1>4. Bridge!Low \in [1..3 -> BOOLEAN]
    BY DEF Bridge!Low
  <1>5. Bridge!Init
    BY DEF JoinedInit
  <1>6. /\ msg_tx_sync \in Bridge!Flops /\ msg_listen_sync \in Bridge!Flops
        /\ msg_stop_sync \in Bridge!Flops
    BY <1>4, <1>5 DEF Bridge!Init, Bridge!Flops
  <1>7. msg_cap_delay \in 0..CapDelay
    BY <1>3, <1>5 DEF Bridge!Init
  <1>8. Bridge!TypeOK
    BY <1>5, <1>6, <1>7 DEF Bridge!Init, Bridge!TypeOK
  <1> QED
    BY <1>2, <1>8 DEF JoinedInit, JoinedTypeOK

\* an AXI clock keeps the ranges: the mailbox's, and the bridge's by not touching them
LEMMA AxiTyped ==
  ASSUME JoinedTypeOK, NEW w \in Writes, NEW expires \in BOOLEAN, AxiClock(w, expires)
  PROVE  JoinedTypeOK'
  <1>1. TypeOK'
    BY ClockTyped DEF JoinedTypeOK, AxiClock
  <1>2. Bridge!TypeOK'
    BY <1>1 DEF JoinedTypeOK, AxiClock, Bridge!TypeOK, Bridge!Flops, sampleRegs, modemPort
  <1>3. stopped' \in BOOLEAN /\ overdue' \in BOOLEAN
    BY DEF JoinedTypeOK, AxiClock
  <1> QED
    BY <1>1, <1>2, <1>3 DEF JoinedTypeOK

\* a sample clock keeps the ranges, the capture delay among them
LEMMA RfTyped ==
  ASSUME JoinedTypeOK, NEW hears \in Bridge!Events, NEW packet \in Frames,
         NEW burst_ends \in BOOLEAN, RfClock(hears, packet, burst_ends)
  PROVE  JoinedTypeOK'
  <1> USE DEF RfClock, Bridge!SampleClock
  <1>1. /\ msg_tx_sync' \in [1..3 -> BOOLEAN] /\ msg_listen_sync' \in [1..3 -> BOOLEAN]
        /\ msg_stop_sync' \in [1..3 -> BOOLEAN]
    BY ShiftedIs DEF Bridge!Synchronizers, JoinedTypeOK, TypeOK, Bridge!TypeOK,
                     Bridge!Flops
  <1>2. /\ msg_mode_sample' \in BOOLEAN /\ msg_listen_sample' \in BOOLEAN
        /\ start_pulse_sample' \in BOOLEAN /\ msg_cap_armed' \in BOOLEAN
    BY DEF Bridge!Attempt, Bridge!start_edge, Bridge!Edge, JoinedTypeOK, Bridge!TypeOK
  <1>3. msg_cap_delay' \in 0..CapDelay
    BY JoinedAssumption
    DEF Bridge!Attempt, Bridge!Captures, JoinedTypeOK, Bridge!TypeOK, JoinedAssumption
  <1>4. msg_abort_pending' \in BOOLEAN
    BY DEF Bridge!AbortRequest
  <1>5. done_sticky_sample' \in BOOLEAN /\ received_sample' \in BOOLEAN
    BY DEF Bridge!Result, JoinedTypeOK, Bridge!TypeOK
  <1>6. /\ modem_rx_toggle' \in BOOLEAN /\ modem_rx_locked' \in BOOLEAN
        /\ modem_rx_bits' \in Frames \cup {BlankFrame}
    BY DEF Bridge!Answer, JoinedTypeOK, Bridge!TypeOK
  <1>7. core_tx' \in {"idle", "rom", "msg"}
    BY DEF Bridge!Transmitter, JoinedTypeOK, Bridge!TypeOK
  <1>8. ber' \in {"idle", "search", "open", "receiving", "cut"}
    BY DEF Bridge!Receiver, JoinedTypeOK, Bridge!TypeOK
  <1>9. /\ received' \in BOOLEAN /\ shift' \in Frames \cup {BlankFrame}
        /\ ber_abort' \in BOOLEAN /\ ber_done' \in BOOLEAN /\ timed_out' \in BOOLEAN
        /\ done' \in BOOLEAN
    BY DEF Bridge!Receiver, Bridge!GivesUp, Bridge!Ends, JoinedTypeOK, Bridge!TypeOK
  <1>10. Bridge!TypeOK'
    BY <1>1, <1>2, <1>3, <1>4, <1>5, <1>6, <1>7, <1>8, <1>9
    DEF Bridge!TypeOK, Bridge!Flops
  <1>11. TypeOK'
    BY <1>6, BlankTyped
    DEF JoinedTypeOK, TypeOK, mailboxVars, txRegs, rxRegs, coreRegs
  <1>12. stopped' \in BOOLEAN /\ overdue' \in BOOLEAN
    BY DEF JoinedTypeOK
  <1> QED
    BY <1>10, <1>11, <1>12 DEF JoinedTypeOK

\* no clock, no change of a range
LEMMA JoinedStutter ==
  ASSUME UNCHANGED joinedVars
  PROVE  /\ JoinedTypeOK => JoinedTypeOK'
  BY DEF joinedVars, vars, mailboxVars, txRegs, rxRegs, coreRegs, modemPort,
         sampleRegs, JoinedTypeOK, TypeOK, Bridge!TypeOK, Bridge!Flops

(***************************************************************************)
(* Every register of the mailbox, the bridge and the core keeps its range; *)
(* in particular the capture delay never runs past CapDelay.               *)
(***************************************************************************)
THEOREM JoinedTypesKept == JoinedSpec => []JoinedTypeOK
  <1>1. JoinedTypeOK /\ [JoinedNext]_joinedVars => JoinedTypeOK'
    BY AxiTyped, RfTyped, JoinedStutter DEF JoinedNext, AnyAxiClock, AnyRfClock
  <1> QED
    BY <1>1, JoinedInitTyped, PTL DEF JoinedSpec

-----------------------------------------------------------------------------
(***************************************************************************)
(* The inductive invariant, for packets that stay above the detector and a *)
(* capture at least three clocks after the end of an attempt.              *)
(***************************************************************************)

\* at most one change of a toggle is on its way through the three flops
InOrder(toggle, sync) ==
  /\ sync[1] # toggle => sync[2] # toggle
  /\ sync[2] # toggle => sync[3] # toggle

TxAsked     == Asked(modem_tx_toggle, msg_tx_sync)
ListenAsked == Asked(modem_listen_toggle, msg_listen_sync)

Crossings ==
  /\ InOrder(modem_tx_toggle, msg_tx_sync)
  /\ InOrder(modem_listen_toggle, msg_listen_sync)
  /\ InOrder(modem_rx_toggle, modem_rx_sync)

\* a request is on its way, the core is at work, an answer is on its way:
\* one of the three at most, and only while the mailbox waits
Asks ==
  /\ TxAsked => modem_wait
  /\ ListenAsked => listen_inflight
  /\ CoreAtWork => msg_cap_armed
  /\ Requested => ~ CoreAtWork
  /\ Answering => ~ Requested /\ ~ msg_cap_armed
  /\ Owed => modem_wait \/ listen_inflight

\* a timer runs out only when no answer is owed, and none is owed after that
Expired ==
  /\ modem_wait /\ modem_timer = "expired" => ~ Owed
  /\ listen_inflight /\ listen_timer = "expired" => ~ Owed

\* what the core works on, or has answered, is what the mailbox waits for
Matches ==
  CoreAtWork \/ Answering => /\ modem_wait => msg_mode_sample
                             /\ listen_inflight => msg_listen_sample

Latched == done_sticky_sample /\ received_sample = received

\* the pulses at the end of an attempt, as far as the capture delay has come
Ending ==
  /\ start_pulse_sample => /\ ber = "idle" /\ ~ ber_done /\ ~ done /\ ~ timed_out
                           /\ msg_cap_delay = 0
  /\ ber_done \/ done => ber = "idle"
  /\ timed_out = ber_abort
  /\ timed_out /\ msg_cap_delay = 0 => ber # "idle"
  /\ msg_cap_delay # 0 => ber = "idle" /\ (done \/ ber_done \/ Latched)
  /\ msg_cap_delay >= 2 => ~ ber_done /\ ~ timed_out
  /\ msg_cap_delay >= 3 => ~ done

\* a change of the stop toggle from before the last listening request is no
\* further behind than that request, whose arrival drops a pending abort
Stopping ==
  /\ ~ stopped =>
       /\ modem_stop_toggle # msg_stop_sync[1] => msg_listen_sync[1] # modem_listen_toggle
       /\ msg_stop_sync[1] # msg_stop_sync[2] => msg_listen_sync[2] # modem_listen_toggle
       /\ msg_stop_sync[2] # msg_stop_sync[3] => msg_listen_sync[3] # modem_listen_toggle
  /\ msg_abort_pending => stopped \/ ListenAsked

JoinedInv ==
  /\ JoinedTypeOK /\ OneUser /\ ~ overdue
  /\ Crossings /\ Asks /\ Expired /\ Matches /\ Ending /\ Stopping

\* the code captures 7 clocks after the end; a cut packet voids all that follows
Steady == CapDelay >= 3 /\ ~ Fades

\* after reset nothing is asked, at work or on its way back
LEMMA JoinedInitInv == JoinedInit => JoinedInv
  <1> SUFFICES ASSUME JoinedInit PROVE JoinedInv
    OBVIOUS
  <1>1. Init
    BY DEF JoinedInit, Init, InitPort, Bridge!Init
  <1>2. JoinedTypeOK /\ OneUser /\ ~ overdue
    BY <1>1, JoinedInitTyped, InitOneUser DEF JoinedInit
  <1>3. /\ modem_tx_toggle = FALSE /\ modem_listen_toggle = FALSE
        /\ modem_stop_toggle = FALSE /\ modem_rx_toggle = FALSE
    BY DEF JoinedInit, InitMailbox, Bridge!Init
  <1>4. ASSUME NEW i \in 1..3
         PROVE  /\ msg_tx_sync[i] = FALSE /\ msg_listen_sync[i] = FALSE
                /\ msg_stop_sync[i] = FALSE /\ modem_rx_sync[i] = FALSE
    BY DEF JoinedInit, InitMailbox, Bridge!Init, Bridge!Low
  <1>5. /\ msg_tx_sync[1] = FALSE /\ msg_tx_sync[2] = FALSE /\ msg_tx_sync[3] = FALSE
         /\ msg_listen_sync[1] = FALSE /\ msg_listen_sync[2] = FALSE
         /\ msg_listen_sync[3] = FALSE
         /\ msg_stop_sync[1] = FALSE /\ msg_stop_sync[2] = FALSE
         /\ msg_stop_sync[3] = FALSE
         /\ modem_rx_sync[1] = FALSE /\ modem_rx_sync[2] = FALSE
         /\ modem_rx_sync[3] = FALSE
    <2>1. 1 \in 1..3 /\ 2 \in 1..3 /\ 3 \in 1..3
      OBVIOUS
    <2> QED
      BY <1>4, <2>1
  <1>6. Crossings /\ ~ TxAsked /\ ~ ListenAsked /\ ~ Answering
    BY <1>3, <1>5 DEF Crossings, InOrder, TxAsked, ListenAsked, Asked, Answering
  <1>7. ~ CoreAtWork /\ ~ Owed
    BY <1>6 DEF CoreAtWork, Owed, Requested, TxAsked, ListenAsked, JoinedInit, Bridge!Init
  <1>8. Asks /\ Expired /\ Matches
    BY <1>6, <1>7 DEF Asks, Expired, Matches, Owed
  <1>9. Ending
    BY DEF Ending, JoinedInit, Bridge!Init
  <1>10. Stopping
    BY <1>3, <1>5 DEF Stopping, JoinedInit, Bridge!Init
  <1> QED
    BY <1>2, <1>6, <1>8, <1>9, <1>10 DEF JoinedInv

-----------------------------------------------------------------------------
(* A clock of the mailbox.                                                 *)

\* what ends a wait leaves nothing owed
LEMMA EndsOwed ==
  ASSUME JoinedInv, ModemEnds \/ ListenEnds
  PROVE  ~ Requested /\ ~ CoreAtWork /\ (Answering => RxEdge)
  <1>1. RxEdge => Answering
    BY DEF RxEdge, Answering, JoinedInv, Crossings, InOrder, JoinedTypeOK, TypeOK
  <1>2. CASE RxEdge
    BY <1>1, <1>2 DEF JoinedInv, Asks
  <1>3. CASE ~ RxEdge
    <2>1. ~ Owed
      BY <1>3 DEF ModemEnds, ListenEnds, JoinedInv, Expired
    <2> QED
      BY <2>1 DEF Owed, JoinedInv, Asks
  <1> QED
    BY <1>2, <1>3

\* what begins one finds nothing owed
LEMMA BeginsUnowed ==
  ASSUME JoinedInv, NEW w \in Writes, Starts(w) \/ FirstListen(w)
  PROVE  /\ ~ modem_wait /\ ~ listen_inflight
         /\ ~ Requested /\ ~ CoreAtWork /\ ~ Answering
  <1>1. ~ modem_wait /\ ~ listen_inflight
    BY DEF Starts, FirstListen, Listens, JoinedInv, OneUser
  <1> QED
    BY <1>1 DEF JoinedInv, Asks, Owed

\* an AXI clock leaves the core as it is, and takes an answer off its way
LEMMA AxiWays ==
  ASSUME JoinedInv, NEW w \in Writes, NEW expires \in BOOLEAN, AxiClock(w, expires)
  PROVE  /\ CoreAtWork' <=> CoreAtWork
         /\ Answering' <=> Answering /\ ~ RxEdge
         /\ TxAsked' <=> TxAsked \/ Sends(w)
         /\ ListenAsked' <=> ListenAsked \/ FirstListen(w) \/ Rearms
         /\ Crossings'
  <1>1. UNCHANGED <<modemPort, sampleRegs>>
    BY DEF AxiClock
  <1>2. Mode = 1
    BY JoinedAssumption DEF JoinedAssumption
  <1>3. /\ modem_rx_sync'[1] = modem_rx_toggle
        /\ modem_rx_sync'[2] = modem_rx_sync[1]
        /\ modem_rx_sync'[3] = modem_rx_sync[2]
    BY <1>2 DEF AxiClock, Clock, Synchronizer, JoinedInv, JoinedTypeOK, TypeOK
  <1>4. CoreAtWork' <=> CoreAtWork
    BY <1>1 DEF CoreAtWork, sampleRegs
  <1>5. Answering' <=> Answering /\ ~ RxEdge
    BY <1>1, <1>3
    DEF Answering, RxEdge, modemPort, JoinedInv, Crossings, InOrder, JoinedTypeOK, TypeOK
  <1>6. InOrder(modem_rx_toggle, modem_rx_sync)'
    BY <1>1, <1>3 DEF modemPort, JoinedInv, Crossings, InOrder
  <1>0. modem_tx_toggle \in BOOLEAN /\ modem_listen_toggle \in BOOLEAN
    BY DEF JoinedInv, JoinedTypeOK, TypeOK
  <1>7. /\ ~ Sends(w) => modem_tx_toggle' = modem_tx_toggle
        /\ Sends(w) => modem_tx_toggle' = ~ modem_tx_toggle
    <2>1. modem_tx_toggle' = (modem_tx_toggle # Sends(w))
      BY DEF AxiClock, Clock, Transmission
    <2>2. Sends(w) \in BOOLEAN
      BY DEF Sends
    <2> QED
      BY <1>0, <2>1, <2>2
  <1>8. LET asks == FirstListen(w) \/ Rearms
        IN  /\ ~ asks => modem_listen_toggle' = modem_listen_toggle
            /\ asks => modem_listen_toggle' = ~ modem_listen_toggle
    <2>1. modem_listen_toggle' = (modem_listen_toggle # (FirstListen(w) \/ Rearms))
      BY DEF AxiClock, Clock, Reception
    <2> QED
      BY <1>0, <2>1
  <1>9. Sends(w) => ~ TxAsked
    BY BeginsUnowed DEF Sends, Requested, TxAsked
  <1>10. FirstListen(w) \/ Rearms => ~ ListenAsked
    BY BeginsUnowed, EndsOwed DEF Rearms, Requested, ListenAsked
  <1>11. /\ TxAsked' <=> TxAsked \/ Sends(w)
         /\ InOrder(modem_tx_toggle, msg_tx_sync)'
    BY <1>1, <1>7, <1>9
    DEF TxAsked, Asked, InOrder, sampleRegs, JoinedInv, Crossings, JoinedTypeOK, TypeOK,
        Bridge!TypeOK, Bridge!Flops
  <1>12. /\ ListenAsked' <=> ListenAsked \/ FirstListen(w) \/ Rearms
         /\ InOrder(modem_listen_toggle, msg_listen_sync)'
    BY <1>1, <1>8, <1>10
    DEF ListenAsked, Asked, InOrder, sampleRegs, JoinedInv, Crossings, JoinedTypeOK,
        TypeOK, Bridge!TypeOK, Bridge!Flops
  <1> QED
    BY <1>4, <1>5, <1>6, <1>11, <1>12 DEF Crossings

\* who waits after an AXI clock waited before it, or begins to in it
LEMMA AxiWaits ==
  ASSUME JoinedInv, NEW w \in Writes, NEW expires \in BOOLEAN, AxiClock(w, expires)
  PROVE  /\ modem_wait' <=> Starts(w) \/ (modem_wait /\ ~ ModemEnds)
         /\ listen_inflight' <=> FirstListen(w) \/ Rearms
                                  \/ (listen_inflight /\ ~ ListenEnds)
         /\ modem_wait => ~ Starts(w) /\ ~ FirstListen(w) /\ ~ ListenEnds
         /\ listen_inflight => ~ Starts(w) /\ ~ FirstListen(w) /\ ~ ModemEnds
         /\ ~ (Starts(w) /\ FirstListen(w))
  <1>1. Mode = 1
    BY JoinedAssumption DEF JoinedAssumption
  <1>2. modem_wait' <=> Starts(w) \/ (modem_wait /\ ~ ModemEnds)
    BY <1>1 DEF AxiClock, Clock, Transmission
  <1>3. listen_inflight' <=> FirstListen(w) \/ Rearms
                              \/ (listen_inflight /\ ~ ListenEnds)
    BY DEF AxiClock, Clock, Reception, Rearms
  <1>4. /\ modem_wait => ~ Starts(w) /\ ~ FirstListen(w) /\ ~ ListenEnds
        /\ listen_inflight => ~ Starts(w) /\ ~ FirstListen(w) /\ ~ ModemEnds
    BY DEF JoinedInv, OneUser, Starts, FirstListen, Listens, ModemEnds, ListenEnds
  <1>5. ~ (Starts(w) /\ FirstListen(w))
    BY OneCommand DEF FirstListen
  <1> QED
    BY <1>2, <1>3, <1>4, <1>5

\* an AXI clock asks for an attempt only when none is asked, at work or answering
LEMMA AxiAsks ==
  ASSUME JoinedInv, NEW w \in Writes, NEW expires \in BOOLEAN, AxiClock(w, expires)
  PROVE  Asks'
  <1> DEFINE Begins == Starts(w) \/ FirstListen(w)
  <1>1. /\ TxAsked => modem_wait /\ ~ ModemEnds
        /\ ListenAsked => listen_inflight /\ ~ ListenEnds
    BY EndsOwed DEF JoinedInv, Asks, Requested, TxAsked, ListenAsked
  <1>2. /\ CoreAtWork => ~ ModemEnds /\ ~ ListenEnds /\ ~ Begins /\ ~ Rearms
        /\ Answering /\ ~ RxEdge => ~ ModemEnds /\ ~ ListenEnds /\ ~ Begins /\ ~ Rearms
    BY EndsOwed, BeginsUnowed DEF Rearms
  <1>3. Requested' <=> TxAsked' \/ ListenAsked'
    BY DEF Requested, TxAsked, ListenAsked
  <1>4. Requested <=> TxAsked \/ ListenAsked
    BY DEF Requested, TxAsked, ListenAsked
  <1>5. Requested' => Requested \/ Begins \/ Rearms
    BY <1>3, <1>4, AxiWays DEF Sends
  <1>6. TxAsked' => modem_wait'
    BY <1>1, AxiWays, AxiWaits DEF Sends
  <1>7. ListenAsked' => listen_inflight'
    BY <1>1, AxiWays, AxiWaits
  <1>8. msg_cap_armed' = msg_cap_armed
    BY DEF AxiClock, sampleRegs
  <1>9. CoreAtWork' => msg_cap_armed'
    BY <1>8, AxiWays DEF JoinedInv, Asks
  <1>10. Requested' => ~ CoreAtWork'
    BY <1>2, <1>5, AxiWays DEF JoinedInv, Asks
  <1>11. Answering' => ~ Requested' /\ ~ msg_cap_armed'
    BY <1>2, <1>5, <1>8, AxiWays DEF JoinedInv, Asks
  <1>12. CoreAtWork' \/ Answering' => modem_wait' \/ listen_inflight'
    <2>1. CoreAtWork \/ Answering => modem_wait \/ listen_inflight
      BY DEF JoinedInv, Asks, Owed
    <2> QED
      BY <1>2, <2>1, AxiWays, AxiWaits
  <1>13. Owed' => modem_wait' \/ listen_inflight'
    BY <1>3, <1>6, <1>7, <1>12 DEF Owed
  <1> QED
    BY <1>6, <1>7, <1>9, <1>10, <1>11, <1>13 DEF Asks

\* an AXI clock whose timer runs out leaves nothing owed behind
LEMMA AxiExpired ==
  ASSUME JoinedInv, NEW w \in Writes, NEW expires \in BOOLEAN, AxiClock(w, expires)
  PROVE  Expired'
  <1>1. expires => ~ Owed
    BY DEF AxiClock, MayExpire, JoinedInv
  <1>2. /\ Requested' <=> TxAsked' \/ ListenAsked'
        /\ Requested <=> TxAsked \/ ListenAsked
    BY DEF Requested, TxAsked, ListenAsked
  <1>3. ASSUME ~ Owed, ~ Sends(w), ~ FirstListen(w), ~ Rearms
        PROVE  ~ Owed'
    <2>1. ~ Requested' /\ ~ Answering'
      BY <1>2, <1>3, AxiWays DEF Owed
    <2>2. ~ (msg_cap_armed' /\ CoreAtWork')
      BY <1>3, AxiWays DEF Owed, AxiClock, sampleRegs
    <2> QED
      BY <2>1, <2>2 DEF Owed
  <1>4. ASSUME modem_wait', modem_timer' = "expired"
        PROVE  ~ Owed'
    <2>1. ~ Sends(w)
      BY <1>4 DEF AxiClock, Clock, Transmission
    <2>2. CASE Starts(w)
      <3>1. ~ Owed /\ ~ FirstListen(w) /\ ~ Rearms
        BY <2>2, BeginsUnowed, AxiWaits DEF Owed, Rearms, ListenEnds
      <3> QED
        BY <2>1, <3>1, <1>3
    <2>3. CASE ~ Starts(w)
      <3>1. modem_wait /\ ~ FirstListen(w) /\ ~ Rearms
        BY <1>4, <2>3, AxiWaits DEF Rearms
      <3>2. expires \/ modem_timer = "expired"
        BY <1>4, <2>1, <2>3 DEF AxiClock, Clock, Transmission
      <3>3. ~ Owed
        BY <1>1, <3>1, <3>2 DEF JoinedInv, Expired
      <3> QED
        BY <2>1, <3>1, <3>3, <1>3
    <2> QED
      BY <2>2, <2>3
  <1>5. ASSUME listen_inflight', listen_timer' = "expired"
        PROVE  ~ Owed'
    <2>1. ~ FirstListen(w) /\ ~ ListenEnds
      BY <1>5 DEF AxiClock, Clock, Reception
    <2>2. ~ Rearms
      BY <2>1 DEF Rearms
    <2>3. listen_inflight
      BY <1>5, <2>1, <2>2, AxiWaits
    <2>4. ~ Sends(w)
      BY <2>3, AxiWaits DEF Sends
    <2>5. expires \/ listen_timer = "expired"
      BY <1>5, <2>1 DEF AxiClock, Clock, Reception
    <2>6. ~ Owed
      BY <1>1, <2>3, <2>5 DEF JoinedInv, Expired
    <2> QED
      BY <2>1, <2>2, <2>4, <2>6, <1>3
  <1> QED
    BY <1>4, <1>5 DEF Expired

\* an AXI clock changes who waits only when no attempt is at work
LEMMA AxiMatches ==
  ASSUME JoinedInv, NEW w \in Writes, NEW expires \in BOOLEAN, AxiClock(w, expires)
  PROVE  Matches'
  <1>1. UNCHANGED <<msg_mode_sample, msg_listen_sample>>
    BY DEF AxiClock, sampleRegs
  <1> SUFFICES ASSUME CoreAtWork' \/ Answering'
               PROVE  /\ modem_wait' => msg_mode_sample
                      /\ listen_inflight' => msg_listen_sample
    BY <1>1 DEF Matches
  <1>2. CoreAtWork \/ (Answering /\ ~ RxEdge)
    BY AxiWays
  <1>3. ~ Starts(w) /\ ~ FirstListen(w) /\ ~ Rearms
    BY <1>2, BeginsUnowed, EndsOwed DEF Rearms
  <1> QED
    BY <1>2, <1>3, AxiWaits DEF JoinedInv, Matches

\* an AXI clock sends a stop on its way only ahead of the next RX_LISTEN
LEMMA AxiStopping ==
  ASSUME JoinedInv, NEW w \in Writes, NEW expires \in BOOLEAN, AxiClock(w, expires)
  PROVE  Stopping'
  <1>1. UNCHANGED <<msg_listen_sync, msg_stop_sync, msg_abort_pending>>
    BY DEF AxiClock, sampleRegs
  <1>2. stopped' = IF modem_stop_toggle' # modem_stop_toggle THEN TRUE
                   ELSE stopped /\ modem_listen_toggle' = modem_listen_toggle
    BY DEF AxiClock
  <1>3. stopped \in BOOLEAN
    BY DEF JoinedInv, JoinedTypeOK
  <1>4. CASE modem_stop_toggle' # modem_stop_toggle
    BY <1>2, <1>4 DEF Stopping
  <1>5. CASE /\ modem_stop_toggle' = modem_stop_toggle
             /\ modem_listen_toggle' = modem_listen_toggle
    BY <1>1, <1>2, <1>3, <1>5 DEF JoinedInv, Stopping, ListenAsked, Asked
  <1>6. CASE modem_listen_toggle' # modem_listen_toggle
    <2>1. FirstListen(w) \/ Rearms
      <3>1. modem_listen_toggle' = (modem_listen_toggle # (FirstListen(w) \/ Rearms))
        BY DEF AxiClock, Clock, Reception
      <3>2. modem_listen_toggle \in BOOLEAN
        BY DEF JoinedInv, JoinedTypeOK, TypeOK
      <3> QED
        BY <1>6, <3>1, <3>2
    <2>2. ~ ListenAsked
      BY <2>1, BeginsUnowed, EndsOwed DEF Rearms, Requested, ListenAsked
    <2>3. /\ msg_listen_sync[3] = modem_listen_toggle
          /\ msg_listen_sync[2] = modem_listen_toggle
          /\ msg_listen_sync[1] = modem_listen_toggle
      BY <2>2 DEF ListenAsked, Asked, JoinedInv, Crossings, InOrder
    <2>4. ListenAsked'
      BY <1>1, <1>6, <2>3 DEF ListenAsked, Asked
    <2> QED
      BY <1>1, <1>6, <2>3, <2>4 DEF Stopping
  <1> QED
    BY <1>4, <1>5, <1>6

\* every AXI clock keeps the invariant
LEMMA AxiKeepsInv ==
  ASSUME JoinedInv, NEW w \in Writes, NEW expires \in BOOLEAN, AxiClock(w, expires)
  PROVE  JoinedInv'
  <1>1. JoinedTypeOK'
    BY AxiTyped DEF JoinedInv
  <1>2. OneUser'
    BY ClockOneUser DEF JoinedInv, JoinedTypeOK, OneUserInv, AxiClock
  <1>3. ~ overdue'
    BY DEF JoinedInv, AxiClock
  <1>4. Ending'
    BY DEF JoinedInv, Ending, Latched, AxiClock, sampleRegs
  <1> QED
    BY <1>1, <1>2, <1>3, <1>4, AxiWays, AxiAsks, AxiExpired, AxiMatches, AxiStopping
    DEF JoinedInv

-----------------------------------------------------------------------------
(* A clock of the bridge and the core.                                     *)

\* without a start an idle receiver hears nothing that could move it
LEMMA IdleStays ==
  ASSUME JoinedTypeOK, NEW hears \in Bridge!Events, NEW packet \in Frames,
         NEW burst_ends \in BOOLEAN, RfClock(hears, packet, burst_ends),
         ber = "idle", ~ start_pulse_sample
  PROVE  ber' = "idle" /\ ~ ber_done' /\ ~ timed_out' /\ received' = received
  <1>1. ~ Bridge!FrameStart /\ ~ Bridge!Ends(hears) /\ ~ Bridge!GivesUp(hears)
    BY DEF Bridge!FrameStart, Bridge!Ends, Bridge!GivesUp
  <1>2. hears \notin {"opens", "closes", "locks", "fades", "whole"}
    BY DEF RfClock, Bridge!SampleClock, Bridge!Receiver, Bridge!CanHear, Bridge!Events,
           Bridge!MayLock, Bridge!BitsFlow
  <1>3. received \in BOOLEAN
    BY DEF JoinedTypeOK, Bridge!TypeOK
  <1> QED
    BY <1>1, <1>2, <1>3
    DEF RfClock, Bridge!SampleClock, Bridge!Receiver, Bridge!Completes

\* the core is at work because it was or because a request has come
LEMMA WorkBegins ==
  ASSUME JoinedTypeOK, NEW hears \in Bridge!Events, NEW packet \in Frames,
         NEW burst_ends \in BOOLEAN, RfClock(hears, packet, burst_ends), CoreAtWork'
  PROVE  CoreAtWork \/ Bridge!start_edge
  <1> SUFFICES ASSUME ~ CoreAtWork, ~ Bridge!start_edge PROVE ~ CoreAtWork'
    OBVIOUS
  <1>1. ber' = "idle" /\ ~ ber_done' /\ ~ timed_out'
    BY IdleStays DEF CoreAtWork
  <1>2. ~ start_pulse_sample' /\ ~ done' /\ msg_cap_delay' = 0
    BY DEF CoreAtWork, RfClock, Bridge!SampleClock, Bridge!Attempt, Bridge!EndSeen,
           Bridge!Receiver
  <1> QED
    BY <1>1, <1>2 DEF CoreAtWork

\* the three flops, a clock on
LEMMA RfShifts ==
  ASSUME JoinedTypeOK, NEW hears \in Bridge!Events, NEW packet \in Frames,
         NEW burst_ends \in BOOLEAN, RfClock(hears, packet, burst_ends)
  PROVE  /\ msg_tx_sync'[1] = modem_tx_toggle /\ msg_tx_sync'[2] = msg_tx_sync[1]
         /\ msg_tx_sync'[3] = msg_tx_sync[2]
         /\ msg_listen_sync'[1] = modem_listen_toggle
         /\ msg_listen_sync'[2] = msg_listen_sync[1]
         /\ msg_listen_sync'[3] = msg_listen_sync[2]
         /\ msg_stop_sync'[1] = modem_stop_toggle /\ msg_stop_sync'[2] = msg_stop_sync[1]
         /\ msg_stop_sync'[3] = msg_stop_sync[2]
  BY ShiftedIs
  DEF RfClock, Bridge!SampleClock, Bridge!Synchronizers, JoinedTypeOK, TypeOK,
      Bridge!TypeOK, Bridge!Flops

\* an RF clock takes requests off their way, and puts an answer on its way only
\* at the end of an attempt, when nothing else is
LEMMA RfWays ==
  ASSUME Steady, JoinedInv, NEW hears \in Bridge!Events, NEW packet \in Frames,
         NEW burst_ends \in BOOLEAN, RfClock(hears, packet, burst_ends)
  PROVE  /\ TxAsked' <=> TxAsked /\ ~ Bridge!Edge(msg_tx_sync)
         /\ ListenAsked' <=> ListenAsked /\ ~ Bridge!Edge(msg_listen_sync)
         /\ Bridge!Edge(msg_tx_sync) => TxAsked
         /\ Bridge!Edge(msg_listen_sync) => ListenAsked
         /\ Bridge!start_edge => ~ CoreAtWork /\ ~ Answering
         /\ Bridge!Captures => CoreAtWork /\ ~ CoreAtWork' /\ ~ Answering
         /\ Answering' <=> Answering \/ Bridge!Captures
         /\ Crossings'
  <1>1. /\ UNCHANGED <<modem_tx_toggle, modem_listen_toggle, modem_rx_sync>>
        /\ modem_rx_toggle' = (modem_rx_toggle # Bridge!Captures)
        /\ modem_rx_toggle \in BOOLEAN /\ Bridge!Captures \in BOOLEAN
    BY DEF RfClock, mailboxVars, coreRegs, Bridge!SampleClock, Bridge!Answer, JoinedInv,
           JoinedTypeOK, TypeOK, Bridge!Captures
  <1>2. JoinedTypeOK /\ Crossings /\ Asks
    BY DEF JoinedInv
  <1>3. /\ TxAsked' <=> TxAsked /\ ~ Bridge!Edge(msg_tx_sync)
        /\ Bridge!Edge(msg_tx_sync) => TxAsked
        /\ InOrder(modem_tx_toggle, msg_tx_sync)'
    BY <1>1, <1>2, RfShifts
    DEF TxAsked, Asked, Bridge!Edge, Crossings, InOrder, JoinedTypeOK, TypeOK,
        Bridge!TypeOK, Bridge!Flops
  <1>4. /\ ListenAsked' <=> ListenAsked /\ ~ Bridge!Edge(msg_listen_sync)
        /\ Bridge!Edge(msg_listen_sync) => ListenAsked
        /\ InOrder(modem_listen_toggle, msg_listen_sync)'
    BY <1>1, <1>2, RfShifts
    DEF ListenAsked, Asked, Bridge!Edge, Crossings, InOrder, JoinedTypeOK, TypeOK,
        Bridge!TypeOK, Bridge!Flops
  <1>5. Bridge!start_edge => Requested
    BY <1>3, <1>4 DEF Bridge!start_edge, Requested, TxAsked, ListenAsked
  <1>6. Bridge!start_edge => ~ CoreAtWork /\ ~ Answering
    BY <1>2, <1>5 DEF Asks
  <1>7. ASSUME Bridge!Captures
        PROVE  CoreAtWork /\ ~ CoreAtWork' /\ ~ Answering
    <2>1. CapDelay \in Nat /\ CapDelay >= 3
      BY JoinedAssumption DEF JoinedAssumption, Steady
    <2>2. msg_cap_delay = CapDelay /\ ~ Bridge!start_edge
      BY <1>7 DEF Bridge!Captures
    <2>3. ber = "idle" /\ ~ ber_done /\ ~ start_pulse_sample
      BY <2>1, <2>2 DEF JoinedInv, Ending
    <2>4. ber' = "idle" /\ ~ ber_done' /\ ~ timed_out'
      BY <1>2, <2>3, IdleStays
    <2>5. ~ start_pulse_sample' /\ ~ done' /\ msg_cap_delay' = 0
      BY <1>7, <2>2, <2>3
      DEF RfClock, Bridge!SampleClock, Bridge!Attempt, Bridge!Receiver
    <2>6. CoreAtWork
      BY <2>1, <2>2 DEF CoreAtWork
    <2> QED
      BY <1>2, <2>4, <2>5, <2>6 DEF CoreAtWork, Asks
  <1>8. /\ Answering' <=> Answering \/ Bridge!Captures
        /\ InOrder(modem_rx_toggle, modem_rx_sync)'
    <2>1. modem_rx_sync \in [1..3 -> BOOLEAN]
      BY <1>2 DEF JoinedTypeOK, TypeOK
    <2>2. CASE ~ Bridge!Captures
      <3>1. modem_rx_toggle' = modem_rx_toggle
        BY <1>1, <2>2
      <3>2. Answering' <=> Answering
        BY <1>1, <3>1 DEF Answering
      <3>3. InOrder(modem_rx_toggle, modem_rx_sync)'
        BY <1>1, <1>2, <3>1 DEF Crossings, InOrder
      <3> QED
        BY <2>2, <3>2, <3>3
    <2>3. CASE Bridge!Captures
      <3>1. modem_rx_toggle' = ~ modem_rx_toggle
        BY <1>1, <2>3
      <3>2. /\ modem_rx_sync[3] = modem_rx_toggle /\ modem_rx_sync[2] = modem_rx_toggle
            /\ modem_rx_sync[1] = modem_rx_toggle
        BY <1>2, <1>7, <2>3 DEF Answering, Crossings, InOrder
      <3>3. /\ modem_rx_sync[3] # modem_rx_toggle' /\ modem_rx_sync[2] # modem_rx_toggle'
            /\ modem_rx_sync[1] # modem_rx_toggle' /\ modem_rx_sync' = modem_rx_sync
        BY <1>1, <3>1, <3>2
      <3>4. Answering' /\ InOrder(modem_rx_toggle, modem_rx_sync)'
        BY <3>3 DEF Answering, InOrder
      <3> QED
        BY <2>3, <3>4
    <2> QED
      BY <2>2, <2>3
  <1> QED
    BY <1>3, <1>4, <1>6, <1>7, <1>8 DEF Crossings

\* a sample clock turns a request into work, and work into an answer, one at a time
LEMMA RfAsks ==
  ASSUME Steady, JoinedInv, NEW hears \in Bridge!Events, NEW packet \in Frames,
         NEW burst_ends \in BOOLEAN, RfClock(hears, packet, burst_ends)
  PROVE  Asks' /\ (Owed' => Owed)
  <1>1. /\ modem_wait' = modem_wait /\ listen_inflight' = listen_inflight
        /\ msg_cap_armed' <=> Bridge!start_edge \/ (msg_cap_armed /\ ~ Bridge!Captures)
    BY DEF RfClock, mailboxVars, coreRegs, Bridge!SampleClock, Bridge!Attempt
  <1>2. /\ Requested' <=> TxAsked' \/ ListenAsked'
        /\ Requested <=> TxAsked \/ ListenAsked
        /\ Bridge!start_edge <=> Bridge!Edge(msg_tx_sync) \/ Bridge!Edge(msg_listen_sync)
    BY DEF Requested, TxAsked, ListenAsked, Bridge!start_edge
  <1>3. ~ (TxAsked /\ ListenAsked)
    BY DEF JoinedInv, Asks, OneUser
  <1>4. Bridge!start_edge => ~ Requested'
    BY <1>2, <1>3, RfWays
  <1>5. /\ Requested' => Requested
        /\ Bridge!start_edge => Requested
    BY <1>2, RfWays
  <1>6. CoreAtWork' => CoreAtWork \/ Bridge!start_edge
    BY WorkBegins DEF JoinedInv
  <1>7. /\ TxAsked' => modem_wait'
        /\ ListenAsked' => listen_inflight'
    BY <1>1, RfWays DEF JoinedInv, Asks
  <1>8. CoreAtWork' => msg_cap_armed'
    BY <1>1, <1>6, RfWays DEF JoinedInv, Asks
  <1>9. Requested' => ~ CoreAtWork'
    BY <1>4, <1>5, <1>6 DEF JoinedInv, Asks
  <1>10. Answering' => ~ Requested' /\ ~ msg_cap_armed'
    <2>1. CASE Answering
      BY <1>1, <1>5, <2>1, RfWays DEF JoinedInv, Asks
    <2>2. CASE Bridge!Captures
      <3>1. ~ Requested /\ ~ Bridge!start_edge
        BY <2>2, RfWays DEF JoinedInv, Asks
      <3> QED
        BY <1>1, <1>5, <2>2, <3>1
    <2> QED
      BY <2>1, <2>2, RfWays
  <1>11. Owed' => Owed
    <2>1. CoreAtWork' /\ msg_cap_armed' => Owed
      BY <1>1, <1>5, <1>6 DEF Owed, JoinedInv, Asks
    <2>2. Answering' => Owed
      BY RfWays DEF Owed, JoinedInv, Asks
    <2> QED
      BY <1>5, <2>1, <2>2 DEF Owed
  <1>12. Owed' => modem_wait' \/ listen_inflight'
    BY <1>1, <1>11 DEF JoinedInv, Asks
  <1> QED
    BY <1>7, <1>8, <1>9, <1>10, <1>11, <1>12 DEF Asks

\* the attempt that starts is the one the mailbox waits for
LEMMA RfMatches ==
  ASSUME Steady, JoinedInv, NEW hears \in Bridge!Events, NEW packet \in Frames,
         NEW burst_ends \in BOOLEAN, RfClock(hears, packet, burst_ends)
  PROVE  Matches'
  <1>1. modem_wait' = modem_wait /\ listen_inflight' = listen_inflight
    BY DEF RfClock, mailboxVars, coreRegs
  <1>2. CASE Bridge!start_edge
    <2>1. /\ msg_mode_sample' = Bridge!Edge(msg_tx_sync)
          /\ msg_listen_sample' = (Bridge!Edge(msg_listen_sync)
                                      /\ ~ Bridge!Edge(msg_tx_sync))
      BY <1>2 DEF RfClock, Bridge!SampleClock, Bridge!Attempt
    <2>2. ~ (modem_wait /\ listen_inflight)
      BY DEF JoinedInv, OneUser
    <2>3. /\ Bridge!Edge(msg_tx_sync) => modem_wait
          /\ Bridge!Edge(msg_listen_sync) => listen_inflight
      BY RfWays DEF JoinedInv, Asks
    <2> QED
      BY <1>1, <1>2, <2>1, <2>2, <2>3 DEF Matches, Bridge!start_edge
  <1>3. CASE ~ Bridge!start_edge
    <2>1. msg_mode_sample' = msg_mode_sample /\ msg_listen_sample' = msg_listen_sample
      BY <1>3 DEF RfClock, Bridge!SampleClock, Bridge!Attempt
    <2>2. CoreAtWork' \/ Answering' => CoreAtWork \/ Answering
      BY <1>3, RfWays, WorkBegins DEF JoinedInv
    <2> QED
      BY <1>1, <2>1, <2>2 DEF JoinedInv, Matches
  <1> QED
    BY <1>2, <1>3

\* a stop passes the flops ahead of the listen toggle that was changed after it
LEMMA RfStopping ==
  ASSUME Steady, JoinedInv, NEW hears \in Bridge!Events, NEW packet \in Frames,
         NEW burst_ends \in BOOLEAN, RfClock(hears, packet, burst_ends)
  PROVE  Stopping'
  <1>1. /\ UNCHANGED <<modem_stop_toggle, modem_listen_toggle>>
        /\ stopped' = stopped
    BY DEF RfClock, mailboxVars, coreRegs
  <1>2. JoinedTypeOK /\ Stopping
    BY DEF JoinedInv
  <1>3. ~ stopped =>
          /\ msg_stop_sync'[1] = modem_stop_toggle
          /\ msg_stop_sync'[1] # msg_stop_sync'[2]
                => msg_listen_sync'[2] # modem_listen_toggle
          /\ msg_stop_sync'[2] # msg_stop_sync'[3]
                => msg_listen_sync'[3] # modem_listen_toggle
    BY <1>2, RfShifts DEF Stopping
  <1>4. ASSUME msg_abort_pending'
        PROVE  stopped' \/ ListenAsked'
    <2>1. /\ ~ Bridge!start_edge
          /\ msg_abort_pending \/ Bridge!Edge(msg_stop_sync)
      BY <1>4 DEF RfClock, Bridge!SampleClock, Bridge!AbortRequest
    <2>2. ListenAsked' <=> ListenAsked
      BY <2>1, RfWays DEF Bridge!start_edge
    <2>3. Bridge!Edge(msg_stop_sync) => stopped \/ ListenAsked
      BY <1>2 DEF Stopping, Bridge!Edge, ListenAsked, Asked
    <2> QED
      BY <1>1, <1>2, <2>1, <2>2, <2>3 DEF Stopping
  <1> QED
    BY <1>1, <1>3, <1>4 DEF Stopping

\* the pulses at the end of an attempt follow each other down the capture delay
LEMMA RfEnding ==
  ASSUME Steady, JoinedInv, NEW hears \in Bridge!Events, NEW packet \in Frames,
         NEW burst_ends \in BOOLEAN, RfClock(hears, packet, burst_ends)
  PROVE  Ending'
  <1>1. JoinedTypeOK /\ Ending /\ CapDelay \in Nat /\ msg_cap_delay \in Nat
    BY JoinedAssumption DEF JoinedInv, JoinedTypeOK, Bridge!TypeOK, JoinedAssumption
  <1>2. /\ ber_done' = Bridge!Ends(hears) /\ done' = ber_done
        /\ timed_out' = Bridge!GivesUp(hears) /\ ber_abort' = Bridge!GivesUp(hears)
    BY DEF RfClock, Bridge!SampleClock, Bridge!Receiver
  <1>3. /\ start_pulse_sample' = Bridge!start_edge
        /\ msg_cap_delay' = IF Bridge!start_edge \/ Bridge!Captures THEN 0
                            ELSE IF Bridge!EndSeen THEN 1
                            ELSE IF msg_cap_delay # 0 THEN msg_cap_delay + 1 ELSE 0
    BY DEF RfClock, Bridge!SampleClock, Bridge!Attempt
  <1>4. ber # "idle" /\ Bridge!Ends(hears) => ber' = "idle"
    BY DEF RfClock, Bridge!SampleClock, Bridge!Receiver, Bridge!FrameStart,
           Bridge!CoreBusy
  <1>5. /\ Bridge!Ends(hears) => ber # "idle"
        /\ Bridge!GivesUp(hears) => ber # "idle"
    BY DEF Bridge!Ends, Bridge!GivesUp
  <1>6. ber = "idle" /\ ~ start_pulse_sample
          => ber' = "idle" /\ ~ ber_done' /\ ~ timed_out' /\ received' = received
    BY <1>1, IdleStays
  <1>7. start_pulse_sample' => /\ ber' = "idle" /\ ~ ber_done' /\ ~ done' /\ ~ timed_out'
                               /\ msg_cap_delay' = 0
    BY <1>2, <1>3, <1>6, RfWays DEF CoreAtWork
  <1>8. ber_done' \/ done' => ber' = "idle"
    BY <1>1, <1>2, <1>4, <1>5, <1>6 DEF Ending
  <1>9. timed_out' = ber_abort'
    BY <1>2
  <1>10. ASSUME timed_out', msg_cap_delay' = 0
         PROVE  ber' # "idle"
    <2>1. ber # "idle" /\ hears # "whole"
      BY <1>2, <1>5, <1>10
      DEF Bridge!GivesUp, Bridge!QuietEnough, RfClock, Bridge!SampleClock,
          Bridge!Receiver, Bridge!CanHear, Bridge!BitsFlow
    <2>2. msg_cap_armed /\ ~ Bridge!start_edge
      BY <2>1, RfWays DEF JoinedInv, Asks, CoreAtWork
    <2>3. ~ Bridge!Captures /\ msg_cap_delay = 0
      BY <1>1, <2>1, RfWays, JoinedAssumption
      DEF Ending, Bridge!Captures, JoinedAssumption
    <2>4. ~ ber_abort
      BY <1>1, <1>3, <1>10, <2>2, <2>3 DEF Ending, Bridge!EndSeen
    <2>5. ~ Bridge!Ends(hears)
      BY <2>1, <2>4 DEF Bridge!Ends, Bridge!Completes
    <2> QED
      BY <2>1, <2>5 DEF RfClock, Bridge!SampleClock, Bridge!Receiver
  <1>11. ASSUME msg_cap_delay' # 0
         PROVE  ber' = "idle" /\ (done' \/ ber_done' \/ Latched')
    <2>1. ~ Bridge!start_edge /\ (Bridge!EndSeen \/ msg_cap_delay # 0)
      BY <1>3, <1>11
    <2>2. /\ done => done_sticky_sample' /\ received_sample' = received
          /\ ~ done => /\ done_sticky_sample' <=> done_sticky_sample
                       /\ received_sample' <=> received_sample
      BY <2>1 DEF RfClock, Bridge!SampleClock, Bridge!Result
    <2>3. CASE ber = "idle"
      <3>1. ~ start_pulse_sample
        BY <1>1, <2>1 DEF Ending, Bridge!EndSeen
      <3>2. ber' = "idle" /\ received' = received
        BY <1>6, <2>3, <3>1
      <3>3. done \/ ber_done \/ Latched
        BY <1>1, <2>1, <2>3 DEF Ending, Bridge!EndSeen
      <3>4. CASE done
        BY <2>2, <3>2, <3>4 DEF Latched
      <3>5. CASE ~ done /\ Latched
        <4>1. /\ received_sample' \in BOOLEAN /\ received_sample \in BOOLEAN
              /\ done_sticky_sample' \in BOOLEAN /\ done_sticky_sample \in BOOLEAN
          BY <1>1, RfTyped DEF JoinedTypeOK, Bridge!TypeOK
        <4> QED
          BY <2>2, <3>2, <3>5, <4>1 DEF Latched
      <3> QED
        BY <1>2, <3>2, <3>3, <3>4, <3>5
    <2>4. CASE ber # "idle"
      <3>1. Bridge!EndSeen /\ ~ done
        BY <1>1, <2>1, <2>4 DEF Ending
      <3>2. ber_abort
        BY <1>1, <3>1 DEF Ending, Bridge!EndSeen
      <3> QED
        BY <1>2, <1>4, <2>4, <3>2 DEF Bridge!Ends
    <2> QED
      BY <2>3, <2>4
  <1>12. ASSUME msg_cap_delay' >= 2
         PROVE  msg_cap_delay # 0 /\ msg_cap_delay' = msg_cap_delay + 1
    BY <1>1, <1>3, <1>12 DEF Bridge!EndSeen
  <1>13. msg_cap_delay' \in Nat
    BY <1>1, <1>3
  <1>14. msg_cap_delay' >= 2 => ~ ber_done' /\ ~ timed_out'
    BY <1>1, <1>6, <1>12 DEF Ending
  <1>15. ASSUME msg_cap_delay' >= 3
         PROVE  ~ done'
    <2>1. msg_cap_delay >= 2
      BY <1>1, <1>12, <1>13, <1>15
    <2> QED
      BY <1>1, <1>2, <2>1 DEF Ending
  <1> QED
    BY <1>7, <1>8, <1>9, <1>10, <1>11, <1>14, <1>15 DEF Ending

\* every sample clock keeps the invariant
LEMMA RfKeepsInv ==
  ASSUME Steady, JoinedInv, NEW hears \in Bridge!Events, NEW packet \in Frames,
         NEW burst_ends \in BOOLEAN, RfClock(hears, packet, burst_ends)
  PROVE  JoinedInv'
  <1>1. JoinedTypeOK'
    BY RfTyped DEF JoinedInv
  <1>2. OneUser'
    BY DEF JoinedInv, OneUser, RfClock, mailboxVars, coreRegs, rxRegs
  <1>3. ~ overdue'
    BY DEF JoinedInv, Steady, RfClock, Bridge!SampleClock, Bridge!Receiver, Bridge!CanHear
  <1>4. Expired'
    BY RfAsks DEF RfClock, mailboxVars, coreRegs, JoinedInv, Expired
  <1> QED
    BY <1>1, <1>2, <1>3, <1>4, RfWays, RfAsks, RfMatches, RfStopping, RfEnding
    DEF JoinedInv

\* no clock, no change of the invariant
LEMMA JoinedStutterInv ==
  ASSUME JoinedInv, UNCHANGED joinedVars
  PROVE  JoinedInv'
  <1> USE DEF joinedVars, vars, mailboxVars, txRegs, rxRegs, coreRegs, modemPort, sampleRegs
  <1>1. JoinedTypeOK' /\ OneUser' /\ ~ overdue'
    BY JoinedStutter DEF JoinedInv, OneUser
  <1>2. /\ Requested' <=> Requested
        /\ CoreAtWork' <=> CoreAtWork
        /\ Answering' <=> Answering
    BY DEF Requested, Asked, CoreAtWork, Answering
  <1>3. Owed' <=> Owed
    BY <1>2 DEF Owed
  <1>4. Crossings' /\ Asks' /\ Expired'
    BY <1>2, <1>3
    DEF JoinedInv, Crossings, InOrder, Asks, TxAsked, ListenAsked, Asked, Expired
  <1>5. Matches' /\ Ending' /\ Stopping'
    BY <1>2 DEF JoinedInv, Matches, Ending, Latched, Stopping, ListenAsked, Asked
  <1> QED
    BY <1>1, <1>4, <1>5 DEF JoinedInv

-----------------------------------------------------------------------------
(* The safety of the joined clocks.                                        *)

\* the invariant holds initially and every step keeps it
LEMMA JoinedInvKept == Steady => (JoinedSpec => []JoinedInv)
  <1> SUFFICES ASSUME Steady PROVE JoinedSpec => []JoinedInv
    OBVIOUS
  <1>1. JoinedInv /\ [JoinedNext]_joinedVars => JoinedInv'
    BY AxiKeepsInv, RfKeepsInv, JoinedStutterInv DEF JoinedNext, AnyAxiClock, AnyRfClock
  <1> QED
    BY <1>1, JoinedInitInv, PTL DEF JoinedSpec

(***************************************************************************)
(* While the modem owes an answer the mailbox waits for it, and requests   *)
(* and answers never pile up, wherever the two clocks fall.                *)
(***************************************************************************)
THEOREM OneAnswerAtATime == Steady => (JoinedSpec => []OneAnswerOwed)
  <1>1. JoinedInv => OneAnswerOwed
    <2>1. JoinedInv => ~ (TxAsked /\ ListenAsked)
      BY DEF JoinedInv, Asks, OneUser
    <2> QED
      BY <2>1 DEF JoinedInv, Asks, OneAnswerOwed, TxAsked, ListenAsked
  <1> QED
    BY <1>1, JoinedInvKept, PTL

\* the answer taken is to the attempt waited for, a message's or a listening one's
THEOREM AnswersMatch == Steady => (JoinedSpec => []AnswerMatches)
  <1>1. JoinedInv => AnswerMatches
    <2> SUFFICES ASSUME JoinedInv, RxEdge
                 PROVE  /\ modem_wait => msg_mode_sample
                        /\ listen_inflight => msg_listen_sample
      BY DEF AnswerMatches
    <2>1. Answering
      BY DEF RxEdge, Answering, JoinedInv, Crossings, InOrder, JoinedTypeOK, TypeOK
    <2> QED
      BY <2>1 DEF JoinedInv, Matches
  <1> QED
    BY <1>1, JoinedInvKept, PTL

\* a late RX_STOP never cuts short a listening attempt asked for after it
THEOREM LateStopIsDropped == Steady => (JoinedSpec => []NoStaleAbort)
  <1>1. JoinedInv => NoStaleAbort
    <2> SUFFICES ASSUME JoinedInv, msg_abort_pending, ber = "search" PROVE stopped
      BY DEF NoStaleAbort
    <2>1. ~ ListenAsked
      BY DEF JoinedInv, Asks, CoreAtWork, Requested, ListenAsked
    <2> QED
      BY <2>1 DEF JoinedInv, Stopping
  <1> QED
    BY <1>1, JoinedInvKept, PTL

\* RX_LOCKED is captured when the attempt is over and its counters are latched
THEOREM CapturesSettled == Steady => (JoinedSpec => []AnswerSettled)
  <1> SUFFICES ASSUME Steady PROVE JoinedSpec => []AnswerSettled
    OBVIOUS
  <1>1. JoinedInv => AnswerSettled
    <2> SUFFICES ASSUME JoinedInv, Bridge!Captures
                 PROVE  /\ ber = "idle" /\ ~ ber_done /\ ~ done /\ ~ timed_out
                        /\ done_sticky_sample /\ received_sample = received
      BY DEF AnswerSettled
    <2>1. msg_cap_delay = CapDelay /\ CapDelay \in Nat /\ CapDelay >= 3
      BY JoinedAssumption DEF Bridge!Captures, Steady, JoinedAssumption
    <2> QED
      BY <2>1 DEF JoinedInv, Ending, Latched
  <1> QED
    BY <1>1, JoinedInvKept, PTL
=============================================================================
