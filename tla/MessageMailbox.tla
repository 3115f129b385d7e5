--------------------------- MODULE MessageMailbox ---------------------------
(***************************************************************************)
(* The PS/PL message mailbox, zynq_message_mailbox_axi_lite.v: the         *)
(* registers the PS sees and the core behind them, one step per cycle of   *)
(* the AXI clock.  Mode 0 echoes TX to RX; Mode 1 hands messages to the    *)
(* QPSK modem and collects its answers through toggles.                    *)
(*                                                                         *)
(* A step applies at most one register write.  The write is decoded in the *)
(* same clock edge as the core's own completions, and where both assign a  *)
(* register the write wins, as the later non-blocking assignment does.     *)
(*                                                                         *)
(* Data: a message is [seq, len, data]; payload bytes are one value of     *)
(* Payloads, a frame on the modem port carries crc = whether its CRC-16    *)
(* matches.  The 50e6-cycle timers are "counting" or "expired".            *)
(***************************************************************************)
EXTENDS Naturals

CONSTANTS
  Mode,         \* 0 = PL echo, 1 = QPSK modem
  MaxPayload,   \* MAX_PAYLOAD, bytes a packet-v1 carries (27)
  EchoMax,      \* bytes in the data window (64)
  SeqModulus,   \* the packet carries the sequence modulo this (2^16)
  Sequences,    \* values the PS writes to TX_SEQUENCE
  Lengths,      \* values the PS writes to TX_LENGTH
  Payloads,     \* contents of the 16 data words
  Blank,        \* the all-zero contents
  ControlWords, \* the sets of CONTROL bits the PS writes at once
  Frames        \* frames the modem may hand back

ControlBits == {"TX_START", "RX_ACK", "RX_LISTEN", "RX_STOP"}

FrameType == [seq : Nat, len : Nat, data : Payloads, crc : BOOLEAN]

(***************************************************************************)
(* No control word starts a transmission and a listening at once: zmbox.c  *)
(* and zynq_message_console.py write one command bit at a time.            *)
(***************************************************************************)
ASSUME MailboxAssumption ==
  /\ Mode \in {0, 1}
  /\ MaxPayload \in Nat
  /\ EchoMax \in Nat /\ MaxPayload <= EchoMax
  /\ SeqModulus \in Nat \ {0}
  /\ Sequences \subseteq Nat
  /\ Lengths \subseteq Nat
  /\ Blank \in Payloads
  /\ Frames \subseteq FrameType
  /\ \A c \in ControlWords : /\ c \subseteq ControlBits
                             /\ ~ {"TX_START", "RX_LISTEN"} \subseteq c

VARIABLES
  tx_sequence, tx_length, tx_data,  \* TX registers
  rx,                               \* RX_SEQUENCE, RX_LENGTH, RX_META, RX_DATA
  tx_busy, tx_done, rx_valid, rx_overflow,
  echo_pending,                     \* Mode 0: the copy is due next clock
  modem_wait, modem_timer,          \* Mode 1: a message is with the modem
  listening, listen_inflight, listen_timer,
  modem_tx_bits, modem_tx_toggle, modem_listen_toggle, modem_stop_toggle,
  modem_rx_sync,                    \* the three flops modem_rx_toggle crosses
  s_axi_bvalid,                     \* the last write's response is on the bus
  modem_rx_toggle, modem_rx_bits, modem_rx_locked   \* driven by the modem

txRegs    == <<tx_sequence, tx_length, tx_data>>
rxRegs    == <<rx, rx_valid, rx_overflow>>
coreRegs  == <<tx_busy, tx_done, echo_pending, modem_wait, modem_timer,
               listening, listen_inflight, listen_timer, modem_tx_bits,
               modem_tx_toggle, modem_listen_toggle, modem_stop_toggle,
               modem_rx_sync, s_axi_bvalid>>
modemPort == <<modem_rx_toggle, modem_rx_bits, modem_rx_locked>>
mailboxVars == <<txRegs, rxRegs, coreRegs>>
vars == <<mailboxVars, modemPort>>

\* a message as the modem carries it
Packet  == [seq : 0..SeqModulus - 1, len : 0..MaxPayload, data : Payloads]
Metas   == {"NONE", "CRC_OK", "FRAME_ERROR"}
Timers  == {"counting", "expired"}

BlankFrame == [seq |-> 0, len |-> 0, data |-> Blank, crc |-> FALSE]

TypeOK ==
  /\ tx_sequence \in Nat /\ tx_length \in Nat /\ tx_data \in Payloads
  /\ rx \in [seq : Nat, len : 0..EchoMax, meta : Metas, data : Payloads]
  /\ tx_busy \in BOOLEAN /\ tx_done \in BOOLEAN
  /\ rx_valid \in BOOLEAN /\ rx_overflow \in BOOLEAN
  /\ echo_pending \in BOOLEAN
  /\ modem_wait \in BOOLEAN /\ modem_timer \in Timers
  /\ listening \in BOOLEAN /\ listen_inflight \in BOOLEAN
  /\ listen_timer \in Timers
  /\ modem_tx_bits \in Packet
  /\ modem_tx_toggle \in BOOLEAN /\ modem_listen_toggle \in BOOLEAN
  /\ modem_stop_toggle \in BOOLEAN
  /\ modem_rx_sync \in [1..3 -> BOOLEAN]
  /\ s_axi_bvalid \in BOOLEAN
  /\ modem_rx_toggle \in BOOLEAN /\ modem_rx_locked \in BOOLEAN
  /\ modem_rx_bits \in FrameType

InitMailbox ==
  /\ tx_sequence = 0 /\ tx_length = 0 /\ tx_data = Blank
  /\ rx = [seq |-> 0, len |-> 0, meta |-> "NONE", data |-> Blank]
  /\ tx_busy = FALSE /\ tx_done = FALSE
  /\ rx_valid = FALSE /\ rx_overflow = FALSE
  /\ echo_pending = FALSE
  /\ modem_wait = FALSE /\ modem_timer = "counting"
  /\ listening = FALSE /\ listen_inflight = FALSE /\ listen_timer = "counting"
  /\ modem_tx_bits = [seq |-> 0, len |-> 0, data |-> Blank]
  /\ modem_tx_toggle = FALSE /\ modem_listen_toggle = FALSE
  /\ modem_stop_toggle = FALSE
  /\ modem_rx_sync = [i \in 1..3 |-> FALSE]
  /\ s_axi_bvalid = FALSE

InitPort ==
  /\ modem_rx_toggle = FALSE /\ modem_rx_locked = FALSE
  /\ modem_rx_bits = BlankFrame

Init == InitMailbox /\ InitPort

-----------------------------------------------------------------------------
(* Register writes, as decoded in one clock.                               *)

NoWrite         == [reg |-> "NONE"]
Control(bits)   == [reg |-> "CONTROL", bits |-> bits]
Sequence(s)     == [reg |-> "TX_SEQUENCE", value |-> s]
Length(n)       == [reg |-> "TX_LENGTH", value |-> n]
Data(d)         == [reg |-> "TX_DATA", value |-> d]

Commands(w, bit) == w.reg = "CONTROL" /\ bit \in w.bits

Stops(w)   == Mode = 1 /\ Commands(w, "RX_STOP")

\* variants: TX_START taken while the stopped attempt runs, while busy;
\* RX_LISTEN taken while a transmission is in progress
StartsWhileStopping(w) == Commands(w, "TX_START") /\ ~ tx_busy /\ ~ listening
StartsWhileBusy(w) == Commands(w, "TX_START") /\ ~ listening /\ ~ listen_inflight
ListensWhileBusy(w) == /\ Mode = 1 /\ Commands(w, "RX_LISTEN")
                       /\ ~ Commands(w, "RX_STOP") /\ ~ listening

Listens(w) == /\ Mode = 1 /\ Commands(w, "RX_LISTEN")
              /\ ~ Commands(w, "RX_STOP")
              /\ ~ tx_busy /\ ~ listening
Starts(w)  == /\ Commands(w, "TX_START")
              /\ ~ tx_busy /\ ~ listening /\ ~ listen_inflight

-----------------------------------------------------------------------------
(* The core's own events in this clock.                                    *)

\* bytes beyond the length read as zero
Clip(len, data) == IF len = 0 THEN Blank ELSE data

TxPacket == [seq |-> tx_sequence % SeqModulus, len |-> tx_length,
             data |-> Clip(tx_length, tx_data)]

RxEdge == modem_rx_sync[3] # modem_rx_sync[2]

\* variants: no MODEM_TIMEOUT
ModemEndsOnAnswer  == Mode = 1 /\ modem_wait /\ RxEdge
ListenEndsOnAnswer == Mode = 1 /\ listen_inflight /\ RxEdge

ModemEnds  == Mode = 1 /\ modem_wait /\ (RxEdge \/ modem_timer = "expired")
ListenEnds == Mode = 1 /\ listen_inflight
                       /\ (RxEdge \/ listen_timer = "expired")

\* variant: the last attempt of a stopped listening delivers too
ListenDeliversStopped ==
  /\ ListenEnds /\ RxEdge /\ modem_rx_locked
  /\ modem_rx_bits.crc /\ modem_rx_bits.len <= MaxPayload

ListenDelivers == /\ ListenEnds /\ listening
                  /\ RxEdge /\ modem_rx_locked
                  /\ modem_rx_bits.crc /\ modem_rx_bits.len <= MaxPayload

\* something arrives for the RX registers
Arrives == echo_pending \/ ModemEnds \/ ListenDelivers

EchoSnapshot ==
  [seq |-> tx_sequence, data |-> tx_data,
   len |-> IF tx_length <= EchoMax THEN tx_length ELSE EchoMax,
   meta |-> IF tx_length <= EchoMax THEN "CRC_OK" ELSE "FRAME_ERROR"]

NoFrameSnapshot == [seq |-> 0, len |-> 0, meta |-> "FRAME_ERROR", data |-> Blank]

FrameSnapshot(f) ==
  LET fits == f.len <= MaxPayload
  IN  [seq |-> f.seq, data |-> Clip(f.len, f.data),
       len |-> IF fits THEN f.len ELSE 0,
       meta |-> IF ~ fits THEN "FRAME_ERROR" ELSE IF f.crc THEN "CRC_OK" ELSE "NONE"]

Snapshot ==
  IF ListenDelivers \/ (ModemEnds /\ RxEdge /\ modem_rx_locked)
  THEN FrameSnapshot(modem_rx_bits)
  ELSE IF ModemEnds THEN NoFrameSnapshot ELSE EchoSnapshot

-----------------------------------------------------------------------------
(* The registers' next values, one operator per group.                     *)

TxRegisters(w) ==
  /\ tx_sequence' = IF w.reg = "TX_SEQUENCE" THEN w.value ELSE tx_sequence
  /\ tx_length'   = IF w.reg = "TX_LENGTH" THEN w.value ELSE tx_length
  /\ tx_data'     = IF w.reg = "TX_DATA" THEN w.value ELSE tx_data

RxRegisters(w) ==
  /\ rx' = IF Arrives /\ ~ rx_valid THEN Snapshot ELSE rx
  /\ rx_valid' = ((rx_valid \/ Arrives) /\ ~ Commands(w, "RX_ACK"))
  /\ rx_overflow' = ((rx_overflow \/ (Arrives /\ rx_valid))
                       /\ ~ Commands(w, "RX_ACK"))

\* variant: the length is not checked
SendsAnyLength(w) == Starts(w) /\ Mode = 1

\* a start the modem can carry; a longer message only waits for its timer
Sends(w) == Starts(w) /\ Mode = 1 /\ tx_length <= MaxPayload

Transmission(w, expires) ==
  /\ tx_busy' = (Starts(w) \/ (tx_busy /\ ~ echo_pending /\ ~ ModemEnds))
  /\ tx_done' = (~ Starts(w) /\ (tx_done \/ echo_pending \/ ModemEnds))
  /\ echo_pending' = (Starts(w) /\ Mode = 0)
  /\ modem_wait' = ((Starts(w) /\ Mode = 1) \/ (modem_wait /\ ~ ModemEnds))
  /\ modem_timer' = IF Sends(w) THEN "counting"
                    ELSE IF Starts(w) /\ Mode = 1 THEN "expired"
                    ELSE IF modem_wait /\ expires THEN "expired" ELSE modem_timer
  /\ modem_tx_bits' = IF Sends(w) THEN TxPacket ELSE modem_tx_bits
  /\ modem_tx_toggle' = (modem_tx_toggle # Sends(w))

\* the attempt that just ended is followed by another one while listening
Rearms == ListenEnds /\ listening
FirstListen(w) == Listens(w) /\ ~ listen_inflight

Reception(w, expires) ==
  /\ listening' = ((listening /\ ~ Stops(w)) \/ Listens(w))
  /\ listen_inflight' = (FirstListen(w)
                           \/ (IF ListenEnds THEN listening ELSE listen_inflight))
  /\ listen_timer' = IF FirstListen(w) \/ ListenEnds THEN "counting"
                     ELSE IF listen_inflight /\ expires THEN "expired"
                     ELSE listen_timer
  /\ modem_listen_toggle' = (modem_listen_toggle # (FirstListen(w) \/ Rearms))
  /\ modem_stop_toggle' = (modem_stop_toggle # (Stops(w) /\ listen_inflight))

Synchronizer ==
  modem_rx_sync' = [i \in 1..3 |-> IF i = 1 THEN Mode = 1 /\ modem_rx_toggle
                                            ELSE modem_rx_sync[i - 1]]

\* a write is taken only when the response of the one before it is gone
WriteResponse(w) ==
  /\ w # NoWrite => ~ s_axi_bvalid
  /\ s_axi_bvalid' = (w # NoWrite)

\* one AXI clock with write w; the running timer reaches MODEM_TIMEOUT if expires
Clock(w, expires) ==
  /\ WriteResponse(w)
  /\ TxRegisters(w)
  /\ RxRegisters(w)
  /\ Transmission(w, expires)
  /\ Reception(w, expires)
  /\ Synchronizer

Writes == {NoWrite} \cup {Control(c) : c \in ControlWords}
            \cup {Sequence(s) : s \in Sequences} \cup {Length(n) : n \in Lengths}
            \cup {Data(d) : d \in Payloads}

-----------------------------------------------------------------------------
(* The mailbox alone: the PS writes what it likes, and the modem answers   *)
(* when it likes, asked or not; between two answers it takes longer than   *)
(* the toggle takes to cross the three flops.                              *)

Tick == \E w \in Writes, expires \in BOOLEAN :
          Clock(w, expires) /\ UNCHANGED modemPort

ModemAnswers(f, locked) ==
  /\ \A i \in 1..3 : modem_rx_sync[i] = modem_rx_toggle
  /\ modem_rx_toggle' = ~ modem_rx_toggle
  /\ modem_rx_bits' = f
  /\ modem_rx_locked' = locked
  /\ UNCHANGED mailboxVars

Next ==
  \/ Tick
  \/ Mode = 1 /\ \E f \in Frames : ModemAnswers(f, TRUE)
  \/ Mode = 1 /\ ModemAnswers(BlankFrame, FALSE)

Spec == Init /\ [][Next]_vars

(***************************************************************************)
(* The clock runs, and a timer that keeps counting for one and the same    *)
(* attempt reaches MODEM_TIMEOUT.                                          *)
(***************************************************************************)
Expiry(waiting) ==
  /\ waiting
  /\ \E w \in Writes : Clock(w, TRUE) /\ UNCHANGED modemPort

FairSpec == /\ Spec
            /\ WF_vars(Tick)
            /\ WF_vars(Expiry(modem_wait /\ modem_timer = "counting"))
            /\ WF_vars(Expiry(listen_inflight /\ ~ listening
                                /\ listen_timer = "counting"))
-----------------------------------------------------------------------------
(* Properties.                                                             *)

(***************************************************************************)
(* The modem port has one user at a time.  TX_BUSY is up exactly while an  *)
(* echo is due or the modem has the message, and never while a listening   *)
(* is on or its last attempt is still running, so that an answer can mean  *)
(* only one thing; RX_OVERFLOW is only ever about an unread message.       *)
(***************************************************************************)
OneUser ==
  /\ tx_busy <=> (echo_pending \/ modem_wait)
  /\ tx_busy => ~ listening /\ ~ listen_inflight /\ ~ tx_done
  /\ Mode = 0 => ~ modem_wait /\ ~ listening /\ ~ listen_inflight
  /\ Mode = 1 => ~ echo_pending
  /\ rx_overflow => rx_valid

(***************************************************************************)
(* "modem_tx_bits is stable before modem_tx_toggle changes": while the     *)
(* modem has a message neither the bits nor the toggle move, whatever the  *)
(* PS writes to the TX registers meanwhile.                                *)
(***************************************************************************)
RequestHeld ==
  [][modem_wait => UNCHANGED <<modem_tx_bits, modem_tx_toggle>>]_vars

(***************************************************************************)
(* With no transmission of the PS in progress RX_VALID rises only while    *)
(* listening is on, and only for a frame with a matching CRC and a length  *)
(* in range: neither a bad answer, nor a good one of an attempt that       *)
(* RX_STOP has ended, nor one that nobody waits for any more reaches the   *)
(* RX registers (lines 333-352).                                           *)
(***************************************************************************)
ListeningDeliversGood ==
  [][~ tx_busy /\ ~ rx_valid /\ rx_valid'
       => listening /\ rx'.meta = "CRC_OK" /\ rx'.len <= MaxPayload]_vars

(***************************************************************************)
(* A message that arrives is put in the RX registers or, if these hold an  *)
(* unread one, leaves RX_OVERFLOW set for the PS to see.                   *)
(***************************************************************************)
NothingLostSilently ==
  [][Arrives => rx_valid' /\ (rx_valid => rx_overflow')]_vars

(***************************************************************************)
(* While STATUS shows LISTENING a listening attempt is running: the core   *)
(* "asks the bridge for listening attempts one after another".             *)
(***************************************************************************)
ListeningServed == listening => listen_inflight

(***************************************************************************)
(* TX_START always completes, if only with FRAME_ERROR: the modem may be   *)
(* silent for ever.                                                        *)
(***************************************************************************)
TxCompletes == tx_busy ~> tx_done

(***************************************************************************)
(* After RX_STOP the attempt in flight ends, so that TX_START is taken     *)
(* again, unless the PS has gone back to listening.                        *)
(***************************************************************************)
StoppedAttemptEnds ==
  (listen_inflight /\ ~ listening) ~> (listening \/ ~ listen_inflight)
=============================================================================
