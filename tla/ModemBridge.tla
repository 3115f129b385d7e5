---------------------------- MODULE ModemBridge ----------------------------
(***************************************************************************)
(* The modem side of the mailbox, one step per sample clock: the toggle    *)
(* handshake of bpsk_zynq_ber_gpreg_bridge.v and the QPSK core it starts,  *)
(* qpsk_zynq_ber_top.v.                                                    *)
(*                                                                         *)
(* Kept from the core: when a start is taken, which source plays, the      *)
(* phase of the receiver, the listening window, the abort and the pulses   *)
(* that end an attempt, each register a clock apart as in the code.  The   *)
(* signal path is a choice: per clock the receiver hears one of Events,    *)
(* and a burst may end.  The mode word is the one radio_setup writes, so   *)
(* gp_ctrl[0] and gp_ctrl[18] stay 0 and every start is the mailbox's.     *)
(***************************************************************************)
EXTENDS Naturals

CONSTANTS
  CapDelay,   \* last value of msg_cap_delay: clocks from end to capture (7)
  NoBits,     \* the reset value of msg_rx_bits
  Air,        \* packets that may reach the receiver
  Fades       \* TRUE: a packet may fall below the detector before its end

VARIABLES
  msg_tx_toggle, msg_listen_toggle, msg_stop_toggle,  \* driven by the mailbox
  msg_tx_sync, msg_listen_sync, msg_stop_sync,        \* three flops each
  msg_mode_sample, msg_listen_sample,  \* what the attempt is for
  start_pulse_sample,
  msg_abort_pending,
  msg_cap_armed, msg_cap_delay,
  done_sticky_sample, received_sample, \* the latched result: whole frame or not
  msg_rx_toggle, msg_rx_bits, msg_rx_locked,
  core_tx,     \* what the transmitter plays: "idle", "rom", "msg"
  ber,         \* the receiver: "idle", "search", "open" (detector),
               \* "receiving", "cut" (detector closed on a locked packet)
  received,    \* the whole frame of this attempt was received
  shift,       \* the last packet shifted in
  ber_abort, ber_done, timed_out, done   \* registered pulses

requests   == <<msg_tx_toggle, msg_listen_toggle, msg_stop_toggle>>
syncs      == <<msg_tx_sync, msg_listen_sync, msg_stop_sync>>
answer     == <<msg_rx_toggle, msg_rx_bits, msg_rx_locked>>
attemptRegs == <<msg_mode_sample, msg_listen_sample, start_pulse_sample,
                msg_abort_pending, msg_cap_armed, msg_cap_delay,
                done_sticky_sample, received_sample>>
coreRegs   == <<core_tx, ber, received, shift, ber_abort, ber_done, timed_out, done>>
bridgeVars == <<syncs, answer, attemptRegs, coreRegs>>

Flops == [1..3 -> BOOLEAN]

TypeOK ==
  /\ msg_tx_sync \in Flops /\ msg_listen_sync \in Flops /\ msg_stop_sync \in Flops
  /\ msg_mode_sample \in BOOLEAN /\ msg_listen_sample \in BOOLEAN
  /\ start_pulse_sample \in BOOLEAN /\ msg_abort_pending \in BOOLEAN
  /\ msg_cap_armed \in BOOLEAN /\ msg_cap_delay \in 0..CapDelay
  /\ done_sticky_sample \in BOOLEAN /\ received_sample \in BOOLEAN
  /\ msg_rx_toggle \in BOOLEAN /\ msg_rx_locked \in BOOLEAN
  /\ msg_rx_bits \in Air \cup {NoBits}
  /\ core_tx \in {"idle", "rom", "msg"}
  /\ ber \in {"idle", "search", "open", "receiving", "cut"}
  /\ received \in BOOLEAN /\ shift \in Air \cup {NoBits}
  /\ ber_abort \in BOOLEAN /\ ber_done \in BOOLEAN
  /\ timed_out \in BOOLEAN /\ done \in BOOLEAN

Low == [i \in 1..3 |-> FALSE]

Init ==
  /\ msg_tx_sync = Low /\ msg_listen_sync = Low /\ msg_stop_sync = Low
  /\ msg_mode_sample = FALSE /\ msg_listen_sample = FALSE
  /\ start_pulse_sample = FALSE /\ msg_abort_pending = FALSE
  /\ msg_cap_armed = FALSE /\ msg_cap_delay = 0
  /\ done_sticky_sample = FALSE /\ received_sample = FALSE
  /\ msg_rx_toggle = FALSE /\ msg_rx_bits = NoBits /\ msg_rx_locked = FALSE
  /\ core_tx = "idle" /\ ber = "idle" /\ received = FALSE /\ shift = NoBits
  /\ ber_abort = FALSE /\ ber_done = FALSE /\ timed_out = FALSE /\ done = FALSE

-----------------------------------------------------------------------------
(* Requests from the mailbox.                                              *)

Shifted(sync, toggle) == [i \in 1..3 |-> IF i = 1 THEN toggle ELSE sync[i - 1]]
Edge(sync) == sync[3] # sync[2]

start_edge == Edge(msg_tx_sync) \/ Edge(msg_listen_sync)

qpsk_listen_en == msg_listen_sample

CoreBusy == core_tx # "idle" \/ ber # "idle"

\* the core takes a start only when neither side of it is busy
FrameStart == start_pulse_sample /\ ~ CoreBusy

-----------------------------------------------------------------------------
(* The receiver of the core.  In silence (search) the listening window may *)
(* be used up, the packet detector may open and close again, and the frame *)
(* sync may lock; a locked packet comes in whole, stalls or, listening, is *)
(* cut when the detector closes.  Neither the window nor RX_STOP ends a    *)
(* cut one: it waits for the detector to open again.                       *)

Events == {"nothing", "window_over", "opens", "closes", "locks", "fades",
           "whole", "stalls"}

\* variant: the listening window never ends
QuietOnStop(hears) == msg_abort_pending

\* silence is given up on when the window is used up or RX_STOP came
QuietEnough(hears) == hears = "window_over" \/ msg_abort_pending

GivesUp(hears) ==
  /\ ber # "idle"
  /\ \/ hears = "stalls"
     \/ qpsk_listen_en /\ ber = "search" /\ QuietEnough(hears)

\* outside listening mode the decisions are not held back by the detector
MayLock == ber = "open" \/ (ber = "search" /\ ~ qpsk_listen_en)

\* the detector holds back the bits of a locked packet only when listening
BitsFlow == ber = "receiving" \/ (ber = "cut" /\ ~ qpsk_listen_en)

Completes(hears) == hears = "whole"

Ends(hears) == ber # "idle" /\ (ber_abort \/ Completes(hears))

(***************************************************************************)
(* The events that make a difference in the receiver's phase.  A burst is  *)
(* at most 2248 samples; the window (65535 symbols) and the idle watchdog  *)
(* (4096 samples) run out only when it is over.  While listening the       *)
(* watchdog watches the sampler and sees only that the samples stopped.    *)
(***************************************************************************)
CanHear(hears) ==
  CASE hears = "nothing"     -> TRUE
    [] hears = "window_over" -> qpsk_listen_en /\ ber = "search" /\ core_tx = "idle"
    [] hears = "opens"       -> qpsk_listen_en /\ ber \in {"search", "cut"}
    [] hears = "closes"      -> ber = "open"
    [] hears = "locks"       -> MayLock
    [] hears = "fades"       -> Fades /\ qpsk_listen_en /\ ber = "receiving"
    [] hears = "whole"       -> BitsFlow
    [] hears = "stalls"      -> ber # "idle" /\ core_tx = "idle"

Receiver(hears, packet) ==
  /\ CanHear(hears)
  /\ ber' = IF FrameStart THEN "search"
            ELSE IF Ends(hears) THEN "idle"
            ELSE IF hears = "opens" THEN IF ber = "cut" THEN "receiving" ELSE "open"
            ELSE IF hears = "closes" THEN "search"
            ELSE IF hears = "fades" THEN "cut"
            ELSE IF hears = "locks" THEN "receiving" ELSE ber
  /\ received' = (~ FrameStart /\ (received \/ (Completes(hears) /\ ~ ber_abort)))
  /\ shift' = IF start_edge \/ hears = "fades" THEN NoBits
              ELSE IF hears = "locks" /\ ~ ber_abort THEN packet ELSE shift
  /\ ber_abort' = GivesUp(hears)
  /\ timed_out' = GivesUp(hears)
  /\ ber_done' = Ends(hears)
  /\ done' = ber_done

\* the message or, in any other attempt, the ROM frame, then its flush symbols
Transmitter(burst_ends) ==
  /\ burst_ends => core_tx # "idle"
  /\ core_tx' = IF FrameStart THEN IF msg_mode_sample THEN "msg" ELSE "rom"
                ELSE IF burst_ends THEN "idle" ELSE core_tx

-----------------------------------------------------------------------------
(* The attempt as the bridge keeps it.                                     *)

EndSeen == msg_cap_armed /\ msg_cap_delay = 0 /\ (done \/ timed_out)

\* variants: the capture comes before the counters settle, or one clock late
CapturesEarly == ~ start_edge /\ msg_cap_delay = 1
CapturesLate  == ~ start_edge /\ msg_cap_delay = CapDelay + 1

Captures == ~ start_edge /\ msg_cap_delay = CapDelay

Attempt ==
  /\ start_pulse_sample' = start_edge
  /\ msg_mode_sample' = IF start_edge THEN Edge(msg_tx_sync) ELSE msg_mode_sample
  /\ msg_listen_sample' = IF start_edge
                          THEN Edge(msg_listen_sync) /\ ~ Edge(msg_tx_sync)
                          ELSE msg_listen_sample
  /\ msg_cap_armed' = (start_edge \/ (msg_cap_armed /\ ~ Captures))
  /\ msg_cap_delay' = IF start_edge \/ Captures THEN 0
                      ELSE IF EndSeen THEN 1
                      ELSE IF msg_cap_delay # 0 THEN msg_cap_delay + 1 ELSE 0

Result ==
  /\ done_sticky_sample' = (done \/ (done_sticky_sample /\ ~ start_edge))
  /\ received_sample' = IF done THEN received
                        ELSE received_sample /\ ~ start_edge

Answer ==
  /\ msg_rx_toggle' = (msg_rx_toggle # Captures)
  /\ msg_rx_bits' = IF Captures THEN shift ELSE msg_rx_bits
  /\ msg_rx_locked' = IF Captures THEN done_sticky_sample /\ received_sample
                      ELSE msg_rx_locked

\* variant: a start does not drop a stop that came for the attempt before it
AbortOutlivesAttempt ==
  msg_abort_pending' =
    /\ ~ (done \/ timed_out)
    /\ \/ msg_abort_pending
       \/ Edge(msg_stop_sync) /\ msg_listen_sample /\ CoreBusy

\* held until the attempt ends, taken only while a listening attempt runs
AbortRequest ==
  msg_abort_pending' =
    /\ ~ (done \/ timed_out \/ start_edge)
    /\ \/ msg_abort_pending
       \/ Edge(msg_stop_sync) /\ msg_listen_sample /\ CoreBusy

Synchronizers ==
  /\ msg_tx_sync' = Shifted(msg_tx_sync, msg_tx_toggle)
  /\ msg_listen_sync' = Shifted(msg_listen_sync, msg_listen_toggle)
  /\ msg_stop_sync' = Shifted(msg_stop_sync, msg_stop_toggle)

SampleClock(hears, packet, burst_ends) ==
  /\ Receiver(hears, packet)
  /\ Transmitter(burst_ends)
  /\ Attempt
  /\ Result
  /\ Answer
  /\ AbortRequest
  /\ Synchronizers
=============================================================================
