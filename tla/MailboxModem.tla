---------------------------- MODULE MailboxModem ----------------------------
(***************************************************************************)
(* The mailbox of MODE = 1 wired to the bridge and the QPSK core: two      *)
(* clocks that know nothing of each other, joined by four toggles.         *)
(*                                                                         *)
(* A toggle is captured by the first clock of the other domain after it    *)
(* changes.  MODEM_TIMEOUT (0.5 s) is longer than an attempt (a window of  *)
(* 136 ms and one packet), so a timer runs out only when the modem has     *)
(* nothing left to answer or to play; but an attempt whose packet was cut  *)
(* may last for any time, and is overdue.                                  *)
(***************************************************************************)
EXTENDS MessageMailbox

CONSTANTS CapDelay, Fades

ASSUME JoinedAssumption ==
  Mode = 1 /\ CapDelay \in Nat \ {0} /\ Fades \in BOOLEAN

VARIABLES
  msg_tx_sync, msg_listen_sync, msg_stop_sync,
  msg_mode_sample, msg_listen_sample, start_pulse_sample, msg_abort_pending,
  msg_cap_armed, msg_cap_delay, done_sticky_sample, received_sample,
  core_tx, ber, received, shift, ber_abort, ber_done, timed_out, done,
  stopped,  \* history: RX_STOP was given to the listening attempt last asked for
  overdue   \* history: the attempt last begun in the core was cut

Bridge == INSTANCE ModemBridge WITH
  NoBits <- BlankFrame, Air <- Frames,
  msg_tx_toggle <- modem_tx_toggle,
  msg_listen_toggle <- modem_listen_toggle,
  msg_stop_toggle <- modem_stop_toggle,
  msg_rx_toggle <- modem_rx_toggle,
  msg_rx_bits <- modem_rx_bits,
  msg_rx_locked <- modem_rx_locked

\* the sample domain's own registers: all of the bridge but its answer port
sampleRegs == <<msg_tx_sync, msg_listen_sync, msg_stop_sync,
                msg_mode_sample, msg_listen_sample, start_pulse_sample,
                msg_abort_pending, msg_cap_armed, msg_cap_delay,
                done_sticky_sample, received_sample, core_tx, ber, received,
                shift, ber_abort, ber_done, timed_out, done>>
joinedVars == <<vars, sampleRegs, stopped, overdue>>

JoinedTypeOK ==
  TypeOK /\ Bridge!TypeOK /\ stopped \in BOOLEAN /\ overdue \in BOOLEAN

JoinedInit == InitMailbox /\ Bridge!Init /\ stopped = FALSE /\ overdue = FALSE

-----------------------------------------------------------------------------
\* a request the sample domain has not acted on yet
Asked(toggle, sync) == toggle # sync[3]

Requested == \/ Asked(modem_tx_toggle, msg_tx_sync)
             \/ Asked(modem_listen_toggle, msg_listen_sync)

\* an attempt is under way in the core, or its result is being latched
CoreAtWork == \/ start_pulse_sample \/ ber # "idle"
              \/ ber_done \/ timed_out \/ done \/ msg_cap_delay # 0

Answering == modem_rx_toggle # modem_rx_sync[3]

\* an answer is on its way or will be
Owed == Requested \/ (msg_cap_armed /\ CoreAtWork) \/ Answering

MayExpire == IF overdue THEN ~ Requested ELSE ~ Owed /\ core_tx = "idle"

AxiClock(w, expires) ==
  /\ Clock(w, expires)
  /\ expires => MayExpire
  /\ stopped' = IF modem_stop_toggle' # modem_stop_toggle THEN TRUE
                ELSE stopped /\ modem_listen_toggle' = modem_listen_toggle
  /\ UNCHANGED <<modemPort, sampleRegs, overdue>>

RfClock(hears, packet, burst_ends) ==
  /\ Bridge!SampleClock(hears, packet, burst_ends)
  /\ overdue' = (hears = "fades" \/ (overdue /\ ~ Bridge!FrameStart))
  /\ UNCHANGED <<mailboxVars, stopped>>

AnyAxiClock == \E w \in Writes, expires \in BOOLEAN : AxiClock(w, expires)

AnyRfClock == \E hears \in Bridge!Events, packet \in Frames, burst_ends \in BOOLEAN :
                RfClock(hears, packet, burst_ends)

JoinedNext == AnyAxiClock \/ AnyRfClock

JoinedSpec == JoinedInit /\ [][JoinedNext]_joinedVars

(***************************************************************************)
(* Both clocks run; a burst ends; the bits of a locked packet come in      *)
(* whole or stop; an open detector locks or closes, since it compares with *)
(* a running mean that follows any level; a spent window stays spent, so   *)
(* however often the detector opens, silence after it ends the attempt;    *)
(* and the timer of an attempt the core never began runs out.              *)
(***************************************************************************)
Hears(events) == \E hears \in events, packet \in Frames, burst_ends \in BOOLEAN :
                   RfClock(hears, packet, burst_ends)

BurstEnds  == \E hears \in Bridge!Events, packet \in Frames : RfClock(hears, packet, TRUE)
TimesOut   == \E w \in Writes : AxiClock(w, TRUE)
Counting   == \/ modem_wait /\ modem_timer = "counting"
              \/ listen_inflight /\ listen_timer = "counting"

JoinedFairSpec ==
  /\ JoinedSpec
  /\ WF_joinedVars(AnyAxiClock)
  /\ WF_joinedVars(AnyRfClock)
  /\ WF_joinedVars(BurstEnds)
  /\ WF_joinedVars(Bridge!BitsFlow /\ Hears({"whole", "stalls", "fades"}))
  /\ WF_joinedVars(ber = "open" /\ Hears({"locks", "closes"}))
  /\ SF_joinedVars(Hears({"window_over"}))
  /\ WF_joinedVars(Counting /\ TimesOut)

-----------------------------------------------------------------------------
(* Properties.                                                             *)

(***************************************************************************)
(* One request, one answer: while the modem still owes an answer the       *)
(* mailbox is waiting for it, and requests and answers never pile up.  So  *)
(* no answer comes late, into a mailbox that waits for something else.     *)
(***************************************************************************)
OneAnswerOwed ==
  /\ Owed => modem_wait \/ listen_inflight
  /\ ~ (Asked(modem_tx_toggle, msg_tx_sync)
          /\ Asked(modem_listen_toggle, msg_listen_sync))
  /\ Answering => ~ Requested /\ ~ msg_cap_armed

(***************************************************************************)
(* The answer the mailbox takes is to the attempt it waits for: a message  *)
(* is completed by a message attempt, and listening by a listening one.    *)
(***************************************************************************)
AnswerMatches ==
  RxEdge => /\ modem_wait => msg_mode_sample
            /\ listen_inflight => msg_listen_sample

(***************************************************************************)
(* "a late stop cannot cut short a later attempt": a listening attempt is  *)
(* aborted only if RX_STOP was given after it was asked for.               *)
(***************************************************************************)
NoStaleAbort ==
  (msg_abort_pending /\ ber = "search" /\ msg_listen_sample) => stopped

(***************************************************************************)
(* An answer is captured only once the attempt is over and its counters    *)
(* are latched: RX_LOCKED is about this attempt and its whole packet.      *)
(***************************************************************************)
AnswerSettled ==
  Bridge!Captures => /\ ber = "idle" /\ ~ ber_done /\ ~ done /\ ~ timed_out
                     /\ done_sticky_sample /\ received_sample = received

(***************************************************************************)
(* "The bridge transmits it once": when a message's start reaches the core *)
(* the transmitter is not still playing the frame a listening attempt      *)
(* plays in silence.                                                       *)
(***************************************************************************)
MessageMeetsNoRom == start_pulse_sample /\ msg_mode_sample => core_tx # "rom"

(***************************************************************************)
(* "while high, a listening attempt ends at once (as a timeout) unless a   *)
(* packet is being received": with RX_STOP pending and the detector closed *)
(* the next sample clock gives the attempt up, unless the detector opens.  *)
(***************************************************************************)
StopEndsAtOnce ==
  [][msg_abort_pending /\ msg_listen_sample /\ ber \in {"search", "cut"}
       => \/ ber_abort' \/ ber' \in {"open", "receiving"}
          \/ UNCHANGED sampleRegs]_joinedVars

(***************************************************************************)
(* RX_STOP ends listening for good: the attempt in flight, wherever it is  *)
(* on its way to, in or back from the core, comes to an end, unless the PS *)
(* goes back to listening.                                                 *)
(***************************************************************************)
StopTakesEffect ==
  (listen_inflight /\ ~ listening) ~> (listening \/ ~ listen_inflight)
=============================================================================
