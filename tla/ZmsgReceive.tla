---------------------------- MODULE ZmsgReceive ----------------------------
(***************************************************************************)
(* zmsg receive: cmd_receive of zmsg.c, one register access or sleep per   *)
(* step, with the side of bpsk_zynq_ber_gpreg_bridge.v it talks to, one    *)
(* sample clock per step.  gp_ctrl crosses by two flip-flops, and its      *)
(* start and clear bits act on their rising edges there.                   *)
(*                                                                         *)
(* Left out: the two flip-flops of the status words on their way back,     *)
(* shorter than a register read; the ROM frame the core sends with each    *)
(* start, over long before the attempt is; the counts of the summary.      *)
(* Samples never stop coming from the radio.  The bridge passes them to    *)
(* the core between start and the end of the attempt only, and without     *)
(* samples nothing in the receiver moves.                                  *)
(* Data: a packet is its number; the decoded-bit register holds a whole    *)
(* packet at its place or something else, 0.                               *)
(***************************************************************************)
EXTENDS Naturals, Sequences

CONSTANTS
  Words,       \* words of the decoded-bit register read (10)
  Count,       \* --count
  Attempts,    \* --attempts; a bound on the attempts of listen mode
  MaxPackets   \* bound: packets on the air

ASSUME ReceiveAssumption ==
  Words \in Nat \ {0} /\ Count \in Nat /\ Attempts \in Nat /\ MaxPackets \in Nat

VARIABLES
  listen,                            \* --listen, gp_ctrl[18]
  \* zmsg
  pc, k,
  s,                                 \* the done bit of the status last read
  recv, words, good,
  printed,                           \* the packets printed
  stop_requested, interrupted,       \* SIGTERM came; it cut a sleep short
  gp_ctrl,                           \* "mode", "start" (mode | 1), "clear" (mode | 2)
  \* bridge, sample clock
  control_meta, control_sync, control_sync_d,
  start_pulse, tx_path_active, done_sticky, timeout_sticky, received_sample,
  shift,
  \* core
  ber, lock, received,               \* "idle", "search", "locked"; on which packet
  ber_abort, timed_out, ber_done, done,
  sampling,                          \* the sampler's window is not used up
  gate,                              \* listening: "shut", "packet", "hang"
  \* air
  sent, on, preamble,                \* packet sent is on the air; its preamble
                                     \* came after the search began
  kept                               \* history: shift when R_RECV was read

zmsg    == <<pc, k, s, recv, words, kept, good, printed, interrupted, gp_ctrl>>
control == <<control_meta, control_sync, control_sync_d>>
bridge  == <<control, start_pulse, tx_path_active, done_sticky, timeout_sticky,
             received_sample, shift>>
core    == <<ber, lock, received, ber_abort, timed_out, ber_done, done, sampling,
             gate>>
air     == <<sent, on, preamble>>
rest    == <<bridge, core, air, listen, stop_requested>>
vars    == <<zmsg, rest>>

-----------------------------------------------------------------------------
(* The bridge and the core.                                                *)

start_edge == control_sync = "start" /\ control_sync_d # "start"
clear_done_edge == control_sync = "clear" /\ control_sync_d # "clear"
FrameStart == start_pulse /\ ber = "idle"

\* a packet present, or one just over (LISTEN_HANG)
listen_open == gate # "shut"

\* a symbol is SPS clocks long, longer than a result takes
ResultUnderWay == ber_abort \/ ber_done \/ done

\* decided symbols come of samples let in, through the sampler's window or,
\* listening, through the gate
Flows ==
  /\ tx_path_active /\ ~ ResultUnderWay
  /\ IF listen THEN listen_open ELSE sampling

\* no symbol will come
Silent == ~ tx_path_active \/ (~ listen /\ ~ sampling)

Events == {"nothing", "begins", "ends", "appears", "fades", "closes", "window_over",
           "locks", "symbol", "last", "gives_up"}

\* listening, the attempt ends at the window unless a packet is coming in, and at
\* once without samples; else with the silence the signal gate or the end of the
\* window makes
CanHappen(e) ==
  CASE e = "nothing"     -> TRUE
    [] e = "begins"      -> ~ on /\ sent < MaxPackets
    [] e = "ends"        -> on
    [] e = "appears"     -> listen /\ tx_path_active /\ gate # "packet"
    [] e = "fades"       -> tx_path_active /\ gate = "packet"
    [] e = "closes"      -> tx_path_active /\ gate = "hang"
    [] e = "window_over" -> ~ listen /\ tx_path_active /\ sampling
    [] e = "locks"       -> ber = "search" /\ Flows
    [] e = "symbol"      -> Flows
    [] e = "last"        -> ber = "locked" /\ Flows
    [] e = "gives_up"    -> \/ ber = "search" /\ (listen => ~ listen_open)
                            \/ ber # "idle" /\ Silent

\* the last symbol leaves the packet the counter locked on in the register,
\* unless it had bit errors
Whole(e, intact) == e = "last" /\ intact /\ lock # 0

Air(e) ==
  /\ sent' = IF e = "begins" THEN sent + 1 ELSE sent
  /\ on' = IF e = "begins" THEN TRUE
           ELSE on /\ e # "ends" /\ ~ (e = "last" /\ lock # 0)
  /\ preamble' = IF e = "begins" THEN ber = "search" /\ tx_path_active
                 ELSE preamble /\ ~ FrameStart

\* the packet detector keeps its state from one attempt to the next
Gate(e) ==
  LET over == e = "closes" \/ (FrameStart /\ (gate = "hang" \/ e = "fades"))
  IN  gate' = IF e = "appears" THEN "packet"
              ELSE IF over THEN "shut" ELSE IF e = "fades" THEN "hang" ELSE gate

Core(e, on_packet) ==
  /\ sampling' = (FrameStart \/ (sampling /\ e # "window_over"))
  /\ Gate(e)
  /\ ber' = IF FrameStart THEN "search"
            ELSE IF ber_abort \/ e = "last" THEN "idle"
            ELSE IF e = "locks" THEN "locked" ELSE ber
  /\ lock' = IF start_edge \/ e \in {"ends", "closes", "last"} THEN 0
             ELSE IF e = "locks" /\ on_packet THEN sent ELSE lock
  /\ received' = (~ FrameStart /\ (received \/ e = "last"))
  /\ ber_abort' = (e = "gives_up") /\ timed_out' = (e = "gives_up")
  /\ ber_done' = (ber # "idle" /\ (ber_abort \/ e = "last"))
  /\ done' = ber_done

DecodedBits(e, intact) ==
  shift' = IF start_edge THEN 0
           ELSE IF e \in {"symbol", "locks", "last"} /\ ~ done_sticky
           THEN IF Whole(e, intact) THEN lock ELSE 0
           ELSE shift

\* variant: the samples go on after done
PathStaysOpen == tx_path_active' = ((tx_path_active \/ start_edge) /\ ~ timed_out)

\* the end of an attempt comes after the start of the next one and wins
Path == tx_path_active' = ((tx_path_active \/ start_edge) /\ ~ timed_out /\ ~ done)

Result ==
  /\ done_sticky' = (done \/ (done_sticky /\ ~ start_edge /\ ~ clear_done_edge))
  /\ timeout_sticky' =
       (timed_out \/ (timeout_sticky /\ ~ start_edge /\ ~ clear_done_edge))
  /\ received_sample' = IF done THEN received ELSE received_sample /\ ~ start_edge

SampleClock(e, on_packet, intact) ==
  /\ CanHappen(e)
  /\ on_packet => on /\ preamble
  /\ control_meta' = gp_ctrl
  /\ control_sync' = control_meta
  /\ control_sync_d' = control_sync
  /\ start_pulse' = start_edge
  /\ Air(e) /\ Core(e, on_packet) /\ DecodedBits(e, intact) /\ Path /\ Result
  /\ UNCHANGED <<zmsg, listen, stop_requested>>

-----------------------------------------------------------------------------
(* zmsg.                                                                   *)

\* variant: two back-to-back writes
NoHold == TRUE

\* usleep(20) and usleep(5000): more than the clocks gp_ctrl takes to cross
Held == gp_ctrl = control_meta /\ gp_ctrl = control_sync /\ gp_ctrl = control_sync_d

\* 0.5 or 0.2 s are longer than an attempt, unless the core was never started
\* or waits on a packet that was cut
Overdue == /\ Held /\ ~ start_pulse /\ ~ ResultUnderWay
           /\ ber = "idle" \/ (listen /\ ber = "locked" /\ ~ listen_open)

\* variant: the loop waits for done or timeout alone
WaitsForStatus == FALSE
GivesUpPolling == Overdue

Goto(label) == pc' = label

\* k++; the variables of the body of the loop end with it
NextAttempt ==
  /\ Goto("loop") /\ k' = k + 1
  /\ s' = FALSE /\ recv' = FALSE /\ words' = <<>> /\ kept' = 0

\* nanosleep is not resumed after a signal
Sleeps(over) == over \/ interrupted

\* variant: off by one
OneMoreAttempt == ~ stop_requested /\ good < Count /\ k <= Attempts

Wanted == ~ stop_requested /\ good < Count /\ k < Attempts

\* listening, the time may also be up
LoopTest ==
  /\ pc = "loop"
  /\ \/ /\ Wanted
        /\ gp_ctrl' = "mode" /\ Goto("start")
     \/ /\ ~ Wanted \/ listen
        /\ gp_ctrl' = "off" /\ Goto("done")
  /\ UNCHANGED <<k, s, recv, words, kept, good, printed, interrupted>>

WriteStart ==
  /\ pc = "start" /\ gp_ctrl' = "start" /\ Goto("hold")
  /\ interrupted' = FALSE
  /\ UNCHANGED <<k, s, recv, words, kept, good, printed>>

ReleaseStart ==
  /\ pc = "hold" /\ Sleeps(Held)
  /\ gp_ctrl' = "mode" /\ Goto("poll")
  /\ UNCHANGED <<k, s, recv, words, kept, good, printed, interrupted>>

Poll ==
  /\ pc = "poll"
  /\ \/ /\ done_sticky \/ timeout_sticky
        /\ s' = done_sticky
        /\ Goto(IF done_sticky THEN "settle" ELSE "recv")
     \/ /\ ~ done_sticky /\ ~ timeout_sticky /\ GivesUpPolling
        /\ Goto("recv") /\ UNCHANGED s
  /\ interrupted' = FALSE
  /\ UNCHANGED <<k, recv, words, kept, good, printed, gp_ctrl>>

Settle ==
  /\ pc = "settle" /\ Sleeps(Held)
  /\ Goto("recv")
  /\ UNCHANGED <<k, s, recv, words, kept, good, printed, interrupted, gp_ctrl>>

\* R_RECV is read, then clear is written
WriteClear ==
  /\ pc = "recv"
  /\ recv' = received_sample /\ kept' = shift
  /\ gp_ctrl' = "clear" /\ Goto("clearing")
  /\ interrupted' = FALSE
  /\ UNCHANGED <<k, s, words, good, printed>>

\* the count may be of an earlier attempt; done says that this one locked
Locked == s /\ recv

ReleaseClear ==
  /\ pc = "clearing" /\ Sleeps(Held)
  /\ gp_ctrl' = "mode"
  /\ \/ /\ Locked
        /\ Goto("read") /\ UNCHANGED <<k, s, recv, words, kept>>
     \/ ~ Locked /\ NextAttempt
  /\ UNCHANGED <<good, printed, interrupted>>

ReadWord ==
  /\ pc = "read" /\ Len(words) < Words
  /\ words' = Append(words, shift)
  /\ UNCHANGED <<pc, k, s, recv, kept, good, printed, interrupted, gp_ctrl>>

\* the CRC holds when all the words are of one whole packet
crc_ok == words[1] # 0 /\ \A a \in 1..Words : words[a] = words[1]

CheckPacket ==
  /\ pc = "read" /\ Len(words) = Words
  /\ good' = IF crc_ok THEN good + 1 ELSE good
  /\ printed' = IF crc_ok THEN Append(printed, words[1]) ELSE printed
  /\ NextAttempt
  /\ UNCHANGED <<interrupted, gp_ctrl>>

Zmsg ==
  /\ \/ LoopTest \/ WriteStart \/ ReleaseStart \/ Poll \/ Settle
     \/ WriteClear \/ ReleaseClear \/ ReadWord \/ CheckPacket
  /\ UNCHANGED rest

\* SIGTERM or SIGINT: the handler notes it, a sleep under way ends
OnTerm ==
  /\ ~ stop_requested
  /\ stop_requested' = TRUE
  /\ interrupted' = (pc \in {"hold", "settle", "clearing"})
  /\ UNCHANGED <<pc, k, s, recv, words, kept, good, printed, gp_ctrl, listen,
                 bridge, core, air>>

-----------------------------------------------------------------------------
Init ==
  /\ listen \in BOOLEAN
  /\ pc = "loop" /\ k = 0 /\ s = FALSE
  /\ recv = FALSE /\ words = <<>> /\ good = 0 /\ printed = <<>>
  /\ stop_requested = FALSE /\ interrupted = FALSE /\ gp_ctrl = "off"
  /\ control_meta = "off" /\ control_sync = "off" /\ control_sync_d = "off"
  /\ start_pulse = FALSE /\ tx_path_active = FALSE
  /\ done_sticky = FALSE /\ timeout_sticky = FALSE
  /\ received_sample = FALSE /\ shift = 0
  /\ ber = "idle" /\ lock = 0 /\ received = FALSE
  /\ ber_abort = FALSE /\ timed_out = FALSE /\ ber_done = FALSE /\ done = FALSE
  /\ sampling = FALSE /\ gate = "shut"
  /\ sent = 0 /\ on = FALSE /\ preamble = FALSE
  /\ kept = 0

AnySampleClock(e) ==
  \E on_packet \in {FALSE, e = "locks"}, intact \in {FALSE, e = "last"} :
    SampleClock(e, on_packet, intact)

Next == Zmsg \/ OnTerm \/ \E e \in Events : AnySampleClock(e)

Spec == Init /\ [][Next]_vars

(***************************************************************************)
(* The program runs, the sample clock ticks, a packet that fades fades,    *)
(* and an attempt that could end again and again ends: the counter has its *)
(* last symbol, or the gate closes and the window or a watchdog runs out.  *)
(***************************************************************************)
FairSpec ==
  /\ Spec
  /\ WF_vars(Zmsg)
  /\ \A e \in {"nothing", "fades"} : WF_vars(AnySampleClock(e))
  /\ \A e \in {"closes", "last", "gives_up"} : SF_vars(AnySampleClock(e))

-----------------------------------------------------------------------------
(* Properties.                                                             *)

TypeOK ==
  /\ listen \in BOOLEAN /\ stop_requested \in BOOLEAN /\ interrupted \in BOOLEAN
  /\ pc \in {"loop", "start", "hold", "poll", "settle", "recv", "clearing", "read",
             "done"}
  /\ gp_ctrl \in {"off", "mode", "start", "clear"}
  /\ k \in 0..Attempts /\ good \in 0..Count
  /\ Len(words) <= Words /\ Len(printed) = good
  /\ ber \in {"idle", "search", "locked"} /\ lock \in 0..sent /\ shift \in 0..sent

(***************************************************************************)
(* A packet is printed at most once, in the order of the air: a start or   *)
(* clear that went unnoticed, an end that comes after its attempt was      *)
(* given up, a stale done or a stale register never show a packet again.   *)
(***************************************************************************)
PrintedOnce ==
  \A i, j \in 1..Len(printed) : i < j => printed[i] < printed[j]

(***************************************************************************)
(* "Read only AFTER done: the register is frozen then": though clear takes *)
(* the done bit that froze it away and packets keep coming, every word is  *)
(* of the register as it was when the received count was read.  A signal   *)
(* that cuts the hold of a start while the end of a given-up attempt comes *)
(* in does not change that.                                                *)
(***************************************************************************)
ReadsWhatWasKept ==
  pc = "read" => \A a \in 1..Len(words) : words[a] = kept

(***************************************************************************)
(* The program ends, whatever becomes of its attempts: a start the core    *)
(* does not take, or an attempt that waits for ever on a packet cut short, *)
(* is given up.                                                            *)
(***************************************************************************)
LoopEnds == <>(pc = "done")
=============================================================================
