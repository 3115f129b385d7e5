------------------------- MODULE ZmsgReceiveProofs -------------------------
(***************************************************************************)
(* Proofs about zmsg receive: for any number of words, packets, attempts   *)
(* and messages asked for, with and without --listen.                      *)
(***************************************************************************)
EXTENDS ZmsgReceive, TLAPS

Signals == {"off", "mode", "start", "clear"}

ProgramTypes ==
  /\ listen \in BOOLEAN /\ stop_requested \in BOOLEAN /\ interrupted \in BOOLEAN
  /\ pc \in {"loop", "start", "hold", "poll", "settle", "recv", "clearing", "read",
             "done"}
  /\ gp_ctrl \in Signals
  /\ k \in 0..Attempts /\ good \in 0..Count
  /\ s \in BOOLEAN /\ recv \in BOOLEAN /\ kept \in Nat
  /\ words \in Seq(Nat) /\ Len(words) <= Words
  /\ printed \in Seq(Nat) /\ Len(printed) = good

HardwareTypes ==
  /\ control_meta \in Signals /\ control_sync \in Signals /\ control_sync_d \in Signals
  /\ start_pulse \in BOOLEAN /\ tx_path_active \in BOOLEAN
  /\ done_sticky \in BOOLEAN /\ timeout_sticky \in BOOLEAN
  /\ received_sample \in BOOLEAN /\ received \in BOOLEAN
  /\ ber \in {"idle", "search", "locked"} /\ lock \in 0..sent /\ shift \in 0..sent
  /\ ber_abort \in BOOLEAN /\ timed_out \in BOOLEAN /\ ber_done \in BOOLEAN
  /\ done \in BOOLEAN /\ sampling \in BOOLEAN /\ gate \in {"shut", "packet", "hang"}
  /\ sent \in Nat /\ on \in BOOLEAN /\ preamble \in BOOLEAN

\* an attempt under way is one of those allowed
Allowed == pc \notin {"loop", "done"} => k < Attempts /\ good < Count

TypeInv == ProgramTypes /\ HardwareTypes /\ Allowed

-----------------------------------------------------------------------------
\* no more of packet p will come
Over(p) == p <= sent /\ (on => p < sent)

\* the receiver is on the packet on the air; all that was taken in is over
Aired ==
  /\ lock # 0 => lock = sent /\ on
  /\ Over(shift)
  /\ \A i \in 1..Len(printed) : Over(printed[i])

\* no rising edge of start is in the flops
NoStartComing ==
  /\ gp_ctrl # "start"
  /\ control_meta = "start" => control_sync = "start"
  /\ control_sync = "start" => control_sync_d = "start"

\* where start and clear have got to; a start whose hold a signal cut may still be
\* in the flops until the 5 ms after a done are over
Crossing ==
  /\ interrupted => stop_requested
  /\ s => pc \in {"settle", "recv", "clearing", "read"}
  /\ pc \in {"settle", "read"} => s
  /\ pc = "read" => recv
  /\ pc = "hold" => gp_ctrl = "start"
  /\ pc \in {"poll", "settle", "recv"} => gp_ctrl = "mode"
  /\ pc = "clearing" => gp_ctrl = "clear"
  /\ pc = "poll" => NoStartComing \/ stop_requested
  /\ pc = "settle" => NoStartComing \/ (stop_requested /\ ~ interrupted)
  /\ pc \in {"recv", "clearing", "read"} /\ s => NoStartComing
  /\ pc \in {"poll", "settle", "recv"} /\ ~ stop_requested =>
       "clear" \notin {control_meta, control_sync, control_sync_d}

\* done and the received count show only while no sample comes in; a whole packet
\* in the register has ended its attempt
Ended ==
  /\ timed_out <=> ber_abort
  /\ done_sticky \/ received_sample => ~ tx_path_active
  /\ shift # 0 => /\ ber = "idle" /\ ~ start_pulse /\ ~ ber_abort
                  /\ ~ (ber_done /\ done)
                  /\ ~ tx_path_active => ~ ber_done /\ ~ done

\* from the read of the count to the last word nothing moves the register, and the
\* clear takes the done bit away for good
Kept ==
  /\ pc \in {"clearing", "read"} /\ s /\ recv => ~ tx_path_active /\ shift = kept
  /\ pc # "read" => words = <<>>
  /\ pc = "read" => \A a \in 1..Len(words) : words[a] = kept
  /\ ~ stop_requested /\ s /\ recv =>
       /\ pc = "clearing" /\ control_sync_d = "clear" => shift = 0 \/ ~ done_sticky
       /\ pc = "read" => shift = 0 \/ ~ done_sticky

\* packet p, if any, was not printed and came after those that were
New(p) == p = 0 \/ \A i \in 1..Len(printed) : printed[i] < p

\* no done will be seen before the register holds something new
Ready == New(shift) \/ (~ tx_path_active /\ ~ done_sticky)

\* an attempt starts ready, and what it finds done is new
Fresh ==
  /\ pc \in {"start", "hold", "poll"} => Ready
  /\ pc \in {"recv", "clearing"} /\ ~ s => Ready
  /\ pc = "loop" /\ ~ stop_requested => Ready
  /\ s => New(shift)

ReceiveInv == TypeInv /\ Aired /\ Crossing /\ Ended /\ Kept /\ Fresh /\ PrintedOnce

-----------------------------------------------------------------------------
(* Types.                                                                  *)

\* the sample clock leaves the program alone
LEMMA ClockFrame ==
  ASSUME NEW e \in Events, NEW on_packet, NEW intact, SampleClock(e, on_packet, intact)
  PROVE  UNCHANGED <<pc, k, s, recv, words, kept, good, printed, interrupted,
                     gp_ctrl, listen, stop_requested>>
  BY DEF SampleClock, zmsg

\* the program leaves the hardware alone
LEMMA ZmsgFrame ==
  ASSUME Zmsg
  PROVE  UNCHANGED <<control_meta, control_sync, control_sync_d, start_pulse,
                     tx_path_active, done_sticky, timeout_sticky, received_sample,
                     shift, ber, lock, received,
                     ber_abort, timed_out, ber_done, done, sampling, gate,
                     sent, on, preamble, listen, stop_requested>>
  BY DEF Zmsg, rest, bridge, control, core, air

\* a signal is noted, and perhaps cuts a sleep short
LEMMA TermFrame ==
  ASSUME OnTerm
  PROVE  /\ UNCHANGED <<control_meta, control_sync, control_sync_d, start_pulse,
                        tx_path_active, done_sticky, timeout_sticky, received_sample,
                        shift, ber, lock, received, ber_abort, timed_out, ber_done,
                        done, sampling, gate, sent, on, preamble, listen>>
         /\ UNCHANGED <<pc, k, s, recv, words, good, printed, gp_ctrl, kept>>
         /\ stop_requested' = TRUE /\ interrupted' \in BOOLEAN
  BY DEF OnTerm, bridge, control, core, air

\* the program starts with every register in its range
LEMMA InitTyped == Init => TypeInv
  <1> SUFFICES ASSUME Init PROVE TypeInv
    OBVIOUS
  <1>1. k \in 0..Attempts /\ good \in 0..Count /\ kept \in Nat
    BY ReceiveAssumption DEF Init, ReceiveAssumption
  <1>2. /\ words \in Seq(Nat) /\ Len(words) <= Words
        /\ printed \in Seq(Nat) /\ Len(printed) = good
    BY ReceiveAssumption DEF Init, ReceiveAssumption
  <1>3. ProgramTypes /\ Allowed
    BY <1>1, <1>2 DEF Init, ProgramTypes, Allowed, Signals
  <1>4. sent \in Nat /\ lock \in 0..sent /\ shift \in 0..sent
    BY DEF Init
  <1>5. HardwareTypes
    BY <1>4 DEF Init, HardwareTypes, Signals
  <1> QED
    BY <1>3, <1>5 DEF TypeInv

\* a step of the program keeps the types, and counts no attempt and no message too many
LEMMA ZmsgTyped ==
  ASSUME TypeInv, Zmsg
  PROVE  TypeInv'
  <1>1. HardwareTypes' /\ listen' \in BOOLEAN /\ stop_requested' \in BOOLEAN
    BY ZmsgFrame DEF TypeInv, HardwareTypes, ProgramTypes
  <1>2. ProgramTypes /\ Allowed /\ shift \in Nat /\ done_sticky \in BOOLEAN
        /\ received_sample \in BOOLEAN /\ Attempts \in Nat /\ Count \in Nat
        /\ Words \in Nat
    BY ReceiveAssumption DEF TypeInv, HardwareTypes, ReceiveAssumption
  <1> USE <1>1, <1>2 DEF ProgramTypes, Allowed, Signals, Goto
  <1>3. CASE Poll
    BY <1>3 DEF Poll, TypeInv
  <1>4. CASE LoopTest
    BY <1>4 DEF LoopTest, Wanted, TypeInv
  <1>5. CASE WriteStart
    BY <1>5 DEF WriteStart, TypeInv
  <1>6. CASE ReleaseStart
    BY <1>6 DEF ReleaseStart, TypeInv
  <1>7. CASE Settle
    BY <1>7 DEF Settle, TypeInv
  <1>8. CASE WriteClear
    BY <1>8 DEF WriteClear, TypeInv
  <1>12. ASSUME NextAttempt, k < Attempts
         PROVE  /\ pc' = "loop" /\ k' \in 0..Attempts /\ s' = FALSE /\ recv' = FALSE
                /\ kept' \in Nat /\ words' \in Seq(Nat) /\ Len(words') <= Words
    BY <1>12 DEF NextAttempt, TypeInv
  <1>9. CASE ReleaseClear
    <2>1. CASE NextAttempt
      BY <1>9, <1>12, <2>1 DEF ReleaseClear, TypeInv
    <2>2. CASE ~ NextAttempt
      BY <1>9, <2>2 DEF ReleaseClear, TypeInv
    <2> QED
      BY <2>1, <2>2
  <1>10. CASE ReadWord
    <2>1. words' \in Seq(Nat) /\ Len(words') <= Words
      BY <1>10 DEF ReadWord
    <2> QED
      BY <1>10, <2>1 DEF ReadWord, TypeInv
  <1>11. CASE CheckPacket
    <2>1. 1 \in 1..Len(words)
      BY <1>11, ReceiveAssumption DEF CheckPacket, ReceiveAssumption
    <2>2. words[1] \in Nat
      BY <2>1
    <2>3. printed' \in Seq(Nat) /\ Len(printed') = good' /\ good' \in 0..Count
      BY <1>11, <2>2 DEF CheckPacket
    <2> QED
      BY <1>11, <1>12, <2>3 DEF CheckPacket, TypeInv
  <1> QED
    BY <1>3, <1>4, <1>5, <1>6, <1>7, <1>8, <1>9, <1>10, <1>11 DEF Zmsg

\* a sample clock keeps the types
LEMMA ClockTyped ==
  ASSUME TypeInv, NEW e \in Events, NEW on_packet \in BOOLEAN, NEW intact \in BOOLEAN,
         SampleClock(e, on_packet, intact)
  PROVE  TypeInv'
  <1>1. ProgramTypes' /\ Allowed'
    BY ClockFrame DEF TypeInv, ProgramTypes, Allowed
  <1>2. HardwareTypes /\ gp_ctrl \in Signals
    BY DEF TypeInv, ProgramTypes
  <1>3. /\ control_meta' \in Signals /\ control_sync' \in Signals
        /\ control_sync_d' \in Signals /\ start_pulse' \in BOOLEAN
    BY <1>2 DEF SampleClock, start_edge, HardwareTypes
  <1>4. sent' \in Nat /\ sent <= sent'
    BY <1>2 DEF SampleClock, Air, HardwareTypes
  <1>5. on' \in BOOLEAN /\ preamble' \in BOOLEAN
    BY <1>2 DEF SampleClock, Air, HardwareTypes
  <1>6. /\ sampling' \in BOOLEAN /\ gate' \in {"shut", "packet", "hang"}
        /\ ber' \in {"idle", "search", "locked"} /\ received' \in BOOLEAN
        /\ ber_abort' \in BOOLEAN /\ timed_out' \in BOOLEAN /\ ber_done' \in BOOLEAN
        /\ done' \in BOOLEAN
    BY <1>2 DEF SampleClock, Core, Gate, HardwareTypes
  <1>7. lock' \in 0..sent' /\ shift' \in 0..sent'
    BY <1>2, <1>4 DEF SampleClock, Core, DecodedBits, HardwareTypes
  <1>8. /\ done_sticky' \in BOOLEAN /\ timeout_sticky' \in BOOLEAN
        /\ tx_path_active' \in BOOLEAN
        /\ received_sample' \in BOOLEAN
    BY <1>2 DEF SampleClock, Path, Result, start_edge, HardwareTypes
  <1> QED
    BY <1>1, <1>3, <1>4, <1>5, <1>6, <1>7, <1>8 DEF TypeInv, HardwareTypes

\* a signal keeps the types
LEMMA TermTyped ==
  ASSUME TypeInv, OnTerm
  PROVE  TypeInv'
  BY TermFrame DEF TypeInv, ProgramTypes, HardwareTypes, Allowed

\* no step, no change of a type
LEMMA StutterTyped ==
  ASSUME TypeInv, UNCHANGED vars
  PROVE  TypeInv'
  BY DEF TypeInv, ProgramTypes, HardwareTypes, Allowed, vars, zmsg, rest, bridge, control,
         core, air

\* what a step may be
LEMMA NextCases ==
  ASSUME [Next]_vars
  PROVE  \/ Zmsg \/ OnTerm \/ UNCHANGED vars
         \/ \E e \in Events, on_packet \in BOOLEAN, intact \in BOOLEAN :
              SampleClock(e, on_packet, intact)
  BY DEF Next, AnySampleClock

(***************************************************************************)
(* Every register keeps its range: no more than --attempts attempts are    *)
(* made, and no more than --count messages are printed.                    *)
(***************************************************************************)
THEOREM ReceiveTypesKept == Spec => []TypeOK
  <1>1. TypeInv /\ [Next]_vars => TypeInv'
    BY NextCases, ZmsgTyped, ClockTyped, TermTyped, StutterTyped
  <1>2. TypeInv => TypeOK
    BY DEF TypeInv, ProgramTypes, HardwareTypes, TypeOK, Signals
  <1> QED
    BY <1>1, <1>2, InitTyped, PTL DEF Spec

-----------------------------------------------------------------------------
(* What is over stays over.                                                *)

\* nothing is on the air when the program starts
LEMMA InitAired == Init => Aired
  BY DEF Init, Aired, Over

\* what is over stays over: a packet never comes again
LEMMA OverKept ==
  ASSUME TypeInv, NEW e \in Events, NEW on_packet \in BOOLEAN, NEW intact \in BOOLEAN,
         SampleClock(e, on_packet, intact), NEW p \in Nat, Over(p)
  PROVE  p <= sent' /\ (on' => p < sent')
  <1>1. sent \in Nat /\ on \in BOOLEAN
    BY DEF TypeInv, HardwareTypes
  <1> QED
    BY <1>1 DEF SampleClock, Air, CanHappen, Events, Over

\* a sample clock takes in whole only what it has heard to the end
LEMMA ClockAired ==
  ASSUME TypeInv, Aired, NEW e \in Events, NEW on_packet \in BOOLEAN,
         NEW intact \in BOOLEAN, SampleClock(e, on_packet, intact)
  PROVE  Aired'
  <1>1. /\ sent \in Nat /\ on \in BOOLEAN /\ lock \in Nat /\ shift \in Nat
        /\ \A i \in 1..Len(printed) : printed[i] \in Nat
    BY DEF TypeInv, HardwareTypes, ProgramTypes
  <1>2. printed' = printed
    BY ClockFrame
  <1>3. e = "begins" => ~ on /\ lock = 0
    BY DEF SampleClock, CanHappen, Aired
  <1>4. lock' # 0 => lock' = sent' /\ on'
    BY <1>1, <1>3 DEF SampleClock, Air, Core, Aired
  <1>5. Over(shift)'
    <2> SUFFICES shift' <= sent' /\ (on' => shift' < sent')
      BY DEF Over
    <2>1. CASE shift' = shift
      BY <1>1, <2>1, OverKept DEF Over, Aired
    <2>2. CASE shift' = 0
      <3>1. Over(0)
        BY <1>1 DEF Over, Aired
      <3> QED
        BY <1>1, <2>2, <3>1, OverKept DEF Over
    <2>3. CASE shift' = lock /\ e = "last" /\ lock # 0
      <3>1. sent' = sent /\ ~ on' /\ lock = sent
        BY <2>3 DEF SampleClock, Air, Aired
      <3> QED
        BY <1>1, <2>3, <3>1
    <2>4. \/ shift' = shift \/ shift' = 0
          \/ shift' = lock /\ e = "last" /\ lock # 0
      BY DEF SampleClock, DecodedBits, Whole
    <2> QED
      BY <2>1, <2>2, <2>3, <2>4
  <1>6. \A i \in 1..Len(printed) : printed[i] <= sent' /\ (on' => printed[i] < sent')
    BY <1>1, OverKept DEF Aired
  <1> QED
    BY <1>2, <1>4, <1>5, <1>6 DEF Aired, Over

\* only a check prints, and what it prints is the register
LEMMA Prints ==
  ASSUME TypeInv, Crossing, Kept, Zmsg
  PROVE  \/ printed' = printed
         \/ CheckPacket /\ crc_ok /\ printed' = Append(printed, shift) /\ shift # 0
  <1>1. CASE CheckPacket /\ crc_ok
    <2>1. 1 \in 1..Len(words)
      BY <1>1, ReceiveAssumption DEF CheckPacket, ReceiveAssumption
    <2>2. words[1] = shift
      BY <1>1, <2>1 DEF CheckPacket, Kept, Crossing
    <2> QED
      BY <1>1, <2>2 DEF CheckPacket, crc_ok
  <1>2. CASE ~ (CheckPacket /\ crc_ok)
    BY <1>2 DEF Zmsg, Poll, LoopTest, WriteStart, ReleaseStart, Settle, WriteClear,
                ReleaseClear, ReadWord, CheckPacket
  <1> QED
    BY <1>1, <1>2

\* what the program prints is over, as the register it comes from is
LEMMA ZmsgAired ==
  ASSUME TypeInv, Aired, Crossing, Kept, Zmsg
  PROVE  Aired'
  <1>1. printed \in Seq(Nat) /\ shift \in Nat
    BY DEF TypeInv, ProgramTypes, HardwareTypes
  <1>2. (lock # 0 => lock = sent /\ on)' /\ Over(shift)'
    BY ZmsgFrame DEF Aired, Over
  <1>3. \A i \in 1..Len(printed') : Over(printed[i])'
    <2> SUFFICES ASSUME NEW i \in 1..Len(printed')
                 PROVE  printed'[i] <= sent /\ (on => printed'[i] < sent)
      BY ZmsgFrame DEF Over
    <2>1. CASE printed' = printed
      BY <2>1 DEF Aired, Over
    <2>2. CASE printed' = Append(printed, shift)
      BY <1>1, <2>2 DEF Aired, Over
    <2> QED
      BY <2>1, <2>2, Prints
  <1> QED
    BY <1>2, <1>3 DEF Aired

-----------------------------------------------------------------------------
(* The rising edges of start and clear.                                    *)

\* start and clear are off in all flops
LEMMA InitCrossing == Init => Crossing
  BY DEF Init, Crossing, NoStartComing

\* a sample clock moves start and clear on by one flop
LEMMA ClockCrossing ==
  ASSUME Crossing, NEW e \in Events, NEW on_packet \in BOOLEAN,
         NEW intact \in BOOLEAN, SampleClock(e, on_packet, intact)
  PROVE  Crossing'
  <1>1. NoStartComing => NoStartComing'
    BY ClockFrame DEF SampleClock, NoStartComing
  <1> QED
    BY <1>1, ClockFrame DEF SampleClock, Crossing

\* a hold that is not cut brings the edge across before its line falls
LEMMA ZmsgCrossing ==
  ASSUME TypeInv, Crossing, Zmsg
  PROVE  Crossing'
  <1>1. UNCHANGED <<control_meta, control_sync, control_sync_d, stop_requested>>
    BY ZmsgFrame
  <1>2. NoStartComing /\ gp_ctrl' # "start" => NoStartComing'
    BY <1>1 DEF NoStartComing
  <1>3. s \in BOOLEAN /\ s' \in BOOLEAN
    BY ZmsgTyped DEF TypeInv, ProgramTypes
  <1>4. CASE LoopTest
    BY <1>1, <1>4 DEF LoopTest, Goto, Crossing
  <1>5. CASE WriteStart
    BY <1>1, <1>5 DEF WriteStart, Goto, Crossing
  <1>6. CASE ReleaseStart
    <2>1. ~ interrupted =>
            NoStartComing' /\ "clear" \notin {control_meta, control_sync, control_sync_d}
      BY <1>1, <1>6 DEF ReleaseStart, Sleeps, Held, NoStartComing, Crossing
    <2> QED
      BY <1>1, <1>6, <2>1 DEF ReleaseStart, Goto, Crossing
  <1>7. CASE Poll
    <2>1. gp_ctrl' = "mode"
      BY <1>7 DEF Poll, Crossing
    <2>2. pc' = "settle" \/ (pc' = "recv" /\ ~ s')
      <3>1. CASE done_sticky
        BY <1>7, <3>1 DEF Poll, Goto
      <3>2. CASE ~ done_sticky
        BY <1>3, <1>7, <3>2 DEF Poll, Goto, Crossing
      <3> QED
        BY <3>1, <3>2
    <2>3. pc' = "settle" => s'
      BY <1>7 DEF Poll, Goto
    <2> QED
      BY <1>1, <1>2, <1>7, <2>1, <2>2, <2>3 DEF Poll, Crossing
  <1>8. CASE Settle
    <2>1. NoStartComing
      BY <1>8 DEF Settle, Sleeps, Held, Crossing, NoStartComing
    <2> QED
      BY <1>1, <1>2, <1>8, <2>1 DEF Settle, Goto, Crossing
  <1>9. CASE WriteClear
    BY <1>1, <1>2, <1>9 DEF WriteClear, Goto, Crossing
  <1>10. CASE ReleaseClear
    <2>1. gp_ctrl' = "mode" /\ interrupted' = interrupted /\ pc = "clearing"
      BY <1>10 DEF ReleaseClear
    <2>2. (Locked /\ pc' = "read" /\ s' = s /\ recv' = recv)
          \/ (pc' = "loop" /\ s' = FALSE)
      <3>1. CASE NextAttempt
        BY <3>1 DEF NextAttempt, Goto
      <3>2. CASE ~ NextAttempt
        BY <1>10, <3>2 DEF ReleaseClear, Goto
      <3> QED
        BY <3>1, <3>2
    <2>3. s => NoStartComing'
      BY <1>2, <2>1 DEF Crossing
    <2>4. CASE Locked /\ pc' = "read" /\ s' = s /\ recv' = recv
      <3>1. s /\ recv /\ s' /\ recv' /\ NoStartComing'
        BY <2>3, <2>4 DEF Locked
      <3> QED
        BY <1>1, <2>1, <2>4, <3>1 DEF Crossing
    <2>5. CASE pc' = "loop" /\ s' = FALSE
      BY <1>1, <2>1, <2>5 DEF Crossing
    <2> QED
      BY <2>2, <2>4, <2>5
  <1>11. CASE ReadWord
    <2>1. UNCHANGED <<pc, s, recv, interrupted, gp_ctrl>> /\ pc = "read"
      BY <1>11 DEF ReadWord
    <2>2. s /\ recv /\ NoStartComing
      BY <2>1 DEF Crossing
    <2>3. NoStartComing'
      BY <1>2, <2>1, <2>2 DEF NoStartComing
    <2> QED
      BY <1>1, <2>1, <2>2, <2>3 DEF Crossing
  <1>12. CASE CheckPacket
    BY <1>1, <1>12 DEF CheckPacket, NextAttempt, Goto, Crossing
  <1> QED
    BY <1>4, <1>5, <1>6, <1>7, <1>8, <1>9, <1>10, <1>11, <1>12 DEF Zmsg

\* a signal in the 5 ms finds that none cut the hold before
LEMMA TermCrossing ==
  ASSUME Crossing, OnTerm
  PROVE  Crossing'
  <1>1. NoStartComing' <=> NoStartComing
    BY TermFrame DEF NoStartComing
  <1>2. ~ stop_requested
    BY DEF OnTerm
  <1> QED
    BY <1>1, <1>2, TermFrame DEF Crossing

-----------------------------------------------------------------------------
(* The end of an attempt closes the sample path.                           *)

\* nothing has been received
LEMMA InitEnded == Init => Ended
  BY DEF Init, Ended

\* no symbol comes while the path is closed or a result is under way
LEMMA NoSymbol ==
  ASSUME NEW e \in Events, NEW on_packet, NEW intact, SampleClock(e, on_packet, intact),
         e \in {"symbol", "locks", "last"}
  PROVE  tx_path_active /\ ~ ber_abort /\ ~ ber_done /\ ~ done
  BY DEF SampleClock, CanHappen, Events, Flows, ResultUnderWay

\* the last symbol of a packet ends the attempt, and its end closes the path
LEMMA ClockEnded ==
  ASSUME TypeInv, Ended, NEW e \in Events, NEW on_packet \in BOOLEAN,
         NEW intact \in BOOLEAN, SampleClock(e, on_packet, intact)
  PROVE  Ended'
  <1> USE DEF TypeInv, HardwareTypes
  <1>1. (timed_out <=> ber_abort)'
    BY DEF SampleClock, Core
  <1>2. done_sticky' \/ received_sample' => ~ tx_path_active'
    BY DEF SampleClock, Path, Result, Ended
  <1>3. ASSUME shift' # 0
        PROVE  /\ ber' = "idle" /\ ~ start_pulse' /\ ~ ber_abort'
               /\ ~ (ber_done' /\ done')
               /\ ~ tx_path_active' => ~ ber_done' /\ ~ done'
    <2>1. ~ start_edge
      BY <1>3 DEF SampleClock, DecodedBits
    <2>2. CASE e = "last"
      <3>1. ber = "locked"
        BY <2>2 DEF SampleClock, CanHappen
      <3>2. tx_path_active /\ ~ ber_abort /\ ~ ber_done /\ ~ done /\ ~ timed_out
        BY <2>2, NoSymbol DEF Ended
      <3> QED
        BY <2>1, <2>2, <3>1, <3>2 DEF SampleClock, Core, Path, FrameStart
    <2>3. CASE e # "last"
      <3>0. e \in {"symbol", "locks"} => tx_path_active /\ ~ done_sticky
        BY NoSymbol DEF Ended
      <3>1. shift' = shift /\ e \notin {"symbol", "locks", "last"}
        <4>1. ~ Whole(e, intact)
          BY <2>3 DEF Whole
        <4>2. CASE e \in {"symbol", "locks"}
          <5>1. shift' = 0
            BY <2>1, <3>0, <4>1, <4>2 DEF SampleClock, DecodedBits
          <5> QED
            BY <1>3, <5>1
        <4>3. CASE e \notin {"symbol", "locks"}
          BY <2>1, <2>3, <4>3 DEF SampleClock, DecodedBits
        <4> QED
          BY <4>2, <4>3
      <3>2. /\ ber = "idle" /\ ~ start_pulse /\ ~ ber_abort /\ ~ timed_out
            /\ ~ (ber_done /\ done)
            /\ ~ tx_path_active => ~ ber_done /\ ~ done
        BY <1>3, <3>1 DEF Ended
      <3>3. e # "gives_up"
        BY <3>2 DEF SampleClock, CanHappen
      <3> QED
        BY <2>1, <3>1, <3>2, <3>3 DEF SampleClock, Core, Path, FrameStart
    <2> QED
      BY <2>2, <2>3
  <1> QED
    BY <1>1, <1>2, <1>3 DEF Ended

-----------------------------------------------------------------------------
(* What is read is what was counted.                                       *)

\* nothing is kept yet
LEMMA InitKept == Init => Kept
  BY DEF Init, Kept

\* no start comes and no sample: the register stays, and a done taken away is gone
LEMMA ClockKept ==
  ASSUME TypeInv, Crossing, Ended, Kept, NEW e \in Events,
         NEW on_packet \in BOOLEAN, NEW intact \in BOOLEAN,
         SampleClock(e, on_packet, intact)
  PROVE  Kept'
  <1>1. UNCHANGED <<pc, s, recv, words, kept, stop_requested>>
    BY ClockFrame
  <1> SUFFICES ASSUME pc \in {"clearing", "read"}, s, recv
               PROVE  Kept'
    BY <1>1 DEF Kept, Crossing
  <1>2. ~ tx_path_active /\ shift = kept
    BY DEF Kept
  <1>3. ~ start_edge
    BY DEF Crossing, NoStartComing, start_edge
  <1>4. e \notin {"symbol", "locks", "last"}
    BY <1>2, NoSymbol
  <1>5. ~ tx_path_active' /\ shift' = kept
    BY <1>2, <1>3, <1>4 DEF SampleClock, Path, DecodedBits
  <1>6. ASSUME shift # 0
        PROVE  /\ ~ done_sticky \/ clear_done_edge => ~ done_sticky'
    BY <1>2, <1>3, <1>6 DEF Ended, SampleClock, Result
  <1>7. control_sync_d' = "clear" => control_sync_d = "clear" \/ clear_done_edge
    BY DEF SampleClock, clear_done_edge
  <1>8. ASSUME ~ stop_requested
        PROVE  /\ pc = "clearing" /\ control_sync_d' = "clear" =>
                    shift' = 0 \/ ~ done_sticky'
               /\ pc = "read" => shift' = 0 \/ ~ done_sticky'
    BY <1>2, <1>5, <1>6, <1>7, <1>8 DEF Kept
  <1> QED
    BY <1>1, <1>5, <1>8 DEF Kept

\* the count, read while done shows, tells that the path is closed
LEMMA ZmsgKept ==
  ASSUME TypeInv, Crossing, Ended, Kept, Zmsg
  PROVE  Kept'
  <1>1. UNCHANGED <<shift, tx_path_active, done_sticky, received_sample, control_sync_d,
                    stop_requested>>
    BY ZmsgFrame
  <1>6. pc' # "read" => words' = <<>>
    BY DEF Zmsg, Poll, LoopTest, WriteStart, ReleaseStart, Settle, WriteClear, ReleaseClear,
           ReadWord, CheckPacket, NextAttempt, Goto, Kept
  <1>2. CASE pc' \notin {"clearing", "read"}
    BY <1>2, <1>6 DEF Kept
  <1>3. CASE WriteClear
    <2>1. recv' => ~ tx_path_active
      BY <1>3 DEF WriteClear, Ended
    <2>2. kept' = shift /\ pc' = "clearing" /\ s' = s
      BY <1>3 DEF WriteClear, Goto
    <2>3. s /\ ~ stop_requested => control_sync_d # "clear"
      BY <1>3 DEF WriteClear, Crossing
    <2> QED
      BY <1>1, <1>6, <2>1, <2>2, <2>3 DEF Kept
  <1>4. CASE ReleaseClear /\ pc' = "read"
    <2>1. Locked /\ UNCHANGED <<s, recv, words, kept>>
      BY <1>4 DEF ReleaseClear, NextAttempt, Goto
    <2>2. ~ stop_requested => control_sync_d = "clear"
      BY <1>4 DEF ReleaseClear, Sleeps, Held, Crossing
    <2>3. words = <<>>
      BY <1>4 DEF ReleaseClear, Kept
    <2> QED
      BY <1>1, <1>4, <2>1, <2>2, <2>3 DEF Kept, Locked, ReleaseClear
  <1>5. CASE ReadWord
    <2>1. /\ ~ tx_path_active /\ shift = kept
          /\ \A a \in 1..Len(words) : words[a] = kept
      BY <1>5 DEF ReadWord, Kept, Crossing
    <2>2. words' = Append(words, shift) /\ words \in Seq(Nat) /\ shift \in Nat
      BY <1>5 DEF ReadWord, TypeInv, ProgramTypes, HardwareTypes
    <2>3. \A a \in 1..Len(words') : words'[a] = kept
      BY <2>1, <2>2
    <2> QED
      BY <1>1, <1>5, <2>1, <2>3 DEF ReadWord, Kept
  <1> QED
    BY <1>2, <1>3, <1>4, <1>5
    DEF Zmsg, Poll, LoopTest, WriteStart, ReleaseStart, Settle, CheckPacket, NextAttempt,
        ReleaseClear, Goto

\* a signal changes nothing the register is read for
LEMMA TermKept ==
  ASSUME Kept, OnTerm
  PROVE  Kept'
  BY TermFrame DEF Kept

-----------------------------------------------------------------------------
(* What is printed is new.                                                 *)

\* nothing is printed
LEMMA InitFresh == Init => Fresh /\ PrintedOnce
  BY DEF Init, Fresh, Ready, New, PrintedOnce

\* what comes into the register was not printed: it is the packet on the air
LEMMA ClockNew ==
  ASSUME TypeInv, Aired, NEW e \in Events, NEW on_packet \in BOOLEAN,
         NEW intact \in BOOLEAN, SampleClock(e, on_packet, intact)
  PROVE  shift' = shift \/ New(shift)'
  <1>1. printed' = printed
    BY ClockFrame
  <1>2. shift' = 0 \/ shift' = shift \/ (lock # 0 /\ shift' = lock)
    BY DEF SampleClock, DecodedBits, Whole
  <1>3. ASSUME lock # 0, shift' = lock
        PROVE  New(shift)'
    BY <1>1, <1>3 DEF Aired, Over, New
  <1> QED
    BY <1>1, <1>2, <1>3 DEF New

\* a sample clock shows no done before something new is in the register
LEMMA ClockFresh ==
  ASSUME TypeInv, Aired, Ended, Fresh, NEW e \in Events, NEW on_packet \in BOOLEAN,
         NEW intact \in BOOLEAN, SampleClock(e, on_packet, intact)
  PROVE  Fresh'
  <1>1. UNCHANGED <<pc, s, printed, stop_requested>>
    BY ClockFrame
  <1>2. New(shift) => New(shift)'
    BY <1>1, ClockNew DEF New
  <1>3. Ready => Ready'
    <2>1. CASE New(shift)'
      BY <2>1 DEF Ready
    <2>2. CASE ~ New(shift)' /\ ~ tx_path_active /\ ~ done_sticky
      <3>1. shift' # 0 /\ shift' = shift
        BY <2>2, ClockNew DEF New
      <3>2. ~ start_edge
        BY <3>1 DEF SampleClock, DecodedBits
      <3>3. ~ done
        BY <2>2, <3>1 DEF Ended
      <3> QED
        BY <2>2, <3>2, <3>3 DEF SampleClock, Path, Result, Ready
    <2> QED
      BY <1>2, <2>1, <2>2 DEF Ready
  <1> QED
    BY <1>1, <1>2, <1>3 DEF Fresh

\* the attempt after one whose packet was read starts with done taken away
LEMMA ZmsgFresh ==
  ASSUME TypeInv, Crossing, Ended, Kept, Fresh, Zmsg
  PROVE  Fresh'
  <1>1. UNCHANGED <<shift, tx_path_active, done_sticky, stop_requested>>
    BY ZmsgFrame
  <1>2. CASE CheckPacket
    <2>1. pc' = "loop" /\ s' = FALSE
      BY <1>2 DEF CheckPacket, NextAttempt, Goto
    <2>2. ~ tx_path_active /\ (~ stop_requested => shift = 0 \/ ~ done_sticky)
      BY <1>2 DEF CheckPacket, Kept, Crossing
    <2>3. ~ stop_requested => Ready'
      BY <1>1, <2>2 DEF Ready, New
    <2> QED
      BY <1>1, <2>1, <2>3 DEF Fresh
  <1>3. CASE ~ CheckPacket
    <2>1. printed' = printed
      BY <1>3, Prints
    <2>2. (Ready' <=> Ready) /\ (New(shift)' <=> New(shift))
      BY <1>1, <2>1 DEF Ready, New
    <2>3. CASE Poll
      <3>1. CASE done_sticky
        BY <1>1, <2>2, <2>3, <3>1 DEF Poll, Goto, Fresh, Ready
      <3>2. CASE ~ done_sticky
        <4>1. pc' = "recv" /\ ~ s'
          BY <2>3, <3>2 DEF Poll, Goto, Crossing
        <4> QED
          BY <2>2, <2>3, <4>1 DEF Poll, Fresh
      <3> QED
        BY <3>1, <3>2
    <2>4. CASE LoopTest
      BY <1>1, <2>2, <2>4 DEF LoopTest, Wanted, Goto, Fresh
    <2>5. CASE WriteStart \/ ReleaseStart \/ Settle \/ WriteClear
      BY <1>1, <2>2, <2>5
      DEF WriteStart, ReleaseStart, Settle, WriteClear, Goto, Fresh, Crossing
    <2>6. CASE ReleaseClear
      <3>1. CASE NextAttempt
        <4>1. pc' = "loop" /\ s' = FALSE
          BY <3>1 DEF NextAttempt, Goto
        <4>2. Ready
          BY <2>6 DEF ReleaseClear, Fresh, Ready
        <4> QED
          BY <2>2, <4>1, <4>2 DEF Fresh
      <3>2. CASE ~ NextAttempt
        BY <2>2, <2>6, <3>2 DEF ReleaseClear, Goto, Fresh
      <3> QED
        BY <3>1, <3>2
    <2>7. CASE ReadWord
      BY <1>1, <2>2, <2>7 DEF ReadWord, Fresh
    <2> QED
      BY <1>3, <2>3, <2>4, <2>5, <2>6, <2>7 DEF Zmsg
  <1> QED
    BY <1>2, <1>3

\* what is printed is new
LEMMA ZmsgPrintsOnce ==
  ASSUME TypeInv, Crossing, Kept, Fresh, PrintedOnce, Zmsg
  PROVE  PrintedOnce'
  <1>1. printed \in Seq(Nat) /\ shift \in Nat
    BY DEF TypeInv, ProgramTypes, HardwareTypes
  <1>2. CASE printed' = printed
    BY <1>2 DEF PrintedOnce
  <1>3. CASE CheckPacket /\ printed' = Append(printed, shift) /\ shift # 0
    <2>1. \A i \in 1..Len(printed) : printed[i] < shift
      BY <1>3 DEF CheckPacket, Crossing, Fresh, New
    <2>2. /\ Len(printed') = Len(printed) + 1 /\ Len(printed) \in Nat
          /\ \A i \in 1..Len(printed) : printed'[i] = printed[i] /\ printed[i] \in Nat
          /\ printed'[Len(printed) + 1] = shift
      BY <1>1, <1>3
    <2> SUFFICES ASSUME NEW i \in 1..Len(printed'), NEW j \in 1..Len(printed'), i < j
                 PROVE  printed'[i] < printed'[j]
      BY DEF PrintedOnce
    <2>3. i \in 1..Len(printed)
      BY <2>2
    <2>4. CASE j \in 1..Len(printed)
      BY <2>2, <2>3, <2>4 DEF PrintedOnce
    <2>5. CASE j = Len(printed) + 1
      BY <2>1, <2>2, <2>3, <2>5
    <2> QED
      BY <2>2, <2>4, <2>5
  <1> QED
    BY <1>2, <1>3, Prints

-----------------------------------------------------------------------------
\* a signal neither prints nor moves the hardware
LEMMA TermInv ==
  ASSUME ReceiveInv, OnTerm
  PROVE  ReceiveInv'
  <1>1. Aired'
    BY TermFrame DEF ReceiveInv, Aired, Over
  <1>2. Ended'
    BY TermFrame DEF ReceiveInv, Ended
  <1>3. (Ready' <=> Ready) /\ (New(shift)' <=> New(shift))
    BY TermFrame DEF Ready, New
  <1>4. Fresh'
    BY <1>3, TermFrame DEF ReceiveInv, Fresh, OnTerm
  <1>5. PrintedOnce'
    BY TermFrame DEF ReceiveInv, PrintedOnce
  <1> QED
    BY <1>1, <1>2, <1>4, <1>5, TermTyped, TermCrossing, TermKept DEF ReceiveInv

\* no step, no change
LEMMA StutterInv ==
  ASSUME ReceiveInv, UNCHANGED vars
  PROVE  ReceiveInv'
  <1> USE DEF vars, zmsg, rest, bridge, control, core, air
  <1>1. TypeInv' /\ Aired'
    BY StutterTyped DEF ReceiveInv, Aired, Over
  <1>2. Crossing' /\ Ended'
    BY DEF ReceiveInv, Crossing, NoStartComing, Ended
  <1>3. Kept'
    BY DEF ReceiveInv, Kept
  <1>4. Fresh' /\ PrintedOnce'
    BY DEF ReceiveInv, Fresh, Ready, New, PrintedOnce
  <1> QED
    BY <1>1, <1>2, <1>3, <1>4 DEF ReceiveInv

\* every step keeps the invariant
LEMMA ReceiveInvKept ==
  ASSUME ReceiveInv, [Next]_vars
  PROVE  ReceiveInv'
  <1> USE DEF ReceiveInv
  <1>1. CASE Zmsg
    BY <1>1, ZmsgTyped, ZmsgAired, ZmsgCrossing, ZmsgKept, ZmsgFresh, ZmsgPrintsOnce,
       ZmsgFrame DEF Ended
  <1>2. ASSUME NEW e \in Events, NEW on_packet \in BOOLEAN, NEW intact \in BOOLEAN,
               SampleClock(e, on_packet, intact)
        PROVE  ReceiveInv'
    <2>1. PrintedOnce'
      BY <1>2, ClockFrame DEF PrintedOnce
    <2> QED
      BY <1>2, <2>1, ClockTyped, ClockAired, ClockCrossing, ClockEnded, ClockKept,
         ClockFresh
  <1> QED
    BY <1>1, <1>2, TermInv, StutterInv, NextCases

\* nothing is received and nothing printed
LEMMA InitInv == Init => ReceiveInv
  BY InitTyped, InitAired, InitCrossing, InitEnded, InitKept, InitFresh DEF ReceiveInv

(***************************************************************************)
(* No packet is printed twice, and none out of the order of the air,       *)
(* whatever starts or clears the bridge misses: signals, given-up attempts *)
(* and their late ends included.                                           *)
(***************************************************************************)
THEOREM NeverPrintedAgain == Spec => []PrintedOnce
  <1>1. ReceiveInv => PrintedOnce
    BY DEF ReceiveInv
  <1> QED
    BY <1>1, InitInv, ReceiveInvKept, PTL DEF Spec

(***************************************************************************)
(* Once clear has taken done, and with it the freeze, away, only the       *)
(* closed sample path and the absence of a start edge in the flops keep    *)
(* the register as it was when the count was read: they do, after every    *)
(* signal.                                                                 *)
(***************************************************************************)
THEOREM KeptIsRead == Spec => []ReadsWhatWasKept
  <1>1. ReceiveInv => ReadsWhatWasKept
    BY DEF ReceiveInv, Kept, ReadsWhatWasKept
  <1> QED
    BY <1>1, InitInv, ReceiveInvKept, PTL DEF Spec
=============================================================================
