# Verification of the message path of the Zynq SDR course

Most of this repository is course text, figures, Python models, fixed-point
signal processing, and vendor code kept for reference. The parts that are
concurrent programs of its own are three ways of sending data over the radio of
two Zynq boards:

* the *message path*: `zmbox`, a C program that polls registers; a mailbox core
  behind these registers that hands requests across a clock boundary by toggles;
  a modem that was first built for bit-error measurements and serves them;
* `zmsg`, which receives through the same modem without the mailbox, by bits of
  a general-purpose register;
* the *OFDM radio*: `zofdm`, and a core with a modem, a bit feeder, a transmit
  machine and dual-clock FIFOs.

In each of them a program, one or two clock domains and a radio channel that
loses what it likes know nothing of each other's timing, and timers race
answers on every level. That is what these modules model, check and prove.

## 1. Inventory

Paths: `B05` = `src/blocks/block_05_fpga_hdl_flow/rtl`, `B08` =
`src/blocks/block_08_modulation_and_synchronization`, `B11` =
`src/blocks/block_11_integrated_sdr_project`, `HW` =
`src/hardware/7020_ad936x_sdr/hdl/course_bpsk_fmcomms2_zc702`.

| Component | State it keeps | Operations | What makes it hard |
|---|---|---|---|
| **PS/PL mailbox** `B05/zynq_message_mailbox_axi_lite.v` | TX registers, one RX message with RX_VALID / RX_OVERFLOW / RX_META, TX_BUSY / TX_DONE, who uses the modem port and for how long, three request toggles, a synchronizer | register writes TX_\*, CONTROL.{TX_START, RX_ACK, RX_LISTEN, RX_STOP}; echo or modem answer; two 0.5 s timers | a write is decoded in the same clock edge as the core's own completions; timers race answers; one answer toggle for two kinds of request |
| **Gpreg bridge, message side** `HW/bpsk_zynq_ber_gpreg_bridge.v`, wired by `bpsk_zynq_ber_bridge_bd.v` | what the attempt is for, pending abort, capture counter, latched result, answer registers | start on a toggle, abort on the stop toggle, latch the result at `done`, capture the answer 8 clocks after the end | other clock domain; a stop may overtake, miss or outlive its attempt; the answer is captured by counting clocks |
| **QPSK core control** `B05/qpsk_zynq_ber_top.v`, `qpsk_ber_counter.v`, `bpsk_ber_counter.v` | transmitter busy, receiver phase, listening window, abort and done pulses | start (only when idle), lock, complete, give up (window, RX_STOP, watchdog) | a start when busy is dropped; the exits of an attempt depend on what was already heard |
| **zmbox** `B11/sw/zmbox.c` | sequence number, last received one, reassembly buffer | `send`, `listen`, `chat` with and without `--arq`, `stop` | one thread polls, sends and acknowledges; half duplex; losses, repeats, crossing sends |
| QPSK sources, transmit chain, packet detector | burst position, detector level | play a frame; open, close | seen by the control only through their events |
| QPSK/BPSK signal path | filters, loops | samples to bits | fixed-point arithmetic, not control |
| BPSK BER core and AXI-Lite slave | counters | measurement runs | not on the message path |
| Sample FIFO from the ADC clock `HW/bridge_rx_lclk_fifo.v` | Gray pointers | write, read, drop on full | two clocks |
| DAC mux `HW/course_dac_fifo_source_mux.v` | selection | select the source | strobes that do not coincide |
| **OFDM radio core, FIFO** `B08/rtl/ofdm_radio_core.v`, `ofdm_async_fifo.v`, `ofdm_tx_cp16_path.v` | bit feeder, transmit machine, gain pipeline, Gray pointers, receive counters, RX buffer | TX_START, RX_ARM (resets modem and feeder), RX_STOP, samples in and out | two clocks, commands while busy, resets of one half that the other does not see |
| **zofdm** `B08/sw/zofdm.c` | frame number, waits | `loop`, `tx`, `rx`, `stop` | waits that may run out, buffers read while the core goes on |
| **zmsg** `B11/sw/zmsg.c` | attempt, status read, words read | `receive` windowed and `--listen`; `send`, `stop` through the DMA driver | start and clear held across a synchronizer, signals that cut the hold, stale results |
| OFDM AXI modem, frame search, conditioner | sticky flags, counters | symbols | signal processing |
| OFDM DMA loopback program `B08/sw/ofdm_dma_loopback.c` | none | a test of the modem | vendor DMA |
| CSS SF7 accelerator `B08/rtl` | symbol buffer, detector, counters | symbol in, result out, clear | set and clear in one clock |
| DAC zero stream, host tools | none to speak of | | |
| AD936x no-OS firmware, `ps7_init*`, bring-up tests, all under `src/hardware/7020_ad936x_sdr/ps` | the vendor's | | not the course's program, see section 6 |

How they interact:

```
zmbox (PS, polls) --AXI-Lite writes/reads--> mailbox (AXI clock)
   mailbox --modem_tx_toggle, modem_listen_toggle, modem_stop_toggle--> bridge (sample clock)
   bridge --start, listen_en, abort--> QPSK core --done, timed_out--> bridge
   bridge --modem_rx_toggle with bits and lock flag--> mailbox
board <==half-duplex radio channel==> board

zmsg receive (PS) --gp_ctrl: start, clear--> bridge (sample clock) --> QPSK core
   bridge --done, timeout, received count, decoded bits--> zmsg

zofdm (PS) --TX buffer, RX_ARM, TX_START, RX_STOP--> radio core (control clock)
   feeder --> modem --> transmit machine --TX FIFO, go / done toggles--> DAC (sample clock)
   frame search --> modem --> RX writer --> RX buffer --> zofdm
```

What makes each part correct:

* mailbox: no message disappears without a trace; what a stopped attempt still
  hears is not delivered; a message with the modem stays put; the modem port has
  one user at a time; every transmission completes and every stopped attempt
  ends, also with a silent modem;
* mailbox, bridge and core together: one request, one answer, to the attempt
  that was asked for; RX_STOP reaches its own attempt and no other; an answer is
  captured only when the result it reports has settled;
* chat: a line reported as acknowledged has arrived (but for one its own user cuts
  with Ctrl-C, finding 5), lines arrive in order, none is printed twice or in
  pieces, every line is reported on, the board listens between sends, also after
  one of the chats was ended and started again;
* zmsg receive: no packet is printed twice whatever start or clear was missed; the
  words are read from the register as it was when done was seen, although clear
  has unfrozen it by then; the program ends;
* OFDM radio: the FIFO's flags are never wrong; a TX_START plays the samples of
  its frame, all of them and nothing else, and ends; what is read from the RX
  buffer is one whole frame found since RX_ARM.

## 2. Modules

| Module | Models | State and actions against the code |
|---|---|---|
| `MessageMailbox` | the mailbox, both MODEs | one step is one AXI clock (`Clock`): the register write decoded in it (`Writes`, one CONTROL word, one TX register, or none) together with the core's completions (`ModemEnds`, `ListenEnds`, `ListenDelivers`, echo). Variables carry the code's names. Where two assignments meet in a clock the later one in the `always` block wins, as in the code. Next-value operators are grouped as the code groups them: `RxRegisters`, `Transmission`, `Reception`, `Synchronizer`, `WriteResponse` |
| `ModemBridge` | message side of the bridge, control of the core | one step is one sample clock (`SampleClock`): `Attempt` (start pulse, mode, capture counter), `AbortRequest`, `Result`, `Answer`, `Synchronizers`, `Receiver`, `Transmitter`; every register a clock apart as in the code. What the antenna brings is one of `Events` |
| `MailboxModem` | the two wired together | interleaves AXI clocks and sample clocks freely; instantiates `ModemBridge` on the toggles of `MessageMailbox` |
| `ChatArq` | two boards running `zmbox chat`, with and without `--arq` | the steps of `send_frame` are steps of their own, because the mailbox moves between them: `RxStop`, `TxStart`, `NotTaken`, `TakeOwn`, `RxListen`; `poll_rx` is `PollPlain`, `PollData`, `PollAck`, `PollOther`; `take_fragment` is `TakeFragment`; `arq_send` and the main loop are `TypeLine`, `PollAck` (next fragment), `Repeat`, `GiveUp`; Ctrl-C is `Quit` between two polls and `QuitBeforeFrame` before a frame of a line, a new start is `Start`; `TxDone` is the mailbox and the air |
| `AckedDelivery` | the promise of `--arq` | abstract specification; `ChatArq` implements it (property `DeliverySpec`, theorem `DeliveryKept`) |
| `AsyncFifo` | `ofdm_async_fifo.v` | one edge of either clock (`WriteClock`, `ReadClock`) or both together (`BothClocks`); where the edges coincide each bit of the other side's Gray pointer may be caught before or after its change (`Caught`). `Pow2` is a parameter, the table of the powers of two, so that the provers meet no recursive definition |
| `OfdmRadio` | the radio core, with `AsyncFifo` inside, and zofdm | `ControlClock` is feeder, modem, gain pipeline and transmit machine in one edge; `SampleClock` the DAC side; `FrameFound`, `SymbolOut`, `Decide`, `WriteWord` the receive half; each register write of `loop`, `tx`, `rx`, `stop` a step (`PutFrame`, `Arm`, `StartTx`, ...) |
| `OfdmBurst` | the promise of a TX_START | abstract specification; `OfdmRadio` implements it (property `BurstKept`, theorem `BurstOnAir`) |
| `ZmsgReceive` | `cmd_receive` of zmsg and the gp register side of bridge and core | a step per register access or sleep (`WriteStart`, `ReleaseStart`, `Poll`, `Settle`, `WriteClear`, `ReleaseClear`, `ReadWord`, `CheckPacket`), per signal (`OnTerm`), per sample clock (`SampleClock`): `Path` is the switch that lets samples in from start to the end of the attempt, `Gate` the listen gate, `Core` the attempt, `DecodedBits` the register, `Result` the sticky bits |
| `MCMailbox`, `MCMailboxModem`, `MCChatArq`, `MCOfdmRadio`, `MCZmsgReceive` | instances for TLC | |
| `MessageMailboxProofs`, `MailboxModemProofs`, `ChatArqProofs`, `AsyncFifoProofs`, `OfdmRadioProofs`, `ZmsgReceiveProofs` | theorems about the module of that name | each extends its component and TLAPS |
| `ChatDeliveryProofs` | that `ChatArq` implements `AckedDelivery` | extends `ChatArqProofs`, whose invariants it rests on |
| `NatLemmas` | three facts about natural numbers the proofs need | no code |

Definitions introduced by "variant" in a comment are plausible slips in the
code (a guard dropped, a pulse one clock early). They are not part of any
specification; replacing the definition they follow by the variant makes the
property about it fail, which is how the properties were tested.

Abstractions, and why they lose nothing the properties could see:

* Payload bytes are one value. The code moves the 16 data words together; only
  "all zero" and "beyond the length" are told apart (`Clip`). The CRC is a bit of
  the frame: whether it matches.
* The 50e6-cycle timers are "counting" or "expired"; nothing in the code reads
  another value of them. A length the modem cannot carry starts with the timer
  expired, as line 408 does.
* The AXI-Lite handshake is reduced to what it enforces: no write in the clock
  after a write. Reads change nothing.
* A toggle is captured by the first clock of the other domain after it changes.
  That a metastable flop may add a clock is not modelled; with two clocks that
  drift freely every number of clocks between two crossings occurs anyway, but
  not every relative order of two toggles changed within one sample clock.
* In chat a frame is its kind, its number, and for a fragment its message id,
  index and count; the text is the line it is of. Whether a frame reaches the
  other board and whether the board hears its own is a choice.
* In the radio core the bit groups of a word are one transfer, and a word is
  named by its frame and place, so that a sample that is out of place shows. The
  IFFT's time is a choice (`ready`). On the receive side a frame is found and
  given out symbol by symbol at any pace the modem accepts; what the bits are is
  their frame, symbol and word. Control clock, sample clock and the receive half
  interleave freely; a register write is a step of its own between two clocks.
* In `ZmsgReceive` a packet is its number and the decoded-bit register holds a
  whole packet or something else; the CRC holds when all words are of one
  packet. Wrong bits, a lock on noise and a lost packet are choices.
* The 65535-symbol window and the 4096-sample watchdog are events that may come
  once the burst of the attempt is over (a burst is at most 2248 samples).

Assumptions on the environment, named in the modules:

* no CONTROL word has TX_START and RX_LISTEN at once (`MailboxAssumption`): the
  two programs that drive the mailbox write one command at a time;
* the general-purpose register bits that start the BER labs stay 0, as
  `radio_setup` leaves them, so every start of the core is the mailbox's;
* MODEM_TIMEOUT (0.5 s) is longer than an attempt (136 ms and a packet), so in
  `MailboxModem` a timer expires only when the modem owes nothing (`MayExpire`).
  The mailbox alone makes no such assumption: there answers come late, twice or
  unasked;
* `Fades = FALSE` in the passing runs of the joined model: a packet the frame
  sync locked on stays above the detector until its end. With `Fades = TRUE` an
  attempt can outlast every timer (finding 3 below) and then late answers do
  reach the mailbox; `OneAnswerOwed` and `AnswerMatches` are not claimed there;
* in a chat plan without `stalls`, ARQ_WAIT_S (0.6 s) is longer than the other
  board takes to answer, so a wait ends only when no answer is on its way
  (`AnswerUnderWay`), and a chat started again finds the air quiet (`Quiet`).
  With `stalls` a wait may end at any time a burst of the board's own is not
  running, and a mailbox may refuse a send;
* `ShortWaits = FALSE` in the passing run of the radio: zofdm's 0.5 s waits and
  the gap between two runs are longer than a burst (14 ms), so they give up only
  when none is on (`MayGiveUp`). With `ShortWaits = TRUE` the DAC may stall for
  longer, which is what finding 6 is about;
* the two resets of a FIFO are asserted together, at power-on, as its header
  asks: resets are `Init`;
* zmsg's holds (20 us) and its settle (5 ms) are longer than three sample clocks,
  unless a signal cuts them (`Held`, `Sleeps`); its polls (0.2 s, 0.5 s) are longer than an attempt, unless the
  core was never started or waits on a packet that was cut (`Overdue`).

## 3. Runs

Every run takes less than four minutes with two workers.

| Run | Question | Result |
|---|---|---|
| `mailbox_modem` | MODE = 1, a PS that writes anything, a modem that answers anything at any time or never: `TypeOK`, `OneUser`, `RequestHeld`, `ListeningDeliversGood`, `TxCompletes`, `StoppedAttemptEnds` | holds, 142,464 states |
| `modem_safety` | two clock domains: `JoinedTypeOK`, `OneAnswerOwed`, `AnswerMatches`, `NoStaleAbort`, `AnswerSettled` | holds, 198,866 states |
| `modem_live` | wherever RX_STOP finds the attempt, it ends: `StopTakesEffect` | holds, 48,592 states |
| `chat` | five plans of what two users do: `TypeOK`, `PrintedOnce`, `ShownWhole`, `ListensBetweenSends`, `DeliverySpec`, `LineReported` | holds, 184,521 states |
| `ofdm` | loop, tx, rx or stop over the radio core: `TypeOK`, `FifoNeverWrong`, `ReadsWhole`, `BurstKept`, `TxEnds`, `RxCompletes` | holds, 104,327 states |
| `zmsg` | receive, windowed and listening, with a signal anywhere: `TypeOK`, `PrintedOnce`, `ReadsWhatWasKept`, `LoopEnds` | holds, 253,674 states |
| `mailbox_relisten` | `ListeningServed` | violated, finding 1 |
| `modem_rom` | `MessageMeetsNoRom` | violated, finding 2 |
| `modem_cut` | `StopEndsAtOnce` | violated, finding 3 |
| `chat_own` | `OwnBurstDiscarded` | violated, finding 4 |
| `chat_cut` | `AcknowledgedHasArrived` | violated, finding 5 |
| `ofdm_busy` | `BusyStartIgnored` | violated, finding 6 |

Bounds, and why they are enough:

* mailbox run: `MaxPayload`, `EchoMax` and the sequence modulus have the code's
  values (27, 64, 2^16). The lengths are the reset value 0, which fits, and 40,
  which the modem cannot carry. The frames are a good one, one with a bad CRC,
  and one with a length out of range: the code distinguishes nothing else. The
  payload decides nothing and is one value.
* joined model: the mailbox sends its reset message only (one payload, no
  writes to TX registers, whose stability `mailbox_modem` shows). `CapDelay` is
  the code's 7 in the safety runs and 3 in the liveness run, which has the same
  order of events in fewer clocks. The safety runs compare states by `MCView`:
  each toggle is replaced by its differences to the flops it crosses into.
  Flipping a toggle and its flops together is an automorphism of the model and
  no property or guard looks at an absolute toggle value, so this is a symmetry
  reduction; the liveness run does without it.
* chat: two tries are the fewest with a repeat, an acknowledgement of an earlier
  try and a give-up. The plans are: one typist with two lines in fragments and a
  short one; lines in fragments with the reader's or the writer's
  chat ended (between polls or between two fragments) and started again; both
  typing over mailboxes that stall; chat without `--arq` with a restart. Two fragments are a first and a
  last, and a fragment given up leaves something in the reassembly for the next
  line. First sequence numbers and message ids are chosen apart, as random
  starts among 32768 and 256 nearly always are.
* radio: a FIFO of four words (`AW = 2`, the least its Gray code of full allows),
  less than the burst of six samples, so it wraps and fills; two
  samples to the preamble and to a symbol, one data symbol after the training
  symbol, `Prime = 3` inside the burst; two frames, so that the second burst
  meets what the first left; one program run, two frames found on the air, so
  that RX_ARM cuts one and meets the next. Two program runs multiply the states
  beyond a run's time and were checked with one frame each while the model was
  made.
* zmsg: two words read (a packet read in halves is two words), three attempts,
  two packets on the air, two wanted. A packet printed wrongly needs an attempt
  that met it and was given up, one that prints it, and one that finds what is left
  of it: three attempts; the second packet is the one that could come while the
  first is read, or take its place. With three packets (444,410 states) safety was
  checked while the model was made.
  Both modes are initial states of one run.

Deadlock is checked in every mailbox and modem run. The other runs switch it
off because the system may really stop: when the users have typed their lines,
or the program has ended, nothing is left to do.

Fairness, and what justifies it:

* clocks run, and a timer that keeps counting for one attempt expires (weak
  fairness): it is a counter of the clock;
* a burst ends, the bits of a locked packet come in whole or stop: both are
  counted in samples;
* an open packet detector locks or closes: it compares with a running mean that
  follows any constant level;
* a spent listening window ends the attempt although the detector may open again
  and again (strong fairness on the window): the window is a counter that stays
  at its end, so the first quiet clock suffices;
* the chat process and the modem go on (weak fairness on `send_frame`'s steps,
  polls, burst ends and the wait's end). Typing, quitting and starting have no
  fairness: nobody has to;
* both clocks of the radio run, the DAC keeps asking, the IFFT comes through and
  the receiver works off what it has taken in. That a frame is found has none
  of its own, and zofdm needs none: `TxEnds` and `RxCompletes` are the core's;
* zmsg runs, its sample clock ticks, and the detector falls below its threshold
  again (weak fairness); the hang time of the listen gate, the window, the
  watchdog and the bits of a packet are counters that come to their end although
  other events come between (strong fairness).

## 4. Findings

Each is a line of a comment in the sources that a run contradicts.

1. *Listening that is not served* (`mailbox_relisten`). RX_LISTEN decoded in the
   clock in which a stopped attempt ends sees `listen_inflight` still up and asks
   for no first attempt, while the ending attempt sees `listening` still down and
   asks for no next one: STATUS shows LISTENING, nothing runs, no timer counts.
2. *A message not transmitted* (`modem_rom`). A listening attempt plays a silent
   ROM frame; RX_STOP frees the mailbox while it still plays, and the core drops the
   start of a message that comes then. The mailbox reports the transmission as
   completed, with FRAME_ERROR, half a second later.
3. *RX_STOP without effect* (`modem_cut`). When the detector closes on a packet
   after the frame sync locked, the exits by window and by RX_STOP are both
   conditioned on no symbol having been received, and the watchdog sees the
   samples go on. The attempt waits for the next time the detector opens. zmsg
   gets out of the same state by its poll's time (`LoopEnds`).
4. *The own burst shown as received* (`chat_own`). `send_frame` takes whatever is
   in RX for its own burst; a frame that came between the last poll and RX_STOP
   passes for it, RX_LISTEN is then ignored by the busy mailbox, and the own burst,
   when it ends, is polled, acknowledged and printed as the other board's line.
   With one typist this does not happen (`ListensBetweenSends` of run `chat`).
5. *A line cut by Ctrl-C and reported as sent* (`chat_cut`). The loop over the
   fragments of a line ends on a noted Ctrl-C as it does after its last fragment,
   with `failed` at -1 in both cases, and the report looks at `failed` alone. A
   Ctrl-C noted after the acknowledgement of a fragment that is not the last, or
   before the first one goes out, makes chat print the line as gone in all its
   fragments. `DeliverySpec` excuses these lines and those that the end of the
   reader's chat cut, and no others.
6. *A start that is not ignored* (`ofdm_busy`). "TX_START (ignored while TX is
   busy)" holds for the transmit machine, which looks at TX busy, but not for the
   bit feeder, which looks at its own state and is idle while the last symbol and
   the FIFO are still to be played. It sends the modem the beginning of a frame
   nobody takes, and the next burst starts with it. zofdm gets there when its
   waits for TX done run out, and only then (theorem `NoStartInBurst`).

Three more, smaller ones have no run. RX_ACK decoded in the clock in which a
message meets an unread one clears the RX_OVERFLOW that this clock sets
(`zynq_message_mailbox_axi_lite.v:376-380`), so that with MODE = 1 a message is
lost without its flag; with MODE = 0 this cannot happen
(theorem `EchoNeverLostSilently`). `zmsg.c:544-545` says the received count
keeps its value from an earlier attempt, while the bridge resets it with every
start it notices (`bpsk_zynq_ber_gpreg_bridge.v:741`); the program's test is
needed all the same, for a start that goes unnoticed. And `zmsg.c:531-535` waits
5 ms after done for symbols that would still shift through the register, while the
bridge lets no sample in after done (`bpsk_zynq_ber_gpreg_bridge.v:382-384, 840`):
nothing shifts, with or without the wait. `ReadsWhatWasKept` holds of a program
whose wait a signal cuts short.

## 5. Proofs

A theorem holds for every value of the constants: any number of lines, fragments,
tries, attempts, packets and words, any FIFO depth, any set of frames. But for a few
marked below, each one states a property that a run checks too. All follow the same
three facts (initially, by every step, implies the property), closed by one temporal
step; each inductive invariant was an invariant of a TLC run before it was
proved. What they assume beside the named assumptions of the modules is written in
the theorem.

Three things are used everywhere. An abstraction of the clock crossings: instead
of a toggle and three flops the invariants speak of where a request is. A
least-element argument for what one would prove by induction (`LeastElement` of
`NatLemmas`): that `PowerOfTwo`, a recursive function, is what its definition says,
and that every pointer has a Gray word with one bit changed. And linear facts about
products (`ProductGrows`, `PlaceOf`), because the provers do not multiply variables.

**Mailbox** (`MessageMailboxProofs`; any mode, limits, register contents, control
words without TX_START and RX_LISTEN together, any set of frames the modem may
hand back at any time).

* `TypeCorrect`: `Spec => []TypeOK`. The step that is not routine is that a
  packet with a length above MAX_PAYLOAD is never handed over (`PacketTyped`)
  and that RX_LENGTH stays within the window whatever is echoed or received
  (`SnapshotTyped`).
* `OneUserHolds`: `Spec => []OneUser`. The inductive invariant is
  `OneUserInv == TypeOK /\ OneUser`. The types are needed because the equivalence
  of TX_BUSY with its two causes is only meaningful for truth values; the clause
  `tx_busy => ~ listen_inflight` carries the induction, because it is what makes
  `Starts` and `FirstListen` exclude each other across clocks, and the assumption
  on control words excludes them within one (`OneCommand`).
* `RequestToModemHeld`: `Spec => RequestHeld`: a waiting message means TX_BUSY,
  and TX_BUSY blocks `Starts`.
* `ListeningIsClean`: `Spec => ListeningDeliversGood`: with TX_BUSY down nobody
  waits for an echo or for the modem's answer (`OneUser`), so what raises RX_VALID
  is a listening delivery, which a stopped attempt never is.
* `EchoNeverLostSilently`: `Mode = 0 => (Spec => NothingLostSilently)` (no run;
  `mailbox_modem` has MODE = 1). What excludes RX_ACK in the clock of an echo is
  the spacing of AXI-Lite writes; `EchoInv` adds to `OneUserInv` that an echo is
  pending only while the write response is.

**Mailbox, bridge and core** (`MailboxModemProofs`; every interleaving of the two
clocks, every packet). `JoinedTypesKept`: `JoinedTypeOK`, which needs nothing else.
The other four are under `Steady == CapDelay >= 3 /\ ~ Fades`. The code's capture delay
is 7; with less than 3 the answer would be captured before it is latched. With
`Fades` the properties are false (finding 3), so this is not a convenience.

* `OneAnswerAtATime` (`OneAnswerOwed`), `AnswersMatch` (`AnswerMatches`),
  `LateStopIsDropped` (`NoStaleAbort`), `CapturesSettled` (`AnswerSettled`) all
  rest on one invariant, `JoinedInv`. `Crossings` says that a toggle and its three
  flops show at most one change; `Asks` that a mailbox that waits has exactly one
  request, attempt or answer somewhere on the way round, and one that does not wait
  has none; `Matches` that all these places agree on the kind; `Ending` ties the capture
  counter to the result's latches; `Stopping` says that a stop on its way is for the
  attempt that runs, or that a newer request is no further behind, whose arrival
  drops a pending abort. None of the four properties is inductive without the others.

**Chat** (`ChatArqProofs`; any plan: lines, fragments, first sequence numbers and ids,
tries, restarts).

* `ChatTypesKept`: `TypeOK`. Needs that a reassembly never holds as many fragments
  as its message has, and that a frame is being sent exactly while `send_frame` runs.
* `AlwaysListening`: `ListensBetweenSends`. `ListenInv` ties each step of
  `send_frame` to the mailbox's state, for one typist and mailboxes that take what
  they are given; what carries it is that there is one burst, or the answer to it,
  at a time (`OneBurst`): the user's board sends when no answer is on its way.
* `PrintsOnce`: `PrintedOnce` (one typist, over mailboxes that may stall). `OrderInv`
  orders the places a frame may be (known to the reader, being
  acknowledged, in RX, on the air, current) and says that frames are met in the
  order of lines and fragments along them, and that a frame both known and still
  on its way is the one whose sequence number is remembered.
* `ShowsWholeLines`: `IdsApart => (Spec => []ShownWhole)`, for both boards typing.
  `IdsApart` says that two long lines a reassembly could meet have different ids. It
  is needed: ids are 8 bits, and a fragment left from a line with the same id and
  count is not told from one of the new line. `MCChatArq` has TLC check that the
  plans of its runs satisfy it, and `SeqsApart`.
* `DeliveryKept` (`ChatDeliveryProofs`): `SeqsApart /\ IdsApart => (Spec => DeliverySpec)`,
  the refinement of `AckedDelivery`, for one typist over mailboxes that do not stall,
  whatever is lost, given up or restarted. Excused are lines in fragments that the end
  of the reader's chat cut, and those their own user cut with Ctrl-C before a fragment
  went out (`SenderEnds`): chat may report these as sent although they are not
  (finding 5). `DeliveryInv` rests on the four invariants above
  and adds `Numbers` (the number the reader remembers is one the user's
  board has used, and the next one is not), `Coming` (a data frame that
  arrives is of the last line typed, and whatever arrives at the user's board answers a
  frame that was taken), `Reporting` (a line is reported on just when its board waits no
  more) and `Progress`: of a line that the end of neither chat has cut, the
  reader's chat has exactly the fragments up to the one being sent, and the whole line once
  the last is taken. Each step then is a step of `AckedDelivery` or none: a data
  frame that completes a line is `Arrive`, the answer to a last frame is
  `Acknowledge`. `SeqsApart`, that a user's frames differ in their 16-bit number, is
  needed: a frame whose number is the one remembered is acknowledged and dropped as a
  repeat, and its line is then reported without having arrived.

**FIFO** (`AsyncFifoProofs`; every address width from 1 on, any use of the ports, both
clocks alone or together).

* `CaughtOldOrNew` (no run of its own): a pointer caught in the clock it steps in
  reads as its old or its new value, because consecutive Gray words, the one over
  the wrap included, differ in one bit.
* `FullAndEmptyNeverWrong`: `NeverWrong`. `FifoInv` says that each Gray word seen
  on the other side is that of a pointer value some steps behind, not more than what
  is held (or free), and the second flop not ahead of the first. The flags alone
  are not inductive: a word read too early would not show in them at once.

**OFDM radio** (`OfdmRadioProofs`; any number of symbols, words, frames and runs).

* `FifoFlagsRight`: `FifoNeverWrong` for the FIFO in the core, from `FifoInv`: every
  step of the core clocks one side of it, both or neither.
* `WholeFrameRead`: `ReadsWhole`. `FrameInv` follows the frame: what the modem has
  given out, what the writer has written and what zofdm has read are each the first
  symbols or words of one frame found since RX_ARM, and what is being written is
  that frame for as long as the program reads it.
* `BurstOnAir`: `~ ShortWaits => (Spec => BurstKept)`, the refinement of `OfdmBurst`,
  with the played samples, the frame of the burst, TX busy, TX done and the DAC's word
  as they are. The invariant is `BurstInv == Fifo!FifoInv /\ Sending /\ Calling`.
  `Sending` follows a sample from the word it comes of to the DAC: `Feeding`, that the
  modem holds the first words of the symbol the transmit machine is at, and the
  feeder has handed over exactly those and all of the symbols before; `Pipeline`,
  that what was taken from preamble and modem and not yet queued is in the two gain
  stages; `Queue`, that the FIFO holds, between its pointers, the samples after the last
  one played, and all that were queued; `Going` and `Ending`, that the toggles for
  "primed" and "drained" are on the way just while the other side has yet to
  hear of it. `Calling` is the program's part: while a burst is on zofdm waits, and
  leaves the TX buffer, RX_ARM and TX_START alone. None of the parts is inductive
  alone: that no sample of another frame gets in needs the program, that the
  FIFO is empty when a burst is done needs the toggles, and these need the count of
  samples. What the FIFO gives to this is a lemma of its own in `AsyncFifoProofs`
  (`QueueMoves`): over a step the words between the pointers lose the first if one is
  read and gain the offered one at the end if it is written, although each
  side acts on a pointer of the other's that is two clocks old.
* `RadioTypesKept`: `~ ShortWaits => (Spec => []TypeOK)`, from `BurstInv` and
  `FrameInv`: that a symbol's words and a burst's samples stay within their number is
  part of the same account.
* `NoStartInBurst`: `~ ShortWaits => (Spec => BusyStartIgnored)`. Finding 6 needs a
  wait for TX done that runs out; without one no start of zofdm meets a burst.

`~ ShortWaits` says that zofdm's waits do not run out in a burst: they are half
a second, and a burst takes 14 ms. That the hypothesis is needed the run `ofdm_busy`
shows. `SilenceAssumption`, a named assumption of `OfdmRadio`, says that a sample is not
silence: each stage and the FIFO word carry a valid bit of their own, so that a sample
of value zero is still one.

**zmsg receive** (`ZmsgReceiveProofs`; any number of attempts, packets and words).

* `ReceiveTypesKept`: `TypeOK`, with at most `--attempts` attempts and `--count`
  messages.
* `NeverPrintedAgain`: `PrintedOnce`. In `ReceiveInv`, `Crossing` says what the
  flops of start and clear hold at each place of the program, `Phases` in which
  state the core and the sticky done bit can be there, and `Fresh` that what a
  coming `done` would show is newer than what was printed. It holds for a program
  that is signalled, too: where the end of an attempt that was given up meets
  the next start, it takes that start's samples away with it, and the attempt then
  ends by the watchdog without having heard anything.
* `KeptIsRead`: `ReadsWhatWasKept`, word by word, for a windowed and a listening
  program, signalled or not: `Kept` says that while the register is read no sample is
  let in, so that no symbol comes, and `Crossing` that no start is on its way to
  change that.

Only model-checked:

* liveness under fairness, and everything with ENABLED, which the prover does not
  handle: `TxCompletes`, `StoppedAttemptEnds`, `StopTakesEffect`, `LineReported`,
  `TxEnds`, `RxCompletes`, `LoopEnds`. Every safety property of a passing run is a
  theorem.

## 6. Not modelled, and why

* About 97,000 lines of C are in the repository, of which these modules model
  some 460. The rest is not the course's program. Half of it is `ps7_init*.c`,
  generated tables of register writes, the same four times. Most of the other half
  is the chip vendor's AD936x no-OS driver kept for reference (`ad9361.c`,
  `iio_ad9361.c`, `axi_dmac.c`, ...): calibration sequences of an external chip,
  used by none of the programs here, which run under Linux. The bring-up tests
  are vendor examples. The system's own C is four programs of 2,100 lines
  (`zmbox.c`, `zmsg.c`, `zofdm.c`, `ofdm_dma_loopback.c`) and a 97-line helper; what these keep and
  decide is modelled, but for option parsing, sysfs attributes, CRC and whitening.
  The greater part of the system is Verilog, which the modules follow clock by
  clock.
* The signal path: filters, timing and carrier recovery, CFO, FFT, equalizer.
  Fixed-point arithmetic; its outcome is a nondeterministic event here. The
  Python and RTL comparisons of the course are the right tool for it.
* The BER labs' use of the bridge and the BPSK core: measurement runs with the
  same start/busy/done shape, not on the message path.
* `zmbox send`, `listen`, `stop` as programs: the mailbox sees from them register
  writes that `MessageMailbox` leaves free.
* `zmsg send` and `stop`, and the ROM frame in `ZmsgReceive`: writers of the kernel's
  DMA driver, which is outside the sources; a frame that is over long before an
  attempt is.
* Of the radio core: resets of one side, the RX FIFO, under- and overflow
  counters, the window to the modem's registers, `data_symbols` changed between
  bursts. The counters are read by `regs` alone. The RX FIFO is `AsyncFifo` again.
* Sample FIFO of the ADC, DAC mux: what could go wrong depends on clock rates and
  strobes of vendor cores. CSS accelerator, BPSK slave: one clock domain, one
  request at a time.
* Collisions of random numbers: a restarted chat whose first sequence number is
  the other board's last one, a message id that comes again after 256 long lines.
* DAC zero stream and the host programs: a loop without decisions; drivers of
  the registers whose writes are already free in the model.

## 7. Plan

Done: all modules of section 2, and every safety property of the passing runs as a
theorem. What is left:

1. A reset of one FIFO side, once the board file says which resets can fall
   alone.
2. The liveness properties, should a prover for ENABLED and fairness be at hand: the
   invariants they rest on (`BurstInv`, `JoinedInv`, `ReceiveInv`) are there.
