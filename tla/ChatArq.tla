------------------------------ MODULE ChatArq ------------------------------
(***************************************************************************)
(* Two boards running zmbox chat (sw/zmbox.c), each with its message       *)
(* mailbox, on one half-duplex channel.                                    *)
(*                                                                         *)
(* chat is one thread: its main loop polls the mailbox and the keyboard;   *)
(* with --arq, arq_send sends a frame and polls for its acknowledgement,   *)
(* and poll_rx, in either loop, acknowledges a data frame with a send of   *)
(* its own.  A line of more than one frame goes out in fragments, one      *)
(* arq_send after the other.  The steps of send_frame are steps here,      *)
(* since the mailbox moves between them.  The mailbox is MessageMailbox    *)
(* seen from its registers: RX is held until RX_ACK, TX_START is ignored   *)
(* while it listens or transmits, RX_LISTEN while it transmits, and a      *)
(* transmission always leaves something in RX.                             *)
(*                                                                         *)
(* chat may be ended with Ctrl-C, which it looks at between two polls and  *)
(* before it sends a frame of a line, and be started again; its mailbox    *)
(* goes on meanwhile.                                                      *)
(***************************************************************************)
EXTENDS Integers, Sequences, FiniteSets

CONSTANTS
  Boards,     \* the two boards
  FirstSeq,   \* [Boards -> Seq(Nat)], random first sequence number of each start
  FirstId,    \* [Boards -> Seq(Nat)], random first message id of each start
  SeqModulus, \* sequence numbers are 16 bits (2^16)
  IdModulus,  \* message ids are 8 bits (2^8)
  ARQ_TRIES,  \* sends of a frame before it is given up (5)
  Plans       \* what the users do, see Plan

(***************************************************************************)
(* lines: for every line a user types, the frames it needs (1 = it fits);  *)
(* stalls: a mailbox may be busy for longer than send_frame waits; starts: *)
(* bound on the times a board's chat is started.                           *)
(***************************************************************************)
Plan == [arq : BOOLEAN, stalls : BOOLEAN, lines : [Boards -> Seq(1..16)],
         starts : [Boards -> Nat \ {0}]]

ASSUME ChatAssumption ==
  /\ \E a, b \in Boards : a # b /\ Boards = {a, b}
  /\ SeqModulus \in Nat \ {0} /\ IdModulus \in Nat \ {0}
  /\ ARQ_TRIES \in Nat \ {0}
  /\ Plans \subseteq Plan
  /\ \A p \in Plans, b \in Boards :
       /\ FirstSeq[b] \in Seq(Nat) /\ FirstId[b] \in Seq(Nat)
       /\ p.starts[b] <= Len(FirstSeq[b]) /\ p.starts[b] <= Len(FirstId[b])

VARIABLES
  plan,        \* never changes
  starts,      \* times this board's chat was started
  step,        \* where send_frame is: "free", "stop", "start", "own", "relisten";
               \* "off": chat is not running
  job,         \* the frame send_frame was called with
  typed,       \* lines typed so far
  sending,     \* the frame arq_send carries, NoFrame in the main loop
  tries,
  seq, msg_id, \* of the next frame, the next message
  last_rx_seq,
  reassembly,  \* frag_id, frag_count and the fragments in frag_text
  listening, tx_busy, tx, rx,      \* the mailbox of each board
  printed,     \* printed[b]: what b has shown as received, and in which start
  acked,       \* acked[b]: lines of b reported as acknowledged
  settled,     \* lines of b reported on
  excused      \* lines of b in fragments under way when either chat ended

senderVars  == <<typed, sending, tries, seq, msg_id>>
readerVars  == <<last_rx_seq, reassembly>>
chatVars    == <<starts, step, job, senderVars, readerVars>>
mailboxVars == <<listening, tx_busy, tx, rx>>
reports     == <<acked, settled, excused>>
screen      == <<printed, reports>>
vars == <<plan, chatVars, mailboxVars, screen>>

NoFrame  == [kind |-> "none"]
BadFrame == [kind |-> "bad"]      \* RX_META without CRC_OK

(***************************************************************************)
(* from and line tell what the text tells a reader.  A line that fits in   *)
(* one frame carries no header: id and idx are then not in it.             *)
(***************************************************************************)
IsFrame(f, kinds) ==
  /\ f.kind \in kinds /\ f.from \in Boards /\ f.line \in Nat
  /\ f.seq \in 0..SeqModulus - 1 /\ f.id \in 0..IdModulus - 1
  /\ f.count \in 1..16 /\ f.idx \in 0..f.count - 1

AckOf(f) == [f EXCEPT !.kind = "ack"]

NoMessage == [id |-> -1, count |-> 0, parts |-> {}]

Peer(b) == CHOOSE p \in Boards : p # b

TypeOK ==
  /\ plan \in Plans
  /\ \A b \in Boards :
       /\ starts[b] \in 1..plan.starts[b]
       /\ step[b] \in {"off", "free", "stop", "start", "own", "relisten"}
       /\ job[b] = NoFrame \/ IsFrame(job[b], {"data", "ack"})
       /\ sending[b] = NoFrame \/ IsFrame(sending[b], {"data"})
       /\ typed[b] \in settled[b]..Len(plan.lines[b]) /\ settled[b] \in Nat
       /\ tries[b] \in 0..ARQ_TRIES
       /\ seq[b] \in Nat /\ msg_id[b] \in Nat
       /\ last_rx_seq[b] \in -1..SeqModulus - 1
       /\ \A f \in reassembly[b].parts : IsFrame(f, {"data"})
       /\ Cardinality(reassembly[b].parts) <= reassembly[b].count
       /\ listening[b] \in BOOLEAN /\ tx_busy[b] \in BOOLEAN
       /\ tx[b] = NoFrame \/ IsFrame(tx[b], {"data", "ack"})
       /\ rx[b] \in {NoFrame, BadFrame} \/ IsFrame(rx[b], {"data", "ack"})
       /\ acked[b] \subseteq 1..settled[b] /\ excused[b] \subseteq 1..typed[b]

\* chat has set up the radio and given RX_ACK and RX_LISTEN
Init ==
  /\ plan \in Plans
  /\ starts = [b \in Boards |-> 1] /\ step = [b \in Boards |-> "free"]
  /\ job = [b \in Boards |-> NoFrame] /\ typed = [b \in Boards |-> 0]
  /\ sending = [b \in Boards |-> NoFrame] /\ tries = [b \in Boards |-> 0]
  /\ seq = [b \in Boards |-> IF plan.arq THEN FirstSeq[b][1] ELSE 1]
  /\ msg_id = [b \in Boards |-> FirstId[b][1]]
  /\ last_rx_seq = [b \in Boards |-> -1]
  /\ reassembly = [b \in Boards |-> NoMessage]
  /\ listening = [b \in Boards |-> TRUE] /\ tx_busy = [b \in Boards |-> FALSE]
  /\ tx = [b \in Boards |-> NoFrame] /\ rx = [b \in Boards |-> NoFrame]
  /\ printed = [b \in Boards |-> <<>>] /\ acked = [b \in Boards |-> {}]
  /\ settled = [b \in Boards |-> 0] /\ excused = [b \in Boards |-> {}]

-----------------------------------------------------------------------------
(* send_frame: RX_STOP, TX_START until TX_BUSY is seen, our own burst is    *)
(* discarded, RX_LISTEN.                                                   *)

SendFrame(b, f) ==
  /\ step' = [step EXCEPT ![b] = "stop"]
  /\ job' = [job EXCEPT ![b] = f]

RxStop(b) ==
  /\ step[b] = "stop"
  /\ step' = [step EXCEPT ![b] = "start"]
  /\ listening' = [listening EXCEPT ![b] = FALSE]
  /\ UNCHANGED <<plan, starts, job, senderVars, readerVars, tx_busy, tx, rx, screen>>

\* TX_BUSY tells that TX_START was taken, also when it is an earlier burst's
TxStart(b) ==
  /\ step[b] = "start"
  /\ step' = [step EXCEPT ![b] = "own"]
  /\ tx_busy' = [tx_busy EXCEPT ![b] = TRUE]
  /\ tx' = IF tx_busy[b] THEN tx ELSE [tx EXCEPT ![b] = job[b]]
  /\ UNCHANGED <<plan, starts, job, senderVars, readerVars, listening, rx, screen>>

\* the mailbox did not take it for a second
NotTaken(b) ==
  /\ plan.stalls /\ step[b] = "start" /\ ~ tx_busy[b]
  /\ step' = [step EXCEPT ![b] = "relisten"]
  /\ rx' = [rx EXCEPT ![b] = NoFrame]
  /\ UNCHANGED <<plan, starts, job, senderVars, readerVars, listening, tx_busy, tx, screen>>

\* whatever is in RX passes for our own burst
TakeOwn(b) ==
  /\ step[b] = "own" /\ rx[b] # NoFrame
  /\ step' = [step EXCEPT ![b] = "relisten"]
  /\ rx' = [rx EXCEPT ![b] = NoFrame]
  /\ UNCHANGED <<plan, starts, job, senderVars, readerVars, listening, tx_busy, tx, screen>>

-----------------------------------------------------------------------------
(* take_fragment: the reassembly is that of the last id and count seen.    *)

\* a variant: what was left of another message is kept
Keeps(b, f) == [reassembly[b] EXCEPT !.id = f.id, !.count = f.count]

Reassembly(b, f) ==
  LET old == reassembly[b]
  IN  IF f.id # old.id \/ f.count # old.count
      THEN [id |-> f.id, count |-> f.count, parts |-> {}] ELSE old

TakeFragment(b, f) ==
  LET r        == Reassembly(b, f)
      parts    == IF \E g \in r.parts : g.idx = f.idx THEN r.parts
                                                      ELSE r.parts \cup {f}
      complete == Cardinality(parts) = f.count
  IN  [shows |-> IF complete THEN parts ELSE {},
       left  |-> IF complete THEN NoMessage ELSE [r EXCEPT !.parts = parts]]

\* what handle_frame makes of a data frame: what is shown, what is kept
Use(b, f) == IF f.count > 1 THEN TakeFragment(b, f)
                            ELSE [shows |-> {f}, left |-> reassembly[b]]

Show(b, parts) ==
  printed' = IF parts = {} THEN printed
             ELSE [printed EXCEPT ![b] = Append(@, [start |-> starts[b], parts |-> parts])]

\* a variant: every data frame is used
AcceptsAll(b, f) ==
  /\ last_rx_seq' = [last_rx_seq EXCEPT ![b] = f.seq]
  /\ reassembly' = [reassembly EXCEPT ![b] = Use(b, f).left]
  /\ Show(b, Use(b, f).shows)

\* the end of handle_frame: a data frame with a new sequence number is used
Accept(b, f) ==
  IF f.seq = last_rx_seq[b]
  THEN UNCHANGED <<readerVars, printed>>
  ELSE /\ last_rx_seq' = [last_rx_seq EXCEPT ![b] = f.seq]
       /\ reassembly' = [reassembly EXCEPT ![b] = Use(b, f).left]
       /\ Show(b, Use(b, f).shows)

\* the data frame of which b is sending the acknowledgement
Acknowledged(b) == [job[b] EXCEPT !.kind = "data"]

\* a variant: after an acknowledgement the mailbox is left stopped
RxListenAfterData(b) ==
  /\ step[b] = "relisten"
  /\ step' = [step EXCEPT ![b] = "free"]
  /\ job' = [job EXCEPT ![b] = NoFrame]
  /\ listening' = [listening EXCEPT ![b] = @ \/ (job[b].kind = "data" /\ ~ tx_busy[b])]
  /\ IF job[b].kind = "ack" THEN Accept(b, Acknowledged(b))
                            ELSE UNCHANGED <<readerVars, printed>>
  /\ UNCHANGED <<plan, starts, senderVars, tx_busy, tx, rx, reports>>

RxListen(b) ==
  /\ step[b] = "relisten"
  /\ step' = [step EXCEPT ![b] = "free"]
  /\ job' = [job EXCEPT ![b] = NoFrame]
  /\ listening' = [listening EXCEPT ![b] = @ \/ ~ tx_busy[b]]
  /\ IF job[b].kind = "ack" THEN Accept(b, Acknowledged(b))
                            ELSE UNCHANGED <<readerVars, printed>>
  /\ UNCHANGED <<plan, starts, senderVars, tx_busy, tx, rx, reports>>

-----------------------------------------------------------------------------
(* The mailbox and the air: a burst ends.  The other board has it if it is *)
(* listening, its RX is empty and the channel does not lose it; the sender *)
(* has its own burst or FRAME_ERROR.                                       *)

Delivered(b, f) == IF rx[b] = NoFrame THEN f ELSE rx[b]

TxDone(b, reaches, heard) ==
  LET p == Peer(b) IN
  /\ tx_busy[b]
  /\ tx_busy' = [tx_busy EXCEPT ![b] = FALSE]
  /\ reaches => listening[p]
  /\ rx' = [rx EXCEPT ![b] = Delivered(b, IF heard THEN tx[b] ELSE BadFrame),
                      ![p] = IF reaches THEN Delivered(p, tx[b]) ELSE @]
  /\ UNCHANGED <<plan, chatVars, listening, tx, screen>>

-----------------------------------------------------------------------------
(* poll_rx, in the main loop and in arq_send.                              *)

TakeRx(b) == step[b] = "free" /\ rx' = [rx EXCEPT ![b] = NoFrame]

\* without --arq every frame is a line to show
PollPlain(b) ==
  /\ TakeRx(b) /\ ~ plan.arq /\ rx[b].kind = "data"
  /\ Show(b, {rx[b]})
  /\ UNCHANGED <<plan, chatVars, listening, tx_busy, tx, reports>>

PollData(b) ==
  /\ TakeRx(b) /\ plan.arq /\ rx[b].kind = "data"
  /\ SendFrame(b, AckOf(rx[b]))
  /\ UNCHANGED <<plan, starts, senderVars, readerVars, listening, tx_busy, tx, screen>>

Waiting(b) == sending[b] # NoFrame

Acknowledges(b, f) == Waiting(b) /\ f.kind = "ack" /\ f.seq = sending[b].seq

PollOther(b) ==
  /\ TakeRx(b) /\ rx[b].kind \in {"ack", "bad"} /\ ~ Acknowledges(b, rx[b])
  /\ UNCHANGED <<plan, chatVars, listening, tx_busy, tx, screen>>

-----------------------------------------------------------------------------
(* A line is typed, its frames are sent one after the other, and it is     *)
(* reported on: acknowledged when its last frame is.                       *)

DataFrame(b, n, i, id) ==
  [kind |-> "data", from |-> b, line |-> n, seq |-> seq[b] % SeqModulus,
   id |-> id, idx |-> i, count |-> plan.lines[b][n]]

\* arq_send is called with the next frame
ArqSend(b, f) ==
  /\ sending' = [sending EXCEPT ![b] = f]
  /\ seq' = [seq EXCEPT ![b] = @ + 1]
  /\ tries' = [tries EXCEPT ![b] = 1]
  /\ SendFrame(b, f)

TypeLine(b) ==
  LET n == typed[b] + 1
      long == plan.lines[b][n] > 1
      f == DataFrame(b, n, 0, IF long THEN msg_id[b] % IdModulus ELSE 0) IN
  /\ step[b] = "free" /\ ~ Waiting(b) /\ typed[b] < Len(plan.lines[b])
  /\ typed' = [typed EXCEPT ![b] = n]
  /\ msg_id' = IF plan.arq /\ long THEN [msg_id EXCEPT ![b] = @ + 1] ELSE msg_id
  /\ IF plan.arq
     THEN ArqSend(b, f) /\ UNCHANGED settled
     ELSE /\ SendFrame(b, [f EXCEPT !.id = 0, !.count = 1])
          /\ seq' = [seq EXCEPT ![b] = @ + 1]
          /\ settled' = [settled EXCEPT ![b] = n]
          /\ UNCHANGED <<sending, tries>>
  /\ UNCHANGED <<plan, starts, readerVars, mailboxVars, printed, acked, excused>>

\* the line is reported on
Report(b, lines) ==
  /\ sending' = [sending EXCEPT ![b] = NoFrame]
  /\ tries' = [tries EXCEPT ![b] = 0]
  /\ settled' = [settled EXCEPT ![b] = typed[b]]
  /\ acked' = [acked EXCEPT ![b] = @ \cup lines]

\* a variant: one acknowledged fragment is enough
FirstFrameIsEnough(b) == TRUE

LastFrame(b) == sending[b].idx + 1 = sending[b].count

PollAck(b) ==
  /\ TakeRx(b) /\ Acknowledges(b, rx[b])
  /\ IF LastFrame(b)
     THEN Report(b, {typed[b]}) /\ UNCHANGED <<step, job, seq>>
     ELSE /\ ArqSend(b, DataFrame(b, typed[b], sending[b].idx + 1, sending[b].id))
          /\ UNCHANGED <<settled, acked>>
  /\ UNCHANGED <<plan, starts, typed, msg_id, readerVars, listening, tx_busy, tx,
                 printed, excused>>

(***************************************************************************)
(* ARQ_WAIT_S (0.6 s) is longer than a burst, and longer than the other    *)
(* board takes to poll, to answer and to be heard unless its mailbox       *)
(* stalls; so without stalls the wait never ends with the answer still on  *)
(* its way.                                                                *)
(***************************************************************************)
AnswerUnderWay(b) ==
  LET p == Peer(b)
      ack == AckOf(sending[b]) IN
  \/ tx_busy[b]
  \/ /\ ~ plan.stalls
     /\ \/ step[p] # "off" /\ (rx[p] = sending[b] \/ job[p] = ack)
        \/ tx_busy[p] /\ tx[p] = ack
        \/ rx[b] = ack

WaitEnds(b) == Waiting(b) /\ step[b] = "free" /\ ~ AnswerUnderWay(b)

\* variants: one try too many; the count starts again
RepeatsOnceMore(b) ==
  /\ WaitEnds(b) /\ tries[b] <= ARQ_TRIES
  /\ tries' = [tries EXCEPT ![b] = @ + 1]
  /\ SendFrame(b, sending[b])
  /\ UNCHANGED <<plan, starts, typed, sending, seq, msg_id, readerVars, mailboxVars, screen>>

RepeatsForEver(b) ==
  /\ WaitEnds(b)
  /\ tries' = [tries EXCEPT ![b] = 1 + (@ % ARQ_TRIES)]
  /\ SendFrame(b, sending[b])
  /\ UNCHANGED <<plan, starts, typed, sending, seq, msg_id, readerVars, mailboxVars, screen>>

Repeat(b) ==
  /\ WaitEnds(b) /\ tries[b] < ARQ_TRIES
  /\ tries' = [tries EXCEPT ![b] = @ + 1]
  /\ SendFrame(b, sending[b])
  /\ UNCHANGED <<plan, starts, typed, sending, seq, msg_id, readerVars, mailboxVars, screen>>

\* no acknowledgement: the rest of the line's fragments is not sent
GiveUp(b) ==
  /\ WaitEnds(b) /\ tries[b] = ARQ_TRIES
  /\ Report(b, {})
  /\ UNCHANGED <<plan, starts, step, job, typed, seq, msg_id, readerVars, mailboxVars,
                 printed, excused>>

-----------------------------------------------------------------------------
(* Ctrl-C, or the end of the input between two polls: the line waited for  *)
(* is reported on, and RX_STOP.  A chat that starts draws new numbers and  *)
(* gives RX_ACK and RX_LISTEN.                                             *)

EndChat(b, lines) ==
  LET p == Peer(b) IN
  /\ starts[b] < plan.starts[b]
  /\ step' = [step EXCEPT ![b] = "off"] /\ job' = [job EXCEPT ![b] = NoFrame]
  /\ Report(b, lines)
  /\ listening' = [listening EXCEPT ![b] = FALSE]
  /\ excused' = [excused EXCEPT
       ![b] = @ \cup lines,
       ![p] = IF Waiting(p) /\ sending[p].count > 1 THEN @ \cup {typed[p]} ELSE @]
  /\ UNCHANGED <<plan, starts, typed, seq, msg_id, readerVars, tx_busy, tx, rx, printed>>

\* seen between two polls: no acknowledgement
Quit(b) == step[b] = "free" /\ EndChat(b, {})

\* the test for Ctrl-C of the loop over the fragments ends it as its last one does
EndsAsSent(b) == sending[b].count > 1 /\ tries[b] = 1

\* seen before a frame goes out, by that loop or by arq_send
QuitBeforeFrame(b) ==
  /\ step[b] = "stop" /\ Waiting(b) /\ job[b] = sending[b]
  /\ EndChat(b, {}) \/ (EndsAsSent(b) /\ EndChat(b, {typed[b]}))

\* starting the program and setting up the radio takes longer than the other
\* chat takes to poll and to answer, unless the mailboxes stall
Quiet == \A b \in Boards :
           ~ tx_busy[b] /\ (step[b] = "off" \/ (step[b] = "free" /\ rx[b] = NoFrame))

Start(b) ==
  /\ step[b] = "off" /\ (plan.stalls \/ Quiet)
  /\ step' = [step EXCEPT ![b] = "free"]
  /\ starts' = [starts EXCEPT ![b] = @ + 1]
  /\ seq' = [seq EXCEPT ![b] = IF plan.arq THEN FirstSeq[b][starts[b] + 1] ELSE 1]
  /\ msg_id' = [msg_id EXCEPT ![b] = FirstId[b][starts[b] + 1]]
  /\ last_rx_seq' = [last_rx_seq EXCEPT ![b] = -1]
  /\ reassembly' = [reassembly EXCEPT ![b] = NoMessage]
  /\ rx' = [rx EXCEPT ![b] = NoFrame]
  /\ listening' = [listening EXCEPT ![b] = @ \/ ~ tx_busy[b]]
  /\ UNCHANGED <<plan, job, typed, sending, tries, tx_busy, tx, screen>>

-----------------------------------------------------------------------------
Sends(b) == RxStop(b) \/ TxStart(b) \/ NotTaken(b) \/ TakeOwn(b) \/ RxListen(b)
Polls(b) == PollPlain(b) \/ PollData(b) \/ PollAck(b) \/ PollOther(b)
Ends(b)  == Quit(b) \/ QuitBeforeFrame(b)
Burst(b) == \E reaches, heard \in BOOLEAN : TxDone(b, reaches, heard)

Next == \E b \in Boards : \/ Sends(b) \/ Burst(b) \/ Polls(b)
                          \/ TypeLine(b) \/ Repeat(b) \/ GiveUp(b)
                          \/ Ends(b) \/ Start(b)

Spec == Init /\ [][Next]_vars

\* the process and the modem go on; nobody has to type, to quit or to start
FairSpec ==
  /\ Spec
  /\ \A b \in Boards : /\ WF_vars(Sends(b)) /\ WF_vars(Burst(b))
                       /\ WF_vars(Polls(b)) /\ WF_vars(Repeat(b) \/ GiveUp(b))
-----------------------------------------------------------------------------
(* Properties.                                                             *)

\* one user types, over mailboxes that do not stall
OneTypist == \E b \in Boards : plan.lines[b] = <<>>
Prompt    == OneTypist /\ plan.arq /\ ~ plan.stalls

\* random draws that do not meet: no two frames of a user may have the same
\* sequence number, no two long lines the same message id, in any of the starts
SeqsApart ==
  \A p \in Plans : \A b \in Boards : \A s, t \in 1..p.starts[b] :
    \A i, j \in 0..16 * Len(p.lines[b]) - 1 :
      (FirstSeq[b][s] + i) % SeqModulus = (FirstSeq[b][t] + j) % SeqModulus
        => s = t /\ i = j

IdsApart ==
  \A p \in Plans : \A b, c \in Boards :
    \A s \in 1..p.starts[b], t \in 1..p.starts[c] :
      \A i \in 0..Len(p.lines[b]) - 1, j \in 0..Len(p.lines[c]) - 1 :
        (FirstId[b][s] + i) % IdModulus = (FirstId[c][t] + j) % IdModulus
          => b = c /\ s = t /\ i = j

\* what b's chat is about to show: it is sending the acknowledgement first
AboutToShow(b) ==
  IF job[b].kind = "ack" /\ job[b].seq # last_rx_seq[b]
  THEN Use(b, Acknowledged(b)).shows ELSE {}

ShownBy(b) ==
  LET shown == [i \in 1..Len(printed[b]) |-> printed[b][i].parts]
  IN  IF AboutToShow(b) = {} THEN shown ELSE Append(shown, AboutToShow(b))

\* the line of b that parts are of, 0 if they are anything else
LineOf(b, parts) ==
  LET f == CHOOSE f \in parts : TRUE
  IN  IF \A g \in parts : g.from = b /\ g.line = f.line THEN f.line ELSE 0

\* the lines of b as the other board has them
Arrived(b) ==
  LET shown == ShownBy(Peer(b)) IN [i \in 1..Len(shown) |-> LineOf(b, shown[i])]

(***************************************************************************)
(* "a line the sender reports as acknowledged has arrived", but for one    *)
(* that a Ctrl-C of its own user cuts between two fragments: chat keeps    *)
(* the promise of AckedDelivery to a user and a reader, whatever the       *)
(* channel loses, whichever fragment is given up and whichever chat is     *)
(* restarted.  A line has arrived when handle_frame has all of it; it is   *)
(* shown once its last acknowledgement has gone out.  Anything shown that  *)
(* is not one line of the other user counts as line 0, which never comes.  *)
(***************************************************************************)
Delivery == INSTANCE AckedDelivery WITH
  lines <- plan.lines,
  arrived <- [b \in Boards |-> Arrived(b)]

DeliverySpec == (Prompt => Delivery!Init)
                  /\ [][Prompt => Delivery!Step]_vars

(***************************************************************************)
(* "a line the sender reports as acknowledged has arrived", with no        *)
(* exception for the Ctrl-C of its user, as long as the reader's chat runs.*)
(***************************************************************************)
AcknowledgedHasArrived ==
  Prompt => \A b \in Boards : plan.starts[Peer(b)] = 1 =>
    \A n \in acked[b] : Delivery!Has(Arrived(b), n)

(***************************************************************************)
(* "the receiver prints a repeated line only once", for as long as its     *)
(* chat runs.                                                              *)
(***************************************************************************)
PrintedOnce ==
  plan.arq /\ OneTypist =>
    \A b \in Boards : \A i, j \in 1..Len(printed[b]) :
      printed[b][i] = printed[b][j] => i = j

(***************************************************************************)
(* "a new message: drop what was left of the old one": a line shown is all *)
(* the fragments of one line, whatever other fragments came before it from *)
(* lines given up or from a chat that has ended.                           *)
(***************************************************************************)
ShownWhole ==
  \A b \in Boards : \A i \in 1..Len(printed[b]) :
    LET parts == printed[b][i].parts IN
    /\ \A f, g \in parts : f.from = g.from /\ f.line = g.line
    /\ \A f \in parts : {g.idx : g \in parts} = 0..f.count - 1

(***************************************************************************)
(* "the board also hears its own burst in that attempt, which is           *)
(* discarded": no user is shown a line of his own as a line received.      *)
(***************************************************************************)
OwnBurstDiscarded ==
  \A b \in Boards : \A i \in 1..Len(printed[b]) :
    \A f \in printed[b][i].parts : f.from # b

(***************************************************************************)
(* "listen all the time": between two sends the mailbox of a running chat  *)
(* is listening, restarted or not.                                         *)
(***************************************************************************)
ListensBetweenSends ==
  OneTypist /\ ~ plan.stalls => \A b \in Boards : step[b] = "free" => listening[b]

(***************************************************************************)
(* Every line typed is reported on: two boards that keep interrupting each *)
(* other's waits with frames to acknowledge do not wait for ever, nor does *)
(* one whose peer has been ended.                                          *)
(***************************************************************************)
LineReported == \A b \in Boards : Waiting(b) ~> ~ Waiting(b)
=============================================================================
