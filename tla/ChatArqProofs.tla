--------------------------- MODULE ChatArqProofs ---------------------------
(***************************************************************************)
(* Proofs about chat: for any number of lines and fragments, any first     *)
(* sequence numbers and message ids, any number of tries and of restarts.  *)
(***************************************************************************)
EXTENDS ChatArq, FiniteSetTheorems, TLAPS

SeqNumbers == 0..SeqModulus - 1
MessageIds == 0..IdModulus - 1

Frames(kinds) ==
  {f \in [kind : kinds, from : Boards, line : Nat, seq : SeqNumbers, id : MessageIds,
          count : 1..16, idx : 0..15] : f.idx < f.count}

DataFrames == Frames({"data"})
AnyFrames  == Frames({"data", "ack"})

Steps == {"off", "free", "stop", "start", "own", "relisten"}

SenderTypes ==
  /\ starts \in [Boards -> Nat] /\ step \in [Boards -> Steps]
  /\ job \in [Boards -> AnyFrames \cup {NoFrame}]
  /\ typed \in [Boards -> Nat] /\ settled \in [Boards -> Nat]
  /\ sending \in [Boards -> DataFrames \cup {NoFrame}]
  /\ tries \in [Boards -> 0..ARQ_TRIES]
  /\ seq \in [Boards -> Nat] /\ msg_id \in [Boards -> Nat]
  /\ acked \in [Boards -> SUBSET Nat] /\ excused \in [Boards -> SUBSET Nat]

ReaderTypes ==
  /\ last_rx_seq \in [Boards -> {-1} \cup SeqNumbers]
  /\ reassembly \in [Boards -> [id : Int, count : Nat, parts : SUBSET DataFrames]]
  /\ printed \in [Boards -> Seq([start : Nat, parts : SUBSET DataFrames])]

MailboxTypes ==
  /\ listening \in [Boards -> BOOLEAN] /\ tx_busy \in [Boards -> BOOLEAN]
  /\ tx \in [Boards -> AnyFrames \cup {NoFrame}]
  /\ rx \in [Boards -> AnyFrames \cup {NoFrame, BadFrame}]

\* a frame is sent exactly while send_frame runs
Jobs == \A b \in Boards : step[b] \in {"off", "free"} <=> job[b] = NoFrame

\* a chat that was ended may be started again
StartsLeft ==
  \A b \in Boards : step[b] = "off" => starts[b] < plan.starts[b]

\* the lines of a user, one after the other
Lines ==
  \A b \in Boards :
    /\ starts[b] \in 1..plan.starts[b]
    /\ settled[b] <= typed[b] /\ typed[b] <= Len(plan.lines[b])
    /\ acked[b] \subseteq 1..settled[b] /\ excused[b] \subseteq 1..typed[b]
    /\ Waiting(b) => /\ typed[b] # 0 /\ sending[b].line = typed[b]
                     /\ sending[b].count = plan.lines[b][typed[b]]

\* a reassembly is never complete
Reassemblies ==
  \A b \in Boards :
    LET r == reassembly[b] IN
    /\ IsFiniteSet(r.parts)
    /\ r.parts = {} \/ Cardinality(r.parts) < r.count

ChatTypes ==
  /\ plan \in Plans
  /\ SenderTypes /\ ReaderTypes /\ MailboxTypes /\ Jobs /\ Lines /\ Reassemblies

-----------------------------------------------------------------------------
\* the reader of the one user that types
Reads(b) == plan.lines[b] = <<>>

\* what a mailbox does is what its chat has asked for
Mailboxes ==
  \A b \in Boards :
    /\ listening[b] => step[b] \in {"free", "stop"}
    /\ step[b] = "free" => listening[b]
    /\ tx_busy[b] => step[b] = "own" /\ tx[b] = job[b]
    /\ step[b] \in {"stop", "start", "relisten"} => rx[b] = NoFrame
    /\ step[b] = "own" => (tx_busy[b] <=> rx[b] = NoFrame)

\* b has a burst to send, or is sending it
Talking(b) == step[b] \in {"stop", "start"} \/ tx_busy[b]

\* b has an answer to send, or is sending it
Answering(b) == Talking(b) \/ (step[b] = "free" /\ rx[b] # NoFrame)

\* with r's board reading there is one burst, or the answer to it, at a time
OneBurst(a, r) ==
  /\ ~ Waiting(r) /\ job[r].kind # "data"
  /\ plan.arq =>
       /\ job[a] # NoFrame => job[a] = sending[a]
       /\ Answering(r) /\ step[a] # "off" =>
            /\ ~ Talking(a) /\ Waiting(a)
            /\ step[r] = "free" => rx[r] = sending[a]
            /\ step[r] # "free" => job[r] = AckOf(sending[a])
       /\ step[a] = "free" /\ rx[a] # NoFrame =>
            Waiting(a) /\ rx[a] = AckOf(sending[a]) /\ ~ Answering(r)
  /\ ~ plan.arq =>
       /\ step[r] \in {"free", "off"} /\ ~ Waiting(a)
       /\ step[a] = "free" => rx[a] = NoFrame

OneAtATime == \A a, r \in Boards : a # r /\ Reads(r) => OneBurst(a, r)

ListenInv == OneTypist /\ ~ plan.stalls => Mailboxes /\ OneAtATime

-----------------------------------------------------------------------------
\* frames of a user in the order of the lines and of their fragments
Before(f, g) == f.line < g.line \/ (f.line = g.line /\ f.idx < g.idx)
Leq(f, g)    == Before(f, g) \/ f = g

\* where a data frame is that a's user has come to: sent, on the air, in the
\* RX of r, being acknowledged by r, taken in by r since its chat was started
IsCurrent(a, f)  == Waiting(a) /\ f = sending[a]
IsOnAir(a, f)    == tx_busy[a] /\ tx[a].kind = "data" /\ f = tx[a]
IsArriving(r, f) == rx[r].kind = "data" /\ f = rx[r]
IsAnswered(r, f) == job[r].kind = "ack" /\ f = Acknowledged(r)
Knows(r, f) == \/ f \in reassembly[r].parts
               \/ \E i \in 1..Len(printed[r]) :
                    printed[r][i].start = starts[r] /\ f \in printed[r][i].parts

Sent(a, f)      == IsOnAir(a, f) \/ IsCurrent(a, f)
Ahead(a, r, f)  == IsAnswered(r, f) \/ IsArriving(r, f) \/ Sent(a, f)

\* data frames reach r in the order of the lines, and a frame r knows is the
\* one whose sequence number it remembers
InOrder(a, r) ==
  \A f, g \in DataFrames :
    /\ Knows(r, f) /\ Ahead(a, r, g) => Leq(f, g)
    /\ IsAnswered(r, f) /\ (IsArriving(r, g) \/ Sent(a, g)) => Leq(f, g)
    /\ IsArriving(r, f) /\ Sent(a, g) => Leq(f, g)
    /\ IsOnAir(a, f) /\ IsCurrent(a, g) => Leq(f, g)
    /\ Knows(r, f) \/ Ahead(a, r, f) => f.line <= typed[a]
    /\ Knows(r, f) /\ Ahead(a, r, f) => last_rx_seq[r] = f.seq

\* the other board sends no data, and a's board no data but the current frame
Sender(a) ==
  LET p == Peer(a) IN
  /\ ~ Waiting(p) /\ job[p].kind # "data" /\ (tx_busy[p] => tx[p].kind # "data")
  /\ job[a].kind = "data" => job[a] = sending[a]

Order(a) == Sender(a) /\ \A r \in Boards : InOrder(a, r)

\* what was printed was printed in a start not after this one
Printings ==
  \A r \in Boards : \A i \in 1..Len(printed[r]) : printed[r][i].start <= starts[r]

OrderInv ==
  plan.arq => Printings /\ \A a \in Boards : Reads(Peer(a)) => Order(a)

-----------------------------------------------------------------------------
(* Boards and frames.                                                      *)

\* there are two boards
LEMMA PeerIs ==
  ASSUME NEW b \in Boards
  PROVE  Peer(b) \in Boards /\ Peer(b) # b /\ \A c \in Boards : c = b \/ c = Peer(b)
  BY ChatAssumption DEF ChatAssumption, Peer

\* numbers are taken modulo a positive number
LEMMA Moduli ==
  /\ SeqModulus \in Nat \ {0} /\ IdModulus \in Nat \ {0} /\ ARQ_TRIES \in Nat \ {0}
  /\ \A n \in Nat : n % SeqModulus \in SeqNumbers /\ n % IdModulus \in MessageIds
  /\ 0 \in MessageIds
  BY ChatAssumption DEF ChatAssumption, SeqNumbers, MessageIds

\* an acknowledgement tells the frame it answers
LEMMA FrameFacts ==
  /\ NoFrame.kind = "none" /\ BadFrame.kind = "bad"
  /\ \A f \in AnyFrames : /\ f.kind \in {"data", "ack"}
                          /\ AckOf(f) \in AnyFrames /\ AckOf(f).kind = "ack"
                          /\ [f EXCEPT !.kind = "data"] \in DataFrames
                          /\ f.kind = "data" => f \in DataFrames
  /\ \A f \in DataFrames : /\ f \in AnyFrames /\ f.kind = "data"
                           /\ [AckOf(f) EXCEPT !.kind = "data"] = f
  <1>1. NoFrame.kind = "none" /\ BadFrame.kind = "bad"
    BY DEF NoFrame, BadFrame
  <1>2. ASSUME NEW f \in AnyFrames
        PROVE  /\ f.kind \in {"data", "ack"}
               /\ AckOf(f) \in AnyFrames /\ AckOf(f).kind = "ack"
               /\ [f EXCEPT !.kind = "data"] \in DataFrames
               /\ f.kind = "data" => f \in DataFrames
    BY DEF AnyFrames, DataFrames, Frames, AckOf
  <1>3. ASSUME NEW f \in DataFrames
        PROVE  /\ f \in AnyFrames /\ f.kind = "data"
               /\ [AckOf(f) EXCEPT !.kind = "data"] = f
    BY DEF AnyFrames, DataFrames, Frames, AckOf
  <1> QED
    BY <1>1, <1>2, <1>3

\* the fields of a frame
LEMMA FieldTypes ==
  ASSUME NEW f \in AnyFrames
  PROVE  /\ f.line \in Nat /\ f.seq \in SeqNumbers /\ f.id \in MessageIds /\ f.id \in Int
         /\ f.count \in Nat \ {0} /\ f.idx \in Nat /\ f.idx < f.count
  <1>1. /\ f.line \in Nat /\ f.seq \in SeqNumbers /\ f.id \in MessageIds
        /\ f.count \in 1..16 /\ f.idx \in 0..15 /\ f.idx < f.count
    BY DEF AnyFrames, Frames
  <1>2. f.id \in Int
    <2>1. MessageIds \subseteq Int
      BY DEF MessageIds
    <2> QED
      BY <1>1, <2>1
  <1>3. f.count \in Nat \ {0} /\ f.idx \in Nat
    BY <1>1
  <1> QED
    BY <1>1, <1>2, <1>3

-----------------------------------------------------------------------------
(* Types.                                                                  *)

\* a plan in use is a plan
LEMMA PlanFacts ==
  ASSUME plan \in Plans, NEW b \in Boards
  PROVE  /\ plan.arq \in BOOLEAN /\ plan.stalls \in BOOLEAN
         /\ plan.lines[b] \in Seq(1..16)
         /\ plan.starts[b] \in Nat \ {0}
         /\ FirstSeq[b] \in Seq(Nat) /\ FirstId[b] \in Seq(Nat)
         /\ plan.starts[b] <= Len(FirstSeq[b]) /\ plan.starts[b] <= Len(FirstId[b])
  <1>1. plan \in Plan
    BY ChatAssumption DEF ChatAssumption
  <1>2. plan.lines \in [Boards -> Seq(1..16)] /\ plan.starts \in [Boards -> Nat \ {0}]
        /\ plan.arq \in BOOLEAN /\ plan.stalls \in BOOLEAN
    BY <1>1 DEF Plan
  <1> QED
    BY <1>2, ChatAssumption DEF ChatAssumption

\* a chat starts with nothing sent and nothing received
LEMMA InitTyped == Init => ChatTypes
  <1> SUFFICES ASSUME Init PROVE ChatTypes
    OBVIOUS
  <1>1. plan \in Plans
    BY DEF Init
  <1>2. ASSUME NEW b \in Boards
        PROVE  /\ FirstSeq[b][1] \in Nat /\ FirstId[b][1] \in Nat
               /\ 1 \in 1..plan.starts[b]
    BY <1>1, PlanFacts
  <1>3. SenderTypes
    <2>1. 0 \in 0..ARQ_TRIES
      BY Moduli
    <2> QED
      BY <1>2, <2>1 DEF Init, SenderTypes, Steps
  <1>4. ReaderTypes
    BY Moduli DEF Init, ReaderTypes, NoMessage
  <1>5. MailboxTypes
    BY DEF Init, MailboxTypes
  <1>6. Jobs
    BY DEF Init, Jobs
  <1>7. Lines
    BY <1>1, <1>2, PlanFacts DEF Init, Lines, Waiting
  <1>8. Reassemblies
    BY FS_EmptySet DEF Init, Reassemblies, NoMessage
  <1> QED
    BY <1>1, <1>3, <1>4, <1>5, <1>6, <1>7, <1>8 DEF ChatTypes

\* what take_fragment shows and leaves
LEMMA UseTyped ==
  ASSUME ChatTypes, NEW b \in Boards, NEW f \in DataFrames
  PROVE  /\ Use(b, f).shows \subseteq DataFrames
         /\ Use(b, f).left \in [id : Int, count : Nat, parts : SUBSET DataFrames]
         /\ IsFiniteSet(Use(b, f).left.parts)
         /\ \/ Use(b, f).left.parts = {}
            \/ Cardinality(Use(b, f).left.parts) < Use(b, f).left.count
         /\ Use(b, f).shows # {} => f \in Use(b, f).shows
         /\ Use(b, f).shows \subseteq reassembly[b].parts \cup {f}
         /\ Use(b, f).left.parts \subseteq reassembly[b].parts \cup {f}
  <1> DEFINE r == Reassembly(b, f)
             parts == IF \E g \in r.parts : g.idx = f.idx THEN r.parts
                                                         ELSE r.parts \cup {f}
  <1>1. reassembly[b] \in [id : Int, count : Nat, parts : SUBSET DataFrames]
    BY DEF ChatTypes, ReaderTypes
  <1>2. f.id \in Int /\ f.count \in Nat \ {0}
    BY FrameFacts, FieldTypes
  <1>3. r \in [id : Int, count : Nat, parts : SUBSET DataFrames]
    BY <1>1, <1>2 DEF Reassembly
  <1>4. IsFiniteSet(r.parts) /\ r.parts \subseteq reassembly[b].parts
    BY FS_EmptySet DEF Reassembly, ChatTypes, Reassemblies
  <1>5. r.count = f.count /\ Cardinality(r.parts) < f.count
    <2>1. CASE f.id # reassembly[b].id \/ f.count # reassembly[b].count
      BY <1>2, <2>1, FS_EmptySet DEF Reassembly
    <2>2. CASE ~ (f.id # reassembly[b].id \/ f.count # reassembly[b].count)
      BY <1>2, <2>2, FS_EmptySet DEF Reassembly, ChatTypes, Reassemblies
    <2> QED
      BY <2>1, <2>2
  <1>6. /\ parts \subseteq DataFrames /\ IsFiniteSet(parts)
        /\ parts \subseteq reassembly[b].parts \cup {f}
        /\ Cardinality(parts) \in Nat /\ Cardinality(parts) <= f.count
        /\ Cardinality(parts) = f.count => f \in parts
    <2>1. CASE \E g \in r.parts : g.idx = f.idx
      <3>1. parts = r.parts
        BY <2>1
      <3>2. Cardinality(r.parts) \in Nat
        BY <1>4, FS_CardinalityType
      <3> QED
        BY <1>2, <1>3, <1>4, <1>5, <3>1, <3>2
    <2>2. CASE ~ \E g \in r.parts : g.idx = f.idx
      <3>1. parts = r.parts \cup {f} /\ f \notin r.parts
        BY <2>2
      <3>2. Cardinality(r.parts) \in Nat
        BY <1>4, FS_CardinalityType
      <3>3. IsFiniteSet(parts) /\ Cardinality(parts) = Cardinality(r.parts) + 1
        BY <1>4, <3>1, FS_AddElement
      <3> QED
        BY <1>2, <1>3, <1>4, <1>5, <3>1, <3>2, <3>3
    <2> QED
      BY <2>1, <2>2
  <1> HIDE DEF r, parts
  <1>7. CASE f.count > 1
    <2>1. Use(b, f) = [shows |-> IF Cardinality(parts) = f.count THEN parts ELSE {},
                       left  |-> IF Cardinality(parts) = f.count THEN NoMessage
                                 ELSE [r EXCEPT !.parts = parts]]
      BY <1>7 DEF Use, TakeFragment, r, parts
    <2>2. NoMessage \in [id : Int, count : Nat, parts : SUBSET DataFrames]
          /\ NoMessage.parts = {} /\ IsFiniteSet({})
      BY FS_EmptySet DEF NoMessage
    <2>3. /\ [r EXCEPT !.parts = parts] \in [id : Int, count : Nat, parts : SUBSET DataFrames]
          /\ [r EXCEPT !.parts = parts].parts = parts
          /\ [r EXCEPT !.parts = parts].count = f.count
      BY <1>3, <1>5, <1>6
    <2>4. CASE Cardinality(parts) = f.count
      <3>1. Use(b, f).shows = parts /\ Use(b, f).left = NoMessage
        BY <2>1, <2>4
      <3> QED
        BY <1>6, <2>2, <2>4, <3>1
    <2>5. CASE Cardinality(parts) # f.count
      <3>1. Use(b, f).shows = {} /\ Use(b, f).left = [r EXCEPT !.parts = parts]
        BY <2>1, <2>5
      <3>2. Cardinality(parts) < f.count
        BY <1>2, <1>6, <2>5
      <3> QED
        BY <1>6, <2>3, <3>1, <3>2
    <2> QED
      BY <2>4, <2>5
  <1>8. CASE ~ f.count > 1
    <2>1. Use(b, f).shows = {f} /\ Use(b, f).left = reassembly[b]
      BY <1>8 DEF Use
    <2> QED
      BY <1>1, <2>1 DEF ChatTypes, Reassemblies
  <1> QED
    BY <1>7, <1>8
\* what a chat shows
LEMMA ShowTyped ==
  ASSUME ChatTypes, NEW b \in Boards, NEW parts \in SUBSET DataFrames, Show(b, parts)
  PROVE  printed' \in [Boards -> Seq([start : Nat, parts : SUBSET DataFrames])]
  <1>1. printed \in [Boards -> Seq([start : Nat, parts : SUBSET DataFrames])]
        /\ starts[b] \in Nat
    BY DEF ChatTypes, ReaderTypes, SenderTypes
  <1>2. [start |-> starts[b], parts |-> parts] \in [start : Nat, parts : SUBSET DataFrames]
    BY <1>1
  <1>3. Append(printed[b], [start |-> starts[b], parts |-> parts])
          \in Seq([start : Nat, parts : SUBSET DataFrames])
    <2> DEFINE T == [start : Nat, parts : SUBSET DataFrames]
               new == [start |-> starts[b], parts |-> parts]
    <2>1. printed[b] \in Seq(T) /\ new \in T
      BY <1>1, <1>2
    <2> HIDE DEF T, new
    <2>2. Append(printed[b], new) \in Seq(T)
      BY <2>1
    <2> QED
      BY <2>2 DEF T, new
  <1> QED
    BY <1>1, <1>3 DEF Show

\* an accepted frame leaves the reader's variables in their types
LEMMA AcceptTyped ==
  ASSUME ChatTypes, NEW b \in Boards, NEW f \in DataFrames, Accept(b, f)
  PROVE  ReaderTypes' /\ Reassemblies'
  <1>1. ReaderTypes /\ Reassemblies
    BY DEF ChatTypes
  <1>2. CASE f.seq = last_rx_seq[b]
    BY <1>1, <1>2 DEF Accept, readerVars, ReaderTypes, Reassemblies
  <1>3. CASE f.seq # last_rx_seq[b]
    <2>1. /\ last_rx_seq' = [last_rx_seq EXCEPT ![b] = f.seq]
          /\ reassembly' = [reassembly EXCEPT ![b] = Use(b, f).left]
          /\ Show(b, Use(b, f).shows)
      BY <1>3 DEF Accept
    <2>2. last_rx_seq' \in [Boards -> {-1} \cup SeqNumbers]
      <3>1. f.seq \in SeqNumbers
        BY DEF DataFrames, Frames
      <3> QED
        BY <1>1, <2>1, <3>1 DEF ReaderTypes
    <2>3. reassembly' \in [Boards -> [id : Int, count : Nat, parts : SUBSET DataFrames]]
      BY <1>1, <2>1, UseTyped DEF ReaderTypes
    <2>4. printed' \in [Boards -> Seq([start : Nat, parts : SUBSET DataFrames])]
      BY <2>1, UseTyped, ShowTyped
    <2>5. ASSUME NEW c \in Boards
          PROVE  /\ IsFiniteSet(reassembly'[c].parts)
                 /\ \/ reassembly'[c].parts = {}
                    \/ Cardinality(reassembly'[c].parts) < reassembly'[c].count
      <3>1. CASE c = b
        BY <1>1, <2>1, <3>1, UseTyped DEF ReaderTypes
      <3>2. CASE c # b
        BY <1>1, <2>1, <3>2 DEF ReaderTypes, Reassemblies
      <3> QED
        BY <3>1, <3>2
    <2> QED
      BY <2>2, <2>3, <2>4, <2>5 DEF ReaderTypes, Reassemblies
  <1> QED
    BY <1>2, <1>3

\* the frame being acknowledged
LEMMA AcknowledgedTyped ==
  ASSUME ChatTypes, NEW b \in Boards, job[b].kind = "ack"
  PROVE  job[b] \in AnyFrames /\ Acknowledged(b) \in DataFrames
  <1>1. job[b] \in AnyFrames \cup {NoFrame}
    BY DEF ChatTypes, SenderTypes
  <1>2. job[b] \in AnyFrames
    BY <1>1, FrameFacts
  <1> QED
    BY <1>2, FrameFacts DEF Acknowledged

\* a step that leaves lines and the reader alone
LEMMA SendTyped ==
  ASSUME ChatTypes, NEW b \in Boards, Sends(b)
  PROVE  ChatTypes'
  <1> USE DEF senderVars, readerVars, screen, reports
  <1>1. /\ SenderTypes /\ ReaderTypes /\ MailboxTypes /\ Jobs /\ Lines /\ Reassemblies
        /\ plan \in Plans /\ plan' = plan
    BY DEF ChatTypes, Sends, RxStop, TxStart, NotTaken, TakeOwn, RxListen
  <1>2. UNCHANGED <<starts, senderVars, reports>>
    BY DEF Sends, RxStop, TxStart, NotTaken, TakeOwn, RxListen
  <1>3. Lines'
    BY <1>1, <1>2 DEF Lines, Waiting
  <1>4. job[b] \in AnyFrames \cup {NoFrame}
    BY <1>1 DEF SenderTypes
  <1>5. CASE RxListen(b)
    <2>1. SenderTypes' /\ MailboxTypes'
      BY <1>1, <1>2, <1>5 DEF RxListen, SenderTypes, MailboxTypes, Steps
    <2>2. Jobs'
      BY <1>1, <1>5 DEF RxListen, Jobs, SenderTypes
    <2>3. ReaderTypes' /\ Reassemblies'
      <3>1. CASE job[b].kind = "ack"
        BY <1>5, <3>1, AcknowledgedTyped, AcceptTyped DEF RxListen
      <3>2. CASE job[b].kind # "ack"
        BY <1>1, <1>5, <3>2 DEF RxListen, ReaderTypes, Reassemblies
      <3> QED
        BY <3>1, <3>2
    <2> QED
      BY <1>1, <1>3, <2>1, <2>2, <2>3 DEF ChatTypes
  <1>6. CASE RxStop(b) \/ TxStart(b) \/ NotTaken(b) \/ TakeOwn(b)
    <2>1. ReaderTypes' /\ Reassemblies'
      BY <1>1, <1>6 DEF RxStop, TxStart, NotTaken, TakeOwn, ReaderTypes, Reassemblies
    <2>2. SenderTypes' /\ Jobs'
      BY <1>1, <1>2, <1>6
      DEF RxStop, TxStart, NotTaken, TakeOwn, SenderTypes, Steps, Jobs
    <2>3. MailboxTypes'
      BY <1>1, <1>4, <1>6 DEF RxStop, TxStart, NotTaken, TakeOwn, MailboxTypes
    <2> QED
      BY <1>1, <1>3, <2>1, <2>2, <2>3 DEF ChatTypes
  <1> QED
    BY <1>5, <1>6 DEF Sends

\* the end of a burst changes the mailboxes only
LEMMA BurstTyped ==
  ASSUME ChatTypes, NEW b \in Boards, NEW reaches \in BOOLEAN, NEW heard \in BOOLEAN,
         TxDone(b, reaches, heard)
  PROVE  ChatTypes'
  <1>1. UNCHANGED <<plan, starts, step, job, typed, sending, tries, seq, msg_id,
                    last_rx_seq, reassembly, printed, acked, settled, excused,
                    listening, tx>>
    BY DEF TxDone, chatVars, senderVars, readerVars, screen, reports
  <1>2. MailboxTypes'
    <2>1. MailboxTypes /\ Peer(b) \in Boards
      BY PeerIs DEF ChatTypes
    <2>2. /\ Delivered(b, IF heard THEN tx[b] ELSE BadFrame)
                \in AnyFrames \cup {NoFrame, BadFrame}
          /\ Delivered(Peer(b), tx[b]) \in AnyFrames \cup {NoFrame, BadFrame}
      BY <2>1 DEF Delivered, MailboxTypes
    <2> QED
      BY <1>1, <2>1, <2>2 DEF TxDone, MailboxTypes
  <1>3. SenderTypes' /\ ReaderTypes' /\ Jobs' /\ Lines' /\ Reassemblies' /\ plan' \in Plans
    BY <1>1 DEF ChatTypes, SenderTypes, ReaderTypes, Jobs, Lines, Reassemblies, Waiting
  <1> QED
    BY <1>2, <1>3 DEF ChatTypes
\* a frame made of a line
LEMMA DataFrameTyped ==
  ASSUME ChatTypes, NEW b \in Boards, NEW n \in 1..Len(plan.lines[b]), NEW i \in Nat,
         NEW id \in MessageIds, i < plan.lines[b][n]
  PROVE  /\ DataFrame(b, n, i, id) \in DataFrames
         /\ DataFrame(b, n, i, id).line = n /\ DataFrame(b, n, i, id).idx = i
         /\ DataFrame(b, n, i, id).count = plan.lines[b][n]
  <1> DEFINE count == plan.lines[b][n]
  <1>1. count \in 1..16
    <2>1. plan.lines[b] \in Seq(1..16)
      BY PlanFacts DEF ChatTypes
    <2> QED
      BY <2>1
  <1>2. seq[b] % SeqModulus \in SeqNumbers
    BY Moduli DEF ChatTypes, SenderTypes
  <1>3. i \in 0..15 /\ i < count
    <2>1. i < count
      OBVIOUS
    <2> HIDE DEF count
    <2> QED
      BY <1>1, <2>1
  <1> QED
    BY <1>1, <1>2, <1>3 DEF DataFrame, DataFrames, Frames

\* send_frame is called with a frame
LEMMA SendFrameTyped ==
  ASSUME ChatTypes, NEW b \in Boards, NEW f \in AnyFrames, SendFrame(b, f)
  PROVE  /\ step' \in [Boards -> Steps] /\ job' \in [Boards -> AnyFrames \cup {NoFrame}]
         /\ Jobs'
  <1>1. step \in [Boards -> Steps] /\ job \in [Boards -> AnyFrames \cup {NoFrame}] /\ Jobs
    BY DEF ChatTypes, SenderTypes
  <1>2. f # NoFrame
    BY FrameFacts
  <1> QED
    BY <1>1, <1>2 DEF SendFrame, Steps, Jobs

\* a step that leaves what was received alone
LEMMA ReaderStays ==
  ASSUME ChatTypes, UNCHANGED <<last_rx_seq, reassembly>>, UNCHANGED printed
  PROVE  ReaderTypes' /\ Reassemblies'
  BY DEF ChatTypes, ReaderTypes, Reassemblies

\* poll_rx empties RX
LEMMA TakeRxTyped ==
  ASSUME ChatTypes, NEW b \in Boards, TakeRx(b), UNCHANGED <<listening, tx_busy, tx>>
  PROVE  MailboxTypes'
  BY DEF ChatTypes, MailboxTypes, TakeRx

\* every branch of poll_rx
LEMMA PollTyped ==
  ASSUME ChatTypes, NEW b \in Boards, Polls(b)
  PROVE  ChatTypes'
  <1> USE DEF chatVars, senderVars, readerVars, screen, reports
  <1>1. /\ SenderTypes /\ ReaderTypes /\ MailboxTypes /\ Jobs /\ Lines /\ Reassemblies
        /\ plan \in Plans /\ plan' = plan
    BY DEF ChatTypes, Polls, PollPlain, PollData, PollAck, PollOther
  <1>2. MailboxTypes'
    BY TakeRxTyped DEF Polls, PollPlain, PollData, PollAck, PollOther
  <1>3. rx[b] \in AnyFrames \cup {NoFrame, BadFrame}
    BY <1>1 DEF MailboxTypes
  <1>4. CASE PollPlain(b)
    <2>1. rx[b] \in DataFrames
      BY <1>3, <1>4, FrameFacts DEF PollPlain
    <2>2. printed' \in [Boards -> Seq([start : Nat, parts : SUBSET DataFrames])]
      BY <1>4, <2>1, ShowTyped DEF PollPlain
    <2>3. ReaderTypes' /\ Reassemblies'
      BY <1>1, <1>4, <2>2 DEF PollPlain, ReaderTypes, Reassemblies
    <2>4. SenderTypes' /\ Jobs' /\ Lines'
      BY <1>1, <1>4 DEF PollPlain, SenderTypes, Jobs, Lines, Waiting
    <2> QED
      BY <1>1, <1>2, <2>3, <2>4 DEF ChatTypes
  <1>5. CASE PollData(b)
    <2>1. rx[b] \in DataFrames
      BY <1>3, <1>5, FrameFacts DEF PollData
    <2>2. AckOf(rx[b]) \in AnyFrames
      BY <2>1, FrameFacts
    <2>3. ReaderTypes' /\ Reassemblies'
      BY <1>5, ReaderStays DEF PollData
    <2>4. SenderTypes' /\ Jobs'
      BY <1>1, <1>5, <2>2, SendFrameTyped DEF PollData, SenderTypes
    <2>5. Lines'
      BY <1>1, <1>5 DEF PollData, Lines, Waiting
    <2> QED
      BY <1>1, <1>2, <2>3, <2>4, <2>5 DEF ChatTypes
  <1>6. CASE PollOther(b)
    <2>1. ReaderTypes' /\ Reassemblies'
      BY <1>6, ReaderStays DEF PollOther
    <2>2. SenderTypes' /\ Jobs' /\ Lines'
      BY <1>1, <1>6 DEF PollOther, SenderTypes, Jobs, Lines, Waiting
    <2> QED
      BY <1>1, <1>2, <2>1, <2>2 DEF ChatTypes
  <1>7. CASE PollAck(b)
    <2>1. ReaderTypes' /\ Reassemblies'
      BY <1>7, ReaderStays DEF PollAck
    <2>2. /\ Waiting(b) /\ sending[b] \in DataFrames /\ typed[b] \in 1..Len(plan.lines[b])
          /\ sending[b].line = typed[b] /\ sending[b].count = plan.lines[b][typed[b]]
          /\ typed[b] \in Nat /\ settled[b] \in Nat /\ seq[b] \in Nat
          /\ settled[b] <= typed[b]
      BY <1>1, <1>7, PlanFacts DEF PollAck, Acknowledges, Waiting, SenderTypes, Lines
    <2>3. CASE LastFrame(b)
      <3>1. /\ Report(b, {typed[b]}) /\ UNCHANGED <<step, job, seq>>
            /\ UNCHANGED <<starts, typed, msg_id, excused>>
        BY <1>7, <2>3 DEF PollAck
      <3>2. SenderTypes' /\ Jobs'
        <4>1. tries' \in [Boards -> 0..ARQ_TRIES]
          BY <1>1, <3>1, Moduli DEF Report, SenderTypes
        <4>2. /\ sending' \in [Boards -> DataFrames \cup {NoFrame}]
              /\ settled' \in [Boards -> Nat] /\ acked' \in [Boards -> SUBSET Nat]
          BY <1>1, <2>2, <3>1 DEF Report, SenderTypes
        <4> QED
          BY <1>1, <3>1, <4>1, <4>2 DEF SenderTypes, Jobs
      <3>3. Lines'
        BY <1>1, <2>2, <3>1 DEF Report, SenderTypes, Lines, Waiting
      <3> QED
        BY <1>1, <1>2, <2>1, <3>2, <3>3 DEF ChatTypes
    <2>4. CASE ~ LastFrame(b)
      <3> DEFINE f == DataFrame(b, typed[b], sending[b].idx + 1, sending[b].id)
      <3>1. /\ ArqSend(b, f) /\ UNCHANGED <<settled, acked, starts, typed, msg_id, excused>>
        BY <1>7, <2>4 DEF PollAck
      <3>2. /\ sending[b].idx + 1 \in Nat /\ sending[b].idx + 1 < plan.lines[b][typed[b]]
            /\ sending[b].id \in MessageIds
        <4>1. /\ sending[b].idx \in Nat /\ sending[b].count \in Nat
              /\ sending[b].idx < sending[b].count /\ sending[b].id \in MessageIds
          BY <2>2, FrameFacts, FieldTypes
        <4>2. sending[b].idx + 1 # sending[b].count
          BY <2>4 DEF LastFrame
        <4> QED
          BY <2>2, <4>1, <4>2
      <3>3. f \in DataFrames /\ f.line = typed[b] /\ f.count = plan.lines[b][typed[b]]
        BY <2>2, <3>2, DataFrameTyped
      <3> HIDE DEF f
      <3>4. f \in AnyFrames /\ f # NoFrame
        BY <3>3, FrameFacts
      <3>5. SenderTypes' /\ Jobs'
        <4>1. tries' \in [Boards -> 0..ARQ_TRIES]
          BY <1>1, <3>1, Moduli DEF ArqSend, SenderTypes
        <4>2. /\ sending' \in [Boards -> DataFrames \cup {NoFrame}]
              /\ seq' \in [Boards -> Nat]
          BY <1>1, <2>2, <3>1, <3>3 DEF ArqSend, SenderTypes
        <4>3. /\ step' \in [Boards -> Steps] /\ job' \in [Boards -> AnyFrames \cup {NoFrame}]
              /\ Jobs'
          BY <3>1, <3>4, SendFrameTyped DEF ArqSend
        <4> QED
          BY <1>1, <3>1, <4>1, <4>2, <4>3 DEF SenderTypes
      <3>6. Lines'
        BY <1>1, <2>2, <3>1, <3>3 DEF ArqSend, SenderTypes, Lines, Waiting
      <3> QED
        BY <1>1, <1>2, <2>1, <3>5, <3>6 DEF ChatTypes
    <2> QED
      BY <2>3, <2>4
  <1> QED
    BY <1>4, <1>5, <1>6, <1>7 DEF Polls
\* a line is typed
LEMMA TypeLineTyped ==
  ASSUME ChatTypes, NEW b \in Boards, TypeLine(b)
  PROVE  ChatTypes'
  <1> DEFINE n == typed[b] + 1
             long == plan.lines[b][n] > 1
             f == DataFrame(b, n, 0, IF long THEN msg_id[b] % IdModulus ELSE 0)
  <1>1. /\ SenderTypes /\ ReaderTypes /\ MailboxTypes /\ Jobs /\ Lines /\ Reassemblies
        /\ plan \in Plans /\ plan' = plan
        /\ UNCHANGED <<starts, last_rx_seq, reassembly, listening, tx_busy, tx, rx,
                       printed, acked, excused>>
    BY DEF ChatTypes, TypeLine, mailboxVars, readerVars
  <1>2. /\ typed[b] \in Nat /\ settled[b] \in Nat /\ seq[b] \in Nat /\ msg_id[b] \in Nat
        /\ settled[b] <= typed[b]
    BY <1>1 DEF SenderTypes, Lines
  <1>3. /\ n \in 1..Len(plan.lines[b]) /\ n \in Nat /\ plan.lines[b][n] \in 1..16
        /\ typed' = [typed EXCEPT ![b] = n] /\ step[b] = "free" /\ ~ Waiting(b)
    <2>1. plan.lines[b] \in Seq(1..16)
      BY PlanFacts DEF ChatTypes
    <2>2. /\ typed[b] < Len(plan.lines[b]) /\ typed' = [typed EXCEPT ![b] = n]
          /\ step[b] = "free" /\ ~ Waiting(b)
      BY DEF TypeLine
    <2>3. Len(plan.lines[b]) \in Nat
      BY <2>1
    <2>4. n \in 1..Len(plan.lines[b]) /\ n \in Nat
      BY <1>2, <2>2, <2>3
    <2> HIDE DEF n
    <2> QED
      BY <2>1, <2>2, <2>4
  <1>4. f \in DataFrames /\ f.line = n /\ f.count = plan.lines[b][n] /\ f.idx = 0
    <2>1. 0 \in MessageIds /\ msg_id[b] % IdModulus \in MessageIds
      BY <1>2, Moduli
    <2>2. 0 < plan.lines[b][n]
      <3> HIDE DEF n
      <3> QED
        BY <1>3
    <2> QED
      BY <1>3, <2>1, <2>2, DataFrameTyped
  <1>5. msg_id' \in [Boards -> Nat]
    BY <1>1, <1>2 DEF TypeLine, SenderTypes
  <1>6. MailboxTypes' /\ ReaderTypes' /\ Reassemblies'
    BY <1>1 DEF MailboxTypes, ReaderTypes, Reassemblies
  <1>7. typed' \in [Boards -> Nat]
    BY <1>1, <1>3 DEF SenderTypes
  <1>8. CASE plan.arq
    <2>1. ArqSend(b, f) /\ UNCHANGED settled
      BY <1>8 DEF TypeLine
    <2> HIDE DEF f
    <2>2. f \in AnyFrames /\ f # NoFrame
      BY <1>4, FrameFacts
    <2>3. /\ step' \in [Boards -> Steps] /\ job' \in [Boards -> AnyFrames \cup {NoFrame}]
          /\ Jobs'
      BY <2>1, <2>2, SendFrameTyped DEF ArqSend
    <2>4. /\ sending' \in [Boards -> DataFrames \cup {NoFrame}]
          /\ seq' \in [Boards -> Nat]
      BY <1>1, <1>2, <1>4, <2>1 DEF ArqSend, SenderTypes
    <2>5. tries' \in [Boards -> 0..ARQ_TRIES]
      <3>1. 1 \in 0..ARQ_TRIES
        BY Moduli
      <3> QED
        BY <1>1, <2>1, <3>1 DEF ArqSend, SenderTypes
    <2>6. SenderTypes'
      BY <1>1, <1>5, <1>7, <2>1, <2>3, <2>4, <2>5 DEF SenderTypes
    <2>7. Lines'
      <3> SUFFICES ASSUME NEW c \in Boards
                   PROVE  /\ starts'[c] \in 1..plan.starts[c]
                          /\ settled'[c] <= typed'[c] /\ typed'[c] <= Len(plan.lines[c])
                          /\ acked'[c] \subseteq 1..settled'[c]
                          /\ excused'[c] \subseteq 1..typed'[c]
                          /\ Waiting(c)' => /\ typed'[c] # 0 /\ sending'[c].line = typed'[c]
                                            /\ sending'[c].count = plan.lines[c][typed'[c]]
        BY <1>1 DEF Lines
      <3>1. CASE c = b
        <4>1. typed'[c] = n /\ sending'[c] = f /\ settled'[c] = settled[b]
          BY <1>1, <1>3, <2>1, <3>1 DEF ArqSend, SenderTypes
        <4> HIDE DEF n
        <4>2. n = typed[b] + 1 /\ n # 0
          BY <1>2 DEF n
        <4>3. excused[b] \subseteq 1..n
          BY <1>1, <1>2, <4>2 DEF Lines
        <4> QED
          BY <1>1, <1>2, <1>3, <1>4, <3>1, <4>1, <4>2, <4>3 DEF Lines
      <3>2. CASE c # b
        BY <1>1, <1>3, <2>1, <3>2 DEF ArqSend, SenderTypes, Lines, Waiting
      <3> QED
        BY <3>1, <3>2
    <2> QED
      BY <1>1, <1>6, <2>3, <2>6, <2>7 DEF ChatTypes
  <1>9. CASE ~ plan.arq
    <2> DEFINE g == [f EXCEPT !.id = 0, !.count = 1]
    <2>1. /\ SendFrame(b, g) /\ seq' = [seq EXCEPT ![b] = @ + 1]
          /\ settled' = [settled EXCEPT ![b] = n] /\ UNCHANGED <<sending, tries>>
      BY <1>9 DEF TypeLine
    <2>2. g \in AnyFrames
      <3> HIDE DEF f
      <3>1. 0 \in MessageIds
        BY Moduli
      <3>2. f \in [kind : {"data"}, from : Boards, line : Nat, seq : SeqNumbers,
                   id : MessageIds, count : 1..16, idx : 0..15]
        BY <1>4 DEF DataFrames, Frames
      <3>3. g \in [kind : {"data"}, from : Boards, line : Nat, seq : SeqNumbers,
                   id : MessageIds, count : 1..16, idx : 0..15]
        <4> DEFINE counts == 1..16
                   indices == 0..15
        <4>1. 1 \in counts
          OBVIOUS
        <4> HIDE DEF counts, indices
        <4>2. f \in [kind : {"data"}, from : Boards, line : Nat, seq : SeqNumbers,
                     id : MessageIds, count : counts, idx : indices]
          BY <3>2 DEF counts, indices
        <4>3. g \in [kind : {"data"}, from : Boards, line : Nat, seq : SeqNumbers,
                     id : MessageIds, count : counts, idx : indices]
          BY <3>1, <4>1, <4>2
        <4> QED
          BY <4>3 DEF counts, indices
      <3>4. g.idx < g.count
        BY <1>4, <3>2
      <3>5. g \in DataFrames
        BY <3>3, <3>4 DEF DataFrames, Frames
      <3> QED
        BY <3>5, FrameFacts
    <2> HIDE DEF f, g
    <2>3. /\ step' \in [Boards -> Steps] /\ job' \in [Boards -> AnyFrames \cup {NoFrame}]
          /\ Jobs'
      BY <2>1, <2>2, SendFrameTyped
    <2>4. seq' \in [Boards -> Nat] /\ settled' \in [Boards -> Nat]
      BY <1>1, <1>2, <1>3, <2>1 DEF SenderTypes
    <2>5. SenderTypes'
      BY <1>1, <1>5, <1>7, <2>1, <2>3, <2>4 DEF SenderTypes
    <2>6. Lines'
      <3> SUFFICES ASSUME NEW c \in Boards
                   PROVE  /\ starts'[c] \in 1..plan.starts[c]
                          /\ settled'[c] <= typed'[c] /\ typed'[c] <= Len(plan.lines[c])
                          /\ acked'[c] \subseteq 1..settled'[c]
                          /\ excused'[c] \subseteq 1..typed'[c]
                          /\ Waiting(c)' => /\ typed'[c] # 0 /\ sending'[c].line = typed'[c]
                                            /\ sending'[c].count = plan.lines[c][typed'[c]]
        BY <1>1 DEF Lines
      <3>1. CASE c = b
        <4>1. typed'[c] = n /\ settled'[c] = n /\ ~ Waiting(c)'
          BY <1>1, <1>3, <2>1, <3>1 DEF SenderTypes, Waiting
        <4> HIDE DEF n
        <4>2. n = typed[b] + 1
          BY DEF n
        <4>3. excused[b] \subseteq 1..n /\ acked[b] \subseteq 1..n
          BY <1>1, <1>2, <4>2 DEF Lines
        <4> QED
          BY <1>1, <1>2, <1>3, <3>1, <4>1, <4>2, <4>3 DEF Lines
      <3>2. CASE c # b
        BY <1>1, <1>3, <2>1, <3>2 DEF SenderTypes, Lines, Waiting
      <3> QED
        BY <3>1, <3>2
    <2> QED
      BY <1>1, <1>6, <2>3, <2>5, <2>6 DEF ChatTypes
  <1> QED
    BY <1>8, <1>9
\* a frame is sent again
LEMMA RepeatTyped ==
  ASSUME ChatTypes, NEW b \in Boards, Repeat(b)
  PROVE  ChatTypes'
  <1>1. /\ SenderTypes /\ MailboxTypes /\ Lines /\ plan \in Plans
        /\ UNCHANGED <<plan, starts, typed, sending, seq, msg_id, last_rx_seq, reassembly,
                       listening, tx_busy, tx, rx, printed, acked, settled, excused>>
    BY DEF ChatTypes, Repeat, readerVars, mailboxVars, screen, reports
  <1>2. sending[b] \in AnyFrames
    <2>1. sending[b] \in DataFrames
      BY <1>1 DEF SenderTypes, Repeat, WaitEnds, Waiting
    <2> QED
      BY <2>1, FrameFacts
  <1>3. /\ step' \in [Boards -> Steps] /\ job' \in [Boards -> AnyFrames \cup {NoFrame}]
        /\ Jobs'
    BY <1>2, SendFrameTyped DEF Repeat
  <1>4. tries' \in [Boards -> 0..ARQ_TRIES]
    <2>1. tries[b] \in 0..ARQ_TRIES /\ tries[b] < ARQ_TRIES /\ ARQ_TRIES \in Nat
      BY <1>1, Moduli DEF SenderTypes, Repeat
    <2>2. tries[b] + 1 \in 0..ARQ_TRIES
      BY <2>1
    <2> QED
      BY <1>1, <2>2 DEF Repeat, SenderTypes
  <1>5. ReaderTypes' /\ Reassemblies'
    BY <1>1, ReaderStays
  <1>6. SenderTypes' /\ MailboxTypes' /\ Lines'
    BY <1>1, <1>3, <1>4 DEF SenderTypes, MailboxTypes, Lines, Waiting
  <1> QED
    BY <1>1, <1>3, <1>5, <1>6 DEF ChatTypes

\* a line is reported on
LEMMA ReportTyped ==
  ASSUME ChatTypes, NEW b \in Boards, NEW lines, Report(b, lines),
         lines = {} \/ (lines = {typed[b]} /\ Waiting(b)),
         UNCHANGED <<plan, starts, typed, seq, msg_id>>,
         step' \in [Boards -> Steps], job' \in [Boards -> AnyFrames \cup {NoFrame}],
         excused' \in [Boards -> SUBSET Nat],
         \A c \in Boards : excused'[c] \subseteq 1..typed[c]
  PROVE  SenderTypes' /\ Lines'
  <1>1. SenderTypes /\ Lines
    BY DEF ChatTypes
  <1>2. tries' \in [Boards -> 0..ARQ_TRIES]
    <2>1. 0 \in 0..ARQ_TRIES
      BY Moduli
    <2> QED
      BY <1>1, <2>1 DEF Report, SenderTypes
  <1>3. /\ sending' \in [Boards -> DataFrames \cup {NoFrame}]
        /\ settled' \in [Boards -> Nat] /\ acked' \in [Boards -> SUBSET Nat]
    BY <1>1 DEF Report, SenderTypes
  <1>6. lines \subseteq 1..typed[b]
    BY <1>1 DEF SenderTypes, Lines
  <1>4. SenderTypes'
    BY <1>1, <1>2, <1>3 DEF SenderTypes
  <1>5. ASSUME NEW c \in Boards
        PROVE  /\ starts'[c] \in 1..plan'.starts[c]
               /\ settled'[c] <= typed'[c] /\ typed'[c] <= Len(plan'.lines[c])
               /\ acked'[c] \subseteq 1..settled'[c]
               /\ excused'[c] \subseteq 1..typed'[c]
               /\ Waiting(c)' => /\ typed'[c] # 0 /\ sending'[c].line = typed'[c]
                                 /\ sending'[c].count = plan'.lines[c][typed'[c]]
    <2>1. CASE c = b
      <3>1. ~ Waiting(c)' /\ settled'[c] = typed[c] /\ acked'[c] = acked[c] \cup lines
        BY <1>1, <2>1 DEF Report, SenderTypes, Waiting
      <3>2. typed[c] \in Nat /\ settled[c] \in Nat
        BY <1>1 DEF SenderTypes
      <3>3. acked[c] \subseteq 1..typed[c]
        BY <1>1, <3>2 DEF Lines
      <3>4. acked'[c] \subseteq 1..settled'[c]
        BY <1>6, <2>1, <3>1, <3>3
      <3> QED
        BY <1>1, <3>1, <3>2, <3>4 DEF Lines
    <2>2. CASE c # b
      BY <1>1, <2>2 DEF Report, SenderTypes, Lines, Waiting
    <2> QED
      BY <2>1, <2>2
  <1> QED
    BY <1>4, <1>5 DEF Lines

\* a frame is given up
LEMMA GiveUpTyped ==
  ASSUME ChatTypes, NEW b \in Boards, GiveUp(b)
  PROVE  ChatTypes'
  <1>1. /\ SenderTypes /\ MailboxTypes /\ Jobs /\ Lines /\ plan \in Plans /\ Report(b, {})
        /\ UNCHANGED <<plan, starts, step, job, typed, seq, msg_id, last_rx_seq, reassembly,
                       listening, tx_busy, tx, rx, printed, excused>>
    BY DEF ChatTypes, GiveUp, readerVars, mailboxVars
  <1>2. SenderTypes' /\ Lines'
    BY <1>1, ReportTyped DEF SenderTypes, Lines
  <1>3. ReaderTypes' /\ Reassemblies'
    BY <1>1, ReaderStays
  <1>4. MailboxTypes' /\ Jobs'
    BY <1>1 DEF MailboxTypes, Jobs
  <1> QED
    BY <1>1, <1>2, <1>3, <1>4 DEF ChatTypes

\* a chat is ended between two sends or before one of its own
LEMMA EndFacts ==
  ASSUME NEW b \in Boards, Ends(b)
  PROVE  /\ \/ step[b] = "free"
            \/ step[b] = "stop" /\ Waiting(b) /\ job[b] = sending[b]
         /\ starts[b] < plan.starts[b]
         /\ step' = [step EXCEPT ![b] = "off"] /\ job' = [job EXCEPT ![b] = NoFrame]
         /\ sending' = [sending EXCEPT ![b] = NoFrame]
         /\ listening' = [listening EXCEPT ![b] = FALSE]
         /\ settled' = [settled EXCEPT ![b] = typed[b]]
         /\ UNCHANGED <<plan, starts, typed, seq, msg_id, last_rx_seq, reassembly,
                        tx_busy, tx, rx, printed>>
         /\ \E lines \in {{}, {typed[b]}} :
              /\ EndChat(b, lines)
              /\ lines # {} => Waiting(b) /\ sending[b].count > 1
  BY DEF Ends, Quit, QuitBeforeFrame, EndsAsSent, EndChat, Report, readerVars

LEMMA EndTyped ==
  ASSUME ChatTypes, NEW b \in Boards, Ends(b)
  PROVE  ChatTypes'
  <1>1. /\ SenderTypes /\ MailboxTypes /\ Jobs /\ Lines /\ plan \in Plans
        /\ UNCHANGED <<plan, starts, typed, seq, msg_id, last_rx_seq, reassembly,
                       tx_busy, tx, rx, printed>>
        /\ step' = [step EXCEPT ![b] = "off"] /\ job' = [job EXCEPT ![b] = NoFrame]
        /\ listening' = [listening EXCEPT ![b] = FALSE]
    BY EndFacts DEF ChatTypes
  <1>2. Peer(b) \in Boards /\ Peer(b) # b
    BY PeerIs
  <1>3. PICK lines \in {{}, {typed[b]}} :
          /\ EndChat(b, lines)
          /\ lines # {} => Waiting(b) /\ sending[b].count > 1
    BY EndFacts
  <1>4. /\ excused' \in [Boards -> SUBSET Nat]
        /\ \A c \in Boards : excused'[c] \subseteq 1..typed[c]
    <2> DEFINE more(c) == IF c = b THEN lines
                          ELSE IF Waiting(c) /\ sending[c].count > 1 THEN {typed[c]} ELSE {}
    <2>1. \A c \in Boards : more(c) \subseteq 1..typed[c]
      <3>1. \A c \in Boards : Waiting(c) => {typed[c]} \subseteq 1..typed[c]
        BY <1>1 DEF SenderTypes, Lines
      <3> QED
        BY <1>3, <3>1
    <2>2. /\ excused \in [Boards -> SUBSET Nat]
          /\ \A c \in Boards : excused[c] \subseteq 1..typed[c]
      BY <1>1 DEF SenderTypes, Lines
    <2>3. \A c \in Boards : excused'[c] = excused[c] \cup more(c)
      <3>1. excused' = [excused EXCEPT
              ![b] = @ \cup lines,
              ![Peer(b)] = IF Waiting(Peer(b)) /\ sending[Peer(b)].count > 1
                           THEN @ \cup {typed[Peer(b)]} ELSE @]
        BY <1>3 DEF EndChat
      <3>2. \A c \in Boards : c = b \/ c = Peer(b)
        BY PeerIs
      <3>3. excused'[b] = excused[b] \cup lines
        BY <1>2, <2>2, <3>1
      <3>4. excused'[Peer(b)] = excused[Peer(b)] \cup more(Peer(b))
        BY <1>2, <2>2, <3>1
      <3> QED
        BY <3>2, <3>3, <3>4
    <2>4. excused' = [c \in Boards |-> excused'[c]]
      BY <1>3, <2>2 DEF EndChat
    <2> HIDE DEF more
    <2>5. \A c \in Boards : excused'[c] \subseteq 1..typed[c] /\ excused'[c] \subseteq Nat
      BY <2>1, <2>2, <2>3
    <2> QED
      BY <2>4, <2>5
  <1>5. step' \in [Boards -> Steps] /\ job' \in [Boards -> AnyFrames \cup {NoFrame}]
    BY <1>1 DEF SenderTypes, Steps
  <1>6. SenderTypes' /\ Lines'
    <2>1. Report(b, lines) /\ (lines = {} \/ (lines = {typed[b]} /\ Waiting(b)))
      BY <1>3 DEF EndChat
    <2> QED
      BY <1>1, <1>4, <1>5, <2>1, ReportTyped
  <1>7. ReaderTypes' /\ Reassemblies'
    BY <1>1, ReaderStays
  <1>8. MailboxTypes' /\ Jobs'
    BY <1>1 DEF MailboxTypes, SenderTypes, Jobs
  <1> QED
    BY <1>1, <1>6, <1>7, <1>8 DEF ChatTypes

\* a chat is started again
LEMMA StartTyped ==
  ASSUME ChatTypes, StartsLeft, NEW b \in Boards, Start(b)
  PROVE  ChatTypes'
  <1>1. /\ SenderTypes /\ ReaderTypes /\ MailboxTypes /\ Jobs /\ Lines /\ Reassemblies
        /\ plan \in Plans
        /\ UNCHANGED <<plan, job, typed, sending, tries, tx_busy, tx, printed, acked,
                       settled, excused>>
        /\ step[b] = "off" /\ step' = [step EXCEPT ![b] = "free"]
        /\ starts' = [starts EXCEPT ![b] = @ + 1]
    BY DEF ChatTypes, Start, screen, reports
  <1>2. starts[b] \in Nat /\ starts[b] < plan.starts[b] /\ plan.starts[b] \in Nat
    BY <1>1, PlanFacts DEF StartsLeft, SenderTypes
  <1>3. starts[b] + 1 \in 1..plan.starts[b] /\ starts[b] + 1 \in Nat
    BY <1>2
  <1>4. FirstSeq[b][starts[b] + 1] \in Nat /\ FirstId[b][starts[b] + 1] \in Nat
    <2> DEFINE m == starts[b] + 1
    <2> HIDE DEF m
    <2>1. m \in 1..Len(FirstSeq[b]) /\ m \in 1..Len(FirstId[b])
      <3>1. /\ Len(FirstSeq[b]) \in Nat /\ Len(FirstId[b]) \in Nat
            /\ plan.starts[b] <= Len(FirstSeq[b]) /\ plan.starts[b] <= Len(FirstId[b])
        BY <1>1, PlanFacts
      <3>2. m \in 1..plan.starts[b]
        BY <1>3 DEF m
      <3> QED
        BY <1>2, <3>1, <3>2
    <2>2. FirstSeq[b] \in Seq(Nat) /\ FirstId[b] \in Seq(Nat)
      BY <1>1, PlanFacts
    <2>3. FirstSeq[b][m] \in Nat /\ FirstId[b][m] \in Nat
      BY <2>1, <2>2
    <2> QED
      BY <2>3 DEF m
  <1>5. seq' \in [Boards -> Nat] /\ msg_id' \in [Boards -> Nat]
    BY <1>1, <1>4 DEF Start, SenderTypes
  <1>6. SenderTypes'
    BY <1>1, <1>3, <1>5 DEF SenderTypes, Steps
  <1>7. ReaderTypes' /\ Reassemblies'
    <2>1. /\ last_rx_seq' = [last_rx_seq EXCEPT ![b] = -1]
          /\ reassembly' = [reassembly EXCEPT ![b] = NoMessage]
      BY DEF Start
    <2>2. NoMessage \in [id : Int, count : Nat, parts : SUBSET DataFrames]
          /\ IsFiniteSet(NoMessage.parts) /\ NoMessage.parts = {}
      BY FS_EmptySet DEF NoMessage
    <2>3. ReaderTypes'
      BY <1>1, <2>1, <2>2 DEF ReaderTypes
    <2>4. Reassemblies'
      BY <1>1, <2>1, <2>2 DEF ReaderTypes, Reassemblies
    <2> QED
      BY <2>3, <2>4
  <1>8. MailboxTypes'
    BY <1>1 DEF Start, MailboxTypes
  <1>9. Jobs'
    BY <1>1 DEF Jobs, SenderTypes
  <1>10. Lines'
    BY <1>1, <1>3 DEF Lines, SenderTypes, Waiting
  <1> QED
    BY <1>1, <1>6, <1>7, <1>8, <1>9, <1>10 DEF ChatTypes

\* chat is ended only when it may be started again
LEMMA StartsLeftKept ==
  ASSUME ChatTypes, StartsLeft, NEW b \in Boards,
         \/ Sends(b) \/ Burst(b) \/ Polls(b) \/ TypeLine(b) \/ Repeat(b) \/ GiveUp(b)
         \/ Ends(b) \/ Start(b)
  PROVE  StartsLeft'
  <1>1. plan' = plan
    BY DEF Sends, RxStop, TxStart, NotTaken, TakeOwn, RxListen, Burst, TxDone, Polls,
           PollPlain, PollData, PollAck, PollOther, TypeLine, Repeat, GiveUp,
           Ends, Quit, QuitBeforeFrame, EndChat, Start
  <1>2. step \in [Boards -> Steps] /\ starts \in [Boards -> Nat]
    BY DEF ChatTypes, SenderTypes
  <1>3. CASE Ends(b) \/ Start(b)
    BY <1>1, <1>2, <1>3, EndFacts DEF Start, StartsLeft
  <1>4. CASE Sends(b) \/ Burst(b) \/ Polls(b) \/ TypeLine(b) \/ Repeat(b) \/ GiveUp(b)
    <2>1. starts' = starts
      BY <1>4 DEF Sends, RxStop, TxStart, NotTaken, TakeOwn, RxListen, Burst, TxDone, Polls,
             PollPlain, PollData, PollAck, PollOther, TypeLine, Repeat, GiveUp, chatVars
    <2>2. \A c \in Boards : step'[c] = "off" => step[c] = "off"
      BY <1>2, <1>4
      DEF Sends, RxStop, TxStart, NotTaken, TakeOwn, RxListen, Burst, TxDone, Polls,
          PollPlain, PollData, PollAck, PollOther, TypeLine, Repeat, GiveUp, chatVars,
          SendFrame, ArqSend
    <2> QED
      BY <1>1, <2>1, <2>2 DEF StartsLeft
  <1> QED
    BY <1>3, <1>4

\* the actions of a board keep the types
LEMMA StepTyped ==
  ASSUME ChatTypes, StartsLeft, NEW b \in Boards,
         \/ Sends(b) \/ Burst(b) \/ Polls(b) \/ TypeLine(b) \/ Repeat(b) \/ GiveUp(b)
         \/ Ends(b) \/ Start(b)
  PROVE  ChatTypes' /\ StartsLeft'
  BY StartsLeftKept, SendTyped, BurstTyped, PollTyped, TypeLineTyped, RepeatTyped,
     GiveUpTyped, EndTyped, StartTyped DEF Burst

\* a frame of the proofs is a frame of the model
LEMMA FrameIs ==
  ASSUME NEW kinds, NEW f \in Frames(kinds)
  PROVE  IsFrame(f, kinds)
  <1>1. /\ f.kind \in kinds /\ f.from \in Boards /\ f.line \in Nat
        /\ f.seq \in 0..SeqModulus - 1 /\ f.id \in 0..IdModulus - 1
        /\ f.count \in 1..16 /\ f.idx \in 0..15 /\ f.idx < f.count
    BY DEF Frames, SeqNumbers, MessageIds
  <1>2. f.idx \in 0..f.count - 1
    BY <1>1
  <1> QED
    BY <1>1, <1>2 DEF IsFrame
\* and its types are those the runs check
LEMMA TypesAgree ==
  ASSUME ChatTypes
  PROVE  TypeOK
  <1>1. /\ SenderTypes /\ ReaderTypes /\ MailboxTypes /\ Lines /\ Reassemblies
        /\ plan \in Plans
    BY DEF ChatTypes
  <1>2. ASSUME NEW b \in Boards
        PROVE  /\ starts[b] \in 1..plan.starts[b]
               /\ typed[b] \in settled[b]..Len(plan.lines[b]) /\ settled[b] \in Nat
               /\ acked[b] \subseteq 1..settled[b] /\ excused[b] \subseteq 1..typed[b]
    <2>1. typed[b] \in Nat /\ settled[b] \in Nat /\ Len(plan.lines[b]) \in Nat
      BY <1>1, PlanFacts DEF SenderTypes
    <2> QED
      BY <1>1, <2>1 DEF Lines
  <1>3. ASSUME NEW b \in Boards
        PROVE  /\ step[b] \in {"off", "free", "stop", "start", "own", "relisten"}
               /\ job[b] = NoFrame \/ IsFrame(job[b], {"data", "ack"})
               /\ sending[b] = NoFrame \/ IsFrame(sending[b], {"data"})
               /\ tries[b] \in 0..ARQ_TRIES
               /\ seq[b] \in Nat /\ msg_id[b] \in Nat
    BY <1>1, FrameIs DEF SenderTypes, Steps, AnyFrames, DataFrames
  <1>4. ASSUME NEW b \in Boards
        PROVE  /\ last_rx_seq[b] \in -1..SeqModulus - 1
               /\ \A f \in reassembly[b].parts : IsFrame(f, {"data"})
               /\ Cardinality(reassembly[b].parts) <= reassembly[b].count
    <2>1. last_rx_seq[b] \in -1..SeqModulus - 1
      <3>1. last_rx_seq[b] \in {-1} \cup SeqNumbers
        BY <1>1 DEF ReaderTypes
      <3>2. SeqModulus \in Nat /\ SeqModulus >= 1
        BY Moduli
      <3>3. {-1} \cup SeqNumbers \subseteq -1..SeqModulus - 1
        BY <3>2 DEF SeqNumbers
      <3> QED
        BY <3>1, <3>3
    <2>2. \A f \in reassembly[b].parts : IsFrame(f, {"data"})
      BY <1>1, FrameIs DEF ReaderTypes, DataFrames
    <2>3. reassembly[b].count \in Nat /\ IsFiniteSet(reassembly[b].parts)
      BY <1>1 DEF ReaderTypes, Reassemblies
    <2>4. Cardinality(reassembly[b].parts) \in Nat
      BY <2>3, FS_CardinalityType
    <2>5. Cardinality({}) = 0
      BY FS_EmptySet
    <2>6. Cardinality(reassembly[b].parts) <= reassembly[b].count
      <3>1. \/ reassembly[b].parts = {}
            \/ Cardinality(reassembly[b].parts) < reassembly[b].count
        BY <1>1 DEF Reassemblies
      <3> QED
        BY <2>3, <2>4, <2>5, <3>1
    <2> QED
      BY <2>1, <2>2, <2>6
  <1>5. ASSUME NEW b \in Boards
        PROVE  /\ listening[b] \in BOOLEAN /\ tx_busy[b] \in BOOLEAN
               /\ tx[b] = NoFrame \/ IsFrame(tx[b], {"data", "ack"})
               /\ rx[b] \in {NoFrame, BadFrame} \/ IsFrame(rx[b], {"data", "ack"})
    BY <1>1, FrameIs DEF MailboxTypes, AnyFrames
  <1> QED
    BY <1>1, <1>2, <1>3, <1>4, <1>5 DEF TypeOK

\* doing nothing keeps the types
LEMMA StutterTyped ==
  ASSUME ChatTypes, StartsLeft, UNCHANGED vars
  PROVE  ChatTypes' /\ StartsLeft'
  BY DEF vars, chatVars, senderVars, readerVars, mailboxVars, screen, reports, ChatTypes,
     StartsLeft, SenderTypes, ReaderTypes, MailboxTypes, Jobs, Lines, Reassemblies, Waiting

(***************************************************************************)
(* Whatever is typed, lost, given up and restarted: frames, counts and     *)
(* numbers keep their ranges, a line is typed before it is reported on,    *)
(* and a reassembly never holds more fragments than its message has.       *)
(***************************************************************************)
THEOREM ChatTypesKept == Spec => []TypeOK
  <1>1. Init => ChatTypes /\ StartsLeft
    BY InitTyped DEF Init, StartsLeft
  <1>2. ChatTypes /\ StartsLeft /\ [Next]_vars => (ChatTypes /\ StartsLeft)'
    BY StepTyped, StutterTyped DEF Next
  <1>3. ChatTypes => TypeOK
    BY TypesAgree
  <1> QED
    BY <1>1, <1>2, <1>3, PTL DEF Spec
-----------------------------------------------------------------------------
(* Between two sends a board listens.                                      *)

\* the premises of every lemma here
Listening == /\ ChatTypes /\ OneTypist /\ ~ plan.stalls
             /\ Mailboxes /\ OneAtATime

\* what a step at b's board has to keep of the other board, p
LEMMA OneTalks ==
  ASSUME Listening, NEW a \in Boards, NEW b \in Boards, a # b
  PROVE  ~ (Talking(a) /\ Talking(b))
  <1>1. \A r, c \in Boards : r # c /\ Reads(r) => ~ (Talking(r) /\ Talking(c))
    <2> SUFFICES ASSUME NEW r \in Boards, NEW c \in Boards, r # c, Reads(r), Talking(r)
                 PROVE  ~ Talking(c)
      OBVIOUS
    <2>1. OneBurst(c, r) /\ Mailboxes
      BY DEF Listening, OneAtATime
    <2>2. step[r] # "free" /\ step[r] # "off" /\ Answering(r)
      BY <2>1 DEF Talking, Mailboxes, Answering
    <2>3. step[c] = "off" => ~ Talking(c)
      BY <2>1 DEF Talking, Mailboxes
    <2> QED
      BY <2>1, <2>2, <2>3 DEF OneBurst
  <1>2. Reads(a) \/ Reads(b)
    <2>1. PICK c \in Boards : Reads(c)
      BY DEF Listening, OneTypist, Reads
    <2> QED
      BY <2>1, PeerIs
  <1> QED
    BY <1>1, <1>2

\* a board whose user types nothing never has a line under way
LEMMA ReaderIdle ==
  ASSUME ChatTypes, NEW r \in Boards, Reads(r)
  PROVE  ~ TypeLine(r) /\ typed[r] = 0
  <1>1. typed[r] \in Nat /\ typed[r] <= Len(plan.lines[r]) /\ Len(plan.lines[r]) = 0
    BY DEF ChatTypes, SenderTypes, Lines, Reads
  <1> QED
    BY <1>1 DEF TypeLine

\* a step of send_frame that neither begins nor ends a burst
LEMMA SameBurst ==
  ASSUME Listening, UNCHANGED <<plan, sending, job>>,
         \A c \in Boards : /\ Talking(c)' <=> Talking(c)
                           /\ Answering(c)' <=> Answering(c)
                           /\ (step'[c] = "free") <=> (step[c] = "free")
                           /\ (step'[c] = "off") <=> (step[c] = "off")
                           /\ step[c] = "free" => rx'[c] = rx[c]
  PROVE  OneAtATime'
  <1>1. ASSUME NEW a \in Boards, NEW r \in Boards, a # r, Reads(r)
        PROVE  OneBurst(a, r)'
    <2>1. OneBurst(a, r)
      BY <1>1 DEF Listening, OneAtATime
    <2>2. Waiting(a)' <=> Waiting(a)
      BY DEF Waiting
    <2>3. Waiting(r)' <=> Waiting(r)
      BY DEF Waiting
    <2> QED
      BY <2>1, <2>2, <2>3 DEF OneBurst
  <1> QED
    BY <1>1 DEF OneAtATime, Reads

\* RX_STOP, TX_START and taking one's own burst
LEMMA SendListens ==
  ASSUME Listening, NEW b \in Boards,
         RxStop(b) \/ TxStart(b) \/ NotTaken(b) \/ TakeOwn(b)
  PROVE  Mailboxes' /\ OneAtATime'
  <1> USE DEF senderVars, readerVars, screen, reports
  <1>1. SenderTypes /\ MailboxTypes /\ Mailboxes /\ ~ plan.stalls
    BY DEF Listening, ChatTypes
  <1>2. UNCHANGED <<plan, sending, job>>
    BY DEF RxStop, TxStart, NotTaken, TakeOwn
  <1>3. CASE RxStop(b)
    <2>1. Mailboxes'
      BY <1>1, <1>3 DEF RxStop, Mailboxes, SenderTypes, MailboxTypes
    <2>2. \A c \in Boards : /\ Talking(c)' <=> Talking(c)
                            /\ Answering(c)' <=> Answering(c)
                            /\ (step'[c] = "free") <=> (step[c] = "free")
                            /\ (step'[c] = "off") <=> (step[c] = "off")
                            /\ step[c] = "free" => rx'[c] = rx[c]
      BY <1>1, <1>3 DEF RxStop, SenderTypes, Talking, Answering
    <2> QED
      BY <1>2, <2>1, <2>2, SameBurst
  <1>4. CASE TxStart(b)
    <2>1. ~ tx_busy[b] /\ tx' = [tx EXCEPT ![b] = job[b]]
      BY <1>1, <1>4 DEF TxStart, Mailboxes
    <2>2. Mailboxes'
      BY <1>1, <1>4, <2>1 DEF TxStart, Mailboxes, SenderTypes, MailboxTypes
    <2>3. \A c \in Boards : /\ Talking(c)' <=> Talking(c)
                            /\ Answering(c)' <=> Answering(c)
                            /\ (step'[c] = "free") <=> (step[c] = "free")
                            /\ (step'[c] = "off") <=> (step[c] = "off")
                            /\ step[c] = "free" => rx'[c] = rx[c]
      BY <1>1, <1>4 DEF TxStart, SenderTypes, MailboxTypes, Talking, Answering
    <2> QED
      BY <1>2, <2>2, <2>3, SameBurst
  <1>5. CASE TakeOwn(b)
    <2>1. Mailboxes'
      BY <1>1, <1>5 DEF TakeOwn, Mailboxes, SenderTypes, MailboxTypes
    <2>2. \A c \in Boards : /\ Talking(c)' <=> Talking(c)
                            /\ Answering(c)' <=> Answering(c)
                            /\ (step'[c] = "free") <=> (step[c] = "free")
                            /\ (step'[c] = "off") <=> (step[c] = "off")
                            /\ step[c] = "free" => rx'[c] = rx[c]
      BY <1>1, <1>5 DEF TakeOwn, SenderTypes, MailboxTypes, Talking, Answering
    <2> QED
      BY <1>2, <2>1, <2>2, SameBurst
  <1> QED
    BY <1>1, <1>3, <1>4, <1>5 DEF NotTaken

\* RX_LISTEN
LEMMA RxListenListens ==
  ASSUME Listening, NEW b \in Boards, RxListen(b)
  PROVE  Mailboxes' /\ OneAtATime'
  <1> USE DEF senderVars
  <1>1. SenderTypes /\ MailboxTypes /\ Mailboxes
    BY DEF Listening, ChatTypes
  <1>2. /\ step[b] = "relisten" /\ step' = [step EXCEPT ![b] = "free"]
        /\ job' = [job EXCEPT ![b] = NoFrame]
        /\ listening' = [listening EXCEPT ![b] = @ \/ ~ tx_busy[b]]
        /\ UNCHANGED <<plan, sending, tx_busy, tx, rx>>
    BY DEF RxListen
  <1>3. ~ tx_busy[b] /\ rx[b] = NoFrame
    BY <1>1, <1>2 DEF Mailboxes
  <1>4. Mailboxes'
    BY <1>1, <1>2, <1>3 DEF Mailboxes, SenderTypes, MailboxTypes
  <1>5. ASSUME NEW a \in Boards, NEW r \in Boards, a # r, Reads(r)
        PROVE  OneBurst(a, r)'
    <2>1. OneBurst(a, r)
      BY <1>5 DEF Listening, OneAtATime
    <2>2. \A c \in Boards : /\ Talking(c)' <=> Talking(c)
                            /\ Answering(c)' <=> Answering(c)
                            /\ step'[c] = step[c] \/ (c = b /\ step'[c] = "free")
      BY <1>1, <1>2, <1>3 DEF SenderTypes, Talking, Answering
    <2>3. ~ Answering(b)
      BY <1>2, <1>3 DEF Answering, Talking
    <2>4. /\ Waiting(a)' <=> Waiting(a)
          /\ Waiting(r)' <=> Waiting(r)
      BY <1>2 DEF Waiting
    <2>5. CASE b = a
      <3>1. job'[a] = NoFrame /\ job'[r] = job[r] /\ step'[r] = step[r]
            /\ rx'[a] = NoFrame /\ step[a] # "off"
        BY <1>1, <1>2, <1>3, <1>5, <2>5 DEF SenderTypes
      <3> QED
        BY <1>2, <2>1, <2>2, <2>4, <3>1 DEF OneBurst
    <2>6. CASE b = r
      <3>1. job'[r] = NoFrame /\ job'[a] = job[a] /\ step'[a] = step[a] /\ step'[r] = "free"
        BY <1>1, <1>2, <1>5, <2>6 DEF SenderTypes
      <3> QED
        BY <1>2, <2>1, <2>2, <2>3, <2>4, <2>6, <3>1, FrameFacts DEF OneBurst
    <2> QED
      BY <1>5, <2>5, <2>6, PeerIs
  <1> QED
    BY <1>2, <1>4, <1>5 DEF OneAtATime, Reads

\* the end of a burst
LEMMA BurstListens ==
  ASSUME Listening, NEW b \in Boards, NEW reaches \in BOOLEAN, NEW heard \in BOOLEAN,
         TxDone(b, reaches, heard)
  PROVE  Mailboxes' /\ OneAtATime'
  <1> DEFINE p == Peer(b)
  <1>1. SenderTypes /\ MailboxTypes /\ Mailboxes /\ Jobs
    BY DEF Listening, ChatTypes
  <1>2. /\ tx_busy[b] /\ tx_busy' = [tx_busy EXCEPT ![b] = FALSE]
        /\ reaches => listening[p]
        /\ rx' = [rx EXCEPT ![b] = Delivered(b, IF heard THEN tx[b] ELSE BadFrame),
                            ![p] = IF reaches THEN Delivered(p, tx[b]) ELSE @]
        /\ UNCHANGED <<plan, step, job, sending, listening, tx>>
    BY DEF TxDone, chatVars, senderVars
  <1>3. p \in Boards /\ p # b /\ \A c \in Boards : c = b \/ c = p
    BY PeerIs
  <1> HIDE DEF p
  <1>4. /\ step[b] = "own" /\ tx[b] = job[b] /\ rx[b] = NoFrame
        /\ job[b] \in AnyFrames /\ job[b] # NoFrame /\ job[b] # BadFrame
    <2>1. step[b] = "own" /\ tx[b] = job[b] /\ rx[b] = NoFrame
      BY <1>1, <1>2 DEF Mailboxes
    <2>2. job[b] # NoFrame
      BY <1>1, <2>1 DEF Jobs
    <2>3. job[b] \in AnyFrames
      BY <1>1, <2>2 DEF SenderTypes
    <2> QED
      BY <2>1, <2>2, <2>3, FrameFacts
  <1>5. rx'[b] # NoFrame /\ ~ tx_busy'[b]
    BY <1>1, <1>2, <1>3, <1>4, FrameFacts DEF MailboxTypes, Delivered
  <1>6. ~ Talking(p)
    BY <1>2, <1>3, <1>4, OneTalks DEF Talking
  <1>7. /\ reaches => step[p] = "free"
        /\ ~ reaches => rx'[p] = rx[p]
        /\ reaches /\ rx[p] = NoFrame => rx'[p] = job[b]
        /\ reaches /\ rx[p] # NoFrame => rx'[p] = rx[p]
        /\ tx_busy'[p] = tx_busy[p]
    <2>1. reaches => step[p] = "free"
      BY <1>1, <1>2, <1>3, <1>6 DEF Mailboxes, Talking
    <2> QED
      BY <1>1, <1>2, <1>3, <1>4, <2>1 DEF MailboxTypes, Delivered
  <1>8. Mailboxes'
    <2>1. ASSUME NEW c \in Boards
          PROVE  /\ listening'[c] => step'[c] \in {"free", "stop"}
                 /\ step'[c] = "free" => listening'[c]
                 /\ tx_busy'[c] => step'[c] = "own" /\ tx'[c] = job'[c]
                 /\ step'[c] \in {"stop", "start", "relisten"} => rx'[c] = NoFrame
                 /\ step'[c] = "own" => (tx_busy'[c] <=> rx'[c] = NoFrame)
      <3>1. CASE c = b
        BY <1>1, <1>2, <1>4, <1>5, <3>1 DEF Mailboxes
      <3>2. CASE c = p
        BY <1>1, <1>2, <1>3, <1>7, <3>2 DEF Mailboxes
      <3> QED
        BY <1>3, <3>1, <3>2
    <2> QED
      BY <2>1 DEF Mailboxes
  <1>9. ASSUME NEW a \in Boards, NEW r \in Boards, a # r, Reads(r)
        PROVE  OneBurst(a, r)'
    <2>1. OneBurst(a, r)
      BY <1>9 DEF Listening, OneAtATime
    <2>2. /\ Waiting(a)' <=> Waiting(a)
          /\ Waiting(r)' <=> Waiting(r)
      BY <1>2 DEF Waiting
    <2>3. /\ ~ Talking(b)' /\ ~ Answering(b)' /\ Talking(b) /\ Answering(b)
          /\ ~ Talking(p)'
      BY <1>2, <1>4, <1>5, <1>6, <1>7 DEF Talking, Answering
    <2>4. CASE b = a /\ p = r
      <3>1. plan.arq => ~ Answering(r)
        BY <1>4, <2>1, <2>3, <2>4 DEF OneBurst
      <3>2. plan.arq => job[a] = sending[a] /\ Waiting(a)
        BY <1>4, <2>1, <2>4 DEF OneBurst, Waiting
      <3>3. plan.arq /\ Answering(r)' => step[r] = "free" /\ rx'[r] = sending[a]
        BY <1>2, <1>7, <2>3, <2>4, <3>1, <3>2 DEF Answering, Talking
      <3> QED
        BY <1>2, <1>4, <2>1, <2>2, <2>3, <2>4, <3>2, <3>3 DEF OneBurst
    <2>5. CASE b = r /\ p = a
      <3>1. plan.arq
        BY <1>4, <2>1, <2>5 DEF OneBurst
      <3>2. step[a] # "off" => Waiting(a) /\ job[r] = AckOf(sending[a])
        BY <1>4, <2>1, <2>3, <2>5, <3>1 DEF OneBurst
      <3>3. step[a] = "free" => rx[a] = NoFrame
        BY <2>1, <2>3, <2>5, <3>1 DEF OneBurst
      <3> QED
        BY <1>2, <1>7, <2>1, <2>2, <2>3, <2>5, <3>1, <3>2, <3>3 DEF OneBurst
    <2> QED
      BY <1>3, <1>9, <2>4, <2>5
  <1> QED
    BY <1>2, <1>8, <1>9 DEF OneAtATime, Reads
\* a board that goes from one poll to the next: nothing is said
LEMMA FreeBoard ==
  ASSUME Listening, NEW b \in Boards, step[b] = "free"
  PROVE  /\ ~ tx_busy[b] /\ ~ Talking(b) /\ listening[b] /\ job[b] = NoFrame
         /\ Answering(b) <=> rx[b] # NoFrame
  BY DEF Listening, ChatTypes, Mailboxes, Jobs, Talking, Answering

\* a step taken at the poll: to the poll again, or into send_frame with RX empty
LEMMA PollMailboxes ==
  ASSUME Listening, NEW b \in Boards, step[b] = "free",
         \/ step' = step
         \/ step' = [step EXCEPT ![b] = "stop"] /\ rx'[b] = NoFrame,
         \A c \in Boards : c # b => rx'[c] = rx[c],
         \A c \in Boards : c # b => job'[c] = job[c],
         UNCHANGED <<listening, tx_busy, tx>>
  PROVE  Mailboxes'
  <1>1. SenderTypes /\ MailboxTypes /\ Mailboxes
    BY DEF Listening, ChatTypes
  <1>2. ~ tx_busy[b] /\ listening[b]
    BY FreeBoard
  <1>3. ASSUME NEW c \in Boards
        PROVE  /\ listening'[c] => step'[c] \in {"free", "stop"}
               /\ step'[c] = "free" => listening'[c]
               /\ tx_busy'[c] => step'[c] = "own" /\ tx'[c] = job'[c]
               /\ step'[c] \in {"stop", "start", "relisten"} => rx'[c] = NoFrame
               /\ step'[c] = "own" => (tx_busy'[c] <=> rx'[c] = NoFrame)
    <2>1. CASE c = b
      <3>1. step'[b] \in {"free", "stop"} /\ (step'[b] = "stop" => rx'[b] = NoFrame)
        BY <1>1 DEF SenderTypes
      <3> QED
        BY <1>2, <2>1, <3>1
    <2>2. CASE c # b
      <3>1. step'[c] = step[c] /\ rx'[c] = rx[c] /\ job'[c] = job[c]
        BY <1>1, <2>2 DEF SenderTypes
      <3> QED
        BY <1>1, <3>1 DEF Mailboxes
    <2> QED
      BY <2>1, <2>2
  <1> QED
    BY <1>3 DEF Mailboxes

\* RX is emptied and nothing is sent
LEMMA DropListens ==
  ASSUME Listening, NEW b \in Boards, TakeRx(b),
         UNCHANGED <<plan, step, job, sending, listening, tx_busy, tx>>
  PROVE  Mailboxes' /\ OneAtATime'
  <1>1. SenderTypes /\ MailboxTypes
    BY DEF Listening, ChatTypes
  <1>2. /\ step[b] = "free" /\ rx'[b] = NoFrame
        /\ \A c \in Boards : c # b => rx'[c] = rx[c]
    BY <1>1 DEF TakeRx, MailboxTypes
  <1>3. Mailboxes'
    BY <1>2, PollMailboxes
  <1>4. ASSUME NEW a \in Boards, NEW r \in Boards, a # r, Reads(r)
        PROVE  OneBurst(a, r)'
    <2>1. OneBurst(a, r)
      BY <1>4 DEF Listening, OneAtATime
    <2>2. /\ Talking(a)' <=> Talking(a)
          /\ Waiting(a)' <=> Waiting(a)
          /\ Waiting(r)' <=> Waiting(r)
      BY DEF Talking, Waiting
    <2>3. rx'[a] = rx[a] \/ rx'[a] = NoFrame
      BY <1>2
    <2>4. Answering(r)' => Answering(r) /\ rx'[r] = rx[r]
      <3>1. CASE r = b
        BY <1>2, <3>1, FreeBoard DEF Answering, Talking
      <3>2. CASE r # b
        BY <1>2, <3>2 DEF Answering, Talking
      <3> QED
        BY <3>1, <3>2
    <2> QED
      BY <2>1, <2>2, <2>3, <2>4 DEF OneBurst
  <1> QED
    BY <1>3, <1>4 DEF OneAtATime, Reads

\* a data frame is answered
LEMMA PollDataListens ==
  ASSUME Listening, NEW b \in Boards, PollData(b)
  PROVE  Mailboxes' /\ OneAtATime'
  <1>1. SenderTypes /\ MailboxTypes /\ Jobs
    BY DEF Listening, ChatTypes
  <1>2. /\ step[b] = "free" /\ plan.arq /\ rx[b].kind = "data"
        /\ rx' = [rx EXCEPT ![b] = NoFrame]
        /\ step' = [step EXCEPT ![b] = "stop"] /\ job' = [job EXCEPT ![b] = AckOf(rx[b])]
        /\ UNCHANGED <<plan, sending, listening, tx_busy, tx>>
    BY DEF PollData, TakeRx, SendFrame, senderVars
  <1>3. rx[b] # NoFrame /\ rx[b] \in AnyFrames
    BY <1>1, <1>2, FrameFacts DEF MailboxTypes
  <1>4. /\ rx'[b] = NoFrame /\ job'[b] = AckOf(rx[b]) /\ step'[b] = "stop"
        /\ \A c \in Boards : c # b => /\ rx'[c] = rx[c] /\ job'[c] = job[c]
                                      /\ step'[c] = step[c]
    BY <1>1, <1>2 DEF SenderTypes, MailboxTypes
  <1>5. Mailboxes'
    BY <1>2, <1>4, PollMailboxes
  <1>6. ASSUME NEW a \in Boards, NEW r \in Boards, a # r, Reads(r)
        PROVE  OneBurst(a, r)'
    <2>1. OneBurst(a, r)
      BY <1>6 DEF Listening, OneAtATime
    <2>2. /\ Waiting(a)' <=> Waiting(a)
          /\ Waiting(r)' <=> Waiting(r)
      BY <1>2 DEF Waiting
    <2>3. CASE b = a
      <3>1. Waiting(a) /\ rx[a] = AckOf(sending[a])
        BY <1>2, <1>3, <2>1, <2>3 DEF OneBurst
      <3>2. sending[a] \in AnyFrames
        BY <1>1, <3>1, FrameFacts DEF SenderTypes, Waiting
      <3>3. rx[a].kind = "ack"
        <4>1. AckOf(sending[a]).kind = "ack"
          BY <3>2, FrameFacts
        <4> QED
          BY <3>1, <4>1
      <3> QED
        BY <1>2, <2>3, <3>3
    <2>4. CASE b = r
      <3>1. Answering(r)
        BY <1>2, <1>3, <2>4 DEF Answering
      <3>2. step[a] # "off" => ~ Talking(a) /\ Waiting(a) /\ rx[r] = sending[a]
        BY <1>2, <2>1, <2>4, <3>1 DEF OneBurst
      <3>3. ~ (step[a] = "free" /\ rx[a] # NoFrame)
        BY <1>2, <2>1, <3>1 DEF OneBurst
      <3>4. /\ step'[a] = step[a] /\ job'[a] = job[a] /\ rx'[a] = rx[a]
            /\ step'[r] = "stop" /\ job'[r] = AckOf(rx[r])
        BY <1>4, <1>6, <2>4
      <3>5. Talking(a)' <=> Talking(a)
        BY <1>2, <3>4 DEF Talking
      <3>6. job'[r].kind # "data"
        BY <1>3, <2>4, <3>4, FrameFacts
      <3> QED
        BY <1>2, <2>1, <2>2, <3>2, <3>3, <3>4, <3>5, <3>6 DEF OneBurst
    <2> QED
      BY <1>6, <2>3, <2>4, PeerIs
  <1> QED
    BY <1>2, <1>5, <1>6 DEF OneAtATime, Reads

\* a frame goes out, or is done with, when nothing is on its way
LEMMA NextListens ==
  ASSUME Listening, NEW b \in Boards, ~ Reads(b), step[b] = "free",
         UNCHANGED <<plan, listening, tx_busy, tx>>,
         \A c \in Boards : c # b => /\ rx'[c] = rx[c] /\ job'[c] = job[c]
                                    /\ step'[c] = step[c] /\ sending'[c] = sending[c],
         rx'[b] = NoFrame,
         \/ step' = step /\ job' = job
         \/ /\ step' = [step EXCEPT ![b] = "stop"]
            /\ plan.arq => job'[b] = sending'[b],
         ~ plan.arq => ~ Waiting(b)',
         plan.arq => ~ Answering(Peer(b))
  PROVE  Mailboxes' /\ OneAtATime'
  <1>1. SenderTypes /\ MailboxTypes /\ Jobs
    BY DEF Listening, ChatTypes
  <1>2. Mailboxes'
    BY PollMailboxes
  <1>3. ASSUME NEW a \in Boards, NEW r \in Boards, a # r, Reads(r)
        PROVE  OneBurst(a, r)'
    <2>1. OneBurst(a, r) /\ a = b /\ r = Peer(b)
      BY <1>3, PeerIs DEF Listening, OneAtATime
    <2>2. /\ rx'[r] = rx[r] /\ job'[r] = job[r] /\ step'[r] = step[r] /\ sending'[r] = sending[r]
      BY <1>3, <2>1
    <2>3. /\ Waiting(r)' <=> Waiting(r)
          /\ Answering(r)' <=> Answering(r)
      BY <2>2 DEF Waiting, Answering, Talking
    <2>4. job[a] = NoFrame
      BY <2>1, FreeBoard
    <2>5. plan.arq => (job'[a] # NoFrame => job'[a] = sending'[a])
      BY <2>1, <2>4
    <2> QED
      BY <2>1, <2>2, <2>3, <2>5 DEF OneBurst
  <1> QED
    BY <1>2, <1>3 DEF OneAtATime, Reads
\* the other board of one that types, or waits, only reads
LEMMA PeerReads ==
  ASSUME Listening, NEW b \in Boards, Waiting(b) \/ ~ Reads(b)
  PROVE  /\ ~ Reads(b) /\ Reads(Peer(b)) /\ OneBurst(b, Peer(b))
         /\ Peer(b) \in Boards /\ Peer(b) # b
         /\ Waiting(b) => plan.arq
  <1>1. Peer(b) \in Boards /\ Peer(b) # b
    BY PeerIs
  <1>2. PICK c \in Boards : Reads(c)
    BY DEF Listening, OneTypist, Reads
  <1>3. Reads(b) => ~ Waiting(b)
    <2>1. Reads(b) => OneBurst(Peer(b), b)
      BY <1>1 DEF Listening, OneAtATime
    <2> QED
      BY <2>1 DEF OneBurst
  <1>4. ~ Reads(b) /\ Reads(Peer(b))
    BY <1>2, <1>3, PeerIs
  <1>5. OneBurst(b, Peer(b))
    BY <1>1, <1>4 DEF Listening, OneAtATime
  <1> QED
    BY <1>1, <1>4, <1>5 DEF OneBurst

\* nothing is on its way when the wait ends
LEMMA WaitEndsQuiet ==
  ASSUME Listening, NEW b \in Boards, WaitEnds(b)
  PROVE  /\ step[b] = "free" /\ Waiting(b) /\ ~ Reads(b) /\ plan.arq
         /\ rx[b] = NoFrame /\ ~ Answering(Peer(b))
  <1>1. /\ Waiting(b) /\ step[b] = "free" /\ ~ AnswerUnderWay(b)
    BY DEF WaitEnds
  <1>2. /\ ~ Reads(b) /\ OneBurst(b, Peer(b)) /\ plan.arq /\ ~ plan.stalls
        /\ Peer(b) \in Boards
    BY <1>1, PeerReads DEF Listening
  <1>3. rx[b] # AckOf(sending[b])
    BY <1>1, <1>2 DEF AnswerUnderWay
  <1>4. rx[b] = NoFrame
    BY <1>1, <1>2, <1>3 DEF OneBurst
  <1>5. ASSUME Answering(Peer(b)) PROVE FALSE
    <2>1. step[Peer(b)] # "off"
      <3>1. tx_busy[Peer(b)] => step[Peer(b)] = "own"
        BY <1>2 DEF Listening, Mailboxes
      <3> QED
        BY <1>5, <3>1 DEF Answering, Talking
    <2>2. rx[Peer(b)] = sending[b] \/ job[Peer(b)] = AckOf(sending[b])
      BY <1>1, <1>2, <1>5 DEF OneBurst
    <2> QED
      BY <1>1, <1>2, <2>1, <2>2 DEF AnswerUnderWay
  <1> QED
    BY <1>1, <1>2, <1>4, <1>5

\* poll_rx takes the answer that was waited for, or answers
LEMMA PollListens ==
  ASSUME Listening, NEW b \in Boards, Polls(b)
  PROVE  Mailboxes' /\ OneAtATime'
  <1> USE DEF chatVars, senderVars
  <1>1. CASE PollPlain(b)
    BY <1>1, DropListens DEF PollPlain
  <1>2. CASE PollData(b)
    BY <1>2, PollDataListens
  <1>3. CASE PollOther(b)
    BY <1>3, DropListens DEF PollOther
  <1>4. CASE PollAck(b)
    <2>1. SenderTypes /\ MailboxTypes
      BY DEF Listening, ChatTypes
    <2>2. /\ step[b] = "free" /\ rx' = [rx EXCEPT ![b] = NoFrame] /\ Waiting(b)
          /\ rx[b].kind = "ack" /\ UNCHANGED <<plan, listening, tx_busy, tx>>
      BY <1>4 DEF PollAck, TakeRx, Acknowledges
    <2>3. rx[b] # NoFrame
      BY <2>2, FrameFacts
    <2>4. ~ Reads(b) /\ OneBurst(b, Peer(b)) /\ plan.arq
      BY <2>2, PeerReads
    <2>5. ~ Answering(Peer(b))
      BY <2>2, <2>3, <2>4 DEF OneBurst
    <2>6. rx'[b] = NoFrame /\ \A c \in Boards : c # b => rx'[c] = rx[c]
      BY <2>1, <2>2 DEF MailboxTypes
    <2>7. CASE LastFrame(b)
      <3>1. /\ UNCHANGED <<step, job>> /\ sending' = [sending EXCEPT ![b] = NoFrame]
        BY <1>4, <2>7 DEF PollAck, Report
      <3>2. \A c \in Boards : c # b => sending'[c] = sending[c]
        BY <2>1, <3>1 DEF SenderTypes
      <3> QED
        BY <2>2, <2>4, <2>5, <2>6, <3>1, <3>2, NextListens
    <2>8. CASE ~ LastFrame(b)
      <3> DEFINE f == DataFrame(b, typed[b], sending[b].idx + 1, sending[b].id)
      <3> HIDE DEF f
      <3>1. /\ step' = [step EXCEPT ![b] = "stop"] /\ job' = [job EXCEPT ![b] = f]
            /\ sending' = [sending EXCEPT ![b] = f]
        BY <1>4, <2>8 DEF PollAck, ArqSend, SendFrame, f
      <3>2. /\ \A c \in Boards : c # b => /\ sending'[c] = sending[c] /\ job'[c] = job[c]
                                          /\ step'[c] = step[c]
            /\ job'[b] = sending'[b]
        BY <2>1, <3>1 DEF SenderTypes
      <3> QED
        BY <2>2, <2>4, <2>5, <2>6, <3>1, <3>2, NextListens
    <2> QED
      BY <2>7, <2>8
  <1> QED
    BY <1>1, <1>2, <1>3, <1>4 DEF Polls

\* a frame is sent again when nothing is on its way
LEMMA RepeatListens ==
  ASSUME Listening, NEW b \in Boards, Repeat(b) \/ GiveUp(b)
  PROVE  Mailboxes' /\ OneAtATime'
  <1>1. SenderTypes /\ MailboxTypes
    BY DEF Listening, ChatTypes
  <1>2. /\ step[b] = "free" /\ ~ Reads(b) /\ plan.arq /\ rx[b] = NoFrame
        /\ ~ Answering(Peer(b))
    BY WaitEndsQuiet DEF Repeat, GiveUp
  <1>3. UNCHANGED <<plan, listening, tx_busy, tx, rx>>
    BY DEF Repeat, GiveUp, mailboxVars
  <1>4. CASE Repeat(b)
    <2>1. /\ step' = [step EXCEPT ![b] = "stop"] /\ job' = [job EXCEPT ![b] = sending[b]]
          /\ sending' = sending
      BY <1>4 DEF Repeat, SendFrame
    <2>2. /\ \A c \in Boards : c # b => job'[c] = job[c] /\ step'[c] = step[c]
          /\ job'[b] = sending'[b]
      BY <1>1, <2>1 DEF SenderTypes
    <2> QED
      BY <1>2, <1>3, <2>1, <2>2, NextListens
  <1>5. CASE GiveUp(b)
    <2>1. /\ UNCHANGED <<step, job>> /\ sending' = [sending EXCEPT ![b] = NoFrame]
      BY <1>5 DEF GiveUp, Report
    <2>2. \A c \in Boards : c # b => sending'[c] = sending[c]
      BY <1>1, <2>1 DEF SenderTypes
    <2> QED
      BY <1>2, <1>3, <2>1, <2>2, NextListens
  <1> QED
    BY <1>4, <1>5

\* a line is typed when nothing is on its way
LEMMA TypeLineListens ==
  ASSUME Listening, NEW b \in Boards, TypeLine(b)
  PROVE  Mailboxes' /\ OneAtATime'
  <1>1. SenderTypes /\ MailboxTypes /\ ChatTypes
    BY DEF Listening, ChatTypes
  <1>2. ~ Reads(b)
    BY <1>1, ReaderIdle
  <1>3. /\ step[b] = "free" /\ ~ Waiting(b) /\ UNCHANGED <<plan, listening, tx_busy, tx, rx>>
    BY DEF TypeLine, mailboxVars
  <1>4. OneBurst(b, Peer(b))
    BY <1>2, PeerReads
  <1>5. rx[b] = NoFrame /\ (plan.arq => ~ Answering(Peer(b)))
    BY <1>3, <1>4 DEF OneBurst
  <1>6. CASE plan.arq
    <2>1. PICK f : /\ step' = [step EXCEPT ![b] = "stop"] /\ job' = [job EXCEPT ![b] = f]
                   /\ sending' = [sending EXCEPT ![b] = f]
      BY <1>6 DEF TypeLine, ArqSend, SendFrame
    <2>2. /\ \A c \in Boards : c # b => /\ sending'[c] = sending[c] /\ job'[c] = job[c]
                                        /\ step'[c] = step[c]
          /\ job'[b] = sending'[b]
      BY <1>1, <2>1 DEF SenderTypes
    <2> QED
      BY <1>2, <1>3, <1>5, <1>6, <2>1, <2>2, NextListens
  <1>7. CASE ~ plan.arq
    <2>1. PICK f : /\ step' = [step EXCEPT ![b] = "stop"] /\ job' = [job EXCEPT ![b] = f]
                   /\ sending' = sending
      BY <1>7 DEF TypeLine, SendFrame
    <2>2. \A c \in Boards : c # b => /\ sending'[c] = sending[c] /\ job'[c] = job[c]
                                     /\ step'[c] = step[c]
      BY <1>1, <2>1 DEF SenderTypes
    <2>3. ~ Waiting(b)'
      BY <1>3, <2>1 DEF Waiting
    <2> QED
      BY <1>2, <1>3, <1>5, <1>7, <2>1, <2>2, <2>3, NextListens
  <1> QED
    BY <1>6, <1>7
\* a board whose chat is ended asks for nothing and answers nothing
LEMMA EndListens ==
  ASSUME Listening, NEW b \in Boards, Ends(b)
  PROVE  Mailboxes' /\ OneAtATime'
  <1>1. SenderTypes /\ MailboxTypes /\ Mailboxes
    BY DEF Listening, ChatTypes
  <1>2. /\ step[b] \in {"free", "stop"} /\ step' = [step EXCEPT ![b] = "off"]
        /\ job' = [job EXCEPT ![b] = NoFrame]
        /\ sending' = [sending EXCEPT ![b] = NoFrame]
        /\ listening' = [listening EXCEPT ![b] = FALSE]
        /\ UNCHANGED <<plan, tx_busy, tx, rx>>
    BY EndFacts
  <1>3. ~ tx_busy[b]
    BY <1>1, <1>2 DEF Mailboxes
  <1>4. Mailboxes'
    BY <1>1, <1>2, <1>3 DEF Mailboxes, SenderTypes, MailboxTypes
  <1>5. ASSUME NEW a \in Boards, NEW r \in Boards, a # r, Reads(r)
        PROVE  OneBurst(a, r)'
    <2>1. OneBurst(a, r)
      BY <1>5 DEF Listening, OneAtATime
    <2>2. CASE b = a
      <3>1. /\ step'[a] = "off" /\ job'[a] = NoFrame /\ sending'[a] = NoFrame
            /\ sending'[r] = sending[r] /\ step'[r] = step[r] /\ job'[r] = job[r]
        BY <1>1, <1>2, <1>3, <1>5, <2>2 DEF SenderTypes
      <3> QED
        BY <1>2, <2>1, <3>1 DEF OneBurst, Waiting
    <2>3. CASE b = r
      <3>1. /\ step'[r] = "off" /\ job'[r] = NoFrame /\ sending'[r] = NoFrame
            /\ sending'[a] = sending[a] /\ step'[a] = step[a] /\ job'[a] = job[a]
        BY <1>1, <1>2, <1>3, <1>5, <2>3 DEF SenderTypes
      <3>2. ~ Answering(r)'
        BY <1>2, <1>3, <2>3, <3>1 DEF Answering, Talking
      <3>3. ~ Waiting(r)' /\ (Waiting(a)' <=> Waiting(a)) /\ job'[r].kind # "data"
        BY <3>1, FrameFacts DEF Waiting
      <3> QED
        BY <1>2, <2>1, <3>1, <3>2, <3>3 DEF OneBurst
    <2> QED
      BY <1>5, <2>2, <2>3, PeerIs
  <1> QED
    BY <1>2, <1>4, <1>5 DEF OneAtATime, Reads

\* a chat that starts finds nothing on its way, and listens
LEMMA StartListens ==
  ASSUME Listening, NEW b \in Boards, Start(b)
  PROVE  Mailboxes' /\ OneAtATime'
  <1>1. SenderTypes /\ MailboxTypes /\ Mailboxes /\ Jobs /\ ~ plan.stalls
    BY DEF Listening, ChatTypes
  <1>2. /\ step[b] = "off" /\ step' = [step EXCEPT ![b] = "free"] /\ Quiet
        /\ rx' = [rx EXCEPT ![b] = NoFrame]
        /\ listening' = [listening EXCEPT ![b] = @ \/ ~ tx_busy[b]]
        /\ UNCHANGED <<plan, job, sending, tx_busy, tx>>
    BY <1>1 DEF Start
  <1>3. ~ tx_busy[b] /\ job[b] = NoFrame
    BY <1>1, <1>2 DEF Mailboxes, Jobs
  <1>4. Mailboxes'
    BY <1>1, <1>2, <1>3 DEF Mailboxes, SenderTypes, MailboxTypes
  <1>5. \A c \in Boards : ~ Answering(c)'
    <2> SUFFICES ASSUME NEW c \in Boards PROVE ~ Answering(c)'
      OBVIOUS
    <2>1. ~ tx_busy[c] /\ (step[c] = "off" \/ (step[c] = "free" /\ rx[c] = NoFrame))
      BY <1>2 DEF Quiet
    <2>2. step'[c] \in {"off", "free"} /\ (step'[c] = "free" => rx'[c] = NoFrame)
      BY <1>1, <1>2, <2>1 DEF SenderTypes, MailboxTypes
    <2> QED
      BY <1>2, <2>1, <2>2 DEF Answering, Talking
  <1>6. ASSUME NEW a \in Boards, NEW r \in Boards, a # r, Reads(r)
        PROVE  OneBurst(a, r)'
    <2>1. OneBurst(a, r)
      BY <1>6 DEF Listening, OneAtATime
    <2>2. /\ Waiting(a)' <=> Waiting(a)
          /\ Waiting(r)' <=> Waiting(r)
      BY <1>2 DEF Waiting
    <2>3. step'[a] = "free" => rx'[a] = NoFrame
      <3>1. step'[a] = "free" => step[a] \in {"free", "off"} /\ (a = b \/ step[a] = "free")
        BY <1>1, <1>2 DEF SenderTypes
      <3>2. step[a] = "free" => rx[a] = NoFrame
        BY <1>2 DEF Quiet
      <3> QED
        BY <1>1, <1>2, <3>1, <3>2 DEF MailboxTypes
    <2>4. step[r] \in {"free", "off"} => step'[r] \in {"free", "off"}
      BY <1>1, <1>2 DEF SenderTypes
    <2> QED
      BY <1>2, <1>5, <2>1, <2>2, <2>3, <2>4 DEF OneBurst
  <1> QED
    BY <1>2, <1>4, <1>6 DEF OneAtATime, Reads

\* at the start both boards listen and nothing is on its way
LEMMA InitListens == Init => ListenInv
  <1> SUFFICES ASSUME Init PROVE Mailboxes /\ OneAtATime
    BY DEF ListenInv
  <1>1. Mailboxes
    BY DEF Init, Mailboxes
  <1>2. OneAtATime
    BY FrameFacts DEF Init, OneAtATime, OneBurst, Waiting, Answering, Talking
  <1> QED
    BY <1>1, <1>2

\* every step
LEMMA StepListens ==
  ASSUME ChatTypes, ListenInv, NEW b \in Boards,
         \/ Sends(b) \/ Burst(b) \/ Polls(b) \/ TypeLine(b) \/ Repeat(b) \/ GiveUp(b)
         \/ Ends(b) \/ Start(b)
  PROVE  ListenInv'
  <1>1. plan' = plan
    BY DEF Sends, RxStop, TxStart, NotTaken, TakeOwn, RxListen, Burst, TxDone, Polls,
           PollPlain, PollData, PollAck, PollOther, TypeLine, Repeat, GiveUp,
           Ends, Quit, QuitBeforeFrame, EndChat, Start
  <1> SUFFICES ASSUME OneTypist, ~ plan.stalls PROVE Mailboxes' /\ OneAtATime'
    BY <1>1 DEF ListenInv, OneTypist
  <1>2. Listening
    BY DEF Listening, ListenInv
  <1>3. CASE Sends(b)
    BY <1>2, <1>3, SendListens, RxListenListens DEF Sends
  <1>4. CASE Burst(b)
    BY <1>2, <1>4, BurstListens DEF Burst
  <1>5. CASE Polls(b) \/ TypeLine(b) \/ Repeat(b) \/ GiveUp(b)
    BY <1>2, <1>5, PollListens, TypeLineListens, RepeatListens
  <1>6. CASE Ends(b) \/ Start(b)
    BY <1>2, <1>6, EndListens, StartListens
  <1> QED
    BY <1>3, <1>4, <1>5, <1>6

\* nothing moves
LEMMA StutterListens ==
  ASSUME ListenInv, UNCHANGED vars
  PROVE  ListenInv'
  BY DEF vars, chatVars, senderVars, mailboxVars, ListenInv, OneTypist, Mailboxes, OneAtATime,
     OneBurst, Reads, Waiting, Answering, Talking

(***************************************************************************)
(* Between two sends the board of a running chat listens, however many     *)
(* lines, fragments, tries and restarts there are and whatever is lost.    *)
(* It rests on one burst at a time: the user's board sends when no answer  *)
(* is on its way, and a board answers when the other has nothing to send.  *)
(***************************************************************************)
THEOREM AlwaysListening == Spec => []ListensBetweenSends
  <1>1. Init => ChatTypes /\ StartsLeft /\ ListenInv
    BY InitTyped, InitListens DEF Init, StartsLeft
  <1>2. ChatTypes /\ StartsLeft /\ ListenInv /\ [Next]_vars
          => (ChatTypes /\ StartsLeft /\ ListenInv)'
    BY StepTyped, StutterTyped, StepListens, StutterListens DEF Next
  <1>3. ListenInv => ListensBetweenSends
    BY DEF ListenInv, Mailboxes, ListensBetweenSends
  <1> QED
    BY <1>1, <1>2, <1>3, PTL DEF Spec

-----------------------------------------------------------------------------
(* The order in which data frames reach a reader.                          *)

\* the order of two frames is the order of their lines and fragments
LEMMA FrameOrder ==
  ASSUME NEW f \in DataFrames, NEW g \in DataFrames, NEW h \in DataFrames
  PROVE  /\ Leq(f, g) /\ Leq(g, f) => f = g
         /\ Leq(f, g) /\ Before(g, h) => Before(f, h)
         /\ ~ Before(f, f)
  <1>1. /\ f.line \in Nat /\ g.line \in Nat /\ h.line \in Nat
        /\ f.idx \in Nat /\ g.idx \in Nat /\ h.idx \in Nat
    BY FrameFacts, FieldTypes
  <1> QED
    BY <1>1 DEF Leq, Before

\* no data frame comes to a place on the way to r but from the place before it
Forward(a, r) ==
  \A f \in DataFrames :
    /\ Knows(r, f)' => Knows(r, f)
    /\ IsAnswered(r, f)' => IsAnswered(r, f) \/ IsArriving(r, f)
    /\ IsArriving(r, f)' => IsArriving(r, f) \/ IsOnAir(a, f)
    /\ IsOnAir(a, f)' => IsOnAir(a, f) \/ IsCurrent(a, f)
    /\ IsCurrent(a, f)' => IsCurrent(a, f)

\* frames that go forward one place stay in order
LEMMA ForwardInOrder ==
  ASSUME NEW a \in Boards, NEW r \in Boards, InOrder(a, r), Forward(a, r),
         typed'[a] = typed[a],
         \/ last_rx_seq'[r] = last_rx_seq[r]
         \/ \A f \in DataFrames : ~ Knows(r, f)'
  PROVE  InOrder(a, r)'
  <1>1. \A f, g \in DataFrames :
          /\ IsArriving(r, f) /\ IsArriving(r, g) => f = g
          /\ IsOnAir(a, f) /\ IsOnAir(a, g) => f = g
          /\ IsCurrent(a, f) /\ IsCurrent(a, g) => f = g
    BY DEF IsArriving, IsOnAir, IsCurrent
  <1>2. \A f \in DataFrames : Ahead(a, r, f)' => Ahead(a, r, f)
    BY DEF Forward, Ahead, Sent
  <1>3. ASSUME NEW f \in DataFrames, NEW g \in DataFrames
        PROVE  /\ Knows(r, f)' /\ Ahead(a, r, g)' => Leq(f, g)
               /\ IsAnswered(r, f)' /\ (IsArriving(r, g)' \/ Sent(a, g)') => Leq(f, g)
               /\ IsArriving(r, f)' /\ Sent(a, g)' => Leq(f, g)
               /\ IsOnAir(a, f)' /\ IsCurrent(a, g)' => Leq(f, g)
    BY <1>1, <1>2, <1>3 DEF Forward, InOrder, Sent, Leq
  <1>4. ASSUME NEW f \in DataFrames
        PROVE  /\ Knows(r, f)' \/ Ahead(a, r, f)' => f.line <= typed'[a]
               /\ Knows(r, f)' /\ Ahead(a, r, f)' => last_rx_seq'[r] = f.seq
    BY <1>2, <1>4 DEF Forward, InOrder
  <1> QED
    BY <1>3, <1>4 DEF InOrder

\* what r knows depends on its screen and its reassembly only
LEMMA KnowsStays ==
  ASSUME NEW r \in Boards, reassembly'[r] = reassembly[r], printed'[r] = printed[r],
         starts'[r] = starts[r]
  PROVE  \A f \in DataFrames : Knows(r, f)' <=> Knows(r, f)
  BY DEF Knows

\* steps of send_frame but its end
LEMMA SendInOrder ==
  ASSUME ChatTypes, NEW b \in Boards, NEW a \in Boards, Order(a),
         RxStop(b) \/ TxStart(b) \/ NotTaken(b) \/ TakeOwn(b)
  PROVE  Order(a)'
  <1>1. UNCHANGED <<starts, job, typed, sending, last_rx_seq, reassembly, printed>>
    BY DEF RxStop, TxStart, NotTaken, TakeOwn, senderVars, readerVars, screen
  <1>2. /\ \/ UNCHANGED <<tx, tx_busy>>
           \/ /\ tx_busy' = [tx_busy EXCEPT ![b] = TRUE]
              /\ tx' = IF tx_busy[b] THEN tx ELSE [tx EXCEPT ![b] = job[b]]
        /\ rx' = rx \/ rx' = [rx EXCEPT ![b] = NoFrame]
    BY DEF RxStop, TxStart, NotTaken, TakeOwn
  <1>3. SenderTypes /\ MailboxTypes /\ Peer(a) \in Boards /\ Peer(a) # a
    BY PeerIs DEF ChatTypes
  <1>4. Sender(a)'
    BY <1>1, <1>2, <1>3 DEF Order, Sender, Waiting, MailboxTypes
  <1>5. ASSUME NEW r \in Boards PROVE InOrder(a, r)'
    <2>1. InOrder(a, r)
      BY DEF Order
    <2>2. \A f \in DataFrames : Knows(r, f)' <=> Knows(r, f)
      BY <1>1, KnowsStays
    <2>3. \A f \in DataFrames : IsArriving(r, f)' => IsArriving(r, f)
      BY <1>2, <1>3, FrameFacts DEF IsArriving, MailboxTypes
    <2>4. \A f \in DataFrames : /\ IsAnswered(r, f)' <=> IsAnswered(r, f)
                                /\ IsCurrent(a, f)' <=> IsCurrent(a, f)
      BY <1>1 DEF IsAnswered, Acknowledged, IsCurrent, Waiting
    <2>5. ASSUME NEW f \in DataFrames, IsOnAir(a, f)'
          PROVE  IsOnAir(a, f) \/ IsCurrent(a, f)
      <3>1. tx'[a] = tx[a] /\ tx_busy'[a] = tx_busy[a] => IsOnAir(a, f)
        BY <2>5 DEF IsOnAir
      <3>2. ~ (tx'[a] = tx[a] /\ tx_busy'[a] = tx_busy[a])
              => a = b /\ (tx'[a] = job[a] \/ (tx_busy[a] /\ tx'[a] = tx[a]))
        BY <1>2, <1>3 DEF MailboxTypes
      <3>3. tx'[a] = job[a] => job[a].kind = "data" /\ f = job[a]
        BY <2>5 DEF IsOnAir
      <3>4. job[a].kind = "data" => job[a] = sending[a]
        BY DEF Order, Sender
      <3>5. f # NoFrame
        BY FrameFacts
      <3> QED
        BY <2>5, <3>1, <3>2, <3>3, <3>4, <3>5 DEF IsOnAir, IsCurrent, Waiting
    <2> QED
      BY <1>1, <2>1, <2>2, <2>3, <2>4, <2>5, ForwardInOrder DEF Forward
  <1> QED
    BY <1>4, <1>5 DEF Order

\* the end of a burst
LEMMA BurstInOrder ==
  ASSUME ChatTypes, NEW b \in Boards, NEW a \in Boards, Order(a),
         NEW reaches \in BOOLEAN, NEW heard \in BOOLEAN, TxDone(b, reaches, heard)
  PROVE  Order(a)'
  <1>1. UNCHANGED <<starts, job, typed, sending, last_rx_seq, reassembly, printed, tx>>
    BY DEF TxDone, chatVars, senderVars, readerVars, screen
  <1>2. /\ tx_busy[b] /\ tx_busy' = [tx_busy EXCEPT ![b] = FALSE]
        /\ \A r \in Boards : rx'[r] \in {rx[r], BadFrame, tx[b]}
    <2>1. /\ tx_busy[b] /\ tx_busy' = [tx_busy EXCEPT ![b] = FALSE]
          /\ rx' = [rx EXCEPT ![b] = Delivered(b, IF heard THEN tx[b] ELSE BadFrame),
                              ![Peer(b)] = IF reaches THEN Delivered(Peer(b), tx[b]) ELSE @]
      BY DEF TxDone
    <2>2. rx \in [Boards -> AnyFrames \cup {NoFrame, BadFrame}] /\ Peer(b) \in Boards
      BY PeerIs DEF ChatTypes, MailboxTypes
    <2> QED
      BY <2>1, <2>2 DEF Delivered
  <1>3. SenderTypes /\ MailboxTypes /\ Peer(a) \in Boards /\ Peer(a) # a
    BY PeerIs DEF ChatTypes
  <1>4. Sender(a)'
    BY <1>1, <1>2, <1>3 DEF Order, Sender, Waiting, MailboxTypes
  <1>5. ASSUME NEW r \in Boards PROVE InOrder(a, r)'
    <2>1. InOrder(a, r)
      BY DEF Order
    <2>2. \A f \in DataFrames : Knows(r, f)' <=> Knows(r, f)
      BY <1>1, KnowsStays
    <2>3. ASSUME NEW f \in DataFrames, IsArriving(r, f)'
          PROVE  IsArriving(r, f) \/ IsOnAir(a, f)
      <3>1. CASE rx'[r] = rx[r]
        BY <2>3, <3>1 DEF IsArriving
      <3>2. CASE rx'[r] = BadFrame
        BY <2>3, <3>2, FrameFacts DEF IsArriving
      <3>3. CASE rx'[r] = tx[b]
        <4>1. f = tx[b] /\ tx[b].kind = "data"
          BY <2>3, <3>3 DEF IsArriving
        <4>2. b = a
          BY <1>2, <1>3, <4>1, PeerIs DEF Order, Sender
        <4> QED
          BY <1>2, <4>1, <4>2 DEF IsOnAir
      <3> QED
        BY <1>2, <3>1, <3>2, <3>3
    <2>4. \A f \in DataFrames : /\ IsAnswered(r, f)' <=> IsAnswered(r, f)
                                /\ IsCurrent(a, f)' <=> IsCurrent(a, f)
      BY <1>1 DEF IsAnswered, Acknowledged, IsCurrent, Waiting
    <2>5. \A f \in DataFrames : IsOnAir(a, f)' => IsOnAir(a, f)
      BY <1>1, <1>2, <1>3 DEF IsOnAir, MailboxTypes
    <2> QED
      BY <1>1, <2>1, <2>2, <2>3, <2>4, <2>5, ForwardInOrder DEF Forward
  <1> QED
    BY <1>4, <1>5 DEF Order

\* a taken frame is known from then on, and it is not known twice
LEMMA AcceptKnows ==
  ASSUME ChatTypes, NEW b \in Boards, NEW f \in DataFrames, Accept(b, f), starts' = starts
  PROVE  /\ \A g \in DataFrames : Knows(b, g)' => Knows(b, g) \/ g = f
         /\ f.seq = last_rx_seq[b] => \A g \in DataFrames : Knows(b, g)' => Knows(b, g)
         /\ last_rx_seq'[b] = f.seq
         /\ \A c \in Boards : c # b => /\ last_rx_seq'[c] = last_rx_seq[c]
                                       /\ reassembly'[c] = reassembly[c]
                                       /\ printed'[c] = printed[c]
  <1>1. ReaderTypes
    BY DEF ChatTypes
  <1>2. CASE f.seq = last_rx_seq[b]
    <2>1. UNCHANGED <<last_rx_seq, reassembly, printed>>
      BY <1>2 DEF Accept, readerVars
    <2> QED
      BY <1>2, <2>1, KnowsStays
  <1>3. CASE f.seq # last_rx_seq[b]
    <2>1. /\ last_rx_seq' = [last_rx_seq EXCEPT ![b] = f.seq]
          /\ reassembly' = [reassembly EXCEPT ![b] = Use(b, f).left]
          /\ Show(b, Use(b, f).shows)
      BY <1>3 DEF Accept
    <2>2. /\ reassembly'[b].parts \subseteq reassembly[b].parts \cup {f}
          /\ Use(b, f).shows \subseteq reassembly[b].parts \cup {f}
      BY <1>1, <2>1, UseTyped DEF ReaderTypes
    <2>3. /\ \/ printed'[b] = printed[b]
             \/ printed'[b] = Append(printed[b], [start |-> starts[b],
                                                  parts |-> Use(b, f).shows])
          /\ \A c \in Boards : c # b => printed'[c] = printed[c]
      BY <1>1, <2>1 DEF Show, ReaderTypes
    <2>4. ASSUME NEW g \in DataFrames, Knows(b, g)' PROVE Knows(b, g) \/ g = f
      <3>1. CASE g \in reassembly'[b].parts
        BY <2>2, <3>1 DEF Knows
      <3>2. ASSUME NEW i \in 1..Len(printed'[b]), g \in printed'[b][i].parts,
                   printed'[b][i].start = starts[b]
            PROVE  Knows(b, g) \/ g = f
        <4>1. printed[b] \in Seq([start : Nat, parts : SUBSET DataFrames])
          BY <1>1 DEF ReaderTypes
        <4>2. CASE i \in 1..Len(printed[b]) /\ printed'[b][i] = printed[b][i]
          BY <3>2, <4>2 DEF Knows
        <4>3. CASE printed'[b][i] = [start |-> starts[b], parts |-> Use(b, f).shows]
          BY <2>2, <3>2, <4>3 DEF Knows
        <4> QED
          BY <2>3, <3>2, <4>1, <4>2, <4>3
      <3> QED
        BY <2>4, <3>1, <3>2 DEF Knows
    <2>5. /\ last_rx_seq'[b] = f.seq
          /\ \A c \in Boards : c # b => /\ last_rx_seq'[c] = last_rx_seq[c]
                                        /\ reassembly'[c] = reassembly[c]
      BY <1>1, <2>1 DEF ReaderTypes
    <2> QED
      BY <1>3, <2>3, <2>4, <2>5
  <1> QED
    BY <1>2, <1>3

\* the end of send_frame, and of handle_frame when it was an answer
LEMMA RxListenInOrder ==
  ASSUME ChatTypes, NEW b \in Boards, NEW a \in Boards, Order(a), RxListen(b)
  PROVE  Order(a)'
  <1>1. /\ UNCHANGED <<starts, typed, sending, tx_busy, tx, rx>>
        /\ job' = [job EXCEPT ![b] = NoFrame]
    BY DEF RxListen, senderVars, reports
  <1>2. SenderTypes /\ Peer(a) \in Boards
    BY PeerIs DEF ChatTypes
  <1>3. Sender(a)'
    BY <1>1, <1>2, FrameFacts DEF Order, Sender, Waiting, SenderTypes
  <1>4. \A r \in Boards : \A f \in DataFrames :
          /\ IsAnswered(r, f)' => IsAnswered(r, f) /\ r # b
          /\ IsArriving(r, f)' <=> IsArriving(r, f)
          /\ IsOnAir(a, f)' <=> IsOnAir(a, f)
          /\ IsCurrent(a, f)' <=> IsCurrent(a, f)
    BY <1>1, <1>2, FrameFacts
    DEF IsAnswered, IsArriving, IsOnAir, IsCurrent, Waiting, Acknowledged, SenderTypes
  <1>5. ASSUME NEW r \in Boards PROVE InOrder(a, r)'
    <2>1. InOrder(a, r)
      BY DEF Order
    <2>2. CASE job[b].kind # "ack" \/ r # b
      <3>1. /\ reassembly'[r] = reassembly[r] /\ printed'[r] = printed[r]
            /\ last_rx_seq'[r] = last_rx_seq[r] /\ starts'[r] = starts[r]
        <4>1. CASE job[b].kind # "ack"
          BY <1>1, <4>1 DEF RxListen, readerVars
        <4>2. CASE job[b].kind = "ack" /\ r # b
          BY <1>1, <4>2, AcknowledgedTyped, AcceptKnows DEF RxListen
        <4> QED
          BY <2>2, <4>1, <4>2
      <3>2. Forward(a, r)
        BY <1>4, <3>1, KnowsStays DEF Forward
      <3> QED
        BY <1>1, <2>1, <3>1, <3>2, ForwardInOrder
    <2>3. CASE job[b].kind = "ack" /\ r = b
      <3> DEFINE h == Acknowledged(b)
      <3>1. h \in DataFrames /\ Accept(b, h) /\ IsAnswered(r, h)
        BY <2>3, AcknowledgedTyped DEF RxListen, IsAnswered
      <3>2. /\ \A g \in DataFrames : Knows(r, g)' => Knows(r, g) \/ g = h
            /\ last_rx_seq'[r] = h.seq
        BY <1>1, <2>3, <3>1, AcceptKnows
      <3> HIDE DEF h
      <3>3. \A g \in DataFrames : IsArriving(r, g) \/ Sent(a, g) => Leq(h, g)
        BY <2>1, <3>1 DEF InOrder
      <3>4. \A g \in DataFrames : Knows(r, g) => Leq(g, h) /\ g.line <= typed[a]
        BY <2>1, <3>1 DEF InOrder, Ahead
      <3>5. h.line <= typed[a]
        BY <2>1, <3>1 DEF InOrder, Ahead
      <3>6. \A g \in DataFrames : /\ Sent(a, g)' <=> Sent(a, g)
                                  /\ Ahead(a, r, g)' => IsArriving(r, g) \/ Sent(a, g)
        BY <1>4, <2>3 DEF Sent, Ahead
      <3>7. ASSUME NEW f \in DataFrames, NEW g \in DataFrames
            PROVE  /\ Knows(r, f)' /\ Ahead(a, r, g)' => Leq(f, g)
                   /\ IsAnswered(r, f)' /\ (IsArriving(r, g)' \/ Sent(a, g)') => Leq(f, g)
                   /\ IsArriving(r, f)' /\ Sent(a, g)' => Leq(f, g)
                   /\ IsOnAir(a, f)' /\ IsCurrent(a, g)' => Leq(f, g)
        <4>1. Knows(r, f)' /\ Ahead(a, r, g)' => Leq(f, g)
          BY <2>1, <3>2, <3>3, <3>6 DEF InOrder, Ahead
        <4>2. IsAnswered(r, f)' => FALSE
          BY <1>4, <2>3
        <4>3. /\ IsArriving(r, f)' /\ Sent(a, g)' => Leq(f, g)
              /\ IsOnAir(a, f)' /\ IsCurrent(a, g)' => Leq(f, g)
          BY <1>4, <2>1, <3>6 DEF InOrder
        <4> QED
          BY <4>1, <4>2, <4>3
      <3>8. ASSUME NEW f \in DataFrames
            PROVE  /\ Knows(r, f)' \/ Ahead(a, r, f)' => f.line <= typed'[a]
                   /\ Knows(r, f)' /\ Ahead(a, r, f)' => last_rx_seq'[r] = f.seq
        <4>1. Knows(r, f)' \/ Ahead(a, r, f)' => f.line <= typed'[a]
          BY <1>1, <2>1, <3>2, <3>4, <3>5, <3>6 DEF InOrder, Ahead
        <4>2. Knows(r, f)' /\ Ahead(a, r, f)' => f = h
          BY <3>1, <3>2, <3>3, <3>4, <3>6, FrameOrder
        <4> QED
          BY <3>2, <4>1, <4>2
      <3> QED
        BY <3>7, <3>8 DEF InOrder
    <2> QED
      BY <2>2, <2>3
  <1> QED
    BY <1>3, <1>5 DEF Order

\* steps that take nothing new towards r and leave the mailboxes' bursts alone
LEMMA IdleInOrder ==
  ASSUME ChatTypes, NEW b \in Boards, NEW a \in Boards, Order(a),
         UNCHANGED <<starts, typed, last_rx_seq, reassembly, printed, tx_busy, tx>>,
         rx' = rx \/ rx' = [rx EXCEPT ![b] = NoFrame],
         sending' = sending \/ sending' = [sending EXCEPT ![b] = NoFrame],
         \/ job' = job
         \/ /\ job' = [job EXCEPT ![b] = sending[b]]
            /\ sending' = sending /\ Waiting(b) /\ b = a
         \/ /\ job' = [job EXCEPT ![b] = AckOf(rx[b])]
            /\ rx[b].kind = "data" /\ sending' = sending,
         job[b] = NoFrame
  PROVE  Order(a)'
  <1>1. SenderTypes /\ MailboxTypes /\ Peer(a) \in Boards /\ Peer(a) # a
    BY PeerIs DEF ChatTypes
  <1>2. rx[b] \in AnyFrames \cup {NoFrame, BadFrame}
    BY <1>1 DEF MailboxTypes
  <1>3. rx[b].kind = "data" => rx[b] \in DataFrames
    BY <1>2, FrameFacts
  <1>4. rx[b].kind = "data" => AckOf(rx[b]).kind = "ack"
    BY <1>3, FrameFacts
  <1>5. Waiting(b) => sending[b] \in DataFrames /\ sending[b].kind = "data"
    BY <1>1, FrameFacts DEF Waiting, SenderTypes
  <1>6. /\ job'[a] = job[a] \/ job'[a] = sending'[a] \/ job'[a].kind = "ack"
        /\ job'[Peer(a)] = job[Peer(a)] \/ job'[Peer(a)].kind = "ack"
        /\ sending'[a] = sending[a] \/ (b = a /\ job'[a] = job[a])
        /\ sending'[Peer(a)] \in {sending[Peer(a)], NoFrame}
    BY <1>1, <1>4 DEF SenderTypes
  <1>7. Sender(a)'
    BY <1>1, <1>6, FrameFacts DEF Order, Sender, Waiting
  <1>8. ASSUME NEW r \in Boards PROVE InOrder(a, r)'
    <2>1. InOrder(a, r)
      BY DEF Order
    <2>2. \A f \in DataFrames : Knows(r, f)' <=> Knows(r, f)
      BY KnowsStays
    <2>3. \A f \in DataFrames : IsArriving(r, f)' => IsArriving(r, f)
      BY <1>1, FrameFacts DEF IsArriving, MailboxTypes
    <2>4. \A f \in DataFrames : IsOnAir(a, f)' <=> IsOnAir(a, f)
      BY DEF IsOnAir
    <2>5. \A f \in DataFrames : IsCurrent(a, f)' => IsCurrent(a, f)
      BY <1>1, FrameFacts DEF IsCurrent, Waiting, SenderTypes
    <2>6. ASSUME NEW f \in DataFrames, IsAnswered(r, f)'
          PROVE  IsAnswered(r, f) \/ IsArriving(r, f)
      <3>1. CASE job'[r] = job[r]
        BY <2>6, <3>1 DEF IsAnswered, Acknowledged
      <3>2. CASE job'[r] # job[r]
        <4>1. r = b
          BY <1>1, <3>2 DEF SenderTypes
        <4>2. job'[r].kind = "ack"
          BY <2>6 DEF IsAnswered
        <4>3. job'[r] = AckOf(rx[r]) /\ rx[r].kind = "data"
          BY <1>1, <1>5, <3>2, <4>1, <4>2 DEF SenderTypes
        <4>4. f = [AckOf(rx[r]) EXCEPT !.kind = "data"]
          BY <2>6, <4>3 DEF IsAnswered, Acknowledged
        <4>5. f = rx[r]
          BY <1>3, <4>1, <4>3, <4>4, FrameFacts
        <4> QED
          BY <4>3, <4>5 DEF IsArriving
      <3> QED
        BY <3>1, <3>2
    <2> QED
      BY <2>1, <2>2, <2>3, <2>4, <2>5, <2>6, ForwardInOrder DEF Forward
  <1> QED
    BY <1>7, <1>8 DEF Order

\* a frame after all those on their way is sent
LEMMA NewFrameInOrder ==
  ASSUME ChatTypes, NEW a \in Boards, Order(a), NEW n \in DataFrames, job[a] = NoFrame,
         UNCHANGED <<starts, last_rx_seq, reassembly, printed, tx_busy, tx>>,
         rx' = rx \/ rx' = [rx EXCEPT ![a] = NoFrame],
         sending' = [sending EXCEPT ![a] = n], job' = [job EXCEPT ![a] = n],
         n.line = typed'[a], typed'[a] \in Nat, typed[a] <= typed'[a],
         \A r \in Boards : \A f \in DataFrames :
           Knows(r, f) \/ Ahead(a, r, f) => Before(f, n)
  PROVE  Order(a)'
  <1>1. SenderTypes /\ MailboxTypes /\ Peer(a) \in Boards /\ Peer(a) # a
    BY PeerIs DEF ChatTypes
  <1>2. /\ sending'[a] = n /\ job'[a] = n /\ n.kind = "data"
        /\ sending'[Peer(a)] = sending[Peer(a)] /\ job'[Peer(a)] = job[Peer(a)]
    BY <1>1, FrameFacts DEF SenderTypes
  <1>3. Sender(a)'
    BY <1>2 DEF Order, Sender, Waiting
  <1>4. ASSUME NEW r \in Boards PROVE InOrder(a, r)'
    <2>1. InOrder(a, r)
      BY DEF Order
    <2>2. \A f \in DataFrames :
            /\ Knows(r, f)' <=> Knows(r, f)
            /\ IsArriving(r, f)' => IsArriving(r, f)
            /\ IsOnAir(a, f)' <=> IsOnAir(a, f)
            /\ IsCurrent(a, f)' => f = n
            /\ IsAnswered(r, f)' => IsAnswered(r, f)
      <3>1. \A f \in DataFrames : Knows(r, f)' <=> Knows(r, f)
        BY KnowsStays
      <3>2. \A f \in DataFrames : /\ IsArriving(r, f)' => IsArriving(r, f)
                                  /\ IsOnAir(a, f)' <=> IsOnAir(a, f)
                                  /\ IsCurrent(a, f)' => f = n
        BY <1>1, <1>2, FrameFacts DEF IsArriving, IsOnAir, IsCurrent, MailboxTypes
      <3>3. r = a \/ job'[r] = job[r]
        BY <1>1 DEF SenderTypes
      <3>4. \A f \in DataFrames : IsAnswered(r, f)' => IsAnswered(r, f)
        BY <1>2, <3>3 DEF IsAnswered, Acknowledged
      <3> QED
        BY <3>1, <3>2, <3>4
    <2>3. \A f \in DataFrames : Ahead(a, r, f)' => Ahead(a, r, f) \/ f = n
      BY <2>2 DEF Ahead, Sent
    <2>4. /\ \A f \in DataFrames : Knows(r, f) \/ Ahead(a, r, f) => Leq(f, n)
          /\ ~ Knows(r, n) /\ Leq(n, n) /\ ~ Ahead(a, r, n)
      BY FrameOrder DEF Leq
    <2>5. ASSUME NEW f \in DataFrames, NEW g \in DataFrames
          PROVE  /\ Knows(r, f)' /\ Ahead(a, r, g)' => Leq(f, g)
                 /\ IsAnswered(r, f)' /\ (IsArriving(r, g)' \/ Sent(a, g)') => Leq(f, g)
                 /\ IsArriving(r, f)' /\ Sent(a, g)' => Leq(f, g)
                 /\ IsOnAir(a, f)' /\ IsCurrent(a, g)' => Leq(f, g)
      <3>1. Knows(r, f)' /\ Ahead(a, r, g)' => Leq(f, g)
        BY <2>1, <2>2, <2>3, <2>4 DEF InOrder
      <3>2. IsAnswered(r, f)' /\ (IsArriving(r, g)' \/ Sent(a, g)') => Leq(f, g)
        BY <2>1, <2>2, <2>4 DEF InOrder, Sent, Ahead
      <3>3. IsArriving(r, f)' /\ Sent(a, g)' => Leq(f, g)
        BY <2>1, <2>2, <2>4 DEF InOrder, Sent, Ahead
      <3>4. IsOnAir(a, f)' /\ IsCurrent(a, g)' => Leq(f, g)
        BY <2>2, <2>4 DEF Sent, Ahead
      <3> QED
        BY <3>1, <3>2, <3>3, <3>4
    <2>6. ASSUME NEW f \in DataFrames
          PROVE  /\ Knows(r, f)' \/ Ahead(a, r, f)' => f.line <= typed'[a]
                 /\ Knows(r, f)' /\ Ahead(a, r, f)' => last_rx_seq'[r] = f.seq
      <3>1. f.line \in Nat /\ typed[a] \in Nat
        BY <1>1, FrameFacts, FieldTypes DEF SenderTypes
      <3>2. Knows(r, f) \/ Ahead(a, r, f) => f.line <= typed[a]
        BY <2>1 DEF InOrder
      <3>3. Knows(r, f)' \/ Ahead(a, r, f)' => f.line <= typed'[a]
        BY <2>2, <2>3, <3>1, <3>2
      <3>4. Knows(r, f)' /\ Ahead(a, r, f)' => last_rx_seq'[r] = f.seq
        BY <2>1, <2>2, <2>3, <2>4 DEF InOrder
      <3> QED
        BY <3>3, <3>4
    <2> QED
      BY <2>5, <2>6 DEF InOrder
  <1> QED
    BY <1>3, <1>4 DEF Order

\* who polls, types, waits or is ended is not in send_frame
LEMMA NoJob ==
  ASSUME ChatTypes, NEW b \in Boards, step[b] \in {"free", "off"}
  PROVE  job[b] = NoFrame
  BY DEF ChatTypes, Jobs

\* poll_rx
LEMMA PollInOrder ==
  ASSUME ChatTypes, plan.arq, NEW b \in Boards, NEW a \in Boards, Order(a), Polls(b)
  PROVE  Order(a)'
  <1>1. job[b] = NoFrame
    BY NoJob DEF Polls, PollPlain, PollData, PollAck, PollOther, TakeRx
  <1>2. CASE PollData(b) \/ PollOther(b)
    BY <1>1, <1>2, IdleInOrder
    DEF PollData, PollOther, TakeRx, SendFrame, chatVars, senderVars, readerVars, screen
  <1>3. CASE PollAck(b) /\ LastFrame(b)
    BY <1>1, <1>3, IdleInOrder DEF PollAck, TakeRx, Report, readerVars
  <1>4. CASE PollAck(b) /\ ~ LastFrame(b)
    <2> DEFINE cur == sending[b]
               n   == DataFrame(b, typed[b], cur.idx + 1, cur.id)
    <2>1. /\ Waiting(b) /\ rx' = [rx EXCEPT ![b] = NoFrame]
          /\ sending' = [sending EXCEPT ![b] = n] /\ job' = [job EXCEPT ![b] = n]
          /\ UNCHANGED <<starts, typed, last_rx_seq, reassembly, printed, tx_busy, tx>>
          /\ cur.idx + 1 # cur.count
      BY <1>4
      DEF PollAck, TakeRx, Acknowledges, ArqSend, SendFrame, LastFrame, readerVars
    <2>2. cur \in DataFrames
      BY <2>1 DEF ChatTypes, SenderTypes, Waiting
    <2>3. /\ typed[b] \in 1..Len(plan.lines[b]) /\ cur.line = typed[b]
          /\ cur.count = plan.lines[b][typed[b]]
      <3>1. /\ typed[b] # 0 /\ cur.line = typed[b] /\ cur.count = plan.lines[b][typed[b]]
            /\ typed[b] <= Len(plan.lines[b])
        BY <2>1 DEF ChatTypes, Lines
      <3>2. typed[b] \in Nat /\ Len(plan.lines[b]) \in Nat
        BY PlanFacts DEF ChatTypes, SenderTypes
      <3> QED
        BY <3>1, <3>2
    <2>4. /\ cur.idx \in Nat /\ cur.count \in Nat /\ cur.id \in MessageIds
          /\ cur.idx + 1 \in Nat /\ cur.idx + 1 < cur.count
      BY <2>1, <2>2, FrameFacts, FieldTypes
    <2>5. n \in DataFrames /\ n.line = typed[b] /\ n.idx = cur.idx + 1
      BY <2>3, <2>4, DataFrameTyped
    <2> HIDE DEF n
    <2>6. b = a
      BY <2>1, PeerIs DEF Order, Sender
    <2>7. ASSUME NEW r \in Boards, NEW f \in DataFrames, Knows(r, f) \/ Ahead(a, r, f)
          PROVE  Before(f, n)
      <3>1. IsCurrent(a, cur) /\ Before(cur, n)
        BY <2>1, <2>3, <2>4, <2>5, <2>6 DEF IsCurrent, Before
      <3>2. Leq(f, cur)
        <4>1. InOrder(a, r)
          BY DEF Order
        <4>2. IsCurrent(a, f) => f = cur
          BY <2>6 DEF IsCurrent
        <4> QED
          BY <2>2, <2>7, <3>1, <4>1, <4>2 DEF InOrder, Ahead, Sent, Leq
      <3> QED
        BY <2>2, <2>5, <3>1, <3>2, FrameOrder
    <2>8. typed[a] \in Nat /\ typed'[a] = typed[a]
      BY <2>1 DEF ChatTypes, SenderTypes
    <2>9. /\ job[a] = NoFrame /\ sending' = [sending EXCEPT ![a] = n]
          /\ job' = [job EXCEPT ![a] = n] /\ rx' = [rx EXCEPT ![a] = NoFrame]
          /\ n.line = typed'[a] /\ typed'[a] \in Nat /\ typed[a] <= typed'[a]
          /\ UNCHANGED <<starts, last_rx_seq, reassembly, printed, tx_busy, tx>>
      BY <1>1, <2>1, <2>5, <2>6, <2>8
    <2> HIDE DEF cur
    <2> QED
      BY <2>5, <2>7, <2>9, NewFrameInOrder
  <1>5. ~ PollPlain(b)
    BY DEF PollPlain
  <1> QED
    BY <1>2, <1>3, <1>4, <1>5 DEF Polls

\* a line is typed
LEMMA TypeLineInOrder ==
  ASSUME ChatTypes, plan.arq, NEW b \in Boards, NEW a \in Boards, Reads(Peer(a)), Order(a),
         TypeLine(b)
  PROVE  Order(a)'
  <1>1. job[b] = NoFrame
    BY NoJob DEF TypeLine
  <1> DEFINE m  == typed[b] + 1
             id == IF plan.lines[b][m] > 1 THEN msg_id[b] % IdModulus ELSE 0
             n  == DataFrame(b, m, 0, id)
  <1>2. /\ typed[b] < Len(plan.lines[b]) /\ typed' = [typed EXCEPT ![b] = m]
        /\ sending' = [sending EXCEPT ![b] = n] /\ job' = [job EXCEPT ![b] = n]
        /\ UNCHANGED <<starts, last_rx_seq, reassembly, printed, tx_busy, tx, rx>>
    BY DEF TypeLine, ArqSend, SendFrame, readerVars, mailboxVars
  <1>3. typed[b] \in Nat /\ m \in 1..Len(plan.lines[b]) /\ typed'[b] = m
    <2>1. Len(plan.lines[b]) \in Nat
      BY PlanFacts DEF ChatTypes
    <2>2. typed \in [Boards -> Nat]
      BY DEF ChatTypes, SenderTypes
    <2> QED
      BY <1>2, <2>1, <2>2
  <1>4. b = a
    <2>1. Reads(b) => Len(plan.lines[b]) = 0
      BY DEF Reads
    <2>2. ~ Reads(b)
      BY <1>3, <2>1
    <2> QED
      BY <2>2, PeerIs
  <1>5. id \in MessageIds /\ plan.lines[b][m] \in 1..16
    <2>1. plan.lines[b] \in Seq(1..16)
      BY PlanFacts DEF ChatTypes
    <2>2. msg_id[b] % IdModulus \in MessageIds /\ 0 \in MessageIds
      BY Moduli DEF ChatTypes, SenderTypes
    <2>3. id \in MessageIds
      BY <2>2
    <2> HIDE DEF m, id
    <2>4. plan.lines[b][m] \in 1..16
      BY <1>3, <2>1
    <2> QED
      BY <2>3, <2>4
  <1> HIDE DEF id
  <1>6. n \in DataFrames /\ n.line = m
    <2> HIDE DEF m
    <2>1. 0 < plan.lines[b][m]
      BY <1>5
    <2> QED
      BY <1>3, <1>5, <2>1, DataFrameTyped
  <1> HIDE DEF n
  <1>7. ASSUME NEW r \in Boards, NEW f \in DataFrames, Knows(r, f) \/ Ahead(a, r, f)
        PROVE  Before(f, n)
    <2>1. f.line <= typed[a]
      BY <1>7 DEF Order, InOrder
    <2>2. f.line \in Nat
      BY FrameFacts, FieldTypes
    <2> QED
      BY <1>3, <1>4, <1>6, <2>1, <2>2 DEF Before
  <1>8. /\ job[a] = NoFrame /\ sending' = [sending EXCEPT ![a] = n]
        /\ job' = [job EXCEPT ![a] = n] /\ rx' = rx
        /\ n.line = typed'[a] /\ typed'[a] \in Nat /\ typed[a] <= typed'[a]
        /\ UNCHANGED <<starts, last_rx_seq, reassembly, printed, tx_busy, tx>>
    BY <1>1, <1>2, <1>3, <1>4, <1>6
  <1> HIDE DEF m
  <1> QED
    BY <1>6, <1>7, <1>8, NewFrameInOrder

\* the wait ends: the frame is repeated, or given up
LEMMA WaitEndsInOrder ==
  ASSUME ChatTypes, NEW b \in Boards, NEW a \in Boards, Order(a), Repeat(b) \/ GiveUp(b)
  PROVE  Order(a)'
  <1>1. job[b] = NoFrame /\ Waiting(b)
    BY NoJob DEF Repeat, GiveUp, WaitEnds
  <1>2. b = a
    BY <1>1, PeerIs DEF Order, Sender
  <1> QED
    BY <1>1, <1>2, IdleInOrder
    DEF Repeat, GiveUp, SendFrame, Report, readerVars, mailboxVars, screen

\* a chat is ended
LEMMA EndInOrder ==
  ASSUME ChatTypes, NEW b \in Boards, NEW a \in Boards, Order(a), Ends(b)
  PROVE  Order(a)'
  <1>1. /\ sending' = [sending EXCEPT ![b] = NoFrame]
        /\ job' = [job EXCEPT ![b] = NoFrame]
        /\ UNCHANGED <<starts, typed, last_rx_seq, reassembly, tx_busy, tx, rx, printed>>
    BY EndFacts
  <1>2. SenderTypes /\ Peer(a) \in Boards /\ Peer(a) # a
    BY PeerIs DEF ChatTypes
  <1>3. Sender(a)'
    <2>1. \A c \in Boards : /\ job'[c] = IF c = b THEN NoFrame ELSE job[c]
                            /\ sending'[c] = IF c = b THEN NoFrame ELSE sending[c]
      BY <1>1, <1>2 DEF SenderTypes
    <2> QED
      BY <1>1, <1>2, <2>1, FrameFacts DEF Order, Sender, Waiting
  <1>4. ASSUME NEW r \in Boards PROVE InOrder(a, r)'
    <2>1. InOrder(a, r)
      BY DEF Order
    <2>2. \A f \in DataFrames : Knows(r, f)' <=> Knows(r, f)
      BY <1>1, KnowsStays
    <2>3. \A f \in DataFrames : IsArriving(r, f)' <=> IsArriving(r, f)
      BY <1>1 DEF IsArriving
    <2>7. \A f \in DataFrames : IsOnAir(a, f)' <=> IsOnAir(a, f)
      BY <1>1 DEF IsOnAir
    <2>4. \A f \in DataFrames : IsCurrent(a, f)' => IsCurrent(a, f)
      BY <1>1, <1>2, FrameFacts DEF IsCurrent, Waiting, SenderTypes
    <2>5. \A f \in DataFrames : IsAnswered(r, f)' => IsAnswered(r, f)
      BY <1>1, <1>2, FrameFacts DEF IsAnswered, Acknowledged, SenderTypes
    <2>6. typed' = typed /\ last_rx_seq' = last_rx_seq
      BY <1>1
    <2> QED
      BY <2>1, <2>2, <2>3, <2>4, <2>5, <2>6, <2>7, ForwardInOrder DEF Forward
  <1> QED
    BY <1>3, <1>4 DEF Order

\* a chat that starts knows nothing
LEMMA StartInOrder ==
  ASSUME ChatTypes, Printings, NEW b \in Boards, NEW a \in Boards, Order(a), Start(b)
  PROVE  Order(a)'
  <1>1. /\ UNCHANGED <<job, typed, sending, tx_busy, tx, printed>>
        /\ rx' = [rx EXCEPT ![b] = NoFrame]
        /\ last_rx_seq' = [last_rx_seq EXCEPT ![b] = -1]
        /\ reassembly' = [reassembly EXCEPT ![b] = NoMessage]
        /\ starts' = [starts EXCEPT ![b] = @ + 1]
    BY DEF Start, screen
  <1>2. SenderTypes /\ ReaderTypes /\ MailboxTypes
    BY DEF ChatTypes
  <1>3. Sender(a)'
    BY <1>1 DEF Order, Sender, Waiting
  <1>4. ASSUME NEW r \in Boards PROVE InOrder(a, r)'
    <2>1. InOrder(a, r)
      BY DEF Order
    <2>2. \A f \in DataFrames : /\ IsArriving(r, f)' => IsArriving(r, f)
                                /\ IsAnswered(r, f)' <=> IsAnswered(r, f)
                                /\ IsOnAir(a, f)' <=> IsOnAir(a, f)
                                /\ IsCurrent(a, f)' <=> IsCurrent(a, f)
      BY <1>1, <1>2, FrameFacts
      DEF IsArriving, IsAnswered, Acknowledged, IsOnAir, IsCurrent, Waiting, MailboxTypes
    <2>3. CASE r # b
      <3>1. /\ reassembly'[r] = reassembly[r] /\ starts'[r] = starts[r]
            /\ last_rx_seq'[r] = last_rx_seq[r]
        BY <1>1, <1>2, <2>3 DEF SenderTypes, ReaderTypes
      <3>2. Forward(a, r)
        BY <1>1, <2>2, <3>1, KnowsStays DEF Forward
      <3> QED
        BY <1>1, <2>1, <3>1, <3>2, ForwardInOrder
    <2>4. CASE r = b
      <3>1. reassembly'[r].parts = {} /\ starts'[r] = starts[r] + 1 /\ starts[r] \in Nat
        BY <1>1, <1>2, <2>4 DEF SenderTypes, ReaderTypes, NoMessage
      <3>2. \A i \in 1..Len(printed'[r]) : printed'[r][i].start # starts'[r]
        <4>1. \A i \in 1..Len(printed[r]) :
                printed[r][i].start <= starts[r] /\ printed[r][i].start \in Nat
          <5> DEFINE T == [start : Nat, parts : SUBSET DataFrames]
          <5>1. printed[r] \in Seq(T)
            BY <1>2 DEF ReaderTypes
          <5>2. \A x \in T : x.start \in Nat
            OBVIOUS
          <5> HIDE DEF T
          <5>3. \A i \in 1..Len(printed[r]) : printed[r][i] \in T
            BY <5>1
          <5> QED
            BY <5>2, <5>3 DEF Printings
        <4> QED
          BY <1>1, <3>1, <4>1
      <3>3. \A f \in DataFrames : ~ Knows(r, f)'
        BY <3>1, <3>2 DEF Knows
      <3>4. Forward(a, r)
        BY <2>2, <3>3 DEF Forward
      <3> QED
        BY <1>1, <2>1, <3>3, <3>4, ForwardInOrder
    <2> QED
      BY <2>3, <2>4
  <1> QED
    BY <1>3, <1>4 DEF Order

\* nothing is on its way at the start
LEMMA InitOrdered == Init => OrderInv
  <1> SUFFICES ASSUME Init PROVE Printings /\ \A a \in Boards : Order(a)
    BY DEF OrderInv
  <1>1. Printings
    BY DEF Init, Printings
  <1>2. ASSUME NEW a \in Boards PROVE Order(a)
    <2>1. Sender(a)
      BY PeerIs, FrameFacts DEF Init, Sender, Waiting
    <2>2. ASSUME NEW r \in Boards, NEW f \in DataFrames
          PROVE  ~ Knows(r, f) /\ ~ Ahead(a, r, f)
      <3>1. ~ Knows(r, f)
        BY DEF Init, Knows, NoMessage
      <3>2. ~ Ahead(a, r, f)
        BY FrameFacts
        DEF Init, Ahead, Sent, IsAnswered, IsArriving, IsOnAir, IsCurrent, Waiting
      <3> QED
        BY <3>1, <3>2
    <2>3. \A r \in Boards : InOrder(a, r)
      BY <2>2 DEF InOrder, Ahead, Sent
    <2> QED
      BY <2>1, <2>3 DEF Order
  <1> QED
    BY <1>1, <1>2

\* no start but the current one is printed in
LEMMA PrintingsKept ==
  ASSUME ChatTypes, Printings, plan.arq, NEW b \in Boards,
         \/ Sends(b) \/ Burst(b) \/ Polls(b) \/ TypeLine(b) \/ Repeat(b) \/ GiveUp(b)
         \/ Ends(b) \/ Start(b)
  PROVE  Printings'
  <1>1. ReaderTypes /\ SenderTypes
    BY DEF ChatTypes
  <1>2. CASE UNCHANGED printed /\ (starts' = starts \/ starts' = [starts EXCEPT ![b] = @ + 1])
    <2> SUFFICES ASSUME NEW r \in Boards, NEW i \in 1..Len(printed[r])
                 PROVE  printed[r][i].start <= starts'[r]
      BY <1>2 DEF Printings
    <2> DEFINE T == [start : Nat, parts : SUBSET DataFrames]
    <2>1. printed[r] \in Seq(T) /\ (\A x \in T : x.start \in Nat)
      BY <1>1 DEF ReaderTypes
    <2> HIDE DEF T
    <2>2. printed[r][i].start \in Nat
      BY <2>1
    <2>3. starts[r] \in Nat /\ starts'[r] \in {starts[r], starts[r] + 1}
      BY <1>1, <1>2 DEF SenderTypes
    <2> QED
      BY <2>2, <2>3 DEF Printings
  <1>3. CASE RxListen(b)
    <2>1. starts' = starts
      BY <1>3 DEF RxListen
    <2>2. CASE job[b].kind # "ack"
      BY <1>2, <1>3, <2>1, <2>2 DEF RxListen
    <2>3. CASE job[b].kind = "ack"
      <3>1. Accept(b, Acknowledged(b))
        BY <1>3, <2>3 DEF RxListen
      <3>2. CASE UNCHANGED printed
        BY <1>2, <2>1, <3>2
      <3>3. CASE printed' = [printed EXCEPT ![b] = Append(@, [start |-> starts[b],
                               parts |-> Use(b, Acknowledged(b)).shows])]
        <4> SUFFICES ASSUME NEW r \in Boards, NEW i \in 1..Len(printed'[r])
                     PROVE  printed'[r][i].start <= starts[r]
          BY <2>1 DEF Printings
        <4>1. /\ starts[r] \in Nat
              /\ printed[r] \in Seq([start : Nat, parts : SUBSET DataFrames])
          BY <1>1 DEF SenderTypes, ReaderTypes
        <4>2. CASE r # b
          BY <1>1, <3>3, <4>2 DEF Printings, ReaderTypes
        <4>3. CASE r = b
          <5> DEFINE new == [start |-> starts[b], parts |-> Use(b, Acknowledged(b)).shows]
          <5>1. printed'[r] = Append(printed[r], new) /\ new.start = starts[r]
            BY <1>1, <3>3, <4>3 DEF ReaderTypes
          <5> HIDE DEF new
          <5>2. \/ i \in 1..Len(printed[r]) /\ printed'[r][i] = printed[r][i]
                \/ printed'[r][i] = new
            BY <4>1, <5>1
          <5> QED
            BY <4>1, <5>1, <5>2 DEF Printings
        <4> QED
          BY <4>2, <4>3
      <3> QED
        BY <3>1, <3>2, <3>3 DEF Accept, Show
    <2> QED
      BY <2>2, <2>3
  <1>4. UNCHANGED printed \/ RxListen(b)
    BY DEF Sends, RxStop, TxStart, NotTaken, TakeOwn, Burst, TxDone, Polls, PollPlain,
           PollData, PollAck, PollOther, TypeLine, Repeat, GiveUp,
           Ends, Quit, QuitBeforeFrame, EndChat, Start, screen
  <1>5. starts' = starts \/ starts' = [starts EXCEPT ![b] = @ + 1]
    BY DEF Sends, RxStop, TxStart, NotTaken, TakeOwn, RxListen, Burst, TxDone, Polls,
           PollPlain, PollData, PollAck, PollOther, TypeLine, Repeat, GiveUp,
           Ends, Quit, QuitBeforeFrame, EndChat, Start,
           chatVars
  <1> QED
    BY <1>2, <1>3, <1>4, <1>5

\* every step
LEMMA StepOrdered ==
  ASSUME ChatTypes, OrderInv, NEW b \in Boards,
         \/ Sends(b) \/ Burst(b) \/ Polls(b) \/ TypeLine(b) \/ Repeat(b) \/ GiveUp(b)
         \/ Ends(b) \/ Start(b)
  PROVE  OrderInv'
  <1>1. plan' = plan
    BY DEF Sends, RxStop, TxStart, NotTaken, TakeOwn, RxListen, Burst, TxDone, Polls,
           PollPlain, PollData, PollAck, PollOther, TypeLine, Repeat, GiveUp,
           Ends, Quit, QuitBeforeFrame, EndChat, Start
  <1> SUFFICES ASSUME plan.arq
               PROVE  Printings' /\ \A a \in Boards : Reads(Peer(a)) => Order(a)'
    BY <1>1 DEF OrderInv, Reads
  <1>2. Printings'
    BY PrintingsKept DEF OrderInv
  <1>3. ASSUME NEW a \in Boards, Reads(Peer(a)) PROVE Order(a)'
    <2>1. Order(a) /\ Printings
      BY <1>3 DEF OrderInv
    <2>2. CASE Sends(b)
      BY <2>1, <2>2, SendInOrder, RxListenInOrder DEF Sends
    <2>3. CASE Burst(b)
      BY <2>1, <2>3, BurstInOrder DEF Burst
    <2>4. CASE Polls(b) \/ TypeLine(b)
      BY <1>3, <2>1, <2>4, PollInOrder, TypeLineInOrder
    <2>5. CASE Repeat(b) \/ GiveUp(b) \/ Ends(b) \/ Start(b)
      BY <2>1, <2>5, WaitEndsInOrder, EndInOrder, StartInOrder
    <2> QED
      BY <2>2, <2>3, <2>4, <2>5
  <1> QED
    BY <1>2, <1>3

\* nothing moves
LEMMA StutterOrdered ==
  ASSUME OrderInv, UNCHANGED vars
  PROVE  OrderInv'
  BY DEF vars, chatVars, senderVars, readerVars, mailboxVars, screen, OrderInv, Printings,
     Reads, Order, Sender, InOrder, Waiting, Knows, Ahead, Sent, IsAnswered, IsArriving,
     IsOnAir, IsCurrent, Acknowledged

-----------------------------------------------------------------------------
\* what is shown has a frame in it that was not known before
LEMMA ShownIsNew ==
  ASSUME ChatTypes, OrderInv, plan.arq, OneTypist, NEW b \in Boards, RxListen(b)
  PROVE  \/ UNCHANGED printed
         \/ \E f \in DataFrames, parts \in SUBSET DataFrames :
              /\ f \in parts /\ ~ Knows(b, f)
              /\ printed' = [printed EXCEPT ![b] = Append(@, [start |-> starts[b],
                                                            parts |-> parts])]
  <1>1. CASE job[b].kind # "ack"
    BY <1>1 DEF RxListen
  <1>2. CASE job[b].kind = "ack"
    <2> DEFINE h == Acknowledged(b)
    <2>1. h \in DataFrames /\ Accept(b, h) /\ IsAnswered(b, h)
      BY <1>2, AcknowledgedTyped DEF RxListen, IsAnswered
    <2> HIDE DEF h
    <2>2. PICK r \in Boards : Reads(r)
      BY DEF OneTypist, Reads
    <2>3. Peer(r) \in Boards /\ Peer(Peer(r)) = r
      BY PeerIs
    <2>4. InOrder(Peer(r), b)
      BY <2>2, <2>3 DEF OrderInv, Order
    <2>5. h.seq # last_rx_seq[b] => ~ Knows(b, h)
      BY <2>1, <2>4 DEF InOrder, Ahead
    <2>6. /\ Use(b, h).shows \in SUBSET DataFrames
          /\ Use(b, h).shows # {} => h \in Use(b, h).shows
      BY <2>1, UseTyped
    <2> QED
      BY <2>1, <2>5, <2>6 DEF Accept, Show
  <1> QED
    BY <1>1, <1>2

\* so it was not shown before in this start of the chat
LEMMA StepPrintsOnce ==
  ASSUME ChatTypes, OrderInv, PrintedOnce, NEW b \in Boards,
         \/ Sends(b) \/ Burst(b) \/ Polls(b) \/ TypeLine(b) \/ Repeat(b) \/ GiveUp(b)
         \/ Ends(b) \/ Start(b)
  PROVE  PrintedOnce'
  <1>1. plan' = plan
    BY DEF Sends, RxStop, TxStart, NotTaken, TakeOwn, RxListen, Burst, TxDone, Polls,
           PollPlain, PollData, PollAck, PollOther, TypeLine, Repeat, GiveUp,
           Ends, Quit, QuitBeforeFrame, EndChat, Start
  <1> SUFFICES ASSUME plan.arq, OneTypist, NEW c \in Boards,
                      NEW i \in 1..Len(printed'[c]), NEW j \in 1..Len(printed'[c]),
                      printed'[c][i] = printed'[c][j]
               PROVE  i = j
    BY <1>1 DEF PrintedOnce, OneTypist
  <1>2. \A k, m \in 1..Len(printed[c]) : printed[c][k] = printed[c][m] => k = m
    BY DEF PrintedOnce
  <1>3. CASE printed'[c] = printed[c]
    BY <1>2, <1>3
  <1>4. CASE printed'[c] # printed[c]
    <2>1. printed' # printed
      BY <1>4
    <2>2. RxListen(b)
      BY <2>1 DEF Sends, RxStop, TxStart, NotTaken, TakeOwn, Burst, TxDone, Polls, PollPlain,
             PollData, PollAck, PollOther, TypeLine, Repeat, GiveUp,
             Ends, Quit, QuitBeforeFrame, EndChat, Start, screen
    <2>3. PICK f \in DataFrames, parts \in SUBSET DataFrames :
            /\ f \in parts /\ ~ Knows(b, f)
            /\ printed' = [printed EXCEPT ![b] = Append(@, [start |-> starts[b],
                                                          parts |-> parts])]
      BY <2>1, <2>2, ShownIsNew
    <2> DEFINE new == [start |-> starts[b], parts |-> parts]
    <2>4. /\ printed \in [Boards -> Seq([start : Nat, parts : SUBSET DataFrames])]
          /\ printed[c] \in Seq([start : Nat, parts : SUBSET DataFrames])
      BY DEF ChatTypes, ReaderTypes
    <2>5. c = b /\ printed'[c] = Append(printed[c], new)
      BY <1>4, <2>3, <2>4
    <2>6. new.start = starts[b] /\ f \in new.parts
      BY <2>3
    <2> HIDE DEF new
    <2>7. \A k \in 1..Len(printed[c]) : printed[c][k] # new
      BY <2>3, <2>5, <2>6 DEF Knows
    <2> DEFINE T == [start : Nat, parts : SUBSET DataFrames]
    <2>8. printed[c] \in Seq(T) /\ new \in T
      BY <2>4 DEF new, ChatTypes, SenderTypes
    <2> HIDE DEF T
    <2>9. /\ Len(printed[c]) \in Nat /\ Len(printed'[c]) = Len(printed[c]) + 1
          /\ \A k \in 1..Len(printed'[c]) :
               \/ k \in 1..Len(printed[c]) /\ printed'[c][k] = printed[c][k]
               \/ k = Len(printed'[c]) /\ printed'[c][k] = new
      BY <2>5, <2>8
    <2> QED
      BY <1>2, <2>7, <2>9
  <1> QED
    BY <1>3, <1>4

(***************************************************************************)
(* A repeated line is printed only once while its chat runs: for any       *)
(* lines and fragments of one user, any tries and restarts of either chat, *)
(* and over mailboxes that stall.  It rests on the order of the frames on  *)
(* their way: a frame that is offered again after it was taken is still    *)
(* the last one taken, so its sequence number is still remembered.         *)
(***************************************************************************)
THEOREM PrintsOnce == Spec => []PrintedOnce
  <1>1. Init => ChatTypes /\ StartsLeft /\ OrderInv /\ PrintedOnce
    <2>1. Init => PrintedOnce
      BY DEF Init, PrintedOnce
    <2>2. Init => StartsLeft
      BY DEF Init, StartsLeft
    <2> QED
      BY <2>1, <2>2, InitTyped, InitOrdered
  <1>2. ChatTypes /\ StartsLeft /\ OrderInv /\ PrintedOnce /\ [Next]_vars
          => (ChatTypes /\ StartsLeft /\ OrderInv /\ PrintedOnce)'
    <2>1. UNCHANGED vars /\ PrintedOnce => PrintedOnce'
      BY DEF vars, screen, PrintedOnce, OneTypist
    <2> QED
      BY <2>1, StepTyped, StutterTyped, StepOrdered, StutterOrdered, StepPrintsOnce DEF Next
  <1> QED
    BY <1>1, <1>2, PTL DEF Spec

-----------------------------------------------------------------------------
(* The fragments that make up a line.                                      *)

\* a data frame that may still be taken, or taken again
At(b, f) == \/ f \in {sending[b], tx[b], rx[b]} \cup reassembly[b].parts
            \/ job[b] # NoFrame /\ f = Acknowledged(b)

InPlay(f) == \E b \in Boards : At(b, f)

\* the id of a fragment was drawn for the i-th long line of start s
Drawn(f, s, i) ==
  /\ s \in 1..starts[f.from] /\ i \in 0..Len(plan.lines[f.from]) - 1
  /\ f.id = (FirstId[f.from][s] + i) % IdModulus
  /\ s = starts[f.from] => FirstId[f.from][s] + i < msg_id[f.from]

IdDrawn(f) == f.count > 1 => \E s \in Nat, i \in Nat : Drawn(f, s, i)

SameLine(f, g) == f.count > 1 /\ g.count > 1 /\ f.id = g.id
                    => f.from = g.from /\ f.line = g.line

\* ids follow each other
NextId ==
  \A b \in Boards : /\ FirstId[b][starts[b]] <= msg_id[b]
                    /\ msg_id[b] <= FirstId[b][starts[b]] + typed[b]

\* fragments of two lines in play differ in their id; without --arq there are none
LinesApart ==
  /\ \A f \in DataFrames : InPlay(f) => (IF plan.arq THEN IdDrawn(f) ELSE f.count = 1)
  /\ \A f, g \in DataFrames : InPlay(f) /\ InPlay(g) => SameLine(f, g)
  /\ \A b \in Boards : Waiting(b) => sending[b].from = b

\* what is reassembled is fragments of one message, each once
OneMessage ==
  \A b \in Boards :
    LET r == reassembly[b] IN
    /\ \A f \in r.parts : f.count > 1 /\ f.id = r.id /\ f.count = r.count
    /\ \A f, g \in r.parts : f.idx = g.idx => f = g

\* all the fragments of one line
Whole(parts) ==
  /\ \A f, g \in parts : f.from = g.from /\ f.line = g.line
  /\ \A f \in parts : {g.idx : g \in parts} = 0..f.count - 1

WholeInv == NextId /\ LinesApart /\ OneMessage /\ ShownWhole

\* a data frame is the data frame of a frame to send that is one, and of its answer
LEMMA DataFacts ==
  ASSUME NEW f \in DataFrames
  PROVE  /\ [f EXCEPT !.kind = "data"] = f /\ [AckOf(f) EXCEPT !.kind = "data"] = f
         /\ f # NoFrame /\ f # BadFrame /\ f.from \in Boards
  <1>1. [f EXCEPT !.kind = "data"] = f /\ f.from \in Boards
    BY DEF DataFrames, Frames
  <1> QED
    BY <1>1, FrameFacts

\* the first id of the start that runs
LEMMA IdFacts ==
  ASSUME ChatTypes, NEW b \in Boards
  PROVE  /\ starts[b] \in 1..plan.starts[b] /\ FirstId[b][starts[b]] \in Nat
         /\ msg_id[b] \in Nat /\ typed[b] \in Nat /\ Len(plan.lines[b]) \in Nat
         /\ typed[b] <= Len(plan.lines[b])
         /\ \A s \in 1..plan.starts[b] : FirstId[b][s] \in Nat
  <1>1. /\ starts[b] \in 1..plan.starts[b] /\ typed[b] <= Len(plan.lines[b])
        /\ msg_id[b] \in Nat /\ typed[b] \in Nat
    BY DEF ChatTypes, Lines, SenderTypes
  <1>2. /\ plan.starts[b] \in Nat /\ Len(FirstId[b]) \in Nat /\ FirstId[b] \in Seq(Nat)
        /\ plan.starts[b] <= Len(FirstId[b]) /\ Len(plan.lines[b]) \in Nat
    BY PlanFacts DEF ChatTypes
  <1>3. \A s \in 1..plan.starts[b] : FirstId[b][s] \in Nat
    BY <1>2
  <1> QED
    BY <1>1, <1>2, <1>3

\* all the places of an index are taken by as many fragments as there are
LEMMA AllIndices ==
  ASSUME NEW parts \in SUBSET DataFrames, IsFiniteSet(parts), NEW n \in Nat,
         \A f \in parts : f.count = n,
         \A f, g \in parts : f.idx = g.idx => f = g,
         Cardinality(parts) = n
  PROVE  {g.idx : g \in parts} = 0..n - 1
  <1> DEFINE I == 0..n - 1
             idx == [f \in parts |-> f.idx]
  <1>1. IsFiniteSet(I) /\ Cardinality(I) = n
    <2>1. IsFiniteSet(I) /\ Cardinality(I) = IF 0 > n - 1 THEN 0 ELSE n - 1 - 0 + 1
      BY FS_Interval
    <2> QED
      BY <2>1
  <1>2. \A f \in parts : f.idx \in I
    <2> SUFFICES ASSUME NEW f \in parts PROVE f.idx \in I
      OBVIOUS
    <2>1. f.idx \in Nat /\ f.idx < f.count /\ f.count = n
      BY FrameFacts, FieldTypes
    <2> QED
      BY <2>1
  <1> HIDE DEF I
  <1>3. idx \in Injection(parts, I)
    <2>1. idx \in [parts -> I] /\ \A f, g \in parts : idx[f] = idx[g] => f = g
      BY <1>2
    <2> HIDE DEF idx
    <2> QED
      BY <2>1 DEF Injection, IsInjective
  <1>4. idx \in Surjection(parts, I)
    BY <1>1, <1>3, FS_Injection
  <1>5. \A i \in I : \E f \in parts : f.idx = i
    BY <1>4 DEF Surjection
  <1>6. {g.idx : g \in parts} = I
    BY <1>2, <1>5
  <1> QED
    BY <1>6 DEF I

\* a frame in play that is taken leaves fragments of one message, or shows a line
LEMMA UseWhole ==
  ASSUME ChatTypes, LinesApart, OneMessage, NEW b \in Boards, NEW f \in DataFrames, InPlay(f)
  PROVE  /\ LET r == Use(b, f).left IN
              /\ \A g \in r.parts : g.count > 1 /\ g.id = r.id /\ g.count = r.count
              /\ \A g, h \in r.parts : g.idx = h.idx => g = h
         /\ Whole(Use(b, f).shows)
  <1> DEFINE old == reassembly[b]
             r == Reassembly(b, f)
             parts == IF \E g \in r.parts : g.idx = f.idx THEN r.parts
                                                         ELSE r.parts \cup {f}
  <1>1. /\ old \in [id : Int, count : Nat, parts : SUBSET DataFrames]
        /\ IsFiniteSet(old.parts) /\ IsFiniteSet({})
    BY FS_EmptySet DEF ChatTypes, ReaderTypes, Reassemblies
  <1>2. /\ f.count \in Nat \ {0} /\ f.idx \in Nat /\ f.idx < f.count /\ f.id \in Int
    BY FrameFacts, FieldTypes
  <1>3. /\ \A g \in old.parts : g.count > 1 /\ g.id = old.id /\ g.count = old.count
        /\ \A g, h \in old.parts : g.idx = h.idx => g = h
    BY DEF OneMessage
  <1>4. /\ r.id = f.id /\ r.count = f.count /\ r.parts \in {{}, old.parts}
        /\ r \in [id : Int, count : Nat, parts : SUBSET DataFrames]
        /\ r.parts = {} \/ (f.id = old.id /\ f.count = old.count)
    BY <1>1, <1>2 DEF Reassembly
  <1>5. CASE f.count > 1
    <2>1. /\ parts \subseteq old.parts \cup {f} /\ parts \in SUBSET DataFrames
          /\ \A g \in parts : g.count > 1 /\ g.id = f.id /\ g.count = f.count
          /\ \A g, h \in parts : g.idx = h.idx => g = h
      <3>1. /\ \A g \in r.parts : g.count > 1 /\ g.id = f.id /\ g.count = f.count
            /\ \A g, h \in r.parts : g.idx = h.idx => g = h
            /\ r.parts \subseteq old.parts /\ r.parts \subseteq DataFrames
        BY <1>1, <1>3, <1>4
      <3> HIDE DEF r, old
      <3>2. CASE \E g \in r.parts : g.idx = f.idx
        BY <3>1, <3>2
      <3>3. CASE ~ \E g \in r.parts : g.idx = f.idx
        BY <1>5, <3>1, <3>3
      <3> QED
        BY <3>2, <3>3
    <2>2. IsFiniteSet(parts)
      BY <1>1, <1>4, FS_AddElement
    <2>3. Use(b, f) = [shows |-> IF Cardinality(parts) = f.count THEN parts ELSE {},
                       left  |-> IF Cardinality(parts) = f.count THEN NoMessage
                                 ELSE [r EXCEPT !.parts = parts]]
      BY <1>5 DEF Use, TakeFragment
    <2>4. \A g \in parts : InPlay(g)
      BY <2>1 DEF InPlay, At
    <2>5. \A g, h \in parts : g.from = h.from /\ g.line = h.line
      BY <2>1, <2>4 DEF LinesApart, SameLine
    <2>6. CASE Cardinality(parts) = f.count
      <3>1. Use(b, f).shows = parts /\ Use(b, f).left = NoMessage
        BY <2>3, <2>6
      <3> HIDE DEF parts
      <3>2. {g.idx : g \in parts} = 0..f.count - 1
        BY <1>2, <2>1, <2>2, <2>6, AllIndices
      <3>3. Whole(parts)
        BY <2>1, <2>5, <3>2 DEF Whole
      <3>4. NoMessage.parts = {}
        BY DEF NoMessage
      <3> QED
        BY <3>1, <3>3, <3>4
    <2>7. CASE Cardinality(parts) # f.count
      <3> HIDE DEF parts, r
      <3>1. Use(b, f).shows = {} /\ Use(b, f).left = [r EXCEPT !.parts = parts]
        BY <2>3, <2>7
      <3>2. /\ Use(b, f).left.parts = parts /\ Use(b, f).left.id = f.id
            /\ Use(b, f).left.count = f.count
        BY <1>4, <3>1
      <3> QED
        BY <2>1, <3>1, <3>2 DEF Whole
    <2> QED
      BY <2>6, <2>7
  <1>6. CASE ~ f.count > 1
    <2>1. Use(b, f).shows = {f} /\ Use(b, f).left = old
      BY <1>6 DEF Use
    <2>2. f.count = 1 /\ f.idx = 0
      BY <1>2, <1>6
    <2>3. {g.idx : g \in {f}} = 0..f.count - 1
      BY <2>2
    <2> QED
      BY <1>3, <2>1, <2>3 DEF Whole
  <1> QED
    BY <1>5, <1>6

\* the ids stay apart when nothing comes into play but frames N with an id of their own
LEMMA LinesStayApart ==
  ASSUME ChatTypes, LinesApart, plan' = plan,
         \A c \in Boards : \/ starts'[c] = starts[c] /\ msg_id[c] <= msg_id'[c]
                           \/ starts'[c] = starts[c] + 1,
         \A c \in Boards : msg_id'[c] \in Nat,
         NEW N \in SUBSET DataFrames,
         \A f \in DataFrames : InPlay(f)' => InPlay(f) \/ f \in N,
         \A n \in N : IF plan.arq THEN IdDrawn(n)' ELSE n.count = 1,
         \A n, m \in N : n = m,
         \A f \in DataFrames : \A n \in N : InPlay(f) => SameLine(f, n),
         \A c \in Boards : Waiting(c)' => sending'[c].from = c
  PROVE  LinesApart'
  <1>1. ASSUME NEW f \in DataFrames, IdDrawn(f) PROVE IdDrawn(f)'
    <2> SUFFICES ASSUME f.count > 1 PROVE \E s \in Nat, i \in Nat : Drawn(f, s, i)'
      BY DEF IdDrawn
    <2>1. PICK s \in Nat, i \in Nat : Drawn(f, s, i)
      BY <1>1 DEF IdDrawn
    <2> DEFINE a == f.from
    <2>2. a \in Boards
      BY DataFacts
    <2>3. /\ starts[a] \in Nat /\ msg_id[a] \in Nat /\ FirstId[a][s] \in Nat
          /\ s \in 1..starts[a]
      <3>1. starts[a] \in 1..plan.starts[a] /\ plan.starts[a] \in Nat
        BY <2>2, IdFacts, PlanFacts DEF ChatTypes
      <3>2. s \in 1..starts[a]
        BY <2>1 DEF Drawn
      <3>3. s \in 1..plan.starts[a]
        BY <3>1, <3>2
      <3> QED
        BY <2>2, <3>1, <3>2, <3>3, IdFacts
    <2>4. s \in 1..starts'[a] /\ (s = starts'[a] => starts'[a] = starts[a])
      BY <2>2, <2>3
    <2>5. s = starts'[a] => FirstId[a][s] + i < msg_id'[a]
      <3>1. s = starts[a] => FirstId[a][s] + i < msg_id[a]
        BY <2>1 DEF Drawn
      <3> QED
        BY <2>2, <2>3, <2>4, <3>1
    <2>6. Drawn(f, s, i)'
      BY <2>1, <2>4, <2>5 DEF Drawn
    <2> QED
      BY <2>6
  <1>2. \A f \in DataFrames : InPlay(f)' => (IF plan.arq THEN IdDrawn(f)' ELSE f.count = 1)
    BY <1>1 DEF LinesApart
  <1>3. \A f, g \in DataFrames : InPlay(f)' /\ InPlay(g)' => SameLine(f, g)
    BY DEF LinesApart, SameLine
  <1> QED
    BY <1>2, <1>3 DEF LinesApart

\* nothing comes into play when frames only move from one place to another
LEMMA NothingNew ==
  ASSUME ChatTypes, NEW b \in Boards,
         \A c \in Boards :
           /\ sending'[c] \in {sending[c], NoFrame} /\ tx'[c] \in {tx[c], job[c]}
           /\ rx'[c] \in {rx[c], NoFrame, BadFrame, tx[b]}
           /\ \/ job'[c] \in {job[c], NoFrame, sending[c]}
              \/ rx[c].kind = "data" /\ job'[c] = AckOf(rx[c])
           /\ \/ reassembly'[c].parts \subseteq reassembly[c].parts
              \/ job[c] # NoFrame /\ reassembly'[c].parts
                                       \subseteq reassembly[c].parts \cup {Acknowledged(c)}
  PROVE  \A f \in DataFrames : InPlay(f)' => InPlay(f)
  <1> SUFFICES ASSUME NEW f \in DataFrames, NEW c \in Boards, At(c, f)'
               PROVE  InPlay(f)
    BY DEF InPlay
  <1>1. f # NoFrame /\ f # BadFrame /\ [f EXCEPT !.kind = "data"] = f
    BY DataFacts
  <1>2. CASE f = sending'[c] \/ f = tx'[c]
    <2>1. f \in {sending[c], tx[c]} \/ f = job[c]
      BY <1>1, <1>2
    <2>2. f = job[c] => job[c] # NoFrame /\ f = Acknowledged(c)
      BY <1>1 DEF Acknowledged
    <2> QED
      BY <2>1, <2>2 DEF InPlay, At
  <1>3. CASE f = rx'[c]
    BY <1>1, <1>3 DEF InPlay, At
  <1>4. CASE f \in reassembly'[c].parts
    BY <1>4 DEF InPlay, At
  <1>5. CASE job'[c] # NoFrame /\ f = [job'[c] EXCEPT !.kind = "data"]
    <2>1. CASE job'[c] = job[c]
      BY <1>5, <2>1 DEF InPlay, At, Acknowledged
    <2>2. CASE job'[c] = sending[c]
      <3>1. sending[c] \in DataFrames
        BY <1>5, <2>2 DEF ChatTypes, SenderTypes
      <3>2. f = sending[c]
        BY <1>5, <2>2, <3>1, DataFacts
      <3> QED
        BY <3>2 DEF InPlay, At
    <2>3. CASE rx[c].kind = "data" /\ job'[c] = AckOf(rx[c])
      <3>1. rx[c] \in DataFrames
        <4>1. rx[c] \in AnyFrames \cup {NoFrame, BadFrame}
          BY DEF ChatTypes, MailboxTypes
        <4> QED
          BY <2>3, <4>1, FrameFacts
      <3>2. f = rx[c]
        BY <1>5, <2>3, <3>1, DataFacts
      <3> QED
        BY <3>2 DEF InPlay, At
    <2> QED
      BY <1>5, <2>1, <2>2, <2>3
  <1> QED
    BY <1>2, <1>3, <1>4, <1>5 DEF At, Acknowledged

\* a step that types nothing and takes nothing
LEMMA QuietWhole ==
  ASSUME ChatTypes, WholeInv, UNCHANGED <<plan, starts, typed, msg_id, reassembly, printed>>,
         \A f \in DataFrames : InPlay(f)' => InPlay(f),
         \A c \in Boards : sending'[c] \in {sending[c], NoFrame}
  PROVE  WholeInv'
  <1>1. LinesApart /\ NextId /\ OneMessage /\ ShownWhole
    BY DEF WholeInv
  <1>2. NextId' /\ OneMessage' /\ ShownWhole'
    BY <1>1 DEF NextId, OneMessage, ShownWhole
  <1>3. \A c \in Boards : Waiting(c)' => sending'[c].from = c
    BY <1>1 DEF Waiting, LinesApart
  <1>4. \A c \in Boards : msg_id[c] \in Nat /\ msg_id[c] <= msg_id'[c]
    BY IdFacts
  <1>5. LinesApart'
    <2> DEFINE N == {}
    <2>1. N \in SUBSET DataFrames /\ \A f \in DataFrames : InPlay(f)' => InPlay(f) \/ f \in N
      OBVIOUS
    <2>2. \A n \in N : FALSE
      OBVIOUS
    <2> HIDE DEF N
    <2> QED
      BY <1>1, <1>3, <1>4, <2>1, <2>2, LinesStayApart
  <1> QED
    BY <1>2, <1>5 DEF WholeInv

\* steps that only move frames
LEMMA MovesWhole ==
  ASSUME ChatTypes, WholeInv, NEW b \in Boards,
         \/ RxStop(b) \/ TxStart(b) \/ NotTaken(b) \/ TakeOwn(b) \/ Burst(b)
         \/ PollData(b) \/ PollOther(b) \/ (PollAck(b) /\ LastFrame(b))
         \/ Repeat(b) \/ GiveUp(b) \/ Ends(b)
  PROVE  WholeInv'
  <1> USE DEF chatVars, senderVars, readerVars, mailboxVars, screen, reports
  <1>1. /\ sending \in [Boards -> DataFrames \cup {NoFrame}]
        /\ job \in [Boards -> AnyFrames \cup {NoFrame}]
        /\ tx \in [Boards -> AnyFrames \cup {NoFrame}]
        /\ rx \in [Boards -> AnyFrames \cup {NoFrame, BadFrame}]
    BY DEF ChatTypes, SenderTypes, MailboxTypes
  <1>2. CASE RxStop(b) \/ TxStart(b) \/ NotTaken(b) \/ TakeOwn(b)
    <2>1. UNCHANGED <<plan, starts, typed, msg_id, reassembly, printed, sending, job>>
      BY <1>2 DEF RxStop, TxStart, NotTaken, TakeOwn
    <2>2. \A c \in Boards : tx'[c] \in {tx[c], job[c]} /\ rx'[c] \in {rx[c], NoFrame}
      BY <1>1, <1>2 DEF RxStop, TxStart, NotTaken, TakeOwn
    <2>3. \A f \in DataFrames : InPlay(f)' => InPlay(f)
      BY <2>1, <2>2, NothingNew
    <2> QED
      BY <2>1, <2>3, QuietWhole
  <1>3. CASE Burst(b)
    <2>1. UNCHANGED <<plan, starts, typed, msg_id, reassembly, printed, sending, job, tx>>
      BY <1>3 DEF Burst, TxDone
    <2>2. \A c \in Boards : rx'[c] \in {rx[c], BadFrame, tx[b]}
      <3>1. PICK reaches \in BOOLEAN, heard \in BOOLEAN : TxDone(b, reaches, heard)
        BY <1>3 DEF Burst
      <3>2. rx' = [rx EXCEPT ![b] = Delivered(b, IF heard THEN tx[b] ELSE BadFrame),
                             ![Peer(b)] = IF reaches THEN Delivered(Peer(b), tx[b]) ELSE @]
        BY <3>1 DEF TxDone
      <3> QED
        BY <1>1, <3>2, PeerIs DEF Delivered
    <2>3. \A f \in DataFrames : InPlay(f)' => InPlay(f)
      BY <2>1, <2>2, NothingNew
    <2> QED
      BY <2>1, <2>3, QuietWhole
  <1>4. CASE PollData(b) \/ PollOther(b) \/ Repeat(b)
    <2>1. UNCHANGED <<plan, starts, typed, msg_id, reassembly, printed, sending, tx>>
      BY <1>4 DEF PollData, PollOther, Repeat
    <2>2. \A c \in Boards : rx'[c] \in {rx[c], NoFrame}
      BY <1>1, <1>4 DEF PollData, PollOther, Repeat, TakeRx
    <2>3. \A c \in Boards : \/ job'[c] \in {job[c], sending[c]}
                            \/ rx[c].kind = "data" /\ job'[c] = AckOf(rx[c])
      BY <1>1, <1>4 DEF PollData, PollOther, Repeat, SendFrame
    <2>4. \A f \in DataFrames : InPlay(f)' => InPlay(f)
      BY <2>1, <2>2, <2>3, NothingNew
    <2> QED
      BY <2>1, <2>4, QuietWhole
  <1>5. CASE (PollAck(b) /\ LastFrame(b)) \/ GiveUp(b) \/ Ends(b)
    <2>1. UNCHANGED <<plan, starts, typed, msg_id, reassembly, printed, tx>>
      BY <1>5, EndFacts DEF PollAck, GiveUp
    <2>2. \A c \in Boards : /\ rx'[c] \in {rx[c], NoFrame}
                            /\ sending'[c] \in {sending[c], NoFrame}
                            /\ job'[c] \in {job[c], NoFrame}
      BY <1>1, <1>5, EndFacts DEF PollAck, GiveUp, TakeRx, Report
    <2>3. \A f \in DataFrames : InPlay(f)' => InPlay(f)
      BY <2>1, <2>2, NothingNew
    <2> QED
      BY <2>1, <2>2, <2>3, QuietWhole
  <1> QED
    BY <1>2, <1>3, <1>4, <1>5

\* what is shown is shown whole when it is added to what was
LEMMA ShowWhole ==
  ASSUME ChatTypes, ShownWhole, NEW b \in Boards, NEW parts \in SUBSET DataFrames,
         Whole(parts), Show(b, parts)
  PROVE  ShownWhole'
  <1>1. printed \in [Boards -> Seq([start : Nat, parts : SUBSET DataFrames])]
    BY DEF ChatTypes, ReaderTypes
  <1>2. \A c \in Boards : \A i \in 1..Len(printed[c]) : Whole(printed[c][i].parts)
    BY DEF ShownWhole, Whole
  <1>3. ASSUME NEW c \in Boards, NEW i \in 1..Len(printed'[c])
        PROVE  Whole(printed'[c][i].parts)
    <2>1. CASE printed'[c] = printed[c]
      BY <1>2, <2>1
    <2>2. CASE printed'[c] # printed[c]
      <3> DEFINE T == [start : Nat, parts : SUBSET DataFrames]
                 new == [start |-> starts[b], parts |-> parts]
      <3>1. printed'[c] = Append(printed[c], new) /\ printed[c] \in Seq(T)
        BY <1>1, <2>2 DEF Show
      <3>2. new.parts = parts
        OBVIOUS
      <3> HIDE DEF T, new
      <3>3. \/ i \in 1..Len(printed[c]) /\ printed'[c][i] = printed[c][i]
            \/ printed'[c][i] = new
        BY <3>1
      <3> QED
        BY <1>2, <3>2, <3>3
    <2> QED
      BY <2>1, <2>2
  <1> QED
    BY <1>3 DEF ShownWhole, Whole

\* the end of an answer: the frame is taken
LEMMA RxListenWhole ==
  ASSUME ChatTypes, WholeInv, NEW b \in Boards, RxListen(b)
  PROVE  WholeInv'
  <1>1. /\ UNCHANGED <<plan, starts, typed, msg_id, sending, tx, rx>>
        /\ job' = [job EXCEPT ![b] = NoFrame]
    BY DEF RxListen, senderVars, reports
  <1>2. SenderTypes /\ ReaderTypes /\ LinesApart /\ NextId /\ OneMessage /\ ShownWhole
    BY DEF WholeInv, ChatTypes
  <1>3. CASE UNCHANGED <<reassembly, printed>>
    <2>1. \A c \in Boards : job'[c] \in {job[c], NoFrame}
      BY <1>1, <1>2 DEF SenderTypes
    <2>2. \A f \in DataFrames : InPlay(f)' => InPlay(f)
      BY <1>1, <1>3, <2>1, NothingNew
    <2> QED
      BY <1>1, <1>3, <2>2, QuietWhole
  <1>4. CASE ~ UNCHANGED <<reassembly, printed>>
    <2> DEFINE h == Acknowledged(b)
    <2>1. job[b].kind = "ack" /\ Accept(b, h)
      BY <1>4 DEF RxListen, readerVars
    <2>2. h \in DataFrames /\ InPlay(h) /\ job[b] # NoFrame
      BY <2>1, AcknowledgedTyped, FrameFacts DEF InPlay, At
    <2> HIDE DEF h
    <2>3. /\ reassembly' = [reassembly EXCEPT ![b] = Use(b, h).left]
          /\ Show(b, Use(b, h).shows)
      BY <1>4, <2>1 DEF Accept, readerVars
    <2>4. /\ Use(b, h).shows \in SUBSET DataFrames
          /\ Use(b, h).left.parts \subseteq reassembly[b].parts \cup {h}
      BY <2>2, UseTyped
    <2>5. ShownWhole'
      BY <1>2, <2>2, <2>3, <2>4, UseWhole, ShowWhole
    <2>6. \A c \in Boards : /\ c # b => reassembly'[c] = reassembly[c]
                            /\ c = b => reassembly'[c] = Use(b, h).left
      BY <1>2, <2>3 DEF ReaderTypes
    <2>7. OneMessage'
      BY <1>2, <2>2, <2>6, UseWhole DEF OneMessage
    <2>8. \A f \in DataFrames : InPlay(f)' => InPlay(f)
      <3>1. \A c \in Boards : job'[c] \in {job[c], NoFrame}
        BY <1>1, <1>2 DEF SenderTypes
      <3>2. \A c \in Boards :
              \/ reassembly'[c].parts \subseteq reassembly[c].parts
              \/ job[c] # NoFrame /\ reassembly'[c].parts
                                       \subseteq reassembly[c].parts \cup {Acknowledged(c)}
        BY <2>2, <2>4, <2>6 DEF h
      <3> QED
        BY <1>1, <3>1, <3>2, NothingNew
    <2>9. LinesApart' /\ NextId'
      <3>1. NextId'
        BY <1>1, <1>2 DEF NextId
      <3>2. \A c \in Boards : Waiting(c)' => sending'[c].from = c
        BY <1>1, <1>2 DEF Waiting, LinesApart
      <3>3. \A c \in Boards : msg_id'[c] \in Nat /\ msg_id[c] <= msg_id'[c]
        BY <1>1, IdFacts
      <3> DEFINE N == {}
      <3>4. N \in SUBSET DataFrames /\ \A f \in DataFrames : InPlay(f)' => InPlay(f) \/ f \in N
        BY <2>8
      <3>5. \A n \in N : FALSE
        OBVIOUS
      <3> HIDE DEF N
      <3> QED
        BY <1>1, <1>2, <3>1, <3>2, <3>3, <3>4, <3>5, LinesStayApart
    <2> QED
      BY <2>5, <2>7, <2>9 DEF WholeInv
  <1> QED
    BY <1>3, <1>4

\* without --arq every frame is a line
LEMMA PollPlainWhole ==
  ASSUME ChatTypes, WholeInv, NEW b \in Boards, PollPlain(b)
  PROVE  WholeInv'
  <1>1. /\ UNCHANGED <<plan, starts, typed, msg_id, sending, tx, job, reassembly>>
        /\ rx' = [rx EXCEPT ![b] = NoFrame] /\ ~ plan.arq /\ rx[b].kind = "data"
        /\ Show(b, {rx[b]})
    BY DEF PollPlain, TakeRx, chatVars, senderVars, readerVars
  <1>2. MailboxTypes /\ LinesApart /\ NextId /\ OneMessage /\ ShownWhole
    BY DEF WholeInv, ChatTypes
  <1>3. rx[b] \in DataFrames /\ InPlay(rx[b])
    <2>1. rx[b] \in AnyFrames \cup {NoFrame, BadFrame}
      BY <1>2 DEF MailboxTypes
    <2>2. rx[b] \in DataFrames
      BY <1>1, <2>1, FrameFacts
    <2> QED
      BY <2>2 DEF InPlay, At
  <1>4. rx[b].count = 1 /\ rx[b].idx = 0
    <2>1. rx[b].count = 1
      BY <1>1, <1>2, <1>3 DEF LinesApart
    <2>2. rx[b].idx \in Nat /\ rx[b].idx < rx[b].count
      BY <1>3, FrameFacts, FieldTypes
    <2> QED
      BY <2>1, <2>2
  <1>5. Whole({rx[b]})
    BY <1>4 DEF Whole
  <1>6. ShownWhole'
    BY <1>1, <1>2, <1>3, <1>5, ShowWhole
  <1>7. OneMessage' /\ NextId'
    BY <1>1, <1>2 DEF OneMessage, NextId
  <1>8. \A f \in DataFrames : InPlay(f)' => InPlay(f)
    <2>1. \A c \in Boards : rx'[c] \in {rx[c], NoFrame}
      BY <1>1, <1>2 DEF MailboxTypes
    <2> QED
      BY <1>1, <2>1, NothingNew
  <1>9. LinesApart'
    <2>1. \A c \in Boards : Waiting(c)' => sending'[c].from = c
      BY <1>1, <1>2 DEF Waiting, LinesApart
    <2>2. \A c \in Boards : msg_id'[c] \in Nat /\ msg_id[c] <= msg_id'[c]
      BY <1>1, IdFacts
    <2> DEFINE N == {}
    <2>3. N \in SUBSET DataFrames /\ \A f \in DataFrames : InPlay(f)' => InPlay(f) \/ f \in N
      BY <1>8
    <2>4. \A n \in N : FALSE
      OBVIOUS
    <2> HIDE DEF N
    <2> QED
      BY <1>1, <1>2, <2>1, <2>2, <2>3, <2>4, LinesStayApart
  <1> QED
    BY <1>6, <1>7, <1>9 DEF WholeInv

\* the id of the next long line was not drawn before
LEMMA FreshId ==
  ASSUME IdsApart, ChatTypes, NextId, NEW b \in Boards, typed[b] < Len(plan.lines[b]),
         NEW n \in DataFrames, n.id = msg_id[b] % IdModulus,
         NEW f \in DataFrames, IdDrawn(f)
  PROVE  ~ (f.count > 1 /\ f.id = n.id)
  <1> SUFFICES ASSUME f.count > 1, f.id = n.id PROVE FALSE
    OBVIOUS
  <1> DEFINE a == f.from
             first == FirstId[b][starts[b]]
             k == msg_id[b] - first
  <1>1. a \in Boards
    BY DataFacts
  <1>2. PICK s \in Nat, i \in Nat : Drawn(f, s, i)
    BY DEF IdDrawn
  <1>3. /\ starts[b] \in 1..plan.starts[b] /\ first \in Nat /\ msg_id[b] \in Nat
        /\ typed[b] \in Nat /\ Len(plan.lines[b]) \in Nat
    BY IdFacts
  <1>4. first <= msg_id[b] /\ msg_id[b] <= first + typed[b]
    BY DEF NextId
  <1>5. k \in 0..Len(plan.lines[b]) - 1 /\ first + k = msg_id[b]
    BY <1>3, <1>4
  <1>6. /\ s \in 1..plan.starts[a] /\ i \in 0..Len(plan.lines[a]) - 1
        /\ f.id = (FirstId[a][s] + i) % IdModulus
        /\ s = starts[a] => FirstId[a][s] + i < msg_id[a]
    <2>1. starts[a] \in 1..plan.starts[a] /\ plan.starts[a] \in Nat
      BY <1>1, IdFacts, PlanFacts DEF ChatTypes
    <2> QED
      BY <1>2, <2>1 DEF Drawn
  <1> HIDE DEF k
  <1>7. (FirstId[a][s] + i) % IdModulus = (FirstId[b][starts[b]] + k) % IdModulus
    BY <1>5, <1>6
  <1>8. plan \in Plans
    BY DEF ChatTypes
  <1>9. a = b /\ s = starts[b] /\ i = k
    <2>1. \A t \in 1..plan.starts[a], u \in 1..plan.starts[b] :
            \A j \in 0..Len(plan.lines[a]) - 1, l \in 0..Len(plan.lines[b]) - 1 :
              (FirstId[a][t] + j) % IdModulus = (FirstId[b][u] + l) % IdModulus
                => a = b /\ t = u /\ j = l
      BY <1>1, <1>8, Zenon DEF IdsApart
    <2>2. /\ s \in 1..plan.starts[a] /\ starts[b] \in 1..plan.starts[b]
          /\ i \in 0..Len(plan.lines[a]) - 1 /\ k \in 0..Len(plan.lines[b]) - 1
      BY <1>3, <1>5, <1>6
    <2>3. \A j \in 0..Len(plan.lines[a]) - 1, l \in 0..Len(plan.lines[b]) - 1 :
            (FirstId[a][s] + j) % IdModulus = (FirstId[b][starts[b]] + l) % IdModulus
              => a = b /\ s = starts[b] /\ j = l
      BY <2>1, <2>2, Zenon
    <2> QED
      BY <1>7, <2>2, <2>3
  <1> QED
    BY <1>3, <1>5, <1>6, <1>9

\* a frame sent first comes into play, and nothing else
LEMMA NewInPlay ==
  ASSUME ChatTypes, NEW b \in Boards, NEW n \in DataFrames,
         UNCHANGED <<tx, reassembly>>, rx' = rx \/ rx' = [rx EXCEPT ![b] = NoFrame],
         sending' = sending \/ sending' = [sending EXCEPT ![b] = n],
         job' = [job EXCEPT ![b] = n]
  PROVE  \A f \in DataFrames : InPlay(f)' => InPlay(f) \/ f = n
  <1> SUFFICES ASSUME NEW f \in DataFrames, NEW c \in Boards, At(c, f)', f # n
               PROVE  At(c, f)
    BY DEF InPlay
  <1>1. /\ sending \in [Boards -> DataFrames \cup {NoFrame}]
        /\ job \in [Boards -> AnyFrames \cup {NoFrame}]
        /\ rx \in [Boards -> AnyFrames \cup {NoFrame, BadFrame}]
    BY DEF ChatTypes, SenderTypes, MailboxTypes
  <1>2. f # NoFrame /\ [n EXCEPT !.kind = "data"] = n
    BY DataFacts
  <1>3. f \in {sending'[c], tx'[c], rx'[c]} \cup reassembly'[c].parts
          => f \in {sending[c], tx[c], rx[c]} \cup reassembly[c].parts
    BY <1>1, <1>2
  <1>4. job'[c] = job[c] \/ job'[c] = n
    BY <1>1
  <1>5. job'[c] # NoFrame /\ f = [job'[c] EXCEPT !.kind = "data"] => job'[c] = job[c]
    BY <1>2, <1>4
  <1> QED
    BY <1>3, <1>5 DEF At, Acknowledged

\* the next fragment of a line
LEMMA PollAckWhole ==
  ASSUME IdsApart, ChatTypes, WholeInv, NEW b \in Boards, PollAck(b), ~ LastFrame(b)
  PROVE  WholeInv'
  <1> DEFINE cur == sending[b]
  <1>1. PICK n : n = DataFrame(b, typed[b], cur.idx + 1, cur.id)
    OBVIOUS
  <1>2. /\ Waiting(b) /\ rx' = [rx EXCEPT ![b] = NoFrame]
        /\ sending' = [sending EXCEPT ![b] = n] /\ job' = [job EXCEPT ![b] = n]
        /\ UNCHANGED <<plan, starts, typed, msg_id, reassembly, printed, tx>>
        /\ cur.idx + 1 # cur.count
    BY <1>1 DEF PollAck, TakeRx, Acknowledges, ArqSend, SendFrame, LastFrame, readerVars
  <1>3. LinesApart /\ NextId /\ OneMessage /\ ShownWhole /\ SenderTypes
    BY DEF WholeInv, ChatTypes
  <1>4. cur \in DataFrames /\ InPlay(cur) /\ cur.from = b
    BY <1>2, <1>3 DEF SenderTypes, Waiting, LinesApart, InPlay, At
  <1>5. /\ typed[b] \in 1..Len(plan.lines[b]) /\ cur.line = typed[b]
        /\ cur.count = plan.lines[b][typed[b]]
    <2>1. /\ typed[b] # 0 /\ cur.line = typed[b] /\ cur.count = plan.lines[b][typed[b]]
      BY <1>2 DEF ChatTypes, Lines
    <2>2. typed[b] \in Nat /\ Len(plan.lines[b]) \in Nat /\ typed[b] <= Len(plan.lines[b])
      BY IdFacts
    <2> QED
      BY <2>1, <2>2
  <1>6. /\ cur.idx \in Nat /\ cur.count \in Nat /\ cur.id \in MessageIds
        /\ cur.idx + 1 \in Nat /\ cur.idx + 1 < cur.count
    BY <1>2, <1>4, FrameFacts, FieldTypes
  <1>7. n \in DataFrames /\ n.line = typed[b] /\ n.count = cur.count
    BY <1>1, <1>5, <1>6, DataFrameTyped
  <1>8. n.from = b /\ n.id = cur.id
    BY <1>1 DEF DataFrame
  <1> HIDE DEF cur
  <1>9. \A f \in DataFrames : InPlay(f)' => InPlay(f) \/ f = n
    BY <1>2, <1>7, NewInPlay
  <1>10. OneMessage' /\ ShownWhole' /\ NextId'
    BY <1>2, <1>3 DEF OneMessage, ShownWhole, NextId
  <1>11. LinesApart'
    <2>1. \A c \in Boards : Waiting(c)' => sending'[c].from = c
      BY <1>2, <1>3, <1>8 DEF SenderTypes, Waiting, LinesApart
    <2>2. \A c \in Boards : msg_id'[c] \in Nat /\ msg_id[c] <= msg_id'[c]
      BY <1>2, IdFacts
    <2>3. IF plan.arq THEN IdDrawn(n)' ELSE n.count = 1
      <3>1. IF plan.arq THEN IdDrawn(cur) ELSE cur.count = 1
        BY <1>3, <1>4 DEF LinesApart
      <3>2. IdDrawn(cur) => IdDrawn(n)'
        <4> SUFFICES ASSUME IdDrawn(cur), n.count > 1
                     PROVE  \E s \in Nat, i \in Nat : Drawn(n, s, i)'
          BY DEF IdDrawn
        <4>1. PICK s \in Nat, i \in Nat : Drawn(cur, s, i)
          BY <1>7 DEF IdDrawn
        <4>2. Drawn(n, s, i)'
          BY <1>2, <1>4, <1>8, <4>1 DEF Drawn
        <4> QED
          BY <4>2
      <3> QED
        BY <1>7, <3>1, <3>2
    <2>4. \A f \in DataFrames : InPlay(f) => SameLine(f, n)
      BY <1>3, <1>4, <1>5, <1>7, <1>8 DEF LinesApart, SameLine
    <2> DEFINE N == {n}
    <2>5. N \in SUBSET DataFrames /\ \A f \in DataFrames : InPlay(f)' => InPlay(f) \/ f \in N
      BY <1>7, <1>9
    <2>6. /\ \A m \in N : IF plan.arq THEN IdDrawn(m)' ELSE m.count = 1
          /\ \A m, k \in N : m = k
          /\ \A f \in DataFrames : \A m \in N : InPlay(f) => SameLine(f, m)
      BY <2>3, <2>4
    <2> HIDE DEF N
    <2> QED
      BY <1>2, <1>3, <2>1, <2>2, <2>5, <2>6, LinesStayApart
  <1> QED
    BY <1>10, <1>11 DEF WholeInv

\* the first frame of a line, as it is sent
LEMMA TypedFrame ==
  ASSUME ChatTypes, NEW b \in Boards, TypeLine(b)
  PROVE  \E n \in DataFrames :
           /\ n.from = b
           /\ job' = [job EXCEPT ![b] = n]
           /\ (sending' = sending /\ ~ plan.arq) \/ sending' = [sending EXCEPT ![b] = n]
           /\ ~ plan.arq => n.count = 1
           /\ plan.arq /\ n.count > 1 => /\ n.id = msg_id[b] % IdModulus
                                         /\ msg_id' = [msg_id EXCEPT ![b] = @ + 1]
  <1> DEFINE m == typed[b] + 1
             long == plan.lines[b][m] > 1
             f == DataFrame(b, m, 0, IF long THEN msg_id[b] % IdModulus ELSE 0)
             g == [f EXCEPT !.id = 0, !.count = 1]
  <1>1. CASE plan.arq
    <2>1. /\ sending' = [sending EXCEPT ![b] = f] /\ job' = [job EXCEPT ![b] = f]
          /\ msg_id' = IF long THEN [msg_id EXCEPT ![b] = @ + 1] ELSE msg_id
      BY <1>1 DEF TypeLine, ArqSend, SendFrame
    <2>2. /\ f.from = b /\ f.count = plan.lines[b][m]
          /\ f.id = IF long THEN msg_id[b] % IdModulus ELSE 0
      BY DEF DataFrame
    <2>3. f \in DataFrames
      <3>1. ChatTypes'
        BY TypeLineTyped
      <3>2. sending'[b] = f
        BY <2>1 DEF ChatTypes, SenderTypes
      <3>3. f # NoFrame
        BY DEF DataFrame, NoFrame
      <3> QED
        BY <3>1, <3>2, <3>3 DEF ChatTypes, SenderTypes
    <2> QED
      BY <1>1, <2>1, <2>2, <2>3
  <1>2. CASE ~ plan.arq
    <2>1. sending' = sending /\ job' = [job EXCEPT ![b] = g]
      BY <1>2 DEF TypeLine, SendFrame
    <2>2. g.from = b /\ g.count = 1 /\ g.kind = "data"
      BY DEF DataFrame
    <2>3. g \in DataFrames
      <3>1. ChatTypes'
        BY TypeLineTyped
      <3>2. job'[b] = g
        BY <2>1 DEF ChatTypes, SenderTypes
      <3>3. g # NoFrame
        BY <2>2, FrameFacts
      <3>4. g \in AnyFrames
        BY <3>1, <3>2, <3>3 DEF ChatTypes, SenderTypes
      <3> QED
        BY <2>2, <3>4, FrameFacts
    <2> QED
      BY <1>2, <2>1, <2>2, <2>3
  <1> QED
    BY <1>1, <1>2

\* a line is typed
LEMMA TypeLineWhole ==
  ASSUME IdsApart, ChatTypes, WholeInv, NEW b \in Boards, TypeLine(b)
  PROVE  WholeInv'
  <1>1. /\ UNCHANGED <<plan, starts, reassembly, printed, tx, rx>>
        /\ typed[b] < Len(plan.lines[b]) /\ typed' = [typed EXCEPT ![b] = @ + 1]
        /\ msg_id' \in {msg_id, [msg_id EXCEPT ![b] = @ + 1]}
    BY DEF TypeLine, readerVars, mailboxVars
  <1>2. LinesApart /\ NextId /\ OneMessage /\ ShownWhole /\ SenderTypes
    BY DEF WholeInv, ChatTypes
  <1>3. PICK n \in DataFrames :
          /\ n.from = b
          /\ job' = [job EXCEPT ![b] = n]
          /\ (sending' = sending /\ ~ plan.arq) \/ sending' = [sending EXCEPT ![b] = n]
          /\ ~ plan.arq => n.count = 1
          /\ plan.arq /\ n.count > 1 => /\ n.id = msg_id[b] % IdModulus
                                        /\ msg_id' = [msg_id EXCEPT ![b] = @ + 1]
    BY TypedFrame
  <1>4. \A f \in DataFrames : InPlay(f)' => InPlay(f) \/ f = n
    BY <1>1, <1>3, NewInPlay
  <1>5. OneMessage' /\ ShownWhole'
    BY <1>1, <1>2 DEF OneMessage, ShownWhole
  <1>6. /\ \A c \in Boards : /\ msg_id'[c] \in {msg_id[c], msg_id[c] + 1}
                             /\ typed'[c] \in {typed[c], typed[c] + 1}
                             /\ msg_id'[c] = msg_id[c] + 1 => typed'[c] = typed[c] + 1
    BY <1>1, <1>2, IdFacts DEF SenderTypes
  <1>7. NextId'
    <2> SUFFICES ASSUME NEW c \in Boards
                 PROVE  /\ FirstId[c][starts[c]] <= msg_id'[c]
                        /\ msg_id'[c] <= FirstId[c][starts[c]] + typed'[c]
      BY <1>1 DEF NextId
    <2>1. FirstId[c][starts[c]] <= msg_id[c] /\ msg_id[c] <= FirstId[c][starts[c]] + typed[c]
      BY <1>2 DEF NextId
    <2> QED
      BY <1>6, <2>1, IdFacts
  <1>8. LinesApart'
    <2>1. \A c \in Boards : Waiting(c)' => sending'[c].from = c
      <3>1. sending' = sending \/ sending' = [sending EXCEPT ![b] = n]
        BY <1>3
      <3>2. n.from = b
        BY <1>3
      <3> QED
        BY <1>2, <3>1, <3>2 DEF SenderTypes, Waiting, LinesApart
    <2>2. \A c \in Boards : msg_id'[c] \in Nat /\ msg_id[c] <= msg_id'[c]
      BY <1>6, IdFacts
    <2>3. IF plan.arq THEN IdDrawn(n)' ELSE n.count = 1
      <3> SUFFICES ASSUME plan.arq, n.count > 1
                   PROVE  \E s \in Nat, i \in Nat : Drawn(n, s, i)'
        BY <1>3 DEF IdDrawn
      <3>1. PICK s : s = starts[b]
        OBVIOUS
      <3>2. /\ s \in Nat /\ FirstId[b][s] \in Nat /\ msg_id[b] \in Nat /\ typed[b] \in Nat
            /\ Len(plan.lines[b]) \in Nat /\ s \in 1..s
        <4>1. s \in 1..plan.starts[b] /\ plan.starts[b] \in Nat
          BY <3>1, IdFacts, PlanFacts DEF ChatTypes
        <4> QED
          BY <4>1, IdFacts
      <3>3. FirstId[b][s] <= msg_id[b] /\ msg_id[b] <= FirstId[b][s] + typed[b]
        BY <1>2, <3>1 DEF NextId
      <3>4. PICK i \in Nat : FirstId[b][s] + i = msg_id[b] /\ i <= typed[b]
        <4>1. /\ msg_id[b] - FirstId[b][s] \in Nat
              /\ FirstId[b][s] + (msg_id[b] - FirstId[b][s]) = msg_id[b]
              /\ msg_id[b] - FirstId[b][s] <= typed[b]
          BY <3>2, <3>3
        <4> QED
          BY <4>1
      <3>5. i \in 0..Len(plan.lines[b]) - 1
        BY <1>1, <3>2, <3>4
      <3>6. n.id = msg_id[b] % IdModulus /\ msg_id'[b] = msg_id[b] + 1
        BY <1>2, <1>3 DEF SenderTypes
      <3>7. Drawn(n, s, i)'
        BY <1>1, <1>3, <3>1, <3>2, <3>4, <3>5, <3>6 DEF Drawn
      <3> QED
        BY <3>2, <3>7
    <2>4. ASSUME NEW f \in DataFrames, InPlay(f) PROVE SameLine(f, n)
      <3> SUFFICES ASSUME f.count > 1, n.count > 1, f.id = n.id PROVE FALSE
        BY DEF SameLine
      <3>1. plan.arq /\ IdDrawn(f)
        BY <1>2, <1>3, <2>4 DEF LinesApart
      <3>2. n.id = msg_id[b] % IdModulus
        BY <1>3, <3>1
      <3> QED
        BY <1>1, <1>2, <3>1, <3>2, FreshId
    <2> DEFINE N == {n}
    <2>5. N \in SUBSET DataFrames /\ \A f \in DataFrames : InPlay(f)' => InPlay(f) \/ f \in N
      BY <1>4
    <2>6. /\ \A m \in N : IF plan.arq THEN IdDrawn(m)' ELSE m.count = 1
          /\ \A m, k \in N : m = k
          /\ \A f \in DataFrames : \A m \in N : InPlay(f) => SameLine(f, m)
      BY <2>3, <2>4
    <2> HIDE DEF N
    <2> QED
      BY <1>1, <1>2, <2>1, <2>2, <2>5, <2>6, LinesStayApart
  <1> QED
    BY <1>5, <1>7, <1>8 DEF WholeInv

\* a chat that starts draws its ids from a new place
LEMMA StartWhole ==
  ASSUME ChatTypes, StartsLeft, WholeInv, NEW b \in Boards, Start(b)
  PROVE  WholeInv'
  <1>1. /\ UNCHANGED <<plan, job, typed, sending, tx, printed>>
        /\ rx' = [rx EXCEPT ![b] = NoFrame]
        /\ reassembly' = [reassembly EXCEPT ![b] = NoMessage]
        /\ starts' = [starts EXCEPT ![b] = @ + 1]
        /\ msg_id' = [msg_id EXCEPT ![b] = FirstId[b][starts[b] + 1]]
        /\ step[b] = "off"
    BY DEF Start, screen
  <1>2. LinesApart /\ NextId /\ OneMessage /\ ShownWhole /\ SenderTypes /\ ReaderTypes
        /\ MailboxTypes
    BY DEF WholeInv, ChatTypes
  <1>3. FirstId[b][starts[b] + 1] \in Nat
    <2>1. starts[b] < plan.starts[b]
      BY <1>1 DEF StartsLeft
    <2>2. starts[b] \in 1..plan.starts[b] /\ plan.starts[b] \in Nat
      BY IdFacts, PlanFacts DEF ChatTypes
    <2>3. starts[b] + 1 \in 1..plan.starts[b]
      BY <2>1, <2>2
    <2> QED
      BY <2>3, IdFacts
  <1>4. OneMessage' /\ ShownWhole'
    <2>1. \A c \in Boards : reassembly'[c] = reassembly[c] \/ reassembly'[c].parts = {}
      BY <1>1, <1>2 DEF ReaderTypes, NoMessage
    <2>2. OneMessage'
      BY <1>2, <2>1 DEF OneMessage
    <2>3. ShownWhole'
      BY <1>1, <1>2 DEF ShownWhole
    <2> QED
      BY <2>2, <2>3
  <1>5. NextId'
    <2> SUFFICES ASSUME NEW c \in Boards
                 PROVE  /\ FirstId[c][starts'[c]] <= msg_id'[c]
                        /\ msg_id'[c] <= FirstId[c][starts'[c]] + typed[c]
      BY <1>1 DEF NextId
    <2>1. CASE c = b
      <3>1. starts'[c] = starts[b] + 1 /\ msg_id'[c] = FirstId[b][starts[b] + 1]
        BY <1>1, <1>2, <2>1 DEF SenderTypes
      <3>2. typed[c] \in Nat
        BY IdFacts
      <3> QED
        BY <1>3, <2>1, <3>1, <3>2
    <2>2. CASE c # b
      BY <1>1, <1>2, <2>2 DEF SenderTypes, NextId
    <2> QED
      BY <2>1, <2>2
  <1>6. \A f \in DataFrames : InPlay(f)' => InPlay(f)
    <2>1. \A c \in Boards : /\ rx'[c] \in {rx[c], NoFrame}
                            /\ reassembly'[c].parts \subseteq reassembly[c].parts
      BY <1>1, <1>2 DEF MailboxTypes, ReaderTypes, NoMessage
    <2> QED
      BY <1>1, <2>1, NothingNew
  <1>7. LinesApart'
    <2>1. \A c \in Boards : Waiting(c)' => sending'[c].from = c
      BY <1>1, <1>2 DEF Waiting, LinesApart
    <2>2. \A c \in Boards : /\ \/ starts'[c] = starts[c] /\ msg_id[c] <= msg_id'[c]
                               \/ starts'[c] = starts[c] + 1
                            /\ msg_id'[c] \in Nat
      BY <1>1, <1>2, <1>3, IdFacts DEF SenderTypes
    <2> DEFINE N == {}
    <2>3. N \in SUBSET DataFrames /\ \A f \in DataFrames : InPlay(f)' => InPlay(f) \/ f \in N
      BY <1>6
    <2>4. \A n \in N : FALSE
      OBVIOUS
    <2> HIDE DEF N
    <2> QED
      BY <1>1, <1>2, <2>1, <2>2, <2>3, <2>4, LinesStayApart
  <1> QED
    BY <1>4, <1>5, <1>7 DEF WholeInv

\* nothing is in play at the start
LEMMA InitWhole == Init => WholeInv
  <1> SUFFICES ASSUME Init PROVE WholeInv
    OBVIOUS
  <1>1. OneMessage /\ ShownWhole
    BY DEF Init, OneMessage, ShownWhole, NoMessage
  <1>2. \A f \in DataFrames : ~ InPlay(f)
    BY DataFacts DEF Init, InPlay, At, NoMessage
  <1>3. LinesApart
    BY <1>2 DEF Init, LinesApart, Waiting
  <1>4. NextId
    <2>1. \A b \in Boards : FirstId[b][1] \in Nat
      BY InitTyped, IdFacts DEF Init
    <2> QED
      BY <2>1 DEF Init, NextId
  <1> QED
    BY <1>1, <1>3, <1>4 DEF WholeInv

\* nothing moves
LEMMA StutterWhole ==
  ASSUME WholeInv, UNCHANGED vars
  PROVE  WholeInv'
  BY DEF vars, chatVars, senderVars, readerVars, mailboxVars, screen, WholeInv, NextId,
     LinesApart, OneMessage, ShownWhole, InPlay, At, Acknowledged, Waiting, IdDrawn, Drawn

\* every step
LEMMA StepWhole ==
  ASSUME IdsApart, ChatTypes, StartsLeft, WholeInv, NEW b \in Boards,
         \/ Sends(b) \/ Burst(b) \/ Polls(b) \/ TypeLine(b) \/ Repeat(b) \/ GiveUp(b)
         \/ Ends(b) \/ Start(b)
  PROVE  WholeInv'
  <1>1. CASE Sends(b)
    BY <1>1, MovesWhole, RxListenWhole DEF Sends
  <1>2. CASE Polls(b)
    BY <1>2, MovesWhole, PollPlainWhole, PollAckWhole DEF Polls
  <1>3. CASE TypeLine(b) \/ Start(b)
    BY <1>3, TypeLineWhole, StartWhole
  <1>4. CASE Burst(b) \/ Repeat(b) \/ GiveUp(b) \/ Ends(b)
    BY <1>4, MovesWhole
  <1> QED
    BY <1>1, <1>2, <1>3, <1>4

(***************************************************************************)
(* A line is shown whole, or not at all, whoever types, whatever is given  *)
(* up, restarted or lost, and over mailboxes that stall, when the ids of   *)
(* the lines that may meet differ.  It needs that: an id is 8 bits, and a  *)
(* fragment left over from a line with the same id and the same number of  *)
(* fragments is not told from one of the new line.                         *)
(***************************************************************************)
THEOREM ShowsWholeLines == IdsApart => (Spec => []ShownWhole)
  <1> SUFFICES ASSUME IdsApart PROVE Spec => []ShownWhole
    OBVIOUS
  <1>1. Init => ChatTypes /\ StartsLeft /\ WholeInv
    BY InitTyped, InitWhole DEF Init, StartsLeft
  <1>2. ChatTypes /\ StartsLeft /\ WholeInv /\ [Next]_vars
          => (ChatTypes /\ StartsLeft /\ WholeInv)'
    BY StepTyped, StutterTyped, StepWhole, StutterWhole DEF Next
  <1>3. WholeInv => ShownWhole
    BY DEF WholeInv
  <1> QED
    BY <1>1, <1>2, <1>3, PTL DEF Spec
=============================================================================
