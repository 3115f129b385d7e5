------------------------ MODULE ChatDeliveryProofs ------------------------
(***************************************************************************)
(* Chat with --arq keeps the promise of AckedDelivery: for any lines and   *)
(* fragments of one user, any tries, restarts of either chat and losses.   *)
(***************************************************************************)
EXTENDS ChatArqProofs

-----------------------------------------------------------------------------
(* The user's board is a, the reader's r.                                  *)

\* what r's chat has taken: a frame it acknowledges counts as taken
Remembers(r) == IF job[r].kind = "ack" THEN job[r].seq ELSE last_rx_seq[r]

Kept(r) == IF job[r].kind = "ack" /\ job[r].seq # last_rx_seq[r]
           THEN Use(r, Acknowledged(r)).left ELSE reassembly[r]

Taken(a, r) == Waiting(a) /\ Remembers(r) = sending[a].seq

\* a sequence number of a frame that a has sent
NumberUsed(a, n) ==
  \E t \in 1..starts[a] : \E j \in 0..16 * Len(plan.lines[a]) - 1 :
    /\ n = (FirstSeq[a][t] + j) % SeqModulus
    /\ t = starts[a] => FirstSeq[a][t] + j < seq[a]

Numbers(a, r) ==
  LET first == FirstSeq[a][starts[a]] IN
  /\ first <= seq[a]
  /\ Waiting(a) => /\ first < seq[a] /\ sending[a].seq = (seq[a] - 1) % SeqModulus
                   /\ seq[a] <= first + 16 * (typed[a] - 1) + sending[a].idx + 1
  /\ ~ Waiting(a) => seq[a] <= first + 16 * typed[a]
  /\ Remembers(r) = -1 \/ NumberUsed(a, Remembers(r))

\* a line that is waited for is not reported on
Reporting(a) ==
  IF Waiting(a) THEN settled[a] < typed[a] /\ step[a] # "off" ELSE settled[a] = typed[a]

\* what arrives at r is of the last line; what arrives at a acknowledges
\* a frame that was taken
Coming(a, r) ==
  /\ step[r] = "free" /\ rx[r].kind = "data" =>
       /\ rx[r].from = a /\ rx[r].line = typed[a] /\ typed[a] > 0
       /\ NumberUsed(a, rx[r].seq)
  /\ step[a] = "free" /\ rx[a] # NoFrame => Taken(a, r)

\* of a line under way r has the fragments up to the one a is at
Had(a, r) == IF Taken(a, r) THEN sending[a].idx + 1 ELSE sending[a].idx

HasUpTo(a, r, n) ==
  LET f == sending[a] IN
  /\ f.count > 1 /\ n > 0 => step[r] # "off"
  /\ n > 0 /\ n < f.count => /\ Kept(r).id = f.id /\ Kept(r).count = f.count
                             /\ {g.idx : g \in Kept(r).parts} = 0..n - 1
  /\ n = f.count => Delivery!Has(Arrived(a), typed[a])

Progress(a, r) == Waiting(a) /\ typed[a] \notin excused[a] => HasUpTo(a, r, Had(a, r))

DeliveryOf(a, r) ==
  printed[a] = <<>> /\ Numbers(a, r) /\ Reporting(a) /\ Coming(a, r) /\ Progress(a, r)

DeliveryInv == Prompt => \A a, r \in Boards : a # r /\ Reads(r) => DeliveryOf(a, r)

-----------------------------------------------------------------------------
(* Lemmas.                                                                 *)

\* the premises of every lemma here
Between(a, r) ==
  /\ ChatTypes /\ ListenInv /\ OrderInv /\ WholeInv /\ Prompt
  /\ a # r /\ Reads(r) /\ DeliveryOf(a, r)

\* what they say of the two boards
LEMMA Situation ==
  ASSUME NEW a \in Boards, NEW r \in Boards, Between(a, r)
  PROVE  /\ Peer(a) = r /\ Peer(r) = a /\ \A c \in Boards : c = a \/ c = r
         /\ plan \in Plans /\ plan.arq /\ ~ plan.stalls
         /\ Listening /\ Mailboxes /\ OneBurst(a, r)
         /\ ~ Waiting(r) /\ typed[r] = 0 /\ settled[r] = 0 /\ ~ TypeLine(r)
         /\ job[r].kind # "data" /\ job[a].kind # "ack"
         /\ job[a] # NoFrame => job[a] = sending[a]
         /\ Waiting(a) => sending[a] \in DataFrames
  <1>1. /\ ChatTypes /\ ListenInv /\ Prompt /\ a # r /\ Reads(r) /\ OneTypist
        /\ plan.arq /\ ~ plan.stalls
    BY DEF Between, Prompt
  <1>2. Mailboxes /\ OneAtATime /\ Listening
    BY <1>1 DEF ListenInv, Listening
  <1>3. OneBurst(a, r)
    BY <1>1, <1>2 DEF OneAtATime
  <1>4. Peer(a) = r /\ Peer(r) = a /\ \A c \in Boards : c = a \/ c = r
    BY <1>1, PeerIs
  <1>5. typed[r] = 0 /\ ~ TypeLine(r)
    BY <1>1, ReaderIdle
  <1>6. settled[r] = 0
    BY <1>1, <1>5 DEF ChatTypes, SenderTypes, Lines
  <1>7. Waiting(a) => sending[a] \in DataFrames
    BY <1>1 DEF ChatTypes, SenderTypes, Waiting
  <1>8. job[a].kind # "ack"
    <2>1. CASE job[a] = NoFrame
      BY <2>1, FrameFacts
    <2>2. CASE job[a] # NoFrame
      <3>1. job[a] = sending[a] /\ Waiting(a)
        BY <1>1, <1>3, <2>2 DEF OneBurst, Waiting
      <3> QED
        BY <1>7, <3>1, FrameFacts
    <2> QED
      BY <2>1, <2>2
  <1> QED
    BY <1>1, <1>2, <1>3, <1>4, <1>5, <1>6, <1>8, <1>7 DEF OneBurst, ChatTypes

\* sequence numbers and lines
LEMMA NumberFacts ==
  ASSUME ChatTypes, NEW a \in Boards
  PROVE  /\ starts[a] \in 1..plan.starts[a] /\ starts[a] \in Nat /\ seq[a] \in Nat
         /\ FirstSeq[a][starts[a]] \in Nat
         /\ typed[a] \in Nat /\ Len(plan.lines[a]) \in Nat /\ typed[a] <= Len(plan.lines[a])
         /\ plan \in Plans /\ plan.starts[a] \in Nat
         /\ \A s \in 1..plan.starts[a] : FirstSeq[a][s] \in Nat
  <1>1. /\ starts[a] \in 1..plan.starts[a] /\ typed[a] <= Len(plan.lines[a])
        /\ seq[a] \in Nat /\ typed[a] \in Nat /\ plan \in Plans
    BY DEF ChatTypes, Lines, SenderTypes
  <1>2. /\ plan.starts[a] \in Nat /\ FirstSeq[a] \in Seq(Nat)
        /\ plan.starts[a] <= Len(FirstSeq[a]) /\ Len(plan.lines[a]) \in Nat
    BY <1>1, PlanFacts
  <1>3. \A s \in 1..plan.starts[a] : FirstSeq[a][s] \in Nat
    BY <1>2
  <1> QED
    BY <1>1, <1>2, <1>3

\* a line takes at most 16 frames
LEMMA FrameCount ==
  ASSUME NEW n \in 1..16
  PROVE  n \in Nat /\ 0 < n /\ n # 0 /\ n <= 16
  OBVIOUS

\* the frame under way: its line, its number
LEMMA CurrentFrame ==
  ASSUME NEW a \in Boards, NEW r \in Boards, Between(a, r), Waiting(a)
  PROVE  /\ sending[a] \in DataFrames /\ sending[a].from = a /\ sending[a].line = typed[a]
         /\ typed[a] \in 1..Len(plan.lines[a]) /\ typed[a] > 0
         /\ sending[a].count = plan.lines[a][typed[a]] /\ sending[a].count \in 1..16
         /\ sending[a].idx \in Nat /\ sending[a].idx < sending[a].count
         /\ sending[a].id \in MessageIds
         /\ NumberUsed(a, sending[a].seq)
  <1>1. ChatTypes /\ LinesApart /\ Numbers(a, r)
    BY DEF Between, WholeInv, DeliveryOf
  <1>2. /\ sending[a] \in DataFrames /\ sending[a].from = a
    BY <1>1, Situation DEF LinesApart
  <1>3. /\ typed[a] # 0 /\ sending[a].line = typed[a]
        /\ sending[a].count = plan.lines[a][typed[a]]
    BY <1>1 DEF ChatTypes, Lines
  <1>4. typed[a] \in 1..Len(plan.lines[a]) /\ typed[a] > 0
    BY <1>1, <1>3, NumberFacts
  <1>5. sending[a].count \in 1..16
    <2>1. plan.lines[a] \in Seq(1..16)
      BY <1>1, PlanFacts DEF ChatTypes
    <2>2. \A s \in Seq(1..16) : \A i \in 1..Len(s) : s[i] \in 1..16
      OBVIOUS
    <2> QED
      BY <1>3, <1>4, <2>1, <2>2
  <1>6. /\ sending[a].idx \in Nat /\ sending[a].idx < sending[a].count
        /\ sending[a].id \in MessageIds
    BY <1>2, FrameFacts, FieldTypes
  <1>7. NumberUsed(a, sending[a].seq)
    <2> DEFINE first == FirstSeq[a][starts[a]]
               j == seq[a] - 1 - first
    <2>1. /\ first < seq[a] /\ sending[a].seq = (seq[a] - 1) % SeqModulus
          /\ seq[a] <= first + 16 * (typed[a] - 1) + sending[a].idx + 1
      BY <1>1 DEF Numbers
    <2>2. /\ starts[a] \in 1..starts[a] /\ first \in Nat /\ seq[a] \in Nat
          /\ typed[a] \in Nat /\ Len(plan.lines[a]) \in Nat
      BY <1>1, NumberFacts
    <2> HIDE DEF first
    <2>3. j \in 0..16 * Len(plan.lines[a]) - 1 /\ first + j = seq[a] - 1
      <3>1. sending[a].idx \in Nat /\ sending[a].idx + 1 <= 16
        BY <1>5, <1>6
      <3>2. typed[a] \in Nat /\ Len(plan.lines[a]) \in Nat /\ typed[a] <= Len(plan.lines[a])
        BY <1>4, <2>2
      <3>3. first \in Nat /\ seq[a] \in Nat /\ first < seq[a]
            /\ seq[a] <= first + 16 * (typed[a] - 1) + sending[a].idx + 1
        BY <2>1, <2>2
      <3>4. \A x, y, m, n, i \in Nat :
              x < y /\ y <= x + 16 * (m - 1) + i + 1 /\ m <= n /\ i + 1 <= 16
                => y - 1 - x \in 0..16 * n - 1 /\ x + (y - 1 - x) = y - 1
        OBVIOUS
      <3> QED
        BY <3>1, <3>2, <3>3, <3>4
    <2>4. sending[a].seq = (first + j) % SeqModulus /\ first + j < seq[a]
      BY <2>1, <2>2, <2>3
    <2> HIDE DEF j
    <2> QED
      BY <2>2, <2>3, <2>4 DEF NumberUsed, first
  <1> QED
    BY <1>2, <1>3, <1>4, <1>5, <1>6, <1>7

\* a number that was used stays so
LEMMA UsedStays ==
  ASSUME ChatTypes, NEW a \in Boards, NEW n, NumberUsed(a, n), plan' = plan,
         \/ starts'[a] = starts[a] /\ seq'[a] \in Nat /\ seq[a] <= seq'[a]
         \/ starts'[a] = starts[a] + 1
  PROVE  NumberUsed(a, n)'
  <1>1. PICK t \in 1..starts[a], j \in 0..16 * Len(plan.lines[a]) - 1 :
               /\ n = (FirstSeq[a][t] + j) % SeqModulus
               /\ t = starts[a] => FirstSeq[a][t] + j < seq[a]
    BY DEF NumberUsed
  <1>2. /\ starts[a] \in Nat /\ seq[a] \in Nat /\ FirstSeq[a][t] \in Nat /\ j \in Int
    <2>1. t \in 1..plan.starts[a]
      BY NumberFacts
    <2> QED
      BY <2>1, NumberFacts
  <1>3. t \in 1..starts'[a] /\ (t = starts'[a] => t = starts[a])
    BY <1>2
  <1>4. t = starts'[a] => FirstSeq[a][t] + j < seq'[a]
    BY <1>1, <1>2, <1>3
  <1> QED
    BY <1>1, <1>3, <1>4 DEF NumberUsed

\* the next number was never used
LEMMA NextUnused ==
  ASSUME SeqsApart, NEW a \in Boards, ChatTypes,
         FirstSeq[a][starts[a]] <= seq[a],
         seq[a] < FirstSeq[a][starts[a]] + 16 * Len(plan.lines[a])
  PROVE  ~ NumberUsed(a, seq[a] % SeqModulus)
  <1> SUFFICES ASSUME NumberUsed(a, seq[a] % SeqModulus) PROVE FALSE
    OBVIOUS
  <1> DEFINE first == FirstSeq[a][starts[a]]
             i == seq[a] - first
  <1>1. PICK t \in 1..starts[a], j \in 0..16 * Len(plan.lines[a]) - 1 :
               /\ seq[a] % SeqModulus = (FirstSeq[a][t] + j) % SeqModulus
               /\ t = starts[a] => FirstSeq[a][t] + j < seq[a]
    BY DEF NumberUsed
  <1>2. /\ starts[a] \in 1..plan.starts[a] /\ t \in 1..plan.starts[a] /\ plan \in Plans
        /\ first \in Nat /\ seq[a] \in Nat /\ Len(plan.lines[a]) \in Nat
    BY NumberFacts
  <1>3. i \in 0..16 * Len(plan.lines[a]) - 1 /\ first + i = seq[a]
    <2> HIDE DEF first
    <2>1. first <= seq[a] /\ seq[a] < first + 16 * Len(plan.lines[a])
      BY DEF first
    <2> QED
      BY <1>2, <2>1
  <1>4. (first + i) % SeqModulus = (FirstSeq[a][t] + j) % SeqModulus
    BY <1>1, <1>3
  <1>5. starts[a] = t /\ i = j
    <2> HIDE DEF i
    <2> QED
      BY <1>2, <1>3, <1>4 DEF SeqsApart
  <1> QED
    BY <1>1, <1>2, <1>3, <1>5

-----------------------------------------------------------------------------
(* Steps that leave what the reader has alone.                             *)

\* what has to be shown of a step
Delivers(a, r) == DeliveryOf(a, r)' /\ Delivery!Step

\* a chat that takes nothing and finishes no answer shows nothing new
LEMMA ReaderStill ==
  ASSUME NEW c \in Boards,
         \/ UNCHANGED <<job[c], last_rx_seq[c], reassembly[c]>>
         \/ job[c].kind # "ack" /\ job'[c].kind # "ack"
  PROVE  /\ AboutToShow(c)' = AboutToShow(c)
         /\ UNCHANGED <<last_rx_seq[c], reassembly[c]>> =>
              Remembers(c)' = Remembers(c) /\ Kept(c)' = Kept(c)
  <1>1. CASE UNCHANGED <<job[c], last_rx_seq[c], reassembly[c]>>
    <2>1. Use(c, Acknowledged(c))' = Use(c, Acknowledged(c))
      BY <1>1 DEF Use, TakeFragment, Reassembly, Acknowledged
    <2> QED
      BY <1>1, <2>1 DEF AboutToShow, Remembers, Kept
  <1>2. CASE job[c].kind # "ack" /\ job'[c].kind # "ack"
    BY <1>2 DEF AboutToShow, Remembers, Kept
  <1> QED
    BY <1>1, <1>2

\* nothing new has arrived then
LEMMA ArrivedStays ==
  ASSUME NEW b \in Boards, NEW c \in Boards, Peer(b) = c, printed'[c] = printed[c],
         AboutToShow(c)' = AboutToShow(c)
  PROVE  Arrived(b)' = Arrived(b)
  <1>1. ShownBy(c)' = ShownBy(c)
    BY DEF ShownBy
  <1> QED
    BY <1>1 DEF Arrived

\* for the abstract specification nothing happens
LEMMA AbstractStill ==
  ASSUME UNCHANGED <<plan, typed, settled, acked, excused>>,
         \A b \in Boards : Arrived(b)' = Arrived(b)
  PROVE  Delivery!Step
  BY DEF Delivery!Step, Delivery!deliveryVars

\* numbers used and progress, when neither side moves
LEMMA StillStep ==
  ASSUME NEW a \in Boards, NEW r \in Boards, Between(a, r),
         UNCHANGED <<plan, starts, typed, sending, seq, settled, acked, excused>>,
         printed'[a] = printed[a],
         Remembers(r)' = Remembers(r), Kept(r)' = Kept(r),
         Arrived(a)' = Arrived(a), Arrived(r)' = Arrived(r),
         Coming(a, r)', step'[r] = "off" => step[r] = "off",
         step'[a] = "off" => step[a] = "off"
  PROVE  Delivers(a, r)
  <1>1. /\ DeliveryOf(a, r) /\ ChatTypes /\ \A c \in Boards : c = a \/ c = r
    BY Situation DEF Between
  <1>2. (Waiting(a)' <=> Waiting(a)) /\ (Taken(a, r)' <=> Taken(a, r))
    BY DEF Waiting, Taken
  <1>3. \A n : NumberUsed(a, n)' <=> NumberUsed(a, n)
    BY DEF NumberUsed
  <1>4. Numbers(a, r)'
    BY <1>1, <1>2, <1>3 DEF DeliveryOf, Numbers
  <1>5. Reporting(a)'
    BY <1>1, <1>2 DEF DeliveryOf, Reporting
  <1>6. Progress(a, r)'
    BY <1>1, <1>2 DEF DeliveryOf, Progress, Had, HasUpTo, Delivery!Has
  <1>7. Delivery!Step
    BY <1>1, AbstractStill
  <1> QED
    BY <1>1, <1>4, <1>5, <1>6, <1>7 DEF DeliveryOf, Delivers

\* send_frame before its end, and bursts
LEMMA SendDelivers ==
  ASSUME NEW a \in Boards, NEW r \in Boards, Between(a, r), NEW b \in Boards,
         RxStop(b) \/ TxStart(b) \/ NotTaken(b) \/ TakeOwn(b)
  PROVE  Delivers(a, r)
  <1> USE DEF chatVars, senderVars, readerVars, mailboxVars, screen, reports
  <1>1. ~ NotTaken(b)
    BY Situation DEF NotTaken
  <1>2. /\ UNCHANGED <<plan, starts, job, typed, sending, seq, settled, acked, excused,
                       last_rx_seq, reassembly, printed>>
    BY <1>1 DEF RxStop, TxStart, TakeOwn
  <1>3. /\ \A c \in Boards : /\ step'[c] \in {"free", "off"} => step'[c] = step[c]
                             /\ rx'[c] \in {rx[c], NoFrame}
    BY <1>1 DEF RxStop, TxStart, TakeOwn, Between, ChatTypes, SenderTypes, MailboxTypes
  <1>4. \A c \in Boards : /\ AboutToShow(c)' = AboutToShow(c)
                          /\ Remembers(c)' = Remembers(c) /\ Kept(c)' = Kept(c)
    BY <1>2, ReaderStill
  <1>5. Arrived(a)' = Arrived(a) /\ Arrived(r)' = Arrived(r)
    BY <1>2, <1>4, ArrivedStays, Situation
  <1>6. Coming(a, r)'
    BY <1>2, <1>3, <1>4, FrameFacts
    DEF Between, DeliveryOf, Coming, Taken, Waiting, NumberUsed
  <1> QED
    BY <1>2, <1>3, <1>4, <1>5, <1>6, StillStep

\* a burst ends: what arrives at r is the frame under way, what arrives at a is
\* the answer to it
LEMMA BurstDelivers ==
  ASSUME NEW a \in Boards, NEW r \in Boards, Between(a, r), NEW b \in Boards, Burst(b)
  PROVE  Delivers(a, r)
  <1> USE DEF chatVars, senderVars, readerVars, mailboxVars, screen, reports
  <1>1. PICK reaches \in BOOLEAN, heard \in BOOLEAN : TxDone(b, reaches, heard)
    BY DEF Burst
  <1>2. /\ UNCHANGED <<plan, starts, job, typed, sending, seq, settled, acked, excused,
                       last_rx_seq, reassembly, printed, step, tx>>
        /\ tx_busy[b]
    BY <1>1 DEF TxDone
  <1>3. /\ rx \in [Boards -> AnyFrames \cup {NoFrame, BadFrame}]
        /\ b = a \/ b = r
        /\ Mailboxes /\ OneBurst(a, r) /\ Jobs
    BY Situation DEF Between, ChatTypes, MailboxTypes
  <1>4. step[b] = "own" /\ tx[b] = job[b] /\ job[b] # NoFrame
    BY <1>2, <1>3 DEF Mailboxes, Jobs
  <1>5. \A c \in Boards : /\ c # b => rx'[c] = rx[c] \/ (rx[c] = NoFrame /\ rx'[c] = job[b])
    BY <1>1, <1>3, <1>4, PeerIs DEF TxDone, Delivered
  <1>6. \A c \in Boards : /\ AboutToShow(c)' = AboutToShow(c)
                          /\ Remembers(c)' = Remembers(c) /\ Kept(c)' = Kept(c)
    BY <1>2, ReaderStill
  <1>7. Arrived(a)' = Arrived(a) /\ Arrived(r)' = Arrived(r)
    BY <1>2, <1>6, ArrivedStays, Situation
  <1>8. Coming(a, r)
    BY DEF Between, DeliveryOf
  <1>9. (Taken(a, r)' <=> Taken(a, r)) /\ \A n : NumberUsed(a, n)' <=> NumberUsed(a, n)
    BY <1>2, <1>6 DEF Taken, Waiting, NumberUsed
  <1>10. ASSUME step'[r] = "free", rx'[r].kind = "data"
         PROVE  /\ rx'[r].from = a /\ rx'[r].line = typed'[a] /\ typed'[a] > 0
                /\ NumberUsed(a, rx[r].seq)'
    <2>1. b = a
      BY <1>2, <1>3, <1>4, <1>10
    <2>2. CASE rx'[r] = rx[r]
      BY <1>2, <1>8, <1>10, <2>2 DEF Coming, NumberUsed
    <2>3. CASE rx'[r] = job[a]
      <3>1. rx'[r] = sending[a] /\ Waiting(a)
        BY <1>4, <2>1, <2>3, Situation DEF Waiting
      <3> QED
        <4>1. /\ sending[a].from = a /\ sending[a].line = typed[a] /\ typed[a] > 0
              /\ NumberUsed(a, sending[a].seq)
          BY <3>1, CurrentFrame
        <4>2. NumberUsed(a, rx[r].seq)'
          BY <1>2, <3>1, <4>1 DEF NumberUsed
        <4> QED
          BY <1>2, <3>1, <4>1, <4>2
    <2> QED
      BY <1>5, <2>1, <2>2, <2>3 DEF Between
  <1>11. ASSUME step'[a] = "free", rx'[a] # NoFrame
         PROVE  Taken(a, r)'
    <2>1. b = r
      BY <1>2, <1>3, <1>4, <1>11
    <2>2. CASE rx'[a] = rx[a]
      BY <1>2, <1>8, <1>9, <1>11, <2>2 DEF Coming
    <2>3. CASE rx'[a] = job[r]
      <3>1. Waiting(a) /\ job[r] = AckOf(sending[a])
        <4>1. Answering(r) /\ step[a] # "off" /\ step[r] # "free"
          BY <1>2, <1>4, <1>11, <2>1 DEF Answering, Talking
        <4> QED
          BY <1>3, <4>1, Situation DEF OneBurst
      <3>2. sending[a] \in DataFrames
        BY <3>1, Situation
      <3>3. job[r].kind = "ack" /\ job[r].seq = sending[a].seq
        <4>1. sending[a] \in AnyFrames
          BY <3>2, FrameFacts
        <4>2. AckOf(sending[a]).kind = "ack" /\ AckOf(sending[a]).seq = sending[a].seq
          BY <4>1, FrameFacts DEF AckOf, AnyFrames, Frames
        <4> QED
          BY <3>1, <4>2
      <3> QED
        BY <1>9, <3>1, <3>3 DEF Taken, Remembers
    <2> QED
      BY <1>5, <2>1, <2>2, <2>3 DEF Between
  <1>12. Coming(a, r)'
    BY <1>10, <1>11 DEF Coming
  <1> QED
    BY <1>2, <1>6, <1>7, <1>12, StillStep

\* what is about to be shown is shown when the answer has gone out
LEMMA AcceptShows ==
  ASSUME ChatTypes, NEW b \in Boards, job[b].kind = "ack", Accept(b, Acknowledged(b)),
         job'[b] = NoFrame, starts' = starts
  PROVE  /\ ShownBy(b)' = ShownBy(b) /\ Remembers(b)' = Remembers(b) /\ Kept(b)' = Kept(b)
         /\ \A c \in Boards : c # b => /\ printed'[c] = printed[c]
                                       /\ last_rx_seq'[c] = last_rx_seq[c]
                                       /\ reassembly'[c] = reassembly[c]
  <1> DEFINE h == Acknowledged(b)
             new == [start |-> starts[b], parts |-> Use(b, h).shows]
  <1>1. job'[b].kind # "ack" /\ h.seq = job[b].seq
    <2>1. job[b] \in AnyFrames
      BY AcknowledgedTyped
    <2>2. h.seq = job[b].seq
      BY <2>1 DEF Acknowledged, AnyFrames, Frames
    <2> QED
      BY <2>2, FrameFacts
  <1>2. /\ printed \in [Boards -> Seq([start : Nat, parts : SUBSET DataFrames])]
        /\ last_rx_seq \in [Boards -> {-1} \cup SeqNumbers]
        /\ reassembly \in [Boards -> [id : Int, count : Nat, parts : SUBSET DataFrames]]
    BY DEF ChatTypes, ReaderTypes
  <1>3. CASE h.seq = last_rx_seq[b]
    <2>1. UNCHANGED <<last_rx_seq, reassembly, printed>>
      BY <1>3 DEF Accept, readerVars
    <2> QED
      BY <1>1, <1>3, <2>1 DEF ShownBy, AboutToShow, Remembers, Kept
  <1>4. CASE h.seq # last_rx_seq[b]
    <2>1. /\ last_rx_seq' = [last_rx_seq EXCEPT ![b] = h.seq]
          /\ reassembly' = [reassembly EXCEPT ![b] = Use(b, h).left]
          /\ printed' = IF Use(b, h).shows = {} THEN printed
                        ELSE [printed EXCEPT ![b] = Append(@, new)]
      BY <1>4 DEF Accept, Show
    <2>2. AboutToShow(b) = Use(b, h).shows /\ AboutToShow(b)' = {}
      BY <1>1, <1>4 DEF AboutToShow
    <2>3. Remembers(b)' = Remembers(b) /\ Kept(b)' = Kept(b)
      BY <1>1, <1>2, <1>4, <2>1 DEF Remembers, Kept
    <2>4. ShownBy(b)' = ShownBy(b)
      <3>1. CASE Use(b, h).shows = {}
        BY <2>1, <2>2, <3>1 DEF ShownBy
      <3>2. CASE Use(b, h).shows # {}
        <4> DEFINE T == [start : Nat, parts : SUBSET DataFrames]
                   P == [k \in 1..Len(printed[b]) |-> printed[b][k].parts]
        <4>1. printed'[b] = Append(printed[b], new) /\ printed[b] \in Seq(T)
          BY <1>2, <2>1, <3>2
        <4>2. new.parts = AboutToShow(b)
          BY <2>2
        <4> HIDE DEF T, new
        <4>3. /\ ShownBy(b) = Append(P, AboutToShow(b))
              /\ ShownBy(b)' = [k \in 1..Len(printed'[b]) |-> printed'[b][k].parts]
          BY <2>2, <3>2 DEF ShownBy
        <4>4. /\ Len(printed[b]) \in Nat /\ Len(printed'[b]) = Len(printed[b]) + 1
              /\ \A k \in 1..Len(printed[b]) : printed'[b][k] = printed[b][k]
              /\ printed'[b][Len(printed[b]) + 1] = new
          BY <4>1
        <4>5. Append(P, AboutToShow(b))
                = [k \in 1..Len(printed[b]) + 1 |-> IF k = Len(printed[b]) + 1
                                                    THEN AboutToShow(b) ELSE P[k]]
          BY <4>4
        <4> QED
          BY <4>2, <4>3, <4>4, <4>5
      <3> QED
        BY <3>1, <3>2
    <2> QED
      BY <1>2, <2>1, <2>3, <2>4
  <1> QED
    BY <1>3, <1>4

\* the end of send_frame
LEMMA RxListenDelivers ==
  ASSUME NEW a \in Boards, NEW r \in Boards, Between(a, r), NEW b \in Boards, RxListen(b)
  PROVE  Delivers(a, r)
  <1> USE DEF chatVars, senderVars, readerVars, mailboxVars, screen, reports
  <1>1. /\ UNCHANGED <<plan, starts, typed, sending, seq, settled, acked, excused, rx, tx>>
        /\ step[b] = "relisten" /\ step' = [step EXCEPT ![b] = "free"]
        /\ job' = [job EXCEPT ![b] = NoFrame]
    BY DEF RxListen
  <1>2. SenderTypes /\ Jobs /\ Mailboxes /\ (b = a \/ b = r) /\ a # r /\ Coming(a, r)
    BY Situation DEF Between, ChatTypes, DeliveryOf
  <1>3. rx[b] = NoFrame /\ job[b] # NoFrame
    BY <1>1, <1>2 DEF Mailboxes, Jobs
  <1>4. \A c \in Boards : step'[c] = "off" => step[c] = "off"
    BY <1>1, <1>2 DEF SenderTypes
  <1>5. CASE b = a
    <2>1. UNCHANGED <<last_rx_seq, reassembly, printed>>
      BY <1>5, Situation DEF RxListen
    <2>2. job'[a].kind # "ack" /\ job'[r] = job[r] /\ job[a].kind # "ack"
      BY <1>1, <1>2, <1>5, Situation, FrameFacts DEF SenderTypes
    <2>3. /\ AboutToShow(a)' = AboutToShow(a) /\ AboutToShow(r)' = AboutToShow(r)
          /\ Remembers(r)' = Remembers(r) /\ Kept(r)' = Kept(r)
      BY <2>1, <2>2, ReaderStill
    <2>4. Arrived(a)' = Arrived(a) /\ Arrived(r)' = Arrived(r)
      BY <2>1, <2>3, ArrivedStays, Situation
    <2>5. step'[r] = step[r] /\ rx'[a] = NoFrame
      BY <1>1, <1>2, <1>3, <1>5 DEF SenderTypes
    <2>6. Coming(a, r)'
      BY <1>1, <1>2, <2>5 DEF Coming, NumberUsed
    <2> QED
      BY <1>1, <1>4, <2>1, <2>3, <2>4, <2>6, StillStep
  <1>6. CASE b = r
    <2>1. job[r].kind = "ack"
      <3>1. job[r] \in AnyFrames /\ job[r].kind # "data"
        BY <1>2, <1>3, <1>6, Situation DEF SenderTypes
      <3> QED
        BY <3>1, FrameFacts
    <2>2. Accept(r, Acknowledged(r)) /\ job'[r] = NoFrame /\ job'[a] = job[a]
      BY <1>1, <1>2, <1>6, <2>1 DEF RxListen, SenderTypes
    <2>3. /\ ShownBy(r)' = ShownBy(r)
          /\ Remembers(r)' = Remembers(r) /\ Kept(r)' = Kept(r)
          /\ UNCHANGED <<printed[a], last_rx_seq[a], reassembly[a]>>
      BY <1>1, <1>2, <2>1, <2>2, AcceptShows DEF Between
    <2>4. Arrived(a)' = Arrived(a)
      BY <2>3, Situation DEF Arrived
    <2>5. Arrived(r)' = Arrived(r)
      BY <2>2, <2>3, ReaderStill, ArrivedStays, Situation
    <2>6. step'[a] = step[a] /\ rx'[r] = NoFrame /\ rx'[r].kind # "data"
      BY <1>1, <1>2, <1>3, <1>6, FrameFacts DEF SenderTypes
    <2>7. Taken(a, r)' <=> Taken(a, r)
      BY <1>1, <2>3 DEF Taken, Waiting
    <2>8. Coming(a, r)'
      BY <1>1, <1>2, <2>6, <2>7 DEF Coming
    <2> QED
      BY <1>1, <1>4, <2>3, <2>4, <2>5, <2>8, StillStep
  <1> QED
    BY <1>2, <1>5, <1>6

\* a frame that is neither data nor the answer is dropped
LEMMA PollOtherDelivers ==
  ASSUME NEW a \in Boards, NEW r \in Boards, Between(a, r), NEW b \in Boards, PollOther(b)
  PROVE  Delivers(a, r)
  <1> USE DEF chatVars, senderVars, readerVars, mailboxVars, screen, reports
  <1>1. /\ UNCHANGED <<plan, starts, job, typed, sending, seq, settled, acked, excused,
                       last_rx_seq, reassembly, printed, step>>
        /\ rx' = [rx EXCEPT ![b] = NoFrame]
    BY DEF PollOther, TakeRx
  <1>2. \A c \in Boards : rx'[c] \in {rx[c], NoFrame}
    BY <1>1 DEF Between, ChatTypes, MailboxTypes
  <1>3. \A c \in Boards : /\ AboutToShow(c)' = AboutToShow(c)
                          /\ Remembers(c)' = Remembers(c) /\ Kept(c)' = Kept(c)
    BY <1>1, ReaderStill
  <1>4. Arrived(a)' = Arrived(a) /\ Arrived(r)' = Arrived(r)
    BY <1>1, <1>3, ArrivedStays, Situation
  <1>5. Coming(a, r)'
    BY <1>1, <1>2, <1>3, FrameFacts
    DEF Between, DeliveryOf, Coming, Taken, Waiting, NumberUsed
  <1> QED
    BY <1>1, <1>3, <1>4, <1>5, StillStep

\* a frame is sent again
LEMMA RepeatDelivers ==
  ASSUME NEW a \in Boards, NEW r \in Boards, Between(a, r), NEW b \in Boards, Repeat(b)
  PROVE  Delivers(a, r)
  <1> USE DEF chatVars, senderVars, readerVars, mailboxVars, screen, reports
  <1>1. /\ UNCHANGED <<plan, starts, typed, sending, seq, settled, acked, excused,
                       last_rx_seq, reassembly, printed, rx>>
        /\ Waiting(b) /\ step' = [step EXCEPT ![b] = "stop"]
        /\ job' = [job EXCEPT ![b] = sending[b]]
    BY DEF Repeat, SendFrame, WaitEnds
  <1>2. b = a /\ a # r /\ sending[a] \in DataFrames /\ SenderTypes /\ Coming(a, r)
    BY <1>1, Situation DEF Between, ChatTypes, DeliveryOf
  <1>3. /\ step'[r] = step[r] /\ step'[a] = "stop" /\ job'[r] = job[r] /\ job'[a] = sending[a]
    BY <1>1, <1>2 DEF SenderTypes
  <1>4. /\ AboutToShow(a)' = AboutToShow(a) /\ AboutToShow(r)' = AboutToShow(r)
        /\ Remembers(r)' = Remembers(r) /\ Kept(r)' = Kept(r)
    BY <1>1, <1>2, <1>3, ReaderStill, Situation, FrameFacts
  <1>5. Arrived(a)' = Arrived(a) /\ Arrived(r)' = Arrived(r)
    BY <1>1, <1>4, ArrivedStays, Situation
  <1>6. Coming(a, r)'
    BY <1>1, <1>2, <1>3 DEF Coming, NumberUsed
  <1> QED
    BY <1>1, <1>3, <1>4, <1>5, <1>6, StillStep

\* a's line is reported on, acknowledged or not
LEMMA ReportDelivers ==
  ASSUME NEW a \in Boards, NEW r \in Boards, Between(a, r), NEW lines \in SUBSET {typed[a]},
         Report(a, lines), Waiting(a) \/ lines = {},
         UNCHANGED <<plan, starts, typed, seq, last_rx_seq, reassembly, printed>>,
         job'[r] = job[r], job'[a].kind # "ack",
         step'[r] = step[r], step'[a] = "off" \/ rx'[a] = NoFrame, rx'[r] = rx[r],
         \/ /\ lines # {} => Taken(a, r) /\ LastFrame(a)
            /\ excused' = excused
         \/ /\ lines = {typed[a]} /\ sending[a].count > 1
            /\ excused' = [excused EXCEPT ![a] = @ \cup lines]
  PROVE  Delivers(a, r)
  <1>1. /\ SenderTypes /\ ChatTypes /\ Numbers(a, r) /\ Reporting(a) /\ Coming(a, r)
        /\ Progress(a, r) /\ printed[a] = <<>> /\ a # r /\ \A c \in Boards : c = a \/ c = r
    BY Situation DEF Between, DeliveryOf, ChatTypes
  <1>2. /\ sending'[a] = NoFrame /\ settled' = [settled EXCEPT ![a] = typed[a]]
        /\ acked' = [acked EXCEPT ![a] = @ \cup lines]
        /\ settled'[a] = typed[a]
    BY <1>1 DEF Report, SenderTypes
  <1>3. /\ AboutToShow(a)' = AboutToShow(a) /\ AboutToShow(r)' = AboutToShow(r)
        /\ Remembers(r)' = Remembers(r) /\ Kept(r)' = Kept(r)
    BY ReaderStill, Situation
  <1>4. Arrived(a)' = Arrived(a) /\ Arrived(r)' = Arrived(r)
    BY <1>3, ArrivedStays, Situation
  <1>5. ~ Waiting(a)' /\ ~ Taken(a, r)'
    BY <1>2 DEF Waiting, Taken
  <1>6. \A n : NumberUsed(a, n)' <=> NumberUsed(a, n)
    BY DEF NumberUsed
  <1>7. Numbers(a, r)'
    <2>1. /\ typed[a] \in Nat /\ FirstSeq[a][starts[a]] \in Nat /\ seq[a] \in Nat
      BY <1>1, NumberFacts
    <2>2. Waiting(a) => sending[a].idx \in Nat /\ sending[a].idx + 1 <= 16
      <3>1. Waiting(a) => /\ sending[a].count \in 1..16 /\ sending[a].idx \in Nat
                          /\ sending[a].idx < sending[a].count
        BY CurrentFrame
      <3> QED
        BY <3>1
    <2>3. seq[a] <= FirstSeq[a][starts[a]] + 16 * typed[a]
      <3>1. /\ Waiting(a) => seq[a] <= FirstSeq[a][starts[a]] + 16 * (typed[a] - 1)
                                         + sending[a].idx + 1
            /\ ~ Waiting(a) => seq[a] <= FirstSeq[a][starts[a]] + 16 * typed[a]
        BY <1>1 DEF Numbers
      <3>2. CASE Waiting(a)
        BY <2>1, <2>2, <3>1, <3>2
      <3> QED
        BY <3>1, <3>2
    <2> QED
      BY <1>1, <1>3, <1>5, <1>6, <2>3 DEF Numbers
  <1>8. Coming(a, r)'
    BY <1>1, <1>2 DEF Coming, NumberUsed
  <1>9. DeliveryOf(a, r)'
    BY <1>1, <1>2, <1>5, <1>7, <1>8 DEF DeliveryOf, Reporting, Progress
  <1>10. CASE Waiting(a)
    <2>1. settled[a] < typed[a]
      BY <1>1, <1>10 DEF Reporting
    <2>2. CASE lines = {}
      <3>1. acked' = acked /\ excused' = excused
        BY <1>1, <1>2, <2>2 DEF SenderTypes
      <3>2. Delivery!GiveUp(a)
        BY <1>1, <1>2, <1>4, <2>1, <3>1 DEF Delivery!GiveUp
      <3> QED
        BY <1>9, <3>2 DEF Delivers, Delivery!Step, Delivery!Next
    <2>4. CASE lines = {typed[a]} /\ excused' # excused
      <3>1. plan.lines[a][typed[a]] > 1
        BY <1>10, <2>4, CurrentFrame
      <3>2. Delivery!SenderEnds(a)
        BY <1>1, <1>2, <1>4, <2>1, <2>4, <3>1 DEF Delivery!SenderEnds
      <3> QED
        BY <1>9, <3>2 DEF Delivers, Delivery!Step, Delivery!Next
    <2>3. CASE lines = {typed[a]} /\ excused' = excused
      <3>0. (Taken(a, r) /\ LastFrame(a)) \/ typed[a] \in excused[a]
        BY <1>1, <2>3 DEF SenderTypes
      <3>1. Delivery!Has(Arrived(a), typed[a]) \/ typed[a] \in excused[a]
        <4>1. CASE Taken(a, r) /\ LastFrame(a)
          <5>1. /\ sending[a].idx \in Nat /\ sending[a].idx + 1 = sending[a].count
            BY <1>10, <4>1, CurrentFrame DEF LastFrame
          <5> QED
            BY <1>1, <1>10, <4>1, <5>1 DEF Progress, Had, HasUpTo
        <4> QED
          BY <3>0, <4>1
      <3>2. Delivery!Acknowledge(a)
        BY <1>1, <1>2, <1>4, <2>1, <2>3, <3>1 DEF Delivery!Acknowledge, Delivery!Has
      <3> QED
        BY <1>9, <3>2 DEF Delivers, Delivery!Step, Delivery!Next
    <2> QED
      BY <2>2, <2>3, <2>4
  <1>11. CASE ~ Waiting(a)
    <2>1. settled' = settled /\ acked' = acked /\ excused' = excused
      BY <1>1, <1>2, <1>11 DEF Reporting, SenderTypes
    <2> QED
      BY <1>1, <1>4, <1>9, <2>1, AbstractStill DEF Delivers
  <1> QED
    BY <1>10, <1>11

\* the last try
LEMMA GiveUpDelivers ==
  ASSUME NEW a \in Boards, NEW r \in Boards, Between(a, r), NEW b \in Boards, GiveUp(b)
  PROVE  Delivers(a, r)
  <1> USE DEF senderVars, readerVars, mailboxVars
  <1>1. WaitEnds(b) /\ Waiting(b) /\ b = a /\ rx[a] = NoFrame
    BY WaitEndsQuiet, Situation DEF GiveUp
  <1>2. /\ Report(a, {})
        /\ UNCHANGED <<plan, starts, job, typed, seq, last_rx_seq, reassembly, printed, excused,
                       step, rx>>
    BY <1>1 DEF GiveUp
  <1>3. job'[r] = job[r] /\ job'[a].kind # "ack"
    BY <1>2, Situation
  <1> QED
    BY <1>1, <1>2, <1>3, ReportDelivers

\* a new frame has a number that r does not remember
LEMMA NewFrame ==
  ASSUME SeqsApart, NEW a \in Boards, NEW r \in Boards, Between(a, r),
         NEW n \in DataFrames, n.seq = seq[a] % SeqModulus, n.count <= 16,
         UNCHANGED <<plan, starts>>, sending'[a] = n, seq'[a] = seq[a] + 1,
         Remembers(r)' = Remembers(r),
         typed'[a] \in 1..Len(plan.lines[a]),
         seq[a] <= FirstSeq[a][starts[a]] + 16 * (typed'[a] - 1) + n.idx
  PROVE  /\ Numbers(a, r)' /\ Waiting(a)' /\ ~ Taken(a, r)'
         /\ \A k : NumberUsed(a, k) => NumberUsed(a, k)'
  <1> DEFINE first == FirstSeq[a][starts[a]]
  <1>1. /\ ChatTypes /\ Numbers(a, r)
    BY DEF Between, DeliveryOf
  <1>2. /\ first \in Nat /\ seq[a] \in Nat /\ Len(plan.lines[a]) \in Nat /\ first <= seq[a]
    BY <1>1, NumberFacts DEF Numbers
  <1>3. n.idx \in Nat /\ n.idx + 1 <= 16 /\ n.seq \in SeqNumbers /\ n # NoFrame
    <2>1. n.idx \in Nat /\ n.count \in Nat /\ n.idx < n.count /\ n.seq \in SeqNumbers
      BY FrameFacts, FieldTypes
    <2> QED
      BY <2>1, DataFacts
  <1>4. \A k : NumberUsed(a, k) => NumberUsed(a, k)'
    <2>1. /\ plan' = plan /\ starts'[a] = starts[a]
          /\ seq'[a] \in Nat /\ seq[a] <= seq'[a]
      BY <1>2
    <2> QED
      BY <1>1, <2>1, UsedStays
  <1>5. Waiting(a)'
    BY <1>3 DEF Waiting
  <1>6. Remembers(r) = -1 \/ NumberUsed(a, Remembers(r))
    BY <1>1 DEF Numbers
  <1>7. ~ NumberUsed(a, n.seq)
    <2>1. \A x, y, m, t, i \in Nat :
            y <= x + 16 * (t - 1) + i /\ 1 <= t /\ t <= m /\ i + 1 <= 16 => y < x + 16 * m
      OBVIOUS
    <2>2. typed'[a] \in Nat /\ 1 <= typed'[a] /\ typed'[a] <= Len(plan.lines[a])
      BY <1>2
    <2>3. seq[a] < first + 16 * Len(plan.lines[a])
      <3> HIDE DEF first
      <3>1. seq[a] <= first + 16 * (typed'[a] - 1) + n.idx
        BY DEF first
      <3> QED
        BY <1>2, <1>3, <2>1, <2>2, <3>1
    <2> QED
      BY <1>1, <1>2, <2>3, NextUnused
  <1>8. ~ Taken(a, r)'
    <2>1. Remembers(r) # n.seq
      BY <1>3, <1>6, <1>7 DEF SeqNumbers
    <2> QED
      BY <2>1 DEF Taken
  <1>9. Numbers(a, r)'
    <2>1. Remembers(r)' = -1 \/ NumberUsed(a, Remembers(r))'
      <3>1. PICK k : k = Remembers(r)
        OBVIOUS
      <3>2. k = -1 \/ NumberUsed(a, k)'
        BY <1>4, <1>6, <3>1
      <3> QED
        BY <3>1, <3>2 DEF NumberUsed
    <2>2. first < seq'[a] /\ first <= seq'[a] /\ seq'[a] - 1 = seq[a]
      BY <1>2
    <2>3. seq'[a] <= first + 16 * (typed'[a] - 1) + n.idx + 1
      <3> HIDE DEF first
      <3>1. seq[a] <= first + 16 * (typed'[a] - 1) + n.idx /\ typed'[a] \in Int
        BY DEF first
      <3> QED
        BY <1>2, <1>3, <3>1
    <2> QED
      BY <1>5, <2>1, <2>2, <2>3 DEF Numbers
  <1> QED
    BY <1>4, <1>5, <1>8, <1>9

\* a line is typed
LEMMA TypeLineDelivers ==
  ASSUME SeqsApart, NEW a \in Boards, NEW r \in Boards, Between(a, r), NEW b \in Boards,
         TypeLine(b)
  PROVE  Delivers(a, r)
  <1> USE DEF chatVars, senderVars, readerVars, mailboxVars, screen, reports
  <1>1. b = a /\ plan.arq /\ a # r /\ step[a] = "free" /\ ~ Waiting(a)
    <2>1. b = a /\ plan.arq /\ a # r
      BY Situation DEF Between
    <2> QED
      BY <2>1 DEF TypeLine
  <1>2. PICK n : \E id \in MessageIds :
          /\ n = DataFrame(a, typed[a] + 1, 0, id)
          /\ sending' = [sending EXCEPT ![a] = n] /\ seq' = [seq EXCEPT ![a] = @ + 1]
          /\ step' = [step EXCEPT ![a] = "stop"] /\ job' = [job EXCEPT ![a] = n]
    <2>1. msg_id[a] % IdModulus \in MessageIds /\ 0 \in MessageIds
      BY Moduli, IdFacts DEF Between
    <2> QED
      BY <1>1, <2>1 DEF TypeLine, ArqSend, SendFrame
  <1>3. /\ UNCHANGED <<plan, starts, settled, acked, excused, last_rx_seq, reassembly, printed,
                       rx>>
        /\ typed' = [typed EXCEPT ![a] = @ + 1] /\ typed[a] < Len(plan.lines[a])
    BY <1>1 DEF TypeLine
  <1>4. /\ ChatTypes /\ SenderTypes /\ Numbers(a, r) /\ Reporting(a) /\ Coming(a, r)
        /\ printed[a] = <<>> /\ \A c \in Boards : c = a \/ c = r
    BY Situation DEF Between, DeliveryOf, ChatTypes
  <1>5. /\ typed[a] \in Nat /\ typed[a] + 1 \in 1..Len(plan.lines[a])
        /\ typed'[a] = typed[a] + 1
        /\ FirstSeq[a][starts[a]] \in Nat /\ seq[a] \in Nat
    <2>1. /\ typed[a] \in Nat /\ Len(plan.lines[a]) \in Nat
          /\ FirstSeq[a][starts[a]] \in Nat /\ seq[a] \in Nat
      BY <1>4, NumberFacts
    <2>2. typed'[a] = typed[a] + 1
      BY <1>3, <1>4 DEF SenderTypes
    <2>3. typed[a] + 1 \in 1..Len(plan.lines[a])
      BY <1>3, <2>1
    <2> QED
      BY <2>1, <2>2, <2>3
  <1>6. plan.lines[a][typed[a] + 1] \in 1..16
    <2>1. plan.lines[a] \in Seq(1..16)
      BY <1>4, PlanFacts DEF ChatTypes
    <2>2. \A s \in Seq(1..16) : \A i \in 1..Len(s) : s[i] \in 1..16
      OBVIOUS
    <2> QED
      BY <1>5, <2>1, <2>2
  <1>7. /\ n \in DataFrames /\ n.line = typed[a] + 1 /\ n.idx = 0
        /\ n.count = plan.lines[a][typed[a] + 1]
    <2>1. 0 \in Nat /\ 0 < plan.lines[a][typed[a] + 1]
      BY <1>6, FrameCount
    <2>2. PICK m \in 1..Len(plan.lines[a]) : m = typed[a] + 1
      BY <1>5
    <2>3. PICK id \in MessageIds : n = DataFrame(a, m, 0, id)
      BY <1>2, <2>2
    <2> QED
      BY <1>4, <2>1, <2>2, <2>3, DataFrameTyped
  <1>8. n.seq = seq[a] % SeqModulus
    BY <1>2 DEF DataFrame
  <1>9. /\ step'[r] = step[r] /\ step'[a] = "stop" /\ job'[r] = job[r] /\ job'[a] = n
        /\ sending'[a] = n /\ seq'[a] = seq[a] + 1
    BY <1>1, <1>2, <1>4 DEF SenderTypes
  <1>10. /\ AboutToShow(a)' = AboutToShow(a) /\ AboutToShow(r)' = AboutToShow(r)
         /\ Remembers(r)' = Remembers(r)
    BY <1>3, <1>7, <1>9, ReaderStill, Situation, FrameFacts
  <1>11. Arrived(a)' = Arrived(a) /\ Arrived(r)' = Arrived(r)
    BY <1>3, <1>10, ArrivedStays, Situation
  <1>12. /\ Numbers(a, r)' /\ Waiting(a)' /\ ~ Taken(a, r)'
    <2>1. seq[a] <= FirstSeq[a][starts[a]] + 16 * typed[a]
      BY <1>1, <1>4 DEF Numbers
    <2>2. seq[a] <= FirstSeq[a][starts[a]] + 16 * (typed'[a] - 1) + n.idx
      <3>1. typed'[a] - 1 = typed[a] /\ n.idx = 0
        BY <1>5, <1>7
      <3>2. 16 * (typed'[a] - 1) = 16 * typed[a]
        BY <3>1
      <3>3. \A x, y, z \in Nat : x <= y + 16 * z => x <= y + 16 * z + 0
        OBVIOUS
      <3> QED
        BY <1>5, <2>1, <3>1, <3>2, <3>3
    <2>3. n.count <= 16 /\ typed'[a] \in 1..Len(plan.lines[a])
      <3>1. n.count <= 16
        BY <1>6, <1>7, FrameCount
      <3> QED
        BY <1>5, <3>1
    <2> QED
      BY <1>3, <1>7, <1>8, <1>9, <1>10, <2>2, <2>3, NewFrame
  <1>13. ~ (step[r] = "free" /\ rx[r].kind = "data")
    <2>1. rx[r].kind = "data" => rx[r] # NoFrame
      BY FrameFacts
    <2> QED
      BY <1>1, <2>1, Situation DEF OneBurst, Answering
  <1>14. DeliveryOf(a, r)'
    <2>1. Coming(a, r)'
      BY <1>3, <1>9, <1>13 DEF Coming
    <2>2. Reporting(a)'
      BY <1>1, <1>3, <1>4, <1>5, <1>9, <1>12 DEF Reporting
    <2>3. Progress(a, r)'
      <3>1. n.idx = 0 /\ n.count # 0 /\ ~ n.idx > 0
        BY <1>6, <1>7
      <3> QED
        BY <1>9, <1>12, <3>1 DEF Progress, Had, HasUpTo
    <2> QED
      BY <1>3, <1>4, <1>12, <2>1, <2>2, <2>3 DEF DeliveryOf
  <1>15. Delivery!Type(a)
    BY <1>1, <1>3, <1>4, <1>11 DEF Delivery!Type, Reporting
  <1> QED
    BY <1>14, <1>15 DEF Delivers, Delivery!Step, Delivery!Next

\* the frame under way is acknowledged
LEMMA PollAckDelivers ==
  ASSUME SeqsApart, NEW a \in Boards, NEW r \in Boards, Between(a, r), NEW b \in Boards,
         PollAck(b)
  PROVE  Delivers(a, r)
  <1> USE DEF chatVars, senderVars, readerVars, mailboxVars, screen, reports
  <1>1. /\ b = a /\ a # r /\ step[a] = "free" /\ Waiting(a) /\ rx[a] # NoFrame
        /\ rx' = [rx EXCEPT ![a] = NoFrame]
    <2>1. /\ step[b] = "free" /\ Waiting(b) /\ rx[b].kind = "ack"
          /\ rx' = [rx EXCEPT ![b] = NoFrame]
      BY DEF PollAck, TakeRx, Acknowledges
    <2>2. b = a /\ a # r
      BY <2>1, Situation DEF Between
    <2> QED
      BY <2>1, <2>2, FrameFacts
  <1>2. UNCHANGED <<plan, starts, typed, excused, last_rx_seq, reassembly, printed>>
    BY DEF PollAck
  <1>3. /\ ChatTypes /\ SenderTypes /\ Numbers(a, r) /\ Reporting(a) /\ Coming(a, r)
        /\ Progress(a, r) /\ printed[a] = <<>> /\ \A c \in Boards : c = a \/ c = r
        /\ rx'[a] = NoFrame /\ rx'[r] = rx[r]
    BY <1>1, Situation DEF Between, DeliveryOf, ChatTypes, MailboxTypes
  <1>4. Taken(a, r)
    BY <1>1, <1>3 DEF Coming
  <1>5. CASE LastFrame(a)
    <2>1. Report(a, {typed[a]}) /\ UNCHANGED <<step, job, seq>>
      BY <1>1, <1>5 DEF PollAck
    <2> DEFINE L == {typed[a]}
    <2>2. L \in SUBSET {typed[a]}
      OBVIOUS
    <2>3. Report(a, L)
      BY <2>1
    <2>4. job'[r] = job[r] /\ job'[a].kind # "ack"
      BY <2>1, Situation
    <2> HIDE DEF L
    <2> QED
      BY <1>1, <1>2, <1>3, <1>4, <1>5, <2>1, <2>2, <2>3, <2>4, ReportDelivers
  <1>6. CASE ~ LastFrame(a)
    <2> DEFINE f == sending[a]
    <2>1. PICK n : n = DataFrame(a, typed[a], f.idx + 1, f.id)
      OBVIOUS
    <2>2. /\ sending' = [sending EXCEPT ![a] = n] /\ seq' = [seq EXCEPT ![a] = @ + 1]
          /\ step' = [step EXCEPT ![a] = "stop"] /\ job' = [job EXCEPT ![a] = n]
          /\ UNCHANGED <<settled, acked>>
      BY <1>1, <1>6, <2>1 DEF PollAck, ArqSend, SendFrame
    <2>3. /\ f.count = plan.lines[a][typed[a]] /\ f.count \in 1..16 /\ f.idx \in Nat
          /\ f.idx < f.count /\ f.idx + 1 # f.count /\ f.id \in MessageIds
          /\ typed[a] \in 1..Len(plan.lines[a])
      BY <1>1, <1>6, CurrentFrame DEF LastFrame
    <2> HIDE DEF f
    <2>4. /\ f.idx + 1 \in Nat /\ f.idx + 1 < f.count /\ f.count \in Nat /\ f.count > 1
          /\ f.count <= 16 /\ f.idx + 1 > 0 /\ f.idx + 1 - 1 = f.idx
      <3>1. f.count \in Nat /\ f.count <= 16
        BY <2>3, FrameCount
      <3> QED
        BY <2>3, <3>1
    <2>5. /\ n \in DataFrames /\ n.line = typed[a] /\ n.idx = f.idx + 1 /\ n.count = f.count
      BY <1>3, <2>1, <2>3, <2>4, DataFrameTyped
    <2>6. n.seq = seq[a] % SeqModulus /\ n.id = f.id
      BY <2>1 DEF DataFrame
    <2>7. /\ step'[r] = step[r] /\ step'[a] = "stop" /\ job'[r] = job[r] /\ job'[a] = n
          /\ sending'[a] = n /\ seq'[a] = seq[a] + 1
      BY <1>1, <1>3, <2>2 DEF SenderTypes
    <2>8. /\ AboutToShow(a)' = AboutToShow(a) /\ AboutToShow(r)' = AboutToShow(r)
          /\ Remembers(r)' = Remembers(r) /\ Kept(r)' = Kept(r)
      BY <1>2, <2>5, <2>7, ReaderStill, Situation, FrameFacts
    <2>9. Arrived(a)' = Arrived(a) /\ Arrived(r)' = Arrived(r)
      BY <1>2, <2>8, ArrivedStays, Situation
    <2>10. /\ Numbers(a, r)' /\ Waiting(a)' /\ ~ Taken(a, r)'
           /\ \A k : NumberUsed(a, k) => NumberUsed(a, k)'
      <3>1. seq[a] <= FirstSeq[a][starts[a]] + 16 * (typed[a] - 1) + f.idx + 1
        BY <1>1, <1>3 DEF Numbers, f
      <3>2. typed[a] \in Nat /\ FirstSeq[a][starts[a]] \in Nat /\ seq[a] \in Nat
        BY <1>3, NumberFacts
      <3>3. typed'[a] = typed[a]
        BY <1>2
      <3>4. seq[a] <= FirstSeq[a][starts[a]] + 16 * (typed'[a] - 1) + n.idx
        BY <2>3, <2>5, <3>1, <3>2, <3>3
      <3>5. n.count <= 16
        BY <2>4, <2>5
      <3> QED
        BY <1>2, <2>3, <2>5, <2>6, <2>7, <2>8, <3>3, <3>4, <3>5, NewFrame
    <2>11. Coming(a, r)'
      <3>1. ASSUME step[r] = "free", rx[r].kind = "data"
            PROVE  NumberUsed(a, rx[r].seq)'
        <4>1. NumberUsed(a, rx[r].seq)
          BY <1>3, <3>1 DEF Coming
        <4> QED
          BY <1>3, <2>10, <4>1 DEF NumberUsed
      <3> QED
        BY <1>2, <1>3, <2>7, <3>1 DEF Coming
    <2>12. Progress(a, r)'
      <3>1. PICK k : k = f.idx + 1
        OBVIOUS
      <3>2. Had(a, r)' = k /\ Had(a, r) = k
        BY <1>4, <2>5, <2>7, <2>10, <3>1 DEF Had, f
      <3> SUFFICES ASSUME typed[a] \notin excused[a]
                   PROVE  HasUpTo(a, r, k)'
        BY <1>2, <3>2 DEF Progress
      <3>3. HasUpTo(a, r, k)
        BY <1>1, <1>3, <3>2 DEF Progress
      <3>4. k # n.count /\ n.count = f.count /\ n.id = f.id
        BY <2>3, <2>5, <2>6, <3>1
      <3> QED
        BY <2>7, <2>8, <3>3, <3>4 DEF HasUpTo, f
    <2>13. Reporting(a)'
      BY <1>1, <1>2, <1>3, <2>2, <2>7, <2>10 DEF Reporting
    <2>14. Delivery!Step
      BY <1>2, <1>3, <2>2, <2>9, AbstractStill
    <2> QED
      BY <1>2, <1>3, <2>10, <2>11, <2>12, <2>13, <2>14 DEF Delivers, DeliveryOf
  <1> QED
    BY <1>5, <1>6

\* a chat ends: what it waited for is reported, what it has may be lost
LEMMA EndDelivers ==
  ASSUME NEW a \in Boards, NEW r \in Boards, Between(a, r), NEW b \in Boards, Ends(b)
  PROVE  Delivers(a, r)
  <1>1. /\ UNCHANGED <<plan, starts, typed, seq, last_rx_seq, reassembly, printed, rx>>
        /\ step' = [step EXCEPT ![b] = "off"] /\ job' = [job EXCEPT ![b] = NoFrame]
    BY EndFacts
  <1>2. /\ ChatTypes /\ SenderTypes /\ DeliveryOf(a, r) /\ a # r
        /\ \A c \in Boards : c = a \/ c = r
    BY Situation DEF Between, ChatTypes
  <1>5. PICK lines \in {{}, {typed[b]}} :
          /\ EndChat(b, lines)
          /\ lines # {} => Waiting(b) /\ sending[b].count > 1
    BY EndFacts
  <1>6. /\ Report(b, lines)
        /\ excused' = [excused EXCEPT
              ![b] = @ \cup lines,
              ![Peer(b)] = IF Waiting(Peer(b)) /\ sending[Peer(b)].count > 1
                           THEN @ \cup {typed[Peer(b)]} ELSE @]
    BY <1>5 DEF EndChat
  <1>3. CASE b = a
    <2>1. excused' = [excused EXCEPT ![a] = @ \cup lines]
      <3>1. Peer(b) = r /\ ~ Waiting(r)
        BY <1>3, Situation
      <3>2. excused \in [Boards -> SUBSET Nat]
        BY <1>2 DEF SenderTypes
      <3> QED
        BY <1>2, <1>3, <1>6, <3>1, <3>2
    <2>2. step'[a] = "off" /\ step'[r] = step[r]
      BY <1>1, <1>2, <1>3 DEF SenderTypes
    <2>3. job'[r] = job[r] /\ job'[a].kind # "ack"
      BY <1>1, <1>2, <1>3, FrameFacts DEF SenderTypes
    <2>4. lines = {} => excused' = excused
      BY <1>2, <2>1 DEF SenderTypes
    <2>5. lines \in SUBSET {typed[a]} /\ Report(a, lines)
      BY <1>3, <1>5, <1>6
    <2>6. CASE lines = {}
      BY <1>1, <2>2, <2>3, <2>4, <2>5, <2>6, ReportDelivers
    <2>7. CASE lines # {}
      <3>1. lines = {typed[a]} /\ Waiting(a) /\ sending[a].count > 1
        BY <1>3, <1>5, <2>7
      <3> QED
        BY <1>1, <2>1, <2>2, <2>3, <2>5, <3>1, ReportDelivers
    <2> QED
      BY <2>6, <2>7
  <1>4. CASE b = r
    <2>7. lines = {} /\ Peer(b) = a /\ ~ Waiting(r)
      BY <1>4, <1>5, Situation
    <2>1. sending' = sending /\ settled' = settled /\ acked' = acked
      BY <1>1, <1>2, <1>4, <1>6, <2>7, Situation DEF Report, SenderTypes, Waiting
    <2>2. step'[r] = "off" /\ step'[a] = step[a]
      BY <1>1, <1>2, <1>4 DEF SenderTypes
    <2>3. /\ AboutToShow(a)' = AboutToShow(a) /\ AboutToShow(r)' = AboutToShow(r)
          /\ Remembers(r)' = Remembers(r) /\ Kept(r)' = Kept(r)
      <3>1. job'[a] = job[a] /\ job[r] = NoFrame /\ job'[r] = NoFrame
        <4>1. job[r] = NoFrame
          BY <1>4, <2>7, EndFacts, FreeBoard, Situation
        <4> QED
          BY <1>1, <1>2, <1>4, <4>1 DEF SenderTypes
      <3> QED
        BY <1>1, <3>1, ReaderStill
    <2>4. Arrived(a)' = Arrived(a) /\ Arrived(r)' = Arrived(r)
      BY <1>1, <2>3, ArrivedStays, Situation
    <2>5. CASE ~ (Waiting(a) /\ sending[a].count > 1)
      <3>1. excused' = excused
        BY <1>2, <1>4, <1>6, <2>5, <2>7 DEF SenderTypes
      <3>2. (Waiting(a)' <=> Waiting(a)) /\ (Taken(a, r)' <=> Taken(a, r))
        BY <2>1, <2>3 DEF Waiting, Taken
      <3>3. \A n : NumberUsed(a, n)' <=> NumberUsed(a, n)
        BY <1>1 DEF NumberUsed
      <3>4. Progress(a, r)'
        BY <1>1, <1>2, <2>1, <2>3, <2>4, <2>5, <3>1, <3>2
        DEF DeliveryOf, Progress, Had, HasUpTo, Delivery!Has
      <3>5. Numbers(a, r)' /\ Reporting(a)' /\ Coming(a, r)'
        BY <1>1, <1>2, <2>1, <2>2, <2>3, <3>2, <3>3
        DEF DeliveryOf, Numbers, Reporting, Coming
      <3> QED
        BY <1>1, <1>2, <2>1, <2>4, <3>1, <3>4, <3>5, AbstractStill DEF Delivers, DeliveryOf
    <2>6. CASE Waiting(a) /\ sending[a].count > 1
      <3>1. excused' = [excused EXCEPT ![a] = @ \cup {typed[a]}]
        BY <1>2, <1>4, <1>6, <2>6, <2>7 DEF SenderTypes
      <3>2. (Waiting(a)' <=> Waiting(a)) /\ (Taken(a, r)' <=> Taken(a, r))
        BY <2>1, <2>3 DEF Waiting, Taken
      <3>3. \A n : NumberUsed(a, n)' <=> NumberUsed(a, n)
        BY <1>1 DEF NumberUsed
      <3>4. Progress(a, r)'
        BY <1>1, <1>2, <3>1 DEF Progress, SenderTypes
      <3>5. Numbers(a, r)' /\ Reporting(a)' /\ Coming(a, r)'
        BY <1>1, <1>2, <2>1, <2>2, <2>3, <3>2, <3>3
        DEF DeliveryOf, Numbers, Reporting, Coming
      <3>6. settled[a] < typed[a] /\ plan.lines[a][typed[a]] > 1
        BY <1>2, <2>6, CurrentFrame DEF DeliveryOf, Reporting
      <3>7. Delivery!ReaderEnds(a)
        BY <1>1, <1>2, <2>1, <2>4, <3>1, <3>6 DEF Delivery!ReaderEnds
      <3> QED
        BY <1>1, <1>2, <3>4, <3>5, <3>7
        DEF Delivers, DeliveryOf, Delivery!Step, Delivery!Next
    <2> QED
      BY <2>5, <2>6
  <1> QED
    BY <1>2, <1>3, <1>4

\* a chat starts again: the user's with numbers of its own, the reader's with nothing
LEMMA StartDelivers ==
  ASSUME StartsLeft, NEW a \in Boards, NEW r \in Boards, Between(a, r), NEW b \in Boards,
         Start(b)
  PROVE  Delivers(a, r)
  <1> USE DEF chatVars, senderVars, readerVars, mailboxVars, screen, reports
  <1>1. /\ UNCHANGED <<plan, job, typed, sending, settled, acked, excused, printed>>
        /\ step[b] = "off" /\ step' = [step EXCEPT ![b] = "free"]
        /\ starts' = [starts EXCEPT ![b] = @ + 1]
        /\ last_rx_seq' = [last_rx_seq EXCEPT ![b] = -1]
        /\ reassembly' = [reassembly EXCEPT ![b] = NoMessage]
        /\ rx' = [rx EXCEPT ![b] = NoFrame]
        /\ seq' = [seq EXCEPT ![b] = FirstSeq[b][starts[b] + 1]] /\ Quiet
    <2>1. plan.arq /\ ~ plan.stalls
      BY Situation
    <2> QED
      BY <2>1 DEF Start
  <1>2. /\ ChatTypes /\ SenderTypes /\ ReaderTypes /\ MailboxTypes /\ Jobs
        /\ DeliveryOf(a, r) /\ a # r /\ \A c \in Boards : c = a \/ c = r
    BY Situation DEF Between, ChatTypes
  <1>3. job[b] = NoFrame /\ job[b].kind # "ack"
    BY <1>1, <1>2, FrameFacts DEF Jobs
  <1>4. /\ \A c \in Boards : AboutToShow(c)' = AboutToShow(c)
        /\ \A c \in Boards : c # b => Remembers(c)' = Remembers(c) /\ Kept(c)' = Kept(c)
    <2>1. ASSUME NEW c \in Boards, c # b
          PROVE  UNCHANGED <<job[c], last_rx_seq[c], reassembly[c]>>
      BY <1>1, <1>2, <2>1 DEF ReaderTypes
    <2>2. AboutToShow(b)' = AboutToShow(b)
      BY <1>1, <1>3, ReaderStill
    <2> QED
      BY <2>1, <2>2, ReaderStill
  <1>5. Arrived(a)' = Arrived(a) /\ Arrived(r)' = Arrived(r)
    BY <1>1, <1>4, ArrivedStays, Situation
  <1>6. Delivery!Step
    BY <1>1, <1>2, <1>5, AbstractStill
  <1>7. CASE b = a
    <2>1. ~ Waiting(a) /\ ~ Waiting(a)' /\ settled[a] = typed[a]
      BY <1>1, <1>2, <1>7 DEF DeliveryOf, Reporting, Waiting
    <2>2. /\ starts'[a] = starts[a] + 1 /\ seq'[a] = FirstSeq[a][starts'[a]]
          /\ FirstSeq[a][starts'[a]] \in Nat /\ typed[a] \in Nat
      <3>1. starts[a] < plan.starts[a]
        BY <1>1, <1>7 DEF StartsLeft
      <3>2. starts[a] \in 1..plan.starts[a] /\ plan.starts[a] \in Nat /\ typed[a] \in Nat
        BY <1>2, NumberFacts
      <3>3. starts[a] + 1 \in 1..plan.starts[a]
        BY <3>1, <3>2
      <3>4. starts'[a] = starts[a] + 1 /\ seq'[a] = FirstSeq[a][starts[a] + 1]
        BY <1>1, <1>2, <1>7 DEF SenderTypes
      <3> QED
        BY <1>2, <3>2, <3>3, <3>4, NumberFacts
    <2>3. \A n : NumberUsed(a, n) => NumberUsed(a, n)'
      BY <1>1, <1>2, <2>2, UsedStays
    <2>4. Numbers(a, r)'
      <3>1. Remembers(r)' = -1 \/ NumberUsed(a, Remembers(r))'
        <4>1. PICK k : k = Remembers(r)
          OBVIOUS
        <4>2. k = -1 \/ NumberUsed(a, k)'
          BY <1>2, <2>3, <4>1 DEF DeliveryOf, Numbers
        <4>3. Remembers(r)' = k
          BY <1>2, <1>4, <1>7, <4>1
        <4> QED
          BY <4>2, <4>3 DEF NumberUsed
      <3>2. /\ FirstSeq[a][starts'[a]] <= seq'[a]
            /\ seq'[a] <= FirstSeq[a][starts'[a]] + 16 * typed[a]
        <4> HIDE DEF chatVars
        <4>1. \A x, y \in Nat : x <= x /\ x <= x + 16 * y
          OBVIOUS
        <4> QED
          BY <2>2, <4>1
      <3> QED
        BY <1>1, <2>1, <3>1, <3>2 DEF Numbers
    <2>5. Coming(a, r)'
      <3>1. rx'[a] = NoFrame /\ rx'[r] = rx[r] /\ step'[r] = step[r]
        BY <1>1, <1>2, <1>7 DEF SenderTypes, MailboxTypes
      <3>2. Coming(a, r)
        BY <1>2 DEF DeliveryOf
      <3>3. ASSUME step[r] = "free", rx[r].kind = "data"
            PROVE  NumberUsed(a, rx[r].seq)'
        <4>1. PICK k : k = rx[r].seq
          OBVIOUS
        <4>2. NumberUsed(a, k)'
          BY <2>3, <3>2, <3>3, <4>1 DEF Coming
        <4> QED
          BY <3>1, <4>1, <4>2 DEF NumberUsed
      <3> QED
        BY <1>1, <3>1, <3>2, <3>3 DEF Coming
    <2>6. Reporting(a)' /\ Progress(a, r)'
      BY <1>1, <2>1 DEF Reporting, Progress
    <2> QED
      BY <1>1, <1>2, <1>6, <2>4, <2>5, <2>6 DEF Delivers, DeliveryOf
  <1>8. CASE b = r
    <2>1. /\ step'[a] = step[a] /\ rx'[a] = rx[a] /\ rx'[r] = NoFrame /\ rx'[r].kind # "data"
          /\ starts'[a] = starts[a] /\ seq'[a] = seq[a] /\ step'[r] = "free"
          /\ last_rx_seq'[r] = -1
      <3>1. step'[a] = step[a] /\ starts'[a] = starts[a] /\ seq'[a] = seq[a] /\ step'[r] = "free"
        BY <1>1, <1>2, <1>8 DEF SenderTypes
      <3>2. rx'[a] = rx[a] /\ rx'[r] = NoFrame
        BY <1>1, <1>2, <1>8 DEF MailboxTypes
      <3>3. last_rx_seq'[r] = -1
        BY <1>1, <1>2, <1>8 DEF ReaderTypes
      <3> QED
        BY <3>1, <3>2, <3>3, FrameFacts
    <2>2. Remembers(r)' = -1
      BY <1>1, <1>3, <1>8, <2>1 DEF Remembers
    <2>3. Waiting(a)' <=> Waiting(a)
      BY <1>1 DEF Waiting
    <2>4. ~ Taken(a, r)'
      <3>1. Waiting(a) => sending[a].seq # -1
        <4>1. ASSUME Waiting(a) PROVE sending[a].seq \in SeqNumbers
          BY <4>1, CurrentFrame, FrameFacts, FieldTypes
        <4> QED
          BY <4>1 DEF SeqNumbers
      <3> QED
        BY <1>1, <2>2, <2>3, <3>1 DEF Taken
    <2>5. Numbers(a, r)'
      BY <1>1, <1>2, <2>1, <2>2, <2>3 DEF DeliveryOf, Numbers
    <2>6. Reporting(a)'
      BY <1>1, <1>2, <2>1, <2>3 DEF DeliveryOf, Reporting
    <2>7. Coming(a, r)'
      BY <1>1, <2>1 DEF Coming, Quiet
    <2>8. Progress(a, r)'
      <3> SUFFICES ASSUME Waiting(a), typed[a] \notin excused[a]
                   PROVE  HasUpTo(a, r, Had(a, r))'
        BY <1>1, <2>3 DEF Progress
      <3>1. HasUpTo(a, r, Had(a, r))
        BY <1>2 DEF DeliveryOf, Progress
      <3>2. /\ sending[a].idx \in Nat /\ sending[a].idx < sending[a].count
            /\ sending[a].count \in Nat
        BY CurrentFrame, FrameFacts, FieldTypes
      <3>3. ~ (sending[a].count > 1 /\ Had(a, r) > 0)
        BY <1>1, <1>8, <3>1 DEF HasUpTo
      <3>4. sending[a].idx = 0
        BY <3>2, <3>3 DEF Had
      <3>5. Had(a, r)' = 0
        BY <1>1, <2>4, <3>4 DEF Had
      <3>6. HasUpTo(a, r, 0)'
        BY <1>1, <3>2 DEF HasUpTo
      <3> QED
        BY <3>5, <3>6
    <2> QED
      BY <1>1, <1>2, <1>6, <2>5, <2>6, <2>7, <2>8 DEF Delivers, DeliveryOf
  <1> QED
    BY <1>2, <1>7, <1>8

-----------------------------------------------------------------------------
(* A data frame is taken.                                                  *)

\* fragments with the indices up to n are n
LEMMA IndexCount ==
  ASSUME NEW parts \in SUBSET DataFrames, NEW n \in Nat,
         \A g, h \in parts : g.idx = h.idx => g = h,
         {g.idx : g \in parts} = 0..n - 1
  PROVE  IsFiniteSet(parts) /\ Cardinality(parts) = n
  <1> DEFINE I == 0..n - 1
             idx == [g \in parts |-> g.idx]
  <1>1. IsFiniteSet(I) /\ Cardinality(I) = n
    <2>1. IsFiniteSet(I) /\ Cardinality(I) = IF 0 > n - 1 THEN 0 ELSE n - 1 - 0 + 1
      BY FS_Interval
    <2> QED
      BY <2>1
  <1>2. {g.idx : g \in parts} = I
    OBVIOUS
  <1> HIDE DEF I
  <1>3. idx \in Injection(parts, I)
    <2>1. idx \in [parts -> I] /\ \A g, h \in parts : idx[g] = idx[h] => g = h
      BY <1>2
    <2> HIDE DEF idx
    <2> QED
      BY <2>1 DEF Injection, IsInjective
  <1>4. idx \in Surjection(parts, I)
    <2>1. idx \in [parts -> I] /\ \A i \in I : \E g \in parts : idx[g] = i
      BY <1>2
    <2> HIDE DEF idx
    <2> QED
      BY <2>1 DEF Surjection
  <1> QED
    BY <1>1, <1>3, <1>4, FS_Injection

\* the fragment after those that are there: the line is complete with the last one
LEMMA NextFragment ==
  ASSUME ChatTypes, OneMessage, NEW r \in Boards, NEW f \in DataFrames, f.count > 1,
         {g.idx : g \in Reassembly(r, f).parts} = 0..f.idx - 1
  PROVE  IF f.idx + 1 = f.count THEN Use(r, f).shows # {}
         ELSE /\ Use(r, f).left.id = f.id /\ Use(r, f).left.count = f.count
              /\ {g.idx : g \in Use(r, f).left.parts} = 0..f.idx
  <1> DEFINE old == Reassembly(r, f)
             parts == old.parts \cup {f}
  <1>1. /\ f.idx \in Nat /\ f.count \in Nat /\ f.id \in Int
    BY FrameFacts, FieldTypes
  <1>2. /\ old \in [id : Int, count : Nat, parts : SUBSET DataFrames]
        /\ old.id = f.id /\ old.count = f.count
        /\ \A g, h \in old.parts : g.idx = h.idx => g = h
    <2>1. reassembly[r] \in [id : Int, count : Nat, parts : SUBSET DataFrames]
      BY DEF ChatTypes, ReaderTypes
    <2>2. \A g, h \in reassembly[r].parts : g.idx = h.idx => g = h
      BY DEF OneMessage
    <2> QED
      BY <1>1, <2>1, <2>2 DEF Reassembly
  <1> HIDE DEF old
  <1>3. \A g \in old.parts : g.idx \in 0..f.idx - 1
    BY DEF old
  <1>4. ~ \E g \in old.parts : g.idx = f.idx
    <2>1. f.idx \notin 0..f.idx - 1
      BY <1>1
    <2> QED
      BY <1>3, <2>1
  <1>5. {g.idx : g \in parts} = 0..f.idx
    <2>1. {g.idx : g \in parts} = {g.idx : g \in old.parts} \cup {f.idx}
      OBVIOUS
    <2>2. \A n \in Nat : (0..n - 1) \cup {n} = 0..n
      OBVIOUS
    <2> QED
      BY <1>1, <2>1, <2>2 DEF old
  <1>6. parts \in SUBSET DataFrames /\ \A g, h \in parts : g.idx = h.idx => g = h
    BY <1>2, <1>4
  <1>7. Cardinality(parts) = f.idx + 1
    <2>1. \A i \in Nat : \E n \in Nat : n = i + 1 /\ n - 1 = i
      <3>1. \A i \in Nat : i + 1 \in Nat /\ i + 1 - 1 = i
        OBVIOUS
      <3> QED
        BY <3>1
    <2>2. PICK n \in Nat : n = f.idx + 1 /\ n - 1 = f.idx
      BY <1>1, <2>1
    <2>3. {g.idx : g \in parts} = 0..n - 1
      BY <1>5, <2>2
    <2> HIDE DEF parts
    <2> QED
      BY <1>6, <2>2, <2>3, IndexCount
  <1>8. Use(r, f) = [shows |-> IF Cardinality(parts) = f.count THEN parts ELSE {},
                     left  |-> IF Cardinality(parts) = f.count THEN NoMessage
                               ELSE [old EXCEPT !.parts = parts]]
    BY <1>4 DEF Use, TakeFragment, old
  <1>9. f \in parts
    OBVIOUS
  <1> HIDE DEF parts
  <1>10. CASE f.idx + 1 = f.count
    BY <1>7, <1>8, <1>9, <1>10
  <1>11. CASE f.idx + 1 # f.count
    <2>1. Use(r, f).left = [old EXCEPT !.parts = parts]
      BY <1>7, <1>8, <1>11
    <2>2. /\ Use(r, f).left.id = f.id /\ Use(r, f).left.count = f.count
          /\ Use(r, f).left.parts = parts
      BY <1>2, <2>1
    <2> QED
      BY <1>5, <1>11, <2>2
  <1> QED
    BY <1>10, <1>11

\* what r has of a message when a's next frame is taken: nothing, or the fragments before it
LEMMA FragmentsBefore ==
  ASSUME NEW a \in Boards, NEW r \in Boards, Between(a, r), Waiting(a),
         step[r] = "free", rx[r] = sending[a], last_rx_seq[r] # sending[a].seq,
         sending[a].count > 1, HasUpTo(a, r, sending[a].idx)
  PROVE  {g.idx : g \in Reassembly(r, sending[a]).parts} = 0..sending[a].idx - 1
  <1> DEFINE f == sending[a]
             old == reassembly[r]
  <1>1. /\ ChatTypes /\ Jobs /\ LinesApart /\ OneMessage /\ InOrder(a, r)
    BY Situation DEF Between, ChatTypes, WholeInv, OrderInv, Order
  <1>2. f \in DataFrames /\ f.idx \in Nat /\ f.idx < f.count /\ f.kind = "data"
        /\ f.seq \in SeqNumbers /\ f.id \in MessageIds
    BY CurrentFrame, FrameFacts, FieldTypes
  <1>3. job[r] = NoFrame
    BY <1>1 DEF Jobs
  <1>4. Kept(r) = old
    BY <1>3, FrameFacts DEF Kept
  <1>5. CASE f.idx > 0
    <2>1. old.id = f.id /\ old.count = f.count /\ {g.idx : g \in old.parts} = 0..f.idx - 1
      BY <1>2, <1>4, <1>5 DEF HasUpTo
    <2> QED
      BY <2>1 DEF Reassembly
  <1>6. CASE ~ f.idx > 0
    <2>1. f.idx = 0 /\ 0..f.idx - 1 = {}
      BY <1>2, <1>6
    <2>2. ASSUME NEW g \in Reassembly(r, f).parts PROVE FALSE
      <3>1. g \in old.parts /\ f.id = old.id /\ f.count = old.count
        BY DEF Reassembly
      <3>2. g \in DataFrames /\ g.id = f.id /\ g.count = f.count
        BY <1>1, <3>1 DEF OneMessage, ChatTypes, ReaderTypes
      <3>3. InPlay(g) /\ InPlay(f)
        BY <3>1 DEF InPlay, At
      <3>4. g.line = f.line
        BY <1>1, <1>2, <3>2, <3>3 DEF LinesApart, SameLine
      <3>5. Knows(r, g) /\ Ahead(a, r, f)
        BY <1>2, <3>1 DEF Knows, Ahead, IsArriving
      <3>6. Leq(g, f)
        BY <1>1, <1>2, <3>2, <3>5 DEF InOrder
      <3>7. g.idx \in Nat /\ g.line \in Nat
        BY <3>2, FrameFacts, FieldTypes
      <3>8. g = f
        BY <2>1, <3>4, <3>6, <3>7 DEF Leq, Before
      <3>9. last_rx_seq[r] = f.seq
        BY <1>1, <1>2, <3>5, <3>8 DEF InOrder
      <3> QED
        BY <3>9
    <2> QED
      BY <2>1, <2>2
  <1> QED
    BY <1>5, <1>6

\* what is shown next is a line of a: the last one, when the frame is of it
LEMMA NewlyArrived ==
  ASSUME NEW a \in Boards, NEW r \in Boards, Between(a, r), NEW f \in DataFrames, InPlay(f),
         f.from = a, f.line = typed[a], f.seq # last_rx_seq[r], job[r] = NoFrame,
         job'[r] = AckOf(f), UNCHANGED <<printed, last_rx_seq, reassembly>>
  PROVE  /\ Kept(r)' = Use(r, f).left
         /\ Arrived(a)' = IF Use(r, f).shows = {} THEN Arrived(a)
                                                  ELSE Append(Arrived(a), typed[a])
         /\ Use(r, f).shows # {} => Delivery!Has(Append(Arrived(a), typed[a]), typed[a])
  <1> DEFINE S == Use(r, f).shows
  <1>1. /\ ChatTypes /\ LinesApart /\ OneMessage /\ Peer(a) = r
    BY Situation DEF Between, WholeInv
  <1>2. /\ AckOf(f).kind = "ack" /\ AckOf(f).seq = f.seq
        /\ [AckOf(f) EXCEPT !.kind = "data"] = f
    BY FrameFacts DEF AckOf, DataFrames, Frames
  <1>3. /\ Acknowledged(r)' = f /\ Use(r, Acknowledged(r))' = Use(r, f)
    <2>1. Acknowledged(r)' = f
      BY <1>2 DEF Acknowledged
    <2>2. Use(r, Acknowledged(r))' = Use(r, f)
      BY <2>1 DEF Use, TakeFragment, Reassembly
    <2> QED
      BY <2>1, <2>2
  <1>4. Kept(r)' = Use(r, f).left
    BY <1>2, <1>3 DEF Kept
  <1>5. AboutToShow(r) = {} /\ AboutToShow(r)' = S
    BY <1>2, <1>3, FrameFacts DEF AboutToShow
  <1> DEFINE shown == [i \in 1..Len(printed[r]) |-> printed[r][i].parts]
  <1>6. ShownBy(r) = shown /\ ShownBy(r)' = IF S = {} THEN shown ELSE Append(shown, S)
    BY <1>5 DEF ShownBy
  <1>7. Len(printed[r]) \in Nat
    BY <1>1 DEF ChatTypes, ReaderTypes
  <1>8. CASE S = {}
    BY <1>1, <1>4, <1>6, <1>8 DEF Arrived
  <1>9. CASE S # {}
    <2>1. f \in S /\ Whole(S)
      BY <1>1, <1>9, UseTyped, UseWhole
    <2> HIDE DEF S
    <2>2. LineOf(a, S) = typed[a]
      <3>1. \A g \in S : g.from = a /\ g.line = typed[a]
        BY <2>1 DEF Whole
      <3>2. (CHOOSE g \in S : TRUE) \in S
        BY <2>1
      <3> QED
        BY <3>1, <3>2 DEF LineOf
    <2> DEFINE n == Len(printed[r])
    <2>3. /\ Len(shown) = n /\ Len(Append(shown, S)) = n + 1
          /\ \A i \in 1..n : Append(shown, S)[i] = shown[i]
          /\ Append(shown, S)[n + 1] = S
      BY <1>7
    <2> DEFINE came == [i \in 1..n |-> LineOf(a, shown[i])]
               comes == [i \in 1..n + 1 |-> LineOf(a, Append(shown, S)[i])]
    <2>4. Arrived(a) = came
      BY <1>1, <1>6, <2>3 DEF Arrived
    <2>5. Arrived(a)' = comes
      <3>1. ShownBy(r)' = Append(shown, S) /\ Peer(a)' = r
        BY <1>1, <1>6, <1>9 DEF Peer
      <3>2. \A parts : LineOf(a, parts)' = LineOf(a, parts)
        BY DEF LineOf
      <3> HIDE DEF shown
      <3> QED
        BY <2>3, <3>1, <3>2 DEF Arrived
    <2> HIDE DEF shown
    <2>6. /\ \A i \in 1..n : comes[i] = came[i]
          /\ comes[n + 1] = typed[a]
      BY <1>7, <2>2, <2>3
    <2>7. comes = Append(came, typed[a])
      <3>1. Append(came, typed[a]) = [i \in 1..n + 1 |-> IF i = n + 1 THEN typed[a] ELSE came[i]]
        BY <1>7
      <3>2. \A i \in 1..n + 1 : i \in 1..n \/ i = n + 1
        BY <1>7
      <3>3. comes = [i \in 1..n + 1 |-> comes[i]]
        OBVIOUS
      <3> HIDE DEF came, comes
      <3> QED
        BY <2>6, <3>1, <3>2, <3>3, <1>7
    <2>8. Delivery!Has(Append(came, typed[a]), typed[a])
      <3>1. /\ Len(Append(came, typed[a])) = n + 1 /\ n + 1 \in 1..n + 1
            /\ Append(came, typed[a])[n + 1] = typed[a]
        BY <1>7
      <3> QED
        BY <3>1 DEF Delivery!Has
    <2> QED
      BY <1>4, <1>9, <2>4, <2>5, <2>7, <2>8 DEF S
  <1> QED
    BY <1>8, <1>9

\* a data frame is taken: dropped if it is remembered, else used
LEMMA PollDataDelivers ==
  ASSUME NEW a \in Boards, NEW r \in Boards, Between(a, r), NEW b \in Boards, PollData(b)
  PROVE  Delivers(a, r)
  <1> USE DEF chatVars, senderVars, readerVars, mailboxVars, screen, reports
  <1> DEFINE f == rx[r]
  <1>1. /\ UNCHANGED <<plan, starts, typed, sending, seq, settled, acked, excused,
                       last_rx_seq, reassembly, printed>>
        /\ step[b] = "free" /\ rx[b].kind = "data"
        /\ rx' = [rx EXCEPT ![b] = NoFrame]
        /\ step' = [step EXCEPT ![b] = "stop"] /\ job' = [job EXCEPT ![b] = AckOf(rx[b])]
    BY DEF PollData, TakeRx, SendFrame
  <1>2. /\ ChatTypes /\ SenderTypes /\ MailboxTypes /\ Jobs /\ OneBurst(a, r) /\ plan.arq
        /\ Numbers(a, r) /\ Reporting(a) /\ Coming(a, r) /\ Progress(a, r)
        /\ printed[a] = <<>> /\ a # r /\ \A c \in Boards : c = a \/ c = r
        /\ job[a].kind # "ack"
    BY Situation DEF Between, ChatTypes, DeliveryOf
  <1>3. b = r
    <2> SUFFICES ASSUME b = a PROVE FALSE
      BY <1>2
    <2>1. rx[a] # NoFrame
      BY <1>1, FrameFacts
    <2>2. Waiting(a) /\ rx[a] = AckOf(sending[a])
      BY <1>1, <1>2, <2>1 DEF OneBurst
    <2>3. sending[a] \in AnyFrames
      BY <2>2, CurrentFrame, FrameFacts
    <2> QED
      BY <1>1, <2>2, <2>3, FrameFacts
  <1>4. f # NoFrame /\ f \in DataFrames /\ f.seq \in SeqNumbers
    <2>1. f # NoFrame /\ f # BadFrame
      BY <1>1, <1>3, FrameFacts
    <2>2. f \in AnyFrames
      BY <1>2, <2>1 DEF MailboxTypes
    <2> QED
      BY <1>1, <1>3, <2>1, <2>2, FrameFacts, FieldTypes
  <1>5. /\ f.from = a /\ f.line = typed[a] /\ typed[a] > 0 /\ NumberUsed(a, f.seq)
    BY <1>1, <1>2, <1>3 DEF Coming
  <1>6. /\ step'[r] = "stop" /\ step'[a] = step[a] /\ job'[r] = AckOf(f) /\ job'[a] = job[a]
        /\ rx'[r] = NoFrame /\ rx'[a] = rx[a] /\ step[r] = "free" /\ job[r] = NoFrame
    BY <1>1, <1>2, <1>3 DEF SenderTypes, MailboxTypes, Jobs
  <1>7. AckOf(f).kind = "ack" /\ AckOf(f).seq = f.seq
    BY <1>4, FrameFacts DEF AckOf, DataFrames, Frames
  <1>8. Remembers(r)' = f.seq /\ Remembers(r) = last_rx_seq[r] /\ Kept(r) = reassembly[r]
    BY <1>6, <1>7, FrameFacts DEF Remembers, Kept
  <1>9. Waiting(a) /\ step[a] # "off" => f = sending[a]
    <2>1. Answering(r)
      BY <1>4, <1>6 DEF Answering
    <2> QED
      BY <1>2, <1>6, <2>1 DEF OneBurst
  <1>10. (Waiting(a)' <=> Waiting(a)) /\ (Waiting(a) => step[a] # "off" /\ Taken(a, r)')
    <2>1. (Waiting(a)' <=> Waiting(a)) /\ (Waiting(a) => step[a] # "off")
      BY <1>1, <1>2 DEF Waiting, Reporting
    <2> QED
      BY <1>1, <1>8, <1>9, <2>1 DEF Taken
  <1>11. Arrived(r)' = Arrived(r)
    <2>1. AboutToShow(a)' = AboutToShow(a)
      BY <1>2, <1>6, ReaderStill
    <2> QED
      BY <1>1, <2>1, ArrivedStays, Situation
  <1>12. Numbers(a, r)'
    <2>1. NumberUsed(a, Remembers(r))'
      BY <1>1, <1>5, <1>8 DEF NumberUsed
    <2> QED
      BY <1>1, <1>2, <1>10, <2>1 DEF Numbers
  <1>13. Reporting(a)'
    BY <1>1, <1>2, <1>6, <1>10 DEF Reporting
  <1>14. Coming(a, r)'
    <2>1. step[a] = "free" /\ rx[a] # NoFrame => Waiting(a)
      BY <1>2 DEF Coming, Taken
    <2> QED
      BY <1>6, <1>10, <2>1 DEF Coming
  <1> HIDE DEF f
  <1>15. CASE f.seq = last_rx_seq[r]
    <2>1. Kept(r)' = Kept(r)
      BY <1>1, <1>6, <1>7, <1>8, <1>15 DEF Kept
    <2>2. Arrived(a)' = Arrived(a)
      <3>1. AboutToShow(r)' = AboutToShow(r)
        BY <1>1, <1>6, <1>7, <1>15, FrameFacts DEF AboutToShow
      <3> QED
        BY <1>1, <3>1, ArrivedStays, Situation
    <2>3. Progress(a, r)'
      <3> SUFFICES ASSUME Waiting(a), typed[a] \notin excused[a]
                   PROVE  HasUpTo(a, r, Had(a, r))'
        BY <1>1, <1>10 DEF Progress
      <3>1. Had(a, r)' = Had(a, r)
        <4>1. Taken(a, r)
          BY <1>8, <1>9, <1>10, <1>15 DEF Taken
        <4> QED
          BY <1>1, <1>10, <4>1 DEF Had
      <3>2. HasUpTo(a, r, Had(a, r))
        BY <1>2 DEF Progress
      <3>3. PICK n : n = Had(a, r)
        OBVIOUS
      <3>4. HasUpTo(a, r, n)'
        BY <1>1, <1>6, <2>1, <2>2, <3>2, <3>3 DEF HasUpTo, Delivery!Has
      <3> QED
        BY <3>1, <3>3, <3>4 DEF HasUpTo
    <2>4. Delivery!Step
      BY <1>1, <1>2, <1>11, <2>2, AbstractStill
    <2> QED
      BY <1>1, <1>2, <1>12, <1>13, <1>14, <2>3, <2>4 DEF Delivers, DeliveryOf
  <1>16. CASE f.seq # last_rx_seq[r]
    <2> DEFINE shows == Use(r, f).shows
    <2>1. InPlay(f)
      BY DEF InPlay, At, f
    <2>2. /\ Kept(r)' = Use(r, f).left
          /\ Arrived(a)' = IF shows = {} THEN Arrived(a) ELSE Append(Arrived(a), typed[a])
          /\ shows # {} => Delivery!Has(Append(Arrived(a), typed[a]), typed[a])
      BY <1>1, <1>4, <1>5, <1>6, <1>16, <2>1, NewlyArrived
    <2>3. Progress(a, r)'
      <3> SUFFICES ASSUME Waiting(a), typed[a] \notin excused[a]
                   PROVE  HasUpTo(a, r, Had(a, r))'
        BY <1>1, <1>10 DEF Progress
      <3>1. f = sending[a] /\ step[a] # "off" /\ Taken(a, r)'
        BY <1>9, <1>10
      <3>2. /\ f.idx \in Nat /\ f.count \in Nat \ {0} /\ f.idx < f.count
        BY <1>4, FrameFacts, FieldTypes
      <3>3. ~ Taken(a, r) /\ Had(a, r) = f.idx
        BY <1>8, <1>16, <3>1 DEF Taken, Had
      <3>4. PICK n : n = f.idx + 1
        OBVIOUS
      <3>5. Had(a, r)' = n
        BY <1>1, <3>1, <3>4 DEF Had
      <3>6. HasUpTo(a, r, f.idx)
        BY <1>2, <3>3 DEF Progress
      <3>7. n = f.count => shows # {}
        <4>1. CASE f.count > 1
          <5>1. {g.idx : g \in Reassembly(r, f).parts} = 0..f.idx - 1
            BY <1>6, <1>16, <3>1, <3>6, <4>1, FragmentsBefore DEF f
          <5>2. ChatTypes /\ OneMessage
            BY DEF Between, WholeInv
          <5> QED
            BY <1>4, <3>4, <4>1, <5>1, <5>2, NextFragment
        <4>2. CASE ~ f.count > 1
          BY <4>2 DEF Use
        <4> QED
          BY <4>1, <4>2
      <3>8. n # f.count /\ f.count > 1 => /\ Use(r, f).left.id = f.id
                                          /\ Use(r, f).left.count = f.count
                                          /\ {g.idx : g \in Use(r, f).left.parts} = 0..n - 1
        <4> SUFFICES ASSUME n # f.count, f.count > 1
                     PROVE  /\ Use(r, f).left.id = f.id
                            /\ Use(r, f).left.count = f.count
                            /\ {g.idx : g \in Use(r, f).left.parts} = 0..n - 1
          OBVIOUS
        <4>1. {g.idx : g \in Reassembly(r, f).parts} = 0..f.idx - 1
          BY <1>6, <1>16, <3>1, <3>6, FragmentsBefore DEF f
        <4>2. ChatTypes /\ OneMessage
          BY DEF Between, WholeInv
        <4>3. n - 1 = f.idx
          BY <3>2, <3>4
        <4> QED
          BY <1>4, <3>4, <4>1, <4>2, <4>3, NextFragment
      <3>9. HasUpTo(a, r, n)'
        BY <1>1, <1>6, <2>2, <3>1, <3>2, <3>4, <3>7, <3>8 DEF HasUpTo, Delivery!Has
      <3> QED
        BY <3>5, <3>9 DEF HasUpTo
    <2>4. Delivery!Step
      <3>1. CASE shows = {}
        BY <1>1, <1>2, <1>11, <2>2, <3>1, AbstractStill
      <3>2. CASE shows # {}
        <4>1. Delivery!Arrive(a)
          BY <1>1, <1>2, <1>5, <1>11, <2>2, <3>2 DEF Delivery!Arrive
        <4> QED
          BY <4>1 DEF Delivery!Step, Delivery!Next
      <3> QED
        BY <3>1, <3>2
    <2> QED
      BY <1>1, <1>2, <1>12, <1>13, <1>14, <2>3, <2>4 DEF Delivers, DeliveryOf
  <1> QED
    BY <1>15, <1>16

-----------------------------------------------------------------------------
(* All the steps.                                                          *)

\* whichever board moves, and however, the reader has what it should
LEMMA StepDelivers ==
  ASSUME SeqsApart, StartsLeft, NEW a \in Boards, NEW r \in Boards, Between(a, r),
         NEW b \in Boards,
         \/ Sends(b) \/ Burst(b) \/ Polls(b) \/ TypeLine(b) \/ Repeat(b) \/ GiveUp(b)
         \/ Ends(b) \/ Start(b)
  PROVE  Delivers(a, r)
  <1>1. CASE Sends(b)
    BY <1>1, SendDelivers, RxListenDelivers DEF Sends
  <1>2. CASE Polls(b)
    <2>1. ~ PollPlain(b)
      BY Situation DEF PollPlain
    <2> QED
      BY <1>2, <2>1, PollDataDelivers, PollAckDelivers, PollOtherDelivers DEF Polls
  <1>3. CASE Burst(b) \/ TypeLine(b) \/ Repeat(b) \/ GiveUp(b) \/ Ends(b) \/ Start(b)
    BY <1>3, BurstDelivers, TypeLineDelivers, RepeatDelivers, GiveUpDelivers, EndDelivers,
       StartDelivers
  <1> QED
    BY <1>1, <1>2, <1>3

\* a step of neither board changes nothing of what was delivered
LEMMA StutterDelivers ==
  ASSUME NEW a \in Boards, NEW r \in Boards, Between(a, r), UNCHANGED vars
  PROVE  Delivers(a, r)
  <1>1. /\ UNCHANGED <<plan, starts, step, job, typed, sending, seq, last_rx_seq, reassembly,
                       rx, printed, settled, acked, excused>>
    BY DEF vars, chatVars, senderVars, readerVars, mailboxVars, screen, reports
  <1>2. \A c \in Boards : /\ AboutToShow(c)' = AboutToShow(c)
                          /\ Remembers(c)' = Remembers(c) /\ Kept(c)' = Kept(c)
    BY <1>1, ReaderStill
  <1>3. Arrived(a)' = Arrived(a) /\ Arrived(r)' = Arrived(r)
    BY <1>1, <1>2, ArrivedStays, Situation
  <1>4. Coming(a, r)'
    BY <1>1, <1>2 DEF Between, DeliveryOf, Coming, Taken, Waiting, NumberUsed
  <1> QED
    BY <1>1, <1>2, <1>3, <1>4, StillStep

\* what the users do is settled at the start
LEMMA PlanStays ==
  ASSUME NEW b \in Boards,
         \/ Sends(b) \/ Burst(b) \/ Polls(b) \/ TypeLine(b) \/ Repeat(b) \/ GiveUp(b)
         \/ Ends(b) \/ Start(b)
  PROVE  plan' = plan
  BY DEF Sends, RxStop, TxStart, NotTaken, TakeOwn, RxListen, Burst, TxDone, Polls,
     PollPlain, PollData, PollAck, PollOther, TypeLine, Repeat, GiveUp,
     Ends, Quit, QuitBeforeFrame, EndChat, Start

\* every step of chat is a step of AckedDelivery, or none, and keeps the invariant
LEMMA NextDelivers ==
  ASSUME SeqsApart, ChatTypes, StartsLeft, ListenInv, OrderInv, WholeInv, DeliveryInv,
         [Next]_vars
  PROVE  DeliveryInv' /\ [Prompt => Delivery!Step]_vars
  <1>1. plan' = plan
    BY PlanStays DEF Next, vars
  <1>2. (Prompt' <=> Prompt) /\ \A c \in Boards : Reads(c)' <=> Reads(c)
    BY <1>1 DEF Prompt, OneTypist, Reads
  <1>3. ASSUME Prompt, NEW a \in Boards, NEW r \in Boards, a # r, Reads(r)
        PROVE  Delivers(a, r)
    <2>1. Between(a, r)
      BY <1>3 DEF Between, DeliveryInv
    <2> QED
      BY <2>1, StepDelivers, StutterDelivers DEF Next
  <1>4. DeliveryInv'
    BY <1>2, <1>3 DEF DeliveryInv, Delivers
  <1>5. Prompt => Delivery!Step
    <2> SUFFICES ASSUME Prompt PROVE Delivery!Step
      OBVIOUS
    <2>1. PICK r \in Boards : Reads(r)
      BY DEF Prompt, OneTypist, Reads
    <2>2. Peer(r) \in Boards /\ Peer(r) # r
      BY PeerIs
    <2> QED
      BY <1>3, <2>1, <2>2 DEF Delivers
  <1> QED
    BY <1>4, <1>5

\* at the start nothing has arrived
LEMMA InitArrived ==
  ASSUME Init, NEW b \in Boards
  PROVE  Arrived(b) = <<>>
  <1>1. Peer(b) \in Boards
    BY PeerIs
  <1>2. AboutToShow(Peer(b)) = {}
    BY <1>1, FrameFacts DEF Init, AboutToShow
  <1>3. printed[Peer(b)] = <<>>
    BY <1>1 DEF Init
  <1>4. \A f : [i \in 1..0 |-> f[i]] = <<>>
    OBVIOUS
  <1>5. ShownBy(Peer(b)) = <<>>
    BY <1>2, <1>3 DEF ShownBy
  <1> QED
    BY <1>5 DEF Arrived

\* and the abstract specification is where it starts
LEMMA InitDelivers ==
  ASSUME Init
  PROVE  DeliveryInv /\ (Prompt => Delivery!Init)
  <1>1. Delivery!Init
    BY InitArrived DEF Init, Delivery!Init
  <1>2. ASSUME Prompt, NEW a \in Boards, NEW r \in Boards PROVE DeliveryOf(a, r)
    <2>1. /\ printed[a] = <<>> /\ ~ Waiting(a) /\ settled[a] = typed[a] /\ typed[a] = 0
          /\ starts[a] = 1 /\ seq[a] = FirstSeq[a][1] /\ rx[a] = NoFrame
      BY <1>2 DEF Init, Waiting, Prompt
    <2>2. Remembers(r) = -1 /\ rx[r].kind # "data"
      BY FrameFacts DEF Init, Remembers
    <2>3. Numbers(a, r)
      <3>1. seq[a] \in Nat
        BY InitTyped DEF ChatTypes, SenderTypes
      <3>2. FirstSeq[a][starts[a]] = seq[a]
        BY <2>1
      <3>3. seq[a] <= seq[a] /\ seq[a] <= seq[a] + 16 * 0
        BY <3>1
      <3> QED
        BY <2>1, <2>2, <3>2, <3>3 DEF Numbers
    <2> QED
      BY <2>1, <2>2, <2>3 DEF DeliveryOf, Reporting, Coming, Progress
  <1> QED
    BY <1>1, <1>2 DEF DeliveryInv

(***************************************************************************)
(* With one typist over mailboxes that do not stall, chat --arq implements *)
(* AckedDelivery: a line reported as acknowledged has arrived, unless      *)
(* either chat was ended while it went out in fragments, and lines arrive  *)
(* in the order they were typed.  For the end of the typist's own chat     *)
(* that is an exception the program's words do not make.  It needs numbers *)
(* that do not meet: a frame whose 16-bit number is the one remembered is  *)
(* dropped as a repeat and acknowledged all the same, and ids that meet    *)
(* mix two lines.                                                          *)
(***************************************************************************)
THEOREM DeliveryKept == SeqsApart /\ IdsApart => (Spec => DeliverySpec)
  <1> SUFFICES ASSUME SeqsApart /\ IdsApart PROVE Spec => DeliverySpec
    OBVIOUS
  <1> DEFINE Inv == ChatTypes /\ StartsLeft /\ ListenInv /\ OrderInv /\ WholeInv /\ DeliveryInv
  <1>1. Init => Inv /\ (Prompt => Delivery!Init)
    BY InitTyped, InitListens, InitOrdered, InitWhole, InitDelivers DEF Init, StartsLeft
  <1>2. Inv /\ [Next]_vars => Inv' /\ [Prompt => Delivery!Step]_vars
    BY StepTyped, StutterTyped, StepListens, StutterListens, StepOrdered, StutterOrdered,
       StepWhole, StutterWhole, NextDelivers DEF Next
  <1> HIDE DEF Inv
  <1> QED
    BY <1>1, <1>2, PTL DEF Spec, DeliverySpec
=============================================================================
