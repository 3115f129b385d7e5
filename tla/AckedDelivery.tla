--------------------------- MODULE AckedDelivery ---------------------------
(***************************************************************************)
(* What chat --arq promises its two users: the lines of a board arrive at  *)
(* the other one in the order they were typed, and a line is reported as   *)
(* acknowledged only after it has arrived.  A line may arrive again while  *)
(* its sender has not settled it.  Two lines sent in fragments are         *)
(* excused: one under way when the reader's chat was ended may have lost   *)
(* the fragments that chat had, and one that its own user cuts with Ctrl-C *)
(* between two fragments may be reported as acknowledged without its rest. *)
(***************************************************************************)
EXTENDS Naturals, Sequences

CONSTANT Boards

VARIABLES
  lines,     \* lines[b]: frames each line of b takes, in the order typed
  typed,     \* typed[b]: lines board b has typed
  settled,   \* settled[b]: of these, the ones reported on, one way or the other
  arrived,   \* arrived[b]: numbers of b's lines, as they came to the other board
  acked,     \* acked[b]: numbers of b's lines reported as acknowledged
  excused    \* excused[b]: lines of b cut by the end of either chat

deliveryVars == <<lines, typed, settled, arrived, acked, excused>>

Init ==
  /\ typed = [b \in Boards |-> 0] /\ settled = [b \in Boards |-> 0]
  /\ arrived = [b \in Boards |-> <<>>] /\ acked = [b \in Boards |-> {}]
  /\ excused = [b \in Boards |-> {}]

Type(b) ==
  /\ settled[b] = typed[b] /\ typed[b] < Len(lines[b])
  /\ typed' = [typed EXCEPT ![b] = @ + 1]
  /\ UNCHANGED <<lines, settled, arrived, acked, excused>>

\* only the last line typed can still arrive
Arrive(b) ==
  /\ typed[b] > 0
  /\ arrived' = [arrived EXCEPT ![b] = Append(@, typed[b])]
  /\ UNCHANGED <<lines, typed, settled, acked, excused>>

Has(s, x) == \E i \in 1..Len(s) : s[i] = x

Acknowledge(b) ==
  /\ settled[b] < typed[b]
  /\ Has(arrived[b], typed[b]) \/ typed[b] \in excused[b]
  /\ settled' = [settled EXCEPT ![b] = typed[b]]
  /\ acked' = [acked EXCEPT ![b] = @ \cup {typed[b]}]
  /\ UNCHANGED <<lines, typed, arrived, excused>>

GiveUp(b) ==
  /\ settled[b] < typed[b]
  /\ settled' = [settled EXCEPT ![b] = typed[b]]
  /\ UNCHANGED <<lines, typed, arrived, acked, excused>>

ReaderEnds(b) ==
  /\ settled[b] < typed[b] /\ lines[b][typed[b]] > 1
  /\ excused' = [excused EXCEPT ![b] = @ \cup {typed[b]}]
  /\ UNCHANGED <<lines, typed, settled, arrived, acked>>

SenderEnds(b) ==
  /\ settled[b] < typed[b] /\ lines[b][typed[b]] > 1
  /\ settled' = [settled EXCEPT ![b] = typed[b]]
  /\ acked' = [acked EXCEPT ![b] = @ \cup {typed[b]}]
  /\ excused' = [excused EXCEPT ![b] = @ \cup {typed[b]}]
  /\ UNCHANGED <<lines, typed, arrived>>

Next == \E b \in Boards : \/ Type(b) \/ Arrive(b) \/ Acknowledge(b)
                          \/ GiveUp(b) \/ ReaderEnds(b) \/ SenderEnds(b)

Step == [Next]_deliveryVars

Spec == Init /\ [][Next]_deliveryVars
=============================================================================
