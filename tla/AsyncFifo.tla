----------------------------- MODULE AsyncFifo -----------------------------
(***************************************************************************)
(* The dual-clock FIFO of the OFDM radio, ofdm_async_fifo.v: 2^AW words,   *)
(* pointers one bit wider, each handed to the other clock as a Gray word   *)
(* through two flip-flops.                                                 *)
(*                                                                         *)
(* A clock edge that finds the other pointer at rest copies it; one that   *)
(* coincides with an edge of the other clock may catch every bit of it     *)
(* before or after the change.  The resets are left out: the header wants  *)
(* both together, at power-on, which is Init.                              *)
(***************************************************************************)
EXTENDS Integers

CONSTANTS
  AW,     \* log2 of the depth, at least 2
  Pow2,   \* Pow2[i] is 2^i, for i in 0..AW + 1
  Words,  \* what is stored
  NoWord  \* a word never written

VARIABLES
  mem,
  wr_bin, rd_gray_w1, rd_gray_w2,   \* wr_clk: write pointer, read pointer seen
  rd_bin, wr_gray_r1, wr_gray_r2    \* rd_clk: read pointer, write pointer seen

writeSide == <<mem, wr_bin, rd_gray_w1, rd_gray_w2>>
readSide  == <<rd_bin, wr_gray_r1, wr_gray_r2>>
fifoVars  == <<writeSide, readSide>>

Depth == Pow2[AW]
Lap   == 2 * Depth
Pointers == 0..Lap - 1
GrayWords == [0..AW -> {0, 1}]

Bit(b, i) == (b \div Pow2[i]) % 2
Gray(b) == [i \in 0..AW |-> (Bit(b, i) + Bit(b, i + 1)) % 2]
NextOf(b) == (b + 1) % Lap

\* variant: a lap ahead as in a binary pointer, the top bit alone inverted
TopBitInverted(g) == [g EXCEPT ![AW] = 1 - @]

\* the Gray word one lap ahead: the top two bits inverted
LapAhead(g) == [g EXCEPT ![AW] = 1 - @, ![AW - 1] = 1 - @]

wr_full  == Gray(wr_bin) = LapAhead(rd_gray_w2)
rd_empty == Gray(rd_bin) = wr_gray_r2
rd_data  == mem[rd_bin % Depth]

\* what a flip-flop may catch of a word that changes from old to new
Caught(old, new) == {g \in GrayWords : \A i \in 0..AW : g[i] \in {old[i], new[i]}}

FifoInit ==
  /\ mem = [a \in 0..Depth - 1 |-> NoWord]
  /\ wr_bin = 0 /\ rd_gray_w1 = Gray(0) /\ rd_gray_w2 = Gray(0)
  /\ rd_bin = 0 /\ wr_gray_r1 = Gray(0) /\ wr_gray_r2 = Gray(0)

\* one edge of wr_clk that offers w if en
WriteEdge(en, w) ==
  /\ IF en /\ ~ wr_full
     THEN /\ mem' = [mem EXCEPT ![wr_bin % Depth] = w]
          /\ wr_bin' = NextOf(wr_bin)
     ELSE UNCHANGED <<mem, wr_bin>>
  /\ rd_gray_w2' = rd_gray_w1

\* one edge of rd_clk that takes the word shown if en
ReadEdge(en) ==
  /\ rd_bin' = IF en /\ ~ rd_empty THEN NextOf(rd_bin) ELSE rd_bin
  /\ wr_gray_r2' = wr_gray_r1

WriteClock(en, w) ==
  /\ WriteEdge(en, w)
  /\ rd_gray_w1' = Gray(rd_bin)
  /\ UNCHANGED readSide

ReadClock(en) ==
  /\ ReadEdge(en)
  /\ wr_gray_r1' = Gray(wr_bin)
  /\ UNCHANGED writeSide

BothClocks(wr_en, w, rd_en) ==
  /\ WriteEdge(wr_en, w)
  /\ ReadEdge(rd_en)
  /\ rd_gray_w1' \in Caught(Gray(rd_bin), Gray(rd_bin'))
  /\ wr_gray_r1' \in Caught(Gray(wr_bin), Gray(wr_bin'))

FifoNext ==
  \/ \E en \in BOOLEAN, w \in Words : WriteClock(en, w)
  \/ \E en \in BOOLEAN : ReadClock(en)
  \/ \E wr_en, rd_en \in BOOLEAN, w \in Words : BothClocks(wr_en, w, rd_en)

FifoSpec == FifoInit /\ [][FifoNext]_fifoVars

-----------------------------------------------------------------------------
FifoTypeOK ==
  /\ mem \in [0..Depth - 1 -> Words \cup {NoWord}]
  /\ wr_bin \in Pointers /\ rd_bin \in Pointers
  /\ rd_gray_w1 \in GrayWords /\ rd_gray_w2 \in GrayWords
  /\ wr_gray_r1 \in GrayWords /\ wr_gray_r2 \in GrayWords

\* words between the two pointers
Held == (wr_bin - rd_bin) % Lap

(***************************************************************************)
(* "Full and empty are therefore pessimistic, never wrong": the FIFO never *)
(* holds more than its depth, is shown full whenever it is, and empty      *)
(* whenever it is, though each side knows the other's pointer two clocks   *)
(* late and as caught in mid-change.                                       *)
(***************************************************************************)
NeverWrong ==
  /\ Held <= Depth
  /\ Held = Depth => wr_full
  /\ Held = 0 => rd_empty
=============================================================================
