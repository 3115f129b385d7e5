----------------------------- MODULE OfdmBurst -----------------------------
(***************************************************************************)
(* What a TX_START of the OFDM radio promises: the DAC is given the burst  *)
(* of the frame in the TX buffer, sample by sample and in order, with      *)
(* silence where no sample is ready, and TX done is shown when the last    *)
(* sample is out.                                                          *)
(***************************************************************************)
EXTENDS Naturals

CONSTANTS
  Numbers,       \* frame numbers
  Length,        \* samples of a burst
  Sample(_, _),  \* Sample(n, k): sample k of the burst of frame n
  Silence

VARIABLES
  busy, done,
  frame,   \* the frame being sent
  played,  \* samples of its burst given to the DAC
  out      \* the word the DAC is given

Start(n) ==
  /\ ~ busy
  /\ busy' = TRUE /\ done' = FALSE
  /\ frame' = n /\ played' = 0
  /\ out' = out

Play ==
  /\ busy /\ played < Length
  /\ played' = played + 1
  /\ out' = Sample(frame, played + 1)
  /\ UNCHANGED <<busy, done, frame>>

Gap == out' = Silence /\ UNCHANGED <<busy, done, frame, played>>

Finish ==
  /\ busy /\ played = Length
  /\ busy' = FALSE /\ done' = TRUE
  /\ UNCHANGED <<frame, played, out>>

\* the last sample's end may be noticed in the clock of a silent sample
FinishInGap ==
  /\ busy /\ played = Length
  /\ busy' = FALSE /\ done' = TRUE
  /\ out' = Silence
  /\ UNCHANGED <<frame, played>>

burstVars == <<busy, done, frame, played, out>>

BurstInit == ~ busy /\ ~ done /\ frame = 0 /\ played = 0 /\ out = Silence
BurstNext == (\E n \in Numbers : Start(n)) \/ Play \/ Gap \/ Finish \/ FinishInGap

BurstSpec == BurstInit /\ [][BurstNext]_burstVars
=============================================================================
