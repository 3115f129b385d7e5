-------------------------- MODULE AsyncFifoProofs --------------------------
(***************************************************************************)
(* Proofs about AsyncFifo, for every depth: full and empty are never       *)
(* wrong.                                                                  *)
(*                                                                         *)
(* A pointer's Gray word changes in one bit at each step, so a word caught *)
(* in mid-change is the old or the new one, and what a side holds of the   *)
(* other's pointer is always a pointer the other had.  FifoInv says how    *)
(* far back: the two synchroniser stages of a side hold pointers x1 and    *)
(* x2 steps behind the other's, the second no younger than the first, and  *)
(* within what the side can have used up since.                            *)
(***************************************************************************)
EXTENDS AsyncFifo, NatLemmas

\* what Pow2 is assumed to be
PowersOfTwo == Pow2[0] = 1 /\ \A i \in 0..AW : Pow2[i + 1] = 2 * Pow2[i]

\* the powers of two double, and are positive
LEMMA Pow2Facts ==
  ASSUME AW \in Nat, PowersOfTwo
  PROVE  /\ Pow2[0] = 1
         /\ \A n \in Nat : n <= AW + 1 => Pow2[n] \in Nat \ {0}
         /\ \A n \in Nat : n <= AW => Pow2[n + 1] = 2 * Pow2[n]
  <1>1. Pow2[0] = 1 /\ \A n \in Nat : n <= AW => Pow2[n + 1] = 2 * Pow2[n]
    BY DEF PowersOfTwo
  <1> DEFINE T == {n \in Nat : n <= AW + 1 /\ Pow2[n] \notin Nat \ {0}}
  <1>2. ASSUME T # {} PROVE FALSE
    <2>1. PICK k \in T : \A j \in T : k <= j
      BY <1>2, LeastElement
    <2>2. k - 1 \in Nat /\ k - 1 <= AW /\ k - 1 \notin T /\ (k - 1) + 1 = k
      BY <1>1, <2>1
    <2>3. Pow2[(k - 1) + 1] = 2 * Pow2[k - 1]
      BY <1>1, <2>2
    <2> QED
      BY <2>1, <2>2, <2>3
  <1> QED
    BY <1>1, <1>2

-----------------------------------------------------------------------------
(* The Gray code.                                                          *)

\* b without its i lowest bits
High(b, i) == b \div Pow2[i]

\* a shift by one more bit is a halving
LEMMA HighFacts ==
  ASSUME AW \in Nat, PowersOfTwo, NEW b \in Nat
  PROVE  /\ High(b, 0) = b
         /\ \A i \in Nat : i <= AW + 1 => High(b, i) \in Nat
         /\ \A i \in Nat : i <= AW => /\ High(b, i) \in Nat
                                      /\ High(b, i + 1) = High(b, i) \div 2
  <1>1. ASSUME NEW i \in Nat, NEW p \in Nat \ {0}
        PROVE  b \div p \in Nat /\ b \div (2 * p) = (b \div p) \div 2
    OBVIOUS
  <1>2. b \div 1 = b
    OBVIOUS
  <1>3. \A i \in Nat : i <= AW + 1 => High(b, i) \in Nat
    BY <1>1, Pow2Facts DEF High
  <1>4. ASSUME NEW i \in Nat, i <= AW
        PROVE  High(b, i) \in Nat /\ High(b, i + 1) = High(b, i) \div 2
    <2>1. i <= AW + 1 /\ Pow2[i] \in Nat \ {0} /\ Pow2[i + 1] = 2 * Pow2[i]
      BY <1>4, Pow2Facts
    <2> QED
      BY <1>1, <2>1 DEF High
  <1> QED
    BY <1>2, <1>3, <1>4, Pow2Facts DEF High

\* a bit of a Gray word tells whether two neighbours of the number differ
LEMMA GrayBits ==
  ASSUME AW \in Nat, PowersOfTwo, NEW b \in Nat
  PROVE  /\ Gray(b) \in GrayWords
         /\ \A i \in 0..AW : Gray(b)[i] = ((High(b, i) % 2) + (High(b, i + 1) % 2)) % 2
  <1> DEFINE g(i) == ((High(b, i) % 2) + (High(b, i + 1) % 2)) % 2
  <1>1. Gray(b) = [i \in 0..AW |-> g(i)]
    BY DEF Gray, Bit, High
  <1>2. \A i \in 0..AW : g(i) \in {0, 1}
    <2> SUFFICES ASSUME NEW i \in 0..AW PROVE g(i) \in {0, 1}
      OBVIOUS
    <2>1. i \in Nat
      OBVIOUS
    <2>2. High(b, i) \in Nat /\ High(b, i + 1) \in Nat
      BY <2>1, HighFacts
    <2> QED
      BY <2>2
  <1> QED
    BY <1>1, <1>2 DEF GrayWords

\* a pointer has AW + 1 bits
LEMMA PointerFacts ==
  ASSUME AW \in Nat, PowersOfTwo
  PROVE  /\ Depth \in Nat \ {0} /\ Lap = 2 * Depth /\ Lap = Pow2[AW + 1]
         /\ Pointers = 0..Lap - 1
         /\ \A b \in Pointers : b \in Nat /\ High(b, AW + 1) = 0
  <1>1. Depth \in Nat \ {0} /\ Lap = 2 * Depth /\ Lap = Pow2[AW + 1]
    BY Pow2Facts DEF Depth, Lap
  <1>2. \A b, p \in Nat : b < p => b \div p = 0
    OBVIOUS
  <1> QED
    BY <1>1, <1>2 DEF Pointers, High

\* two pointers have different Gray words
LEMMA GrayInjective ==
  ASSUME AW \in Nat, PowersOfTwo, NEW a \in Pointers, NEW b \in Pointers, Gray(a) = Gray(b)
  PROVE  a = b
  <1> DEFINE T == {j \in Nat : j <= AW + 1 /\ High(a, AW + 1 - j) # High(b, AW + 1 - j)}
  <1>1. a \in Nat /\ b \in Nat /\ High(a, AW + 1) = 0 /\ High(b, AW + 1) = 0
    BY PointerFacts
  <1>2. ASSUME T # {} PROVE FALSE
    <2>1. PICK j \in T : \A k \in T : j <= k
      BY <1>2, LeastElement
    <2>2. j # 0
      BY <1>1, <2>1
    <2> DEFINE i == AW + 1 - j
    <2>3. i \in 0..AW /\ j - 1 \in Nat /\ AW + 1 - (j - 1) = i + 1
      BY <2>1, <2>2
    <2> HIDE DEF i
    <2>4. High(a, i + 1) = High(b, i + 1)
      BY <2>1, <2>3
    <2>5. /\ High(a, i) \in Nat /\ High(a, i + 1) = High(a, i) \div 2
          /\ High(b, i) \in Nat /\ High(b, i + 1) = High(b, i) \div 2
      <3>1. i \in Nat /\ i <= AW
        BY <2>3
      <3> QED
        BY <1>1, <3>1, HighFacts
    <2>6. ((High(a, i) % 2) + (High(a, i + 1) % 2)) % 2
            = ((High(b, i) % 2) + (High(b, i + 1) % 2)) % 2
      BY <1>1, <2>3, GrayBits
    <2>7. High(a, i) = High(b, i)
      BY <2>4, <2>5, <2>6
    <2> QED
      BY <2>1, <2>7 DEF i
  <1>3. High(a, 0) = High(b, 0)
    <2>1. AW + 1 \in Nat /\ AW + 1 <= AW + 1 /\ AW + 1 - (AW + 1) = 0
      OBVIOUS
    <2>2. AW + 1 \notin T
      BY <1>2
    <2> QED
      BY <2>1, <2>2
  <1> QED
    BY <1>1, <1>3, HighFacts

\* where the numbers above bit i agree, the Gray bit i agrees; likewise where
\* both the numbers above i and above i + 1 are the next
LEMMA CarryFacts ==
  ASSUME AW \in Nat, PowersOfTwo, NEW b \in Nat, NEW i \in Nat, i <= AW + 1
  PROVE  /\ High(b + 1, i) = High(b, i) \/ High(b + 1, i) = High(b, i) + 1
         /\ i <= AW /\ High(b + 1, i) = High(b, i) => High(b + 1, i + 1) = High(b, i + 1)
  <1>1. ASSUME NEW p \in Nat \ {0}
        PROVE  (b + 1) \div p = b \div p \/ (b + 1) \div p = (b \div p) + 1
    OBVIOUS
  <1>2. High(b + 1, i) = High(b, i) \/ High(b + 1, i) = High(b, i) + 1
    BY <1>1, Pow2Facts DEF High
  <1>3. b + 1 \in Nat
    OBVIOUS
  <1>4. i <= AW => /\ High(b + 1, i + 1) = High(b + 1, i) \div 2
                  /\ High(b, i + 1) = High(b, i) \div 2
    BY <1>3, HighFacts
  <1> QED
    BY <1>2, <1>4

\* a step of a pointer that does not wrap changes one bit of its Gray word
LEMMA GrayUnitStep ==
  ASSUME AW \in Nat, PowersOfTwo, NEW b \in Nat, b + 1 < Lap
  PROVE  \E m \in 0..AW : \A i \in 0..AW \ {m} : Gray(b)[i] = Gray(b + 1)[i]
  <1> DEFINE Carries(i) == High(b + 1, i) # High(b, i)
             T == {i \in Nat : i <= AW /\ ~ Carries(i + 1)}
  <1>1. b \in Pointers /\ b + 1 \in Pointers /\ b + 1 \in Nat
    BY PointerFacts
  <1>2. AW \in T
    BY <1>1, PointerFacts
  <1>3. PICK m \in T : \A i \in T : m <= i
    BY <1>2, LeastElement
  <1>4. m \in 0..AW
    BY <1>2, <1>3
  <1>5. ASSUME NEW i \in Nat, i < m PROVE Carries(i) /\ Carries(i + 1)
    <2>1. \A j \in Nat : j < m => Carries(j + 1)
      BY <1>3
    <2>2. CASE i = 0
      BY <1>1, <1>5, <2>1, <2>2, HighFacts
    <2>3. CASE i # 0
      <3>1. i - 1 \in Nat /\ i - 1 < m /\ (i - 1) + 1 = i
        BY <1>5, <2>3
      <3> QED
        BY <1>5, <2>1, <3>1
    <2> QED
      BY <2>2, <2>3
  <1>6. \A i \in Nat : i > m /\ i <= AW + 1 => ~ Carries(i)
    <2> DEFINE U == {i \in Nat : i > m /\ i <= AW + 1 /\ Carries(i)}
    <2> SUFFICES ASSUME U # {} PROVE FALSE
      OBVIOUS
    <2>1. PICK k \in U : \A i \in U : k <= i
      BY LeastElement
    <2>2. k # m + 1
      BY <1>3, <2>1
    <2>3. k - 1 \in Nat /\ k - 1 > m /\ k - 1 <= AW /\ (k - 1) + 1 = k
      BY <1>3, <2>1, <2>2
    <2>4. ~ Carries(k - 1)
      BY <2>1, <2>3
    <2>5. ~ Carries(k)
      BY <2>3, <2>4, CarryFacts
    <2> QED
      BY <2>1, <2>5
  <1>7. ASSUME NEW i \in 0..AW, i # m
        PROVE  Gray(b)[i] = Gray(b + 1)[i]
    <2>0. i \in Nat /\ i + 1 \in Nat
      OBVIOUS
    <2>1. /\ Gray(b)[i] = ((High(b, i) % 2) + (High(b, i + 1) % 2)) % 2
          /\ Gray(b + 1)[i] = ((High(b + 1, i) % 2) + (High(b + 1, i + 1) % 2)) % 2
      BY <1>1, GrayBits
    <2>2. High(b, i) \in Nat /\ High(b, i + 1) \in Nat
      BY <2>0, HighFacts
    <2>3. CASE i < m
      <3>1. Carries(i) /\ Carries(i + 1)
        BY <1>5, <2>0, <2>3
      <3>2. High(b + 1, i) = High(b, i) + 1 /\ High(b + 1, i + 1) = High(b, i + 1) + 1
        BY <2>0, <3>1, CarryFacts
      <3> QED
        BY <2>1, <2>2, <3>2
    <2>4. CASE i > m
      <3>1. ~ Carries(i) /\ ~ Carries(i + 1)
        BY <1>3, <1>6, <2>0, <2>4
      <3> QED
        BY <2>1, <3>1
    <2> QED
      BY <1>3, <1>7, <2>0, <2>3, <2>4
  <1> QED
    BY <1>4, <1>7

\* nor does the step from the last pointer to the first change more than one
LEMMA GrayUnitWrap ==
  ASSUME AW \in Nat, PowersOfTwo
  PROVE  \A i \in 0..AW \ {AW} : Gray(Lap - 1)[i] = Gray(0)[i]
  <1>1. Lap - 1 \in Nat /\ Lap = Pow2[AW + 1]
    BY PointerFacts
  <1>2. \A i \in Nat : i <= AW + 1 => High(Lap - 1, i) = Pow2[AW + 1 - i] - 1
    <2> DEFINE T == {i \in Nat : i <= AW + 1 /\ High(Lap - 1, i) # Pow2[AW + 1 - i] - 1}
    <2> SUFFICES ASSUME T # {} PROVE FALSE
      OBVIOUS
    <2>1. PICK k \in T : \A i \in T : k <= i
      BY LeastElement
    <2>2. k # 0
      <3>1. High(Lap - 1, 0) = Pow2[AW + 1 - 0] - 1
        <4>1. High(Lap - 1, 0) = Lap - 1
          BY <1>1, HighFacts
        <4>2. AW + 1 - 0 = AW + 1
          OBVIOUS
        <4> QED
          BY <1>1, <4>1, <4>2
      <3> QED
        BY <2>1, <3>1
    <2>3. k - 1 \in Nat /\ k - 1 <= AW + 1 /\ (k - 1) + 1 = k /\ k - 1 < k
      BY <2>1, <2>2
    <2> DEFINE p == Pow2[AW + 1 - k]
    <2>4. High(Lap - 1, k - 1) = Pow2[AW + 1 - (k - 1)] - 1
      BY <2>1, <2>3
    <2>5. /\ AW + 1 - k \in Nat /\ AW + 1 - (k - 1) = (AW + 1 - k) + 1
          /\ AW + 1 - k <= AW /\ AW + 1 - k <= AW + 1 /\ k - 1 <= AW
      BY <2>1, <2>2
    <2>6. Pow2[AW + 1 - (k - 1)] = 2 * p /\ p \in Nat \ {0}
      BY <2>5, Pow2Facts
    <2>7. High(Lap - 1, k) = High(Lap - 1, k - 1) \div 2
      <3>1. High(Lap - 1, (k - 1) + 1) = High(Lap - 1, k - 1) \div 2
        BY <1>1, <2>3, <2>5, HighFacts
      <3> QED
        BY <2>3, <3>1
    <2> HIDE DEF p
    <2>8. High(Lap - 1, k) = p - 1
      BY <2>4, <2>6, <2>7
    <2> QED
      BY <2>1, <2>8 DEF p
  <1>3. ASSUME NEW i \in Nat, i <= AW
        PROVE  High(Lap - 1, i) % 2 = 1 /\ High(0, i) = 0 /\ High(0, i + 1) = 0
    <2>1. AW - i \in Nat /\ AW + 1 - i = (AW - i) + 1
      BY <1>3
    <2>2. Pow2[AW - i] \in Nat \ {0} /\ Pow2[AW + 1 - i] = 2 * Pow2[AW - i]
      BY <2>1, Pow2Facts
    <2>3. High(Lap - 1, i) = Pow2[AW + 1 - i] - 1
      BY <1>2, <1>3
    <2>4. High(Lap - 1, i) % 2 = 1
      BY <2>2, <2>3
    <2>5. \A p \in Nat \ {0} : 0 \div p = 0
      OBVIOUS
    <2>6. i + 1 \in Nat /\ i <= AW + 1 /\ i + 1 <= AW + 1
      BY <1>3
    <2> QED
      BY <2>4, <2>5, <2>6, Pow2Facts DEF High
  <1> SUFFICES ASSUME NEW i \in 0..AW, i # AW
               PROVE  Gray(Lap - 1)[i] = Gray(0)[i]
    OBVIOUS
  <1>4. i \in Nat /\ i + 1 \in Nat /\ i <= AW /\ i + 1 <= AW /\ 0 \in Nat
    OBVIOUS
  <1>5. High(Lap - 1, i) % 2 = 1 /\ High(Lap - 1, i + 1) % 2 = 1
    BY <1>3, <1>4
  <1>6. Gray(Lap - 1)[i] = ((High(Lap - 1, i) % 2) + (High(Lap - 1, i + 1) % 2)) % 2
    BY <1>1, GrayBits
  <1>7. Gray(0)[i] = ((High(0, i) % 2) + (High(0, i + 1) % 2)) % 2
    BY <1>4, GrayBits
  <1>8. High(0, i) = 0 /\ High(0, i + 1) = 0
    BY <1>3, <1>4
  <1> QED
    BY <1>5, <1>6, <1>7, <1>8

(***************************************************************************)
(* The reason for the Gray code: a word caught in the very clock its       *)
(* pointer steps in, each bit before or after the change, is the old or    *)
(* the new one.                                                            *)
(***************************************************************************)
THEOREM CaughtOldOrNew ==
  ASSUME AW \in Nat, PowersOfTwo, NEW b \in Pointers
  PROVE  /\ Caught(Gray(b), Gray(b)) = {Gray(b)}
         /\ Caught(Gray(b), Gray(NextOf(b))) = {Gray(b), Gray(NextOf(b))}
         /\ NextOf(b) = IF b = Lap - 1 THEN 0 ELSE b + 1
         /\ NextOf(b) \in Pointers
  <1>1. b \in Nat /\ b < Lap /\ Lap \in Nat \ {0} /\ Lap - 1 \in Nat
    BY PointerFacts
  <1>2. NextOf(b) = IF b = Lap - 1 THEN 0 ELSE b + 1
    BY <1>1 DEF NextOf
  <1>3. NextOf(b) \in Pointers /\ NextOf(b) \in Nat
    BY <1>1, <1>2 DEF Pointers
  <1> DEFINE old == Gray(b)
             new == Gray(NextOf(b))
  <1>4. PICK m \in 0..AW : \A i \in 0..AW \ {m} : old[i] = new[i]
    <2>1. CASE b = Lap - 1
      BY <1>2, <2>1, GrayUnitWrap
    <2>2. CASE b # Lap - 1
      <3>1. b + 1 < Lap
        BY <1>1, <2>2
      <3>2. \E m \in 0..AW : \A i \in 0..AW \ {m} : Gray(b)[i] = Gray(b + 1)[i]
        BY <1>1, <3>1, GrayUnitStep
      <3> QED
        BY <1>2, <2>2, <3>2
    <2> QED
      BY <2>1, <2>2
  <1>5. old \in GrayWords /\ new \in GrayWords
    BY <1>1, <1>3, GrayBits
  <1> HIDE DEF old, new
  <1>6. ASSUME NEW g \in Caught(old, new) PROVE g = old \/ g = new
    <2>1. g \in [0..AW -> {0, 1}] /\ \A i \in 0..AW : g[i] \in {old[i], new[i]}
      BY DEF Caught, GrayWords
    <2>2. CASE g[m] = old[m]
      <3>1. \A i \in 0..AW : g[i] = old[i]
        BY <1>4, <2>1, <2>2
      <3> QED
        BY <1>5, <2>1, <3>1 DEF GrayWords
    <2>3. CASE g[m] = new[m]
      <3>1. \A i \in 0..AW : g[i] = new[i]
        BY <1>4, <2>1, <2>3
      <3> QED
        BY <1>5, <2>1, <3>1 DEF GrayWords
    <2> QED
      BY <1>4, <2>1, <2>2, <2>3
  <1>7. old \in Caught(old, new) /\ new \in Caught(old, new) /\ old \in Caught(old, old)
    BY <1>5 DEF Caught
  <1>8. ASSUME NEW g \in Caught(old, old) PROVE g = old
    BY <1>5 DEF Caught, GrayWords
  <1> QED
    BY <1>2, <1>3, <1>6, <1>7, <1>8 DEF old, new

\* adding the depth to a number below it sets bit AW and leaves the lower ones
LEMMA HighOfUpperHalf ==
  ASSUME AW \in Nat, PowersOfTwo, NEW q \in 0..Depth - 1
  PROVE  \A i \in Nat : i <= AW => High(q + Depth, i) = High(q, i) + Pow2[AW - i]
  <1>0. q \in Nat /\ q + Depth \in Nat /\ Depth = Pow2[AW]
    BY PointerFacts DEF Depth
  <1> DEFINE T == {i \in Nat : i <= AW /\ High(q + Depth, i) # High(q, i) + Pow2[AW - i]}
  <1> SUFFICES ASSUME T # {} PROVE FALSE
    OBVIOUS
  <1>1. PICK k \in T : \A i \in T : k <= i
    BY LeastElement
  <1>2. k # 0
    <2>1. High(q + Depth, 0) = q + Depth /\ High(q, 0) = q
      BY <1>0, HighFacts
    <2>2. AW - 0 = AW
      OBVIOUS
    <2> QED
      BY <1>0, <1>1, <2>1, <2>2
  <1>3. k - 1 \in Nat /\ k - 1 <= AW /\ (k - 1) + 1 = k /\ k - 1 < k
    BY <1>1, <1>2
  <1> DEFINE p == Pow2[AW - k]
  <1>4. High(q + Depth, k - 1) = High(q, k - 1) + Pow2[AW - (k - 1)]
    BY <1>1, <1>3
  <1>5. AW - k \in Nat /\ AW - (k - 1) = (AW - k) + 1
    BY <1>1
  <1>6. Pow2[AW - (k - 1)] = 2 * p /\ p \in Nat
    BY <1>5, Pow2Facts
  <1>7. /\ High(q + Depth, k) = High(q + Depth, k - 1) \div 2
        /\ High(q, k) = High(q, k - 1) \div 2 /\ High(q, k - 1) \in Nat
    <2>1. /\ High(q + Depth, (k - 1) + 1) = High(q + Depth, k - 1) \div 2
          /\ High(q, (k - 1) + 1) = High(q, k - 1) \div 2 /\ High(q, k - 1) \in Nat
      BY <1>0, <1>3, HighFacts
    <2> QED
      BY <1>3, <2>1
  <1> HIDE DEF p
  <1>8. High(q + Depth, k) = High(q, k) + p
    BY <1>4, <1>6, <1>7
  <1> QED
    BY <1>1, <1>8 DEF p

\* the Gray word one lap ahead is that of the pointer a depth further
LEMMA LapAheadOfLower ==
  ASSUME AW \in Nat, AW >= 1, PowersOfTwo, NEW q \in 0..Depth - 1
  PROVE  Gray(q + Depth) = LapAhead(Gray(q))
  <1>0. /\ q \in Nat /\ q + Depth \in Nat /\ Depth = Pow2[AW] /\ Depth \in Nat \ {0}
        /\ q \in Pointers /\ q + Depth \in Pointers
    BY PointerFacts DEF Depth
  <1>1. Gray(q) \in [0..AW -> {0, 1}] /\ Gray(q + Depth) \in [0..AW -> {0, 1}]
    BY <1>0, GrayBits DEF GrayWords
  <1>2. High(q, AW) = 0 /\ High(q + Depth, AW) = 1
    <2>1. \A a, p \in Nat : a < p => a \div p = 0
      OBVIOUS
    <2>2. High(q, AW) = 0
      BY <1>0, <2>1 DEF High
    <2>3. High(q + Depth, AW) = High(q, AW) + Pow2[AW - AW]
      BY HighOfUpperHalf
    <2>4. Pow2[AW - AW] = 1
      <3>1. AW - AW = 0
        OBVIOUS
      <3> QED
        BY <3>1, Pow2Facts
    <2> QED
      BY <2>2, <2>3, <2>4
  <1>3. High(q, AW + 1) = 0 /\ High(q + Depth, AW + 1) = 0
    BY <1>0, PointerFacts
  <1>4. ASSUME NEW i \in Nat, i < AW
        PROVE  High(q + Depth, i) % 2 = High(q, i) % 2
    <2>1. AW - i - 1 \in Nat /\ AW - i = (AW - i - 1) + 1
      BY <1>4
    <2>2. Pow2[AW - i - 1] \in Nat /\ Pow2[AW - i] = 2 * Pow2[AW - i - 1]
      BY <2>1, Pow2Facts
    <2>3. High(q + Depth, i) = High(q, i) + Pow2[AW - i]
      BY <1>4, HighOfUpperHalf
    <2>4. High(q, i) \in Nat
      BY <1>0, <1>4, HighFacts
    <2> QED
      BY <2>2, <2>3, <2>4
  <1>5. ASSUME NEW i \in 0..AW
        PROVE  /\ Gray(q)[i] = ((High(q, i) % 2) + (High(q, i + 1) % 2)) % 2
               /\ Gray(q + Depth)[i] =
                    ((High(q + Depth, i) % 2) + (High(q + Depth, i + 1) % 2)) % 2
    BY <1>0, GrayBits
  <1>6. \A i \in 0..AW : Gray(q + Depth)[i] = LapAhead(Gray(q))[i]
    <2> SUFFICES ASSUME NEW i \in 0..AW
                 PROVE  Gray(q + Depth)[i] = LapAhead(Gray(q))[i]
      OBVIOUS
    <2>1. LapAhead(Gray(q))[i] = IF i \in {AW, AW - 1} THEN 1 - Gray(q)[i] ELSE Gray(q)[i]
      BY <1>1 DEF LapAhead
    <2>2. CASE i = AW
      BY <1>2, <1>3, <1>5, <2>1, <2>2
    <2>3. CASE i = AW - 1
      <3>1. i \in Nat /\ i < AW /\ i <= AW /\ i + 1 = AW
        BY <2>3
      <3>2. High(q, i) \in Nat
        BY <1>0, <3>1, HighFacts
      <3>3. High(q + Depth, i) % 2 = High(q, i) % 2 /\ High(q, i) % 2 \in {0, 1}
        BY <1>4, <3>1, <3>2
      <3>4. High(q, i + 1) = 0 /\ High(q + Depth, i + 1) = 1
        BY <1>2, <3>1
      <3> QED
        BY <1>5, <2>1, <2>3, <3>3, <3>4
    <2>4. CASE i < AW - 1
      <3>1. i \in Nat /\ i + 1 \in Nat /\ i < AW /\ i + 1 < AW
        BY <2>4
      <3> QED
        BY <1>4, <1>5, <2>1, <2>4, <3>1
    <2> QED
      BY <2>2, <2>3, <2>4
  <1>7. LapAhead(Gray(q)) \in [0..AW -> {0, 1}]
    BY <1>1 DEF LapAhead
  <1> QED
    BY <1>1, <1>6, <1>7

\* so LapAhead inverts the pointer's lap, whichever half it is in
LEMMA LapAheadGray ==
  ASSUME AW \in Nat, AW >= 1, PowersOfTwo, NEW b \in Pointers
  PROVE  LapAhead(Gray(b)) = Gray(IF b < Depth THEN b + Depth ELSE b - Depth)
  <1>0. b \in Nat /\ b < 2 * Depth /\ Depth \in Nat \ {0}
    BY PointerFacts
  <1>1. CASE b < Depth
    BY <1>0, <1>1, LapAheadOfLower
  <1>2. CASE b >= Depth
    <2>1. b - Depth \in 0..Depth - 1 /\ (b - Depth) + Depth = b
      BY <1>0, <1>2
    <2>2. Gray((b - Depth) + Depth) = LapAhead(Gray(b - Depth))
      BY <2>1, LapAheadOfLower
    <2>3. Gray(b) = LapAhead(Gray(b - Depth))
      BY <2>1, <2>2
    <2>4. b - Depth \in Nat
      BY <2>1
    <2>5. Gray(b - Depth) \in [0..AW -> {0, 1}]
      BY <2>4, GrayBits DEF GrayWords
    <2>6. ASSUME NEW g \in [0..AW -> {0, 1}] PROVE LapAhead(LapAhead(g)) = g
      <3> DEFINE h == LapAhead(g)
      <3>1. /\ h \in [0..AW -> Int]
            /\ \A i \in 0..AW : h[i] = IF i \in {AW, AW - 1} THEN 1 - g[i] ELSE g[i]
        BY DEF LapAhead
      <3> HIDE DEF h
      <3>2. /\ LapAhead(h) \in [0..AW -> Int]
            /\ \A i \in 0..AW : LapAhead(h)[i] = IF i \in {AW, AW - 1} THEN 1 - h[i] ELSE h[i]
        BY <3>1 DEF LapAhead
      <3>3. ASSUME NEW i \in 0..AW PROVE LapAhead(h)[i] = g[i]
        <4>1. g[i] \in Int
          OBVIOUS
        <4>2. CASE i \in {AW, AW - 1}
          BY <3>1, <3>2, <4>1, <4>2
        <4>3. CASE i \notin {AW, AW - 1}
          BY <3>1, <3>2, <4>3
        <4> QED
          BY <4>2, <4>3
      <3>4. LapAhead(h) = g
        BY <3>2, <3>3
      <3> QED
        BY <3>4 DEF h
    <2> QED
      BY <1>0, <1>2, <2>3, <2>5, <2>6
  <1> QED
    BY <1>0, <1>1, <1>2

-----------------------------------------------------------------------------
(* The pointers.                                                           *)

\* the pointer x steps before p
Before(p, x) == IF x <= p THEN p - x ELSE p - x + Lap

(***************************************************************************)
(* Each side knows a pointer the other had: the writer one at most as far  *)
(* behind the read pointer as there is room, the reader one at most as far *)
(* behind the write pointer as there are words.                            *)
(***************************************************************************)
RoomKnown(x1, x2) ==
  /\ x1 <= x2 /\ Held + x2 <= Depth
  /\ rd_gray_w1 = Gray(Before(rd_bin, x1)) /\ rd_gray_w2 = Gray(Before(rd_bin, x2))

WordsKnown(y1, y2) ==
  /\ y1 <= y2 /\ y2 <= Held
  /\ wr_gray_r1 = Gray(Before(wr_bin, y1)) /\ wr_gray_r2 = Gray(Before(wr_bin, y2))

FifoInv ==
  /\ wr_bin \in Pointers /\ rd_bin \in Pointers
  /\ \E x1, x2 \in 0..Depth : RoomKnown(x1, x2)
  /\ \E y1, y2 \in 0..Depth : WordsKnown(y1, y2)

\* the distance between two pointers
LEMMA DistanceIs ==
  ASSUME NEW n \in Nat \ {0}, NEW w \in 0..n - 1, NEW r \in 0..n - 1
  PROVE  (w - r) % n = IF r <= w THEN w - r ELSE w - r + n
  <1>1. ASSUME NEW a \in Int, 0 <= a, a < n PROVE a % n = a
    BY <1>1
  <1>2. ASSUME NEW a \in Int, a < 0, -n < a PROVE a % n = a + n
    BY <1>2
  <1>3. CASE r <= w
    <2>1. w - r \in Int /\ 0 <= w - r /\ w - r < n
      BY <1>3
    <2> QED
      BY <1>1, <1>3, <2>1
  <1>4. CASE ~ (r <= w)
    <2>1. w - r \in Int /\ w - r < 0 /\ -n < w - r
      BY <1>4
    <2> QED
      BY <1>2, <1>4, <2>1
  <1> QED
    BY <1>3, <1>4

\* the words held, without the modulus
LEMMA HeldIs ==
  ASSUME AW \in Nat, PowersOfTwo, wr_bin \in Pointers, rd_bin \in Pointers
  PROVE  /\ Held = IF rd_bin <= wr_bin THEN wr_bin - rd_bin ELSE wr_bin - rd_bin + Lap
         /\ Held \in 0..Lap - 1
  <1>1. /\ wr_bin \in 0..Lap - 1 /\ rd_bin \in 0..Lap - 1 /\ Lap \in Nat \ {0}
    BY PointerFacts
  <1>2. Held = IF rd_bin <= wr_bin THEN wr_bin - rd_bin ELSE wr_bin - rd_bin + Lap
    BY <1>1, DistanceIs DEF Held
  <1> QED
    BY <1>1, <1>2

\* going on takes the pointers before along
LEMMA BeforeMoves ==
  ASSUME AW \in Nat, PowersOfTwo, NEW p \in Pointers, NEW x \in 0..Depth
  PROVE  /\ Before(p, x) \in Pointers
         /\ Before(p, 0) = p
         /\ Before(NextOf(p), x + 1) = Before(p, x)
  <1>1. Depth \in Nat \ {0} /\ Lap = 2 * Depth /\ Pointers = 0..Lap - 1
    BY PointerFacts
  <1>2. NextOf(p) = IF p = Lap - 1 THEN 0 ELSE p + 1
    BY CaughtOldOrNew
  <1> QED
    BY <1>1, <1>2 DEF Before

\* what the writer takes for full is the room it knows of used up
LEMMA FullIs ==
  ASSUME AW \in Nat, AW >= 1, PowersOfTwo, FifoInv,
         NEW x1 \in 0..Depth, NEW x2 \in 0..Depth, RoomKnown(x1, x2)
  PROVE  wr_full <=> Held + x2 = Depth
  <1>1. Depth \in Nat \ {0} /\ Lap = 2 * Depth /\ Pointers = 0..Lap - 1
    BY PointerFacts
  <1>2. wr_bin \in Pointers /\ rd_bin \in Pointers
    BY DEF FifoInv
  <1> DEFINE r == Before(rd_bin, x2)
             opposite == IF r < Depth THEN r + Depth ELSE r - Depth
  <1>3. r \in Pointers
    BY <1>2, BeforeMoves
  <1>4. opposite \in Pointers
    BY <1>1, <1>3
  <1>5. wr_full <=> Gray(wr_bin) = Gray(opposite)
    BY <1>3, LapAheadGray DEF wr_full, RoomKnown
  <1>6. wr_full <=> wr_bin = opposite
    BY <1>2, <1>4, <1>5, GrayInjective
  <1>7. Held + x2 <= Depth /\ x2 \in Nat
    BY DEF RoomKnown
  <1>8. Held = IF rd_bin <= wr_bin THEN wr_bin - rd_bin ELSE wr_bin - rd_bin + Lap
    BY <1>2, HeldIs
  <1>9. (wr_bin = opposite) <=> Held + x2 = Depth
    BY <1>1, <1>2, <1>7, <1>8 DEF Before
  <1> QED
    BY <1>6, <1>9

\* what the reader takes for empty is the words it knows of used up
LEMMA EmptyIs ==
  ASSUME AW \in Nat, AW >= 1, PowersOfTwo, FifoInv, Held <= Depth,
         NEW y1 \in 0..Depth, NEW y2 \in 0..Depth, WordsKnown(y1, y2)
  PROVE  rd_empty <=> Held = y2
  <1>1. Depth \in Nat \ {0} /\ Lap = 2 * Depth /\ Pointers = 0..Lap - 1
    BY PointerFacts
  <1>2. wr_bin \in Pointers /\ rd_bin \in Pointers
    BY DEF FifoInv
  <1>3. Before(wr_bin, y2) \in Pointers
    BY <1>2, BeforeMoves
  <1>4. rd_empty <=> rd_bin = Before(wr_bin, y2)
    BY <1>2, <1>3, GrayInjective DEF rd_empty, WordsKnown
  <1>5. Held = IF rd_bin <= wr_bin THEN wr_bin - rd_bin ELSE wr_bin - rd_bin + Lap
    BY <1>2, HeldIs
  <1>6. (rd_bin = Before(wr_bin, y2)) <=> Held = y2
    BY <1>1, <1>2, <1>5 DEF Before, WordsKnown
  <1> QED
    BY <1>4, <1>6

\* full and empty are never wrong
LEMMA InvNeverWrong ==
  ASSUME AW \in Nat, AW >= 1, PowersOfTwo, FifoInv
  PROVE  NeverWrong /\ Held \in 0..Depth
  <1>1. PICK x1 \in 0..Depth, x2 \in 0..Depth : RoomKnown(x1, x2)
    BY DEF FifoInv
  <1>2. PICK y1 \in 0..Depth, y2 \in 0..Depth : WordsKnown(y1, y2)
    BY DEF FifoInv
  <1>3. Held \in Nat /\ Depth \in Nat
    BY HeldIs, PointerFacts DEF FifoInv
  <1>4. Held <= Depth /\ (Held = Depth => x2 = 0)
    BY <1>1, <1>3 DEF RoomKnown
  <1>5. Held = Depth => wr_full
    BY <1>1, <1>3, <1>4, FullIs
  <1>6. Held = 0 => rd_empty
    BY <1>2, <1>3, <1>4, EmptyIs DEF WordsKnown
  <1> QED
    BY <1>3, <1>4, <1>5, <1>6 DEF NeverWrong

(***************************************************************************)
(* Each pointer stays or, if the FIFO is not shown full or empty, goes on. *)
(***************************************************************************)
WriteMoves(e) == \/ e = 0 /\ wr_bin' = wr_bin
                 \/ e = 1 /\ ~ wr_full /\ wr_bin' = NextOf(wr_bin)
ReadMoves(d)  == \/ d = 0 /\ rd_bin' = rd_bin
                 \/ d = 1 /\ ~ rd_empty /\ rd_bin' = NextOf(rd_bin)

\* a word in and a word out, neither past a limit
LEMMA HeldMoves ==
  ASSUME AW \in Nat, AW >= 1, PowersOfTwo, FifoInv,
         NEW e \in {0, 1}, NEW d \in {0, 1}, WriteMoves(e), ReadMoves(d)
  PROVE  /\ wr_bin' \in Pointers /\ rd_bin' \in Pointers
         /\ Held' = Held + e - d
         /\ e = 1 => ~ wr_full
         /\ d = 1 => ~ rd_empty
  <1>1. Depth \in Nat \ {0} /\ Lap = 2 * Depth /\ Pointers = 0..Lap - 1
    BY PointerFacts
  <1>2. wr_bin \in Pointers /\ rd_bin \in Pointers
    BY DEF FifoInv
  <1>3. /\ NextOf(wr_bin) = IF wr_bin = Lap - 1 THEN 0 ELSE wr_bin + 1
        /\ NextOf(rd_bin) = IF rd_bin = Lap - 1 THEN 0 ELSE rd_bin + 1
    BY <1>2, CaughtOldOrNew
  <1>4. wr_bin' \in Pointers /\ rd_bin' \in Pointers
    BY <1>1, <1>2, <1>3 DEF WriteMoves, ReadMoves
  <1>5. Held = IF rd_bin <= wr_bin THEN wr_bin - rd_bin ELSE wr_bin - rd_bin + Lap
    BY <1>2, HeldIs
  <1>6. Held' = IF rd_bin' <= wr_bin' THEN wr_bin' - rd_bin' ELSE wr_bin' - rd_bin' + Lap
    <2>1. Held' = (wr_bin' - rd_bin') % Lap
      BY DEF Held, Lap, Depth
    <2> QED
      BY <1>1, <1>4, <2>1, DistanceIs
  <1>7. NeverWrong /\ Held \in 0..Depth
    BY InvNeverWrong
  <1>8. (e = 1 => Held < Depth) /\ (d = 1 => Held > 0)
    BY <1>1, <1>7 DEF NeverWrong, WriteMoves, ReadMoves
  <1>9. Held' = Held + e - d
    BY <1>1, <1>2, <1>3, <1>5, <1>6, <1>7, <1>8 DEF WriteMoves, ReadMoves
  <1> QED
    BY <1>4, <1>9 DEF WriteMoves, ReadMoves

(***************************************************************************)
(* The words held, by their place in the queue: the first is the one shown.*)
(***************************************************************************)
Item(j) == mem[(rd_bin + j) % Depth]

\* a remainder, for the numbers a pointer and a place add up to
LEMMA RemainderIs ==
  ASSUME NEW n \in Nat \ {0}, NEW a \in Nat, a < 4 * n
  PROVE  a % n = IF a < n THEN a ELSE IF a < 2 * n THEN a - n
                 ELSE IF a < 3 * n THEN a - 2 * n ELSE a - 3 * n
  <1>1. ASSUME NEW q \in 0..3, NEW r \in 0..n - 1, a = q * n + r PROVE a % n = r
    BY <1>1, PlaceOf
  <1>2. CASE a < n
    BY <1>1, <1>2
  <1>3. CASE n <= a /\ a < 2 * n
    <2>1. a - n \in 0..n - 1 /\ a = 1 * n + (a - n)
      BY <1>3
    <2> QED
      BY <1>1, <1>3, <2>1
  <1>4. CASE 2 * n <= a /\ a < 3 * n
    <2>1. a - 2 * n \in 0..n - 1 /\ a = 2 * n + (a - 2 * n)
      BY <1>4
    <2> QED
      BY <1>1, <1>4, <2>1
  <1>5. CASE 3 * n <= a
    <2>1. a - 3 * n \in 0..n - 1 /\ a = 3 * n + (a - 3 * n)
      BY <1>5
    <2> QED
      BY <1>1, <1>5, <2>1
  <1> QED
    BY <1>2, <1>3, <1>4, <1>5

\* where the places of the queue are
LEMMA PlacesApart ==
  ASSUME AW \in Nat, PowersOfTwo, wr_bin \in Pointers, rd_bin \in Pointers
  PROVE  /\ \A j \in 0..Depth : (rd_bin + j) % Depth \in 0..Depth - 1
         /\ \A j \in 0..Depth : (NextOf(rd_bin) + j) % Depth = (rd_bin + (j + 1)) % Depth
         /\ (rd_bin + Held) % Depth = wr_bin % Depth
         /\ \A i, j \in 0..Depth - 1 : i # j => (rd_bin + i) % Depth # (rd_bin + j) % Depth
  <1> DEFINE D == Depth
             M(a) == IF a < D THEN a ELSE IF a < 2 * D THEN a - D
                     ELSE IF a < 3 * D THEN a - 2 * D ELSE a - 3 * D
  <1>1. /\ D \in Nat \ {0} /\ Lap = 2 * D
        /\ wr_bin \in 0..2 * D - 1 /\ rd_bin \in 0..2 * D - 1
    BY PointerFacts
  <1>2. \A a \in Nat : a < 4 * D => a % D = M(a)
    BY <1>1, RemainderIs
  <1>3. NextOf(rd_bin) = IF rd_bin = 2 * D - 1 THEN 0 ELSE rd_bin + 1
    BY <1>1, CaughtOldOrNew
  <1>4. Held = IF rd_bin <= wr_bin THEN wr_bin - rd_bin ELSE wr_bin - rd_bin + 2 * D
    BY <1>1, HeldIs
  <1>5. ASSUME NEW j \in 0..D
        PROVE  /\ rd_bin + j \in Nat /\ rd_bin + j < 4 * D
               /\ (rd_bin + j) % D = M(rd_bin + j) /\ (rd_bin + j) % D \in 0..D - 1
    <2>1. rd_bin + j \in Nat /\ rd_bin + j < 4 * D
      BY <1>1
    <2>2. (rd_bin + j) % D = M(rd_bin + j)
      BY <1>2, <2>1
    <2> QED
      BY <1>1, <2>1, <2>2
  <1>6. ASSUME NEW j \in 0..D
        PROVE  (NextOf(rd_bin) + j) % D = (rd_bin + (j + 1)) % D
    <2>1. /\ NextOf(rd_bin) + j \in Nat /\ NextOf(rd_bin) + j < 4 * D
          /\ rd_bin + (j + 1) \in Nat /\ rd_bin + (j + 1) < 4 * D
      BY <1>1, <1>3
    <2>2. /\ (NextOf(rd_bin) + j) % D = M(NextOf(rd_bin) + j)
          /\ (rd_bin + (j + 1)) % D = M(rd_bin + (j + 1))
      BY <1>2, <2>1
    <2>3. M(NextOf(rd_bin) + j) = M(rd_bin + (j + 1))
      BY <1>1, <1>3
    <2> QED
      BY <2>2, <2>3
  <1>7. (rd_bin + Held) % D = wr_bin % D
    <2>1. /\ rd_bin + Held \in Nat /\ rd_bin + Held < 4 * D
          /\ wr_bin \in Nat /\ wr_bin < 4 * D
      BY <1>1, <1>4
    <2>2. (rd_bin + Held) % D = M(rd_bin + Held) /\ wr_bin % D = M(wr_bin)
      BY <1>2, <2>1
    <2>3. M(rd_bin + Held) = M(wr_bin)
      BY <1>1, <1>4
    <2> QED
      BY <2>2, <2>3
  <1>8. ASSUME NEW i \in 0..D - 1, NEW j \in 0..D - 1, i # j
        PROVE  (rd_bin + i) % D # (rd_bin + j) % D
    <2>1. (rd_bin + i) % D = M(rd_bin + i) /\ (rd_bin + j) % D = M(rd_bin + j)
      BY <1>1, <1>5
    <2>2. M(rd_bin + i) # M(rd_bin + j)
      BY <1>1, <1>8
    <2> QED
      BY <2>1, <2>2
  <1> QED
    BY <1>5, <1>6, <1>7, <1>8

\* a word in at the end, a word out at the front, the others in their order
LEMMA QueueMoves ==
  ASSUME AW \in Nat, AW >= 1, PowersOfTwo, FifoInv, NEW w,
         NEW e \in {0, 1}, NEW d \in {0, 1}, WriteMoves(e), ReadMoves(d),
         mem = [a \in 0..Depth - 1 |-> mem[a]],
         mem' = IF e = 1 THEN [mem EXCEPT ![wr_bin % Depth] = w] ELSE mem
  PROVE  /\ mem' = [a \in 0..Depth - 1 |-> mem'[a]]
         /\ Held \in 0..Depth /\ Held' = Held + e - d
         /\ e = 1 => Held < Depth
         /\ d = 1 => Held > 0
         /\ \A j \in 0..Held - 1 - d : Item(j)' = Item(j + d)
         /\ \A j : e = 1 /\ j = Held - d => Item(j)' = w
  <1>1. Depth \in Nat \ {0} /\ wr_bin \in Pointers /\ rd_bin \in Pointers
    BY PointerFacts DEF FifoInv
  <1>2. Held' = Held + e - d /\ (e = 1 => ~ wr_full) /\ (d = 1 => ~ rd_empty)
    BY HeldMoves
  <1>3. NeverWrong /\ Held \in 0..Depth
    BY InvNeverWrong
  <1>4. (e = 1 => Held < Depth) /\ (d = 1 => Held > 0)
    BY <1>1, <1>2, <1>3 DEF NeverWrong
  <1>5. /\ \A j \in 0..Depth : (rd_bin + j) % Depth \in 0..Depth - 1
        /\ \A j \in 0..Depth : (NextOf(rd_bin) + j) % Depth = (rd_bin + (j + 1)) % Depth
        /\ (rd_bin + Held) % Depth = wr_bin % Depth
        /\ \A i, j \in 0..Depth - 1 : i # j => (rd_bin + i) % Depth # (rd_bin + j) % Depth
    BY <1>1, PlacesApart
  <1>6. \A j \in 0..Depth - 1 : (rd_bin' + j) % Depth = (rd_bin + (j + d)) % Depth
    <2>1. CASE d = 0
      BY <1>1, <2>1 DEF ReadMoves
    <2>2. CASE d = 1
      BY <1>1, <1>5, <2>2 DEF ReadMoves
    <2> QED
      BY <2>1, <2>2
  <1>7. \A j : Item(j)' = mem'[(rd_bin' + j) % Depth]
    BY DEF Item, Depth
  <1>8. mem' = [a \in 0..Depth - 1 |-> mem'[a]]
    OBVIOUS
  <1>9. ASSUME NEW j \in 0..Held - 1 - d PROVE Item(j)' = Item(j + d)
    <2>1. j \in 0..Depth - 1 /\ j + d \in 0..Held - 1 /\ j + d \in 0..Depth - 1
      BY <1>1, <1>3
    <2>2. Item(j)' = mem'[(rd_bin + (j + d)) % Depth]
      BY <1>6, <1>7, <2>1
    <2>3. CASE e = 0
      BY <2>2, <2>3 DEF Item
    <2>4. CASE e = 1
      <3>1. Held \in 0..Depth - 1 /\ j + d # Held
        BY <1>1, <1>3, <1>4, <2>1, <2>4
      <3>2. (rd_bin + (j + d)) % Depth # wr_bin % Depth
        BY <1>5, <2>1, <3>1
      <3>3. (rd_bin + (j + d)) % Depth \in 0..Depth - 1
        BY <1>1, <1>5, <2>1
      <3> QED
        BY <2>2, <2>4, <3>2, <3>3 DEF Item
    <2> QED
      BY <2>3, <2>4
  <1>10. ASSUME NEW j, e = 1, j = Held - d PROVE Item(j)' = w
    <2>1. j \in 0..Depth - 1 /\ j + d = Held
      BY <1>1, <1>3, <1>4, <1>10
    <2>2. Item(j)' = mem'[wr_bin % Depth]
      BY <1>5, <1>6, <1>7, <2>1
    <2>3. wr_bin % Depth \in 0..Depth - 1
      BY <1>1, <1>3, <1>5
    <2> QED
      BY <1>10, <2>2, <2>3
  <1> QED
    BY <1>2, <1>3, <1>4, <1>8, <1>9, <1>10

(***************************************************************************)
(* The three steps, for any word offered.                                  *)
(***************************************************************************)
FifoStep ==
  \/ \E w : \E en \in BOOLEAN : WriteClock(en, w)
  \/ \E en \in BOOLEAN : ReadClock(en)
  \/ \E w : \E wr_en, rd_en \in BOOLEAN : BothClocks(wr_en, w, rd_en)

\* how a side's knowledge moves with the other's pointer
RoomMoves(d) == \/ UNCHANGED <<rd_gray_w1, rd_gray_w2>> /\ wr_bin' = wr_bin
                \/ /\ rd_gray_w2' = rd_gray_w1
                   /\ rd_gray_w1' \in {Gray(rd_bin), Gray(rd_bin')}
WordsMove(e) == \/ UNCHANGED <<wr_gray_r1, wr_gray_r2>> /\ rd_bin' = rd_bin
                \/ /\ wr_gray_r2' = wr_gray_r1
                   /\ wr_gray_r1' \in {Gray(wr_bin), Gray(wr_bin')}

\* every step moves the pointers and the knowledge of them so
LEMMA StepMoves ==
  ASSUME AW \in Nat, AW >= 1, PowersOfTwo, FifoInv, FifoStep
  PROVE  \E e, d \in {0, 1} : WriteMoves(e) /\ ReadMoves(d) /\ RoomMoves(d) /\ WordsMove(e)
  <1> USE DEF WriteMoves, ReadMoves, RoomMoves, WordsMove, WriteEdge, ReadEdge,
              writeSide, readSide
  <1>1. CASE \E w : \E en \in BOOLEAN : WriteClock(en, w)
    <2>1. /\ rd_bin' = rd_bin /\ UNCHANGED <<wr_gray_r1, wr_gray_r2>>
          /\ rd_gray_w2' = rd_gray_w1 /\ rd_gray_w1' = Gray(rd_bin)
          /\ wr_bin' = wr_bin \/ (~ wr_full /\ wr_bin' = NextOf(wr_bin))
      BY <1>1 DEF WriteClock
    <2> QED
      BY <2>1
  <1>2. CASE \E en \in BOOLEAN : ReadClock(en)
    <2>1. /\ wr_bin' = wr_bin /\ UNCHANGED <<rd_gray_w1, rd_gray_w2>>
          /\ wr_gray_r2' = wr_gray_r1 /\ wr_gray_r1' = Gray(wr_bin)
          /\ rd_bin' = rd_bin \/ (~ rd_empty /\ rd_bin' = NextOf(rd_bin))
      BY <1>2 DEF ReadClock
    <2> QED
      BY <2>1
  <1>3. CASE \E w : \E wr_en, rd_en \in BOOLEAN : BothClocks(wr_en, w, rd_en)
    <2>1. /\ rd_gray_w2' = rd_gray_w1 /\ wr_gray_r2' = wr_gray_r1
          /\ rd_gray_w1' \in Caught(Gray(rd_bin), Gray(rd_bin'))
          /\ wr_gray_r1' \in Caught(Gray(wr_bin), Gray(wr_bin'))
          /\ rd_bin' = rd_bin \/ (~ rd_empty /\ rd_bin' = NextOf(rd_bin))
          /\ wr_bin' = wr_bin \/ (~ wr_full /\ wr_bin' = NextOf(wr_bin))
      BY <1>3 DEF BothClocks
    <2>2. wr_bin \in Pointers /\ rd_bin \in Pointers
      BY DEF FifoInv
    <2>3. /\ rd_gray_w1' \in {Gray(rd_bin), Gray(rd_bin')}
          /\ wr_gray_r1' \in {Gray(wr_bin), Gray(wr_bin')}
      BY <2>1, <2>2, CaughtOldOrNew
    <2> QED
      BY <2>1, <2>3
  <1> QED
    BY <1>1, <1>2, <1>3 DEF FifoStep

\* FifoInv is inductive
LEMMA StepKeepsInv ==
  ASSUME AW \in Nat, AW >= 1, PowersOfTwo, FifoInv, FifoStep
  PROVE  FifoInv'
  <1>1. PICK e \in {0, 1}, d \in {0, 1} :
          WriteMoves(e) /\ ReadMoves(d) /\ RoomMoves(d) /\ WordsMove(e)
    BY StepMoves
  <1>2. /\ wr_bin' \in Pointers /\ rd_bin' \in Pointers /\ Held' = Held + e - d
        /\ e = 1 => ~ wr_full
        /\ d = 1 => ~ rd_empty
    BY <1>1, HeldMoves
  <1>3. /\ wr_bin \in Pointers /\ rd_bin \in Pointers /\ Depth \in Nat \ {0}
        /\ Depth' = Depth /\ Lap' = Lap
    BY PointerFacts DEF FifoInv, Depth, Lap
  <1>4. Held \in 0..Depth
    BY InvNeverWrong
  <1>5. (e = 1 => Held < Depth) /\ (d = 1 => Held > 0)
    BY <1>2, <1>3, <1>4, InvNeverWrong DEF NeverWrong
  <1>6. Held' \in Nat
    BY <1>2, <1>4, <1>5
  <1>7. \E x1, x2 \in 0..Depth : RoomKnown(x1, x2)'
    <2>1. PICK x1 \in 0..Depth, x2 \in 0..Depth : RoomKnown(x1, x2)
      BY DEF FifoInv
    <2>2. e = 1 => Held + x2 < Depth
      BY <1>2, <1>3, <1>4, <2>1, FullIs DEF RoomKnown
    <2>3. /\ Before(rd_bin, x1) = Before(rd_bin', x1 + d)
          /\ Before(rd_bin, x2) = Before(rd_bin', x2 + d)
      BY <1>1, <1>3, BeforeMoves DEF ReadMoves
    <2>4. /\ Before(rd_bin', 0) = rd_bin' /\ Before(rd_bin', d) = rd_bin
      BY <1>1, <1>2, <1>3, BeforeMoves DEF ReadMoves
    <2> DEFINE Known(x, y) ==
          /\ x <= y /\ Held' + y <= Depth
          /\ rd_gray_w1' = Gray(Before(rd_bin', x)) /\ rd_gray_w2' = Gray(Before(rd_bin', y))
    <2>5. \E x, y \in Nat : Known(x, y)
      <3>1. CASE UNCHANGED <<rd_gray_w1, rd_gray_w2>> /\ wr_bin' = wr_bin
        <4>1. e = 0
          BY <1>1, <1>3, <3>1, CaughtOldOrNew, PointerFacts DEF WriteMoves
        <4>2. Known(x1 + d, x2 + d)
          BY <1>2, <1>4, <2>1, <2>3, <3>1, <4>1 DEF RoomKnown
        <4> QED
          BY <4>2
      <3>2. CASE rd_gray_w2' = rd_gray_w1 /\ rd_gray_w1' = Gray(rd_bin)
        <4>1. Known(d, x1 + d)
          BY <1>2, <1>3, <1>4, <2>1, <2>2, <2>3, <2>4, <3>2 DEF RoomKnown
        <4> QED
          BY <4>1
      <3>3. CASE rd_gray_w2' = rd_gray_w1 /\ rd_gray_w1' = Gray(rd_bin')
        <4>1. Known(0, x1 + d)
          BY <1>2, <1>3, <1>4, <2>1, <2>2, <2>3, <2>4, <3>3 DEF RoomKnown
        <4> QED
          BY <4>1
      <3> QED
        BY <1>1, <3>1, <3>2, <3>3 DEF RoomMoves
    <2>6. PICK x \in Nat, y \in Nat : Known(x, y)
      BY <2>5
    <2>7. x \in 0..Depth /\ y \in 0..Depth
      <3>1. x <= y /\ Held' + y <= Depth
        BY <2>6
      <3>2. \A h, u, v, n \in Nat : u <= v /\ h + v <= n => u \in 0..n /\ v \in 0..n
        OBVIOUS
      <3> HIDE DEF Known
      <3> QED
        BY <1>3, <1>6, <3>1, <3>2
    <2>8. RoomKnown(x, y)'
      BY <1>3, <2>6 DEF RoomKnown, Before, Gray, Bit
    <2> QED
      BY <1>3, <2>7, <2>8
  <1>8. \E y1, y2 \in 0..Depth : WordsKnown(y1, y2)'
    <2>1. PICK y1 \in 0..Depth, y2 \in 0..Depth : WordsKnown(y1, y2)
      BY DEF FifoInv
    <2>2. d = 1 => y2 < Held
      BY <1>2, <1>4, <2>1, EmptyIs DEF WordsKnown
    <2>3. /\ Before(wr_bin, y1) = Before(wr_bin', y1 + e)
          /\ Before(wr_bin, y2) = Before(wr_bin', y2 + e)
      BY <1>1, <1>3, BeforeMoves DEF WriteMoves
    <2>4. /\ Before(wr_bin', 0) = wr_bin' /\ Before(wr_bin', e) = wr_bin
      BY <1>1, <1>2, <1>3, BeforeMoves DEF WriteMoves
    <2> DEFINE Known(x, y) ==
          /\ x <= y /\ y <= Held'
          /\ wr_gray_r1' = Gray(Before(wr_bin', x)) /\ wr_gray_r2' = Gray(Before(wr_bin', y))
    <2>5. \E x, y \in Nat : Known(x, y)
      <3>1. CASE UNCHANGED <<wr_gray_r1, wr_gray_r2>> /\ rd_bin' = rd_bin
        <4>1. d = 0
          BY <1>1, <1>3, <3>1, CaughtOldOrNew, PointerFacts DEF ReadMoves
        <4>2. Known(y1 + e, y2 + e)
          BY <1>2, <1>4, <2>1, <2>3, <3>1, <4>1 DEF WordsKnown
        <4> QED
          BY <4>2
      <3>2. CASE wr_gray_r2' = wr_gray_r1 /\ wr_gray_r1' = Gray(wr_bin)
        <4>1. Known(e, y1 + e)
          BY <1>2, <1>3, <1>4, <1>5, <2>1, <2>2, <2>3, <2>4, <3>2 DEF WordsKnown
        <4> QED
          BY <4>1
      <3>3. CASE wr_gray_r2' = wr_gray_r1 /\ wr_gray_r1' = Gray(wr_bin')
        <4>1. Known(0, y1 + e)
          BY <1>2, <1>3, <1>4, <1>5, <2>1, <2>2, <2>3, <2>4, <3>3 DEF WordsKnown
        <4> QED
          BY <4>1
      <3> QED
        BY <1>1, <3>1, <3>2, <3>3 DEF WordsMove
    <2>6. PICK x \in Nat, y \in Nat : Known(x, y)
      BY <2>5
    <2>7. x \in 0..Depth /\ y \in 0..Depth
      <3>1. Held' <= Depth
        BY <1>2, <1>3, <1>4, <1>5
      <3> QED
        BY <1>3, <1>6, <2>6, <3>1
    <2>8. WordsKnown(x, y)'
      BY <1>3, <2>6 DEF WordsKnown, Before, Gray, Bit
    <2> QED
      BY <1>3, <2>7, <2>8
  <1> QED
    BY <1>2, <1>7, <1>8 DEF FifoInv, Pointers

\* and holds at power-on
LEMMA InitInv ==
  ASSUME AW \in Nat, AW >= 1, PowersOfTwo, FifoInit
  PROVE  FifoInv
  <1>1. 0 \in Pointers /\ Depth \in Nat
    BY PointerFacts
  <1>2. Held = 0
    BY <1>1, HeldIs DEF FifoInit
  <1>3. RoomKnown(0, 0) /\ WordsKnown(0, 0)
    BY <1>1, <1>2 DEF FifoInit, RoomKnown, WordsKnown, Before
  <1> QED
    BY <1>1, <1>3 DEF FifoInv, FifoInit

\* a step that leaves the FIFO alone keeps it
LEMMA StutterKeepsInv == FifoInv /\ UNCHANGED fifoVars => FifoInv'
  BY DEF FifoInv, RoomKnown, WordsKnown, fifoVars, writeSide, readSide, Held, Before,
         Pointers, Gray, Bit, Depth, Lap

(***************************************************************************)
(* "Full and empty are therefore pessimistic, never wrong", for every      *)
(* depth and every way the two clocks meet.                                *)
(***************************************************************************)
THEOREM FullAndEmptyNeverWrong ==
  AW \in Nat /\ AW >= 1 /\ PowersOfTwo => (FifoSpec => []NeverWrong)
  <1> SUFFICES ASSUME AW \in Nat, AW >= 1, PowersOfTwo PROVE FifoSpec => []NeverWrong
    OBVIOUS
  <1>1. FifoInit => FifoInv
    BY InitInv
  <1>2. FifoInv /\ [FifoNext]_fifoVars => FifoInv'
    <2>1. FifoNext => FifoStep
      BY DEF FifoNext, FifoStep
    <2> QED
      BY <2>1, StepKeepsInv, StutterKeepsInv
  <1>3. FifoInv => NeverWrong
    BY InvNeverWrong
  <1> QED
    BY <1>1, <1>2, <1>3, PTL DEF FifoSpec
=============================================================================
