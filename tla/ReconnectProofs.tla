--------------------------- MODULE ReconnectProofs ---------------------------
(***************************************************************************)
(* What the recursion of Reconnect computes, for any delays and any width  *)
(* of the word: that Shifted is defined at all, and what range it and the  *)
(* delays made of it have.  Induction over the naturals is used in the     *)
(* form of a least counterexample, which is a statement about sets.        *)
(***************************************************************************)
EXTENDS Reconnect, TLAPS, WellFoundedInduction

(* A set of naturals that is not empty has a least element. *)
LEMMA LeastNatural ==
  ASSUME NEW T, T \subseteq Nat, T # {}
  PROVE  \E x \in T : \A y \in T : x <= y
<1> DEFINE R == OpToRel(<, Nat)
<1>1. IsWellFoundedOn(R, Nat)
  BY NatLessThanWellFounded
<1>2. \A x, y \in Nat : <<x, y>> \in R <=> x < y
  BY DEF OpToRel
<1> HIDE DEF R
<1>3. PICK x \in T : \A y \in T : ~ (<<y, x>> \in R)
  BY <1>1, WFMin
<1>4. \A y \in T : ~ (y < x)
  BY <1>2, <1>3
<1> QED
  BY <1>4

(* What holds of 0, and of n + 1 up to a limit when it holds of n, holds up *)
(* to the limit.                                                           *)
LEMMA InductionUpTo ==
  ASSUME NEW limit \in Nat, NEW S, 0 \in S,
         \A n \in 0..(limit - 1) : n \in S => n + 1 \in S
  PROVE  0..limit \subseteq S
<1> DEFINE Missing == {n \in 0..limit : n \notin S}
<1> SUFFICES ASSUME Missing # {} PROVE FALSE
  OBVIOUS
<1>1. Missing \subseteq Nat
  OBVIOUS
<1>2. PICK n \in Missing : \A m \in Missing : n <= m
  BY <1>1, LeastNatural
<1>3. n \in 0..limit /\ n \notin S /\ n # 0
  BY <1>2
<1>4. n - 1 \in 0..(limit - 1) /\ n - 1 \in 0..limit /\ ~(n <= n - 1)
  BY <1>3
<1>5. n - 1 \in S
  BY <1>2, <1>4
<1>6. n - 1 + 1 \in S /\ n - 1 + 1 = n
  BY <1>3, <1>4, <1>5
<1> QED
  BY <1>3, <1>6

-----------------------------------------------------------------------------
(* A table of the first shifted delays. *)
Table(f, n) ==
    f = [shift \in 0..n |->
            IF shift = 0 THEN BaseDelay % Modulus ELSE (2 * f[shift - 1]) % Modulus]

(* There is a table of any length. *)
LEMMA TableExists == \E f : Table(f, MaxShift)
<1> DEFINE S == {n \in 0..MaxShift : \E f : Table(f, n)}
<1>1. MaxShift \in Nat
  BY ReconnectAssumption
<1>2. 0 \in S
  <2>1. Table([shift \in 0..0 |-> BaseDelay % Modulus], 0)
    BY DEF Table
  <2> QED
    BY <1>1, <2>1
<1>3. ASSUME NEW n \in 0..(MaxShift - 1), n \in S PROVE n + 1 \in S
  <2>1. PICK f : Table(f, n)
    BY <1>3
  <2> DEFINE g == [shift \in 0..(n + 1) |->
                      IF shift = n + 1 THEN (2 * f[n]) % Modulus ELSE f[shift]]
  <2>2. \A shift \in 0..n : f[shift] = IF shift = 0 THEN BaseDelay % Modulus
                                       ELSE (2 * f[shift - 1]) % Modulus
    BY <2>1 DEF Table
  <2>3. n + 1 \in 0..(n + 1) /\ n + 1 # 0 /\ n \in 0..(n + 1) /\ n # n + 1 /\ n + 1 - 1 = n
    BY <1>1
  <2>4. g[n + 1] = (2 * g[n]) % Modulus
    BY <2>3
  <2>5. ASSUME NEW shift \in 0..n
        PROVE  g[shift] = IF shift = 0 THEN BaseDelay % Modulus
                          ELSE (2 * g[shift - 1]) % Modulus
    <3>1. shift \in 0..(n + 1) /\ shift # n + 1
      BY <1>1
    <3>2. CASE shift = 0
      BY <2>2, <3>1, <3>2
    <3>3. CASE shift # 0
      <4>1. shift - 1 \in 0..(n + 1) /\ shift - 1 # n + 1
        BY <1>1, <3>3
      <4>2. g[shift] = f[shift] /\ g[shift - 1] = f[shift - 1]
        BY <3>1, <4>1
      <4> HIDE DEF g
      <4> QED
        BY <2>2, <3>3, <4>2
    <3> QED
      BY <3>2, <3>3
  <2>6. \A shift \in 0..(n + 1) : shift = n + 1 \/ shift \in 0..n
    BY <1>1
  <2>7. g = [shift \in 0..(n + 1) |-> g[shift]]
    OBVIOUS
  <2> HIDE DEF g
  <2>8. \A shift \in 0..(n + 1) :
            g[shift] = IF shift = 0 THEN BaseDelay % Modulus
                       ELSE (2 * g[shift - 1]) % Modulus
    BY <2>3, <2>4, <2>5, <2>6
  <2>9. Table(g, n + 1)
    BY <2>7, <2>8 DEF Table
  <2> QED
    BY <1>1, <2>9
<1> HIDE DEF S
<1>4. 0..MaxShift \subseteq S
  BY <1>1, <1>2, <1>3, InductionUpTo
<1>5. MaxShift \in S
  BY <1>1, <1>4
<1> QED
  BY <1>5 DEF S

(* Shifted is what its definition says. *)
LEMMA ShiftedDef ==
  Shifted = [shift \in Retry |->
                IF shift = 0 THEN BaseDelay % Modulus
                ELSE (2 * Shifted[shift - 1]) % Modulus]
<1>1. \E f : f = [shift \in Retry |->
                     IF shift = 0 THEN BaseDelay % Modulus ELSE (2 * f[shift - 1]) % Modulus]
  BY TableExists DEF Table, Retry
<1> QED
  BY <1>1 DEF Shifted

LEMMA ShiftedSteps ==
  /\ Shifted[0] = BaseDelay % Modulus
  /\ \A n \in 0..(MaxShift - 1) : Shifted[n + 1] = (2 * Shifted[n]) % Modulus
<1> DEFINE Entry(shift) == IF shift = 0 THEN BaseDelay % Modulus
                           ELSE (2 * Shifted[shift - 1]) % Modulus
<1>1. Shifted = [shift \in Retry |-> Entry(shift)]
  BY ShiftedDef
<1> HIDE DEF Entry
<1>2. \A shift \in Retry : Shifted[shift] = Entry(shift)
  BY <1>1
<1>3. \A n \in 0..(MaxShift - 1) : n + 1 \in Retry /\ n + 1 # 0 /\ n + 1 - 1 = n
  BY ReconnectAssumption DEF Retry
<1>4. 0 \in Retry
  BY ReconnectAssumption DEF Retry
<1>5. Entry(0) = BaseDelay % Modulus
  BY DEF Entry
<1>6. \A n \in 0..(MaxShift - 1) : Entry(n + 1) = (2 * Shifted[n]) % Modulus
  BY <1>3 DEF Entry
<1> QED
  BY <1>2, <1>3, <1>4, <1>5, <1>6

(* A shifted delay fits the word. *)
LEMMA ShiftedType == \A shift \in Retry : Shifted[shift] \in 0..(Modulus - 1)
<1> DEFINE S == {shift \in Retry : Shifted[shift] \in 0..(Modulus - 1)}
<1>1. /\ MaxShift \in Nat /\ BaseDelay \in Nat /\ Modulus \in Nat \ {0}
      /\ Retry = 0..MaxShift
  BY ReconnectAssumption DEF Retry
<1>2. \A x \in Nat : x % Modulus \in 0..(Modulus - 1)
  BY <1>1
<1>3. 0 \in S
  <2>1. 0 \in Retry /\ Shifted[0] = BaseDelay % Modulus
    BY <1>1, ShiftedSteps
  <2> QED
    BY <1>1, <1>2, <2>1
<1>4. ASSUME NEW n \in 0..(MaxShift - 1), n \in S PROVE n + 1 \in S
  <2>1. n + 1 \in Retry
    BY <1>1
  <2>2. Shifted[n + 1] = (2 * Shifted[n]) % Modulus
    BY ShiftedSteps
  <2>3. 2 * Shifted[n] \in Nat
    BY <1>1, <1>4
  <2>4. Shifted[n + 1] \in 0..(Modulus - 1)
    BY <1>2, <2>1, <2>2, <2>3
  <2> QED
    BY <2>1, <2>4
<1> HIDE DEF S
<1>5. 0..MaxShift \subseteq S
  BY <1>1, <1>3, <1>4, InductionUpTo
<1> QED
  BY <1>1, <1>5 DEF S

(* The delay never exceeds the maximum, whatever the shift does to the     *)
(* word.                                                                   *)
LEMMA BackoffRange == \A retry \in Retry : Backoff(retry) \in 0..MaxDelay
  BY ShiftedType, ReconnectAssumption DEF Backoff

LEMMA CountedType == \A retry \in Retry : Counted(retry) \in Retry
  BY ReconnectAssumption DEF Counted, Retry

LEMMA NoRetryYet == 0 \in Retry /\ 0 \in 0..MaxDelay
  BY ReconnectAssumption DEF Retry

-----------------------------------------------------------------------------
(* The delays of the code, in units of 8 ms. *)
CodeConstants ==
    /\ BaseDelay = 125 /\ MaxDelay = 7500
    /\ MaxShift = 30 /\ Modulus = 536870912

(* Six doublings take 1 s past the minute that is the limit, and none of   *)
(* the next 22 wraps around to less than that minute.                      *)
LEMMA DelaysOfTheCode ==
  ASSUME CodeConstants
  PROVE  /\ Backoff(0) = 125 /\ Backoff(1) = 250 /\ Backoff(2) = 500
         /\ Backoff(3) = 1000 /\ Backoff(4) = 2000 /\ Backoff(5) = 4000
         /\ \A retry \in 6..28 : Backoff(retry) = 7500
<1>1. Shifted[0] = 125
  BY ShiftedSteps, SMT DEF CodeConstants
<1>2. \A n \in 0..29 : Shifted[n + 1] = (2 * Shifted[n]) % 536870912
  BY ShiftedSteps, SMT DEF CodeConstants
<1>3. /\ Shifted[1] = 250 /\ Shifted[2] = 500
      /\ Shifted[3] = 1000 /\ Shifted[4] = 2000
      /\ Shifted[5] = 4000 /\ Shifted[6] = 8000
  BY <1>1, <1>2, SMT
<1>4. /\ Shifted[7] = 16000 /\ Shifted[8] = 32000
      /\ Shifted[9] = 64000 /\ Shifted[10] = 128000
      /\ Shifted[11] = 256000 /\ Shifted[12] = 512000
  BY <1>3, <1>2, SMT
<1>5. /\ Shifted[13] = 1024000 /\ Shifted[14] = 2048000
      /\ Shifted[15] = 4096000 /\ Shifted[16] = 8192000
      /\ Shifted[17] = 16384000 /\ Shifted[18] = 32768000
  BY <1>4, <1>2, SMT
<1>6. /\ Shifted[19] = 65536000 /\ Shifted[20] = 131072000
      /\ Shifted[21] = 262144000 /\ Shifted[22] = 524288000
      /\ Shifted[23] = 511705088 /\ Shifted[24] = 486539264
  BY <1>5, <1>2, SMT
<1>7. /\ Shifted[25] = 436207616 /\ Shifted[26] = 335544320
      /\ Shifted[27] = 134217728 /\ Shifted[28] = 268435456
  BY <1>6, <1>2, SMT
<1>8. \A retry \in 6..28 : Shifted[retry] > 7500
  BY <1>3, <1>4, <1>5, <1>6, <1>7, SMT
<1> QED
  BY <1>1, <1>3, <1>8, SMT DEF Backoff, CodeConstants
=============================================================================
