------------------------- MODULE ReconnectLoopProofs -------------------------
(***************************************************************************)
(* Proofs about ReconnectLoop, for any limits, deadlines and longest        *)
(* backoff: types, and the time between a failure and the next dial.        *)
(***************************************************************************)
EXTENDS ReconnectLoop, WellFoundedInduction, TLAPS

-----------------------------------------------------------------------------
(* Induction, for the elements of a set: the library's theorem is about an  *)
(* operator.                                                                *)
LEMMA NatSetInduction ==
  ASSUME NEW S, 0 \in S, \A n \in Nat : n \in S => n + 1 \in S
  PROVE  Nat \subseteq S
<1>. DEFINE R == OpToRel(<, Nat)
            T == Nat \ S
<1>. SUFFICES ASSUME T # {} PROVE FALSE
  OBVIOUS
<1>1. IsWellFoundedOn(R, Nat)
  BY NatLessThanWellFounded
<1>2. T \subseteq Nat
  OBVIOUS
<1>3. \A x, y \in Nat : x < y => <<x, y>> \in R
  BY DEF OpToRel
<1>. HIDE DEF R
<1>4. PICK x \in T : \A y \in T : ~ (<<y, x>> \in R)
  BY <1>1, <1>2, WFMin
<1>5. x \in Nat /\ x # 0 /\ x \notin S
  OBVIOUS
<1>6. x - 1 \in Nat /\ x - 1 < x /\ x = (x - 1) + 1
  BY <1>5
<1>7. <<x - 1, x>> \in R
  BY <1>3, <1>5, <1>6
<1>8. x - 1 \notin T
  BY <1>4, <1>7
<1>9. x - 1 \in S
  BY <1>6, <1>8
<1>. QED  BY <1>5, <1>6, <1>9

(* The recursive definition of Shifted has a solution: its beginnings have, *)
(* and they agree.                                                          *)
Doubling(g, n) == g[0] = 1 /\ \A i \in 1..n : g[i] = 2 * g[i - 1]

LEMMA DoublingExists ==
  \A n \in Nat : \E g \in [Nat -> Nat] : Doubling(g, n)
<1>. DEFINE S == {n \in Nat : \E g \in [Nat -> Nat] : Doubling(g, n)}
<1>1. 0 \in S
  <2>1. [i \in Nat |-> 1] \in [Nat -> Nat] /\ Doubling([i \in Nat |-> 1], 0)
    BY DEF Doubling
  <2>. QED  BY <2>1
<1>2. ASSUME NEW n \in Nat, n \in S PROVE n + 1 \in S
  <2>1. PICK g \in [Nat -> Nat] : Doubling(g, n)
    BY <1>2
  <2>. DEFINE h == [g EXCEPT ![n + 1] = 2 * g[n]]
  <2>2. h \in [Nat -> Nat] /\ h[n + 1] = 2 * g[n] /\ \A i \in 0..n : h[i] = g[i]
    OBVIOUS
  <2>. HIDE DEF h
  <2>3. h[0] = 1
    BY <2>1, <2>2 DEF Doubling
  <2>4. ASSUME NEW i \in 1..(n + 1) PROVE h[i] = 2 * h[i - 1]
    <3>1. CASE i = n + 1
      BY <2>2, <3>1
    <3>2. CASE i \in 1..n
      <4>1. g[i] = 2 * g[i - 1] /\ i \in 0..n /\ i - 1 \in 0..n
        BY <2>1, <3>2 DEF Doubling
      <4>. QED  BY <2>2, <4>1
    <3>. QED  BY <3>1, <3>2
  <2>. QED  BY <2>2, <2>3, <2>4 DEF Doubling
<1>. HIDE DEF S
<1>3. Nat \subseteq S
  BY <1>1, <1>2, NatSetInduction
<1>. QED  BY <1>3 DEF S

LEMMA DoublingAgrees ==
  ASSUME NEW n \in Nat, NEW m \in Nat, n <= m,
         NEW g \in [Nat -> Nat], Doubling(g, n), NEW h \in [Nat -> Nat], Doubling(h, m)
  PROVE  g[n] = h[n]
<1>. DEFINE S == {i \in Nat : i <= n => g[i] = h[i]}
<1>1. 0 \in S
  BY DEF Doubling
<1>2. ASSUME NEW i \in Nat, i \in S PROVE i + 1 \in S
  <2>. SUFFICES ASSUME i + 1 <= n PROVE g[i + 1] = h[i + 1]
    OBVIOUS
  <2>1. i + 1 \in 1..n /\ i + 1 \in 1..m /\ (i + 1) - 1 = i /\ g[i] = h[i]
    BY <1>2
  <2>. QED  BY <2>1 DEF Doubling
<1>. HIDE DEF S
<1>3. Nat \subseteq S
  BY <1>1, <1>2, NatSetInduction
<1>. QED  BY <1>3 DEF S

LEMMA ShiftedDef ==
  Shifted = [c \in Nat |-> IF c = 0 THEN 1 ELSE 2 * Shifted[c - 1]]
<1>. DEFINE start(n) == CHOOSE g \in [Nat -> Nat] : Doubling(g, n)
            f == [n \in Nat |-> start(n)[n]]
<1>1. ASSUME NEW n \in Nat PROVE start(n) \in [Nat -> Nat] /\ Doubling(start(n), n)
  BY DoublingExists
<1>. HIDE DEF start
<1>2. ASSUME NEW n \in Nat PROVE f[n] = IF n = 0 THEN 1 ELSE 2 * f[n - 1]
  <2>1. CASE n = 0
    BY <1>1, <2>1 DEF Doubling
  <2>2. CASE n # 0
    <3>1. n - 1 \in Nat /\ n - 1 <= n /\ n \in 1..n
      BY <2>2
    <3>2. Doubling(start(n), n - 1) 
      BY <1>1, <3>1 DEF Doubling
    <3>3. start(n - 1)[n - 1] = start(n)[n - 1]
      BY <1>1, <3>1, DoublingAgrees
    <3>4. start(n)[n] = 2 * start(n)[n - 1]
      BY <1>1, <3>1 DEF Doubling
    <3>. QED  BY <2>2, <3>1, <3>3, <3>4
  <2>. QED  BY <2>1, <2>2
<1>3. f = [c \in Nat |-> IF c = 0 THEN 1 ELSE 2 * f[c - 1]]
  BY <1>2
<1>. HIDE DEF f
<1>. QED  BY <1>3 DEF Shifted

(* 1 << c is positive and grows with c.                                     *)
LEMMA ShiftedGrows ==
  /\ \A c \in Nat : Shifted[c] \in Nat \ {0}
  /\ \A c, d \in Nat : c <= d => Shifted[c] <= Shifted[d]
<1>0. /\ Shifted[0] = 1
      /\ \A c \in Nat : Shifted[c + 1] = 2 * Shifted[c]
  <2>. DEFINE F(c) == IF c = 0 THEN 1 ELSE 2 * Shifted[c - 1]
  <2>1. \A c \in Nat : Shifted[c] = F(c)
    <3>1. Shifted = [c \in Nat |-> F(c)]
      BY ShiftedDef
    <3>. HIDE DEF F
    <3>. QED  BY <3>1
  <2>2. \A c \in Nat : c + 1 \in Nat /\ c + 1 # 0 /\ (c + 1) - 1 = c
    OBVIOUS
  <2>. QED  BY <2>1, <2>2
<1>. DEFINE S == {c \in Nat : /\ Shifted[c] \in Nat \ {0}
                              /\ \A b \in 0..c : /\ Shifted[b] \in Nat
                                                 /\ Shifted[b] <= Shifted[c]}
<1>1. 0 \in S
  BY <1>0
<1>2. ASSUME NEW c \in Nat, c \in S PROVE c + 1 \in S
  <2>1. Shifted[c] \in Nat \ {0} /\ Shifted[c + 1] = 2 * Shifted[c]
    BY <1>0, <1>2
  <2>2. Shifted[c + 1] \in Nat \ {0} /\ Shifted[c] <= Shifted[c + 1]
    BY <2>1
  <2>3. ASSUME NEW b \in 0..(c + 1) PROVE Shifted[b] \in Nat /\ Shifted[b] <= Shifted[c + 1]
    <3>1. CASE b = c + 1
      BY <2>2, <3>1
    <3>2. CASE b \in 0..c
      <4>1. Shifted[b] \in Nat /\ Shifted[b] <= Shifted[c]
        BY <1>2, <3>2
      <4>. QED  BY <2>1, <2>2, <4>1
    <3>. QED  BY <3>1, <3>2
  <2>. QED  BY <2>2, <2>3
<1>. HIDE DEF S
<1>3. Nat \subseteq S
  BY <1>1, <1>2, NatSetInduction
<1>4. \A c \in Nat : c \in S
  BY <1>3
<1>. QED  BY <1>4 DEF S

-----------------------------------------------------------------------------
(* The invariant: when the loop begins to wait, what it has still to wait   *)
(* and the time since the failure make up the backoff, and go on to.        *)
Waited ==
    /\ since <= Shifted[MaxDelayCount]
    /\ at \in {"start", "serve"} => failCount = 0
    /\ at = "backoff" => failCount > 0 /\ since + wait >= Backoff(failCount)

IInv == LoopTypeOK /\ Waited /\ DialsSpaced

USE FlagAssumption

LEMMA BackoffBound ==
  ASSUME NEW c \in Nat
  PROVE  Backoff(c) \in 0..Shifted[MaxDelayCount] /\ Shifted[MaxDelayCount] \in Nat \ {0}
<1>1. /\ Least(c, MaxDelayCount) \in Nat /\ Least(c, MaxDelayCount) <= MaxDelayCount
      /\ MaxDelayCount \in Nat
  BY DEF Least
<1>2. /\ Shifted[Least(c, MaxDelayCount)] \in Nat \ {0}
      /\ Shifted[MaxDelayCount] \in Nat \ {0}
      /\ Shifted[Least(c, MaxDelayCount)] <= Shifted[MaxDelayCount]
  BY <1>1, ShiftedGrows
<1>. QED  BY <1>2 DEF Backoff, expectBackoff

LEMMA InitIInv == Init => IInv
<1>. SUFFICES ASSUME Init PROVE IInv
  OBVIOUS
<1>1. Shifted[MaxDelayCount] \in Nat \ {0}
  BY BackoffBound
<1>2. /\ owner \in {"client", "upstream"}
      /\ maxReconnectCount \in MaxReconnectCounts \cup {-1}
      /\ deadline \in Deadlines \cup {0}
  BY DEF Init
<1>3. 0 \in 0..FailCap /\ 0 \in 0..Shifted[MaxDelayCount]
  BY <1>1
<1>4. LoopTypeOK
  BY <1>2, <1>3 DEF Init, LoopTypeOK
<1>. QED  BY <1>1, <1>4 DEF Init, IInv, Waited, DialsSpaced

(* A failure starts the wait.                                               *)
LEMMA FailedWaits ==
  ASSUME IInv, Failed, UNCHANGED flagVars
  PROVE  /\ failCount' \in 0..FailCap /\ since' = 0
         /\ wait' \in 0..Shifted[MaxDelayCount] /\ at' \in {"backoff", "exited"}
         /\ Waited' /\ DialsSpaced'
<1>1. failCount' \in 0..FailCap /\ failCount' > 0 /\ failCount' \in Nat
  BY DEF Failed, Least, IInv, LoopTypeOK
<1>2. Backoff(failCount') \in 0..Shifted[MaxDelayCount] /\ Shifted[MaxDelayCount] \in Nat \ {0}
  BY <1>1, BackoffBound
<1>3. /\ since' = 0
      /\ \/ at' = "exited" /\ wait' = 0
         \/ at' = "backoff" /\ wait' = Backoff(failCount')
  BY DEF Failed
<1>4. Backoff(failCount)' = Backoff(failCount')
  BY DEF Backoff, flagVars
<1>5. Waited'
  BY <1>1, <1>2, <1>3, <1>4 DEF Waited
<1>6. DialsSpaced'
  BY <1>3 DEF DialsSpaced
<1>. QED  BY <1>1, <1>2, <1>3, <1>5, <1>6

LEMMA NextIInv == IInv /\ [Next]_vars => IInv'
<1>. SUFFICES ASSUME IInv, [Next]_vars PROVE IInv'
  OBVIOUS
<1>0. Shifted[MaxDelayCount] \in Nat \ {0}
  BY BackoffBound
<1>1. CASE getContext
  <2>1. Backoff(failCount)' = Backoff(failCount) /\ Backoff(failCount) \in Int
    BY <1>1, BackoffBound DEF getContext, flagVars, Backoff, IInv, LoopTypeOK
  <2>0. deadline \in Nat
    BY DEF IInv, LoopTypeOK
  <2>2. LoopTypeOK'
    BY <1>1, <2>0 DEF getContext, flagVars, IInv, LoopTypeOK
  <2>3. Waited'
    BY <1>1 DEF getContext, IInv, Waited
  <2>4. DialsSpaced'
    BY <1>1, <2>1 DEF getContext, IInv, LoopTypeOK, Waited, DialsSpaced
  <2>. QED  BY <2>2, <2>3, <2>4 DEF IInv
<1>2. CASE ConnectFails \/ Closed
  <2>1. Failed /\ UNCHANGED flagVars
    BY <1>2 DEF ConnectFails, Closed
  <2>2. /\ failCount' \in 0..FailCap /\ since' = 0
        /\ wait' \in 0..Shifted[MaxDelayCount] /\ at' \in {"backoff", "exited"}
        /\ Waited' /\ DialsSpaced'
    BY <2>1, FailedWaits
  <2>3. UNCHANGED <<rest, closed, deaf>> /\ ended' \in BOOLEAN
    BY <1>2 DEF ConnectFails, Closed, roundVars, IInv, LoopTypeOK
  <2>4. LoopTypeOK'
    BY <2>1, <2>2, <2>3 DEF flagVars, IInv, LoopTypeOK
  <2>. QED  BY <2>2, <2>3, <2>4 DEF IInv
<1>3. CASE Connect
  <2>1. LoopTypeOK'
    BY <1>3 DEF Connect, flagVars, roundVars, IInv, LoopTypeOK
  <2>. QED
    BY <1>3, <2>1 DEF Connect, IInv, Waited, DialsSpaced
<1>4. CASE ConnectionLost \/ ConsumerEnds \/ ReaderEnds
  <2>1. /\ at = "serve" /\ UNCHANGED <<flagVars, at, failCount, wait, since, rest>>
        /\ ended' \in BOOLEAN /\ closed' \in BOOLEAN /\ deaf' \in BOOLEAN
    BY <1>4 DEF ConnectionLost, ConsumerEnds, ReaderEnds, IInv, LoopTypeOK
  <2>2. LoopTypeOK'
    BY <2>1 DEF flagVars, IInv, LoopTypeOK
  <2>. QED
    BY <2>1, <2>2 DEF IInv, Waited, DialsSpaced
<1>5. CASE DeadlineSeen \/ Interrupt
  <2>1. /\ at' = "exited"
        /\ UNCHANGED <<flagVars, failCount, wait, since, roundVars>>
    BY <1>5 DEF DeadlineSeen, Interrupt
  <2>2. LoopTypeOK'
    BY <2>1 DEF flagVars, roundVars, IInv, LoopTypeOK
  <2>. QED
    BY <2>1, <2>2 DEF IInv, Waited, DialsSpaced
<1>6. CASE Tick
  <2>1. /\ UNCHANGED <<owner, maxReconnectCount, deadline, at, failCount, closed, deaf>>
        /\ wait' = IF wait > 0 THEN wait - 1 ELSE 0
        /\ since' = Least(since + 1, Shifted[MaxDelayCount])
        /\ rest' = IF rest > 0 THEN rest - 1 ELSE 0
        /\ ended' \in BOOLEAN
    BY <1>6 DEF Tick, flagVars
  <2>2. Backoff(failCount)' = Backoff(failCount)
        /\ Backoff(failCount) \in 0..Shifted[MaxDelayCount]
    BY <2>1, BackoffBound DEF Backoff, IInv, LoopTypeOK
  <2>3. /\ wait' \in 0..Shifted[MaxDelayCount] /\ wait' >= wait - 1
        /\ since' \in Nat /\ since' <= Shifted[MaxDelayCount] /\ rest' \in Nat
        /\ since' = since + 1 \/ since' = Shifted[MaxDelayCount]
        /\ since' >= since
    BY <1>0, <2>1 DEF Least, IInv, LoopTypeOK, Waited
  <2>4. LoopTypeOK'
    BY <2>1, <2>3 DEF IInv, LoopTypeOK
  <2>5. Waited'
    BY <1>0, <2>1, <2>2, <2>3 DEF IInv, LoopTypeOK, Waited
  <2>6. DialsSpaced'
    BY <2>1, <2>2, <2>3 DEF IInv, LoopTypeOK, DialsSpaced
  <2>. QED  BY <2>1, <2>4, <2>5, <2>6 DEF IInv
<1>7. CASE UNCHANGED vars
  BY <1>7 DEF vars, flagVars, roundVars, IInv, LoopTypeOK, Waited, DialsSpaced, Backoff
<1>. QED  BY <1>1, <1>2, <1>3, <1>4, <1>5, <1>6, <1>7 DEF Next

THEOREM Invariance == Spec => []IInv
  BY InitIInv, NextIInv, PTL DEF Spec

(* No wait is longer than the longest backoff (expectBackoff, main.go:131), *)
(* and every variable has its type.                                         *)
THEOREM TypeCorrect == Spec => []LoopTypeOK
<1>1. IInv => LoopTypeOK
  BY DEF IInv
<1>. QED  BY <1>1, Invariance, PTL

(* However the clock, the server and the consumer interleave, the loop      *)
(* dials no sooner after its last failure than the backoff (main.go:270).   *)
THEOREM DialsWait == Spec => []DialsSpaced
<1>1. IInv => DialsSpaced
  BY DEF IInv
<1>. QED  BY <1>1, Invariance, PTL
=============================================================================
