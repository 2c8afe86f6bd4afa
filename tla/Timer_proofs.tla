---------------------------- MODULE Timer_proofs ----------------------------
(***************************************************************************)
(* Proofs about Timer, for every time-out and any number of timers.        *)
(***************************************************************************)
EXTENDS Timer, TLAPS

\* What the ticks of a timer's life went into: whole time-outs, one call each,
\* and the part of the present one that has passed.
Accounted ==
  \A i \in DOMAIN timers :
    LET t == timers[i]
    IN  IF t.timeOut = 0 THEN fired[i] = age[i]
        ELSE age[i] = fired[i] * t.timeOut + (t.timeOut - t.left)

IInv == TypeOK /\ Accounted

\* A quotient is known from its multiple and remainder.
LEMMA Quotient ==
  ASSUME NEW q \in Nat, NEW n \in Nat \ {0}, NEW r \in 0 .. n - 1
  PROVE  (q * n + r) \div n = q
<1> DEFINE a == q * n + r
           d == a \div n
           s == a % n
<1>1. a \in Nat /\ q * n \in Nat
  OBVIOUS
<1>2. d \in Nat /\ s \in 0 .. n - 1 /\ a = d * n + s
  BY <1>1
<1> HIDE DEF d, s
<1>3. d * n \in Nat
  BY <1>2
<1>4. d * n < q * n + n /\ q * n < d * n + n
  BY <1>1, <1>2, <1>3
<1>5. ASSUME NEW x \in Nat, NEW y \in Nat, x * n < y * n + n PROVE x <= y
  <2>1. (y + 1) * n = y * n + n
    OBVIOUS
  <2>2. ASSUME y + 1 <= x PROVE (y + 1) * n <= x * n
    BY <2>2
  <2> QED
    BY <1>5, <2>1, <2>2
<1>6. d <= q /\ q <= d
  BY <1>2, <1>4, <1>5
<1>7. d = q
  BY <1>2, <1>6
<1> QED
  BY <1>7 DEF d

\* An attached timer's entries have their types.
LEMMA Entries ==
  ASSUME IInv, NEW i \in DOMAIN timers
  PROVE  /\ timers[i] \in [timeOut : TimeOuts, left : Nat]
         /\ timers[i].timeOut \in Nat /\ age[i] \in Nat /\ fired[i] \in Nat
<1>1. /\ timers \in Seq([timeOut : TimeOuts, left : Nat])
      /\ age \in Seq(Nat) /\ fired \in Seq(Nat)
      /\ i \in DOMAIN age /\ i \in DOMAIN fired
  BY DEF IInv, TypeOK
<1>2. timers[i] \in [timeOut : TimeOuts, left : Nat]
  <2> DEFINE T == [timeOut : TimeOuts, left : Nat]
  <2>1. timers \in Seq(T)
    BY <1>1
  <2> HIDE DEF T
  <2>2. timers[i] \in T
    BY <2>1
  <2> QED
    BY <2>2 DEF T
<1>3. age[i] \in Nat
  BY <1>1
<1>4. fired[i] \in Nat
  BY <1>1
<1> QED
  BY <1>2, <1>3, <1>4, TimerAssumption

\* Attaching a timer puts one that has seen no tick before the others.
LEMMA AttachIInv ==
  ASSUME IInv, NEW n \in TimeOuts, Timer_AttachTimerHandler(n)
  PROVE  IInv'
<1>0. n \in Nat
  BY TimerAssumption
<1> DEFINE t0 == [timeOut |-> n, left |-> n]
<1>1. /\ t0 \in [timeOut : TimeOuts, left : Nat]
      /\ timers \in Seq([timeOut : TimeOuts, left : Nat])
      /\ age \in Seq(Nat) /\ fired \in Seq(Nat)
      /\ Len(age) = Len(timers) /\ Len(fired) = Len(timers)
  BY <1>0 DEF IInv, TypeOK
<1>2. /\ timers' = <<t0>> \o timers /\ age' = <<0>> \o age /\ fired' = <<0>> \o fired
  BY DEF Timer_AttachTimerHandler
<1>3. /\ timers' \in Seq([timeOut : TimeOuts, left : Nat])
      /\ age' \in Seq(Nat) /\ fired' \in Seq(Nat)
      /\ Len(timers') = Len(timers) + 1 /\ Len(age') = Len(timers) + 1
      /\ Len(fired') = Len(timers) + 1
  BY <1>1, <1>2
<1>4. /\ timers'[1] = t0 /\ age'[1] = 0 /\ fired'[1] = 0
      /\ \A i \in 1 .. Len(timers) + 1 : i # 1 =>
           /\ i - 1 \in DOMAIN timers
           /\ timers'[i] = timers[i - 1] /\ age'[i] = age[i - 1] /\ fired'[i] = fired[i - 1]
  BY <1>1, <1>2
<1>5. DOMAIN timers' = 1 .. Len(timers) + 1
  BY <1>3
<1>6. TypeOK'
  <2>1. ASSUME NEW i \in DOMAIN timers', timers'[i].timeOut # 0
        PROVE  timers'[i].left \in 1 .. timers'[i].timeOut
    <3>1. CASE i = 1
      <4>1. timers'[i].left = n /\ timers'[i].timeOut = n
        BY <1>4, <3>1
      <4> QED
        BY <1>0, <2>1, <4>1
    <3>2. CASE i # 1
      <4>1. i - 1 \in DOMAIN timers /\ timers'[i] = timers[i - 1]
        BY <1>4, <1>5, <3>2
      <4> QED
        BY <2>1, <4>1 DEF IInv, TypeOK
    <3> QED
      BY <3>1, <3>2
  <2> QED
    BY <1>3, <2>1 DEF TypeOK
<1>7. Accounted'
  <2> SUFFICES ASSUME NEW i \in DOMAIN timers'
               PROVE  IF timers'[i].timeOut = 0 THEN fired'[i] = age'[i]
                      ELSE age'[i] = fired'[i] * timers'[i].timeOut
                                       + (timers'[i].timeOut - timers'[i].left)
    BY DEF Accounted
  <2>1. CASE i = 1
    <3>1. timers'[i].timeOut = n /\ timers'[i].left = n /\ fired'[i] = 0 /\ age'[i] = 0
      BY <1>4, <2>1
    <3> QED
      BY <1>0, <3>1
  <2>2. CASE i # 1
    <3>1. /\ i - 1 \in DOMAIN timers
          /\ timers'[i] = timers[i - 1] /\ age'[i] = age[i - 1] /\ fired'[i] = fired[i - 1]
      BY <1>4, <1>5, <2>2
    <3>2. IF timers[i - 1].timeOut = 0 THEN fired[i - 1] = age[i - 1]
          ELSE age[i - 1] = fired[i - 1] * timers[i - 1].timeOut
                              + (timers[i - 1].timeOut - timers[i - 1].left)
      BY <3>1 DEF IInv, Accounted
    <3> QED
      BY <3>1, <3>2
  <2> QED
    BY <2>1, <2>2
<1> QED
  BY <1>6, <1>7 DEF IInv

\* A tick moves every timer by one, and calls those that are due.
LEMMA TickIInv ==
  ASSUME IInv, Timer_Handler
  PROVE  IInv'
<1>1. /\ timers \in Seq([timeOut : TimeOuts, left : Nat])
      /\ age \in Seq(Nat) /\ fired \in Seq(Nat)
      /\ DOMAIN timers = 1 .. Len(timers)
      /\ DOMAIN age = DOMAIN timers /\ DOMAIN fired = DOMAIN timers
  BY DEF IInv, TypeOK
<1>2. /\ timers' = [i \in DOMAIN timers |-> CountDown(timers[i])]
      /\ age' = [i \in DOMAIN timers |-> age[i] + 1]
      /\ fired' = [i \in DOMAIN timers |-> IF Due(timers[i]) THEN fired[i] + 1 ELSE fired[i]]
  BY DEF Timer_Handler
<1>3. ASSUME NEW i \in DOMAIN timers
      PROVE  /\ timers'[i] \in [timeOut : TimeOuts, left : Nat]
             /\ age'[i] \in Nat /\ fired'[i] \in Nat
             /\ timers'[i].timeOut # 0 => timers'[i].left \in 1 .. timers'[i].timeOut
             /\ IF timers'[i].timeOut = 0 THEN fired'[i] = age'[i]
                ELSE age'[i] = fired'[i] * timers'[i].timeOut
                                 + (timers'[i].timeOut - timers'[i].left)
  <2>1. /\ timers[i] \in [timeOut : TimeOuts, left : Nat]
        /\ age[i] \in Nat /\ fired[i] \in Nat /\ timers[i].timeOut \in Nat
    BY Entries
  <2>2. /\ timers[i].timeOut # 0 => timers[i].left \in 1 .. timers[i].timeOut
        /\ IF timers[i].timeOut = 0 THEN fired[i] = age[i]
           ELSE age[i] = fired[i] * timers[i].timeOut + (timers[i].timeOut - timers[i].left)
    BY DEF IInv, TypeOK, Accounted
  <2>3. /\ timers'[i] = CountDown(timers[i]) /\ age'[i] = age[i] + 1
        /\ fired'[i] = IF Due(timers[i]) THEN fired[i] + 1 ELSE fired[i]
    BY <1>2
  <2>4. CASE timers[i].timeOut = 0
    <3>1. timers'[i] = timers[i] /\ fired'[i] = fired[i] + 1
      BY <2>3, <2>4 DEF CountDown, Due
    <3> QED
      BY <2>1, <2>2, <2>3, <2>4, <3>1
  <2>5. CASE timers[i].timeOut # 0 /\ timers[i].left = 1
    <3>1. /\ timers'[i] = [timers[i] EXCEPT !.left = timers[i].timeOut]
          /\ fired'[i] = fired[i] + 1
      BY <2>1, <2>3, <2>5 DEF CountDown, Due
    <3>2. timers'[i].timeOut = timers[i].timeOut /\ timers'[i].left = timers[i].timeOut
      BY <2>1, <3>1
    <3>3. (fired[i] + 1) * timers[i].timeOut = fired[i] * timers[i].timeOut + timers[i].timeOut
      BY <2>1
    <3>4. timers'[i] \in [timeOut : TimeOuts, left : Nat]
      BY <2>1, <3>1
    <3>5. fired[i] * timers[i].timeOut \in Nat
      BY <2>1
    <3> QED
      BY <2>1, <2>2, <2>3, <2>5, <3>1, <3>2, <3>3, <3>4, <3>5
  <2>6. CASE timers[i].timeOut # 0 /\ timers[i].left # 1
    <3>1. /\ timers'[i] = [timers[i] EXCEPT !.left = timers[i].left - 1]
          /\ fired'[i] = fired[i]
      BY <2>1, <2>3, <2>6 DEF CountDown, Due
    <3>2. timers'[i].timeOut = timers[i].timeOut /\ timers'[i].left = timers[i].left - 1
      BY <2>1, <3>1
    <3>3. timers'[i] \in [timeOut : TimeOuts, left : Nat]
      BY <2>1, <2>2, <2>6, <3>1
    <3>4. fired[i] * timers[i].timeOut \in Nat
      BY <2>1
    <3> QED
      BY <2>1, <2>2, <2>3, <2>6, <3>1, <3>2, <3>3, <3>4
  <2> QED
    BY <2>4, <2>5, <2>6
<1>4. /\ DOMAIN timers' = DOMAIN timers /\ DOMAIN age' = DOMAIN timers
      /\ DOMAIN fired' = DOMAIN timers
  BY <1>2
<1>5. /\ timers' \in Seq([timeOut : TimeOuts, left : Nat])
      /\ age' \in Seq(Nat) /\ fired' \in Seq(Nat)
  BY <1>1, <1>2, <1>3
<1> QED
  BY <1>3, <1>4, <1>5 DEF IInv, TypeOK, Accounted

\* The invariant holds of every reachable state.
LEMMA Invariance == Spec => []IInv
<1>1. Init => IInv
  BY DEF Init, Timer_Init, IInv, TypeOK, Accounted
<1>2. IInv /\ [Next]_vars => IInv'
  <2>1. CASE Next
    BY <2>1, AttachIInv, TickIInv DEF Next
  <2>2. CASE UNCHANGED vars
    BY <2>2 DEF vars, IInv, TypeOK, Accounted
  <2> QED
    BY <2>1, <2>2
<1> QED
  BY <1>1, <1>2, PTL DEF Spec

\* The count of ticks left never runs below one.
THEOREM TypeCorrect == Spec => []TypeOK
<1>1. IInv => TypeOK
  BY DEF IInv
<1> QED
  BY <1>1, Invariance, PTL

\* Every timer's handler is called exactly once per time-out, for any number
\* of timers and any ticks.
THEOREM TimersOnTime == Spec => []FiresOnTime
<1>1. ASSUME IInv
      PROVE  FiresOnTime
  <2> SUFFICES ASSUME NEW i \in DOMAIN timers
               PROVE  fired[i] = IF timers[i].timeOut = 0 THEN age[i]
                                 ELSE age[i] \div timers[i].timeOut
    BY DEF FiresOnTime
  <2>1. CASE timers[i].timeOut = 0
    BY <1>1, <2>1 DEF IInv, Accounted
  <2>2. CASE timers[i].timeOut # 0
    <3> DEFINE n == timers[i].timeOut
               r == timers[i].timeOut - timers[i].left
    <3>1. n \in Nat \ {0} /\ r \in 0 .. n - 1 /\ fired[i] \in Nat
      <4>1. timers[i].left \in 1 .. timers[i].timeOut
        BY <1>1, <2>2 DEF IInv, TypeOK
      <4>2. timers[i].timeOut \in Nat /\ fired[i] \in Nat
        BY <1>1, Entries
      <4> QED
        BY <2>2, <4>1, <4>2
    <3>2. age[i] = fired[i] * n + r
      BY <1>1, <2>2 DEF IInv, Accounted
    <3> HIDE DEF n, r
    <3>3. age[i] \div n = fired[i]
      BY <3>1, <3>2, Quotient
    <3> QED
      BY <2>2, <3>3 DEF n
  <2> QED
    BY <2>1, <2>2
<1>2. IInv => FiresOnTime
  BY <1>1
<1> QED
  BY <1>2, Invariance, PTL
=============================================================================
