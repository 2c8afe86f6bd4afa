-------------------------------- MODULE Timer --------------------------------
(***************************************************************************)
(* The software timers of src/timer.c.  Timer_Handler runs on every tick   *)
(* of the PIT with interrupts off and the timer's lock held, so one walk   *)
(* of the list is one step; Interrupts has the locking.                    *)
(***************************************************************************)
EXTENDS Integers, Sequences

CONSTANTS
  TimeOuts,   \* the time-outs drivers ask for, in ticks
  MaxTimers,  \* bound: timers attached
  MaxTicks    \* bound: ticks a timer lives to see

ASSUME TimerAssumption ==
  TimeOuts \subseteq Nat /\ MaxTimers \in Nat /\ MaxTicks \in Nat

VARIABLES
  timers,  \* m_psLastTimer's list, newest first: [timeOut, left]
  age,     \* history: ticks each timer has seen
  fired    \* history: times each timer's handler was called

vars == <<timers, age, fired>>

Timer_Init == timers = <<>> /\ age = <<>> /\ fired = <<>>

Timer_AttachTimerHandler(n) ==
  /\ Len(timers) < MaxTimers
  /\ timers' = <<[timeOut |-> n, left |-> n]>> \o timers
  /\ age' = <<0>> \o age
  /\ fired' = <<0>> \o fired

Due_OneEarly(t) == t.timeOut = 0 \/ t.left - 1 <= 1

\* A timer without a time-out is called on every tick, the others when the
\* ticks they had left are counted down to zero.
Due(t) == t.timeOut = 0 \/ t.left - 1 = 0

CountDown_NoReload(t) ==
  IF t.timeOut = 0 THEN t ELSE [t EXCEPT !.left = t.left - 1]

CountDown(t) ==
  IF t.timeOut = 0 THEN t
  ELSE [t EXCEPT !.left = IF Due(t) THEN t.timeOut ELSE t.left - 1]

Timer_Handler ==
  /\ \A i \in DOMAIN age : age[i] < MaxTicks
  /\ timers' = [i \in DOMAIN timers |-> CountDown(timers[i])]
  /\ age' = [i \in DOMAIN timers |-> age[i] + 1]
  /\ fired' = [i \in DOMAIN timers |-> IF Due(timers[i]) THEN fired[i] + 1 ELSE fired[i]]

Init == Timer_Init

Next == (\E n \in TimeOuts : Timer_AttachTimerHandler(n)) \/ Timer_Handler

Spec == Init /\ [][Next]_vars

----------------------------------------------------------------------------
(* Properties.                                                             *)

\* The ticks left of a timer with a time-out stay between one and its
\* time-out: the unsigned count is never decremented past zero.
TypeOK ==
  /\ timers \in Seq([timeOut : TimeOuts, left : Nat])
  /\ age \in Seq(Nat) /\ fired \in Seq(Nat)
  /\ DOMAIN age = DOMAIN timers /\ DOMAIN fired = DOMAIN timers
  /\ \A i \in DOMAIN timers :
       timers[i].timeOut # 0 => timers[i].left \in 1 .. timers[i].timeOut

\* Whatever timers are attached or fire in between, a timer with time-out n
\* has been called once for every n ticks since it was attached, and a timer
\* without one on every tick.
FiresOnTime ==
  \A i \in DOMAIN timers :
    LET n == timers[i].timeOut
    IN  fired[i] = IF n = 0 THEN age[i] ELSE age[i] \div n
==============================================================================
