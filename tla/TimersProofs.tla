---------------------------- MODULE TimersProofs -----------------------------
(***************************************************************************)
(* Proofs about Timers.                                                    *)
(*                                                                         *)
(* The argument for NoOversleep: as long as the run is not disturbed, the  *)
(* key of every timer in the queue is the time the timer ends, except for  *)
(* the timer that is run while its entry is where it was, and then it is   *)
(* the first.  So the entry that is put in again after the run is the only *)
(* one that was out of date, and when the loop goes to sleep the first key *)
(* is the earliest end.  A stopped timer ends never and is last.           *)
(*                                                                         *)
(* The argument for RunOncePerTime: NextEnd is beyond the time that was    *)
(* seen, and the other steps of a pass only put an end further off.        *)
(***************************************************************************)
EXTENDS Timers, TLAPS

USE TimersAssumption DEF TimersAssumption

-----------------------------------------------------------------------------
(* Arithmetic of the intervals.                                            *)

LEMMA Division ==
  ASSUME NEW a \in Nat, NEW i \in Nat, i > 0
  PROVE  /\ a \div i \in Nat
         /\ (a \div i) * i <= a
         /\ a < ((a \div i) + 1) * i
  OBVIOUS

(* The next end is after the time that was seen, by at most an interval.   *)
LEMMA NextEndLater ==
  ASSUME NEW end \in Nat, seen \in Nat, end <= seen, NEW i \in Nat, i > 0
  PROVE  /\ NextEnd(end, i) \in Nat
         /\ NextEnd(end, i) > seen
         /\ NextEnd(end, i) <= seen + i
<1>. DEFINE a == seen - end
            q == a \div i
<1>1. a \in Nat
  OBVIOUS
<1>2. q \in Nat /\ q * i <= a /\ a < (q + 1) * i
  BY <1>1, Division
<1>3. NextEnd(end, i) = end + (q + 1) * i
  BY DEF NextEnd
<1>4. (q + 1) * i = q * i + i /\ q * i \in Nat
  BY <1>2
<1>5. end + a = seen
  OBVIOUS
<1>. HIDE DEF a, q
<1>. QED
  BY <1>1, <1>2, <1>3, <1>4, <1>5

-----------------------------------------------------------------------------
(* The inductive invariant.                                                *)

Running == pc \in {"update", "slot"}

(* Whose turn it is.                                                       *)
Turn ==
  /\ seen <= now
  /\ Running => cur \in Timer
  /\ front => Running /\ cur \in attached

(* A timer is run once: after its slot it ends after the time seen.        *)
MovedOn == pc = "slot" \/ (pc = "update" /\ ~front) => finished[cur] > seen

OffEndsNever == \A t \in Timer : interval[t] = Off => finished[t] = Never

(* The queue is in order, but for the timer that is run.                   *)
InOrder ==
  ~disturbed =>
    /\ \A t \in attached : (front /\ t = cur) \/ key[t] = finished[t]
    /\ front => key[cur] <= now /\ \A t \in attached : key[cur] <= key[t]

IInv == TypeOK /\ Turn /\ MovedOn /\ OffEndsNever /\ InOrder /\ NoOversleep

-----------------------------------------------------------------------------
LEMMA IntervalFacts ==
  ASSUME NEW i \in Intervals, now \in 0..MaxTime
  PROVE  /\ i # Off
         /\ now + i \in 0..Never
         /\ now + i > now
  BY DEF Off, Never

LEMMA NeverFacts == Never \in Nat /\ MaxTime < Never
  BY DEF Never

-----------------------------------------------------------------------------
(* Types.                                                                  *)

LEMMA TypeInit == Init => TypeOK
<1>. SUFFICES ASSUME Init PROVE TypeOK
  OBVIOUS
<1>1. now \in 0..MaxTime /\ seen \in 0..MaxTime /\ deadline \in 0..Never
  BY NeverFacts DEF Init
<1>2. finished \in [Timer -> 0..Never] /\ key \in [Timer -> 0..Never]
  BY NeverFacts DEF Init
<1>3. interval \in [Timer -> Intervals \cup {Off}] /\ attached \subseteq alive
  BY DEF Init
<1>. QED
  BY <1>1, <1>2, <1>3 DEF Init, TypeOK

LEMMA SendType ==
  ASSUME TypeOK, cur \in Timer, Send
  PROVE  /\ NextEnd(finished[cur], interval[cur]) \in 0..Never
         /\ NextEnd(finished[cur], interval[cur]) > seen
<1>1. interval[cur] \in Nat /\ interval[cur] > 0 /\ interval[cur] <= MaxInterval
  <2>1. interval[cur] # Off
    BY DEF Send, Expired
  <2>2. interval[cur] \in Intervals \cup {Off}
    BY DEF TypeOK
  <2>3. interval[cur] \in Intervals
    BY <2>1, <2>2
  <2>4. interval[cur] \in 1..MaxInterval
    BY <2>3
  <2>. QED
    BY <2>4
<1>2. finished[cur] \in Nat /\ seen \in Nat /\ finished[cur] <= seen /\ seen <= MaxTime
  BY NeverFacts DEF TypeOK, Send, Expired
<1>3. NextEnd(finished[cur], interval[cur]) \in Nat
      /\ NextEnd(finished[cur], interval[cur]) > seen
      /\ NextEnd(finished[cur], interval[cur]) <= seen + interval[cur]
  BY <1>1, <1>2, NextEndLater
<1>. QED
  BY <1>1, <1>2, <1>3 DEF Never

LEMMA TypeStep == TypeOK /\ [Next]_vars => TypeOK'
<1>. SUFFICES ASSUME TypeOK, [Next]_vars PROVE TypeOK'
  OBVIOUS
<1>. USE NeverFacts
<1>1. CASE Tick
  BY <1>1 DEF TypeOK, Tick, timerVars, passVars
<1>2. ASSUME NEW t \in Timer, NEW i \in Intervals, Start(t, i) PROVE TypeOK'
  <2>1. now + i \in 0..Never
    BY IntervalFacts DEF TypeOK
  <2>2. finished' \in [Timer -> 0..Never] /\ key' \in [Timer -> 0..Never] /\ front' \in BOOLEAN
    BY <1>2, <2>1 DEF TypeOK, Start, Requeue
  <2>3. interval' \in [Timer -> Intervals \cup {Off}]
    BY <1>2 DEF TypeOK, Start
  <2>. QED
    BY <1>2, <2>2, <2>3 DEF TypeOK, Start
<1>3. ASSUME NEW t \in Timer, Stop(t) PROVE TypeOK'
  <2>2. finished' \in [Timer -> 0..Never] /\ key' \in [Timer -> 0..Never] /\ front' \in BOOLEAN
    BY <1>3 DEF TypeOK, Stop, Requeue
  <2>3. interval' \in [Timer -> Intervals \cup {Off}]
    BY <1>3 DEF TypeOK, Stop
  <2>. QED
    BY <1>3, <2>2, <2>3 DEF TypeOK, Stop
<1>4. ASSUME NEW t \in Timer, SetActive(t) PROVE TypeOK'
  <2>1. key' \in [Timer -> 0..Never]
    BY <1>4 DEF TypeOK, SetActive
  <2>2. disturbed' \in BOOLEAN
    BY <1>4 DEF SetActive
  <2>3. attached' \subseteq alive'
    BY <1>4 DEF TypeOK, SetActive, MayCall
  <2>. QED
    BY <1>4, <2>1, <2>2, <2>3 DEF TypeOK, SetActive, passVars
<1>5. ASSUME NEW t \in Timer, Detach(t) PROVE TypeOK'
  <2>1. key' \in [Timer -> 0..Never] /\ front' \in BOOLEAN
    BY <1>5 DEF TypeOK, Detach
  <2>. QED
    BY <1>5, <2>1 DEF TypeOK, Detach
<1>6. ASSUME NEW t \in Timer, Delete(t) PROVE TypeOK'
  <2>1. key' \in [Timer -> 0..Never] /\ finished' \in [Timer -> 0..Never] /\ front' \in BOOLEAN
    BY <1>6 DEF TypeOK, Delete
  <2>2. interval' \in [Timer -> Intervals \cup {Off}] /\ attached' \subseteq alive'
    BY <1>6 DEF TypeOK, Delete
  <2>. QED
    BY <1>6, <2>1, <2>2 DEF TypeOK, Delete
<1>7. CASE Process
  BY <1>7 DEF TypeOK, Process, timerVars, passVars
<1>8. ASSUME NEW t \in Timer, Expire(t) PROVE TypeOK'
  <2>1. served' \subseteq Timer
    BY <1>8 DEF TypeOK, Expire
  <2>. QED
    BY <1>8, <2>1 DEF TypeOK, Expire, timerVars
<1>9. CASE EndPass
  <2>1. deadline' \in 0..Never
    BY <1>9 DEF TypeOK, EndPass, Sleep
  <2>. QED
    BY <1>9, <2>1 DEF TypeOK, EndPass, Sleep, timerVars
<1>10. CASE Wake
  BY <1>10 DEF TypeOK, Wake, timerVars
<1>11. CASE Send
  <2>1. CASE cur \in Timer
    <3>1. finished' \in [Timer -> 0..Never]
      BY <1>11, <2>1, SendType DEF TypeOK, Send
    <3>2. served' \subseteq Timer
      BY <1>11, <2>1 DEF TypeOK, Send
    <3>. QED
      BY <1>11, <3>1, <3>2 DEF TypeOK, Send
  <2>2. cur \in Timer
    BY <1>11 DEF TypeOK, Send, Expired
  <2>. QED
    BY <2>1, <2>2
<1>12. CASE Return
  BY <1>12 DEF TypeOK, Return, timerVars, passVars
<1>13. CASE Throw
  BY <1>13 DEF TypeOK, Throw, timerVars
<1>14. CASE Reinsert
  <2>1. key' \in [Timer -> 0..Never]
    BY <1>14 DEF TypeOK, Reinsert, Refresh
  <2>. QED
    BY <1>14, <2>1 DEF TypeOK, Reinsert
<1>15. CASE UNCHANGED vars
  BY <1>15 DEF TypeOK, vars, timerVars, passVars
<1>. QED
  BY <1>1, <1>2, <1>3, <1>4, <1>5, <1>6, <1>7, <1>8, <1>9, <1>10, <1>11, <1>12, <1>13, <1>14, <1>15
     DEF Next, LoopStep, TimeOut

(* The timers and the queue keep their types; in particular a timer that   *)
(* was deleted is not in the queue (Timer::~Timer).                        *)
THEOREM TypeCorrect == Spec => []TypeOK
BY TypeInit, TypeStep, PTL DEF Spec

-----------------------------------------------------------------------------
(* The inductive invariant is one.                                         *)

LEMMA IInvInit == Init => IInv
<1>. SUFFICES ASSUME Init PROVE IInv
  OBVIOUS
<1>1. TypeOK
  BY TypeInit
<1>2. Turn /\ MovedOn
  BY DEF Init, Turn, MovedOn, Running
<1>3. OffEndsNever /\ InOrder /\ NoOversleep
  BY DEF Init, OffEndsNever, InOrder, NoOversleep, NeverOversleeps
<1>. QED
  BY <1>1, <1>2, <1>3 DEF IInv

(* The calls of the program change the timer t only, and wait for nobody.  *)
LEMMA StartStep ==
  ASSUME IInv, NEW t \in Timer, NEW i \in Intervals, Start(t, i)
  PROVE  IInv'
<1>. USE NeverFacts DEF IInv
<1>1. now + i \in 0..Never /\ now + i > now /\ i # Off /\ now \in Nat
  BY IntervalFacts DEF TypeOK
<1>2. TypeOK'
  BY TypeStep DEF Next
<1>3. Turn'
  BY <1>1 DEF TypeOK, Start, Requeue, Turn, Running, MayCall
<1>4. MovedOn'
  BY <1>1 DEF TypeOK, Start, Requeue, Turn, MovedOn, Running, MayCall
<1>5. OffEndsNever'
  BY <1>1 DEF TypeOK, Start, Requeue, OffEndsNever
<1>6. InOrder'
  BY <1>1 DEF TypeOK, Start, Requeue, Turn, InOrder, MayCall
<1>7. NoOversleep'
  BY DEF Start, MayCall, NoOversleep, NeverOversleeps
<1>. QED
  BY <1>2, <1>3, <1>4, <1>5, <1>6, <1>7

LEMMA StopStep ==
  ASSUME IInv, NEW t \in Timer, Stop(t)
  PROVE  IInv'
<1>. USE NeverFacts DEF IInv
<1>1. now \in Nat /\ now <= MaxTime /\ seen <= MaxTime
  BY DEF TypeOK
<1>2. TypeOK'
  BY TypeStep DEF Next
<1>3. Turn'
  BY <1>1 DEF TypeOK, Stop, Requeue, Turn, Running, MayCall
<1>4. MovedOn'
  BY <1>1 DEF TypeOK, Stop, Requeue, Turn, MovedOn, Running, MayCall
<1>5. OffEndsNever'
  BY <1>1 DEF TypeOK, Stop, Requeue, OffEndsNever
<1>6. InOrder'
  BY <1>1 DEF TypeOK, Stop, Requeue, Turn, InOrder, MayCall
<1>7. NoOversleep'
  BY DEF Stop, MayCall, NoOversleep, NeverOversleeps
<1>. QED
  BY <1>2, <1>3, <1>4, <1>5, <1>6, <1>7

LEMMA SetActiveStep ==
  ASSUME IInv, NEW t \in Timer, SetActive(t)
  PROVE  IInv'
<1>. USE NeverFacts DEF IInv
<1>2. TypeOK'
  BY TypeStep DEF Next
<1>3. Turn'
  BY DEF TypeOK, SetActive, Turn, Running, MayCall, passVars
<1>4. MovedOn'
  BY DEF TypeOK, SetActive, MovedOn, passVars
<1>5. OffEndsNever'
  BY DEF TypeOK, SetActive, OffEndsNever
<1>6. InOrder'
  <2>. SUFFICES ASSUME ~disturbed' PROVE InOrder'
    BY DEF InOrder
  <2>1. ~disturbed /\ (front => finished[t] >= key[cur])
    BY DEF TypeOK, SetActive, Turn
  <2>. QED
    BY <2>1 DEF TypeOK, SetActive, Turn, InOrder, passVars
<1>7. NoOversleep'
  BY DEF SetActive, MayCall, NoOversleep, NeverOversleeps
<1>. QED
  BY <1>2, <1>3, <1>4, <1>5, <1>6, <1>7

LEMMA DetachStep ==
  ASSUME IInv, NEW t \in Timer, Detach(t)
  PROVE  IInv'
<1>. USE NeverFacts DEF IInv
<1>2. TypeOK'
  BY TypeStep DEF Next
<1>3. Turn'
  BY DEF TypeOK, Detach, Turn, Running, MayCall
<1>4. MovedOn'
  BY DEF TypeOK, Detach, MovedOn, MayCall
<1>5. OffEndsNever'
  BY DEF TypeOK, Detach, OffEndsNever
<1>6. InOrder'
  BY DEF TypeOK, Detach, Turn, InOrder
<1>7. NoOversleep'
  BY DEF Detach, MayCall, NoOversleep, NeverOversleeps
<1>. QED
  BY <1>2, <1>3, <1>4, <1>5, <1>6, <1>7

LEMMA DeleteStep ==
  ASSUME IInv, NEW t \in Timer, Delete(t)
  PROVE  IInv'
<1>. USE NeverFacts DEF IInv
<1>1. seen \in Nat /\ seen <= MaxTime
  BY DEF TypeOK
<1>2. TypeOK'
  BY TypeStep DEF Next
<1>3. Turn'
  BY DEF TypeOK, Delete, Turn, Running, MayCall
<1>4. MovedOn'
  BY <1>1 DEF TypeOK, Delete, MovedOn, MayCall
<1>5. OffEndsNever'
  BY DEF TypeOK, Delete, OffEndsNever
<1>6. InOrder'
  BY DEF TypeOK, Delete, Turn, InOrder
<1>7. NoOversleep'
  BY DEF Delete, MayCall, NoOversleep, NeverOversleeps
<1>. QED
  BY <1>2, <1>3, <1>4, <1>5, <1>6, <1>7

(* The pass.                                                               *)
LEMMA ExpireStep ==
  ASSUME IInv, NEW t \in Timer, Expire(t)
  PROVE  IInv'
<1>. USE NeverFacts DEF IInv
<1>1. ~front
  BY DEF Turn, Running, Expire
<1>2. TypeOK'
  BY TypeStep DEF Next, LoopStep
<1>3. Turn'
  BY DEF TypeOK, Expire, First, Turn, Running, timerVars
<1>4. MovedOn'
  BY DEF Expire, MovedOn
<1>5. OffEndsNever'
  BY DEF Expire, OffEndsNever, timerVars
<1>6. InOrder'
  BY <1>1 DEF TypeOK, Expire, First, InOrder, timerVars
<1>7. NoOversleep'
  BY DEF Expire, NoOversleep, NeverOversleeps
<1>. QED
  BY <1>2, <1>3, <1>4, <1>5, <1>6, <1>7

(* The first key is the earliest end.                                      *)
LEMMA EndPassStep ==
  ASSUME IInv, EndPass
  PROVE  IInv'
<1>. USE NeverFacts DEF IInv
<1>1. ~front /\ pc = "pass" /\ pc' = "wait"
  BY DEF Turn, Running, EndPass, Sleep
<1>2. TypeOK'
  BY TypeStep DEF Next, LoopStep
<1>3. Turn'
  BY <1>1 DEF EndPass, Sleep, Turn, Running, timerVars
<1>4. MovedOn'
  BY <1>1 DEF MovedOn
<1>5. OffEndsNever'
  BY DEF EndPass, Sleep, OffEndsNever, timerVars
<1>6. InOrder'
  BY <1>1 DEF EndPass, Sleep, InOrder, timerVars
<1>7. NoOversleep'
  <2>. SUFFICES ASSUME ~disturbed, NEW u \in attached, interval[u] # Off
                PROVE  deadline' <= finished[u]
    BY DEF EndPass, Sleep, NoOversleep, NeverOversleeps, Started, timerVars
  <2>1. PICK t \in attached : First(t) /\ deadline' = finished[t]
    BY DEF EndPass, Sleep, OffEndsNever, TypeOK
  <2>2. key[t] = finished[t] /\ key[u] = finished[u]
    BY <1>1 DEF InOrder
  <2>3. key[t] <= key[u]
    BY <2>1 DEF First
  <2>. QED
    BY <2>1, <2>2, <2>3
<1>. QED
  BY <1>2, <1>3, <1>4, <1>5, <1>6, <1>7

LEMMA SendStep ==
  ASSUME IInv, Send
  PROVE  IInv'
<1>. USE NeverFacts DEF IInv
<1>1. cur \in Timer
  BY DEF Send, Turn, Running
<1>2. TypeOK'
  BY TypeStep DEF Next, LoopStep
<1>3. finished'[cur] > seen
  BY <1>1, SendType DEF TypeOK, Send
<1>4. front
  <2>1. finished[cur] <= seen /\ finished[cur] \in Nat /\ seen \in Nat
    BY <1>1 DEF TypeOK, Send, Expired
  <2>. QED
    BY <2>1 DEF MovedOn, Send, TypeOK
<1>5. Turn'
  BY DEF Send, Turn, Running
<1>6. MovedOn'
  BY <1>3 DEF Send, MovedOn
<1>7. OffEndsNever'
  BY <1>1 DEF TypeOK, Send, Expired, OffEndsNever
<1>8. InOrder'
  BY <1>1, <1>4 DEF TypeOK, Send, InOrder
<1>9. NoOversleep'
  BY DEF Send, NoOversleep, NeverOversleeps
<1>. QED
  BY <1>2, <1>5, <1>6, <1>7, <1>8, <1>9

(* The timer that was run was first; now its key is its end again.         *)
LEMMA ReinsertStep ==
  ASSUME IInv, Reinsert
  PROVE  IInv'
<1>. USE NeverFacts DEF IInv
<1>2. TypeOK'
  BY TypeStep DEF Next, LoopStep
<1>3. Turn'
  BY DEF Reinsert, Turn, Running
<1>4. MovedOn'
  BY DEF Reinsert, MovedOn
<1>5. OffEndsNever'
  BY DEF Reinsert, OffEndsNever
<1>6. InOrder'
  <2>. SUFFICES ASSUME ~disturbed, NEW u \in attached PROVE key'[u] = finished[u]
    BY DEF Reinsert, InOrder
  <2>1. PICK t \in attached : (front /\ First(cur) => t = cur) /\ key' = [key EXCEPT ![t] = finished[t]]
    BY DEF Reinsert, Refresh
  <2>2. front => First(cur)
    BY DEF InOrder, Turn, First
  <2>3. key[u] = finished[u] \/ u = t
    BY <2>1, <2>2 DEF InOrder
  <2>4. u \in Timer /\ t \in Timer
    BY DEF TypeOK
  <2>. QED
    BY <2>1, <2>3, <2>4 DEF TypeOK
<1>7. NoOversleep'
  BY DEF Reinsert, NoOversleep, NeverOversleeps
<1>. QED
  BY <1>2, <1>3, <1>4, <1>5, <1>6, <1>7

(* Steps that do not touch the timers.                                     *)
LEMMA OtherStep ==
  ASSUME IInv, Tick \/ Process \/ Wake \/ Return \/ Throw \/ UNCHANGED vars
  PROVE  IInv'
<1>. USE DEF IInv
<1>1. TypeOK'
  BY TypeStep DEF Next, LoopStep
<1>2. UNCHANGED timerVars /\ seen' = seen
  BY DEF Tick, Process, Wake, Return, Throw, vars, passVars
<1>3. now' >= now /\ now' \in Nat /\ now \in Nat
  BY DEF TypeOK, Tick, Process, Wake, Return, Throw, vars
<1>4. Turn'
  BY <1>2, <1>3 DEF TypeOK, Turn, Running, Tick, Process, Wake, Return, Throw, vars, timerVars, passVars
<1>5. MovedOn'
  BY <1>2 DEF MovedOn, Tick, Process, Wake, Return, Throw, vars, timerVars, passVars
<1>6. OffEndsNever'
  BY <1>2 DEF OffEndsNever, timerVars
<1>7. InOrder'
  <2>1. CASE Throw
    BY <2>1 DEF Throw, InOrder
  <2>2. CASE ~Throw
    BY <1>2, <1>3, <2>2 DEF TypeOK, Turn, InOrder, Tick, Process, Wake, Return, vars, timerVars, passVars
  <2>. QED
    BY <2>1, <2>2
<1>8. NoOversleep'
  BY <1>2 DEF NoOversleep, NeverOversleeps, Started, Tick, Process, Wake, Return, Throw, vars, timerVars, passVars
<1>. QED
  BY <1>1, <1>4, <1>5, <1>6, <1>7, <1>8

LEMMA IInvStep == IInv /\ [Next]_vars => IInv'
<1>. SUFFICES ASSUME IInv, [Next]_vars PROVE IInv'
  OBVIOUS
<1>1. ASSUME NEW t \in Timer, Stop(t) \/ SetActive(t) \/ Detach(t) \/ Delete(t) \/ Expire(t)
      PROVE  IInv'
  BY <1>1, StopStep, SetActiveStep, DetachStep, DeleteStep, ExpireStep
<1>2. ASSUME NEW t \in Timer, NEW i \in Intervals, Start(t, i) PROVE IInv'
  BY <1>2, StartStep
<1>3. CASE EndPass \/ Send \/ Reinsert
  BY <1>3, EndPassStep, SendStep, ReinsertStep
<1>4. CASE Tick \/ Process \/ Wake \/ Return \/ Throw \/ UNCHANGED vars
  BY <1>4, OtherStep
<1>. QED
  BY <1>1, <1>2, <1>3, <1>4 DEF Next, LoopStep, TimeOut

(* The loop never sleeps beyond the end of a timer, for any timers and any *)
(* intervals, unless a slot threw or attached a timer that had ended       *)
(* (TimerQueue::processTimers, Timer::update).                             *)
THEOREM NeverSleepsOverATimer == Spec => []NoOversleep
<1>1. IInv => NoOversleep
  BY DEF IInv
<1>. QED
  BY IInvInit, IInvStep, <1>1, PTL DEF Spec

-----------------------------------------------------------------------------
(* A timer is run once for a time.                                         *)

(* What was run for the time seen ends later, also when it was started or  *)
(* deleted since.                                                          *)
ServedLater == \A t \in served : finished[t] > seen

LEMMA ServedCall ==
  ASSUME IInv, ServedLater, NEW t \in Timer,
         (\E i \in Intervals : Start(t, i)) \/ Stop(t) \/ SetActive(t) \/ Detach(t) \/ Delete(t)
  PROVE  ServedLater'
<1>. USE NeverFacts DEF IInv
<1>1. now \in Nat /\ seen \in Nat /\ seen <= now /\ seen < Never
  BY DEF TypeOK, Turn
<1>2. CASE \E i \in Intervals : Start(t, i)
  <2>1. PICK i \in Intervals : Start(t, i)
    BY <1>2
  <2>2. now + i > seen
    BY <1>1, IntervalFacts DEF TypeOK
  <2>3. served' = served /\ seen' = seen /\ finished' = [finished EXCEPT ![t] = now + i]
    BY <2>1 DEF Start, Requeue
  <2>. QED
    BY <2>2, <2>3 DEF ServedLater, TypeOK
<1>3. CASE Stop(t)
  BY <1>1, <1>3 DEF Stop, Requeue, ServedLater, TypeOK
<1>4. CASE SetActive(t) \/ Detach(t)
  BY <1>4 DEF SetActive, Detach, passVars, ServedLater
<1>5. CASE Delete(t)
  BY <1>1, <1>5 DEF Delete, ServedLater, TypeOK
<1>. QED
  BY <1>2, <1>3, <1>4, <1>5

LEMMA ServedLoop ==
  ASSUME IInv, ServedLater, LoopStep \/ Tick \/ Wake \/ Throw \/ UNCHANGED vars
  PROVE  ServedLater'
<1>. USE DEF IInv
<1>1. CASE \E t \in Timer : Expire(t)
  BY <1>1 DEF Expire, ServedLater, timerVars
<1>2. CASE Send
  <2>1. cur \in Timer
    BY <1>2 DEF Send, Turn, Running
  <2>2. finished'[cur] > seen
    BY <1>2, <2>1, SendType DEF TypeOK, Send
  <2>3. served' = served \cup {cur} /\ seen' = seen
    BY <1>2 DEF Send
  <2>4. \A t \in served : t # cur => finished'[t] = finished[t]
    BY <1>2 DEF Send, TypeOK
  <2>. QED
    BY <2>2, <2>3, <2>4 DEF ServedLater
<1>3. CASE EndPass
  BY <1>3 DEF EndPass, Sleep, ServedLater, timerVars
<1>4. CASE Process \/ TimeOut \/ Return \/ Reinsert \/ Tick \/ Wake \/ Throw \/ UNCHANGED vars
  BY <1>4 DEF Process, TimeOut, Wake, Return, Reinsert, Tick, Throw, vars, timerVars, passVars, ServedLater
<1>. QED
  BY <1>1, <1>2, <1>3, <1>4 DEF LoopStep

(* A timer that was delayed by several intervals is run once for all of    *)
(* them, for any intervals and whatever its slot does to it: a timer that  *)
(* was run ends after the time that update() has seen (Timer::update).     *)
THEOREM RunsOncePerTime == Spec => RunOncePerTime
<1>1. Init => ServedLater
  BY DEF Init, ServedLater
<1>2. IInv /\ ServedLater /\ [Next]_vars => ServedLater'
  BY ServedCall, ServedLoop DEF Next
<1>3. IInv /\ ServedLater /\ [Next]_vars
        => [\A t \in Timer : pc = "update" /\ pc' = "slot" /\ t = cur => t \notin served]_vars
  <2>. SUFFICES ASSUME IInv, ServedLater, Next, pc = "update", pc' = "slot" PROVE cur \notin served
    OBVIOUS
  <2>1. Send
    BY DEF Next, LoopStep, Tick, MayCall, Start, Stop, SetActive, Detach, Delete, Process, Expire, EndPass,
           Sleep, TimeOut, Wake, Return, Reinsert, Throw
  <2>2. seen \in Nat /\ cur \in Timer /\ finished[cur] \in Nat /\ finished[cur] <= seen
    BY <2>1, NeverFacts DEF IInv, TypeOK, Turn, Running, Send, Expired
  <2>. QED
    BY <2>2 DEF ServedLater
<1>. QED
  BY IInvInit, IInvStep, <1>1, <1>2, <1>3, PTL DEF Spec, RunOncePerTime

=============================================================================
