------------------------------- MODULE Timers --------------------------------
(***************************************************************************)
(* Pt::System::Timer and TimerQueue: the timers attached to a loop, the    *)
(* pass of TimerQueue::processTimers over those that expired, and what the *)
(* slots connected to timeout() do meanwhile: start, stop, attach, detach  *)
(* and delete any timer, also the one that is being run, or throw.         *)
(*                                                                         *)
(* The queue is a multimap from the time a timer ends to the timer.  Here  *)
(* key[t] is the key under which the timer was put in; finished[t] is what *)
(* the timer itself says, and runs ahead of the key while it is run.  The  *)
(* timer at the front is one of those with the smallest key.               *)
(***************************************************************************)
EXTENDS Integers

CONSTANTS Timer,       \* the timers of the program
          None,        \* no timer is run
          Intervals,   \* the intervals start() is called with
          MaxInterval, \* the longest of them
          MaxTime,     \* bound: the clock stops
          SlotsMay     \* what slots do besides: "attach" timers, "throw"

ASSUME TimersAssumption ==
  /\ None \notin Timer
  /\ Intervals \subseteq 1..MaxInterval
  /\ MaxInterval \in Nat
  /\ MaxTime \in Nat
  /\ SlotsMay \subseteq {"attach", "throw"}

Off == 0                             \* interval of a stopped timer
Never == MaxTime + MaxInterval + 1   \* later than any timer ends

VARIABLES now,       \* the clock
          alive,     \* timers not deleted
          attached,  \* timers in the queue
          interval,  \* Timer::_interval
          finished,  \* Timer::_finished
          key,       \* the keys of the queue
          pc,        \* where the loop thread is
          cur,       \* the timer that is run
          front,     \* its entry in the queue is still the one it had
          seen,      \* the time update() was called with
          served,    \* history: the timers run for that time
          deadline,  \* how long the loop may sleep
          disturbed  \* history: the timer that was run may be left behind

timerVars == <<alive, attached, interval, finished, key>>
passVars == <<cur, front, seen, served, deadline>>
vars == <<now, timerVars, pc, passVars, disturbed>>

Init ==
  /\ now = 0
  /\ alive = Timer
  /\ attached = {}
  /\ interval = [t \in Timer |-> Off]
  /\ finished = [t \in Timer |-> Never]
  /\ key = [t \in Timer |-> Never]
  /\ pc = "idle"
  /\ cur = None /\ front = FALSE /\ seen = 0
  /\ served = {}
  /\ deadline = Never
  /\ disturbed = FALSE

(* Time passes, in slots too.                                              *)
Tick ==
  /\ now < MaxTime
  /\ now' = now + 1
  /\ UNCHANGED <<timerVars, pc, passVars, disturbed>>

-----------------------------------------------------------------------------
(* The calls of the program, in a slot or in another callback of the loop. *)

MayCall(t) == pc \in {"idle", "slot"} /\ t \in alive

(* A timer whose end changed is taken out of the queue and put in again.   *)
Requeue(t, end) ==
  /\ finished' = [finished EXCEPT ![t] = end]
  /\ key' = IF t \in attached THEN [key EXCEPT ![t] = end] ELSE key
  /\ front' = (front /\ t \notin attached \cap {cur})

(* Mutant: the timer keeps its place in the queue.                         *)
StartInPlace(t, i) ==
  /\ MayCall(t)
  /\ interval' = [interval EXCEPT ![t] = i]
  /\ finished' = [finished EXCEPT ![t] = now + i]
  /\ UNCHANGED <<now, alive, attached, key, pc, cur, front, seen, served, deadline, disturbed>>

Start(t, i) ==
  /\ MayCall(t)
  /\ interval' = [interval EXCEPT ![t] = i]
  /\ Requeue(t, now + i)
  /\ UNCHANGED <<now, alive, attached, pc, cur, seen, served, deadline, disturbed>>

Stop(t) ==
  /\ MayCall(t)
  /\ interval' = [interval EXCEPT ![t] = Off]
  /\ Requeue(t, Never)
  /\ UNCHANGED <<now, alive, attached, pc, cur, seen, served, deadline, disturbed>>

(* A timer that ended long ago gets in front of the one that is run.       *)
SetActive(t) ==
  /\ MayCall(t)
  /\ pc = "idle" \/ "attach" \in SlotsMay
  /\ t \notin attached
  /\ attached' = attached \cup {t}
  /\ key' = [key EXCEPT ![t] = finished[t]]
  /\ disturbed' = (disturbed \/ (front /\ finished[t] < key[cur]))
  /\ UNCHANGED <<now, alive, interval, finished, pc, passVars>>

Detach(t) ==
  /\ MayCall(t)
  /\ attached' = attached \ {t}
  /\ key' = [key EXCEPT ![t] = Never]
  /\ front' = (front /\ t # cur)
  /\ UNCHANGED <<now, alive, interval, finished, pc, cur, seen, served, deadline, disturbed>>

(* Mutant: the entry stays in the queue.                                   *)
DeleteKeepsEntry(t) ==
  /\ MayCall(t)
  /\ alive' = alive \ {t}
  /\ interval' = [interval EXCEPT ![t] = Off]
  /\ finished' = [finished EXCEPT ![t] = Never]
  /\ UNCHANGED <<now, attached, key, pc, passVars, disturbed>>

(* ~Timer detaches; the sentry of update() hears of it.  Nothing is left.  *)
Delete(t) ==
  /\ MayCall(t)
  /\ alive' = alive \ {t}
  /\ attached' = attached \ {t}
  /\ interval' = [interval EXCEPT ![t] = Off]
  /\ finished' = [finished EXCEPT ![t] = Never]
  /\ key' = [key EXCEPT ![t] = Never]
  /\ front' = (front /\ t # cur)
  /\ UNCHANGED <<now, pc, cur, seen, served, deadline, disturbed>>

-----------------------------------------------------------------------------
(* The loop thread: a pass of processTimers, then the wait.                *)

First(t) == t \in attached /\ \A u \in attached : key[t] <= key[u]

Process ==
  /\ pc = "idle"
  /\ pc' = "pass"
  /\ UNCHANGED <<now, timerVars, passVars, disturbed>>

Expire(t) ==
  /\ pc = "pass"
  /\ First(t)
  /\ interval[t] # Off
  /\ now >= finished[t]
  /\ cur' = t
  /\ front' = TRUE
  /\ seen' = now
  /\ served' = IF now = seen THEN served ELSE {}
  /\ pc' = "update"
  /\ UNCHANGED <<now, timerVars, deadline, disturbed>>

Sleep(end) ==
  /\ deadline' = end
  /\ pc' = "wait"
  /\ UNCHANGED <<now, timerVars, cur, front, seen, served, disturbed>>

(* Mutant: the time to sleep is not computed.                              *)
EndPassForever ==
  /\ pc = "pass"
  /\ \A t \in attached : ~(First(t) /\ interval[t] # Off /\ now >= finished[t])
  /\ Sleep(Never)

(* Nothing is attached, the first timer is stopped or it has not expired.  *)
EndPass ==
  /\ pc = "pass"
  /\ \/ attached = {} /\ Sleep(Never)
     \/ \E t \in attached : First(t) /\ interval[t] = Off /\ Sleep(Never)
     \/ \E t \in attached : First(t) /\ interval[t] # Off /\ now < finished[t] /\ Sleep(finished[t])

(* The wait may end for other reasons than the time.                       *)
Wake ==
  /\ pc = "wait"
  /\ pc' = "idle"
  /\ deadline' = Never
  /\ UNCHANGED <<now, timerVars, cur, front, seen, served, disturbed>>

TimeOut == now >= deadline /\ Wake

-----------------------------------------------------------------------------
(* Timer::update(now).                                                     *)

Expired == cur \in alive /\ interval[cur] # Off /\ seen >= finished[cur]

(* The first end after the time seen: intervals that were missed are       *)
(* skipped.                                                                *)
NextEnd(end, i) == end + ((seen - end) \div i + 1) * i

(* Mutant: the timer moves on by one interval.                             *)
SendUnskipped ==
  /\ pc = "update"
  /\ Expired
  /\ finished' = [finished EXCEPT ![cur] = @ + interval[cur]]
  /\ served' = served \cup {cur}
  /\ pc' = "slot"
  /\ UNCHANGED <<now, alive, attached, interval, key, cur, front, seen, deadline, disturbed>>

Send ==
  /\ pc = "update"
  /\ Expired
  /\ finished' = [finished EXCEPT ![cur] = NextEnd(@, interval[cur])]
  /\ served' = served \cup {cur}
  /\ pc' = "slot"
  /\ UNCHANGED <<now, alive, attached, interval, key, cur, front, seen, deadline, disturbed>>

Return ==
  /\ pc = "slot"
  /\ pc' = "update"
  /\ UNCHANGED <<now, timerVars, passVars, disturbed>>

(* The exception leaves processTimers before the timer is put in again.    *)
Throw ==
  /\ pc = "slot"
  /\ "throw" \in SlotsMay
  /\ disturbed' = TRUE
  /\ pc' = "idle"
  /\ cur' = None
  /\ front' = FALSE
  /\ UNCHANGED <<now, timerVars, seen, served, deadline>>

Refresh(t) == key' = [key EXCEPT ![t] = finished[t]]

(* Mutant: the timer that was run is not put in again.                     *)
ReinsertNothing ==
  /\ pc = "update"
  /\ ~Expired
  /\ cur' = None
  /\ front' = FALSE
  /\ pc' = "pass"
  /\ UNCHANGED <<now, timerVars, seen, served, deadline, disturbed>>

(* What is first in the queue now is put in again.  The timer that was run *)
(* is before those put in later under the same key.                        *)
Reinsert ==
  /\ pc = "update"
  /\ ~Expired
  /\ \/ \E t \in attached : First(t) /\ (front /\ First(cur) => t = cur) /\ Refresh(t)
     \/ attached = {} /\ UNCHANGED key
  /\ cur' = None
  /\ front' = FALSE
  /\ pc' = "pass"
  /\ UNCHANGED <<now, alive, attached, interval, finished, seen, served, deadline, disturbed>>

LoopStep == Process \/ (\E t \in Timer : Expire(t)) \/ EndPass \/ TimeOut \/ Send \/ Return \/ Reinsert

Next ==
  \/ Tick
  \/ \E t \in Timer :
       \/ \E i \in Intervals : Start(t, i)
       \/ Stop(t) \/ SetActive(t) \/ Detach(t) \/ Delete(t)
  \/ LoopStep
  \/ Wake
  \/ Throw

Spec == Init /\ [][Next]_vars

(* The loop thread is scheduled, slots return, and a wait ends when its    *)
(* time is over; it need not end before.                                   *)
FairSpec == Spec /\ WF_vars(LoopStep)

-----------------------------------------------------------------------------
(* Properties                                                              *)

TypeOK ==
  /\ now \in 0..MaxTime
  /\ alive \subseteq Timer
  /\ attached \subseteq alive
  /\ interval \in [Timer -> Intervals \cup {Off}]
  /\ finished \in [Timer -> 0..Never]
  /\ key \in [Timer -> 0..Never]
  /\ pc \in {"idle", "pass", "update", "slot", "wait"}
  /\ cur \in Timer \cup {None}
  /\ front \in BOOLEAN
  /\ seen \in 0..MaxTime
  /\ served \subseteq Timer
  /\ deadline \in 0..Never
  /\ disturbed \in BOOLEAN

Started(t) == t \in attached /\ interval[t] # Off

(* The loop never sleeps beyond the end of a timer.                        *)
NeverOversleeps == pc = "wait" => \A t \in Timer : Started(t) => deadline <= finished[t]

(* The same, whatever slots do to the queue while processTimers goes over  *)
(* it, as long as they neither throw nor attach a timer whose end is       *)
(* before that of the one that is run.                                     *)
NoOversleep == ~disturbed => NeverOversleeps

(* A timer that was delayed by several intervals is run once for all of    *)
(* them: update() never runs a timer twice for the same time.              *)
RunOncePerTime ==
  [][\A t \in Timer : pc = "update" /\ pc' = "slot" /\ t = cur => t \notin served]_vars

(* A timer that ended is run, unless it is stopped, restarted or detached, *)
(* under the condition of NoOversleep.                                     *)
Due(t) == Started(t) /\ finished[t] <= now
DueTimersRun == \A t \in Timer : Due(t) ~> (~Due(t) \/ disturbed)
=============================================================================
