------------------------------ MODULE EventLoop ------------------------------
(***************************************************************************)
(* Pt::System::MainLoop on POSIX: the loop thread in MainLoopImpl::run and *)
(* the threads that commit events to it, wake it, post selectables and ask *)
(* it to exit.                                                             *)
(*                                                                         *)
(* Events are numbered in the order in which they enter the queue, so that *)
(* the queue is (popped + 1)..pushed.  Of the wake pipe only matters       *)
(* whether it holds a byte: WakePipe::isReady reads until it is empty.     *)
(* Selectables are their addresses: MainLoopImpl::_avail is sorted by them.*)
(* What epoll, the timers and the code of the user do is left open.        *)
(***************************************************************************)
EXTENDS Integers, FiniteSets

CONSTANTS Threads,      \* the threads of the program other than the loop's own
          Loop,         \* the thread that runs the loop
          Selectables,  \* addresses of the selectables, a set of numbers
          Handles,      \* I/O handles known to the selector, fewer than EVENTS_SIZE
          Wake,         \* the entry of the wake pipe among the events of epoll
          MaxEvents,    \* bound: the number of events ever committed
          MaxExpired,   \* bound: timers that expire in one round
          MaxThrows,    \* bound: exceptions that leave the loop
          MayThrow      \* environment: the kinds of callback that throw

(* The callbacks of the loop, by who is called.                            *)
Callbacks == {"timer", "selectable", "handle", "event"}

ASSUME EventLoopAssumption ==
  /\ Loop \notin Threads
  /\ Selectables \subseteq Nat
  /\ IsFiniteSet(Selectables)
  /\ Wake \notin Handles
  /\ MaxEvents \in Nat
  /\ MaxExpired \in Nat
  /\ MaxThrows \in Nat
  /\ MayThrow \subseteq Callbacks

VARIABLES pushed,    \* events that entered the queue
          popped,    \* events handed to eventReceived
          due,       \* events up to this one were released by a wake
          exited,    \* EventQueue::_exited
          avail,     \* MainLoopImpl::_avail
          pipe,      \* the wake pipe holds a byte
          waking,    \* threads between their change and its wake
          pc,        \* where the loop thread is
          caller,    \* who called processEvents: waitNext ("loop") or a callback
          expired,   \* timers processTimers still has to run
          n,         \* n of waitNext
          timeout,   \* timeout of waitNext
          batch,     \* SelectorImpl::_events, the first _avail of them
          isWake,    \* isWake of processAvail
          throws     \* exceptions so far

vars == <<pushed, popped, due, exited, avail, pipe, waking, pc, caller, expired,
          n, timeout, batch, isWake, throws>>

queueVars == <<pushed, popped, due, exited>>
wakeVars == <<pipe, waking>>
roundVars == <<pc, caller, expired, n, timeout, batch, isWake, throws>>

Init ==
  /\ pushed = 0 /\ popped = 0 /\ due = 0
  /\ exited = FALSE
  /\ avail = {}
  /\ pipe = FALSE /\ waking = {}
  /\ pc = "out" /\ caller = "loop"
  /\ expired = 0 /\ n = 0 /\ timeout = "infinite"
  /\ batch = {} /\ isWake = FALSE
  /\ throws = 0

-----------------------------------------------------------------------------
(* Calls to the loop, from any thread.  In the loop thread they come from  *)
(* a callback or from the code around run().                               *)

MayCall(t) == IF t = Loop THEN pc \in Callbacks \cup {"out"} ELSE t \notin waking

(* The call has changed the loop and now wakes it.  Another thread may be  *)
(* interrupted in between; the loop thread cannot interrupt itself.        *)
ThenWake(t) ==
  /\ pipe' = (pipe \/ t = Loop)
  /\ waking' = IF t = Loop THEN waking ELSE waking \cup {t}

(* Mutant: the event is queued but the loop is not woken.                  *)
CommitEventSilently(t) ==
  /\ MayCall(t)
  /\ pushed < MaxEvents
  /\ pushed' = pushed + 1
  /\ due' = pushed + 1
  /\ UNCHANGED <<popped, exited, avail, wakeVars, roundVars>>

CommitEvent(t) ==
  /\ MayCall(t)
  /\ pushed < MaxEvents
  /\ pushed' = pushed + 1
  /\ due' = pushed + 1
  /\ ThenWake(t)
  /\ UNCHANGED <<popped, exited, avail, roundVars>>

QueueEvent(t) ==
  /\ MayCall(t)
  /\ pushed < MaxEvents
  /\ pushed' = pushed + 1
  /\ UNCHANGED <<popped, due, exited, avail, wakeVars, roundVars>>

(* wake() after queueEvent(): everything queued so far is released.        *)
WakeUp(t) ==
  /\ MayCall(t)
  /\ due' = pushed
  /\ pipe' = TRUE
  /\ UNCHANGED <<pushed, popped, exited, avail, waking, roundVars>>

Exit(t) ==
  /\ MayCall(t)
  /\ exited' = TRUE
  /\ ThenWake(t)
  /\ UNCHANGED <<pushed, popped, due, avail, roundVars>>

Post(t, s) ==
  /\ MayCall(t)
  /\ avail' = avail \cup {s}
  /\ ThenWake(t)
  /\ UNCHANGED <<queueVars, roundVars>>

(* WakePipe::wake at the end of a call of another thread.                  *)
WriteWake(t) ==
  /\ t \in waking
  /\ waking' = waking \ {t}
  /\ pipe' = TRUE
  /\ UNCHANGED <<queueVars, avail, roundVars>>

(* EventLoop::setReady and Selectable::cancel, used by the code that runs  *)
(* in the loop.  What epoll reported of the handles H of a cancelled       *)
(* selectable is forgotten.                                                *)
SetReady(s) ==
  /\ MayCall(Loop)
  /\ avail' = avail \cup {s}
  /\ UNCHANGED <<queueVars, wakeVars, roundVars>>

CancelSelectable(s, H) ==
  /\ MayCall(Loop)
  /\ avail' = avail \ {s}
  /\ batch' = batch \ H
  /\ UNCHANGED <<queueVars, wakeVars, pc, caller, expired, n, timeout, isWake, throws>>

-----------------------------------------------------------------------------
(* The loop thread: rounds of waitNext.                                    *)

NewRound ==
  /\ pc' = "timers"
  /\ caller' = "loop"
  /\ expired' \in 0..MaxExpired
  /\ n' = 0

Run ==
  /\ pc = "out"
  /\ NewRound
  /\ UNCHANGED <<queueVars, avail, wakeVars, timeout, batch, isWake, throws>>

RunTimer ==
  /\ pc = "timers"
  /\ expired > 0
  /\ expired' = expired - 1
  /\ pc' = "timer"
  /\ UNCHANGED <<queueVars, avail, wakeVars, caller, n, timeout, batch, isWake, throws>>

(* processTimers is over and says how long to wait at most.                *)
EndTimers ==
  /\ pc = "timers"
  /\ expired = 0
  /\ pc' = "avail"
  /\ timeout' \in {"finite", "infinite"}
  /\ UNCHANGED <<queueVars, avail, wakeVars, caller, expired, n, batch, isWake, throws>>

(* Mutant: n is not set to the number of selectables that were ready.      *)
TakeSelectableUncounted ==
  /\ pc = "avail"
  /\ avail # {}
  /\ \E s \in avail :
       /\ \A r \in avail : r <= s
       /\ avail' = avail \ {s}
  /\ n' = n - 1
  /\ timeout' = "zero"
  /\ pc' = "selectable"
  /\ UNCHANGED <<queueVars, wakeVars, caller, expired, batch, isWake, throws>>

(* The last of the sorted vector is taken out and run.                     *)
TakeSelectable ==
  /\ pc = "avail"
  /\ avail # {}
  /\ \E s \in avail :
       /\ \A r \in avail : r <= s
       /\ avail' = avail \ {s}
  /\ n' = (IF n = 0 THEN Cardinality(avail) ELSE n) - 1
  /\ timeout' = "zero"
  /\ pc' = "selectable"
  /\ UNCHANGED <<queueVars, wakeVars, caller, expired, batch, isWake, throws>>

EndSelectables ==
  /\ pc = "avail"
  /\ avail = {}
  /\ pc' = "wait"
  /\ UNCHANGED <<queueVars, avail, wakeVars, caller, expired, n, timeout, batch, isWake, throws>>

(* waitForWake: what an exception left over goes first, else epoll_wait    *)
(* returns the wake pipe if it is readable and any other handles.          *)
Wait ==
  /\ pc = "wait"
  /\ IF batch # {}
     THEN batch' = batch
     ELSE \E H \in SUBSET Handles :
            /\ batch' = H \cup (IF pipe THEN {Wake} ELSE {})
            /\ batch' # {} \/ timeout # "infinite"
  /\ isWake' = FALSE
  /\ pc' = "batch"
  /\ UNCHANGED <<queueVars, avail, wakeVars, caller, expired, n, timeout, throws>>

DrainPipe ==
  /\ pc = "batch"
  /\ Wake \in batch
  /\ batch' = batch \ {Wake}
  /\ isWake' = pipe
  /\ pipe' = FALSE
  /\ UNCHANGED <<queueVars, avail, waking, pc, caller, expired, n, timeout, throws>>

RunHandle(h) ==
  /\ pc = "batch"
  /\ h \in batch
  /\ batch' = batch \ {h}
  /\ pc' = "handle"
  /\ UNCHANGED <<queueVars, avail, wakeVars, caller, expired, n, timeout, isWake, throws>>

EndBatch ==
  /\ pc = "batch"
  /\ batch = {}
  /\ IF isWake
     THEN pc' = "events" /\ UNCHANGED <<caller, expired, n>>
     ELSE NewRound
  /\ UNCHANGED <<queueVars, avail, wakeVars, timeout, batch, isWake, throws>>

-----------------------------------------------------------------------------
(* EventQueue::processEvents, called by waitNext or by EventLoop::         *)
(* processEvents.                                                          *)

ProcessEvents ==
  /\ pc \in {"out", "timer", "selectable", "handle"}
  /\ caller' = pc
  /\ pc' = "events"
  /\ UNCHANGED <<queueVars, avail, wakeVars, expired, n, timeout, batch, isWake, throws>>

PopEvent ==
  /\ pc = "events"
  /\ popped < pushed
  /\ ~exited
  /\ popped' = popped + 1
  /\ pc' = "event"
  /\ UNCHANGED <<pushed, due, exited, avail, wakeVars, caller, expired, n, timeout,
                 batch, isWake, throws>>

(* Back to waitNext, which ends the loop if exit was asked for, or to the  *)
(* callback that called processEvents.                                     *)
LeaveEvents ==
  IF caller # "loop"
  THEN pc' = caller /\ caller' = "loop" /\ UNCHANGED <<expired, n>>
  ELSE IF exited
       THEN pc' = "finished" /\ UNCHANGED <<caller, expired, n>>
       ELSE NewRound

(* Mutant: processEvents delivers one event and returns.                   *)
EndEventsEarly ==
  /\ pc = "events"
  /\ popped = pushed \/ exited \/ popped > 0
  /\ LeaveEvents
  /\ UNCHANGED <<queueVars, avail, wakeVars, timeout, batch, isWake, throws>>

EndEvents ==
  /\ pc = "events"
  /\ popped = pushed \/ exited
  /\ LeaveEvents
  /\ UNCHANGED <<queueVars, avail, wakeVars, timeout, batch, isWake, throws>>

-----------------------------------------------------------------------------
(* A callback ends.                                                        *)

(* Mutant: selectables are run until none is ready, not n of them.         *)
ReturnUntilIdle ==
  /\ pc \in Callbacks
  /\ pc' = CASE pc = "timer" -> "timers"
             [] pc = "selectable" -> "avail"
             [] pc = "handle" -> "batch"
             [] pc = "event" -> "events"
  /\ UNCHANGED <<queueVars, avail, wakeVars, caller, expired, n, timeout, batch, isWake, throws>>

Return ==
  /\ pc \in Callbacks
  /\ pc' = CASE pc = "timer" -> "timers"
             [] pc = "selectable" -> IF n = 0 THEN "wait" ELSE "avail"
             [] pc = "handle" -> "batch"
             [] pc = "event" -> "events"
  /\ UNCHANGED <<queueVars, avail, wakeVars, caller, expired, n, timeout, batch, isWake, throws>>

(* The exception leaves run() or processEvents(); the locals of waitNext   *)
(* are gone, the events of epoll not handled yet are kept.                 *)
Throw ==
  /\ pc \in MayThrow
  /\ throws < MaxThrows
  /\ throws' = throws + 1
  /\ pc' = "out"
  /\ caller' = "loop"
  /\ expired' = 0
  /\ n' = 0
  /\ isWake' = FALSE
  /\ UNCHANGED <<queueVars, avail, wakeVars, timeout, batch>>

LoopStep ==
  \/ Run \/ RunTimer \/ EndTimers
  \/ TakeSelectable \/ EndSelectables
  \/ Wait \/ DrainPipe \/ EndBatch
  \/ \E h \in Handles : RunHandle(h)
  \/ PopEvent \/ EndEvents
  \/ Return

Next ==
  \/ LoopStep
  \/ ProcessEvents
  \/ Throw
  \/ \E t \in Threads : WriteWake(t)
  \/ \E t \in Threads \cup {Loop} :
       \/ CommitEvent(t) \/ QueueEvent(t) \/ WakeUp(t) \/ Exit(t)
       \/ \E s \in Selectables : Post(t, s)
  \/ \E s \in Selectables :
       SetReady(s) \/ \E H \in SUBSET Handles : CancelSelectable(s, H)

Spec == Init /\ [][Next]_vars

(* The loop thread is scheduled, callbacks return in the end however often *)
(* they call processEvents, an application runs its loop (again), and a    *)
(* thread that began to wake the loop gets to do so.                       *)
FairSpec ==
  /\ Spec
  /\ WF_vars(LoopStep)
  /\ SF_vars(Return)
  /\ SF_vars(Run)
  /\ \A t \in Threads : WF_vars(WriteWake(t))

-----------------------------------------------------------------------------
(* Properties                                                              *)

Locations == Callbacks \cup {"out", "timers", "avail", "wait", "batch", "events", "finished"}

TypeOK ==
  /\ pushed \in 0..MaxEvents
  /\ popped \in 0..pushed
  /\ due \in 0..pushed
  /\ exited \in BOOLEAN
  /\ avail \subseteq Selectables
  /\ pipe \in BOOLEAN
  /\ waking \subseteq Threads
  /\ pc \in Locations
  /\ caller \in {"loop", "out", "timer", "selectable", "handle"}
  /\ expired \in 0..MaxExpired
  /\ n \in Nat
  /\ timeout \in {"zero", "finite", "infinite"}
  /\ batch \subseteq Handles \cup {Wake}
  /\ isWake \in BOOLEAN
  /\ throws \in 0..MaxThrows

(* Somebody has woken the loop, or is about to.                            *)
WakeComing == pipe \/ waking # {}

(* The loop never sleeps over work it was told of: when it goes to wait,   *)
(* a released event, a request to exit or a ready selectable comes with a  *)
(* wake that will end the wait (pushEvent and exit change the queue before *)
(* they wake; processEvents looks at it after the pipe was drained).       *)
NoLostWake ==
  pc = "wait" /\ batch = {} =>
    /\ due > popped \/ exited => WakeComing
    /\ avail # {} => WakeComing \/ timeout = "zero"

(* Every event released by a wake is delivered, unless the loop exits.     *)
EventsDelivered ==
  \A e \in 1..MaxEvents : (due >= e) ~> (popped >= e \/ exited)

(* run() returns after exit(), also when selectables keep posting          *)
(* themselves (`for fairness reasons check only as many selectables as     *)
(* were ready in the first place', MainLoopImpl::waitNext).                *)
ExitEndsRun == exited ~> (pc = "finished")
=============================================================================
