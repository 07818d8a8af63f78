--------------------------- MODULE EventLoopProofs ---------------------------
(***************************************************************************)
(* Proofs about EventLoop for any number of threads, selectables, handles  *)
(* and events.  NoLostWake is not inductive: it speaks of the loop when it *)
(* goes to wait, and the wake may by then have been read from the pipe.    *)
(* Answered says where the knowledge of a wake is kept at every other      *)
(* moment of a round, and Ready why the loop does not sleep over a ready   *)
(* selectable.                                                             *)
(***************************************************************************)
EXTENDS EventLoop, FiniteSetTheorems, TLAPS

USE EventLoopAssumption DEF EventLoopAssumption

(* There is something the loop was told of.                                *)
Told == due > popped \/ exited

(* The wake is in the pipe or on its way there, or it was read and the     *)
(* loop will look at its queue, or does so, or has ended.                  *)
Answered ==
  \/ WakeComing
  \/ isWake /\ (pc \in {"batch", "handle"} \/ caller = "handle")
  \/ pc \in {"events", "event"} /\ caller = "loop"
  \/ pc = "finished"

(* processEvents knows its caller; epoll reports the pipe only if readable.*)
Frames ==
  /\ pc \notin {"events", "event"} => caller = "loop"
  /\ Wake \in batch => pipe

(* Selectables that are ready when the loop is about to wait.              *)
Ready ==
  /\ pc = "selectable" \/ caller = "selectable" => timeout = "zero"
  /\ pc = "wait" /\ avail # {} => WakeComing \/ timeout = "zero"

IInv == Frames /\ (Told => Answered) /\ Ready

-----------------------------------------------------------------------------

LEMMA InitTypeOK == Init => TypeOK
<1>. SUFFICES ASSUME Init PROVE TypeOK
  OBVIOUS
<1>1. pc \in Locations /\ caller \in {"loop", "out", "timer", "selectable", "handle"}
  BY DEF Init, Locations
<1>2. /\ pushed \in 0..MaxEvents /\ popped \in 0..pushed /\ due \in 0..pushed
      /\ expired \in 0..MaxExpired /\ n \in Nat /\ throws \in 0..MaxThrows
  BY DEF Init
<1>. QED
  BY <1>1, <1>2 DEF Init, TypeOK

(* Counting down the ready selectables never goes below zero.              *)
LEMMA TakeCounts ==
  ASSUME TypeOK, TakeSelectable
  PROVE  n' \in Nat
<1>1. avail # {} /\ avail \subseteq Selectables /\ n \in Nat
  BY DEF TypeOK, TakeSelectable
<1>2. IsFiniteSet(avail)
  BY <1>1, FS_Subset
<1>3. Cardinality(avail) \in Nat /\ Cardinality(avail) # 0
  BY <1>1, <1>2, FS_CardinalityType, FS_EmptySet
<1>4. n' = (IF n = 0 THEN Cardinality(avail) ELSE n) - 1
  BY DEF TakeSelectable
<1>. QED
  BY <1>1, <1>3, <1>4

(* Every step keeps the variables in their types.                          *)
LEMMA TypeStep == TypeOK /\ [Next]_vars => TypeOK'
<1>. SUFFICES ASSUME TypeOK, [Next]_vars PROVE TypeOK'
  OBVIOUS
<1>. USE DEF TypeOK
<1>1. ASSUME NEW t \in Threads \cup {Loop},
             \/ CommitEvent(t) \/ QueueEvent(t) \/ WakeUp(t) \/ Exit(t)
             \/ \E s \in Selectables : Post(t, s)
      PROVE  TypeOK'
  <2>1. CASE CommitEvent(t)
    BY <2>1 DEF CommitEvent, MayCall, ThenWake, roundVars
  <2>2. CASE QueueEvent(t)
    BY <2>2 DEF QueueEvent, wakeVars, roundVars
  <2>3. CASE WakeUp(t)
    BY <2>3 DEF WakeUp, roundVars
  <2>4. CASE Exit(t)
    BY <2>4 DEF Exit, ThenWake, roundVars
  <2>5. CASE \E s \in Selectables : Post(t, s)
    BY <2>5 DEF Post, ThenWake, queueVars, roundVars
  <2>. QED
    BY <1>1, <2>1, <2>2, <2>3, <2>4, <2>5
<1>2. ASSUME NEW t \in Threads, WriteWake(t) PROVE TypeOK'
  BY <1>2 DEF WriteWake, queueVars, roundVars
<1>3. ASSUME NEW s \in Selectables,
             SetReady(s) \/ \E H \in SUBSET Handles : CancelSelectable(s, H)
      PROVE  TypeOK'
  BY <1>3 DEF SetReady, CancelSelectable, queueVars, wakeVars, roundVars
<1>4. CASE Run
  BY <1>4 DEF Run, NewRound, queueVars, wakeVars, Locations
<1>5. CASE RunTimer
  BY <1>5 DEF RunTimer, queueVars, wakeVars, Locations, Callbacks
<1>6. CASE EndTimers
  BY <1>6 DEF EndTimers, queueVars, wakeVars, Locations
<1>7. CASE TakeSelectable
  <2>1. n' \in Nat
    BY <1>7, TakeCounts
  <2>2. avail' \subseteq Selectables
    BY <1>7 DEF TakeSelectable
  <2>. QED
    BY <1>7, <2>1, <2>2 DEF TakeSelectable, queueVars, wakeVars, Locations, Callbacks
<1>8. CASE EndSelectables
  BY <1>8 DEF EndSelectables, queueVars, wakeVars, Locations
<1>9. CASE Wait
  BY <1>9 DEF Wait, queueVars, wakeVars, Locations
<1>10. CASE DrainPipe
  BY <1>10 DEF DrainPipe, queueVars, Locations
<1>11. ASSUME NEW h \in Handles, RunHandle(h) PROVE TypeOK'
  BY <1>11 DEF RunHandle, queueVars, wakeVars, Locations, Callbacks
<1>12. CASE EndBatch
  BY <1>12 DEF EndBatch, NewRound, queueVars, wakeVars, Locations
<1>13. CASE ProcessEvents
  BY <1>13 DEF ProcessEvents, queueVars, wakeVars, Locations
<1>14. CASE PopEvent
  BY <1>14 DEF PopEvent, wakeVars, Locations, Callbacks
<1>15. CASE EndEvents
  BY <1>15 DEF EndEvents, LeaveEvents, NewRound, queueVars, wakeVars, Locations, Callbacks
<1>16. CASE Return
  BY <1>16 DEF Return, queueVars, wakeVars, Locations, Callbacks
<1>17. CASE Throw
  <2>1. pc' \in Locations /\ caller' \in {"loop", "out", "timer", "selectable", "handle"}
    BY <1>17 DEF Throw, Locations
  <2>2. expired' \in 0..MaxExpired /\ n' \in Nat /\ throws' \in 0..MaxThrows
    BY <1>17 DEF Throw
  <2>. QED
    BY <1>17, <2>1, <2>2 DEF Throw, queueVars, wakeVars
<1>18. CASE UNCHANGED vars
  BY <1>18 DEF vars
<1>. QED
  BY <1>1, <1>2, <1>3, <1>4, <1>5, <1>6, <1>7, <1>8, <1>9, <1>10, <1>11, <1>12,
     <1>13, <1>14, <1>15, <1>16, <1>17, <1>18 DEF Next, LoopStep

(* The variables keep their types, whoever throws.                         *)
THEOREM TypeCorrect == Spec => []TypeOK
  BY InitTypeOK, TypeStep, PTL DEF Spec

-----------------------------------------------------------------------------
(* NoLostWake, provided only timers and selectables throw.  When a handle  *)
(* or the receiver of an event throws it does not hold (for the latter see *)
(* run event_loop_throw).                                                  *)

LEMMA InitIInv == Init => IInv
  BY DEF Init, IInv, Frames, Told, Answered, Ready

(* A call from any thread leaves a wake behind.                            *)
LEMMA CallsAnswer ==
  ASSUME TypeOK, IInv, NEW t \in Threads \cup {Loop},
         \/ CommitEvent(t) \/ QueueEvent(t) \/ WakeUp(t) \/ Exit(t)
         \/ \E s \in Selectables : Post(t, s)
  PROVE  IInv'
<1>. USE DEF IInv, Frames, Ready
<1>1. ASSUME ThenWake(t) PROVE WakeComing' /\ (pipe => pipe')
  BY <1>1 DEF ThenWake, WakeComing
<1>2. CASE CommitEvent(t)
  BY <1>1, <1>2 DEF CommitEvent, Answered, roundVars
<1>3. CASE QueueEvent(t)
  BY <1>3 DEF QueueEvent, Told, Answered, WakeComing, wakeVars, roundVars
<1>4. CASE WakeUp(t)
  BY <1>4 DEF WakeUp, Answered, WakeComing, roundVars
<1>5. CASE Exit(t)
  BY <1>1, <1>5 DEF Exit, Answered, roundVars
<1>6. CASE \E s \in Selectables : Post(t, s)
  BY <1>1, <1>6 DEF Post, Answered, roundVars
<1>. QED
  BY <1>2, <1>3, <1>4, <1>5, <1>6

(* So does every step.                                                     *)
LEMMA IInvStep ==
  ASSUME MayThrow \subseteq {"timer", "selectable"}, TypeOK, IInv, [Next]_vars
  PROVE  IInv'
<1>. USE DEF IInv, Frames, Ready
<1>1. ASSUME NEW t \in Threads \cup {Loop},
             \/ CommitEvent(t) \/ QueueEvent(t) \/ WakeUp(t) \/ Exit(t)
             \/ \E s \in Selectables : Post(t, s)
      PROVE  IInv'
  BY <1>1, CallsAnswer
<1>2. ASSUME NEW t \in Threads, WriteWake(t) PROVE IInv'
  BY <1>2 DEF WriteWake, Told, Answered, WakeComing, queueVars, roundVars
<1>3. ASSUME NEW s \in Selectables,
             SetReady(s) \/ \E H \in SUBSET Handles : CancelSelectable(s, H)
      PROVE  IInv'
  <2>1. pc \in Callbacks \cup {"out"}
    BY <1>3 DEF SetReady, CancelSelectable, MayCall
  <2>2. CASE SetReady(s)
    BY <2>1, <2>2 DEF SetReady, Told, Answered, WakeComing, Callbacks,
                      queueVars, wakeVars, roundVars
  <2>3. CASE \E H \in SUBSET Handles : CancelSelectable(s, H)
    BY <2>1, <2>3 DEF CancelSelectable, Told, Answered, WakeComing, Callbacks,
                      queueVars, wakeVars
  <2>. QED
    BY <1>3, <2>2, <2>3
<1>. USE DEF Told, Answered, WakeComing
<1>4. CASE Run
  BY <1>4 DEF Run, NewRound, queueVars, wakeVars
<1>5. CASE RunTimer
  BY <1>5 DEF RunTimer, queueVars, wakeVars
<1>6. CASE EndTimers
  BY <1>6 DEF EndTimers, queueVars, wakeVars
<1>7. CASE TakeSelectable
  BY <1>7 DEF TakeSelectable, queueVars, wakeVars
<1>8. CASE EndSelectables
  BY <1>8 DEF EndSelectables, queueVars, wakeVars
<1>9. CASE Wait
  BY <1>9 DEF Wait, queueVars, wakeVars
<1>10. CASE DrainPipe
  BY <1>10 DEF DrainPipe, queueVars
<1>11. ASSUME NEW h \in Handles, RunHandle(h) PROVE IInv'
  BY <1>11 DEF RunHandle, queueVars, wakeVars
<1>12. CASE EndBatch
  BY <1>12 DEF EndBatch, NewRound, queueVars, wakeVars
<1>13. CASE ProcessEvents
  BY <1>13 DEF ProcessEvents, queueVars, wakeVars
<1>14. CASE PopEvent
  BY <1>14 DEF PopEvent, TypeOK, wakeVars
<1>15. CASE EndEvents
  BY <1>15 DEF EndEvents, LeaveEvents, NewRound, TypeOK, queueVars, wakeVars
<1>16. CASE Return
  BY <1>16 DEF Return, Callbacks, queueVars, wakeVars
<1>17. CASE Throw
  BY <1>17 DEF Throw, queueVars, wakeVars
<1>18. CASE UNCHANGED vars
  BY <1>18 DEF vars
<1>. QED
  BY <1>1, <1>2, <1>3, <1>4, <1>5, <1>6, <1>7, <1>8, <1>9, <1>10, <1>11, <1>12,
     <1>13, <1>14, <1>15, <1>16, <1>17, <1>18 DEF Next, LoopStep

(* The loop never sleeps over an event, an exit or a selectable it was     *)
(* woken for, whatever the threads do between their change and the wake.   *)
THEOREM WakesAreNotLost ==
  ASSUME MayThrow \subseteq {"timer", "selectable"}
  PROVE  Spec => []NoLostWake
<1>1. Init => TypeOK /\ IInv
  BY InitTypeOK, InitIInv
<1>2. TypeOK /\ IInv /\ [Next]_vars => (TypeOK /\ IInv)'
  BY TypeStep, IInvStep
<1>3. TypeOK /\ IInv => NoLostWake
  BY DEF IInv, Frames, Ready, Answered, Told, NoLostWake
<1>. QED
  BY <1>1, <1>2, <1>3, PTL DEF Spec
=============================================================================
