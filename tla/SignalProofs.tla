---------------------------- MODULE SignalProofs ----------------------------
(***************************************************************************)
(* The inductive invariant of Signal and what follows from it, for any     *)
(* number of slots, connections and nested sends.                          *)
(***************************************************************************)
EXTENDS Signal, TLAPS

(* While the signal lives, the sentries on the stack form one chain that   *)
(* starts at the innermost send, and every one of them guards its own      *)
(* iterators.                                                              *)
SentryChain ==
  alive =>
    /\ sentry = depth
    /\ sending <=> depth > 0
    /\ \A k \in 1..depth :
         /\ frame[k].signal
         /\ frame[k].next = k - 1
         /\ frame[k].it \in list
         /\ frame[k].last \in list
         /\ frame[k].it <= frame[k].last

(* Closed entries stay in the list only while a send will clean them up.   *)
DeferredClose ==
  /\ alive /\ ~dirty => list = valid
  /\ alive /\ depth = 0 => ~dirty

(* Only the innermost send runs, the others wait in the slots they called, *)
(* and each of them has reached some entry.                                *)
StackShape ==
  \A k \in Levels :
    /\ k < depth => frame[k].pc = "slot"
    /\ k = depth => frame[k].pc # "idle"
    /\ k <= depth => frame[k].it # 0
    /\ k > depth => frame[k] = NoFrame

(* A destroyed signal has no connections, and no sentry refers to it when  *)
(* it was deleted under one send at most.                                  *)
Destroyed ==
  ~alive =>
    /\ list = {}
    /\ valid = {}
    /\ DeleteDepth <= 1 => \A k \in 1..depth : ~frame[k].signal

IInv == TypeOK /\ SentryChain /\ DeferredClose /\ StackShape /\ Destroyed

-----------------------------------------------------------------------------
LEMMA InitInv == Init => IInv
<1> SUFFICES ASSUME Init PROVE IInv
  OBVIOUS
<1> USE SignalAssumption DEF SignalAssumption, Init
<1>1. TypeOK
  <2>1. NoFrame \in FrameRec
    BY DEF NoFrame, FrameRec
  <2>2. frame \in [Levels -> FrameRec] /\ slotOf \in [Conns -> Slots \cup {NoSlot}]
    BY <2>1
  <2>3. opened \in 0..MaxConn /\ sentry \in 0..MaxDepth /\ depth \in 0..MaxDepth
    OBVIOUS
  <2>4. list \in SUBSET (1..opened) /\ valid \in SUBSET list
    OBVIOUS
  <2>5. alive \in BOOLEAN /\ sending \in BOOLEAN /\ dirty \in BOOLEAN
    OBVIOUS
  <2> QED BY ONLY <2>2, <2>3, <2>4, <2>5 DEF TypeOK
<1>2. SentryChain /\ DeferredClose /\ Destroyed
  BY DEF SentryChain, DeferredClose, Destroyed
<1>3. StackShape
  BY DEF StackShape, NoFrame, Levels
<1> QED BY <1>1, <1>2, <1>3 DEF IInv

(* Steps of the user that leave the call stack alone.                      *)
LEMMA CloseInv ==
  ASSUME IInv, alive, NEW C \in SUBSET list, Close(C),
         UNCHANGED <<alive, opened, slotOf, sending, sentry, depth, frame>>
  PROVE  IInv'
<1> USE SignalAssumption DEF SignalAssumption, IInv
<1>1. TypeOK'
  BY DEF TypeOK, Close
<1>2. SentryChain'
  BY DEF SentryChain, Close, TypeOK
<1>3. DeferredClose'
  BY DEF DeferredClose, Close, TypeOK, SentryChain
<1>4. StackShape' /\ Destroyed'
  BY DEF StackShape, Destroyed
<1> QED BY <1>1, <1>2, <1>3, <1>4

LEMMA ConnectInv ==
  ASSUME IInv, NEW s \in Slots, Connect(s)
  PROVE  IInv'
<1> USE SignalAssumption DEF SignalAssumption, IInv
<1>1. TypeOK'
  BY DEF TypeOK, Connect, Conns
<1>2. SentryChain'
  BY DEF SentryChain, Connect, TypeOK
<1>3. DeferredClose' /\ StackShape' /\ Destroyed'
  BY DEF DeferredClose, Connect, StackShape, Destroyed
<1> QED BY <1>1, <1>2, <1>3

LEMMA AssignInv ==
  ASSUME IInv, NEW n \in 0..MaxConn, NEW ss \in [1..n -> Slots], Assign(n, ss)
  PROVE  IInv'
<1> USE SignalAssumption DEF SignalAssumption, IInv
<1>1. TypeOK'
  <2>1. slotOf' \in [Conns -> Slots \cup {NoSlot}]
    BY DEF TypeOK, Assign, Conns
  <2>2. opened' \in 0..MaxConn /\ list' \in SUBSET (1..opened') /\ valid' \in SUBSET list'
    BY DEF TypeOK, Assign
  <2> QED BY <2>1, <2>2 DEF TypeOK, Assign
<1>2. SentryChain'
  BY DEF SentryChain, Assign, TypeOK
<1>3. DeferredClose'
  BY DEF DeferredClose, Assign, TypeOK, SentryChain
<1>4. StackShape' /\ Destroyed'
  BY DEF Assign, StackShape, Destroyed
<1> QED BY <1>1, <1>2, <1>3, <1>4

LEMMA DeleteInv ==
  ASSUME IInv, DeleteSignal
  PROVE  IInv'
<1> USE SignalAssumption DEF SignalAssumption, IInv, DeleteSignal
<1>1. CASE sentry = 0
  <2>1. frame' = frame /\ depth = 0
    BY <1>1 DEF DetachAll, SentryChain
  <2>2. TypeOK'
    BY <2>1 DEF TypeOK
  <2>3. SentryChain' /\ DeferredClose' /\ StackShape' /\ Destroyed'
    BY <2>1 DEF SentryChain, DeferredClose, StackShape, Destroyed, TypeOK
  <2> QED BY <2>2, <2>3
<1>2. CASE sentry # 0
  <2> DEFINE g == [it |-> frame[depth].it, last |-> frame[depth].last,
                   signal |-> FALSE, next |-> 0, pc |-> frame[depth].pc]
  <2>1. sentry = depth /\ depth \in Levels
    BY <1>2 DEF SentryChain, TypeOK, Levels
  <2>2. frame' = [frame EXCEPT ![depth] = g]
    BY <1>2, <2>1 DEF DetachAll
  <2>3. frame[depth] \in FrameRec
    BY <2>1 DEF TypeOK
  <2>4. g \in FrameRec
    BY <2>3 DEF FrameRec
  <2>4a. ~g.signal
    BY <2>3 DEF FrameRec
  <2>4b. g.pc = frame[depth].pc /\ g.it = frame[depth].it
    BY <2>3 DEF FrameRec
  <2> HIDE DEF g
  <2>5. frame' \in [Levels -> FrameRec]
    BY <2>1, <2>2, <2>4 DEF TypeOK
  <2>6. TypeOK'
    <3>1. alive' \in BOOLEAN /\ sending' \in BOOLEAN /\ dirty' \in BOOLEAN
      OBVIOUS
    <3>2. list' \in SUBSET (1..opened') /\ valid' \in SUBSET list'
      OBVIOUS
    <3> QED BY <2>5, <3>1, <3>2 DEF TypeOK
  <2>7. \A k \in Levels : frame'[k] = IF k = depth THEN g ELSE frame[k]
    BY <2>1, <2>2 DEF TypeOK
  <2>8. StackShape'
    <3> SUFFICES ASSUME NEW k \in Levels
                 PROVE  /\ k < depth => frame'[k].pc = "slot"
                        /\ k = depth => frame'[k].pc # "idle"
                        /\ k <= depth => frame'[k].it # 0
                        /\ k > depth => frame'[k] = NoFrame
      BY DEF StackShape
    <3>1. CASE k = depth
      BY <3>1, <2>1, <2>4b, <2>7 DEF StackShape, Levels
    <3>2. CASE k # depth
      BY <3>2, <2>7 DEF StackShape
    <3> QED BY <3>1, <3>2
  <2>9. DeleteDepth <= 1 => \A k \in 1..depth' : ~frame'[k].signal
    BY <2>1, <2>4a, <2>7 DEF Levels
  <2>10. SentryChain' /\ DeferredClose' /\ Destroyed'
    BY <2>9 DEF SentryChain, DeferredClose, Destroyed
  <2> QED BY <2>6, <2>8, <2>10
<1> QED BY <1>1, <1>2

LEMMA SendInv ==
  ASSUME IInv, Send
  PROVE  IInv'
<1> USE SignalAssumption DEF SignalAssumption, IInv
<1>1. PICK first \in list, last \in list :
        /\ IsFirst(first, list)
        /\ IsLast(last, list)
        /\ frame' = [frame EXCEPT ![depth + 1] =
                       [it |-> first, last |-> last, signal |-> TRUE,
                        next |-> sentry, pc |-> "visit"]]
  BY DEF Send
<1>2. depth + 1 \in Levels /\ first <= last
  BY <1>1 DEF TypeOK, Send, Levels, IsFirst
<1>3. TypeOK'
  <2>1. [it |-> first, last |-> last, signal |-> TRUE, next |-> sentry, pc |-> "visit"]
          \in FrameRec
    BY DEF TypeOK, FrameRec
  <2> QED BY <1>1, <1>2, <2>1 DEF TypeOK, Send, Levels
<1>4. SentryChain'
  <2>1. /\ depth' = depth + 1 /\ sentry' = depth' /\ sending' /\ alive' /\ list' = list
        /\ sentry = depth
    BY DEF Send, SentryChain
  <2>2. \A k \in 1..depth' :
          frame'[k] = IF k = depth + 1
                      THEN [it |-> first, last |-> last, signal |-> TRUE,
                            next |-> sentry, pc |-> "visit"]
                      ELSE frame[k]
    BY <1>1, <1>2, <2>1 DEF TypeOK, Levels
  <2> QED BY <1>2, <2>1, <2>2 DEF SentryChain, Send, TypeOK
<1>5. StackShape'
  <2>1. depth > 0 => frame[depth].pc = "slot"
    BY DEF Send, UserRuns, TypeOK
  <2> QED BY <1>1, <1>2, <2>1 DEF StackShape, Send, TypeOK, Levels
<1>6. DeferredClose' /\ Destroyed'
  BY DEF DeferredClose, Destroyed, Send, TypeOK
<1> QED BY <1>3, <1>4, <1>5, <1>6

(* Steps of a send that only change its own activation record.             *)
LEMMA VisitReturnInv ==
  ASSUME IInv, Visit \/ Return
  PROVE  IInv'
<1> USE SignalAssumption DEF SignalAssumption, IInv
<1>1. PICK p \in {"slot", "check"} : frame' = [frame EXCEPT ![depth].pc = p]
  BY DEF Visit, Return
<1>2. depth \in Levels /\ UNCHANGED <<alive, opened, list, valid, slotOf, sending, dirty, sentry, depth>>
  BY DEF Visit, Return, TypeOK, Levels
<1>3. TypeOK'
  BY <1>1, <1>2 DEF TypeOK, FrameRec
<1>4. SentryChain'
  BY <1>1, <1>2 DEF SentryChain, TypeOK, Levels, FrameRec
<1>5. StackShape'
  BY <1>1, <1>2 DEF StackShape, TypeOK, Levels, FrameRec
<1>6. DeferredClose' /\ Destroyed'
  BY <1>1, <1>2 DEF DeferredClose, Destroyed, TypeOK, Levels, FrameRec
<1> QED BY <1>3, <1>4, <1>5, <1>6

LEMMA AdvanceInv ==
  ASSUME IInv, Advance
  PROVE  IInv'
<1> USE SignalAssumption DEF SignalAssumption, IInv
<1>1. PICK c \in list :
        /\ IsFirst(c, {d \in list : frame[depth].it < d})
        /\ frame' = [frame EXCEPT ![depth] = [@ EXCEPT !.it = c, !.pc = "visit"]]
  BY DEF Advance
<1>2. depth \in Levels /\ UNCHANGED <<alive, opened, list, valid, slotOf, sending, dirty, sentry, depth>>
  BY DEF Advance, TypeOK, Levels
<1>3. c <= frame[depth].last
  <2>1. frame[depth].last \in list /\ frame[depth].it <= frame[depth].last
        /\ frame[depth].it # frame[depth].last
    BY <1>2 DEF Advance, SentryChain, Levels
  <2>2. frame[depth].it \in Int /\ frame[depth].last \in Int
    BY <1>2 DEF TypeOK, FrameRec
  <2> QED BY <1>1, <2>1, <2>2 DEF IsFirst
<1>4. TypeOK'
  <2>1. frame[depth] \in FrameRec /\ c \in 0..MaxConn
    BY <1>2 DEF TypeOK
  <2>2. [frame[depth] EXCEPT !.it = c, !.pc = "visit"] \in FrameRec
    BY <2>1 DEF FrameRec
  <2> QED BY <1>1, <1>2, <2>2 DEF TypeOK
<1>5. SentryChain'
  BY <1>1, <1>2, <1>3 DEF SentryChain, TypeOK, Levels, FrameRec
<1>6. StackShape'
  BY <1>1, <1>2 DEF StackShape, TypeOK, Levels, FrameRec
<1>7. DeferredClose' /\ Destroyed'
  BY <1>1, <1>2 DEF DeferredClose, Destroyed, Advance
<1> QED BY <1>4, <1>5, <1>6, <1>7

LEMMA LeaveInv ==
  ASSUME IInv, depth > 0, Leave, frame[depth].signal => alive
  PROVE  IInv'
<1> USE SignalAssumption DEF SignalAssumption, IInv
<1>1. /\ depth \in Levels /\ depth' = depth - 1
      /\ frame' = [frame EXCEPT ![depth] = NoFrame]
      /\ UNCHANGED <<alive, opened, valid, slotOf>>
  BY DEF Leave, TypeOK, Levels
<1>2. StackShape'
  BY <1>1 DEF StackShape, TypeOK, Levels
<1>3. NoFrame \in FrameRec
  BY DEF NoFrame, FrameRec
<1>4. CASE frame[depth].signal
  <2>1. alive /\ Detach(depth) /\ frame[depth].next = depth - 1
    BY <1>1, <1>4 DEF Leave, SentryChain, Levels
  <2>2. TypeOK'
    <3>1. sentry' \in 0..MaxDepth /\ depth' \in 0..MaxDepth
      BY <1>1, <2>1 DEF TypeOK, Detach
    <3>2. list' \in SUBSET (1..opened) /\ valid \in SUBSET list'
          /\ sending' \in BOOLEAN /\ dirty' \in BOOLEAN
      BY <2>1 DEF TypeOK, Detach
    <3>3. frame' \in [Levels -> FrameRec]
      BY <1>1, <1>3 DEF TypeOK
    <3> QED BY <1>1, <3>1, <3>2, <3>3 DEF TypeOK
  <2>3. SentryChain'
    <3>1. sentry' = depth' /\ alive' /\ (depth' > 0 => list' = list)
      BY <1>1, <2>1 DEF Detach, TypeOK
    <3>2. sending
      BY <1>1, <2>1 DEF SentryChain, Levels
    <3>3. sending' <=> depth' > 0
      <4>1. sending' = (sending /\ depth - 1 # 0)
        BY <2>1 DEF Detach
      <4>2. depth - 1 # 0 <=> depth' > 0
        BY <1>1 DEF Levels
      <4> QED BY <3>2, <4>1, <4>2
    <3>4. \A k \in 1..depth' : k \in 1..depth /\ frame'[k] = frame[k] /\ list' = list
      BY <1>1, <3>1 DEF TypeOK, Levels
    <3> QED BY <2>1, <3>1, <3>3, <3>4 DEF SentryChain
  <2>4. DeferredClose' /\ Destroyed'
    BY <1>1, <2>1 DEF DeferredClose, Destroyed, Detach, TypeOK, Levels
  <2> QED BY <1>2, <2>2, <2>3, <2>4
<1>5. CASE ~frame[depth].signal
  <2>1. ~alive /\ UNCHANGED <<sending, sentry, list, dirty>>
    BY <1>1, <1>5 DEF Leave, SentryChain, Levels
  <2>2. TypeOK'
    BY <1>1, <1>3, <2>1 DEF TypeOK, Levels
  <2>3. SentryChain' /\ DeferredClose'
    BY <1>1, <2>1 DEF SentryChain, DeferredClose
  <2>4. Destroyed'
    BY <1>1, <2>1 DEF Destroyed, TypeOK, Levels
  <2> QED BY <1>2, <2>2, <2>3, <2>4
<1> QED BY <1>4, <1>5

LEMMA NextInv == IInv /\ [Next]_vars => IInv'
<1> SUFFICES ASSUME IInv, [Next]_vars PROVE IInv'
  OBVIOUS
<1>1. ASSUME NEW s \in Slots, Connect(s) PROVE IInv'
  BY <1>1, ConnectInv
<1>2. ASSUME NEW s \in Slots, DisconnectSlot(s) PROVE IInv'
  BY <1>2, CloseInv, Target(s) \in SUBSET list DEF DisconnectSlot, Target
<1>3. ASSUME NEW s \in Slots, DestroyReceiver(s) PROVE IInv'
  <2>1. {c \in valid : slotOf[c] = s} \in SUBSET list
    BY DEF IInv, TypeOK
  <2> QED BY <1>3, <2>1, CloseInv DEF DestroyReceiver
<1>4. ASSUME NEW c \in Conns, CloseConnection(c) PROVE IInv'
  <2>1. {c} \in SUBSET list
    BY <1>4 DEF IInv, TypeOK, CloseConnection
  <2> QED BY <1>4, <2>1, CloseInv DEF CloseConnection
<1>5. ASSUME NEW n \in 0..MaxConn, NEW ss \in [1..n -> Slots], Assign(n, ss) PROVE IInv'
  BY <1>5, AssignInv
<1>6. CASE Disconnect
  BY <1>6, CloseInv DEF Disconnect
<1>7. CASE DeleteSignal
  BY <1>7, DeleteInv
<1>8. CASE Send
  BY <1>8, SendInv
<1>9. CASE Visit \/ Return
  BY <1>9, VisitReturnInv
<1>10. CASE Advance
  BY <1>10, AdvanceInv
<1>11. CASE Finish
  BY <1>11, LeaveInv DEF Finish
<1>12. CASE Throw
  BY <1>12, LeaveInv DEF Throw
<1>13. CASE UNCHANGED vars
  BY <1>13 DEF IInv, TypeOK, SentryChain, DeferredClose, StackShape, Destroyed, vars
<1> QED
  BY <1>1, <1>2, <1>3, <1>4, <1>5, <1>6, <1>7, <1>8, <1>9, <1>10, <1>11, <1>12, <1>13
  DEF Next

(* The inductive invariant holds of every state of every execution.        *)
THEOREM Invariance == Spec => []IInv
  BY InitInv, NextInv, PTL DEF Spec

(* The variables of SignalBase, its connections and its sentries keep      *)
(* their types, whatever the slots do.                                     *)
THEOREM TypeCorrect == Spec => []TypeOK
  BY Invariance, PTL DEF IInv

(* When no send is in progress, no closed connection is left in the list   *)
(* and no clean-up is pending (Sentry::detach), for any nesting of sends.  *)
THEOREM CleanWhenIdle == Spec => []CleanBetweenSends
<1>1. IInv => CleanBetweenSends
  BY DEF IInv, SentryChain, DeferredClose, CleanBetweenSends
<1> QED BY <1>1, Invariance, PTL

(* The list iterators of every send in progress stay valid, as long as the *)
(* signal is not deleted from within a nested send.                        *)
THEOREM IteratorsStayValid ==
  ASSUME DeleteDepth <= 1
  PROVE  Spec => []IteratorsValid
<1>1. IInv => IteratorsValid
  <2> SUFFICES ASSUME IInv PROVE IteratorsValid
    OBVIOUS
  <2>1. CASE alive
    BY <2>1 DEF IInv, SentryChain, IteratorsValid
  <2>2. CASE ~alive
    BY <2>2 DEF IInv, Destroyed, IteratorsValid
  <2> QED BY <2>1, <2>2
<1> QED BY <1>1, Invariance, PTL

-----------------------------------------------------------------------------
(* Signal implements Multicast: every step is a step of Multicast or       *)
(* changes none of its variables.                                          *)

LEMMA InitRefines == Init => Abstract!Init
<1> SUFFICES ASSUME Init PROVE Abstract!Init
  OBVIOUS
<1>1. \A k \in Levels : Todo(k) = {} /\ Callee(k) = 0
  BY DEF Init, Todo, Callee, NoFrame
<1> QED BY <1>1 DEF Init, Abstract!Init, Abstract!Levels, Levels

(* The user runs in Signal only when it runs in Multicast.                 *)
LEMMA UserRunsRefines ==
  ASSUME IInv, UserRuns
  PROVE  Abstract!UserRuns
<1> USE SignalAssumption DEF SignalAssumption
<1>1. CASE depth = 0
  BY <1>1 DEF Abstract!UserRuns
<1>2. CASE depth # 0
  <2>1. depth \in Levels /\ frame[depth].pc = "slot"
    BY <1>2 DEF IInv, TypeOK, Levels, UserRuns
  <2>2. Callee(depth) # 0
    BY <2>1 DEF IInv, StackShape, Callee, Levels
  <2> QED BY <2>1, <2>2 DEF Abstract!UserRuns
<1> QED BY <1>1, <1>2

(* Closing and opening connections, while all iterators stay put.          *)
LEMMA ChangeRefines ==
  ASSUME IInv, UserRuns,
         NEW closed \in SUBSET Conns, NEW n \in 0..MaxConn,
         opened + n <= MaxConn, opened' = opened + n,
         valid' = (valid \ closed) \cup ((opened + 1)..(opened + n)),
         UNCHANGED depth,
         \A k \in Levels : /\ frame'[k].it = frame[k].it
                           /\ frame'[k].last = frame[k].last
                           /\ frame'[k].pc = frame[k].pc,
         n > 0 => alive
  PROVE  Abstract!Change
<1> USE SignalAssumption DEF SignalAssumption
<1>1. \A k \in Levels : Callee(k)' = Callee(k)
  BY DEF Callee
<1>2. ASSUME NEW k \in Levels, n > 0 PROVE frame[k].last <= opened
  <2>1. CASE k <= depth
    <3>1. frame[k].last \in list
      BY <1>2, <2>1 DEF IInv, SentryChain, Levels
    <3>2. \A c \in list : c <= opened
      BY DEF IInv, TypeOK
    <3> QED BY <3>1, <3>2
  <2>2. CASE k > depth
    BY <2>2 DEF IInv, StackShape, TypeOK, NoFrame, Levels
  <2> QED BY <2>1, <2>2 DEF IInv, TypeOK, Levels
<1>3. ASSUME NEW k \in Levels PROVE Todo(k)' = Todo(k) \ closed
  <2>1. frame[k] \in FrameRec /\ opened \in Nat
    BY DEF IInv, TypeOK
  <2>2. \A c \in (opened + 1)..(opened + n) : ~(c <= frame[k].last)
    BY <1>2, <2>1 DEF FrameRec
  <2> QED BY <2>2 DEF Todo
<1>4. Abstract!UserRuns
  BY UserRunsRefines
<1>5. [k \in Levels |-> Todo(k)]' = [k \in Levels |-> [j \in Levels |-> Todo(j)][k] \ closed]
  BY <1>3
<1> QED BY <1>1, <1>4, <1>5 DEF Abstract!Change, Abstract!Conns, Abstract!Levels, Conns, Levels

LEMMA CloseRefines ==
  ASSUME IInv, UserRuns, NEW C \in SUBSET Conns, Close(C),
         UNCHANGED <<alive, opened, slotOf, sending, sentry, depth, frame>>
  PROVE  Abstract!Change
<1>1. opened' = opened + 0 /\ opened + 0 <= MaxConn /\ 0 \in 0..MaxConn
  BY SignalAssumption DEF SignalAssumption, IInv, TypeOK
<1>2. (opened + 1)..(opened + 0) = {}
  BY DEF IInv, TypeOK
<1>3. valid' = (valid \ C) \cup ((opened + 1)..(opened + 0))
  BY <1>2 DEF Close
<1> QED BY <1>1, <1>3, ChangeRefines

LEMMA ConnectRefines ==
  ASSUME IInv, NEW s \in Slots, Connect(s)
  PROVE  Abstract!Change
<1> USE SignalAssumption DEF SignalAssumption, Connect
<1>1. opened + 1 <= MaxConn /\ 1 \in 0..MaxConn
  BY DEF IInv, TypeOK
<1>2. valid' = (valid \ {}) \cup ((opened + 1)..(opened + 1))
  BY DEF IInv, TypeOK
<1> QED BY <1>1, <1>2, {} \in SUBSET Conns, ChangeRefines

LEMMA AssignRefines ==
  ASSUME IInv, NEW n \in 0..MaxConn, NEW ss \in [1..n -> Slots], Assign(n, ss)
  PROVE  Abstract!Change
<1>1. valid' = (valid \ Conns) \cup ((opened + 1)..(opened + n))
  <2>1. valid \ Conns = {}
    BY SignalAssumption DEF SignalAssumption, IInv, TypeOK, Conns
  <2> QED BY <2>1 DEF Assign
<1> QED BY <1>1, ChangeRefines DEF Assign

LEMMA DeleteRefines ==
  ASSUME IInv, DeleteSignal
  PROVE  Abstract!Change
<1> USE SignalAssumption DEF SignalAssumption, DeleteSignal
<1>1. opened' = opened + 0 /\ opened + 0 <= MaxConn /\ 0 \in 0..MaxConn
  BY DEF IInv, TypeOK
<1>2. valid' = (valid \ Conns) \cup ((opened + 1)..(opened + 0))
  BY DEF IInv, TypeOK, Conns
<1>3. sentry = depth
  BY DEF IInv, SentryChain
<1>4. \A k \in Levels : /\ frame'[k].it = frame[k].it
                        /\ frame'[k].last = frame[k].last
                        /\ frame'[k].pc = frame[k].pc
  BY <1>3 DEF DetachAll, IInv, TypeOK
<1> QED BY <1>1, <1>2, <1>4, ChangeRefines

LEMMA SendRefines ==
  ASSUME IInv, Send
  PROVE  Abstract!Begin
<1> USE SignalAssumption DEF SignalAssumption
<1>1. PICK first \in list, last \in list :
        /\ IsFirst(first, list)
        /\ IsLast(last, list)
        /\ frame' = [frame EXCEPT ![depth + 1] =
                       [it |-> first, last |-> last, signal |-> TRUE,
                        next |-> sentry, pc |-> "visit"]]
  BY DEF Send
<1>2. depth + 1 \in Levels
  BY DEF IInv, TypeOK, Send, Levels
<1>3. \A k \in Levels :
        frame'[k] = IF k = depth + 1
                    THEN [it |-> first, last |-> last, signal |-> TRUE,
                          next |-> sentry, pc |-> "visit"]
                    ELSE frame[k]
  BY <1>1, <1>2 DEF IInv, TypeOK
<1>4. ASSUME NEW k \in Levels
      PROVE  Todo(k)' = IF k = depth + 1 THEN valid ELSE Todo(k)
  <2>1. CASE k = depth + 1
    <3>1. \A c \in valid : c \in Int /\ first \in Int /\ first <= c /\ c <= last
      BY <1>1 DEF IInv, TypeOK, IsFirst, IsLast
    <3>2. Todo(k)' = {c \in valid : c <= last /\ (first < c \/ first = c)}
      BY <1>3, <2>1 DEF Todo, Send
    <3> QED BY <2>1, <3>1, <3>2
  <2>2. CASE k # depth + 1
    BY <1>3, <2>2 DEF Todo, Send
  <2> QED BY <2>1, <2>2
<1>5. ASSUME NEW k \in Levels PROVE Callee(k)' = Callee(k)
  <2>1. CASE k = depth + 1
    <3>1. frame[k].pc = "idle"
      BY <2>1 DEF IInv, StackShape, TypeOK, NoFrame
    <3> QED BY <1>3, <2>1, <3>1 DEF Callee
  <2>2. CASE k # depth + 1
    BY <1>3, <2>2 DEF Callee
  <2> QED BY <2>1, <2>2
<1>6. [k \in Levels |-> Todo(k)]' = [[k \in Levels |-> Todo(k)] EXCEPT ![depth + 1] = valid]
  BY <1>4
<1>7. [k \in Levels |-> Callee(k)]' = [k \in Levels |-> Callee(k)]
  BY <1>5
<1>8. Abstract!UserRuns
  BY UserRunsRefines DEF Send
<1> QED BY <1>6, <1>7, <1>8 DEF Send, Abstract!Begin, Abstract!Levels, Levels

(* A visit calls the slot of a valid entry; an invalid one is passed over  *)
(* and was not to be served.                                               *)
LEMMA VisitRefines ==
  ASSUME IInv, Visit
  PROVE  Abstract!Call \/ UNCHANGED Abstract!mcVars
<1> DEFINE it == frame[depth].it
<1>1. depth \in Levels /\ frame[depth].pc = "visit"
  BY SignalAssumption DEF SignalAssumption, Visit, IInv, TypeOK, Levels
<1>2. /\ UNCHANGED <<opened, valid, depth>>
      /\ frame' = [frame EXCEPT ![depth].pc = IF it \in valid THEN "slot" ELSE "check"]
  BY DEF Visit
<1>3. \A k \in Levels : /\ k # depth => frame'[k] = frame[k]
                        /\ frame'[k].it = frame[k].it
                        /\ frame'[k].last = frame[k].last
  BY <1>1, <1>2 DEF IInv, TypeOK, FrameRec
<1>4. frame'[depth].pc = IF it \in valid THEN "slot" ELSE "check"
  BY <1>1, <1>2 DEF IInv, TypeOK, FrameRec
<1>5. \A k \in Levels : Todo(k)' = IF k = depth THEN Todo(k) \ {it} ELSE Todo(k)
  <2> SUFFICES ASSUME NEW k \in Levels
               PROVE  Todo(k)' = IF k = depth THEN Todo(k) \ {it} ELSE Todo(k)
    OBVIOUS
  <2>1. CASE k = depth
    <3>1. frame'[k].pc # "visit"
      BY <1>4, <2>1
    <3>2. Todo(k)' = {c \in valid : c <= frame[k].last /\ frame[k].it < c}
      BY <1>2, <1>3, <3>1 DEF Todo
    <3>3. frame[k].it \in Int /\ \A c \in valid : c \in Int
      BY DEF IInv, TypeOK, FrameRec
    <3> QED BY <1>1, <2>1, <3>2, <3>3 DEF Todo
  <2>2. CASE k # depth
    BY <1>2, <1>3, <2>2 DEF Todo
  <2> QED BY <2>1, <2>2
<1>6. CASE it \in valid
  <2>1. it \in Todo(depth) /\ \A d \in Todo(depth) : it <= d
    <3>1. alive /\ frame[depth].it \in Int
      BY <1>1, <1>6 DEF IInv, Destroyed, TypeOK, FrameRec
    <3>2. frame[depth].it <= frame[depth].last
      BY <1>1, <3>1 DEF IInv, SentryChain, Levels
    <3>3. \A c \in valid : c \in Int
      BY DEF IInv, TypeOK
    <3> QED BY <1>1, <1>6, <3>1, <3>2, <3>3 DEF Todo
  <2>2. \A k \in Levels : Callee(k)' = IF k = depth THEN it ELSE Callee(k)
    BY <1>1, <1>3, <1>4, <1>6 DEF Callee
  <2>3. [k \in Levels |-> Callee(k)]' = [[k \in Levels |-> Callee(k)] EXCEPT ![depth] = it]
    BY <2>2
  <2>4. [k \in Levels |-> Todo(k)]' =
          [[k \in Levels |-> Todo(k)] EXCEPT ![depth] = Todo(depth) \ {it}]
    BY <1>5
  <2>5. Callee(depth) = 0 /\ depth > 0
    BY <1>1 DEF Callee, Levels
  <2> HIDE DEF it
  <2> QED BY <1>1, <1>2, <2>1, <2>3, <2>4, <2>5 DEF Abstract!Call, Abstract!Levels, Levels
<1>7. CASE it \notin valid
  <2>1. \A k \in Levels : Todo(k)' = Todo(k)
    BY <1>5, <1>7 DEF Todo
  <2>2. \A k \in Levels : Callee(k)' = Callee(k)
    BY <1>1, <1>3, <1>4, <1>7 DEF Callee
  <2>3. /\ [k \in Levels |-> Callee(k)]' = [k \in Levels |-> Callee(k)]
        /\ [k \in Levels |-> Todo(k)]' = [k \in Levels |-> Todo(k)]
    BY <2>1, <2>2
  <2> QED BY <1>2, <2>3 DEF Abstract!mcVars
<1> QED BY <1>6, <1>7

LEMMA ReturnRefines ==
  ASSUME IInv, Return
  PROVE  Abstract!Return
<1>1. depth \in Levels /\ frame[depth].pc = "slot"
  BY SignalAssumption DEF SignalAssumption, Return, IInv, TypeOK, Levels
<1>2. \A k \in Levels : /\ k # depth => frame'[k] = frame[k]
                        /\ frame'[k].it = frame[k].it
                        /\ frame'[k].last = frame[k].last
                        /\ k = depth => frame'[k].pc = "check"
  BY <1>1 DEF Return, IInv, TypeOK, FrameRec
<1>3. \A k \in Levels : Todo(k)' = Todo(k)
  BY <1>1, <1>2 DEF Todo, Return
<1>4. \A k \in Levels : Callee(k)' = IF k = depth THEN 0 ELSE Callee(k)
  BY <1>1, <1>2 DEF Callee
<1>5. Callee(depth) # 0 /\ depth > 0
  BY <1>1 DEF Callee, IInv, StackShape, Levels
<1>6. /\ [k \in Levels |-> Callee(k)]' = [[k \in Levels |-> Callee(k)] EXCEPT ![depth] = 0]
      /\ [k \in Levels |-> Todo(k)]' = [k \in Levels |-> Todo(k)]
  BY <1>3, <1>4
<1> QED BY <1>1, <1>5, <1>6 DEF Return, Abstract!Return, Abstract!Levels, Levels

LEMMA AdvanceRefines ==
  ASSUME IInv, Advance
  PROVE  UNCHANGED Abstract!mcVars
<1>1. PICK c \in list :
        /\ IsFirst(c, {d \in list : frame[depth].it < d})
        /\ frame' = [frame EXCEPT ![depth] = [@ EXCEPT !.it = c, !.pc = "visit"]]
  BY DEF Advance
<1>2. depth \in Levels /\ frame[depth].pc = "check"
  BY SignalAssumption DEF SignalAssumption, Advance, IInv, TypeOK, Levels
<1>3. \A k \in Levels : /\ k # depth => frame'[k] = frame[k]
                        /\ frame'[k].last = frame[k].last
                        /\ k = depth => frame'[k].it = c /\ frame'[k].pc = "visit"
  BY <1>1, <1>2 DEF IInv, TypeOK, FrameRec
<1>4. ASSUME NEW k \in Levels PROVE Todo(k)' = Todo(k)
  <2>1. CASE k = depth
    <3>1. Todo(k)' = {d \in valid : d <= frame[k].last /\ (c < d \/ c = d)}
      BY <1>3, <2>1 DEF Todo, Advance
    <3>2. Todo(k) = {d \in valid : d <= frame[k].last /\ frame[k].it < d}
      BY <1>2, <2>1 DEF Todo
    <3>3. valid \subseteq list /\ list \subseteq Int /\ frame[k].it \in Int
      BY DEF IInv, TypeOK, FrameRec
    <3>4. \A d \in valid : frame[k].it < d <=> c < d \/ c = d
      BY <1>1, <2>1, <3>3 DEF IsFirst
    <3> QED BY <3>1, <3>2, <3>4
  <2>2. CASE k # depth
    BY <1>3, <2>2 DEF Todo, Advance
  <2> QED BY <2>1, <2>2
<1>5. ASSUME NEW k \in Levels PROVE Callee(k)' = Callee(k)
  BY <1>2, <1>3 DEF Callee
<1>6. /\ [k \in Levels |-> Callee(k)]' = [k \in Levels |-> Callee(k)]
      /\ [k \in Levels |-> Todo(k)]' = [k \in Levels |-> Todo(k)]
  BY <1>4, <1>5
<1> QED BY <1>6 DEF Advance, Abstract!mcVars

(* What is left of a send that ends.                                       *)
LEMMA LeaveRefines ==
  ASSUME IInv, depth \in Levels, Leave
  PROVE  /\ UNCHANGED <<opened, valid>> /\ depth' = depth - 1
         /\ \A k \in Levels :
              /\ Todo(k)' = IF k = depth THEN {} ELSE Todo(k)
              /\ Callee(k)' = IF k = depth THEN 0 ELSE Callee(k)
<1>1. \A k \in Levels : frame'[k] = IF k = depth THEN NoFrame ELSE frame[k]
  BY DEF Leave, IInv, TypeOK
<1>2. UNCHANGED <<opened, valid>> /\ depth' = depth - 1
  BY DEF Leave
<1>3. \A c \in valid : ~(c <= 0)
  BY DEF IInv, TypeOK
<1>4. \A k \in Levels : Todo(k)' = IF k = depth THEN {} ELSE Todo(k)
  BY <1>1, <1>2, <1>3 DEF Todo, NoFrame
<1>5. \A k \in Levels : Callee(k)' = IF k = depth THEN 0 ELSE Callee(k)
  BY <1>1 DEF Callee, NoFrame
<1> QED BY <1>2, <1>4, <1>5

LEMMA FinishRefines ==
  ASSUME IInv, Finish
  PROVE  Abstract!Finish
<1>1. depth \in Levels /\ frame[depth].pc = "check"
  BY SignalAssumption DEF SignalAssumption, Finish, IInv, TypeOK, Levels
<1>2. Todo(depth) = {}
  <2>1. CASE frame[depth].signal
    <3>1. frame[depth].it = frame[depth].last
      BY <2>1 DEF Finish
    <3>2. frame[depth].last \in Int /\ \A c \in valid : c \in Int
      BY <1>1 DEF IInv, TypeOK, FrameRec
    <3> QED BY <1>1, <3>1, <3>2 DEF Todo
  <2>2. CASE ~frame[depth].signal
    BY <1>1, <2>2 DEF IInv, SentryChain, Destroyed, Levels, Todo
  <2> QED BY <2>1, <2>2
<1>3. /\ UNCHANGED <<opened, valid>> /\ depth' = depth - 1
      /\ \A k \in Levels :
           /\ Todo(k)' = IF k = depth THEN {} ELSE Todo(k)
           /\ Callee(k)' = IF k = depth THEN 0 ELSE Callee(k)
  BY <1>1, LeaveRefines DEF Finish
<1>4. Callee(depth) = 0 /\ depth > 0
  BY <1>1 DEF Callee, Levels
<1>5. /\ [k \in Levels |-> Callee(k)]' = [k \in Levels |-> Callee(k)]
      /\ [k \in Levels |-> Todo(k)]' = [k \in Levels |-> Todo(k)]
  BY <1>2, <1>3, <1>4
<1> QED BY <1>1, <1>2, <1>3, <1>4, <1>5 DEF Abstract!Finish, Abstract!Levels, Levels

LEMMA ThrowRefines ==
  ASSUME IInv, Throw
  PROVE  Abstract!Abort
<1>1. depth \in Levels /\ frame[depth].pc = "slot"
  BY SignalAssumption DEF SignalAssumption, Throw, IInv, TypeOK, Levels
<1>2. /\ UNCHANGED <<opened, valid>> /\ depth' = depth - 1
      /\ \A k \in Levels :
           /\ Todo(k)' = IF k = depth THEN {} ELSE Todo(k)
           /\ Callee(k)' = IF k = depth THEN 0 ELSE Callee(k)
  BY <1>1, LeaveRefines DEF Throw
<1>3. Callee(depth) # 0 /\ depth > 0
  BY <1>1 DEF Callee, IInv, StackShape, Levels
<1>4. /\ [k \in Levels |-> Callee(k)]' = [[k \in Levels |-> Callee(k)] EXCEPT ![depth] = 0]
      /\ [k \in Levels |-> Todo(k)]' = [[k \in Levels |-> Todo(k)] EXCEPT ![depth] = {}]
  BY <1>2
<1> QED BY <1>1, <1>2, <1>3, <1>4 DEF Abstract!Abort, Abstract!Levels, Levels

LEMMA StepRefines == IInv /\ [Next]_vars => [Abstract!Next]_Abstract!mcVars
<1> SUFFICES ASSUME IInv, [Next]_vars PROVE [Abstract!Next]_Abstract!mcVars
  OBVIOUS
<1> USE DEF Abstract!Next
<1>1. ASSUME NEW s \in Slots, Connect(s) PROVE Abstract!Change
  BY <1>1, ConnectRefines
<1>0. list \subseteq Conns /\ valid \subseteq Conns
  BY SignalAssumption DEF SignalAssumption, IInv, TypeOK, Conns
<1>2. ASSUME NEW s \in Slots, DisconnectSlot(s) PROVE Abstract!Change
  <2>1. Target(s) \subseteq Conns
    BY <1>0 DEF Target
  <2> QED BY <1>2, <2>1, CloseRefines DEF DisconnectSlot
<1>3. ASSUME NEW s \in Slots, DestroyReceiver(s) PROVE Abstract!Change
  <2>1. {c \in valid : slotOf[c] = s} \subseteq Conns
    BY <1>0
  <2> QED BY <1>3, <2>1, CloseRefines DEF DestroyReceiver
<1>4. ASSUME NEW c \in Conns, CloseConnection(c) PROVE Abstract!Change
  BY <1>4, CloseRefines DEF CloseConnection
<1>5. ASSUME NEW n \in 0..MaxConn, NEW ss \in [1..n -> Slots], Assign(n, ss)
      PROVE  Abstract!Change
  BY <1>5, AssignRefines
<1>6. CASE Disconnect
  BY <1>0, <1>6, CloseRefines DEF Disconnect
<1>7. CASE DeleteSignal
  BY <1>7, DeleteRefines
<1>8. CASE Send
  BY <1>8, SendRefines
<1>9. CASE Visit
  BY <1>9, VisitRefines
<1>10. CASE Return
  BY <1>10, ReturnRefines
<1>11. CASE Advance
  BY <1>11, AdvanceRefines
<1>12. CASE Finish
  BY <1>12, FinishRefines
<1>13. CASE Throw
  BY <1>13, ThrowRefines
<1>14. CASE UNCHANGED vars
  BY <1>14 DEF vars, Abstract!mcVars, Todo, Callee
<1> QED
  BY <1>1, <1>2, <1>3, <1>4, <1>5, <1>6, <1>7, <1>8, <1>9, <1>10, <1>11, <1>12,
     <1>13, <1>14
  DEF Next

(* Every execution of Signal is one of Multicast: whatever slots do during *)
(* a send, however deep, a connection open throughout is served once, in   *)
(* order, and a closed one is not served any more.                         *)
THEOREM Refinement == Spec => ImplementsMulticast
  BY Invariance, InitRefines, StepRefines, PTL
  DEF Spec, ImplementsMulticast, Abstract!Spec
=============================================================================
