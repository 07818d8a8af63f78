-------------------------------- MODULE Signal --------------------------------
(***************************************************************************)
(* Pt::SignalBase and Pt::Signal<As...>: one signal, the connections to    *)
(* its slots, and the sends in progress.  Everything runs in one thread;   *)
(* what makes it hard is that a slot may connect, disconnect, destroy a    *)
(* receiver, send the same signal again, throw, or delete the signal, all  *)
(* while a send iterates over the connection list.                         *)
(*                                                                         *)
(* std::list<Connection> only grows at its end, so the order of the list   *)
(* is the order in which its connections were made: connections are        *)
(* numbered in that order and the list is the set of their numbers.        *)
(*                                                                         *)
(* frame[k] is the activation record of the k-th nested send() with its    *)
(* Sentry; sentries are linked by the level they live at, 0 for null.      *)
(***************************************************************************)
EXTENDS Integers, FiniteSets

CONSTANTS Slots,        \* the slots (callable targets) of the program
          NoSlot,       \* the slot of a connection that was never made
          MaxConn,      \* bound: the number of connections ever made
          MaxDepth,     \* bound: how deep sends of the signal nest
          DeleteDepth   \* environment: the deepest send whose slot may delete the signal

ASSUME SignalAssumption ==
  /\ NoSlot \notin Slots
  /\ MaxConn \in Nat
  /\ MaxDepth \in Nat
  /\ DeleteDepth \in Nat

Conns == 1..MaxConn
Levels == 1..MaxDepth

VARIABLES alive,     \* the signal has not been destroyed
          opened,    \* the number of connections made so far
          list,      \* Connectable::_connections
          valid,     \* the connections whose ConnectionData is valid
          slotOf,    \* the slot of each connection
          sending,   \* SignalBase::_sending
          dirty,     \* SignalBase::_dirty
          sentry,    \* SignalBase::_sentry, the level of the innermost sentry
          depth,     \* the number of sends on the call stack
          frame      \* their activation records

vars == <<alive, opened, list, valid, slotOf, sending, dirty, sentry, depth, frame>>

FrameRec == [it : 0..MaxConn, last : 0..MaxConn,
             signal : BOOLEAN, next : 0..MaxDepth,
             pc : {"idle", "visit", "slot", "check"}]

NoFrame == [it |-> 0, last |-> 0, signal |-> FALSE, next |-> 0, pc |-> "idle"]

IsFirst(c, S) == c \in S /\ \A d \in S : c <= d
IsLast(c, S) == c \in S /\ \A d \in S : d <= c

Init ==
  /\ alive = TRUE
  /\ opened = 0
  /\ list = {}
  /\ valid = {}
  /\ slotOf = [c \in Conns |-> NoSlot]
  /\ sending = FALSE
  /\ dirty = FALSE
  /\ sentry = 0
  /\ depth = 0
  /\ frame = [k \in Levels |-> NoFrame]

(* Code outside Pt::Signal runs: the main program or the slot being called.*)
UserRuns == depth # 0 => frame[depth].pc = "slot"

-----------------------------------------------------------------------------
(* Connections                                                             *)

(* Connection::close of each connection in C.  setInvalid comes first; the *)
(* list entry goes now, or, while a send iterates, when the sentry leaves. *)
Close(C) ==
  /\ valid' = valid \ C
  /\ IF sending
     THEN /\ dirty' = (dirty \/ C \cap valid # {})
          /\ list' = list
     ELSE /\ dirty' = dirty
          /\ list' = list \ (C \cap valid)

(* Mutant: the connection is not entered in the list of the sender.        *)
ConnectUnlisted(s) ==
  /\ UserRuns /\ alive
  /\ opened < MaxConn
  /\ opened' = opened + 1
  /\ valid' = valid \cup {opened + 1}
  /\ slotOf' = [slotOf EXCEPT ![opened + 1] = s]
  /\ UNCHANGED <<alive, list, sending, dirty, sentry, depth, frame>>

Connect(s) ==
  /\ UserRuns /\ alive
  /\ opened < MaxConn
  /\ opened' = opened + 1
  /\ list' = list \cup {opened + 1}
  /\ valid' = valid \cup {opened + 1}
  /\ slotOf' = [slotOf EXCEPT ![opened + 1] = s]
  /\ UNCHANGED <<alive, sending, dirty, sentry, depth, frame>>

(* The user closes a Connection object it kept.                            *)
CloseConnection(c) ==
  /\ UserRuns /\ alive
  /\ c \in valid
  /\ Close({c})
  /\ UNCHANGED <<alive, opened, slotOf, sending, sentry, depth, frame>>

(* The entry that signal.disconnect(slot) closes: the first of the list    *)
(* with an equal slot.                                                     *)
Target(s) == {c \in list : IsFirst(c, {d \in list : slotOf[d] = s})}

(* signal.disconnect(slot).                                                *)
DisconnectSlot(s) ==
  /\ UserRuns /\ alive
  /\ Target(s) # {}
  /\ Close(Target(s))
  /\ UNCHANGED <<alive, opened, slotOf, sending, sentry, depth, frame>>

(* signal.disconnect(): every valid connection is closed.                  *)
Disconnect ==
  /\ UserRuns /\ alive
  /\ Close(list)
  /\ UNCHANGED <<alive, opened, slotOf, sending, sentry, depth, frame>>

(* ~Connectable of a receiver closes all connections to its slot.          *)
DestroyReceiver(s) ==
  /\ UserRuns /\ alive
  /\ Close({c \in valid : slotOf[c] = s})
  /\ UNCHANGED <<alive, opened, slotOf, sending, sentry, depth, frame>>

(* signal = other: disconnectAll, then a connection to a clone of each of  *)
(* the n slots ss[1], ..., ss[n] the other signal is connected to.         *)
Assign(n, ss) ==
  /\ UserRuns /\ alive
  /\ opened + n <= MaxConn
  /\ opened' = opened + n
  /\ valid' = (opened + 1)..(opened + n)
  /\ dirty' = (dirty \/ (sending /\ valid # {}))
  /\ list' = (IF sending THEN list ELSE list \ valid) \cup ((opened + 1)..(opened + n))
  /\ slotOf' = [c \in Conns |-> IF c \in (opened + 1)..(opened + n)
                                THEN ss[c - opened] ELSE slotOf[c]]
  /\ UNCHANGED <<alive, sending, sentry, depth, frame>>

-----------------------------------------------------------------------------
(* Sentries and sends                                                      *)

(* Mutant: every sentry, not only the outermost, ends the sending state.   *)
DetachEndsSending(k) ==
  /\ sending' = FALSE
  /\ sentry' = frame[k].next
  /\ IF dirty /\ frame[k].next = 0
     THEN /\ list' = list \cap valid
          /\ dirty' = FALSE
     ELSE UNCHANGED <<list, dirty>>

(* Mutant: the outermost sentry leaves the closed entries in the list.     *)
DetachKeepsClosed(k) ==
  /\ sending' = (sending /\ frame[k].next # 0)
  /\ sentry' = frame[k].next
  /\ dirty' = (dirty /\ frame[k].next # 0)
  /\ UNCHANGED list

(* Sentry::detach of the sentry at level k.  Only the outermost one ends   *)
(* the sending state and removes the entries closed meanwhile.             *)
Detach(k) ==
  /\ sending' = (sending /\ frame[k].next # 0)
  /\ sentry' = frame[k].next
  /\ IF dirty /\ frame[k].next = 0
     THEN /\ list' = list \cap valid
          /\ dirty' = FALSE
     ELSE UNCHANGED <<list, dirty>>

(* Sentry::detachAll from the sentry at level k.  detach clears the link   *)
(* to the next sentry before detachAll follows it, so it ends there.       *)
DetachAll(f, k) ==
  IF k = 0 THEN f
  ELSE [f EXCEPT ![k] = [it |-> f[k].it, last |-> f[k].last,
                         signal |-> FALSE, next |-> 0, pc |-> f[k].pc]]

(* ~SignalBase, then ~Connectable of the signal.                           *)
DeleteSignal ==
  /\ UserRuns /\ alive
  /\ depth <= DeleteDepth
  /\ frame' = DetachAll(frame, sentry)
  /\ alive' = FALSE
  /\ list' = {}
  /\ valid' = {}
  /\ sending' = FALSE
  /\ dirty' = FALSE
  /\ sentry' = 0
  /\ UNCHANGED <<opened, slotOf, depth>>

(* send() up to its loop: the sentry, then the first and last entries.     *)
Send ==
  /\ UserRuns /\ alive
  /\ list # {}
  /\ depth < MaxDepth
  /\ depth' = depth + 1
  /\ \E first, last \in list :
       /\ IsFirst(first, list)
       /\ IsLast(last, list)
       /\ frame' = [frame EXCEPT ![depth + 1] =
                      [it |-> first, last |-> last, signal |-> TRUE,
                       next |-> sentry, pc |-> "visit"]]
  /\ sentry' = depth + 1
  /\ sending' = TRUE
  /\ UNCHANGED <<alive, opened, list, valid, slotOf, dirty>>

(* Mutant: the slot of a closed entry is called as well.                   *)
VisitClosed ==
  /\ depth > 0
  /\ frame[depth].pc = "visit"
  /\ frame' = [frame EXCEPT ![depth].pc = "slot"]
  /\ UNCHANGED <<alive, opened, list, valid, slotOf, sending, dirty, sentry, depth>>

(* A valid entry has its slot called, another one is passed over.          *)
Visit ==
  /\ depth > 0
  /\ frame[depth].pc = "visit"
  /\ frame' = [frame EXCEPT ![depth].pc =
                 IF frame[depth].it \in valid THEN "slot" ELSE "check"]
  /\ UNCHANGED <<alive, opened, list, valid, slotOf, sending, dirty, sentry, depth>>

(* The slot returns.                                                       *)
Return ==
  /\ depth > 0
  /\ frame[depth].pc = "slot"
  /\ frame' = [frame EXCEPT ![depth].pc = "check"]
  /\ UNCHANGED <<alive, opened, list, valid, slotOf, sending, dirty, sentry, depth>>

(* The sentry tells that the signal is still there: on to the next entry.  *)
(* Nothing is said of a sentry left pointing to a destroyed signal.        *)
Advance ==
  /\ depth > 0 /\ alive
  /\ frame[depth].pc = "check"
  /\ frame[depth].signal
  /\ frame[depth].it # frame[depth].last
  /\ \E c \in list :
       /\ IsFirst(c, {d \in list : frame[depth].it < d})
       /\ frame' = [frame EXCEPT ![depth] = [@ EXCEPT !.it = c, !.pc = "visit"]]
  /\ UNCHANGED <<alive, opened, list, valid, slotOf, sending, dirty, sentry, depth>>

(* send() is left: ~Sentry runs and the activation record goes.            *)
Leave ==
  /\ IF frame[depth].signal THEN Detach(depth)
                            ELSE UNCHANGED <<sending, sentry, list, dirty>>
  /\ depth' = depth - 1
  /\ frame' = [frame EXCEPT ![depth] = NoFrame]
  /\ UNCHANGED <<alive, opened, valid, slotOf>>

Finish ==
  /\ depth > 0
  /\ frame[depth].pc = "check"
  /\ \/ ~frame[depth].signal
     \/ alive /\ frame[depth].it = frame[depth].last
  /\ Leave

(* The slot throws through send().  The caller, maybe an outer slot of the *)
(* same signal, either handles the exception or throws in its turn.        *)
Throw ==
  /\ depth > 0
  /\ frame[depth].pc = "slot"
  /\ frame[depth].signal => alive
  /\ Leave

Next ==
  \/ \E s \in Slots : Connect(s) \/ DisconnectSlot(s) \/ DestroyReceiver(s)
  \/ \E c \in Conns : CloseConnection(c)
  \/ \E n \in 0..MaxConn : \E ss \in [1..n -> Slots] : Assign(n, ss)
  \/ Disconnect
  \/ DeleteSignal
  \/ Send
  \/ Visit
  \/ Return
  \/ Advance
  \/ Finish
  \/ Throw

Spec == Init /\ [][Next]_vars

-----------------------------------------------------------------------------
(* Properties                                                              *)

TypeOK ==
  /\ alive \in BOOLEAN
  /\ opened \in 0..MaxConn
  /\ list \in SUBSET (1..opened)
  /\ valid \in SUBSET list
  /\ slotOf \in [Conns -> Slots \cup {NoSlot}]
  /\ sending \in BOOLEAN
  /\ dirty \in BOOLEAN
  /\ sentry \in 0..MaxDepth
  /\ depth \in 0..MaxDepth
  /\ frame \in [Levels -> FrameRec]

(* Whatever the slots do, the two list iterators of every send in progress *)
(* that believes in its signal point to entries of that signal's list, in  *)
(* order: an entry is never removed under a send, however deep (send() in  *)
(* Signal.h keeps `it' and `last' across the slot calls).                  *)
IteratorsValid ==
  \A k \in 1..depth :
    frame[k].signal =>
      /\ alive
      /\ frame[k].it \in list
      /\ frame[k].last \in list
      /\ frame[k].it <= frame[k].last

(* Between sends the list holds no closed connection and the deferred      *)
(* clean-up of Sentry::detach is not pending: no connection leaks, also    *)
(* after exceptions and nested sends.                                      *)
CleanBetweenSends ==
  alive /\ depth = 0 => list = valid /\ ~sending /\ ~dirty /\ sentry = 0

(* What the send at level k still has to serve, and whom it is calling.    *)
Todo(k) ==
  {c \in valid : c <= frame[k].last /\
                 (frame[k].it < c \/ (frame[k].pc = "visit" /\ frame[k].it = c))}

Callee(k) == IF frame[k].pc = "slot" THEN frame[k].it ELSE 0

Abstract == INSTANCE Multicast WITH
  open <- valid,
  todo <- [k \in Levels |-> Todo(k)],
  callee <- [k \in Levels |-> Callee(k)]

(* A send serves, once and in order, every connection that was open when   *)
(* it began and still is when its turn comes (Signal::send, Signal.h):     *)
(* Signal implements Multicast.                                            *)
ImplementsMulticast == Abstract!Spec

(* `If this signal gets deleted by the slot, the Sentry will be detached'  *)
(* (Signal.cpp): no send in progress keeps a sentry that points to the     *)
(* destroyed signal.                                                       *)
SentriesSeeDeletion == \A k \in 1..depth : frame[k].signal => alive
=============================================================================
