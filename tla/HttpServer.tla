----------------------------- MODULE HttpServer -----------------------------
(***************************************************************************)
(* The server of Pt::Http: the main thread accepts connections and gives   *)
(* them in turn to the worker threads and to itself; each thread serves    *)
(* its acceptors and talks to the others by the events of their loops.     *)
(* An acceptor whose reply is a 101 goes back to the main thread over a    *)
(* list with a mutex.  Acceptors are addresses: one that was deleted may   *)
(* be the address of the next.                                             *)
(*                                                                         *)
(* A thread runs the events of its loop in one go, until the queue is      *)
(* empty (EventQueue::processEvents), and callbacks in between.  Of a      *)
(* request only what becomes of its acceptor is left.  The program calls   *)
(* the server in the main thread, outside of the callbacks of an acceptor. *)
(***************************************************************************)
EXTENDS Integers, Sequences, FiniteSets

CONSTANTS Workers,        \* _maxThreads - 1
          Acceptors,      \* addresses of acceptors
          Servlets,
          None,
          MaxPosted,      \* bound: events in the main queue when it accepts
          MaxConnections  \* bound: upgraded connections

ASSUME HttpServerAssumption ==
  /\ Workers \in Nat
  /\ MaxPosted \in Nat /\ MaxConnections \in Nat
  /\ None \notin Acceptors \cup Servlets

Main == 0
WorkerThreads == 1 .. Workers
Threads == {Main} \cup WorkerThreads

VARIABLES
  threads,      \* _serverThreads.size()
  listening,    \* the server socket accepts
  useWorker,    \* _useWorker, counted from 1
  handlers,     \* per thread: _handlers
  queue,        \* per thread: the events of its loop
  draining,     \* per thread: it is in processEvents
  acceptor,     \* per address: the acceptor there
  servlets,     \* _servlets: "absent", "mapped" or "shutdown"
  pending,      \* _pendingUpgrades; one event empties it, in any order
  inside,       \* per worker: the acceptor it upgrades and how far it is
  connections,  \* _upgradedConnections.size()
  call,         \* what the program called, and the next worker to ask
  answer,       \* _isReturned with _isServletIdle of that worker
  idle          \* history: servlets found idle since they were shut down

loopVars == <<handlers, queue, draining, acceptor>>
callVars == <<call, answer, idle>>
upgradeVars == <<pending, inside, connections>>
configVars == <<threads, listening, useWorker, servlets>>
vars == <<loopVars, callVars, upgradeVars, configVars>>

Free == [state |-> "free", servlet |-> None, finished |-> FALSE]
Outside == [acceptor |-> None, step |-> "none"]
NoCall == [op |-> "none", servlet |-> None, next |-> 0, asked |-> FALSE]

Init ==
  /\ threads = Workers /\ listening = TRUE /\ useWorker = Workers + 1
  /\ handlers = [t \in Threads |-> {}]
  /\ queue = [t \in Threads |-> <<>>]
  /\ draining = [t \in Threads |-> FALSE]
  /\ acceptor = [a \in Acceptors |-> Free]
  /\ servlets = [s \in Servlets |-> "absent"]
  /\ pending = {} /\ inside = [w \in WorkerThreads |-> Outside] /\ connections = 0
  /\ call = NoCall /\ answer = "none" /\ idle = {}

\* The thread is between callbacks: it may run the next one or an event.
Between(t) == IF t = Main THEN call = NoCall ELSE inside[t] = Outside

\* The thread runs callbacks of its devices and timers.
InCallbacks(t) == Between(t) /\ ~draining[t]

AcceptEvent(a) == [type |-> "accept", of |-> a]
RemoveHandlerEvent(a) == [type |-> "removeHandler", of |-> a]
RemoveServletEvent(s) == [type |-> "removeServlet", of |-> s]
ServletInfoEvent(s) == [type |-> "servletInfo", of |-> s]
UpgradeEvent == [type |-> "upgrade", of |-> None]

commitEvent(t, ev) == queue' = [queue EXCEPT ![t] = Append(@, ev)]

\* Delete the acceptors in D.
Delete(D) == acceptor' = [a \in Acceptors |-> IF a \in D THEN Free ELSE acceptor[a]]

Using(s) == {a \in Acceptors : acceptor[a].servlet = s}

-----------------------------------------------------------------------------
(* An acceptor in the thread that has it.                                  *)

Serving(t, a, state) ==
  InCallbacks(t) /\ a \in handlers[t] /\ acceptor[a].state = state

GoesOn(a, state, s) ==
  /\ acceptor' = [acceptor EXCEPT ![a].state = state, ![a].servlet = s]
  /\ UNCHANGED <<handlers, queue, draining>>

\* finished() is sent: the slot of the thread commits an event to its own
\* loop.  The state is "reply" after replyError and "ended" otherwise.
Finishes(t, a, state, s) ==
  /\ acceptor' = [acceptor EXCEPT ![a] = [state |-> state, servlet |-> s, finished |-> TRUE]]
  /\ commitEvent(t, RemoveHandlerEvent(a))
  /\ UNCHANGED <<handlers, draining>>

Fails(t, a, s) == Finishes(t, a, "reply", s) \/ Finishes(t, a, "ended", s)

(* Mutant: a servlet that is shut down is found.                            *)
RequestWhenShutdown(t, a) ==
  LET mapped == {s \in Servlets : servlets[s] # "absent"}
  IN /\ Serving(t, a, "receive")
     /\ \/ GoesOn(a, "reply", None)
        \/ \E s \in mapped : GoesOn(a, "serve", s) \/ GoesOn(a, "authorize", s)
        \/ \E s \in mapped \cup {None} : Fails(t, a, s)
     /\ UNCHANGED <<callVars, upgradeVars, configVars>>

\* getServlet, then a responder, an authorization, a denial or 404; a bad
\* request or a failed read finishes the acceptor, with a servlet or without.
onRequestReceived(t, a) ==
  LET mapped == {s \in Servlets : servlets[s] = "mapped"}
  IN /\ Serving(t, a, "receive")
     /\ \/ GoesOn(a, "reply", None)
        \/ \E s \in mapped : GoesOn(a, "serve", s) \/ GoesOn(a, "authorize", s)
        \/ \E s \in mapped \cup {None} : Fails(t, a, s)
     /\ UNCHANGED <<callVars, upgradeVars, configVars>>

onAuthorization(t, a) ==
  LET s == acceptor[a].servlet
  IN /\ Serving(t, a, "authorize")
     /\ GoesOn(a, "serve", s) \/ GoesOn(a, "reply", None) \/ Fails(t, a, s)
     /\ UNCHANGED <<callVars, upgradeVars, configVars>>

\* The responder begins the reply, which may be a 101, or reading fails.
setFinished(t, a) ==
  LET s == acceptor[a].servlet
  IN /\ Serving(t, a, "serve")
     /\ GoesOn(a, "reply", s) \/ GoesOn(a, "switch", s) \/ Fails(t, a, s)
     /\ UNCHANGED <<callVars, upgradeVars, configVars>>

\* The reply is written and the responder released: the next request is read
\* unless the connection is closed by now, as it is behind a bad request.
\* When writing failed the responder stays.
onReplySent(t, a) ==
  /\ Serving(t, a, "reply")
  /\ \/ ~acceptor[a].finished /\ GoesOn(a, "receive", None)
     \/ \E s \in {None, acceptor[a].servlet} : Finishes(t, a, "ended", s)
  /\ UNCHANGED <<callVars, upgradeVars, configVars>>

-----------------------------------------------------------------------------
(* A 101 in the main thread, and in a worker: onHandlerUpgraded takes the  *)
(* acceptor off the list, beginUpgrade gives it to the main thread and     *)
(* wakes it.                                                               *)

onHandlerUpgraded(a) ==
  /\ Serving(Main, a, "switch")
  /\ handlers' = [handlers EXCEPT ![Main] = @ \ {a}]
  /\ acceptor' = [acceptor EXCEPT ![a].state = "upgrade"]
  /\ pending' = pending \cup {a}
  /\ commitEvent(Main, UpgradeEvent)
  /\ UNCHANGED <<draining, inside, connections, callVars, configVars>>

(* Mutant: the acceptor stays in the list of the worker.                   *)
TakeOffKeeps(w, a) ==
  /\ Serving(w, a, "switch")
  /\ acceptor' = [acceptor EXCEPT ![a].state = "upgrade"]
  /\ inside' = [inside EXCEPT ![w] = [acceptor |-> a, step |-> "takenOff"]]
  /\ UNCHANGED <<handlers, queue, draining, pending, connections, callVars, configVars>>

TakeOff(w, a) ==
  /\ Serving(w, a, "switch")
  /\ handlers' = [handlers EXCEPT ![w] = @ \ {a}]
  /\ acceptor' = [acceptor EXCEPT ![a].state = "upgrade"]
  /\ inside' = [inside EXCEPT ![w] = [acceptor |-> a, step |-> "takenOff"]]
  /\ UNCHANGED <<queue, draining, pending, connections, callVars, configVars>>

GiveToMain(w) ==
  /\ inside[w].step = "takenOff"
  /\ pending' = pending \cup {inside[w].acceptor}
  /\ inside' = [inside EXCEPT ![w].step = "given"]
  /\ UNCHANGED <<loopVars, connections, callVars, configVars>>

(* Mutant: no event tells the main thread of the upgrade.                  *)
WakeNobody(w) ==
  /\ inside[w].step = "given"
  /\ inside' = [inside EXCEPT ![w] = Outside]
  /\ UNCHANGED <<loopVars, pending, connections, callVars, configVars>>

WakeMain(w) ==
  /\ inside[w].step = "given"
  /\ commitEvent(Main, UpgradeEvent)
  /\ inside' = [inside EXCEPT ![w] = Outside]
  /\ UNCHANGED <<handlers, draining, acceptor, pending, connections, callVars, configVars>>

Upgrade(w) == GiveToMain(w) \/ WakeMain(w)

-----------------------------------------------------------------------------
(* The events of a loop.                                                   *)

Comes(t, type) == Between(t) /\ queue[t] # <<>> /\ Head(queue[t]).type = type

Pop(t) ==
  /\ queue' = [queue EXCEPT ![t] = Tail(@)]
  /\ draining' = [draining EXCEPT ![t] = Tail(queue[t]) # <<>>]

onAcceptEvent(w) ==
  LET a == Head(queue[w]).of
  IN /\ Comes(w, "accept")
     /\ handlers' = [handlers EXCEPT ![w] = @ \cup {a}]
     /\ acceptor' = [acceptor EXCEPT ![a].state = "receive"]
     /\ Pop(w)
     /\ UNCHANGED <<callVars, upgradeVars, configVars>>

(* Mutant: the main thread does not hear of its own events.                *)
RemoveInWorkers(t) ==
  LET D == IF t = Main THEN {} ELSE handlers[t] \cap {Head(queue[t]).of}
  IN /\ Comes(t, "removeHandler")
     /\ handlers' = [handlers EXCEPT ![t] = @ \ D]
     /\ Delete(D)
     /\ Pop(t)
     /\ UNCHANGED <<callVars, upgradeVars, configVars>>

onRemoveHandler(t) ==
  LET D == handlers[t] \cap {Head(queue[t]).of}
  IN /\ Comes(t, "removeHandler")
     /\ handlers' = [handlers EXCEPT ![t] = @ \ D]
     /\ Delete(D)
     /\ Pop(t)
     /\ UNCHANGED <<callVars, upgradeVars, configVars>>

(* Mutant: only a worker that used the servlet answers.                    *)
AnswerIfUsed(w) ==
  LET D == handlers[w] \cap Using(Head(queue[w]).of)
  IN /\ Comes(w, "removeServlet")
     /\ handlers' = [handlers EXCEPT ![w] = @ \ D]
     /\ Delete(D)
     /\ answer' = IF D = {} THEN answer ELSE "removed"
     /\ Pop(w)
     /\ UNCHANGED <<call, idle, upgradeVars, configVars>>

onRemoveServlet(w) ==
  LET D == handlers[w] \cap Using(Head(queue[w]).of)
  IN /\ Comes(w, "removeServlet")
     /\ handlers' = [handlers EXCEPT ![w] = @ \ D]
     /\ Delete(D)
     /\ answer' = "removed"
     /\ Pop(w)
     /\ UNCHANGED <<call, idle, upgradeVars, configVars>>

onIsServletIdle(w) ==
  /\ Comes(w, "servletInfo")
  /\ answer' = IF handlers[w] \cap Using(Head(queue[w]).of) = {} THEN "idle" ELSE "busy"
  /\ Pop(w)
  /\ UNCHANGED <<handlers, acceptor, call, idle, upgradeVars, configVars>>

\* One turn of the loop in onUpgrade; the service accepts the stream or not.
onUpgrade ==
  /\ Comes(Main, "upgrade")
  /\ \/ /\ pending = {}
        /\ Pop(Main)
        /\ UNCHANGED <<handlers, acceptor, upgradeVars>>
     \/ \E a \in pending :
          /\ pending' = pending \ {a}
          /\ Delete({a})
          /\ connections' \in {connections, connections + 1}
          /\ draining' = [draining EXCEPT ![Main] = TRUE]
          /\ UNCHANGED <<handlers, queue, inside>>
  /\ UNCHANGED <<callVars, configVars>>

Event(t) ==
  \/ onRemoveHandler(t)
  \/ (t = Main /\ onUpgrade)
  \/ (t # Main /\ (onAcceptEvent(t) \/ onRemoveServlet(t) \/ onIsServletIdle(t)))

-----------------------------------------------------------------------------
(* The main thread.                                                        *)

(* Mutant: the acceptor is put into the list of the worker right away.     *)
AcceptAtOnce ==
  /\ InCallbacks(Main) /\ listening
  /\ Len(queue[Main]) <= MaxPosted /\ connections <= MaxConnections
  /\ \E a \in Acceptors :
       /\ acceptor[a].state = "free"
       /\ \/ /\ useWorker <= threads
             /\ handlers' = [handlers EXCEPT ![useWorker] = @ \cup {a}]
             /\ acceptor' = [acceptor EXCEPT ![a].state = "receive"]
             /\ useWorker' = useWorker + 1
             /\ UNCHANGED queue
          \/ /\ useWorker > threads
             /\ handlers' = [handlers EXCEPT ![Main] = @ \cup {a}]
             /\ acceptor' = [acceptor EXCEPT ![a].state = "receive"]
             /\ useWorker' = 1
             /\ UNCHANGED queue
  /\ UNCHANGED <<threads, listening, servlets, draining, callVars, upgradeVars>>

(* Mutant: the turn does not start again.                                  *)
AcceptOnward ==
  /\ InCallbacks(Main) /\ listening
  /\ Len(queue[Main]) <= MaxPosted /\ connections <= MaxConnections
  /\ \E a \in Acceptors :
       /\ acceptor[a].state = "free"
       /\ \/ /\ useWorker <= threads
             /\ commitEvent(useWorker, AcceptEvent(a))
             /\ acceptor' = [acceptor EXCEPT ![a].state = "given"]
             /\ useWorker' = useWorker + 1
             /\ UNCHANGED handlers
          \/ /\ useWorker > threads
             /\ handlers' = [handlers EXCEPT ![Main] = @ \cup {a}]
             /\ acceptor' = [acceptor EXCEPT ![a].state = "receive"]
             /\ useWorker' = useWorker + 1
             /\ UNCHANGED queue
  /\ UNCHANGED <<threads, listening, servlets, draining, callVars, upgradeVars>>

onAccept ==
  /\ InCallbacks(Main) /\ listening
  /\ Len(queue[Main]) <= MaxPosted /\ connections <= MaxConnections
  /\ \E a \in Acceptors :
       /\ acceptor[a].state = "free"
       /\ \/ /\ useWorker <= threads
             /\ commitEvent(useWorker, AcceptEvent(a))
             /\ acceptor' = [acceptor EXCEPT ![a].state = "given"]
             /\ useWorker' = useWorker + 1
             /\ UNCHANGED handlers
          \/ /\ useWorker > threads
             /\ handlers' = [handlers EXCEPT ![Main] = @ \cup {a}]
             /\ acceptor' = [acceptor EXCEPT ![a].state = "receive"]
             /\ useWorker' = 1
             /\ UNCHANGED queue
  /\ UNCHANGED <<threads, listening, servlets, draining, callVars, upgradeVars>>

onConnectionClosed ==
  /\ InCallbacks(Main) /\ connections > 0
  /\ connections' = connections - 1
  /\ UNCHANGED <<loopVars, pending, inside, callVars, configVars>>

addServlet(s) ==
  /\ InCallbacks(Main) /\ servlets[s] = "absent"
  /\ servlets' = [servlets EXCEPT ![s] = "mapped"]
  /\ UNCHANGED <<loopVars, callVars, upgradeVars, threads, listening, useWorker>>

shutdownServlet(s) ==
  /\ InCallbacks(Main) /\ servlets[s] # "absent"
  /\ \E status \in {"mapped", "shutdown"} :
       /\ servlets' = [servlets EXCEPT ![s] = status]
       /\ idle' = IF status = "mapped" THEN idle \ {s} ELSE idle
  /\ UNCHANGED <<loopVars, call, answer, upgradeVars, threads, listening, useWorker>>

\* removeServlet first takes the servlet off the list ...
removeServlet(s) ==
  /\ InCallbacks(Main) /\ servlets[s] # "absent"
  /\ servlets' = [servlets EXCEPT ![s] = "absent"]
  /\ call' = [NoCall EXCEPT !.op = "remove", !.servlet = s]
  /\ idle' = idle \ {s}
  /\ UNCHANGED <<loopVars, answer, upgradeVars, threads, listening, useWorker>>

\* ... deletes what is pending and what the main thread serves with it ...
RemoveOwn ==
  LET D == (pending \cup handlers[Main]) \cap Using(call.servlet)
  IN /\ call.op = "remove" /\ call.next = 0
     /\ pending' = pending \ D
     /\ handlers' = [handlers EXCEPT ![Main] = @ \ D]
     /\ Delete(D)
     /\ call' = [call EXCEPT !.next = 1]
     /\ UNCHANGED <<queue, draining, answer, idle, inside, connections, configVars>>

isServletIdle(s) ==
  /\ InCallbacks(Main)
  /\ handlers[Main] \cap Using(s) = {}
  /\ call' = [NoCall EXCEPT !.op = "isIdle", !.servlet = s, !.next = 1]
  /\ UNCHANGED <<loopVars, answer, idle, upgradeVars, configVars>>

\* ... and both ask one worker after the other and wait for its answer.
AskWorker ==
  /\ call.op \in {"remove", "isIdle"} /\ call.next \in 1 .. threads /\ ~call.asked
  /\ commitEvent(call.next, IF call.op = "remove" THEN RemoveServletEvent(call.servlet)
                            ELSE ServletInfoEvent(call.servlet))
  /\ call' = [call EXCEPT !.asked = TRUE]
  /\ answer' = "none"
  /\ UNCHANGED <<handlers, draining, acceptor, idle, upgradeVars, configVars>>

(* Mutant: the answer is not waited for.                                   *)
TakeNoAnswer ==
  /\ call.asked
  /\ call' = IF answer = "busy" THEN NoCall
             ELSE [call EXCEPT !.next = @ + 1, !.asked = FALSE]
  /\ answer' = "none"
  /\ UNCHANGED <<loopVars, idle, upgradeVars, configVars>>

TakeAnswer ==
  /\ call.asked /\ answer # "none"
  /\ call' = IF answer = "busy" THEN NoCall
             ELSE [call EXCEPT !.next = @ + 1, !.asked = FALSE]
  /\ answer' = "none"
  /\ UNCHANGED <<loopVars, idle, upgradeVars, configVars>>

EndAsking ==
  /\ call.op \in {"remove", "isIdle"} /\ call.next > threads
  /\ call' = NoCall
  /\ idle' = IF call.op = "isIdle" /\ servlets[call.servlet] = "shutdown"
             THEN idle \cup {call.servlet} ELSE idle
  /\ UNCHANGED <<loopVars, answer, upgradeVars, configVars>>

cancel ==
  /\ InCallbacks(Main) /\ listening
  /\ Delete(pending)
  /\ pending' = {} /\ connections' = 0 /\ listening' = FALSE
  /\ call' = [NoCall EXCEPT !.op = "cancel", !.next = 1]
  /\ UNCHANGED <<handlers, queue, draining, answer, idle, inside, threads, useWorker, servlets>>

\* exit, join and the deletion of the handlers; the events go with the loop,
\* and the acceptors of accept events are deleted by nobody.
StopWorker ==
  LET w == call.next
      lost == {queue[w][i].of : i \in {j \in DOMAIN queue[w] : queue[w][j].type = "accept"}}
  IN /\ call.op = "cancel" /\ w \in 1 .. threads /\ inside[w] = Outside
     /\ acceptor' = [a \in Acceptors |-> IF a \in handlers[w] THEN Free
                                         ELSE IF a \in lost THEN [Free EXCEPT !.state = "leaked"]
                                         ELSE acceptor[a]]
     /\ handlers' = [handlers EXCEPT ![w] = {}]
     /\ queue' = [queue EXCEPT ![w] = <<>>]
     /\ draining' = [draining EXCEPT ![w] = FALSE]
     /\ call' = [call EXCEPT !.next = w + 1]
     /\ UNCHANGED <<answer, idle, upgradeVars, configVars>>

EndCancel ==
  /\ call.op = "cancel" /\ call.next > threads
  /\ threads' = 0 /\ call' = NoCall
  /\ handlers' = [handlers EXCEPT ![Main] = {}]
  /\ Delete(handlers[Main])
  /\ UNCHANGED <<queue, draining, answer, idle, upgradeVars, listening, useWorker, servlets>>

GoOn == RemoveOwn \/ AskWorker \/ TakeAnswer \/ EndAsking \/ StopWorker \/ EndCancel

-----------------------------------------------------------------------------
Acceptance(t) ==
  \E a \in Acceptors :
    \/ onRequestReceived(t, a) \/ onAuthorization(t, a)
    \/ setFinished(t, a) \/ onReplySent(t, a)
    \/ (t = Main /\ onHandlerUpgraded(a))
    \/ (t # Main /\ TakeOff(t, a))

Call ==
  \/ \E s \in Servlets : addServlet(s) \/ shutdownServlet(s) \/ removeServlet(s) \/ isServletIdle(s)
  \/ cancel

Next ==
  \/ \E t \in Threads : Acceptance(t) \/ Event(t)
  \/ \E w \in WorkerThreads : Upgrade(w)
  \/ onAccept \/ onConnectionClosed \/ Call \/ GoOn

Spec == Init /\ [][Next]_vars

\* The loops run their events, a worker leaves its signals and a call goes
\* on; no connection, reply or call of the program is relied on.  A callback
\* of the main thread may make many calls, but it returns, and every round
\* of the loop ends with its events.
Fairness ==
  /\ SF_vars(Event(Main))
  /\ \A w \in WorkerThreads : WF_vars(Event(w)) /\ WF_vars(Upgrade(w))
  /\ WF_vars(GoOn)
FairSpec == Spec /\ Fairness
-----------------------------------------------------------------------------
(* Properties.                                                             *)

States == {"free", "given", "receive", "authorize", "serve", "reply", "switch",
           "ended", "upgrade", "leaked"}
EventTypes == {"accept", "removeHandler", "removeServlet", "servletInfo", "upgrade"}

\* The state keeps its types.
TypeOK ==
  /\ threads \in {0, Workers} /\ listening \in BOOLEAN /\ useWorker \in 1 .. Workers + 1
  /\ handlers \in [Threads -> SUBSET Acceptors]
  /\ queue \in [Threads -> Seq([type : EventTypes, of : Acceptors \cup Servlets \cup {None}])]
  /\ draining \in [Threads -> BOOLEAN]
  /\ acceptor \in [Acceptors -> [state : States, servlet : Servlets \cup {None},
                                 finished : BOOLEAN]]
  /\ servlets \in [Servlets -> {"absent", "mapped", "shutdown"}]
  /\ pending \subseteq Acceptors
  /\ inside \in [WorkerThreads -> [acceptor : Acceptors \cup {None},
                                   step : {"none", "takenOff", "given"}]]
  /\ connections \in Nat
  /\ call \in [op : {"none", "remove", "isIdle", "cancel"}, servlet : Servlets \cup {None},
               next : 0 .. Workers + 1, asked : BOOLEAN]
  /\ answer \in {"none", "removed", "idle", "busy"} /\ idle \subseteq Servlets

Queued(t, type) == {i \in DOMAIN queue[t] : queue[t][i].type = type}

\* Where an acceptor is held: an event on its way to a worker, the list of a
\* thread, a worker that takes it off its list, or the pending upgrades.
Holders(a) ==
  {<<"handlers", t>> : t \in {u \in Threads : a \in handlers[u]}}
  \cup {<<"inside", w>> : w \in {u \in WorkerThreads : inside[u] = [acceptor |-> a, step |-> "takenOff"]}}
  \cup {<<"pending">> : i \in pending \cap {a}}
  \cup UNION {{<<"queue", t, i>> : i \in {j \in Queued(t, "accept") : queue[t][j].of = a}} : t \in Threads}

\* Every acceptor that is alive has one holder, which will delete it or pass
\* it on, and a deleted one has none: none is deleted twice or used by two
\* threads.  Only cancel() loses some, those on the way to a worker.
OneOwner ==
  \A a \in Acceptors :
    Cardinality(Holders(a)) = IF acceptor[a].state \in {"free", "leaked"} THEN 0 ELSE 1

\* A RemoveHandlerEvent names an address: when it comes late, the acceptor
\* was deleted by then and another may have been built there.  In a worker
\* the accept event of that one is behind it, so it never hits an acceptor
\* that goes on.
StaleRemoveHarmless ==
  \A w \in WorkerThreads : \A i \in Queued(w, "removeHandler") :
    LET a == queue[w][i].of IN a \in handlers[w] => acceptor[a].finished

\* `returns when all connections using the service are closed'
\* (ServerImpl::removeServlet): when it has returned, no thread serves an
\* acceptor with the servlet, also when a request that had found the servlet
\* was in progress.
RemovedServletUnused ==
  \A s \in Servlets : servlets[s] = "absent" /\ call.servlet # s =>
    \A t \in Threads : handlers[t] \cap Using(s) = {}

\* isServletIdle asks one thread after the other while the others serve: its
\* answer holds all the same, for all threads, once the servlet is shut down.
IdleMeansUnused ==
  \A s \in idle : \A t \in Threads : handlers[t] \cap Using(s) = {}

\* The same as RemovedServletUnused for every acceptor, also one that is
\* being upgraded.
RemovedServletGone ==
  \A s \in Servlets : servlets[s] = "absent" /\ call.servlet # s => Using(s) = {}

\* removeServlet, isServletIdle and cancel return: their waiting for each
\* worker ends.
CallsReturn == call # NoCall ~> call = NoCall

\* An acceptor that is finished is deleted.
FinishedRemoved ==
  \A a \in Acceptors : acceptor[a].finished ~> ~acceptor[a].finished

\* An acceptor that waits for its upgrade is taken by the main thread.
UpgradesServed ==
  \A a \in Acceptors : acceptor[a].state = "upgrade" ~> acceptor[a].state # "upgrade"
=============================================================================
