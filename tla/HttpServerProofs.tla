-------------------------- MODULE HttpServerProofs ---------------------------
(***************************************************************************)
(* Proofs about HttpServer, for every number of workers, acceptors and     *)
(* servlets.                                                               *)
(*                                                                         *)
(* Placement: an acceptor is in one place, and its state says in which.    *)
(* So an accept event carries an acceptor without a servlet, and a free    *)
(* address is in no list.  Asking: a question to a worker is in its queue  *)
(* only while the call waits for its answer.  Usage: a thread that was     *)
(* searched stays without the servlet, as nobody finds one that is not     *)
(* mapped; at the end of the call all threads were searched.  Stopping: a  *)
(* thread that is stopped has nothing left.  Stale: the removal of an      *)
(* acceptor is in front of the accept event of the next at its address.    *)
(***************************************************************************)
EXTENDS HttpServer, FiniteSetTheorems, TLAPS

USE HttpServerAssumption DEF HttpServerAssumption

-----------------------------------------------------------------------------
(* The inductive invariant.                                                *)

Live == {"receive", "authorize", "serve", "reply", "switch", "ended"}

Listed ==
  /\ \A t \in Threads : \A a \in handlers[t] : acceptor[a].state \in Live
  /\ \A t, u \in Threads : t # u => handlers[t] \cap handlers[u] = {}

Underway ==
  /\ \A t \in Threads : \A i \in DOMAIN queue[t] :
       queue[t][i].type = "accept" =>
         /\ t # Main /\ queue[t][i].of \in Acceptors
         /\ acceptor[queue[t][i].of] = [Free EXCEPT !.state = "given"]
  /\ \A t, u \in Threads : \A i \in DOMAIN queue[t], j \in DOMAIN queue[u] :
       /\ queue[t][i].type = "accept" /\ queue[u][j].type = "accept"
       /\ queue[t][i].of = queue[u][j].of
       => t = u /\ i = j

Upgrading ==
  /\ \A a \in pending : acceptor[a].state = "upgrade"
  /\ \A w \in WorkerThreads : inside[w].step = "takenOff" =>
       /\ inside[w].acceptor \in Acceptors \ pending
       /\ acceptor[inside[w].acceptor].state = "upgrade"
  /\ \A w, v \in WorkerThreads :
       /\ inside[w].step = "takenOff" /\ inside[v].step = "takenOff"
       /\ inside[w].acceptor = inside[v].acceptor
       => w = v

Blank == \A a \in Acceptors : acceptor[a].state = "free" => acceptor[a] = Free

Placement == Listed /\ Underway /\ Upgrading /\ Blank

Stopped(w) == threads = 0 \/ (call.op = "cancel" /\ w < call.next)

Stopping ==
  /\ call.op = "cancel" => ~listening
  /\ \A w \in WorkerThreads : Stopped(w) => handlers[w] = {} /\ queue[w] = <<>>

Question == {"removeServlet", "servletInfo"}

Asking ==
  /\ call.asked => call.op \in {"remove", "isIdle"} /\ call.next \in 1 .. threads
  /\ ~call.asked => answer = "none"
  /\ call.op \in {"remove", "isIdle"} => call.servlet \in Servlets
  /\ call.op = "remove" => servlets[call.servlet] = "absent" /\ answer \in {"none", "removed"}
  /\ call.op = "isIdle" => answer # "removed" /\ call.next > 0

Questions ==
  /\ \A t \in Threads : \A i \in DOMAIN queue[t] :
       queue[t][i].type \in Question =>
         /\ call.asked /\ answer = "none"
         /\ t = call.next /\ queue[t][i].of = call.servlet
         /\ (queue[t][i].type = "removeServlet") = (call.op = "remove")
  /\ \A t \in Threads : \A i, j \in DOMAIN queue[t] :
       queue[t][i].type \in Question /\ queue[t][j].type \in Question => i = j

Unused(s, t) == handlers[t] \cap Using(s) = {}

Searched(t) ==
  \/ call.next > t
  \/ call.next = t /\ answer \in {"removed", "idle"}

Usage ==
  /\ \A s \in Servlets : servlets[s] = "absent" /\ ~(call.op = "remove" /\ call.servlet = s) =>
       \A t \in Threads : Unused(s, t)
  /\ \A s \in idle : servlets[s] = "shutdown" /\ \A t \in Threads : Unused(s, t)
  /\ call.op \in {"remove", "isIdle"} /\ servlets[call.servlet] # "mapped" =>
       \A t \in Threads : Searched(t) => Unused(call.servlet, t)

(* A late removal is in front of the accept event of the next acceptor.    *)
Stale ==
  /\ \A w \in WorkerThreads : \A i \in DOMAIN queue[w] :
       queue[w][i].type = "removeHandler" /\ queue[w][i].of \in handlers[w] =>
         acceptor[queue[w][i].of].finished
  /\ \A w \in WorkerThreads : \A i, j \in DOMAIN queue[w] :
       /\ queue[w][i].type = "accept" /\ queue[w][j].type = "removeHandler"
       /\ queue[w][i].of = queue[w][j].of
       => j < i

IInv == Placement /\ Stopping /\ Asking /\ Questions /\ Usage /\ Stale

-----------------------------------------------------------------------------
(* Queues.                                                                 *)

EventType == [type : EventTypes, of : Acceptors \cup Servlets \cup {None}]

LEMMA ThreadFacts ==
  /\ Main \in Threads
  /\ \A w \in WorkerThreads : w \in Threads /\ w # Main /\ w \in Nat
  /\ \A t \in Threads : t \in Nat /\ (t = Main \/ t \in WorkerThreads)
BY DEF Main, Threads, WorkerThreads

LEMMA EventTypesOK ==
  /\ UpgradeEvent \in EventType
  /\ \A a \in Acceptors : AcceptEvent(a) \in EventType /\ RemoveHandlerEvent(a) \in EventType
  /\ \A s \in Servlets : RemoveServletEvent(s) \in EventType /\ ServletInfoEvent(s) \in EventType
BY DEF EventType, EventTypes, UpgradeEvent, AcceptEvent, RemoveHandlerEvent, RemoveServletEvent,
       ServletInfoEvent

(* An event that is committed comes behind all others.                     *)
LEMMA CommitFacts ==
  ASSUME queue \in [Threads -> Seq(EventType)], NEW t \in Threads, NEW ev \in EventType,
         commitEvent(t, ev)
  PROVE  /\ queue' \in [Threads -> Seq(EventType)]
         /\ \A u \in Threads : \A i \in DOMAIN queue'[u] :
              \/ i \in DOMAIN queue[u] /\ queue'[u][i] = queue[u][i]
              \/ u = t /\ i \notin DOMAIN queue[u] /\ queue'[u][i] = ev
                 /\ i \in Nat /\ \A j \in DOMAIN queue[u] : j \in Nat /\ j < i
<1>1. queue[t] \in Seq(EventType) /\ Append(queue[t], ev) \in Seq(EventType)
  OBVIOUS
<1>2. queue' = [queue EXCEPT ![t] = Append(queue[t], ev)]
  BY DEF commitEvent
<1>3. \A i \in DOMAIN Append(queue[t], ev) :
        \/ i \in DOMAIN queue[t] /\ Append(queue[t], ev)[i] = queue[t][i]
        \/ i \notin DOMAIN queue[t] /\ Append(queue[t], ev)[i] = ev
           /\ i \in Nat /\ \A j \in DOMAIN queue[t] : j \in Nat /\ j < i
  BY <1>1
<1>. QED
  BY <1>1, <1>2, <1>3, Zenon

(* An event that is received leaves the others where they are.             *)
LEMMA PopFacts ==
  ASSUME queue \in [Threads -> Seq(EventType)], NEW t \in Threads, queue[t] # <<>>, Pop(t)
  PROVE  /\ queue' \in [Threads -> Seq(EventType)]
         /\ 1 \in DOMAIN queue[t] /\ Head(queue[t]) = queue[t][1]
         /\ \A u \in Threads : u # t => queue'[u] = queue[u]
         /\ \A i \in DOMAIN queue'[t] :
              i \in Nat /\ i >= 1 /\ i + 1 \in DOMAIN queue[t] /\ queue'[t][i] = queue[t][i + 1]
<1>1. queue[t] \in Seq(EventType) /\ Tail(queue[t]) \in Seq(EventType)
  OBVIOUS
<1>2. queue' = [queue EXCEPT ![t] = Tail(queue[t])]
  BY DEF Pop
<1>3. /\ 1 \in DOMAIN queue[t] /\ Head(queue[t]) = queue[t][1]
      /\ \A i \in DOMAIN Tail(queue[t]) :
           i \in Nat /\ i >= 1 /\ i + 1 \in DOMAIN queue[t] /\ Tail(queue[t])[i] = queue[t][i + 1]
  BY <1>1
<1>. QED
  BY <1>1, <1>2, <1>3, Zenon

(* What comes has a type, and is the first event of the queue.             *)
LEMMA ComesFacts ==
  ASSUME queue \in [Threads -> Seq(EventType)], NEW t \in Threads, NEW type, Comes(t, type)
  PROVE  /\ queue[t] # <<>> /\ 1 \in DOMAIN queue[t]
         /\ Head(queue[t]) = queue[t][1]
         /\ queue[t][1] \in EventType /\ queue[t][1].type = type
<1>1. queue[t] \in Seq(EventType) /\ queue[t] # <<>> /\ Head(queue[t]).type = type
  BY DEF Comes
<1>. QED
  BY <1>1

-----------------------------------------------------------------------------
(* Types.                                                                  *)

Record == [state : States, servlet : Servlets \cup {None}, finished : BOOLEAN]

LEMMA DeleteType ==
  ASSUME acceptor \in [Acceptors -> Record], NEW D, Delete(D)
  PROVE  /\ acceptor' \in [Acceptors -> Record]
         /\ \A a \in Acceptors : acceptor'[a] = IF a \in D THEN Free ELSE acceptor[a]
<1>1. Free \in Record
  BY DEF Free, Record, States
<1>. QED
  BY <1>1 DEF Delete

LEMMA TypeInit == Init => TypeOK
<1>. SUFFICES ASSUME Init PROVE TypeOK
  OBVIOUS
<1>1. acceptor \in [Acceptors -> Record]
  BY DEF Init, Free, Record, States
<1>2. call \in [op : {"none", "remove", "isIdle", "cancel"}, servlet : Servlets \cup {None},
                next : 0 .. Workers + 1, asked : BOOLEAN]
  BY DEF Init, NoCall
<1>3. inside \in [WorkerThreads -> [acceptor : Acceptors \cup {None},
                                   step : {"none", "takenOff", "given"}]]
  BY DEF Init, Outside
<1>4. queue \in [Threads -> Seq(EventType)]
  BY DEF Init
<1>5. /\ handlers \in [Threads -> SUBSET Acceptors]
      /\ draining \in [Threads -> BOOLEAN]
      /\ servlets \in [Servlets -> {"absent", "mapped", "shutdown"}]
  BY DEF Init
<1>6. /\ threads \in {0, Workers} /\ listening \in BOOLEAN /\ useWorker \in 1 .. Workers + 1
      /\ pending \subseteq Acceptors /\ connections \in Nat
      /\ answer \in {"none", "removed", "idle", "busy"} /\ idle \subseteq Servlets
  BY DEF Init
<1>. QED
  BY <1>1, <1>2, <1>3, <1>4, <1>5, <1>6 DEF TypeOK, Record, EventType

LoopType ==
  /\ handlers \in [Threads -> SUBSET Acceptors]
  /\ queue \in [Threads -> Seq(EventType)]
  /\ draining \in [Threads -> BOOLEAN]
  /\ acceptor \in [Acceptors -> Record]

UpgradeType ==
  /\ pending \subseteq Acceptors
  /\ inside \in [WorkerThreads -> [acceptor : Acceptors \cup {None},
                                   step : {"none", "takenOff", "given"}]]
  /\ connections \in Nat

CallType ==
  /\ call \in [op : {"none", "remove", "isIdle", "cancel"}, servlet : Servlets \cup {None},
               next : 0 .. Workers + 1, asked : BOOLEAN]
  /\ answer \in {"none", "removed", "idle", "busy"} /\ idle \subseteq Servlets

ConfigType ==
  /\ threads \in {0, Workers} /\ listening \in BOOLEAN /\ useWorker \in 1 .. Workers + 1
  /\ servlets \in [Servlets -> {"absent", "mapped", "shutdown"}]

LEMMA TypeParts ==
  /\ TypeOK <=> LoopType /\ UpgradeType /\ CallType /\ ConfigType
  /\ TypeOK' <=> LoopType' /\ UpgradeType' /\ CallType' /\ ConfigType'
BY DEF TypeOK, LoopType, UpgradeType, CallType, ConfigType, EventType, Record

LEMMA TypeKept ==
  /\ LoopType /\ UNCHANGED loopVars => LoopType'
  /\ UpgradeType /\ UNCHANGED upgradeVars => UpgradeType'
  /\ CallType /\ UNCHANGED callVars => CallType'
  /\ ConfigType /\ UNCHANGED configVars => ConfigType'
BY DEF LoopType, loopVars, UpgradeType, upgradeVars, CallType, callVars, ConfigType, configVars

(* What the steps of a request have in common.                             *)
Served(t, a) ==
  /\ InCallbacks(t) /\ a \in handlers[t]
  /\ \E r \in Record :
       /\ acceptor' = [acceptor EXCEPT ![a] = r]
       /\ r.state \in Live
       /\ acceptor[a].finished => r.finished
       /\ \/ r.servlet \in {None, acceptor[a].servlet}
          \/ (r.servlet \in Servlets /\ servlets[r.servlet] = "mapped")
       /\ \/ UNCHANGED queue
          \/ (commitEvent(t, RemoveHandlerEvent(a)) /\ r.finished)
  /\ UNCHANGED <<handlers, draining>>
  /\ UNCHANGED callVars /\ UNCHANGED upgradeVars /\ UNCHANGED configVars

LEMMA ServedByGoesOn ==
  ASSUME TypeOK, NEW t \in Threads, NEW a \in Acceptors, NEW state, NEW s \in Servlets \cup {None},
         InCallbacks(t), a \in handlers[t], state \in Live, GoesOn(a, state, s),
         s \in {None, acceptor[a].servlet} \/ (s \in Servlets /\ servlets[s] = "mapped"),
         UNCHANGED callVars /\ UNCHANGED upgradeVars /\ UNCHANGED configVars
  PROVE  Served(t, a)
<1>. DEFINE r == [acceptor[a] EXCEPT !.state = state, !.servlet = s]
<1>1. acceptor \in [Acceptors -> Record]
  BY TypeParts DEF LoopType
<1>2. r \in Record /\ r.state = state /\ r.servlet = s /\ r.finished = acceptor[a].finished
  BY <1>1 DEF Record, Live, States
<1>3. acceptor' = [acceptor EXCEPT ![a] = r]
  BY <1>1 DEF GoesOn, Record
<1>. HIDE DEF r
<1>. QED
  BY <1>2, <1>3 DEF Served, GoesOn

LEMMA ServedByFinishes ==
  ASSUME TypeOK, NEW t \in Threads, NEW a \in Acceptors, NEW state, NEW s \in Servlets \cup {None},
         InCallbacks(t), a \in handlers[t], state \in Live, Finishes(t, a, state, s),
         s \in {None, acceptor[a].servlet} \/ (s \in Servlets /\ servlets[s] = "mapped"),
         UNCHANGED callVars /\ UNCHANGED upgradeVars /\ UNCHANGED configVars
  PROVE  Served(t, a)
<1>. DEFINE r == [state |-> state, servlet |-> s, finished |-> TRUE]
<1>2. r \in Record /\ r.state = state /\ r.servlet = s /\ r.finished
  BY DEF Record, Live, States
<1>3. acceptor' = [acceptor EXCEPT ![a] = r]
  BY DEF Finishes
<1>. HIDE DEF r
<1>. QED
  BY <1>2, <1>3 DEF Served, Finishes

LEMMA RequestsAreServed ==
  ASSUME TypeOK, NEW t \in Threads, NEW a \in Acceptors,
         onRequestReceived(t, a) \/ onAuthorization(t, a) \/ setFinished(t, a) \/ onReplySent(t, a)
  PROVE  Served(t, a)
<1>1. acceptor[a].servlet \in Servlets \cup {None}
  BY TypeParts DEF LoopType, Record
<1>2. {"reply", "serve", "authorize", "switch", "receive", "ended"} \subseteq Live
  BY DEF Live
<1>. USE ServedByGoesOn, ServedByFinishes, <1>1, <1>2
<1>3. CASE onRequestReceived(t, a)
  BY <1>3 DEF onRequestReceived, Serving, Fails
<1>4. CASE onAuthorization(t, a)
  BY <1>4 DEF onAuthorization, Serving, Fails
<1>5. CASE setFinished(t, a)
  BY <1>5 DEF setFinished, Serving, Fails
<1>6. CASE onReplySent(t, a)
  BY <1>6 DEF onReplySent, Serving
<1>. QED
  BY <1>3, <1>4, <1>5, <1>6

LEMMA CommitType ==
  ASSUME LoopType, NEW t \in Threads, NEW ev \in EventType, commitEvent(t, ev)
  PROVE  queue' \in [Threads -> Seq(EventType)]
BY CommitFacts DEF LoopType

LEMMA PopType ==
  ASSUME LoopType, NEW t \in Threads, NEW type, Comes(t, type), Pop(t)
  PROVE  /\ queue' \in [Threads -> Seq(EventType)]
         /\ draining' \in [Threads -> BOOLEAN]
<1>1. queue[t] # <<>>
  BY DEF Comes
<1>2. queue' \in [Threads -> Seq(EventType)]
  BY <1>1, PopFacts DEF LoopType
<1>3. draining' \in [Threads -> BOOLEAN]
  BY DEF Pop, LoopType
<1>. QED
  BY <1>2, <1>3

LEMMA ServedType ==
  ASSUME TypeOK, NEW t \in Threads, NEW a \in Acceptors, Served(t, a)
  PROVE  TypeOK'
<1>1. LoopType'
  <2>1. acceptor' \in [Acceptors -> Record]
    BY TypeParts DEF LoopType, Served
  <2>2. queue' \in [Threads -> Seq(EventType)]
    BY TypeParts, CommitType, EventTypesOK DEF LoopType, Served
  <2>. QED
    BY <2>1, <2>2, TypeParts DEF LoopType, Served
<1>. QED
  BY <1>1, TypeParts, TypeKept DEF Served

(* The state of an acceptor, or its removal from a list.                   *)
LEMMA SetState ==
  ASSUME LoopType, NEW a \in Acceptors, NEW state \in States,
         acceptor' = [acceptor EXCEPT ![a].state = state]
  PROVE  /\ acceptor' \in [Acceptors -> Record]
         /\ \A b \in Acceptors : b # a => acceptor'[b] = acceptor[b]
         /\ acceptor'[a].state = state
         /\ acceptor'[a].servlet = acceptor[a].servlet
         /\ acceptor'[a].finished = acceptor[a].finished
BY DEF LoopType, Record

LEMMA TypeStepAcceptor ==
  ASSUME TypeOK, NEW t \in Threads, NEW a \in Acceptors,
         \/ t = Main /\ onHandlerUpgraded(a)
         \/ t # Main /\ TakeOff(t, a)
  PROVE  TypeOK'
<1>. USE TypeParts, TypeKept, ThreadFacts
<1>1. CASE onHandlerUpgraded(a)
  <2>1. acceptor' \in [Acceptors -> Record]
    BY <1>1, SetState DEF onHandlerUpgraded, States
  <2>2. queue' \in [Threads -> Seq(EventType)]
    BY <1>1, CommitType, EventTypesOK DEF onHandlerUpgraded
  <2>. QED
    BY <1>1, <2>1, <2>2 DEF onHandlerUpgraded, LoopType, UpgradeType
<1>2. CASE t # Main /\ TakeOff(t, a)
  <2>1. acceptor' \in [Acceptors -> Record]
    BY <1>2, SetState DEF TakeOff, States
  <2>2. inside' \in [WorkerThreads -> [acceptor : Acceptors \cup {None},
                                      step : {"none", "takenOff", "given"}]]
    BY <1>2 DEF TakeOff, UpgradeType
  <2>. QED
    BY <1>2, <2>1, <2>2 DEF TakeOff, LoopType, UpgradeType
<1>. QED
  BY <1>1, <1>2

LEMMA TypeStepUpgrade ==
  ASSUME TypeOK, Upgrading, NEW w \in WorkerThreads, Upgrade(w)
  PROVE  TypeOK'
<1>. USE TypeParts, TypeKept, ThreadFacts
<1>1. CASE GiveToMain(w)
  <2>1. inside[w].acceptor \in Acceptors
    BY <1>1 DEF GiveToMain, Upgrading
  <2>2. inside' \in [WorkerThreads -> [acceptor : Acceptors \cup {None},
                                      step : {"none", "takenOff", "given"}]]
    BY <1>1 DEF GiveToMain, UpgradeType
  <2>. QED
    BY <1>1, <2>1, <2>2 DEF GiveToMain, UpgradeType
<1>2. CASE WakeMain(w)
  <2>1. queue' \in [Threads -> Seq(EventType)]
    BY <1>2, CommitType, EventTypesOK DEF WakeMain
  <2>2. inside' \in [WorkerThreads -> [acceptor : Acceptors \cup {None},
                                      step : {"none", "takenOff", "given"}]]
    BY <1>2 DEF WakeMain, UpgradeType, Outside
  <2>. QED
    BY <1>2, <2>1, <2>2 DEF WakeMain, LoopType, UpgradeType
<1>. QED
  BY <1>1, <1>2 DEF Upgrade

LEMMA TypeStepEvent ==
  ASSUME TypeOK, Underway, NEW t \in Threads, Event(t)
  PROVE  TypeOK'
<1>. USE TypeParts, TypeKept, ThreadFacts
<1>1. ASSUME onAcceptEvent(t) PROVE TypeOK'
  <2>. DEFINE a == Head(queue[t]).of
  <2>1. a \in Acceptors
    BY <1>1, ComesFacts DEF onAcceptEvent, Underway, LoopType
  <2>2. acceptor' \in [Acceptors -> Record]
    BY <1>1, <2>1, SetState DEF onAcceptEvent, States
  <2>3. handlers' \in [Threads -> SUBSET Acceptors]
    BY <1>1, <2>1 DEF onAcceptEvent, LoopType
  <2>4. queue' \in [Threads -> Seq(EventType)] /\ draining' \in [Threads -> BOOLEAN]
    BY <1>1, PopType DEF onAcceptEvent
  <2>. QED
    BY <1>1, <2>2, <2>3, <2>4 DEF onAcceptEvent, LoopType
<1>2. ASSUME onRemoveHandler(t) PROVE TypeOK'
  <2>2. acceptor' \in [Acceptors -> Record]
    BY <1>2, DeleteType DEF onRemoveHandler, LoopType
  <2>3. handlers' \in [Threads -> SUBSET Acceptors]
    BY <1>2 DEF onRemoveHandler, LoopType
  <2>4. queue' \in [Threads -> Seq(EventType)] /\ draining' \in [Threads -> BOOLEAN]
    BY <1>2, PopType DEF onRemoveHandler
  <2>. QED
    BY <1>2, <2>2, <2>3, <2>4 DEF onRemoveHandler, LoopType
<1>3. ASSUME onRemoveServlet(t) PROVE TypeOK'
  <2>2. acceptor' \in [Acceptors -> Record]
    BY <1>3, DeleteType DEF onRemoveServlet, LoopType
  <2>3. handlers' \in [Threads -> SUBSET Acceptors]
    BY <1>3 DEF onRemoveServlet, LoopType
  <2>4. queue' \in [Threads -> Seq(EventType)] /\ draining' \in [Threads -> BOOLEAN]
    BY <1>3, PopType DEF onRemoveServlet
  <2>5. CallType'
    BY <1>3 DEF onRemoveServlet, CallType
  <2>. QED
    BY <1>3, <2>2, <2>3, <2>4, <2>5 DEF onRemoveServlet, LoopType
<1>4. ASSUME onIsServletIdle(t) PROVE TypeOK'
  <2>4. queue' \in [Threads -> Seq(EventType)] /\ draining' \in [Threads -> BOOLEAN]
    BY <1>4, PopType DEF onIsServletIdle
  <2>5. CallType'
    BY <1>4 DEF onIsServletIdle, CallType
  <2>. QED
    BY <1>4, <2>4, <2>5 DEF onIsServletIdle, LoopType
<1>5. ASSUME onUpgrade PROVE TypeOK'
  <2>1. CASE Pop(Main) /\ UNCHANGED <<handlers, acceptor, upgradeVars>>
    <3>1. queue' \in [Threads -> Seq(EventType)] /\ draining' \in [Threads -> BOOLEAN]
      BY <1>5, <2>1, PopType DEF onUpgrade
    <3>. QED
      BY <1>5, <2>1, <3>1 DEF onUpgrade, LoopType
  <2>2. ASSUME NEW a \in pending, pending' = pending \ {a}, Delete({a}),
               connections' \in {connections, connections + 1},
               draining' = [draining EXCEPT ![Main] = TRUE],
               UNCHANGED <<handlers, queue, inside>>
        PROVE  TypeOK'
    <3>1. acceptor' \in [Acceptors -> Record]
      BY <2>2, DeleteType DEF LoopType
    <3>2. draining' \in [Threads -> BOOLEAN]
      BY <2>2 DEF LoopType
    <3>. QED
      BY <1>5, <2>2, <3>1, <3>2 DEF onUpgrade, LoopType, UpgradeType
  <2>. QED
    BY <1>5, <2>1, <2>2 DEF onUpgrade
<1>. QED
  BY <1>1, <1>2, <1>3, <1>4, <1>5 DEF Event

LEMMA TypeStepMain ==
  ASSUME TypeOK, Asking, onAccept \/ onConnectionClosed \/ Call
  PROVE  TypeOK'
<1>. USE TypeParts, TypeKept, ThreadFacts
<1>1. CASE onAccept
  <2>1. PICK a \in Acceptors :
          \/ /\ useWorker <= threads
             /\ commitEvent(useWorker, AcceptEvent(a))
             /\ acceptor' = [acceptor EXCEPT ![a].state = "given"]
             /\ useWorker' = useWorker + 1
             /\ UNCHANGED handlers
          \/ /\ useWorker > threads
             /\ handlers' = [handlers EXCEPT ![Main] = @ \cup {a}]
             /\ acceptor' = [acceptor EXCEPT ![a].state = "receive"]
             /\ useWorker' = 1
             /\ UNCHANGED queue
    BY <1>1 DEF onAccept
  <2>2. acceptor' \in [Acceptors -> Record]
    BY <2>1, SetState DEF States
  <2>3. handlers' \in [Threads -> SUBSET Acceptors]
    <3>1. /\ handlers \in [Threads -> SUBSET Acceptors]
          /\ [handlers EXCEPT ![Main] = @ \cup {a}] \in [Threads -> SUBSET Acceptors]
      BY DEF LoopType
    <3>. QED
      BY <2>1, <3>1, Zenon
  <2>4. useWorker <= threads => useWorker \in Threads
    BY DEF ConfigType, Threads, WorkerThreads
  <2>5. queue' \in [Threads -> Seq(EventType)]
    BY <2>1, <2>4, CommitType, EventTypesOK DEF LoopType
  <2>6. useWorker' \in 1 .. Workers + 1
    BY <2>1 DEF ConfigType
  <2>. QED
    BY <1>1, <2>2, <2>3, <2>5, <2>6 DEF onAccept, LoopType, ConfigType
<1>2. CASE onConnectionClosed
  BY <1>2 DEF onConnectionClosed, UpgradeType
<1>3. ASSUME NEW s \in Servlets, addServlet(s) PROVE TypeOK'
  BY <1>3 DEF addServlet, ConfigType
<1>4. ASSUME NEW s \in Servlets, shutdownServlet(s) PROVE TypeOK'
  BY <1>4 DEF shutdownServlet, ConfigType, CallType
<1>5. ASSUME NEW s \in Servlets, removeServlet(s) PROVE TypeOK'
  <2>1. /\ call' = [op |-> "remove", servlet |-> s, next |-> 0, asked |-> FALSE]
        /\ answer' = answer /\ idle' = idle \ {s}
    BY <1>5 DEF removeServlet, NoCall
  <2>2. CallType'
    BY <2>1 DEF CallType
  <2>. QED
    BY <1>5, <2>2 DEF removeServlet, ConfigType
<1>6. ASSUME NEW s \in Servlets, isServletIdle(s) PROVE TypeOK'
  <2>1. /\ call' = [op |-> "isIdle", servlet |-> s, next |-> 1, asked |-> FALSE]
        /\ UNCHANGED <<answer, idle>>
    BY <1>6 DEF isServletIdle, NoCall
  <2>2. CallType'
    BY <2>1 DEF CallType
  <2>. QED
    BY <1>6, <2>2 DEF isServletIdle
<1>7. CASE cancel
  <2>1. /\ call' = [op |-> "cancel", servlet |-> None, next |-> 1, asked |-> FALSE]
        /\ UNCHANGED <<answer, idle>>
    BY <1>7 DEF cancel, NoCall
  <2>2. CallType'
    BY <2>1 DEF CallType
  <2>3. acceptor' \in [Acceptors -> Record]
    BY <1>7, DeleteType DEF cancel, LoopType
  <2>. QED
    BY <1>7, <2>2, <2>3 DEF cancel, LoopType, UpgradeType, ConfigType
<1>. QED
  BY <1>1, <1>2, <1>3, <1>4, <1>5, <1>6, <1>7 DEF Call

LEMMA TypeStepGoOn ==
  ASSUME TypeOK, Asking, GoOn
  PROVE  TypeOK'
<1>. USE TypeParts, TypeKept, ThreadFacts
<1>1. CASE RemoveOwn
  <2>1. call' = [call EXCEPT !.next = 1] /\ UNCHANGED <<answer, idle>>
    BY <1>1 DEF RemoveOwn
  <2>2. CallType'
    BY <2>1 DEF CallType
  <2>3. acceptor' \in [Acceptors -> Record]
    BY <1>1, DeleteType DEF RemoveOwn, LoopType
  <2>4. handlers' \in [Threads -> SUBSET Acceptors] /\ pending' \subseteq Acceptors
    BY <1>1 DEF RemoveOwn, LoopType, UpgradeType
  <2>. QED
    BY <1>1, <2>2, <2>3, <2>4 DEF RemoveOwn, LoopType, UpgradeType
<1>2. CASE AskWorker
  <2>1. call.next \in Threads /\ call.servlet \in Servlets
    BY <1>2 DEF AskWorker, CallType, ConfigType, Threads, WorkerThreads, Asking
  <2>2. queue' \in [Threads -> Seq(EventType)]
    BY <1>2, <2>1, CommitType, EventTypesOK DEF AskWorker
  <2>3. CallType'
    BY <1>2 DEF AskWorker, CallType
  <2>. QED
    BY <1>2, <2>2, <2>3 DEF AskWorker, LoopType
<1>3. CASE TakeAnswer
  <2>1. call.next + 1 \in 0 .. Workers + 1
    BY <1>3 DEF TakeAnswer, Asking, ConfigType, CallType
  <2>2. NoCall \in [op : {"none", "remove", "isIdle", "cancel"}, servlet : Servlets \cup {None},
                    next : 0 .. Workers + 1, asked : BOOLEAN]
    BY DEF NoCall
  <2>3. CallType'
    BY <1>3, <2>1, <2>2 DEF TakeAnswer, CallType
  <2>. QED
    BY <1>3, <2>3 DEF TakeAnswer
<1>4. CASE EndAsking
  <2>1. CallType'
    BY <1>4 DEF EndAsking, CallType, NoCall, Asking
  <2>. QED
    BY <1>4, <2>1 DEF EndAsking
<1>5. CASE StopWorker
  <2>. DEFINE w == call.next
  <2>1. w \in WorkerThreads /\ w + 1 \in 0 .. Workers + 1
    BY <1>5 DEF StopWorker, CallType, ConfigType, WorkerThreads
  <2>2. CallType'
    BY <1>5, <2>1 DEF StopWorker, CallType
  <2>3. Free \in Record /\ [Free EXCEPT !.state = "leaked"] \in Record
    BY DEF Free, Record, States
  <2>4. acceptor' \in [Acceptors -> Record]
    BY <1>5, <2>3 DEF StopWorker, LoopType
  <2>5. /\ handlers' \in [Threads -> SUBSET Acceptors]
        /\ queue' \in [Threads -> Seq(EventType)]
        /\ draining' \in [Threads -> BOOLEAN]
    BY <1>5, <2>1 DEF StopWorker, LoopType
  <2>. QED
    BY <1>5, <2>2, <2>4, <2>5 DEF StopWorker, LoopType
<1>6. CASE EndCancel
  <2>1. CallType'
    BY <1>6 DEF EndCancel, CallType, NoCall
  <2>2. acceptor' \in [Acceptors -> Record]
    BY <1>6, DeleteType DEF EndCancel, LoopType
  <2>3. handlers' \in [Threads -> SUBSET Acceptors]
    BY <1>6 DEF EndCancel, LoopType
  <2>. QED
    BY <1>6, <2>1, <2>2, <2>3 DEF EndCancel, LoopType, ConfigType
<1>. QED
  BY <1>1, <1>2, <1>3, <1>4, <1>5, <1>6 DEF GoOn

LEMMA TypeStep == TypeOK /\ IInv /\ [Next]_vars => TypeOK'
<1>. SUFFICES ASSUME TypeOK, IInv, [Next]_vars PROVE TypeOK'
  OBVIOUS
<1>1. Underway /\ Upgrading /\ Asking
  BY DEF IInv, Placement
<1>2. ASSUME NEW t \in Threads, Acceptance(t) PROVE TypeOK'
  BY <1>2, RequestsAreServed, ServedType, TypeStepAcceptor DEF Acceptance
<1>3. CASE UNCHANGED vars
  BY <1>3, TypeParts, TypeKept DEF vars
<1>. QED
  BY <1>1, <1>2, <1>3, TypeStepEvent, TypeStepUpgrade, TypeStepMain, TypeStepGoOn DEF Next

-----------------------------------------------------------------------------
(* Placement.                                                              *)

LEMMA InvInit == Init => IInv
<1>. SUFFICES ASSUME Init PROVE IInv
  OBVIOUS
<1>1. /\ \A t \in Threads : handlers[t] = {} /\ queue[t] = <<>> /\ DOMAIN queue[t] = {}
      /\ \A w \in WorkerThreads : inside[w].step = "none" /\ w \in Threads
      /\ \A a \in Acceptors : acceptor[a] = Free
      /\ pending = {} /\ idle = {} /\ answer = "none"
      /\ call.op = "none" /\ ~call.asked
  BY ThreadFacts DEF Init, Outside, NoCall
<1>2. Placement
  BY <1>1 DEF Placement, Listed, Underway, Upgrading, Blank
<1>3. Stopping
  BY <1>1 DEF Stopping
<1>4. Asking /\ Questions
  BY <1>1 DEF Asking, Questions
<1>5. Usage
  BY <1>1 DEF Usage, Unused
<1>6. Stale
  BY <1>1 DEF Stale
<1>. QED
  BY <1>2, <1>3, <1>4, <1>5, <1>6 DEF IInv

(* No accept event enters the queues.                                      *)
NoAccept ==
  \A t \in Threads : \A i \in DOMAIN queue'[t] : queue'[t][i].type = "accept" =>
    i \in DOMAIN queue[t] /\ queue'[t][i] = queue[t][i]

LEMMA CommitNoAccept ==
  ASSUME LoopType, NEW t \in Threads, NEW ev \in EventType, commitEvent(t, ev), ev.type # "accept"
  PROVE  NoAccept
BY CommitFacts DEF LoopType, NoAccept

LEMMA EventNames ==
  /\ UpgradeEvent.type = "upgrade"
  /\ \A a : AcceptEvent(a).type = "accept" /\ AcceptEvent(a).of = a
  /\ \A a : RemoveHandlerEvent(a).type = "removeHandler" /\ RemoveHandlerEvent(a).of = a
  /\ \A s : RemoveServletEvent(s).type = "removeServlet" /\ RemoveServletEvent(s).of = s
  /\ \A s : ServletInfoEvent(s).type = "servletInfo" /\ ServletInfoEvent(s).of = s
BY DEF UpgradeEvent, AcceptEvent, RemoveHandlerEvent, RemoveServletEvent, ServletInfoEvent

(* Underway holds behind a step that gives no acceptor to a worker and     *)
(* leaves those that were given.                                           *)
LEMMA UnderwayKept ==
  ASSUME Underway, NoAccept,
         \A a \in Acceptors : acceptor[a].state = "given" => acceptor'[a] = acceptor[a]
  PROVE  Underway'
<1>1. \A t \in Threads : \A i \in DOMAIN queue'[t] : queue'[t][i].type = "accept" =>
         /\ t # Main /\ queue'[t][i].of \in Acceptors
         /\ acceptor'[queue'[t][i].of] = [Free EXCEPT !.state = "given"]
  <2>. SUFFICES ASSUME NEW t \in Threads, NEW i \in DOMAIN queue'[t], queue'[t][i].type = "accept"
                PROVE  /\ t # Main /\ queue'[t][i].of \in Acceptors
                       /\ acceptor'[queue'[t][i].of] = [Free EXCEPT !.state = "given"]
    OBVIOUS
  <2>1. i \in DOMAIN queue[t] /\ queue'[t][i] = queue[t][i]
    BY DEF NoAccept
  <2>2. /\ t # Main /\ queue[t][i].of \in Acceptors
        /\ acceptor[queue[t][i].of] = [Free EXCEPT !.state = "given"]
    BY <2>1 DEF Underway
  <2>3. acceptor[queue[t][i].of].state = "given"
    BY <2>2 DEF Free
  <2>. QED
    BY <2>1, <2>2, <2>3
<1>2. \A t, u \in Threads : \A i \in DOMAIN queue'[t], j \in DOMAIN queue'[u] :
       /\ queue'[t][i].type = "accept" /\ queue'[u][j].type = "accept"
       /\ queue'[t][i].of = queue'[u][j].of
       => t = u /\ i = j
  BY DEF NoAccept, Underway
<1>. QED
  BY <1>1, <1>2 DEF Underway

LEMMA ServedPlacement ==
  ASSUME TypeOK, Placement, NEW t \in Threads, NEW a \in Acceptors, Served(t, a)
  PROVE  Placement'
<1>1. acceptor \in [Acceptors -> Record] /\ LoopType
  BY TypeParts DEF LoopType
<1>2. /\ acceptor[a].state \in Live
      /\ acceptor'[a].state \in Live
      /\ \A b \in Acceptors : b # a => acceptor'[b] = acceptor[b]
  BY <1>1 DEF Served, Placement, Listed
<1>3. NoAccept
  <2>1. CASE UNCHANGED queue
    BY <2>1 DEF NoAccept
  <2>2. CASE commitEvent(t, RemoveHandlerEvent(a))
    BY <2>2, <1>1, CommitNoAccept, EventTypesOK, EventNames
  <2>. QED
    BY <2>1, <2>2 DEF Served
<1>4. UNCHANGED <<handlers, pending, inside>> /\ pending \subseteq Acceptors
  BY TypeParts DEF Served, upgradeVars, UpgradeType
<1>5. Listed'
  BY <1>1, <1>2, <1>4 DEF Placement, Listed, LoopType
<1>6. Underway'
  BY <1>2, <1>3, UnderwayKept DEF Placement, Live
<1>7. Upgrading'
  BY <1>2, <1>4 DEF Placement, Upgrading, Live
<1>8. Blank'
  BY <1>2 DEF Placement, Blank, Live
<1>. QED
  BY <1>5, <1>6, <1>7, <1>8 DEF Placement

LEMMA UnderwayPopped ==
  ASSUME LoopType, Underway, NEW t \in Threads, queue[t] # <<>>, Pop(t),
         \A a \in Acceptors :
           /\ acceptor[a].state = "given"
           /\ ~(queue[t][1].type = "accept" /\ queue[t][1].of = a)
           => acceptor'[a] = acceptor[a]
  PROVE  Underway'
<1>. DEFINE Old(u, i) == IF u = t THEN i + 1 ELSE i
<1>1. \A u \in Threads : \A i \in DOMAIN queue'[u] :
        /\ Old(u, i) \in DOMAIN queue[u] /\ queue'[u][i] = queue[u][Old(u, i)]
        /\ u = t => Old(u, i) # 1 /\ i \in Nat
  BY PopFacts DEF LoopType
<1>2. 1 \in DOMAIN queue[t]
  BY PopFacts DEF LoopType
<1>3. \A u, v \in Threads : \A i \in DOMAIN queue'[u], j \in DOMAIN queue'[v] :
        u = v /\ Old(u, i) = Old(v, j) => i = j
  BY <1>1
<1>. HIDE DEF Old
<1>4. ASSUME NEW u \in Threads, NEW i \in DOMAIN queue'[u], queue'[u][i].type = "accept"
      PROVE  /\ u # Main /\ queue'[u][i].of \in Acceptors
             /\ acceptor'[queue'[u][i].of] = [Free EXCEPT !.state = "given"]
  <2>1. /\ Old(u, i) \in DOMAIN queue[u] /\ queue[u][Old(u, i)].type = "accept"
        /\ queue'[u][i].of = queue[u][Old(u, i)].of
    BY <1>1, <1>4
  <2>2. /\ u # Main /\ queue[u][Old(u, i)].of \in Acceptors
        /\ acceptor[queue[u][Old(u, i)].of] = [Free EXCEPT !.state = "given"]
    BY <2>1 DEF Underway
  <2>3. ~(queue[t][1].type = "accept" /\ queue[t][1].of = queue[u][Old(u, i)].of)
    BY <1>1, <1>2, <2>1 DEF Underway
  <2>4. acceptor[queue[u][Old(u, i)].of].state = "given"
    BY <2>2 DEF Free
  <2>. QED
    BY <2>1, <2>2, <2>3, <2>4
<1>5. ASSUME NEW u \in Threads, NEW v \in Threads,
             NEW i \in DOMAIN queue'[u], NEW j \in DOMAIN queue'[v],
             queue'[u][i].type = "accept", queue'[v][j].type = "accept",
             queue'[u][i].of = queue'[v][j].of
      PROVE  u = v /\ i = j
  <2>1. u = v /\ Old(u, i) = Old(v, j)
    BY <1>1, <1>5 DEF Underway
  <2>. QED
    BY <2>1, <1>3
<1>. QED
  BY <1>4, <1>5 DEF Underway

(* Acceptors in D, which no event carries and no worker takes off, are     *)
(* deleted.                                                                *)
LEMMA DeletePlacement ==
  ASSUME LoopType, UpgradeType, Placement, NEW D, Delete(D),
         \A t \in Threads : handlers'[t] = handlers[t] \ D,
         pending' = pending \ D, UNCHANGED inside,
         \A a \in D : a \in pending \/ acceptor[a].state \in Live
  PROVE  /\ Listed' /\ Upgrading' /\ Blank'
         /\ \A a \in Acceptors : acceptor[a].state = "given" => acceptor'[a] = acceptor[a]
<1>1. \A a \in Acceptors : acceptor'[a] = IF a \in D THEN Free ELSE acceptor[a]
  BY DEF Delete
<1>2. \A a \in D : acceptor[a].state \in Live \cup {"upgrade"}
  BY DEF Placement, Upgrading
<1>3. Listed'
  BY <1>1 DEF Placement, Listed, LoopType
<1>4. Upgrading'
  <2>1. \A a \in pending' : a \in pending /\ a \in Acceptors /\ a \notin D
    BY DEF UpgradeType
  <2>2. \A w \in WorkerThreads : inside[w].step = "takenOff" => inside[w].acceptor \notin D
    BY DEF Placement, Upgrading, Live
  <2>. QED
    BY <1>1, <2>1, <2>2 DEF Placement, Upgrading
<1>5. Blank'
  BY <1>1 DEF Placement, Blank
<1>6. \A a \in Acceptors : acceptor[a].state = "given" => acceptor'[a] = acceptor[a]
  BY <1>1, <1>2 DEF Live
<1>. QED
  BY <1>3, <1>4, <1>5, <1>6

LEMMA AcceptorPlacement ==
  ASSUME TypeOK, Placement, NEW t \in Threads, NEW a \in Acceptors,
         \/ t = Main /\ onHandlerUpgraded(a)
         \/ t # Main /\ TakeOff(t, a)
  PROVE  Placement'
<1>1. LoopType /\ UpgradeType
  BY TypeParts
<1>2. a \in handlers[t] /\ acceptor[a].state = "switch"
  BY DEF onHandlerUpgraded, TakeOff, Serving
<1>3. acceptor' = [acceptor EXCEPT ![a].state = "upgrade"]
  BY DEF onHandlerUpgraded, TakeOff
<1>4. /\ acceptor'[a].state = "upgrade"
      /\ \A b \in Acceptors : b # a => acceptor'[b] = acceptor[b]
  BY <1>1, <1>3, SetState DEF States
<1>5. \A u \in Threads : handlers'[u] = IF u = t THEN handlers[u] \ {a} ELSE handlers[u]
  BY <1>1 DEF LoopType, onHandlerUpgraded, TakeOff
<1>6. NoAccept
  <2>1. CASE onHandlerUpgraded(a)
    BY <2>1, <1>1, CommitNoAccept, EventTypesOK, EventNames, ThreadFacts DEF onHandlerUpgraded
  <2>2. CASE UNCHANGED queue
    BY <2>2 DEF NoAccept
  <2>. QED
    BY <2>1, <2>2 DEF TakeOff
<1>7. Listed'
  <2>1. \A u \in Threads : u # t => a \notin handlers[u]
    BY <1>2 DEF Placement, Listed
  <2>2. \A u \in Threads : \A b \in handlers'[u] : b # a /\ b \in handlers[u] /\ b \in Acceptors
    BY <1>1, <1>5, <2>1 DEF LoopType
  <2>. QED
    BY <1>4, <2>2 DEF Placement, Listed
<1>8. Underway'
  BY <1>2, <1>4, <1>6, UnderwayKept DEF Placement
<1>9. Blank'
  BY <1>4 DEF Placement, Blank
<1>10. Upgrading'
  <2>1. /\ a \notin pending
        /\ \A w \in WorkerThreads : inside[w].step = "takenOff" => inside[w].acceptor # a
    BY <1>2 DEF Placement, Upgrading
  <2>2. CASE t = Main /\ onHandlerUpgraded(a)
    <3>1. pending' = pending \cup {a} /\ inside' = inside
      BY <2>2 DEF onHandlerUpgraded
    <3>. QED
      BY <1>1, <1>4, <2>1, <3>1 DEF Placement, Upgrading, UpgradeType
  <2>3. CASE t # Main /\ TakeOff(t, a)
    <3>1. pending' = pending /\ inside' = [inside EXCEPT ![t] = [acceptor |-> a, step |-> "takenOff"]]
      BY <2>3 DEF TakeOff
    <3>2. \A w \in WorkerThreads :
            \/ w # t /\ inside'[w] = inside[w]
            \/ w = t /\ inside'[w].acceptor = a
      BY <1>1, <3>1 DEF UpgradeType
    <3>. QED
      BY <1>1, <1>4, <2>1, <3>1, <3>2 DEF Placement, Upgrading, UpgradeType
  <2>. QED
    BY <2>2, <2>3
<1>. QED
  BY <1>7, <1>8, <1>9, <1>10 DEF Placement

LEMMA UpgradePlacement ==
  ASSUME TypeOK, Placement, NEW w \in WorkerThreads, Upgrade(w)
  PROVE  Placement'
<1>1. LoopType /\ UpgradeType
  BY TypeParts
<1>2. UNCHANGED <<handlers, acceptor>>
  BY DEF Upgrade, GiveToMain, WakeMain, loopVars
<1>3. NoAccept
  <2>1. CASE GiveToMain(w)
    BY <2>1 DEF GiveToMain, loopVars, NoAccept
  <2>2. CASE WakeMain(w)
    BY <2>2, <1>1, CommitNoAccept, EventTypesOK, EventNames, ThreadFacts DEF WakeMain
  <2>. QED
    BY <2>1, <2>2 DEF Upgrade
<1>4. Listed' /\ Blank'
  BY <1>2 DEF Placement, Listed, Blank
<1>5. Underway'
  BY <1>2, <1>3, UnderwayKept DEF Placement
<1>6. Upgrading'
  <2>1. CASE GiveToMain(w)
    <3>1. /\ inside[w].step = "takenOff"
          /\ pending' = pending \cup {inside[w].acceptor}
          /\ inside'[w].step = "given"
          /\ \A v \in WorkerThreads : v # w => inside'[v] = inside[v]
      BY <1>1, <2>1 DEF GiveToMain, UpgradeType
    <3>. QED
      BY <1>2, <3>1 DEF Placement, Upgrading
  <2>2. CASE WakeMain(w)
    <3>1. /\ pending' = pending
          /\ inside'[w].step = "none"
          /\ \A v \in WorkerThreads : v # w => inside'[v] = inside[v]
      BY <1>1, <2>2 DEF WakeMain, UpgradeType, Outside
    <3>. QED
      BY <1>2, <3>1 DEF Placement, Upgrading
  <2>. QED
    BY <2>1, <2>2 DEF Upgrade
<1>. QED
  BY <1>4, <1>5, <1>6 DEF Placement

(* A thread takes an acceptor that was in no list.                         *)
LEMMA ListedWith ==
  ASSUME LoopType, Listed, NEW t \in Threads, NEW a \in Acceptors,
         \A u \in Threads : a \notin handlers[u],
         acceptor'[a].state = "receive",
         \A b \in Acceptors : b # a => acceptor'[b] = acceptor[b],
         \A u \in Threads : handlers'[u] = IF u = t THEN handlers[u] \cup {a} ELSE handlers[u]
  PROVE  Listed'
<1>1. ASSUME NEW u \in Threads, NEW b \in handlers'[u] PROVE acceptor'[b].state \in Live
  <2>1. CASE b = a
    BY <2>1 DEF Live
  <2>2. CASE b # a
    <3>1. b \in handlers[u]
      BY <1>1, <2>2
    <3>2. b \in Acceptors
      BY <3>1 DEF LoopType
    <3>. QED
      BY <2>2, <3>1, <3>2 DEF Listed
  <2>. QED
    BY <2>1, <2>2
<1>2. ASSUME NEW u \in Threads, NEW v \in Threads, u # v
      PROVE  handlers'[u] \cap handlers'[v] = {}
  <2>1. handlers[u] \cap handlers[v] = {}
    BY <1>2 DEF Listed
  <2>2. a \notin handlers[u] /\ a \notin handlers[v]
    OBVIOUS
  <2>3. /\ handlers'[u] = IF u = t THEN handlers[u] \cup {a} ELSE handlers[u]
        /\ handlers'[v] = IF v = t THEN handlers[v] \cup {a} ELSE handlers[v]
    OBVIOUS
  <2>. QED
    BY <1>2, <2>1, <2>2, <2>3
<1>. QED
  BY <1>1, <1>2 DEF Listed

LEMMA EventPlacement ==
  ASSUME TypeOK, Placement, NEW t \in Threads, Event(t)
  PROVE  Placement'
<1>. USE TypeParts, ThreadFacts
<1>1. LoopType /\ UpgradeType
  OBVIOUS
<1>2. ASSUME onAcceptEvent(t), t # Main PROVE Placement'
  <2>. DEFINE a == queue[t][1].of
  <2>1. /\ queue[t] # <<>> /\ 1 \in DOMAIN queue[t] /\ Head(queue[t]) = queue[t][1]
        /\ queue[t][1].type = "accept" /\ Pop(t)
    BY <1>1, <1>2, ComesFacts DEF onAcceptEvent, LoopType
  <2>2. a \in Acceptors /\ acceptor[a] = [Free EXCEPT !.state = "given"]
    BY <2>1 DEF Placement, Underway
  <2>3. acceptor' = [acceptor EXCEPT ![a].state = "receive"]
    BY <1>2, <2>1 DEF onAcceptEvent
  <2>4. /\ acceptor'[a].state = "receive"
        /\ \A b \in Acceptors : b # a => acceptor'[b] = acceptor[b]
    BY <1>1, <2>2, <2>3, SetState DEF States
  <2>5. \A u \in Threads : handlers'[u] = IF u = t THEN handlers[u] \cup {a} ELSE handlers[u]
    BY <1>1, <1>2, <2>1 DEF onAcceptEvent, LoopType
  <2>6. acceptor[a].state = "given"
    BY <2>2 DEF Free
  <2>. HIDE DEF a
  <2>7. UNCHANGED <<pending, inside>>
    BY <1>2 DEF onAcceptEvent, upgradeVars
  <2>8. Listed'
    <3>1. \A u \in Threads : a \notin handlers[u]
      BY <2>6 DEF Placement, Listed, Live
    <3>. QED
      BY <1>1, <2>2, <2>4, <2>5, <3>1, ListedWith DEF Placement, a
  <2>9. Underway'
    BY <1>1, <2>1, <2>4, UnderwayPopped DEF Placement, a
  <2>10. Upgrading'
    BY <1>1, <2>4, <2>6, <2>7 DEF Placement, Upgrading, UpgradeType
  <2>11. Blank'
    BY <2>4 DEF Placement, Blank
  <2>. QED
    BY <2>8, <2>9, <2>10, <2>11 DEF Placement
<1>3. ASSUME NEW D \in SUBSET handlers[t], Delete(D),
             handlers' = [handlers EXCEPT ![t] = @ \ D],
             queue[t] # <<>>, Pop(t), UNCHANGED upgradeVars
      PROVE  Placement'
  <2>1. \A a \in D : acceptor[a].state \in Live
    BY <1>3 DEF Placement, Listed
  <2>2. \A u \in Threads : handlers'[u] = handlers[u] \ D
    BY <1>1, <1>3 DEF Placement, Listed, LoopType
  <2>3. pending' = pending \ D
    BY <1>3, <2>1 DEF Placement, Upgrading, Live, upgradeVars
  <2>4. UNCHANGED inside
    BY <1>3 DEF upgradeVars
  <2>5. /\ Listed' /\ Upgrading' /\ Blank'
        /\ \A a \in Acceptors : acceptor[a].state = "given" => acceptor'[a] = acceptor[a]
    BY <1>1, <1>3, <2>1, <2>2, <2>3, <2>4, DeletePlacement
  <2>6. Underway'
    BY <1>1, <1>3, <2>5, UnderwayPopped DEF Placement
  <2>. QED
    BY <2>5, <2>6 DEF Placement
<1>4. ASSUME onRemoveHandler(t) PROVE Placement'
  <2>1. queue[t] # <<>>
    BY <1>4 DEF onRemoveHandler, Comes
  <2>. QED
    BY <1>3, <1>4, <2>1 DEF onRemoveHandler
<1>5. ASSUME onRemoveServlet(t) PROVE Placement'
  <2>1. queue[t] # <<>>
    BY <1>5 DEF onRemoveServlet, Comes
  <2>. QED
    BY <1>3, <1>5, <2>1 DEF onRemoveServlet
<1>6. ASSUME queue[t] # <<>>, Pop(t), UNCHANGED <<handlers, acceptor, upgradeVars>>
      PROVE  Placement'
  <2>1. Underway'
    BY <1>1, <1>6, UnderwayPopped DEF Placement
  <2>2. Listed' /\ Upgrading' /\ Blank'
    BY <1>6 DEF Placement, Listed, Upgrading, Blank, upgradeVars
  <2>. QED
    BY <2>1, <2>2 DEF Placement
<1>7. ASSUME onIsServletIdle(t) PROVE Placement'
  BY <1>6, <1>7 DEF onIsServletIdle, Comes
<1>8. ASSUME onUpgrade, t = Main PROVE Placement'
  <2>1. CASE Pop(Main) /\ UNCHANGED <<handlers, acceptor, upgradeVars>>
    BY <1>6, <1>8, <2>1 DEF onUpgrade, Comes
  <2>2. ASSUME NEW a \in pending, pending' = pending \ {a}, Delete({a}),
               UNCHANGED <<handlers, queue, inside>>
        PROVE  Placement'
    <3>1. \A u \in Threads : handlers'[u] = handlers[u] \ {a}
      BY <2>2 DEF Placement, Listed, Upgrading, Live
    <3>2. /\ Listed' /\ Upgrading' /\ Blank'
          /\ \A b \in Acceptors : acceptor[b].state = "given" => acceptor'[b] = acceptor[b]
      BY <1>1, <2>2, <3>1, DeletePlacement
    <3>3. Underway'
      BY <2>2, <3>2, UnderwayKept DEF Placement, NoAccept
    <3>. QED
      BY <3>2, <3>3 DEF Placement
  <2>. QED
    BY <1>8, <2>1, <2>2 DEF onUpgrade
<1>. QED
  BY <1>2, <1>4, <1>5, <1>7, <1>8 DEF Event

LEMMA AcceptPlacement ==
  ASSUME TypeOK, Placement, onAccept
  PROVE  Placement'
<1>1. LoopType /\ UpgradeType /\ ConfigType
  BY TypeParts
<1>2. PICK a \in Acceptors :
        /\ acceptor[a].state = "free"
        /\ \/ /\ useWorker <= threads
              /\ commitEvent(useWorker, AcceptEvent(a))
              /\ acceptor' = [acceptor EXCEPT ![a].state = "given"]
              /\ UNCHANGED handlers
           \/ /\ useWorker > threads
              /\ handlers' = [handlers EXCEPT ![Main] = @ \cup {a}]
              /\ acceptor' = [acceptor EXCEPT ![a].state = "receive"]
              /\ UNCHANGED queue
  BY DEF onAccept
<1>3. /\ acceptor[a] = Free
      /\ \A t \in Threads : a \notin handlers[t]
      /\ \A t \in Threads : \A i \in DOMAIN queue[t] :
           queue[t][i].type = "accept" => queue[t][i].of # a
      /\ a \notin pending
      /\ \A w \in WorkerThreads : inside[w].step = "takenOff" => inside[w].acceptor # a
  <2>1. \A t \in Threads : \A i \in DOMAIN queue[t] :
          queue[t][i].type = "accept" => acceptor[queue[t][i].of].state = "given"
    BY DEF Placement, Underway, Free
  <2>. QED
    BY <1>2, <2>1 DEF Placement, Listed, Upgrading, Blank, Live
<1>4. UNCHANGED <<pending, inside>>
  BY DEF onAccept, upgradeVars
<1>5. CASE /\ useWorker <= threads
           /\ commitEvent(useWorker, AcceptEvent(a))
           /\ acceptor' = [acceptor EXCEPT ![a].state = "given"]
           /\ UNCHANGED handlers
  <2>1. useWorker \in WorkerThreads /\ useWorker \in Threads /\ useWorker # Main
    BY <1>1, <1>5 DEF ConfigType, WorkerThreads, Threads, Main
  <2>2. /\ acceptor'[a] = [Free EXCEPT !.state = "given"]
        /\ \A b \in Acceptors : b # a => acceptor'[b] = acceptor[b]
    BY <1>1, <1>3, <1>5 DEF LoopType
  <2>3. acceptor'[a].state = "given"
    BY <2>2 DEF Free
  <2>4. Listed'
    BY <1>1, <1>3, <1>5, <2>2 DEF Placement, Listed, LoopType
  <2>5. Upgrading'
    BY <1>1, <1>3, <1>4, <2>2 DEF Placement, Upgrading, UpgradeType
  <2>6. Blank'
    BY <2>2, <2>3 DEF Placement, Blank
  <2>7. Underway'
    <3>1. \A u \in Threads : \A i \in DOMAIN queue'[u] :
            \/ i \in DOMAIN queue[u] /\ queue'[u][i] = queue[u][i]
            \/ u = useWorker /\ i \notin DOMAIN queue[u] /\ queue'[u][i] = AcceptEvent(a)
               /\ i \in Nat /\ \A j \in DOMAIN queue[u] : j \in Nat /\ j < i
      BY <1>1, <1>5, <2>1, CommitFacts, EventTypesOK DEF LoopType
    <3>2. \A i, j \in DOMAIN queue'[useWorker] :
            i \notin DOMAIN queue[useWorker] /\ j \notin DOMAIN queue[useWorker] => i = j
      <4>1. queue' = [queue EXCEPT ![useWorker] = Append(@, AcceptEvent(a))]
        BY <1>5 DEF commitEvent
      <4>2. queue[useWorker] \in Seq(EventType) /\ AcceptEvent(a) \in EventType
        BY <1>1, <2>1, EventTypesOK DEF LoopType
      <4>3. queue'[useWorker] = Append(queue[useWorker], AcceptEvent(a))
        BY <1>1, <2>1, <4>1 DEF LoopType
      <4>. QED
        BY <4>2, <4>3
    <3>3. AcceptEvent(a).type = "accept" /\ AcceptEvent(a).of = a
      BY EventNames
    <3>4. ASSUME NEW u \in Threads, NEW i \in DOMAIN queue'[u], queue'[u][i].type = "accept"
          PROVE  /\ u # Main /\ queue'[u][i].of \in Acceptors
                 /\ acceptor'[queue'[u][i].of] = [Free EXCEPT !.state = "given"]
      BY <1>3, <2>1, <2>2, <3>1, <3>3, <3>4 DEF Placement, Underway
    <3>5. ASSUME NEW u \in Threads, NEW v \in Threads,
                 NEW i \in DOMAIN queue'[u], NEW j \in DOMAIN queue'[v],
                 queue'[u][i].type = "accept", queue'[v][j].type = "accept",
                 queue'[u][i].of = queue'[v][j].of
          PROVE  u = v /\ i = j
      BY <1>3, <3>1, <3>2, <3>3, <3>5 DEF Placement, Underway
    <3>. QED
      BY <3>4, <3>5 DEF Underway
  <2>. QED
    BY <2>4, <2>5, <2>6, <2>7 DEF Placement
<1>6. CASE /\ handlers' = [handlers EXCEPT ![Main] = @ \cup {a}]
           /\ acceptor' = [acceptor EXCEPT ![a].state = "receive"]
           /\ UNCHANGED queue
  <2>1. /\ acceptor'[a].state = "receive"
        /\ \A b \in Acceptors : b # a => acceptor'[b] = acceptor[b]
    BY <1>1, <1>6, SetState DEF States
  <2>2. \A u \in Threads : handlers'[u] = IF u = Main THEN handlers[u] \cup {a} ELSE handlers[u]
    BY <1>1, <1>6, ThreadFacts DEF LoopType
  <2>3. Listed'
    BY <1>1, <1>3, <2>1, <2>2, ListedWith, ThreadFacts DEF Placement
  <2>4. Underway'
    BY <1>2, <1>6, <2>1, UnderwayKept DEF Placement, NoAccept
  <2>5. Upgrading'
    BY <1>1, <1>3, <1>4, <2>1 DEF Placement, Upgrading, UpgradeType
  <2>6. Blank'
    BY <2>1 DEF Placement, Blank
  <2>. QED
    BY <2>3, <2>4, <2>5, <2>6 DEF Placement
<1>. QED
  BY <1>2, <1>5, <1>6

LEMMA PlacementFrame ==
  ASSUME Placement, UNCHANGED <<handlers, queue, acceptor, pending, inside>>
  PROVE  Placement'
BY DEF Placement, Listed, Underway, Upgrading, Blank

LEMMA StopPlacement ==
  ASSUME TypeOK, Placement, StopWorker
  PROVE  Placement'
<1>. DEFINE w == call.next
            lost == {queue[w][i].of : i \in {j \in DOMAIN queue[w] : queue[w][j].type = "accept"}}
<1>1. LoopType /\ UpgradeType /\ ConfigType
  BY TypeParts
<1>2. w \in WorkerThreads /\ w \in Threads
  BY <1>1, ThreadFacts DEF StopWorker, ConfigType, WorkerThreads
<1>3. /\ acceptor' = [a \in Acceptors |-> IF a \in handlers[w] THEN Free
                                          ELSE IF a \in lost THEN [Free EXCEPT !.state = "leaked"]
                                          ELSE acceptor[a]]
      /\ UNCHANGED <<pending, inside>>
  BY DEF StopWorker, upgradeVars
<1>4. \A a \in lost : acceptor[a].state = "given"
  BY <1>2 DEF Placement, Underway, Free
<1>5. \A u \in Threads : u # w => \A i \in DOMAIN queue[u] :
        queue[u][i].type = "accept" => queue[u][i].of \notin lost
  BY <1>2 DEF Placement, Underway
<1>6. /\ \A u \in Threads : u # w => handlers'[u] = handlers[u] /\ queue'[u] = queue[u]
      /\ handlers'[w] = {} /\ queue'[w] = <<>> /\ DOMAIN queue'[w] = {}
  BY <1>1, <1>2 DEF StopWorker, LoopType
<1>. HIDE DEF w, lost
<1>7. Listed'
  <2>1. ASSUME NEW u \in Threads, NEW a \in handlers'[u] PROVE acceptor'[a].state \in Live
    <3>1. u # w /\ a \in handlers[u] /\ a \in Acceptors
      BY <1>1, <1>6, <2>1 DEF LoopType
    <3>2. acceptor[a].state \in Live /\ a \notin handlers[w]
      BY <1>2, <3>1 DEF Placement, Listed
    <3>3. a \notin lost
      BY <1>4, <3>2 DEF Live
    <3>. QED
      BY <1>3, <3>1, <3>2, <3>3
  <2>2. \A u, v \in Threads : u # v => handlers'[u] \cap handlers'[v] = {}
    BY <1>6 DEF Placement, Listed
  <2>. QED
    BY <2>1, <2>2 DEF Listed
<1>8. Underway'
  <2>1. ASSUME NEW u \in Threads, NEW i \in DOMAIN queue'[u], queue'[u][i].type = "accept"
        PROVE  /\ u # Main /\ queue'[u][i].of \in Acceptors
               /\ acceptor'[queue'[u][i].of] = [Free EXCEPT !.state = "given"]
    <3>1. u # w /\ queue'[u] = queue[u]
      BY <1>6
    <3>2. /\ u # Main /\ queue[u][i].of \in Acceptors
          /\ acceptor[queue[u][i].of] = [Free EXCEPT !.state = "given"]
      BY <2>1, <3>1 DEF Placement, Underway
    <3>3. acceptor[queue[u][i].of].state = "given"
      BY <3>2 DEF Free
    <3>4. queue[u][i].of \notin handlers[w]
      BY <1>2, <3>3 DEF Placement, Listed, Live
    <3>5. queue[u][i].of \notin lost
      BY <1>5, <2>1, <3>1
    <3>. QED
      BY <1>3, <3>1, <3>2, <3>4, <3>5
  <2>2. ASSUME NEW u \in Threads, NEW v \in Threads,
               NEW i \in DOMAIN queue'[u], NEW j \in DOMAIN queue'[v],
               queue'[u][i].type = "accept", queue'[v][j].type = "accept",
               queue'[u][i].of = queue'[v][j].of
        PROVE  u = v /\ i = j
    <3>1. queue'[u] = queue[u] /\ queue'[v] = queue[v]
      BY <1>6
    <3>. QED
      BY <2>2, <3>1 DEF Placement, Underway
  <2>. QED
    BY <2>1, <2>2 DEF Underway
<1>9. Upgrading'
  <2>1. \A a \in Acceptors : acceptor[a].state = "upgrade" => acceptor'[a] = acceptor[a]
    BY <1>2, <1>3, <1>4 DEF Placement, Listed, Live
  <2>. QED
    BY <1>1, <1>3, <2>1 DEF Placement, Upgrading, UpgradeType
<1>10. Blank'
  <2>1. [Free EXCEPT !.state = "leaked"].state = "leaked"
    BY DEF Free
  <2>. QED
    BY <1>3, <2>1 DEF Placement, Blank
<1>. QED
  BY <1>7, <1>8, <1>9, <1>10 DEF Placement

LEMMA GoOnPlacement ==
  ASSUME TypeOK, Placement, Asking, GoOn \/ cancel
  PROVE  Placement'
<1>1. LoopType /\ UpgradeType /\ ConfigType /\ CallType
  BY TypeParts
<1>2. ASSUME NEW D, Delete(D), UNCHANGED <<queue, inside>>,
             \A t \in Threads : handlers'[t] = handlers[t] \ D,
             pending' = pending \ D,
             \A a \in D : a \in pending \/ acceptor[a].state \in Live
      PROVE  Placement'
  <2>1. /\ Listed' /\ Upgrading' /\ Blank'
        /\ \A a \in Acceptors : acceptor[a].state = "given" => acceptor'[a] = acceptor[a]
    BY <1>1, <1>2, DeletePlacement
  <2>2. Underway'
    BY <1>2, <2>1, UnderwayKept DEF Placement, NoAccept
  <2>. QED
    BY <2>1, <2>2 DEF Placement
<1>3. CASE RemoveOwn
  <2>. DEFINE D == (pending \cup handlers[Main]) \cap Using(call.servlet)
  <2>1. \A a \in D : a \in pending \/ acceptor[a].state \in Live
    BY ThreadFacts DEF Placement, Listed
  <2>2. Delete(D) /\ UNCHANGED <<queue, inside>> /\ pending' = pending \ D
    BY <1>3 DEF RemoveOwn
  <2>3. ASSUME NEW t \in Threads PROVE handlers'[t] = handlers[t] \ D
    <3>1. \A a \in handlers[t] : acceptor[a].state \in Live
      BY DEF Placement, Listed
    <3>2. t # Main => handlers[t] \cap D = {}
      BY <3>1, ThreadFacts DEF Placement, Listed, Upgrading, Live
    <3>3. handlers' = [handlers EXCEPT ![Main] = @ \ D]
      BY <1>3 DEF RemoveOwn
    <3>. QED
      BY <1>1, <3>2, <3>3, ThreadFacts DEF LoopType
  <2>. HIDE DEF D
  <2>. QED
    BY <1>2, <2>1, <2>2, <2>3
<1>4. CASE AskWorker
  <2>1. call.next \in Threads /\ call.servlet \in Servlets
    BY <1>1, <1>4 DEF AskWorker, ConfigType, Threads, WorkerThreads, Asking
  <2>2. NoAccept
    BY <1>1, <1>4, <2>1, CommitNoAccept, EventTypesOK, EventNames DEF AskWorker
  <2>3. UNCHANGED <<handlers, acceptor, pending, inside>>
    BY <1>4 DEF AskWorker, upgradeVars
  <2>4. Underway'
    BY <2>2, <2>3, UnderwayKept DEF Placement
  <2>. QED
    BY <2>3, <2>4 DEF Placement, Listed, Upgrading, Blank
<1>5. CASE StopWorker
  BY <1>5, StopPlacement
<1>6. CASE EndCancel
  <2>1. \A a \in handlers[Main] : acceptor[a].state \in Live
    BY ThreadFacts DEF Placement, Listed
  <2>2. pending' = pending /\ UNCHANGED <<queue, inside>> /\ Delete(handlers[Main])
    BY <1>6 DEF EndCancel, upgradeVars
  <2>3. pending' = pending \ handlers[Main]
    BY <2>1, <2>2 DEF Placement, Upgrading, Live
  <2>4. \A t \in Threads : handlers'[t] = handlers[t] \ handlers[Main]
    BY <1>1, <1>6, ThreadFacts DEF EndCancel, Placement, Listed, LoopType
  <2>. QED
    BY <1>2, <2>1, <2>2, <2>3, <2>4
<1>7. CASE cancel
  <2>1. Delete(pending) /\ pending' = pending \ pending /\ UNCHANGED <<handlers, queue, inside>>
    BY <1>7 DEF cancel
  <2>2. \A t \in Threads : handlers'[t] = handlers[t] \ pending
    BY <2>1 DEF Placement, Listed, Upgrading, Live
  <2>. QED
    BY <1>2, <2>1, <2>2
<1>8. CASE TakeAnswer \/ EndAsking
  BY <1>8, PlacementFrame DEF TakeAnswer, EndAsking, loopVars, upgradeVars
<1>. QED
  BY <1>3, <1>4, <1>5, <1>6, <1>7, <1>8 DEF GoOn

LEMMA PlacementStep == TypeOK /\ IInv /\ [Next]_vars => Placement'
<1>. SUFFICES ASSUME TypeOK, IInv, [Next]_vars PROVE Placement'
  OBVIOUS
<1>1. Placement /\ Asking
  BY DEF IInv
<1>2. ASSUME NEW t \in Threads, Acceptance(t) PROVE Placement'
  BY <1>1, <1>2, RequestsAreServed, ServedPlacement, AcceptorPlacement DEF Acceptance
<1>3. CASE onConnectionClosed
  BY <1>1, <1>3, PlacementFrame DEF onConnectionClosed, loopVars
<1>4. ASSUME NEW s \in Servlets,
             addServlet(s) \/ shutdownServlet(s) \/ removeServlet(s) \/ isServletIdle(s)
      PROVE  Placement'
  BY <1>1, <1>4, PlacementFrame
     DEF addServlet, shutdownServlet, removeServlet, isServletIdle, loopVars, upgradeVars
<1>5. CASE UNCHANGED vars
  BY <1>1, <1>5, PlacementFrame DEF vars, loopVars, upgradeVars
<1>. QED
  BY <1>1, <1>2, <1>3, <1>4, <1>5, EventPlacement, UpgradePlacement, AcceptPlacement, GoOnPlacement
     DEF Next, Call

-----------------------------------------------------------------------------
(* Stopped threads.                                                        *)

LEMMA StoppingKept ==
  ASSUME Stopping, UNCHANGED <<threads, listening, call>>,
         \A w \in WorkerThreads : handlers[w] = {} /\ queue[w] = <<>> =>
           handlers'[w] = {} /\ queue'[w] = <<>>
  PROVE  Stopping'
BY DEF Stopping, Stopped

LEMMA StoppingStep == TypeOK /\ IInv /\ [Next]_vars => Stopping'
<1>. SUFFICES ASSUME TypeOK, IInv, [Next]_vars PROVE Stopping'
  OBVIOUS
<1>1. /\ LoopType /\ UpgradeType /\ ConfigType /\ CallType
      /\ Stopping /\ Placement /\ Asking
  BY TypeParts DEF IInv
<1>2. ASSUME NEW t \in Threads, NEW a \in Acceptors, Served(t, a) PROVE Stopping'
  <2>1. handlers[t] # {} /\ UNCHANGED <<handlers, threads, listening, call>>
    BY <1>2 DEF Served, callVars, configVars
  <2>2. \A u \in Threads : u # t => queue'[u] = queue[u]
    BY <1>1, <1>2 DEF Served, commitEvent, LoopType
  <2>. QED
    BY <1>1, <2>1, <2>2, StoppingKept, ThreadFacts
<1>3. ASSUME NEW a \in Acceptors, onHandlerUpgraded(a) PROVE Stopping'
  <2>1. /\ UNCHANGED <<threads, listening, call>>
        /\ \A w \in WorkerThreads : handlers'[w] = handlers[w] /\ queue'[w] = queue[w]
    BY <1>1, <1>3, ThreadFacts DEF onHandlerUpgraded, commitEvent, callVars, configVars, LoopType
  <2>. QED
    BY <1>1, <2>1, StoppingKept
<1>4. ASSUME NEW t \in Threads, NEW a \in Acceptors, TakeOff(t, a) PROVE Stopping'
  <2>1. /\ UNCHANGED <<threads, listening, call, queue>>
        /\ \A w \in WorkerThreads : handlers'[w] \subseteq handlers[w]
    BY <1>1, <1>4, ThreadFacts DEF TakeOff, callVars, configVars, LoopType
  <2>. QED
    BY <1>1, <2>1, StoppingKept
<1>5. ASSUME NEW w \in WorkerThreads, Upgrade(w) PROVE Stopping'
  <2>1. /\ UNCHANGED <<threads, listening, call, handlers>>
        /\ \A v \in WorkerThreads : queue'[v] = queue[v]
    BY <1>1, <1>5, ThreadFacts
       DEF Upgrade, GiveToMain, WakeMain, commitEvent, loopVars, callVars, configVars, LoopType
  <2>. QED
    BY <1>1, <2>1, StoppingKept
<1>6. ASSUME NEW t \in Threads, Event(t) PROVE Stopping'
  <2>1. UNCHANGED <<threads, listening, call>>
    BY <1>6 DEF Event, onAcceptEvent, onRemoveHandler, onRemoveServlet, onIsServletIdle, onUpgrade,
                callVars, configVars
  <2>2. CASE queue[t] # <<>> /\ \A u \in Threads : u # t => handlers'[u] = handlers[u] /\ queue'[u] = queue[u]
    BY <1>1, <2>1, <2>2, StoppingKept, ThreadFacts
  <2>3. queue[t] # <<>>
    BY <1>6 DEF Event, onAcceptEvent, onRemoveHandler, onRemoveServlet, onIsServletIdle, onUpgrade,
                Comes
  <2>4. \A u \in Threads : u # t => handlers'[u] = handlers[u]
    BY <1>1, <1>6
       DEF Event, onAcceptEvent, onRemoveHandler, onRemoveServlet, onIsServletIdle, onUpgrade, LoopType
  <2>5. \A u \in Threads : u # t => queue'[u] = queue[u]
    BY <1>1, <1>6
       DEF Event, onAcceptEvent, onRemoveHandler, onRemoveServlet, onIsServletIdle, onUpgrade, Pop, LoopType
  <2>. QED
    BY <2>2, <2>3, <2>4, <2>5
<1>7. CASE onAccept
  <2>1. call = NoCall /\ UNCHANGED <<threads, listening, call>>
    BY <1>7 DEF onAccept, InCallbacks, Between, callVars
  <2>2. CASE threads = 0
    <3>1. useWorker > threads
      BY <1>1, <2>2 DEF ConfigType
    <3>2. \A w \in WorkerThreads : handlers'[w] = handlers[w] /\ queue'[w] = queue[w]
      BY <1>1, <1>7, <3>1, ThreadFacts DEF onAccept, LoopType, ConfigType
    <3>. QED
      BY <1>1, <2>1, <3>2, StoppingKept
  <2>3. CASE threads # 0
    BY <2>1, <2>3 DEF Stopping, Stopped, NoCall
  <2>. QED
    BY <2>2, <2>3
<1>8. CASE onConnectionClosed \/ TakeAnswer \/ EndAsking
  <2>1. UNCHANGED <<threads, listening, handlers, queue>>
    BY <1>8 DEF onConnectionClosed, TakeAnswer, EndAsking, loopVars, configVars
  <2>2. call'.op = "cancel" => call' = call
    <3>1. CASE onConnectionClosed
      BY <3>1 DEF onConnectionClosed, callVars
    <3>2. CASE TakeAnswer
      <4>1. call.asked /\ call.op # "cancel"
        BY <1>1, <3>2 DEF TakeAnswer, Asking
      <4>2. NoCall.op # "cancel" /\ [call EXCEPT !.next = @ + 1, !.asked = FALSE].op = call.op
        BY <1>1 DEF NoCall, CallType
      <4>. QED
        BY <3>2, <4>1, <4>2 DEF TakeAnswer
    <3>3. CASE EndAsking
      BY <3>3 DEF EndAsking, NoCall
    <3>. QED
      BY <1>8, <3>1, <3>2, <3>3
  <2>. QED
    BY <1>1, <2>1, <2>2 DEF Stopping, Stopped
<1>9. ASSUME NEW s \in Servlets,
             addServlet(s) \/ shutdownServlet(s) \/ removeServlet(s) \/ isServletIdle(s)
      PROVE  Stopping'
  <2>1. UNCHANGED <<threads, listening, handlers, queue>>
    BY <1>9 DEF addServlet, shutdownServlet, removeServlet, isServletIdle, loopVars, configVars
  <2>2. call' = call \/ call'.op \in {"remove", "isIdle"}
    BY <1>9 DEF addServlet, shutdownServlet, removeServlet, isServletIdle, callVars, NoCall
  <2>. QED
    BY <1>1, <2>1, <2>2 DEF Stopping, Stopped
<1>10. CASE cancel
  <2>1. /\ UNCHANGED <<threads, handlers, queue>> /\ ~listening'
        /\ call'.op = "cancel" /\ call'.next = 1
    BY <1>10 DEF cancel, NoCall
  <2>. QED
    BY <1>1, <2>1, ThreadFacts DEF Stopping, Stopped, WorkerThreads
<1>11. CASE RemoveOwn
  <2>1. /\ UNCHANGED <<threads, listening, queue>> /\ call'.op = "remove"
        /\ \A w \in WorkerThreads : handlers'[w] = handlers[w]
    BY <1>1, <1>11, ThreadFacts DEF RemoveOwn, configVars, LoopType, CallType
  <2>. QED
    BY <1>1, <2>1 DEF Stopping, Stopped
<1>12. CASE AskWorker
  <2>1. UNCHANGED threads /\ call'.op \in {"remove", "isIdle"} /\ threads # 0
    BY <1>1, <1>12 DEF AskWorker, configVars, CallType, ConfigType
  <2>. QED
    BY <2>1 DEF Stopping, Stopped
<1>13. CASE StopWorker
  <2>1. call.next \in WorkerThreads /\ call.next \in Threads
    BY <1>1, <1>13, ThreadFacts DEF StopWorker, ConfigType, WorkerThreads
  <2>2. /\ UNCHANGED <<threads, listening>>
        /\ call.op = "cancel" /\ call'.op = "cancel" /\ call'.next = call.next + 1
        /\ handlers'[call.next] = {} /\ queue'[call.next] = <<>>
        /\ \A w \in WorkerThreads : w # call.next => handlers'[w] = handlers[w] /\ queue'[w] = queue[w]
    BY <1>1, <1>13, <2>1, ThreadFacts DEF StopWorker, configVars, LoopType, CallType
  <2>3. \A w \in WorkerThreads : Stopped(w)' => w = call.next \/ Stopped(w)
    BY <1>1, <2>1, <2>2, ThreadFacts DEF Stopped, CallType
  <2>. QED
    BY <1>1, <2>2, <2>3 DEF Stopping
<1>14. CASE EndCancel
  <2>1. \A w \in WorkerThreads : Stopped(w)
    BY <1>1, <1>14 DEF EndCancel, Stopped, ConfigType, CallType, WorkerThreads
  <2>2. call'.op = "none" /\ UNCHANGED queue
    BY <1>14 DEF EndCancel, NoCall
  <2>3. \A w \in WorkerThreads : handlers'[w] = handlers[w]
    BY <1>1, <1>14, ThreadFacts DEF EndCancel, LoopType
  <2>. QED
    BY <1>1, <2>1, <2>2, <2>3 DEF Stopping
<1>15. CASE UNCHANGED vars
  BY <1>1, <1>15 DEF vars, loopVars, configVars, callVars, Stopping, Stopped
<1>16. ASSUME NEW t \in Threads, Acceptance(t) PROVE Stopping'
  BY <1>2, <1>3, <1>4, <1>16, RequestsAreServed DEF Acceptance
<1>. QED
  BY <1>5, <1>6, <1>7, <1>8, <1>9, <1>10, <1>11, <1>12, <1>13, <1>14, <1>15, <1>16
     DEF Next, Call, GoOn

-----------------------------------------------------------------------------
(* Questions and answers.                                                  *)

NoQuestions == \A t \in Threads : \A i \in DOMAIN queue[t] : queue[t][i].type \notin Question

LEMMA QuietQuestions ==
  ASSUME Questions, ~call.asked \/ answer # "none"
  PROVE  NoQuestions
BY DEF Questions, NoQuestions

LEMMA QuestionsFrame ==
  /\ NoQuestions => Questions
  /\ Questions /\ UNCHANGED <<queue, call, answer>> => Questions'
  /\ NoQuestions /\ UNCHANGED queue => NoQuestions'
BY DEF Questions, NoQuestions

LEMMA QuestionsCommit ==
  ASSUME LoopType, NEW t \in Threads, NEW ev \in EventType, commitEvent(t, ev), ev.type \notin Question
  PROVE  /\ Questions /\ UNCHANGED <<call, answer>> => Questions'
         /\ NoQuestions => NoQuestions'
<1>1. \A u \in Threads : \A i \in DOMAIN queue'[u] :
        \/ i \in DOMAIN queue[u] /\ queue'[u][i] = queue[u][i]
        \/ queue'[u][i] = ev
  BY CommitFacts DEF LoopType
<1>2. \A u \in Threads : \A i \in DOMAIN queue'[u] : queue'[u][i].type \in Question =>
        i \in DOMAIN queue[u] /\ queue'[u][i] = queue[u][i]
  BY <1>1
<1>. QED
  BY <1>2 DEF Questions, NoQuestions

LEMMA QuestionsPop ==
  ASSUME LoopType, Questions, NEW t \in Threads, queue[t] # <<>>, Pop(t)
  PROVE  /\ UNCHANGED <<call, answer>> => Questions'
         /\ queue[t][1].type \in Question => NoQuestions'
<1>. DEFINE Old(u, i) == IF u = t THEN i + 1 ELSE i
<1>1. \A u \in Threads : \A i \in DOMAIN queue'[u] :
        /\ Old(u, i) \in DOMAIN queue[u] /\ queue'[u][i] = queue[u][Old(u, i)]
        /\ u = t => Old(u, i) # 1
  BY PopFacts DEF LoopType
<1>2. 1 \in DOMAIN queue[t]
  BY PopFacts DEF LoopType
<1>3. \A u \in Threads : \A i, j \in DOMAIN queue'[u] : Old(u, i) = Old(u, j) => i = j
  BY PopFacts DEF LoopType
<1>. HIDE DEF Old
<1>4. ASSUME UNCHANGED <<call, answer>> PROVE Questions'
  <2>1. ASSUME NEW u \in Threads, NEW i \in DOMAIN queue'[u], queue'[u][i].type \in Question
        PROVE  /\ call'.asked /\ answer' = "none"
               /\ u = call'.next /\ queue'[u][i].of = call'.servlet
               /\ (queue'[u][i].type = "removeServlet") = (call'.op = "remove")
    BY <1>1, <1>4, <2>1 DEF Questions
  <2>2. ASSUME NEW u \in Threads, NEW i \in DOMAIN queue'[u], NEW j \in DOMAIN queue'[u],
               queue'[u][i].type \in Question, queue'[u][j].type \in Question
        PROVE  i = j
    <3>1. Old(u, i) = Old(u, j)
      BY <1>1, <2>2 DEF Questions
    <3>. QED
      BY <1>3, <3>1
  <2>. QED
    BY <2>1, <2>2 DEF Questions
<1>5. ASSUME queue[t][1].type \in Question,
             NEW u \in Threads, NEW i \in DOMAIN queue'[u]
      PROVE  queue'[u][i].type \notin Question
  <2>1. SUFFICES ASSUME queue[u][Old(u, i)].type \in Question PROVE FALSE
    BY <1>1
  <2>2. u = t
    BY <1>1, <1>2, <1>5, <2>1 DEF Questions
  <2>. QED
    BY <1>1, <1>2, <1>5, <2>1, <2>2 DEF Questions
<1>. QED
  BY <1>4, <1>5 DEF NoQuestions

LEMMA AskingFrame ==
  ASSUME Asking, UNCHANGED <<call, answer, servlets, threads>>
  PROVE  Asking'
BY DEF Asking

(* A worker answers what it was asked.                                     *)
LEMMA WorkerIsAsked ==
  ASSUME LoopType, CallType, Questions, Asking, NEW w \in WorkerThreads,
         NEW type \in Question, Comes(w, type)
  PROVE  /\ call.asked /\ answer = "none" /\ call.next = w
         /\ queue[w][1].of = call.servlet /\ Head(queue[w]) = queue[w][1]
         /\ call.op = IF type = "removeServlet" THEN "remove" ELSE "isIdle"
<1>1. /\ queue[w] # <<>> /\ 1 \in DOMAIN queue[w] /\ Head(queue[w]) = queue[w][1]
      /\ queue[w][1].type = type
  BY ThreadFacts, ComesFacts DEF LoopType
<1>2. /\ call.asked /\ answer = "none" /\ call.next = w /\ queue[w][1].of = call.servlet
      /\ (type = "removeServlet") = (call.op = "remove")
  BY <1>1, ThreadFacts DEF Questions
<1>3. call.op \in {"remove", "isIdle"}
  BY <1>2 DEF Asking
<1>. QED
  BY <1>1, <1>2, <1>3 DEF Question

LEMMA EventAsking ==
  ASSUME TypeOK, Asking, Questions, NEW t \in Threads, Event(t)
  PROVE  Asking' /\ Questions'
<1>1. LoopType /\ CallType
  BY TypeParts
<1>2. queue[t] # <<>>
  BY DEF Event, onAcceptEvent, onRemoveHandler, onRemoveServlet, onIsServletIdle, onUpgrade, Comes
<1>3. UNCHANGED <<call, servlets, threads>>
  BY DEF Event, onAcceptEvent, onRemoveHandler, onRemoveServlet, onIsServletIdle, onUpgrade,
         callVars, configVars
<1>4. CASE onRemoveServlet(t) /\ t # Main
  <2>1. /\ call.asked /\ answer = "none" /\ call.op = "remove"
        /\ queue[t][1].type \in Question /\ Pop(t) /\ answer' = "removed"
    BY <1>1, <1>4, WorkerIsAsked, ComesFacts, ThreadFacts DEF onRemoveServlet, Question, LoopType
  <2>2. NoQuestions'
    BY <1>1, <1>2, <2>1, QuestionsPop
  <2>3. Questions'
    BY <2>2 DEF Questions, NoQuestions
  <2>4. Asking'
    BY <1>3, <2>1 DEF Asking
  <2>. QED
    BY <2>3, <2>4
<1>5. CASE onIsServletIdle(t) /\ t # Main
  <2>1. /\ call.asked /\ answer = "none" /\ call.op = "isIdle"
        /\ queue[t][1].type \in Question /\ Pop(t) /\ answer' \in {"idle", "busy"}
    BY <1>1, <1>5, WorkerIsAsked, ComesFacts, ThreadFacts DEF onIsServletIdle, Question, LoopType
  <2>2. NoQuestions'
    BY <1>1, <1>2, <2>1, QuestionsPop
  <2>3. Questions'
    BY <2>2 DEF Questions, NoQuestions
  <2>4. Asking'
    BY <1>3, <2>1 DEF Asking
  <2>. QED
    BY <2>3, <2>4
<1>6. CASE onAcceptEvent(t) \/ onRemoveHandler(t) \/ onUpgrade
  <2>1. UNCHANGED answer
    BY <1>6 DEF onAcceptEvent, onRemoveHandler, onUpgrade, callVars
  <2>2. Pop(t) \/ UNCHANGED queue
    BY <1>6 DEF Event, onAcceptEvent, onRemoveHandler, onRemoveServlet, onIsServletIdle, onUpgrade,
                Comes
  <2>3. Questions'
    BY <1>1, <1>2, <1>3, <2>1, <2>2, QuestionsPop, QuestionsFrame
  <2>. QED
    BY <1>3, <2>1, <2>3, AskingFrame
<1>. QED
  BY <1>4, <1>5, <1>6 DEF Event

(* The program calls when no other call is under way.                      *)
LEMMA CallAsking ==
  ASSUME TypeOK, Asking, Questions, Call
  PROVE  Asking' /\ Questions'
<1>1. call = NoCall /\ UNCHANGED <<queue, answer, threads>>
  BY DEF Call, addServlet, shutdownServlet, removeServlet, isServletIdle, cancel, InCallbacks,
         Between, loopVars, callVars, configVars
<1>2. ~call.asked /\ answer = "none" /\ call.op = "none"
  BY <1>1 DEF Asking, NoCall
<1>3. Questions'
  BY <1>1, <1>2, QuietQuestions, QuestionsFrame DEF Questions, NoQuestions
<1>4. ASSUME NEW s \in Servlets, addServlet(s) \/ shutdownServlet(s) PROVE Asking'
  BY <1>1, <1>2, <1>4 DEF addServlet, shutdownServlet, callVars, Asking
<1>5. ASSUME NEW s \in Servlets, removeServlet(s) PROVE Asking'
  <2>1. call' = [op |-> "remove", servlet |-> s, next |-> 0, asked |-> FALSE]
    BY <1>5 DEF removeServlet, NoCall
  <2>2. servlets'[s] = "absent"
    BY <1>5, TypeParts DEF removeServlet, ConfigType
  <2>. QED
    BY <1>1, <1>2, <2>1, <2>2 DEF Asking
<1>6. ASSUME NEW s \in Servlets, isServletIdle(s) PROVE Asking'
  <2>1. call' = [op |-> "isIdle", servlet |-> s, next |-> 1, asked |-> FALSE]
    BY <1>6 DEF isServletIdle, NoCall
  <2>. QED
    BY <1>1, <1>2, <2>1 DEF Asking
<1>7. CASE cancel
  <2>1. call' = [op |-> "cancel", servlet |-> None, next |-> 1, asked |-> FALSE]
    BY <1>7 DEF cancel, NoCall
  <2>2. Asking'
    BY <1>1, <1>2, <2>1 DEF Asking
  <2>. QED
    BY <1>3, <2>2
<1>. QED
  BY <1>3, <1>4, <1>5, <1>6, <1>7 DEF Call

LEMMA GoOnAsking ==
  ASSUME TypeOK, Asking, Questions, GoOn
  PROVE  Asking' /\ Questions'
<1>1. LoopType /\ CallType /\ ConfigType
  BY TypeParts
<1>2. CASE RemoveOwn
  <2>1. /\ call.op = "remove" /\ call.next = 0
        /\ call' = [call EXCEPT !.next = 1] /\ UNCHANGED <<queue, answer, threads, servlets>>
    BY <1>2 DEF RemoveOwn, configVars
  <2>2. ~call.asked
    BY <2>1 DEF Asking
  <2>3. /\ call'.op = "remove" /\ call'.next = 1 /\ ~call'.asked /\ call'.servlet = call.servlet
    BY <1>1, <2>1, <2>2 DEF CallType
  <2>4. Questions'
    BY <2>1, <2>2, QuietQuestions DEF Questions, NoQuestions
  <2>5. Asking'
    BY <2>1, <2>2, <2>3 DEF Asking
  <2>. QED
    BY <2>4, <2>5
<1>3. CASE AskWorker
  <2>. DEFINE ev == IF call.op = "remove" THEN RemoveServletEvent(call.servlet)
                    ELSE ServletInfoEvent(call.servlet)
  <2>1. /\ call.op \in {"remove", "isIdle"} /\ call.next \in 1 .. threads /\ ~call.asked
        /\ commitEvent(call.next, ev)
        /\ call' = [call EXCEPT !.asked = TRUE] /\ answer' = "none"
        /\ UNCHANGED <<threads, servlets>>
    BY <1>3 DEF AskWorker, configVars
  <2>2. call.servlet \in Servlets /\ call.next \in Threads
    BY <1>1, <2>1 DEF Asking, ConfigType, Threads, WorkerThreads
  <2>3. /\ ev \in EventType /\ ev.of = call.servlet
        /\ (ev.type = "removeServlet") = (call.op = "remove")
    BY <2>1, <2>2, EventTypesOK, EventNames
  <2>. HIDE DEF ev
  <2>4. /\ call'.op = call.op /\ call'.next = call.next /\ call'.asked /\ call'.servlet = call.servlet
    BY <1>1, <2>1 DEF CallType
  <2>5. \A u \in Threads : \A i \in DOMAIN queue'[u] :
          \/ i \in DOMAIN queue[u] /\ queue'[u][i] = queue[u][i]
          \/ u = call.next /\ i \notin DOMAIN queue[u] /\ queue'[u][i] = ev
    BY <1>1, <2>1, <2>2, <2>3, CommitFacts DEF LoopType
  <2>6. \A i, j \in DOMAIN queue'[call.next] :
          i \notin DOMAIN queue[call.next] /\ j \notin DOMAIN queue[call.next] => i = j
    <3>1. queue[call.next] \in Seq(EventType)
      BY <1>1, <2>2 DEF LoopType
    <3>2. queue'[call.next] = Append(queue[call.next], ev)
      BY <1>1, <2>1, <2>2 DEF commitEvent, LoopType
    <3>. QED
      BY <2>3, <3>1, <3>2
  <2>7. NoQuestions
    BY <2>1, QuietQuestions
  <2>8. Questions'
    BY <2>1, <2>3, <2>4, <2>5, <2>6, <2>7 DEF Questions, NoQuestions
  <2>9. Asking'
    BY <2>1, <2>2, <2>4 DEF Asking
  <2>. QED
    BY <2>8, <2>9
<1>4. CASE TakeAnswer
  <2>1. /\ call.asked /\ answer # "none" /\ answer' = "none"
        /\ UNCHANGED <<queue, threads, servlets>>
    BY <1>4 DEF TakeAnswer, loopVars, configVars
  <2>2. CASE call' = NoCall
    <3>1. Questions'
      BY <2>1, QuietQuestions DEF Questions, NoQuestions
    <3>2. Asking'
      BY <2>1, <2>2 DEF Asking, NoCall
    <3>. QED
      BY <3>1, <3>2
  <2>3. CASE call' = [call EXCEPT !.next = @ + 1, !.asked = FALSE]
    <3>1. /\ call'.op = call.op /\ call'.servlet = call.servlet /\ ~call'.asked
          /\ call'.next = call.next + 1 /\ call.next \in Nat
      BY <1>1, <2>3 DEF CallType
    <3>2. Questions'
      BY <2>1, QuietQuestions DEF Questions, NoQuestions
    <3>3. Asking'
      BY <2>1, <3>1 DEF Asking
    <3>. QED
      BY <3>2, <3>3
  <2>. QED
    BY <1>4, <2>2, <2>3 DEF TakeAnswer
<1>5. CASE EndAsking \/ EndCancel
  <2>1. /\ ~call.asked /\ answer = "none"
    BY <1>1, <1>5 DEF EndAsking, EndCancel, Asking, ConfigType, CallType
  <2>2. call' = NoCall /\ UNCHANGED <<queue, answer>>
    BY <1>5 DEF EndAsking, EndCancel, loopVars
  <2>3. Questions'
    BY <2>1, <2>2, QuietQuestions DEF Questions, NoQuestions
  <2>4. Asking'
    BY <2>1, <2>2 DEF Asking, NoCall
  <2>. QED
    BY <2>3, <2>4
<1>6. CASE StopWorker
  <2>1. /\ call.op = "cancel" /\ ~call.asked /\ answer = "none" /\ UNCHANGED answer
        /\ call' = [call EXCEPT !.next = call.next + 1]
    BY <1>6 DEF StopWorker, Asking
  <2>2. call'.op = "cancel" /\ ~call'.asked
    BY <1>1, <2>1 DEF CallType
  <2>3. Asking'
    BY <2>1, <2>2 DEF Asking
  <2>4. \A u \in Threads : queue'[u] = queue[u] \/ queue'[u] = <<>>
    BY <1>1, <1>6 DEF StopWorker, LoopType
  <2>5. Questions'
    BY <2>1, <2>4, QuietQuestions DEF Questions, NoQuestions
  <2>. QED
    BY <2>3, <2>5
<1>. QED
  BY <1>2, <1>3, <1>4, <1>5, <1>6 DEF GoOn

LEMMA AskingStep == TypeOK /\ IInv /\ [Next]_vars => Asking' /\ Questions'
<1>. SUFFICES ASSUME TypeOK, IInv, [Next]_vars PROVE Asking' /\ Questions'
  OBVIOUS
<1>1. LoopType /\ CallType /\ ConfigType /\ Asking /\ Questions
  BY TypeParts DEF IInv
<1>2. ASSUME UNCHANGED <<call, answer, servlets, threads>>,
             \/ UNCHANGED queue
             \/ \E t \in Threads, ev \in EventType : commitEvent(t, ev) /\ ev.type \notin Question
      PROVE  Asking' /\ Questions'
  BY <1>1, <1>2, AskingFrame, QuestionsFrame, QuestionsCommit
<1>3. ASSUME NEW t \in Threads, NEW a \in Acceptors, Served(t, a) PROVE Asking' /\ Questions'
  <2>1. RemoveHandlerEvent(a).type \notin Question
    BY EventNames DEF Question
  <2>. QED
    BY <1>2, <1>3, <2>1, EventTypesOK DEF Served, callVars, configVars
<1>4. ASSUME NEW a \in Acceptors, onHandlerUpgraded(a) PROVE Asking' /\ Questions'
  <2>1. UpgradeEvent.type \notin Question
    BY EventNames DEF Question
  <2>. QED
    BY <1>2, <1>4, <2>1, EventTypesOK, ThreadFacts DEF onHandlerUpgraded, callVars, configVars
<1>5. ASSUME NEW t \in Threads, NEW a \in Acceptors, TakeOff(t, a) PROVE Asking' /\ Questions'
  BY <1>2, <1>5 DEF TakeOff, callVars, configVars
<1>6. ASSUME NEW w \in WorkerThreads, Upgrade(w) PROVE Asking' /\ Questions'
  <2>1. UpgradeEvent.type \notin Question
    BY EventNames DEF Question
  <2>. QED
    BY <1>2, <1>6, <2>1, EventTypesOK, ThreadFacts
       DEF Upgrade, GiveToMain, WakeMain, loopVars, callVars, configVars
<1>7. CASE onAccept
  <2>1. UNCHANGED <<call, answer, servlets, threads>>
    BY <1>7 DEF onAccept, callVars
  <2>2. \A a : AcceptEvent(a).type \notin Question
    BY EventNames DEF Question
  <2>3. useWorker <= threads => useWorker \in Threads
    BY <1>1 DEF ConfigType, Threads, WorkerThreads
  <2>4. \/ UNCHANGED queue
        \/ \E t \in Threads, ev \in EventType : commitEvent(t, ev) /\ ev.type \notin Question
    BY <1>7, <2>2, <2>3, EventTypesOK DEF onAccept
  <2>. QED
    BY <1>2, <2>1, <2>4
<1>8. CASE onConnectionClosed \/ UNCHANGED vars
  BY <1>2, <1>8 DEF onConnectionClosed, vars, loopVars, callVars, configVars
<1>9. ASSUME NEW t \in Threads, Acceptance(t) PROVE Asking' /\ Questions'
  BY <1>3, <1>4, <1>5, <1>9, RequestsAreServed DEF Acceptance
<1>. QED
  BY <1>1, <1>6, <1>7, <1>8, <1>9, EventAsking, CallAsking, GoOnAsking DEF Next

-----------------------------------------------------------------------------
(* Use of a servlet.                                                       *)

(* No thread begins to use a servlet that is not mapped.                   *)
NoNewUse ==
  \A t \in Threads : \A a \in handlers'[t] :
    acceptor'[a].servlet \in Servlets /\ servlets[acceptor'[a].servlet] # "mapped" =>
      a \in handlers[t] /\ acceptor[a].servlet = acceptor'[a].servlet

LEMMA ShrinkNoNewUse ==
  ASSUME LoopType,
         \A t \in Threads : handlers'[t] \subseteq handlers[t],
         \A a \in Acceptors : acceptor'[a].servlet \in {None, acceptor[a].servlet}
  PROVE  NoNewUse
BY DEF NoNewUse, LoopType

LEMMA DeleteServlet ==
  ASSUME NEW D, Delete(D)
  PROVE  \A a \in Acceptors : acceptor'[a].servlet \in {None, acceptor[a].servlet}
BY DEF Delete, Free

LEMMA EventNoNewUse ==
  ASSUME TypeOK, Placement, NEW t \in Threads, Event(t)
  PROVE  NoNewUse
<1>1. LoopType
  BY TypeParts
<1>2. ASSUME onAcceptEvent(t) PROVE NoNewUse
  <2>. DEFINE a == queue[t][1].of
  <2>1. /\ 1 \in DOMAIN queue[t] /\ Head(queue[t]) = queue[t][1] /\ queue[t][1].type = "accept"
    BY <1>1, <1>2, ComesFacts DEF onAcceptEvent, LoopType
  <2>2. a \in Acceptors /\ acceptor[a].servlet = None
    BY <2>1 DEF Placement, Underway, Free
  <2>3. acceptor' = [acceptor EXCEPT ![a].state = "receive"]
    BY <1>2, <2>1 DEF onAcceptEvent
  <2>4. \A b \in Acceptors : acceptor'[b].servlet = acceptor[b].servlet
    BY <1>1, <2>2, <2>3, SetState DEF States
  <2>5. \A u \in Threads : handlers'[u] \subseteq handlers[u] \cup {a}
    BY <1>1, <1>2, <2>1 DEF onAcceptEvent, LoopType
  <2>. HIDE DEF a
  <2>. QED
    BY <1>1, <2>2, <2>4, <2>5 DEF NoNewUse, LoopType
<1>3. ASSUME NEW D, Delete(D), handlers' = [handlers EXCEPT ![t] = @ \ D] PROVE NoNewUse
  <2>1. \A u \in Threads : handlers'[u] \subseteq handlers[u]
    BY <1>1, <1>3 DEF LoopType
  <2>. QED
    BY <1>1, <1>3, <2>1, DeleteServlet, ShrinkNoNewUse
<1>4. CASE onRemoveHandler(t)
  BY <1>3, <1>4 DEF onRemoveHandler
<1>5. CASE onRemoveServlet(t)
  BY <1>3, <1>5 DEF onRemoveServlet
<1>6. CASE onIsServletIdle(t)
  BY <1>1, <1>6, ShrinkNoNewUse DEF onIsServletIdle
<1>7. CASE onUpgrade
  BY <1>1, <1>7, DeleteServlet, ShrinkNoNewUse DEF onUpgrade
<1>. QED
  BY <1>2, <1>4, <1>5, <1>6, <1>7 DEF Event

LEMMA NoNewUseStep == TypeOK /\ IInv /\ [Next]_vars => NoNewUse
<1>. SUFFICES ASSUME TypeOK, IInv, [Next]_vars PROVE NoNewUse
  OBVIOUS
<1>1. LoopType /\ ConfigType /\ Placement
  BY TypeParts DEF IInv
<1>2. ASSUME UNCHANGED <<handlers, acceptor>> PROVE NoNewUse
  BY <1>1, <1>2, ShrinkNoNewUse
<1>3. ASSUME NEW t \in Threads, NEW a \in Acceptors, Served(t, a) PROVE NoNewUse
  <2>1. PICK r \in Record : /\ acceptor' = [acceptor EXCEPT ![a] = r]
                            /\ \/ r.servlet \in {None, acceptor[a].servlet}
                               \/ r.servlet \in Servlets /\ servlets[r.servlet] = "mapped"
    BY <1>3 DEF Served
  <2>2. /\ acceptor'[a] = r
        /\ \A b \in Acceptors : b # a => acceptor'[b] = acceptor[b]
    BY <1>1, <2>1 DEF LoopType
  <2>3. UNCHANGED handlers
    BY <1>3 DEF Served
  <2>. QED
    BY <1>1, <2>1, <2>2, <2>3 DEF NoNewUse, LoopType
<1>4. ASSUME NEW t \in Threads, NEW a \in Acceptors,
             \/ t = Main /\ onHandlerUpgraded(a)
             \/ t # Main /\ TakeOff(t, a)
      PROVE  NoNewUse
  <2>1. acceptor' = [acceptor EXCEPT ![a].state = "upgrade"]
    BY <1>4 DEF onHandlerUpgraded, TakeOff
  <2>2. \A b \in Acceptors : acceptor'[b].servlet = acceptor[b].servlet
    BY <1>1, <2>1, SetState DEF States
  <2>3. \A u \in Threads : handlers'[u] \subseteq handlers[u]
    BY <1>1, <1>4 DEF onHandlerUpgraded, TakeOff, LoopType
  <2>. QED
    BY <1>1, <2>2, <2>3, ShrinkNoNewUse
<1>5. ASSUME NEW w \in WorkerThreads, Upgrade(w) PROVE NoNewUse
  BY <1>2, <1>5 DEF Upgrade, GiveToMain, WakeMain, loopVars
<1>6. CASE onAccept
  <2>1. PICK a \in Acceptors :
          /\ acceptor[a].state = "free"
          /\ \/ acceptor' = [acceptor EXCEPT ![a].state = "given"] /\ UNCHANGED handlers
             \/ /\ handlers' = [handlers EXCEPT ![Main] = @ \cup {a}]
                /\ acceptor' = [acceptor EXCEPT ![a].state = "receive"]
    BY <1>6 DEF onAccept
  <2>2. acceptor[a].servlet = None
    BY <1>1, <2>1 DEF Placement, Blank, Free
  <2>3. \A b \in Acceptors : acceptor'[b].servlet = acceptor[b].servlet
    BY <1>1, <2>1, SetState DEF States
  <2>4. \A u \in Threads : handlers'[u] \subseteq handlers[u] \cup {a}
    BY <1>1, <2>1 DEF LoopType
  <2>. QED
    BY <1>1, <2>2, <2>3, <2>4 DEF NoNewUse, LoopType
<1>7. CASE Call
  <2>1. ASSUME NEW s \in Servlets,
               addServlet(s) \/ shutdownServlet(s) \/ removeServlet(s) \/ isServletIdle(s)
        PROVE  NoNewUse
    BY <1>2, <2>1 DEF addServlet, shutdownServlet, removeServlet, isServletIdle, loopVars
  <2>2. CASE cancel
    BY <1>1, <2>2, DeleteServlet, ShrinkNoNewUse DEF cancel
  <2>. QED
    BY <1>7, <2>1, <2>2 DEF Call
<1>8. CASE GoOn
  <2>1. CASE RemoveOwn
    <3>1. \A u \in Threads : handlers'[u] \subseteq handlers[u]
      BY <1>1, <2>1 DEF RemoveOwn, LoopType
    <3>. QED
      BY <1>1, <2>1, <3>1, DeleteServlet, ShrinkNoNewUse DEF RemoveOwn
  <2>2. CASE AskWorker \/ TakeAnswer \/ EndAsking
    BY <1>2, <2>2 DEF AskWorker, TakeAnswer, EndAsking, loopVars
  <2>3. CASE StopWorker
    <3>1. \A u \in Threads : handlers'[u] \subseteq handlers[u]
      BY <1>1, <2>3 DEF StopWorker, LoopType
    <3>2. \A a \in Acceptors : acceptor'[a].servlet \in {None, acceptor[a].servlet}
      BY <2>3 DEF StopWorker, Free
    <3>. QED
      BY <1>1, <3>1, <3>2, ShrinkNoNewUse
  <2>4. CASE EndCancel
    <3>1. \A u \in Threads : handlers'[u] \subseteq handlers[u]
      BY <1>1, <2>4 DEF EndCancel, LoopType
    <3>. QED
      BY <1>1, <2>4, <3>1, DeleteServlet, ShrinkNoNewUse DEF EndCancel
  <2>. QED
    BY <1>8, <2>1, <2>2, <2>3, <2>4 DEF GoOn
<1>9. CASE onConnectionClosed \/ UNCHANGED vars
  BY <1>2, <1>9 DEF onConnectionClosed, vars, loopVars
<1>10. ASSUME NEW t \in Threads, Acceptance(t) PROVE NoNewUse
  BY <1>3, <1>4, <1>10, RequestsAreServed DEF Acceptance
<1>. QED
  BY <1>1, <1>5, <1>6, <1>7, <1>8, <1>9, <1>10, EventNoNewUse DEF Next

LEMMA UnusedKept ==
  ASSUME LoopType, NoNewUse, NEW s \in Servlets, servlets[s] # "mapped", NEW t \in Threads, Unused(s, t)
  PROVE  Unused(s, t)'
<1>. SUFFICES ASSUME NEW a \in handlers'[t], a \in Acceptors, acceptor'[a].servlet = s PROVE FALSE
  BY DEF Unused, Using
<1>1. a \in handlers[t] /\ acceptor[a].servlet = s
  BY DEF NoNewUse
<1>. QED
  BY <1>1 DEF Unused, Using

LEMMA UsageKept ==
  ASSUME TypeOK, Usage, Asking, NoNewUse, UNCHANGED <<servlets, call, idle>>,
         call.op \in {"remove", "isIdle"} =>
           \A t \in Threads : Searched(t)' => Searched(t) \/ Unused(call.servlet, t)'
  PROVE  Usage'
<1>1. LoopType /\ idle \subseteq Servlets
  BY TypeParts DEF CallType
<1>2. \A s \in Servlets : servlets[s] # "mapped" => \A t \in Threads : Unused(s, t) => Unused(s, t)'
  BY <1>1, UnusedKept
<1>3. \A s \in Servlets : servlets'[s] = "absent" /\ ~(call'.op = "remove" /\ call'.servlet = s) =>
        \A t \in Threads : Unused(s, t)'
  BY <1>2 DEF Usage
<1>4. \A s \in idle' : servlets'[s] = "shutdown" /\ \A t \in Threads : Unused(s, t)'
  BY <1>1, <1>2 DEF Usage
<1>5. ASSUME call.op \in {"remove", "isIdle"}, servlets[call.servlet] # "mapped",
             NEW t \in Threads, Searched(t)'
      PROVE  Unused(call.servlet, t)'
  <2>1. call.servlet \in Servlets
    BY <1>5 DEF Asking
  <2>2. CASE Searched(t)
    BY <1>2, <1>5, <2>1, <2>2 DEF Usage
  <2>. QED
    BY <1>5, <2>2
<1>. QED
  BY <1>3, <1>4, <1>5 DEF Usage

LEMMA EventUsage ==
  ASSUME TypeOK, IInv, NoNewUse, NEW t \in Threads, Event(t)
  PROVE  Usage'
<1>1. LoopType /\ CallType /\ ConfigType /\ Asking /\ Questions /\ Usage
  BY TypeParts DEF IInv
<1>2. UNCHANGED <<servlets, call, idle>>
  BY DEF Event, onAcceptEvent, onRemoveHandler, onRemoveServlet, onIsServletIdle, onUpgrade,
         callVars, configVars
<1>3. CASE onAcceptEvent(t) \/ onRemoveHandler(t) \/ onUpgrade
  <2>1. UNCHANGED answer
    BY <1>3 DEF onAcceptEvent, onRemoveHandler, onUpgrade, callVars
  <2>. QED
    BY <1>1, <1>2, <2>1, UsageKept DEF Searched
<1>4. CASE t # Main /\ onRemoveServlet(t)
  <2>1. /\ answer = "none" /\ call.next = t /\ Head(queue[t]).of = call.servlet
    BY <1>1, <1>4, WorkerIsAsked, ThreadFacts DEF onRemoveServlet, Question
  <2>2. Unused(call.servlet, t)'
    <3>. DEFINE D == handlers[t] \cap Using(call.servlet)
    <3>1. Delete(D) /\ handlers'[t] = handlers[t] \ D
      BY <1>1, <1>4, <2>1 DEF onRemoveServlet, LoopType
    <3>2. \A a \in Acceptors : a \notin D => acceptor'[a] = acceptor[a]
      BY <3>1 DEF Delete
    <3>. QED
      <4>1. SUFFICES ASSUME NEW a \in handlers'[t], a \in Acceptors, acceptor'[a].servlet = call.servlet
                     PROVE  FALSE
        BY <1>2 DEF Unused, Using
      <4>2. a \in handlers[t] /\ a \notin D
        BY <3>1
      <4>3. acceptor[a].servlet = call.servlet
        BY <3>2, <4>1, <4>2
      <4>. QED
        BY <4>1, <4>2, <4>3 DEF Using
  <2>3. \A u \in Threads : Searched(u)' => Searched(u) \/ u = t
    BY <1>2, <2>1 DEF Searched
  <2>. QED
    BY <1>1, <1>2, <2>2, <2>3, UsageKept
<1>5. CASE t # Main /\ onIsServletIdle(t)
  <2>1. /\ answer = "none" /\ call.next = t /\ Head(queue[t]).of = call.servlet
    BY <1>1, <1>5, WorkerIsAsked, ThreadFacts DEF onIsServletIdle, Question
  <2>2. answer' = "idle" => Unused(call.servlet, t)'
    BY <1>5, <2>1 DEF onIsServletIdle, Unused, Using
  <2>3. answer' \in {"idle", "busy"}
    BY <1>5 DEF onIsServletIdle
  <2>4. \A u \in Threads : Searched(u)' => Searched(u) \/ (u = t /\ answer' = "idle")
    BY <1>2, <2>1, <2>3 DEF Searched
  <2>. QED
    BY <1>1, <1>2, <2>2, <2>4, UsageKept
<1>. QED
  BY <1>3, <1>4, <1>5 DEF Event

LEMMA CallUsage ==
  ASSUME TypeOK, IInv, NoNewUse, Call
  PROVE  Usage'
<1>1. LoopType /\ CallType /\ ConfigType /\ Asking /\ Usage /\ Placement
  BY TypeParts DEF IInv
<1>2. call.op = "none" /\ answer = "none" /\ answer' = answer
  <2>1. call = NoCall /\ answer' = answer
    BY DEF Call, addServlet, shutdownServlet, removeServlet, isServletIdle, cancel, InCallbacks,
           Between, loopVars, callVars
  <2>. QED
    BY <1>1, <2>1 DEF Asking, NoCall
<1>3. \A s \in Servlets : servlets[s] # "mapped" => \A t \in Threads : Unused(s, t) => Unused(s, t)'
  BY <1>1, UnusedKept
<1>4. \A s \in Servlets : servlets[s] = "absent" => \A t \in Threads : Unused(s, t)'
  BY <1>2, <1>1, <1>3 DEF Usage
<1>5. \A s \in idle : servlets[s] = "shutdown" /\ s \in Servlets /\ \A t \in Threads : Unused(s, t)'
  BY <1>1, <1>3 DEF Usage, CallType
<1>6. ASSUME NEW s \in Servlets, addServlet(s) PROVE Usage'
  <2>1. /\ servlets[s] = "absent" /\ servlets'[s] = "mapped" /\ UNCHANGED <<call, idle>>
        /\ \A r \in Servlets : r # s => servlets'[r] = servlets[r]
    BY <1>1, <1>6 DEF addServlet, callVars, ConfigType
  <2>. QED
    BY <1>2, <1>4, <1>5, <2>1 DEF Usage
<1>7. ASSUME NEW s \in Servlets, shutdownServlet(s) PROVE Usage'
  <2>1. /\ servlets[s] # "absent" /\ UNCHANGED call
        /\ \/ servlets'[s] = "mapped" /\ idle' = idle \ {s}
           \/ servlets'[s] = "shutdown" /\ idle' = idle
        /\ \A r \in Servlets : r # s => servlets'[r] = servlets[r]
    BY <1>1, <1>7 DEF shutdownServlet, ConfigType
  <2>. QED
    BY <1>2, <1>4, <1>5, <2>1 DEF Usage
<1>8. ASSUME NEW s \in Servlets, removeServlet(s) PROVE Usage'
  <2>1. /\ servlets'[s] = "absent" /\ idle' = idle \ {s}
        /\ \A r \in Servlets : r # s => servlets'[r] = servlets[r]
    BY <1>1, <1>8 DEF removeServlet, ConfigType
  <2>2. call'.op = "remove" /\ call'.servlet = s /\ call'.next = 0
    BY <1>8 DEF removeServlet, NoCall
  <2>3. \A t \in Threads : ~Searched(t)'
    BY <1>2, <2>2, ThreadFacts DEF Searched
  <2>. QED
    BY <1>4, <1>5, <2>1, <2>2, <2>3 DEF Usage
<1>9. ASSUME NEW s \in Servlets, isServletIdle(s) PROVE Usage'
  <2>1. UNCHANGED <<servlets, idle, handlers, acceptor>> /\ Unused(s, Main)
    BY <1>9 DEF isServletIdle, loopVars, configVars, Unused
  <2>2. call'.op = "isIdle" /\ call'.servlet = s /\ call'.next = 1
    BY <1>9 DEF isServletIdle, NoCall
  <2>3. \A t \in Threads : Searched(t)' => t = Main
    BY <1>2, <2>2, ThreadFacts DEF Searched, Main
  <2>4. Unused(s, Main)'
    BY <2>1 DEF Unused, Using
  <2>. QED
    BY <1>4, <1>5, <2>1, <2>2, <2>3, <2>4 DEF Usage
<1>10. CASE cancel
  <2>1. UNCHANGED <<servlets, idle>> /\ call'.op = "cancel"
    BY <1>10 DEF cancel, NoCall
  <2>. QED
    BY <1>4, <1>5, <2>1 DEF Usage
<1>. QED
  BY <1>6, <1>7, <1>8, <1>9, <1>10 DEF Call

LEMMA GoOnUsage ==
  ASSUME TypeOK, IInv, NoNewUse, GoOn
  PROVE  Usage'
<1>1. LoopType /\ CallType /\ ConfigType /\ Asking /\ Stopping /\ Usage
  BY TypeParts DEF IInv
<1>2. UNCHANGED servlets
  BY DEF GoOn, RemoveOwn, AskWorker, TakeAnswer, EndAsking, StopWorker, EndCancel, configVars
<1>3. \A s \in Servlets : servlets[s] # "mapped" => \A t \in Threads : Unused(s, t) => Unused(s, t)'
  BY <1>1, UnusedKept
<1>4. \A s \in Servlets : servlets[s] = "absent" /\ ~(call.op = "remove" /\ call.servlet = s) =>
        \A t \in Threads : Unused(s, t)'
  BY <1>1, <1>3 DEF Usage
<1>5. \A s \in idle : servlets[s] = "shutdown" /\ s \in Servlets /\ \A t \in Threads : Unused(s, t)'
  BY <1>1, <1>3 DEF Usage, CallType
<1>6. ASSUME call.op \in {"remove", "isIdle"}, NEW s \in Servlets, s = call.servlet,
             servlets[s] # "mapped"
      PROVE  \A t \in Threads : Searched(t) => Unused(s, t)'
  <2>1. \A t \in Threads : Searched(t) => Unused(s, t)
    BY <1>1, <1>6 DEF Usage
  <2>. QED
    BY <1>3, <1>6, <2>1
<1>7. CASE RemoveOwn
  <2>1. /\ call.op = "remove" /\ call.next = 0 /\ UNCHANGED <<answer, idle>>
        /\ call' = [call EXCEPT !.next = 1]
    BY <1>7 DEF RemoveOwn
  <2>2. /\ call'.op = "remove" /\ call'.servlet = call.servlet /\ call'.next = 1
        /\ answer = "none" /\ call.servlet \in Servlets /\ servlets[call.servlet] = "absent"
    BY <1>1, <2>1 DEF CallType, Asking
  <2>3. \A t \in Threads : Searched(t)' => t = Main
    BY <2>1, <2>2, ThreadFacts DEF Searched, Main
  <2>4. Unused(call.servlet, Main)'
    <3>. DEFINE D == (pending \cup handlers[Main]) \cap Using(call.servlet)
    <3>1. Delete(D) /\ handlers'[Main] = handlers[Main] \ D
      BY <1>1, <1>7, ThreadFacts DEF RemoveOwn, LoopType
    <3>2. \A a \in Acceptors : a \notin D => acceptor'[a] = acceptor[a]
      BY <3>1 DEF Delete
    <3>3. SUFFICES ASSUME NEW a \in handlers'[Main], a \in Acceptors, acceptor'[a].servlet = call.servlet
                   PROVE  FALSE
      BY <2>2 DEF Unused, Using
    <3>4. a \in handlers[Main] /\ a \notin D
      BY <3>1
    <3>5. acceptor[a].servlet = call.servlet
      BY <3>2, <3>3, <3>4
    <3>. QED
      BY <3>3, <3>4, <3>5 DEF Using
  <2>. QED
    BY <1>2, <1>4, <1>5, <2>1, <2>2, <2>3, <2>4 DEF Usage
<1>8. CASE AskWorker
  <2>1. ~call.asked /\ answer' = "none" /\ call' = [call EXCEPT !.asked = TRUE] /\ UNCHANGED idle
    BY <1>8 DEF AskWorker
  <2>2. answer = "none" /\ call'.op = call.op /\ call'.servlet = call.servlet /\ call'.next = call.next
    BY <1>1, <2>1 DEF CallType, Asking
  <2>3. \A t \in Threads : Searched(t)' => Searched(t)
    BY <2>1, <2>2 DEF Searched
  <2>4. call.op \in {"remove", "isIdle"} => call.servlet \in Servlets
    BY <1>1 DEF Asking
  <2>. QED
    BY <1>2, <1>4, <1>5, <1>6, <2>1, <2>2, <2>3, <2>4 DEF Usage
<1>9. CASE TakeAnswer
  <2>1. /\ call.asked /\ answer # "none" /\ answer' = "none" /\ UNCHANGED idle
        /\ call' = IF answer = "busy" THEN NoCall
                   ELSE [call EXCEPT !.next = @ + 1, !.asked = FALSE]
    BY <1>9 DEF TakeAnswer
  <2>2. CASE answer = "busy"
    <3>1. call.op # "remove" /\ call'.op = "none"
      BY <1>1, <2>1, <2>2 DEF Asking, NoCall
    <3>. QED
      BY <1>2, <1>4, <1>5, <2>1, <3>1 DEF Usage
  <2>3. CASE answer # "busy"
    <3>1. /\ call'.op = call.op /\ call'.servlet = call.servlet /\ call'.next = call.next + 1
          /\ call.next \in Nat /\ answer \in {"removed", "idle"}
      BY <1>1, <2>1, <2>3 DEF CallType
    <3>2. \A t \in Threads : Searched(t)' => Searched(t)
      BY <2>1, <3>1, ThreadFacts DEF Searched
    <3>. QED
      BY <1>1, <1>2, <1>4, <1>5, <1>6, <2>1, <3>1, <3>2 DEF Usage, Asking
  <2>. QED
    BY <2>2, <2>3
<1>10. CASE EndAsking
  <2>1. /\ call.op \in {"remove", "isIdle"} /\ call.next > threads
        /\ call'.op = "none"
        /\ idle' = IF call.op = "isIdle" /\ servlets[call.servlet] = "shutdown"
                   THEN idle \cup {call.servlet} ELSE idle
        /\ UNCHANGED handlers
    BY <1>10 DEF EndAsking, NoCall, loopVars
  <2>2. call.servlet \in Servlets
    BY <1>1, <2>1 DEF Asking
  <2>3. ASSUME NEW s \in Servlets, s = call.servlet, servlets[s] # "mapped", NEW t \in Threads
        PROVE  Unused(s, t)'
    <3>1. CASE threads = 0 /\ t # Main
      <4>1. handlers[t] = {}
        BY <1>1, <3>1, ThreadFacts DEF Stopping, Stopped
      <4>. QED
        BY <2>1, <4>1 DEF Unused
    <3>2. CASE threads # 0 \/ t = Main
      <4>1. call.next > t
        BY <1>1, <2>1, <3>2 DEF ConfigType, CallType, Threads, WorkerThreads, Main
      <4>. QED
        BY <1>6, <2>1, <2>3, <4>1 DEF Searched
    <3>. QED
      BY <3>1, <3>2
  <2>4. call.op = "remove" => servlets[call.servlet] = "absent"
    BY <1>1 DEF Asking
  <2>5. \A s \in Servlets : servlets'[s] = "absent" => \A t \in Threads : Unused(s, t)'
    BY <1>2, <1>4, <2>2, <2>3
  <2>6. \A s \in idle' : servlets'[s] = "shutdown" /\ \A t \in Threads : Unused(s, t)'
    <3>1. ASSUME NEW s \in idle', s \notin idle
          PROVE  s = call.servlet /\ servlets[s] = "shutdown"
      BY <2>1, <3>1
    <3>. QED
      BY <1>2, <1>5, <2>2, <2>3, <3>1
  <2>. QED
    BY <2>1, <2>5, <2>6 DEF Usage
<1>11. CASE StopWorker \/ EndCancel
  <2>1. call.op = "cancel" /\ UNCHANGED idle /\ call'.op \in {"cancel", "none"}
    BY <1>1, <1>11 DEF StopWorker, EndCancel, NoCall, CallType
  <2>. QED
    BY <1>2, <1>4, <1>5, <2>1 DEF Usage
<1>. QED
  BY <1>7, <1>8, <1>9, <1>10, <1>11 DEF GoOn

LEMMA UsageStep == TypeOK /\ IInv /\ [Next]_vars => Usage'
<1>. SUFFICES ASSUME TypeOK, IInv, [Next]_vars PROVE Usage'
  OBVIOUS
<1>1. Usage /\ Asking /\ NoNewUse
  BY NoNewUseStep DEF IInv
<1>2. ASSUME UNCHANGED <<servlets, call, answer, idle>> PROVE Usage'
  BY <1>1, <1>2, UsageKept DEF Searched
<1>3. ASSUME NEW t \in Threads, Acceptance(t) PROVE Usage'
  <2>1. UNCHANGED callVars /\ UNCHANGED configVars
    BY <1>3, RequestsAreServed DEF Acceptance, Served, onHandlerUpgraded, TakeOff, callVars, configVars
  <2>. QED
    BY <1>2, <2>1 DEF callVars, configVars
<1>4. ASSUME NEW w \in WorkerThreads, Upgrade(w) PROVE Usage'
  BY <1>2, <1>4 DEF Upgrade, GiveToMain, WakeMain, callVars, configVars
<1>5. CASE onAccept
  BY <1>2, <1>5 DEF onAccept, callVars
<1>6. CASE onConnectionClosed \/ UNCHANGED vars
  BY <1>2, <1>6 DEF onConnectionClosed, vars, callVars, configVars
<1>. QED
  BY <1>1, <1>3, <1>4, <1>5, <1>6, EventUsage, CallUsage, GoOnUsage DEF Next

-----------------------------------------------------------------------------
(* Late removals.                                                          *)

Kind == {"accept", "removeHandler"}

(* The threads keep no acceptor that was not there or is less finished.    *)
HandlersKept ==
  \A w \in WorkerThreads : \A a \in handlers'[w] :
    a \in handlers[w] /\ (acceptor[a].finished => acceptor'[a].finished)

LEMMA DeleteHandlersKept ==
  ASSUME LoopType, LoopType', Listed', NEW D, Delete(D),
         \A w \in WorkerThreads : handlers'[w] \subseteq handlers[w]
  PROVE  HandlersKept
<1>. SUFFICES ASSUME NEW w \in WorkerThreads, NEW a \in handlers'[w]
              PROVE  acceptor'[a] = acceptor[a]
  BY DEF HandlersKept
<1>1. w \in Threads /\ a \in Acceptors /\ acceptor'[a].state \in Live
  BY ThreadFacts DEF LoopType, Listed
<1>2. acceptor'[a] # Free
  BY <1>1 DEF Free, Live
<1>. QED
  BY <1>1, <1>2 DEF Delete

LEMMA StaleFrame ==
  ASSUME Stale, HandlersKept,
         \A w \in WorkerThreads : \A i \in DOMAIN queue'[w] : queue'[w][i].type \in Kind =>
           i \in DOMAIN queue[w] /\ queue'[w][i] = queue[w][i]
  PROVE  Stale'
<1>1. \A w \in WorkerThreads : \A i \in DOMAIN queue'[w] :
       queue'[w][i].type = "removeHandler" /\ queue'[w][i].of \in handlers'[w] =>
         acceptor'[queue'[w][i].of].finished
  BY DEF Stale, HandlersKept, Kind
<1>2. \A w \in WorkerThreads : \A i, j \in DOMAIN queue'[w] :
       /\ queue'[w][i].type = "accept" /\ queue'[w][j].type = "removeHandler"
       /\ queue'[w][i].of = queue'[w][j].of
       => j < i
  BY DEF Stale, Kind
<1>. QED
  BY <1>1, <1>2 DEF Stale

LEMMA StaleCommit ==
  ASSUME LoopType, Stale, HandlersKept, NEW t \in Threads, NEW ev \in EventType,
         commitEvent(t, ev), t = Main \/ ev.type \notin Kind
  PROVE  Stale'
<1>1. \A u \in Threads : \A i \in DOMAIN queue'[u] :
        \/ i \in DOMAIN queue[u] /\ queue'[u][i] = queue[u][i]
        \/ u = t /\ queue'[u][i] = ev
  BY CommitFacts DEF LoopType
<1>. QED
  BY <1>1, StaleFrame, ThreadFacts

LEMMA StalePop ==
  ASSUME LoopType, Stale, HandlersKept, NEW t \in Threads, queue[t] # <<>>, Pop(t)
  PROVE  Stale'
<1>. DEFINE Old(u, i) == IF u = t THEN i + 1 ELSE i
<1>1. \A u \in Threads : \A i \in DOMAIN queue'[u] :
        Old(u, i) \in DOMAIN queue[u] /\ queue'[u][i] = queue[u][Old(u, i)]
  BY PopFacts DEF LoopType
<1>2. \A u \in Threads : \A i, j \in DOMAIN queue'[u] : Old(u, i) < Old(u, j) => i < j
  BY PopFacts DEF LoopType
<1>. HIDE DEF Old
<1>3. ASSUME NEW w \in WorkerThreads, NEW i \in DOMAIN queue'[w],
             queue'[w][i].type = "removeHandler", queue'[w][i].of \in handlers'[w]
      PROVE  acceptor'[queue'[w][i].of].finished
  BY <1>1, <1>3, ThreadFacts DEF Stale, HandlersKept
<1>4. ASSUME NEW w \in WorkerThreads, NEW i \in DOMAIN queue'[w], NEW j \in DOMAIN queue'[w],
             queue'[w][i].type = "accept", queue'[w][j].type = "removeHandler",
             queue'[w][i].of = queue'[w][j].of
      PROVE  j < i
  <2>1. Old(w, j) < Old(w, i)
    BY <1>1, <1>4, ThreadFacts DEF Stale
  <2>. QED
    BY <1>2, <2>1, ThreadFacts
<1>. QED
  BY <1>3, <1>4 DEF Stale

LEMMA ServedStale ==
  ASSUME TypeOK, Placement, Stale, NEW t \in Threads, NEW a \in Acceptors, Served(t, a)
  PROVE  Stale'
<1>1. LoopType
  BY TypeParts
<1>2. PICK r \in Record : /\ acceptor' = [acceptor EXCEPT ![a] = r]
                          /\ acceptor[a].finished => r.finished
                          /\ \/ UNCHANGED queue
                             \/ commitEvent(t, RemoveHandlerEvent(a)) /\ r.finished
  BY DEF Served
<1>3. /\ acceptor'[a] = r
      /\ \A b \in Acceptors : b # a => acceptor'[b] = acceptor[b]
      /\ a \in handlers[t] /\ UNCHANGED handlers
  BY <1>1, <1>2 DEF LoopType, Served
<1>4. HandlersKept
  BY <1>1, <1>2, <1>3, ThreadFacts DEF HandlersKept, LoopType
<1>5. CASE UNCHANGED queue
  BY <1>4, <1>5, StaleFrame
<1>6. CASE commitEvent(t, RemoveHandlerEvent(a)) /\ r.finished
  <2>1. \A u \in Threads : \A i \in DOMAIN queue'[u] :
          \/ i \in DOMAIN queue[u] /\ queue'[u][i] = queue[u][i]
          \/ u = t /\ queue'[u][i] = RemoveHandlerEvent(a)
    BY <1>1, <1>6, CommitFacts, EventTypesOK DEF LoopType
  <2>2. RemoveHandlerEvent(a).type = "removeHandler" /\ RemoveHandlerEvent(a).of = a
    BY EventNames
  <2>3. \A u \in Threads : \A i \in DOMAIN queue[u] :
          queue[u][i].type = "accept" => queue[u][i].of # a
    <3>1. acceptor[a].state \in Live
      BY <1>3 DEF Placement, Listed
    <3>2. \A u \in Threads : \A i \in DOMAIN queue[u] :
            queue[u][i].type = "accept" => acceptor[queue[u][i].of].state = "given"
      BY DEF Placement, Underway, Free
    <3>. QED
      BY <3>1, <3>2 DEF Live
  <2>4. ASSUME NEW w \in WorkerThreads, NEW i \in DOMAIN queue'[w],
               queue'[w][i].type = "removeHandler", queue'[w][i].of \in handlers'[w]
        PROVE  acceptor'[queue'[w][i].of].finished
    <3>1. CASE i \in DOMAIN queue[w] /\ queue'[w][i] = queue[w][i]
      BY <1>4, <2>4, <3>1 DEF Stale, HandlersKept
    <3>2. CASE queue'[w][i] = RemoveHandlerEvent(a)
      BY <1>3, <1>6, <2>2, <3>2
    <3>. QED
      BY <2>1, <3>1, <3>2, ThreadFacts
  <2>5. ASSUME NEW w \in WorkerThreads, NEW i \in DOMAIN queue'[w], NEW j \in DOMAIN queue'[w],
               queue'[w][i].type = "accept", queue'[w][j].type = "removeHandler",
               queue'[w][i].of = queue'[w][j].of
        PROVE  j < i
    <3>1. i \in DOMAIN queue[w] /\ queue'[w][i] = queue[w][i] /\ queue[w][i].of # a
      BY <2>1, <2>2, <2>3, <2>5, ThreadFacts
    <3>2. j \in DOMAIN queue[w] /\ queue'[w][j] = queue[w][j]
      BY <2>1, <2>2, <2>5, <3>1, ThreadFacts
    <3>. QED
      BY <2>5, <3>1, <3>2 DEF Stale
  <2>. QED
    BY <2>4, <2>5 DEF Stale
<1>. QED
  BY <1>2, <1>5, <1>6

LEMMA AcceptEventStale ==
  ASSUME TypeOK, Placement, Stale, NEW t \in WorkerThreads, onAcceptEvent(t)
  PROVE  Stale'
<1>. DEFINE a == queue[t][1].of
            Old(u, i) == IF u = t THEN i + 1 ELSE i
<1>1. LoopType /\ t \in Threads
  BY TypeParts, ThreadFacts
<1>2. /\ 1 \in DOMAIN queue[t] /\ Head(queue[t]) = queue[t][1] /\ queue[t][1].type = "accept"
      /\ queue[t] # <<>>
  BY <1>1, ComesFacts DEF onAcceptEvent, LoopType
<1>3. a \in Acceptors
  BY <1>1, <1>2 DEF Placement, Underway
<1>4. acceptor' = [acceptor EXCEPT ![a].state = "receive"]
  BY <1>2 DEF onAcceptEvent
<1>5. \A b \in Acceptors : acceptor'[b].finished = acceptor[b].finished
  BY <1>1, <1>3, <1>4, SetState DEF States
<1>6. \A u \in Threads : handlers'[u] = IF u = t THEN handlers[u] \cup {a} ELSE handlers[u]
  BY <1>1, <1>2 DEF onAcceptEvent, LoopType
<1>7. \A u \in Threads : \A i \in DOMAIN queue'[u] :
        /\ Old(u, i) \in DOMAIN queue[u] /\ queue'[u][i] = queue[u][Old(u, i)]
        /\ u = t => Old(u, i) > 1
  BY <1>1, <1>2, PopFacts DEF LoopType, onAcceptEvent
<1>8. \A u \in Threads : \A i, j \in DOMAIN queue'[u] : Old(u, i) < Old(u, j) => i < j
  BY <1>1, <1>2, PopFacts DEF LoopType, onAcceptEvent
<1>9. \A u \in Threads : \A i \in DOMAIN queue'[u] : Old(u, i) \in Nat
  BY <1>1, <1>7 DEF LoopType
<1>. HIDE DEF a, Old
<1>10. ASSUME NEW w \in WorkerThreads, NEW i \in DOMAIN queue'[w],
              queue'[w][i].type = "removeHandler", queue'[w][i].of \in handlers'[w]
       PROVE  acceptor'[queue'[w][i].of].finished
  <2>1. /\ Old(w, i) \in DOMAIN queue[w] /\ queue[w][Old(w, i)].type = "removeHandler"
        /\ queue'[w][i].of = queue[w][Old(w, i)].of /\ w \in Threads
    BY <1>7, <1>10, ThreadFacts
  <2>2. ~(w = t /\ queue[w][Old(w, i)].of = a)
    <3>. SUFFICES ASSUME w = t, queue[t][Old(t, i)].of = a PROVE FALSE
      OBVIOUS
    <3>1. Old(t, i) < 1
      BY <1>2, <2>1 DEF Stale, a
    <3>. QED
      BY <1>7, <1>9, <2>1, <3>1
  <2>3. queue[w][Old(w, i)].of \in handlers[w]
    BY <1>6, <1>10, <2>1, <2>2
  <2>4. acceptor[queue[w][Old(w, i)].of].finished /\ queue[w][Old(w, i)].of \in Acceptors
    BY <1>1, <2>1, <2>3 DEF Stale, LoopType
  <2>. QED
    BY <1>5, <2>1, <2>4
<1>11. ASSUME NEW w \in WorkerThreads, NEW i \in DOMAIN queue'[w], NEW j \in DOMAIN queue'[w],
              queue'[w][i].type = "accept", queue'[w][j].type = "removeHandler",
              queue'[w][i].of = queue'[w][j].of
       PROVE  j < i
  <2>1. Old(w, j) < Old(w, i)
    BY <1>7, <1>11, ThreadFacts DEF Stale
  <2>. QED
    BY <1>8, <2>1, ThreadFacts
<1>. QED
  BY <1>10, <1>11 DEF Stale

LEMMA AcceptStale ==
  ASSUME TypeOK, Placement, Stale, onAccept
  PROVE  Stale'
<1>1. LoopType /\ ConfigType
  BY TypeParts
<1>2. PICK a \in Acceptors :
        /\ acceptor[a].state = "free"
        /\ \/ /\ useWorker <= threads
              /\ commitEvent(useWorker, AcceptEvent(a))
              /\ acceptor' = [acceptor EXCEPT ![a].state = "given"]
              /\ UNCHANGED handlers
           \/ /\ useWorker > threads
              /\ handlers' = [handlers EXCEPT ![Main] = @ \cup {a}]
              /\ acceptor' = [acceptor EXCEPT ![a].state = "receive"]
              /\ UNCHANGED queue
  BY DEF onAccept
<1>3. \A b \in Acceptors : acceptor'[b].finished = acceptor[b].finished
  BY <1>1, <1>2, SetState DEF States
<1>4. \A w \in WorkerThreads : handlers'[w] = handlers[w]
  BY <1>1, <1>2, ThreadFacts DEF LoopType
<1>5. HandlersKept
  BY <1>1, <1>3, <1>4, ThreadFacts DEF HandlersKept, LoopType
<1>6. CASE UNCHANGED queue
  BY <1>5, <1>6, StaleFrame
<1>7. CASE useWorker <= threads /\ commitEvent(useWorker, AcceptEvent(a))
  <2>1. useWorker \in Threads
    BY <1>1, <1>7 DEF ConfigType, WorkerThreads, Threads
  <2>2. AcceptEvent(a).type = "accept" /\ AcceptEvent(a).of = a
    BY EventNames
  <2>3. \A u \in Threads : \A i \in DOMAIN queue'[u] :
          \/ i \in DOMAIN queue[u] /\ queue'[u][i] = queue[u][i]
          \/ u = useWorker /\ queue'[u][i] = AcceptEvent(a)
             /\ i \in Nat /\ \A j \in DOMAIN queue[u] : j \in Nat /\ j < i
    BY <1>1, <1>7, <2>1, CommitFacts, EventTypesOK DEF LoopType
  <2>4. ASSUME NEW w \in WorkerThreads, NEW i \in DOMAIN queue'[w],
               queue'[w][i].type = "removeHandler", queue'[w][i].of \in handlers'[w]
        PROVE  acceptor'[queue'[w][i].of].finished
    <3>1. i \in DOMAIN queue[w] /\ queue'[w][i] = queue[w][i]
      BY <2>2, <2>3, <2>4, ThreadFacts
    <3>. QED
      BY <1>5, <2>4, <3>1 DEF Stale, HandlersKept
  <2>5. ASSUME NEW w \in WorkerThreads, NEW i \in DOMAIN queue'[w], NEW j \in DOMAIN queue'[w],
               queue'[w][i].type = "accept", queue'[w][j].type = "removeHandler",
               queue'[w][i].of = queue'[w][j].of
        PROVE  j < i
    <3>1. j \in DOMAIN queue[w] /\ queue'[w][j] = queue[w][j]
      BY <2>2, <2>3, <2>5, ThreadFacts
    <3>2. CASE i \in DOMAIN queue[w] /\ queue'[w][i] = queue[w][i]
      BY <2>5, <3>1, <3>2 DEF Stale
    <3>3. CASE \A k \in DOMAIN queue[w] : k < i
      BY <3>1, <3>3
    <3>. QED
      BY <2>3, <3>2, <3>3, ThreadFacts
  <2>. QED
    BY <2>4, <2>5 DEF Stale
<1>. QED
  BY <1>2, <1>6, <1>7

LEMMA AcceptorStale ==
  ASSUME TypeOK, Stale, NEW t \in Threads, NEW a \in Acceptors,
         \/ t = Main /\ onHandlerUpgraded(a)
         \/ t # Main /\ TakeOff(t, a)
  PROVE  Stale'
<1>1. LoopType
  BY TypeParts
<1>2. /\ \A b \in Acceptors : acceptor'[b].finished = acceptor[b].finished
      /\ \A w \in WorkerThreads : handlers'[w] \subseteq handlers[w]
  <2>1. acceptor' = [acceptor EXCEPT ![a].state = "upgrade"]
    BY DEF onHandlerUpgraded, TakeOff
  <2>2. handlers' = [handlers EXCEPT ![t] = handlers[t] \ {a}]
    BY DEF onHandlerUpgraded, TakeOff
  <2>. QED
    BY <1>1, <2>1, <2>2, SetState, ThreadFacts DEF States, LoopType
<1>3. HandlersKept
  BY <1>1, <1>2, ThreadFacts DEF HandlersKept, LoopType
<1>4. CASE UNCHANGED queue
  BY <1>3, <1>4, StaleFrame
<1>5. CASE commitEvent(Main, UpgradeEvent)
  BY <1>1, <1>3, <1>5, StaleCommit, EventTypesOK, ThreadFacts
<1>. QED
  BY <1>4, <1>5 DEF onHandlerUpgraded, TakeOff

LEMMA EventStale ==
  ASSUME TypeOK, TypeOK', Placement, Placement', Stale, NEW t \in Threads, Event(t)
  PROVE  Stale'
<1>1. LoopType /\ LoopType' /\ Listed'
  BY TypeParts DEF Placement
<1>2. CASE t # Main /\ onAcceptEvent(t)
  BY <1>2, AcceptEventStale, ThreadFacts
<1>3. CASE onRemoveHandler(t) \/ onRemoveServlet(t)
  <2>1. /\ \E D : handlers' = [handlers EXCEPT ![t] = @ \ D] /\ Delete(D)
        /\ queue[t] # <<>> /\ Pop(t)
    BY <1>3 DEF onRemoveHandler, onRemoveServlet, Comes
  <2>2. \A w \in WorkerThreads : handlers'[w] \subseteq handlers[w]
    BY <1>1, <2>1, ThreadFacts DEF LoopType
  <2>3. HandlersKept
    BY <1>1, <2>1, <2>2, DeleteHandlersKept
  <2>. QED
    BY <1>1, <2>1, <2>3, StalePop
<1>4. CASE onIsServletIdle(t)
  BY <1>1, <1>4, StalePop DEF onIsServletIdle, Comes, HandlersKept
<1>5. CASE t = Main /\ onUpgrade
  <2>1. CASE UNCHANGED <<handlers, acceptor>> /\ Pop(Main) /\ queue[Main] # <<>>
    BY <1>1, <2>1, ThreadFacts, StalePop DEF HandlersKept
  <2>2. CASE UNCHANGED <<handlers, queue>> /\ \E a \in pending : Delete({a})
    <3>1. HandlersKept
      BY <1>1, <2>2, DeleteHandlersKept
    <3>. QED
      BY <2>2, <3>1, StaleFrame
  <2>. QED
    BY <1>5, <2>1, <2>2 DEF onUpgrade, Comes
<1>. QED
  BY <1>2, <1>3, <1>4, <1>5 DEF Event

LEMMA GoOnStale ==
  ASSUME TypeOK, TypeOK', Placement', Asking, Stale, GoOn
  PROVE  Stale'
<1>1. LoopType /\ LoopType' /\ CallType /\ ConfigType /\ Listed'
  BY TypeParts DEF Placement
<1>2. CASE RemoveOwn \/ EndCancel
  <2>1. /\ \E D : handlers' = [handlers EXCEPT ![Main] = @ \ D]
        /\ \E D : Delete(D)
        /\ UNCHANGED queue
    <3>1. CASE RemoveOwn
      BY <3>1 DEF RemoveOwn
    <3>2. CASE EndCancel
      <4>1. handlers' = [handlers EXCEPT ![Main] = @ \ handlers[Main]]
        BY <1>1, <3>2, ThreadFacts DEF EndCancel, LoopType
      <4>. QED
        BY <3>2, <4>1 DEF EndCancel
    <3>. QED
      BY <1>2, <3>1, <3>2
  <2>2. \A w \in WorkerThreads : handlers'[w] \subseteq handlers[w]
    BY <1>1, <2>1, ThreadFacts DEF LoopType
  <2>3. HandlersKept
    BY <1>1, <2>1, <2>2, DeleteHandlersKept
  <2>. QED
    BY <2>1, <2>3, StaleFrame
<1>3. CASE AskWorker
  <2>1. HandlersKept
    BY <1>3 DEF AskWorker, HandlersKept
  <2>2. call.servlet \in Servlets /\ call.next \in Threads
    BY <1>1, <1>3 DEF AskWorker, Asking, CallType, ConfigType, Threads, WorkerThreads
  <2>3. PICK ev \in {RemoveServletEvent(call.servlet), ServletInfoEvent(call.servlet)} :
          commitEvent(call.next, ev)
    BY <1>3 DEF AskWorker
  <2>4. ev \in EventType
    BY <2>2, <2>3, EventTypesOK
  <2>5. ev.type \in {"removeServlet", "servletInfo"}
    BY <2>3 DEF RemoveServletEvent, ServletInfoEvent
  <2>6. ev.type \notin Kind
    BY <2>5 DEF Kind
  <2>. QED
    BY <1>1, <2>1, <2>2, <2>3, <2>4, <2>6, StaleCommit
<1>4. CASE TakeAnswer \/ EndAsking
  BY <1>4, StaleFrame DEF TakeAnswer, EndAsking, loopVars, HandlersKept
<1>5. CASE StopWorker
  <2>1. /\ call.next \in Threads
        /\ handlers' = [handlers EXCEPT ![call.next] = {}]
        /\ queue' = [queue EXCEPT ![call.next] = <<>>]
    BY <1>1, <1>5 DEF StopWorker, CallType, ConfigType, Threads, WorkerThreads
  <2>2. \A a \in Acceptors : acceptor'[a] = acceptor[a] \/ acceptor'[a].state \in {"free", "leaked"}
    BY <1>5 DEF StopWorker, Free
  <2>3. \A w \in WorkerThreads : handlers'[w] \subseteq handlers[w]
    BY <1>1, <2>1, ThreadFacts DEF LoopType
  <2>4. HandlersKept
    <3>. SUFFICES ASSUME NEW w \in WorkerThreads, NEW a \in handlers'[w]
                  PROVE  acceptor'[a] = acceptor[a] /\ a \in handlers[w]
      BY DEF HandlersKept
    <3>1. a \in handlers[w] /\ a \in Acceptors /\ acceptor'[a].state \in Live
      BY <1>1, <2>3, ThreadFacts DEF LoopType, Listed
    <3>. QED
      BY <2>2, <3>1 DEF Live
  <2>5. \A w \in WorkerThreads : \A i \in DOMAIN queue'[w] : i \in DOMAIN queue[w] /\ queue'[w][i] = queue[w][i]
    BY <1>1, <2>1, ThreadFacts DEF LoopType
  <2>. QED
    BY <2>4, <2>5, StaleFrame
<1>. QED
  BY <1>2, <1>3, <1>4, <1>5 DEF GoOn

LEMMA StaleStep == TypeOK /\ IInv /\ [Next]_vars => Stale'
<1>. SUFFICES ASSUME TypeOK, IInv, [Next]_vars PROVE Stale'
  OBVIOUS
<1>1. /\ Placement /\ Stale /\ Asking /\ LoopType
      /\ TypeOK' /\ Placement' /\ LoopType' /\ Listed'
  BY TypeStep, PlacementStep, TypeParts DEF IInv, Placement
<1>2. ASSUME NEW t \in Threads, Acceptance(t) PROVE Stale'
  BY <1>1, <1>2, RequestsAreServed, ServedStale, AcceptorStale DEF Acceptance
<1>3. ASSUME NEW w \in WorkerThreads, Upgrade(w) PROVE Stale'
  <2>1. HandlersKept
    BY <1>3 DEF Upgrade, GiveToMain, WakeMain, loopVars, HandlersKept
  <2>2. UNCHANGED queue \/ commitEvent(Main, UpgradeEvent)
    BY <1>3 DEF Upgrade, GiveToMain, WakeMain, loopVars
  <2>. QED
    BY <1>1, <2>1, <2>2, StaleFrame, StaleCommit, EventTypesOK, ThreadFacts
<1>4. CASE cancel
  <2>1. HandlersKept /\ UNCHANGED queue
    BY <1>1, <1>4, DeleteHandlersKept DEF cancel
  <2>. QED
    BY <1>1, <2>1, StaleFrame
<1>5. ASSUME UNCHANGED loopVars PROVE Stale'
  BY <1>1, <1>5 DEF Stale, loopVars
<1>6. ASSUME NEW s \in Servlets,
             addServlet(s) \/ shutdownServlet(s) \/ removeServlet(s) \/ isServletIdle(s)
      PROVE  Stale'
  BY <1>5, <1>6 DEF addServlet, shutdownServlet, removeServlet, isServletIdle
<1>7. CASE onConnectionClosed \/ UNCHANGED vars
  BY <1>5, <1>7 DEF onConnectionClosed, vars
<1>. QED
  BY <1>1, <1>2, <1>3, <1>4, <1>6, <1>7, EventStale, AcceptStale, GoOnStale DEF Next, Call

-----------------------------------------------------------------------------
(* The theorems.                                                           *)

LEMMA Invariant == Spec => [](TypeOK /\ IInv)
<1>1. Init => TypeOK /\ IInv
  BY TypeInit, InvInit
<1>2. TypeOK /\ IInv /\ [Next]_vars => (TypeOK /\ IInv)'
  BY TypeStep, PlacementStep, StoppingStep, AskingStep, UsageStep, StaleStep DEF IInv
<1>. QED
  BY <1>1, <1>2, PTL DEF Spec

(* The state keeps its types: no handler of an event finds another event,  *)
(* and a thread gets acceptors only.                                       *)
THEOREM TypeCorrect == Spec => []TypeOK
<1>. HIDE DEF TypeOK, IInv
<1>. QED
  BY Invariant, PTL

(* When removeServlet has returned, no thread serves an acceptor with the  *)
(* servlet, however many workers were asked and whatever they served then. *)
THEOREM RemovedServletNotServed == Spec => []RemovedServletUnused
<1>1. TypeOK /\ IInv => RemovedServletUnused
  BY DEF IInv, Usage, Unused, RemovedServletUnused
<1>. QED
  BY Invariant, <1>1, PTL

(* A servlet that was found idle since it was shut down is unused in all   *)
(* threads, the ones that were asked before the others included.           *)
THEOREM IdleHolds == Spec => []IdleMeansUnused
<1>1. TypeOK /\ IInv => IdleMeansUnused
  BY DEF IInv, Usage, Unused, IdleMeansUnused
<1>. QED
  BY Invariant, <1>1, PTL

(* In a worker, a RemoveHandlerEvent that comes late never hits an         *)
(* acceptor that goes on: the accept event of that one is behind it.       *)
THEOREM StaleRemovalsHarmless == Spec => []StaleRemoveHarmless
<1>1. TypeOK /\ IInv => StaleRemoveHarmless
  BY DEF IInv, Stale, Queued, StaleRemoveHarmless
<1>. QED
  BY Invariant, <1>1, PTL

-----------------------------------------------------------------------------
(* Every acceptor has one holder.  Placement says that there are not two;  *)
(* Kept says that the state of an acceptor names one that is there.        *)

(* The holder that the state of an acceptor names.                         *)

OnItsWay(t, a) == \E i \in DOMAIN queue[t] : queue[t][i] = AcceptEvent(a)

TakenOff(w, a) == inside[w] = [acceptor |-> a, step |-> "takenOff"]

Held(a) ==
  /\ acceptor[a].state \in Live => \E t \in Threads : a \in handlers[t]
  /\ acceptor[a].state = "given" => \E t \in Threads : OnItsWay(t, a)
  /\ acceptor[a].state = "upgrade" => a \in pending \/ \E w \in WorkerThreads : TakenOff(w, a)

Kept == \A a \in Acceptors : Held(a)

LEMMA KeptInit == Init => Kept
BY DEF Init, Kept, Held, Free, Live

(* An acceptor whose state and holders are not touched.                    *)
Untouched(a) ==
  /\ acceptor'[a].state = acceptor[a].state
  /\ \A t \in Threads : a \in handlers[t] => a \in handlers'[t]
  /\ \A t \in Threads : OnItsWay(t, a) => OnItsWay(t, a)'
  /\ a \in pending => a \in pending'
  /\ \A w \in WorkerThreads : TakenOff(w, a) => TakenOff(w, a)'

LEMMA HeldUntouched ==
  ASSUME Kept, NEW a \in Acceptors, Untouched(a)
  PROVE  Held(a)'
BY DEF Kept, Held, Untouched

LEMMA HeldFree ==
  ASSUME NEW a \in Acceptors, acceptor'[a].state \in {"free", "leaked"}
  PROVE  Held(a)'
BY DEF Held, Live

(* An event that is committed leaves the others in the queue.              *)
LEMMA CommitKeeps ==
  ASSUME LoopType, NEW t \in Threads, NEW ev \in EventType, commitEvent(t, ev)
  PROVE  /\ \A a \in Acceptors : \A u \in Threads : OnItsWay(u, a) => OnItsWay(u, a)'
         /\ \E i \in DOMAIN queue'[t] : queue'[t][i] = ev
<1>1. queue[t] \in Seq(EventType) /\ queue \in [Threads -> Seq(EventType)]
  BY DEF LoopType
<1>2. queue' = [queue EXCEPT ![t] = Append(queue[t], ev)]
  BY DEF commitEvent
<1>3. /\ \A i \in DOMAIN queue[t] : i \in DOMAIN Append(queue[t], ev) /\ Append(queue[t], ev)[i] = queue[t][i]
      /\ Len(queue[t]) + 1 \in DOMAIN Append(queue[t], ev)
      /\ Append(queue[t], ev)[Len(queue[t]) + 1] = ev
  BY <1>1
<1>4. \A u \in Threads : \A i \in DOMAIN queue[u] : i \in DOMAIN queue'[u] /\ queue'[u][i] = queue[u][i]
  BY <1>1, <1>2, <1>3
<1>5. \E i \in DOMAIN queue'[t] : queue'[t][i] = ev
  BY <1>1, <1>2, <1>3
<1>. QED
  BY <1>4, <1>5 DEF OnItsWay

(* An event that is received is the only one that leaves the queue.        *)
LEMMA PopKeeps ==
  ASSUME LoopType, NEW t \in Threads, queue[t] # <<>>, Pop(t),
         NEW a \in Acceptors, Head(queue[t]) # AcceptEvent(a)
  PROVE  \A u \in Threads : OnItsWay(u, a) => OnItsWay(u, a)'
<1>1. queue[t] \in Seq(EventType) /\ queue \in [Threads -> Seq(EventType)]
  BY DEF LoopType
<1>2. queue' = [queue EXCEPT ![t] = Tail(queue[t])]
  BY DEF Pop
<1>3. \A i \in DOMAIN queue[t] : i # 1 => i - 1 \in DOMAIN Tail(queue[t]) /\ Tail(queue[t])[i - 1] = queue[t][i]
  BY <1>1
<1>4. queue[t][1] # AcceptEvent(a)
  BY <1>1
<1>5. OnItsWay(t, a) => OnItsWay(t, a)'
  <2>1. SUFFICES ASSUME NEW i \in DOMAIN queue[t], queue[t][i] = AcceptEvent(a)
                 PROVE  \E j \in DOMAIN queue'[t] : queue'[t][j] = AcceptEvent(a)
    BY DEF OnItsWay
  <2>2. queue'[t] = Tail(queue[t])
    BY <1>1, <1>2
  <2>. QED
    BY <1>3, <1>4, <2>1, <2>2
<1>6. \A u \in Threads : u # t => queue'[u] = queue[u]
  BY <1>1, <1>2
<1>. QED
  BY <1>5, <1>6 DEF OnItsWay

-----------------------------------------------------------------------------
(* The steps.                                                              *)

LEMMA ServedKept ==
  ASSUME TypeOK, Placement, Kept, NEW t \in Threads, NEW a \in Acceptors, Served(t, a)
  PROVE  Kept'
<1>1. LoopType
  BY TypeParts
<1>2. /\ a \in handlers[t] /\ UNCHANGED handlers /\ UNCHANGED pending /\ UNCHANGED inside
      /\ acceptor'[a].state \in Live
      /\ \A b \in Acceptors : b # a => acceptor'[b] = acceptor[b]
  BY <1>1 DEF Served, LoopType, upgradeVars
<1>3. \A b \in Acceptors : \A u \in Threads : OnItsWay(u, b) => OnItsWay(u, b)'
  <2>1. CASE UNCHANGED queue
    BY <2>1 DEF OnItsWay
  <2>2. CASE commitEvent(t, RemoveHandlerEvent(a))
    BY <1>1, <2>2, CommitKeeps, EventTypesOK
  <2>. QED
    BY <2>1, <2>2 DEF Served
<1>4. Held(a)'
  BY <1>2 DEF Held, Live
<1>5. ASSUME NEW b \in Acceptors, b # a PROVE Held(b)'
  BY <1>2, <1>3, <1>5, HeldUntouched DEF Untouched, TakenOff
<1>. QED
  BY <1>4, <1>5 DEF Kept

LEMMA AcceptorKept ==
  ASSUME TypeOK, Kept, NEW t \in Threads, NEW a \in Acceptors,
         \/ t = Main /\ onHandlerUpgraded(a)
         \/ t # Main /\ TakeOff(t, a)
  PROVE  Kept'
<1>1. LoopType /\ UpgradeType
  BY TypeParts
<1>2. /\ acceptor'[a].state = "upgrade"
      /\ \A b \in Acceptors : b # a => acceptor'[b] = acceptor[b]
  <2>1. acceptor' = [acceptor EXCEPT ![a].state = "upgrade"]
    BY DEF onHandlerUpgraded, TakeOff
  <2>. QED
    BY <1>1, <2>1, SetState DEF States
<1>3. \A b \in Acceptors : b # a => \A u \in Threads : b \in handlers[u] => b \in handlers'[u]
  <2>1. handlers' = [handlers EXCEPT ![t] = handlers[t] \ {a}]
    BY DEF onHandlerUpgraded, TakeOff
  <2>. QED
    BY <1>1, <2>1 DEF LoopType
<1>4. \A b \in Acceptors : \A u \in Threads : OnItsWay(u, b) => OnItsWay(u, b)'
  <2>1. CASE UNCHANGED queue
    BY <2>1 DEF OnItsWay
  <2>2. CASE commitEvent(Main, UpgradeEvent)
    BY <1>1, <2>2, CommitKeeps, EventTypesOK, ThreadFacts
  <2>. QED
    BY <2>1, <2>2 DEF onHandlerUpgraded, TakeOff
<1>5. CASE t = Main /\ onHandlerUpgraded(a)
  <2>1. pending' = pending \cup {a} /\ UNCHANGED inside
    BY <1>5 DEF onHandlerUpgraded
  <2>2. Held(a)'
    BY <1>2, <2>1 DEF Held, Live
  <2>3. \A b \in Acceptors : b # a => Untouched(b)
    BY <1>2, <1>3, <1>4, <2>1 DEF Untouched, TakenOff
  <2>. QED
    BY <2>2, <2>3, HeldUntouched DEF Kept
<1>6. CASE t # Main /\ TakeOff(t, a)
  <2>1. /\ UNCHANGED pending /\ inside' = [inside EXCEPT ![t] = [acceptor |-> a, step |-> "takenOff"]]
        /\ inside[t] = Outside /\ t \in WorkerThreads
    BY <1>6, ThreadFacts DEF TakeOff, Serving, InCallbacks, Between
  <2>2. TakenOff(t, a)'
    BY <1>1, <2>1 DEF TakenOff, UpgradeType
  <2>3. Held(a)'
    BY <1>2, <2>1, <2>2 DEF Held, Live
  <2>4. \A b \in Acceptors : ~TakenOff(t, b)
    BY <2>1 DEF TakenOff, Outside
  <2>5. \A b \in Acceptors : \A w \in WorkerThreads : TakenOff(w, b) => TakenOff(w, b)'
    BY <1>1, <2>1, <2>4 DEF TakenOff, UpgradeType
  <2>6. \A b \in Acceptors : b # a => Untouched(b)
    BY <1>2, <1>3, <1>4, <2>1, <2>5 DEF Untouched
  <2>. QED
    BY <2>3, <2>6, HeldUntouched DEF Kept
<1>. QED
  BY <1>5, <1>6

LEMMA UpgradeKept ==
  ASSUME TypeOK, Kept, NEW w \in WorkerThreads, Upgrade(w)
  PROVE  Kept'
<1>1. LoopType /\ UpgradeType
  BY TypeParts
<1>2. UNCHANGED <<acceptor, handlers>>
  BY DEF Upgrade, GiveToMain, WakeMain, loopVars
<1>3. \A b \in Acceptors : \A u \in Threads : OnItsWay(u, b) => OnItsWay(u, b)'
  <2>1. CASE UNCHANGED queue
    BY <2>1 DEF OnItsWay
  <2>2. CASE commitEvent(Main, UpgradeEvent)
    BY <1>1, <2>2, CommitKeeps, EventTypesOK, ThreadFacts
  <2>. QED
    BY <2>1, <2>2 DEF Upgrade, GiveToMain, WakeMain, loopVars
<1>4. \A v \in WorkerThreads : v # w => inside'[v] = inside[v]
  BY <1>1 DEF Upgrade, GiveToMain, WakeMain, UpgradeType
<1>5. \A b \in Acceptors : \A v \in WorkerThreads :
        TakenOff(v, b) => TakenOff(v, b)' \/ (GiveToMain(w) /\ b = inside[w].acceptor)
  <2>1. \A b \in Acceptors : \A v \in WorkerThreads : v # w => (TakenOff(v, b) => TakenOff(v, b)')
    BY <1>4 DEF TakenOff
  <2>2. \A b \in Acceptors : TakenOff(w, b) => GiveToMain(w) /\ b = inside[w].acceptor
    BY DEF TakenOff, Upgrade, WakeMain
  <2>. QED
    BY <2>1, <2>2
<1>6. pending \subseteq pending' /\ (GiveToMain(w) => inside[w].acceptor \in pending')
  BY DEF Upgrade, GiveToMain, WakeMain
<1>7. ASSUME NEW a \in Acceptors PROVE Held(a)'
  BY <1>2, <1>3, <1>5, <1>6 DEF Kept, Held
<1>. QED
  BY <1>7 DEF Kept

LEMMA DeleteKept ==
  ASSUME LoopType, Kept, NEW t \in Threads, NEW D, Delete(D),
         handlers' = [handlers EXCEPT ![t] = handlers[t] \ D],
         \A a \in Acceptors \ D : \A u \in Threads : OnItsWay(u, a) => OnItsWay(u, a)',
         pending \ D \subseteq pending', UNCHANGED inside
  PROVE  Kept'
<1>1. \A a \in Acceptors : a \in D => Held(a)'
  BY HeldFree DEF Delete, Free
<1>2. \A a \in Acceptors : a \notin D => Untouched(a)
  BY DEF Untouched, Delete, LoopType, TakenOff
<1>. QED
  BY <1>1, <1>2, HeldUntouched DEF Kept

LEMMA EventKept ==
  ASSUME TypeOK, Placement, Kept, NEW t \in Threads, Event(t)
  PROVE  Kept'
<1>1. LoopType
  BY TypeParts
<1>2. \A a \in Acceptors : AcceptEvent(a).type = "accept" /\ AcceptEvent(a).of = a
  BY EventNames
<1>3. CASE t # Main /\ onAcceptEvent(t)
  <2>1. /\ 1 \in DOMAIN queue[t] /\ Head(queue[t]) = queue[t][1] /\ queue[t][1].type = "accept"
        /\ queue[t] # <<>> /\ Pop(t) /\ UNCHANGED upgradeVars
    BY <1>1, <1>3, ComesFacts DEF onAcceptEvent, LoopType
  <2>2. PICK a \in Acceptors : a = queue[t][1].of
    BY <2>1 DEF Placement, Underway
  <2>3. acceptor' = [acceptor EXCEPT ![a].state = "receive"]
    BY <1>3, <2>1, <2>2 DEF onAcceptEvent
  <2>4. /\ acceptor'[a].state = "receive"
        /\ \A b \in Acceptors : b # a => acceptor'[b] = acceptor[b]
    BY <1>1, <2>2, <2>3, SetState DEF States
  <2>5. \A u \in Threads : handlers'[u] = IF u = t THEN handlers[u] \cup {a} ELSE handlers[u]
    BY <1>1, <1>3, <2>1, <2>2 DEF onAcceptEvent, LoopType
  <2>6. Head(queue[t]).of = a
    BY <2>1, <2>2
  <2>7. Held(a)'
    BY <2>4, <2>5 DEF Held
  <2>8. ASSUME NEW b \in Acceptors, b # a PROVE Held(b)'
    <3>1. \A u \in Threads : OnItsWay(u, b) => OnItsWay(u, b)'
      BY <1>1, <1>2, <2>1, <2>6, <2>8, PopKeeps
    <3>. QED
      BY <2>1, <2>4, <2>5, <2>8, <3>1, HeldUntouched DEF Untouched, TakenOff, upgradeVars
  <2>. QED
    BY <2>7, <2>8 DEF Kept
<1>4. ASSUME NEW type, type # "accept", Comes(t, type), Pop(t)
      PROVE  \A a \in Acceptors : \A u \in Threads : OnItsWay(u, a) => OnItsWay(u, a)'
  BY <1>1, <1>2, <1>4, PopKeeps DEF Comes
<1>5. CASE onRemoveHandler(t) \/ (t # Main /\ onRemoveServlet(t))
  <2>1. /\ \E D : handlers' = [handlers EXCEPT ![t] = handlers[t] \ D] /\ Delete(D)
        /\ UNCHANGED pending /\ UNCHANGED inside
    BY <1>5 DEF onRemoveHandler, onRemoveServlet, upgradeVars
  <2>2. \A a \in Acceptors : \A u \in Threads : OnItsWay(u, a) => OnItsWay(u, a)'
    BY <1>4, <1>5 DEF onRemoveHandler, onRemoveServlet
  <2>. QED
    BY <1>1, <2>1, <2>2, DeleteKept
<1>6. CASE t # Main /\ onIsServletIdle(t)
  <2>1. UNCHANGED <<handlers, acceptor, pending, inside>>
    BY <1>6 DEF onIsServletIdle, upgradeVars
  <2>2. \A a \in Acceptors : \A u \in Threads : OnItsWay(u, a) => OnItsWay(u, a)'
    BY <1>4, <1>6 DEF onIsServletIdle
  <2>. QED
    BY <2>1, <2>2, HeldUntouched DEF Kept, Untouched, TakenOff
<1>7. CASE t = Main /\ onUpgrade
  <2>1. CASE UNCHANGED <<handlers, acceptor, pending, inside>> /\ Pop(Main)
    <3>1. \A a \in Acceptors : \A u \in Threads : OnItsWay(u, a) => OnItsWay(u, a)'
      BY <1>4, <1>7, <2>1 DEF onUpgrade
    <3>. QED
      BY <2>1, <3>1, HeldUntouched DEF Kept, Untouched, TakenOff
  <2>2. CASE /\ UNCHANGED <<handlers, queue, inside>>
             /\ \E a \in pending : pending' = pending \ {a} /\ Delete({a})
    <3>1. PICK a \in pending : pending' = pending \ {a} /\ Delete({a})
      BY <2>2
    <3>2. \A b \in Acceptors : b = a => Held(b)'
      BY <3>1, HeldFree DEF Delete, Free
    <3>3. \A b \in Acceptors : b # a => Untouched(b)
      BY <2>2, <3>1 DEF Untouched, Delete, OnItsWay, TakenOff
    <3>. QED
      BY <3>2, <3>3, HeldUntouched DEF Kept
  <2>. QED
    BY <1>7, <2>1, <2>2 DEF onUpgrade, upgradeVars
<1>. QED
  BY <1>3, <1>5, <1>6, <1>7 DEF Event

LEMMA AcceptKept ==
  ASSUME TypeOK, Kept, onAccept
  PROVE  Kept'
<1>1. LoopType /\ ConfigType
  BY TypeParts
<1>2. UNCHANGED <<pending, inside>>
  BY DEF onAccept, upgradeVars
<1>3. PICK a \in Acceptors :
        \/ /\ useWorker <= threads
           /\ commitEvent(useWorker, AcceptEvent(a))
           /\ acceptor' = [acceptor EXCEPT ![a].state = "given"]
           /\ UNCHANGED handlers
        \/ /\ useWorker > threads
           /\ handlers' = [handlers EXCEPT ![Main] = handlers[Main] \cup {a}]
           /\ acceptor' = [acceptor EXCEPT ![a].state = "receive"]
           /\ UNCHANGED queue
  BY DEF onAccept
<1>4. \A b \in Acceptors : b # a => acceptor'[b] = acceptor[b]
  BY <1>1, <1>3, SetState DEF States
<1>5. CASE useWorker <= threads /\ commitEvent(useWorker, AcceptEvent(a))
  <2>1. PICK w \in Threads : w = useWorker
    BY <1>1, <1>5 DEF ConfigType, WorkerThreads, Threads
  <2>2. UNCHANGED handlers /\ acceptor'[a].state = "given"
    BY <1>1, <1>3, <1>5, SetState DEF States, ConfigType
  <2>3. /\ \A b \in Acceptors : \A u \in Threads : OnItsWay(u, b) => OnItsWay(u, b)'
        /\ OnItsWay(w, a)'
    BY <1>1, <1>5, <2>1, CommitKeeps, EventTypesOK DEF OnItsWay
  <2>4. Held(a)'
    BY <1>1, <2>1, <2>2, <2>3 DEF Held, Live
  <2>5. \A b \in Acceptors : b # a => Untouched(b)
    BY <1>2, <1>4, <2>2, <2>3 DEF Untouched, TakenOff
  <2>. QED
    BY <2>4, <2>5, HeldUntouched DEF Kept
<1>6. CASE /\ handlers' = [handlers EXCEPT ![Main] = handlers[Main] \cup {a}]
           /\ acceptor' = [acceptor EXCEPT ![a].state = "receive"]
           /\ UNCHANGED queue
  <2>1. acceptor'[a].state = "receive"
    BY <1>1, <1>6, SetState DEF States
  <2>2. \A u \in Threads : handlers'[u] = IF u = Main THEN handlers[u] \cup {a} ELSE handlers[u]
    BY <1>1, <1>6 DEF LoopType
  <2>3. Held(a)'
    BY <2>1, <2>2, ThreadFacts DEF Held
  <2>4. \A b \in Acceptors : b # a => Untouched(b)
    BY <1>2, <1>4, <1>6, <2>2 DEF Untouched, TakenOff, OnItsWay
  <2>. QED
    BY <2>3, <2>4, HeldUntouched DEF Kept
<1>. QED
  BY <1>3, <1>5, <1>6

LEMMA GoOnKept ==
  ASSUME TypeOK, Placement, Asking, Kept, GoOn
  PROVE  Kept'
<1>1. LoopType /\ CallType /\ ConfigType
  BY TypeParts
<1>2. CASE RemoveOwn
  <2>. DEFINE D == (pending \cup handlers[Main]) \cap Using(call.servlet)
  <2>1. /\ Delete(D) /\ handlers' = [handlers EXCEPT ![Main] = handlers[Main] \ D]
        /\ pending' = pending \ D /\ UNCHANGED queue /\ UNCHANGED inside
    BY <1>2 DEF RemoveOwn
  <2>. HIDE DEF D
  <2>. QED
    BY <1>1, <2>1, ThreadFacts, DeleteKept DEF OnItsWay
<1>3. CASE EndCancel
  <2>1. /\ Delete(handlers[Main])
        /\ handlers' = [handlers EXCEPT ![Main] = handlers[Main] \ handlers[Main]]
        /\ UNCHANGED queue /\ UNCHANGED pending /\ UNCHANGED inside
    BY <1>1, <1>3, ThreadFacts DEF EndCancel, upgradeVars, LoopType
  <2>. QED
    BY <1>1, <2>1, ThreadFacts, DeleteKept DEF OnItsWay
<1>4. CASE AskWorker
  <2>1. UNCHANGED <<handlers, acceptor, pending, inside>>
    BY <1>4 DEF AskWorker, upgradeVars
  <2>2. call.servlet \in Servlets /\ call.next \in Threads
    BY <1>1, <1>4 DEF AskWorker, Asking, CallType, ConfigType, Threads, WorkerThreads
  <2>3. PICK ev \in {RemoveServletEvent(call.servlet), ServletInfoEvent(call.servlet)} :
          commitEvent(call.next, ev)
    BY <1>4 DEF AskWorker
  <2>4. ev \in EventType
    BY <2>2, <2>3, EventTypesOK
  <2>5. \A b \in Acceptors : \A u \in Threads : OnItsWay(u, b) => OnItsWay(u, b)'
    BY <1>1, <2>2, <2>3, <2>4, CommitKeeps
  <2>. QED
    BY <2>1, <2>5, HeldUntouched DEF Kept, Untouched, TakenOff
<1>5. CASE TakeAnswer \/ EndAsking
  <2>1. UNCHANGED <<handlers, queue, acceptor, pending, inside>>
    BY <1>5 DEF TakeAnswer, EndAsking, loopVars, upgradeVars
  <2>. QED
    BY <2>1, HeldUntouched DEF Kept, Untouched, TakenOff, OnItsWay
<1>6. CASE StopWorker
  <2>. DEFINE w == call.next
              lost == {queue[w][i].of : i \in {j \in DOMAIN queue[w] : queue[w][j].type = "accept"}}
  <2>1. /\ w \in Threads /\ UNCHANGED <<pending, inside>>
        /\ \A u \in Threads : u # w => handlers'[u] = handlers[u] /\ queue'[u] = queue[u]
        /\ acceptor' = [a \in Acceptors |-> IF a \in handlers[w] THEN Free
                                            ELSE IF a \in lost THEN [Free EXCEPT !.state = "leaked"]
                                            ELSE acceptor[a]]
    BY <1>1, <1>6 DEF StopWorker, LoopType, upgradeVars, Threads, WorkerThreads, ConfigType
  <2>2. \A a \in Acceptors : OnItsWay(w, a) => a \in lost
    BY EventNames DEF OnItsWay
  <2>. HIDE DEF w, lost
  <2>3. \A a \in Acceptors : a \in handlers[w] \cup lost => Held(a)'
    BY <2>1, HeldFree DEF Free
  <2>4. \A a \in Acceptors : a \notin handlers[w] \cup lost => Untouched(a)
    BY <2>1, <2>2 DEF Untouched, TakenOff, OnItsWay
  <2>. QED
    BY <2>3, <2>4, HeldUntouched DEF Kept
<1>. QED
  BY <1>2, <1>3, <1>4, <1>5, <1>6 DEF GoOn

LEMMA KeptStep == TypeOK /\ IInv /\ Kept /\ [Next]_vars => Kept'
<1>. SUFFICES ASSUME TypeOK, IInv, Kept, [Next]_vars PROVE Kept'
  OBVIOUS
<1>1. Placement /\ Asking
  BY DEF IInv
<1>2. ASSUME NEW t \in Threads, Acceptance(t) PROVE Kept'
  BY <1>1, <1>2, RequestsAreServed, ServedKept, AcceptorKept DEF Acceptance
<1>3. CASE cancel
  <2>1. Delete(pending) /\ UNCHANGED <<handlers, queue, inside>>
    BY <1>3 DEF cancel
  <2>2. \A a \in Acceptors : a \in pending => Held(a)'
    BY <2>1, HeldFree DEF Delete, Free
  <2>3. \A a \in Acceptors : a \notin pending => Untouched(a)
    BY <2>1 DEF Untouched, Delete, OnItsWay, TakenOff
  <2>. QED
    BY <2>2, <2>3, HeldUntouched DEF Kept
<1>4. ASSUME UNCHANGED <<handlers, queue, acceptor, pending, inside>> PROVE Kept'
  BY <1>4, HeldUntouched DEF Kept, Untouched, OnItsWay, TakenOff
<1>5. ASSUME NEW s \in Servlets,
             addServlet(s) \/ shutdownServlet(s) \/ removeServlet(s) \/ isServletIdle(s)
      PROVE  Kept'
  BY <1>4, <1>5
     DEF addServlet, shutdownServlet, removeServlet, isServletIdle, loopVars, upgradeVars
<1>6. CASE onConnectionClosed \/ UNCHANGED vars
  BY <1>4, <1>6 DEF onConnectionClosed, vars, loopVars, upgradeVars
<1>. QED
  BY <1>1, <1>2, <1>3, <1>5, <1>6, EventKept, UpgradeKept, AcceptKept, GoOnKept DEF Next, Call

-----------------------------------------------------------------------------
(* The one holder.                                                         *)

Lists(a) == {<<"handlers", t>> : t \in {u \in Threads : a \in handlers[u]}}
EventsOf(t, a) == {<<"queue", t, i>> : i \in {j \in Queued(t, "accept") : queue[t][j].of = a}}
Events(a) == UNION {EventsOf(t, a) : t \in Threads}
Takers(a) == {<<"inside", w>> : w \in {u \in WorkerThreads : TakenOff(u, a)}}
Waits(a) == {<<"pending">> : i \in pending \cap {a}}

LEMMA HolderSets ==
  ASSUME NEW a PROVE Holders(a) = Lists(a) \cup Events(a) \cup Takers(a) \cup Waits(a)
BY Zenon DEF Holders, Lists, Events, EventsOf, Takers, Waits, TakenOff

LEMMA HolderFacts ==
  ASSUME NEW a, NEW x
  PROVE  x \in Holders(a) <=>
         \/ \E t \in Threads : a \in handlers[t] /\ x = <<"handlers", t>>
         \/ \E t \in Threads : \E i \in DOMAIN queue[t] :
              queue[t][i].type = "accept" /\ queue[t][i].of = a /\ x = <<"queue", t, i>>
         \/ \E w \in WorkerThreads : TakenOff(w, a) /\ x = <<"inside", w>>
         \/ a \in pending /\ x = <<"pending">>
<1>1. x \in Lists(a) <=> \E t \in Threads : a \in handlers[t] /\ x = <<"handlers", t>>
  BY Zenon DEF Lists
<1>2. x \in Events(a) <=> \E t \in Threads : \E i \in DOMAIN queue[t] :
         queue[t][i].type = "accept" /\ queue[t][i].of = a /\ x = <<"queue", t, i>>
  <2>1. x \in Events(a) <=> \E t \in Threads : x \in EventsOf(t, a)
    BY Zenon DEF Events
  <2>2. ASSUME NEW t
        PROVE  x \in EventsOf(t, a) <=> \E i \in DOMAIN queue[t] :
                 queue[t][i].type = "accept" /\ queue[t][i].of = a /\ x = <<"queue", t, i>>
    BY Zenon DEF EventsOf, Queued
  <2>. QED
    BY <2>1, <2>2, Zenon
<1>3. x \in Takers(a) <=> \E w \in WorkerThreads : TakenOff(w, a) /\ x = <<"inside", w>>
  BY Zenon DEF Takers
<1>4. x \in Waits(a) <=> a \in pending /\ x = <<"pending">>
  BY Zenon DEF Waits
<1>. QED
  BY <1>1, <1>2, <1>3, <1>4, HolderSets, Zenon

LEMMA StateOfHolder ==
  ASSUME TypeOK, Placement, NEW a \in Acceptors
  PROVE  /\ \A t \in Threads : a \in handlers[t] => acceptor[a].state \in Live
         /\ \A t \in Threads : \A i \in DOMAIN queue[t] :
              queue[t][i].type = "accept" /\ queue[t][i].of = a => acceptor[a].state = "given"
         /\ a \in pending => acceptor[a].state = "upgrade"
         /\ \A w \in WorkerThreads : TakenOff(w, a) => acceptor[a].state = "upgrade" /\ a \notin pending
BY DEF Placement, Listed, Underway, Upgrading, TakenOff, Free

LEMMA OneHolder ==
  ASSUME TypeOK, IInv, Kept, NEW a \in Acceptors
  PROVE  IF acceptor[a].state \in {"free", "leaked"} THEN Holders(a) = {}
         ELSE \E x : Holders(a) = {x}
<1>1. Placement /\ Held(a)
  BY DEF IInv, Kept
<1>2. acceptor[a].state \in States
  BY TypeParts DEF LoopType, Record
<1>3. CASE acceptor[a].state \in {"free", "leaked"}
  <2>1. \A x \in Holders(a) : FALSE
    BY <1>1, <1>3, HolderFacts, StateOfHolder DEF Live
  <2>. QED
    BY <1>3, <2>1
<1>4. CASE acceptor[a].state \in Live
  <2>1. PICK t \in Threads : a \in handlers[t]
    BY <1>1, <1>4 DEF Held
  <2>2. <<"handlers", t>> \in Holders(a)
    BY <2>1, HolderFacts
  <2>3. \A u \in Threads : a \in handlers[u] => u = t
    BY <1>1, <2>1 DEF Placement, Listed
  <2>4. \A x \in Holders(a) : x = <<"handlers", t>>
    BY <1>1, <1>4, <2>3, HolderFacts, StateOfHolder DEF Live
  <2>5. Holders(a) = {<<"handlers", t>>}
    BY <2>2, <2>4
  <2>. QED
    BY <1>4, <2>5 DEF Live
<1>5. CASE acceptor[a].state = "given"
  <2>1. PICK t \in Threads : OnItsWay(t, a)
    BY <1>1, <1>5 DEF Held
  <2>. PICK i \in DOMAIN queue[t] : queue[t][i] = AcceptEvent(a)
    BY <2>1 DEF OnItsWay
  <2>2. queue[t][i].type = "accept" /\ queue[t][i].of = a
    BY EventNames
  <2>3. <<"queue", t, i>> \in Holders(a)
    BY <2>2, HolderFacts
  <2>4. \A u \in Threads : \A j \in DOMAIN queue[u] :
          queue[u][j].type = "accept" /\ queue[u][j].of = a => u = t /\ j = i
    BY <1>1, <2>2 DEF Placement, Underway
  <2>5. \A x \in Holders(a) : x = <<"queue", t, i>>
    BY <1>1, <1>5, <2>4, HolderFacts, StateOfHolder DEF Live
  <2>6. Holders(a) = {<<"queue", t, i>>}
    BY <2>3, <2>5
  <2>. QED
    BY <1>5, <2>6
<1>6. CASE acceptor[a].state = "upgrade"
  <2>1. CASE a \in pending
    <3>1. <<"pending">> \in Holders(a)
      BY <2>1, HolderFacts
    <3>2. \A x \in Holders(a) : x = <<"pending">>
      BY <1>1, <1>6, <2>1, HolderFacts, StateOfHolder DEF Live
    <3>3. Holders(a) = {<<"pending">>}
      BY <3>1, <3>2
    <3>. QED
      BY <1>6, <3>3
  <2>2. CASE a \notin pending
    <3>1. PICK w \in WorkerThreads : TakenOff(w, a)
      BY <1>1, <1>6, <2>2 DEF Held
    <3>2. <<"inside", w>> \in Holders(a)
      BY <3>1, HolderFacts
    <3>3. \A v \in WorkerThreads : TakenOff(v, a) => v = w
      BY <1>1, <3>1 DEF Placement, Upgrading, TakenOff
    <3>4. \A x \in Holders(a) : x = <<"inside", w>>
      BY <1>1, <1>6, <2>2, <3>3, HolderFacts, StateOfHolder DEF Live
    <3>5. Holders(a) = {<<"inside", w>>}
      BY <3>2, <3>4
    <3>. QED
      BY <1>6, <3>5
  <2>. QED
    BY <2>1, <2>2
<1>. QED
  BY <1>2, <1>3, <1>4, <1>5, <1>6 DEF States, Live

(* An acceptor that is alive is in one list, in one event, at one worker    *)
(* or pending, and a deleted one nowhere: it is deleted once and by the     *)
(* thread that serves it.                                                  *)
THEOREM AcceptorsHaveOneOwner == Spec => []OneOwner
<1>1. Init => Kept
  BY KeptInit
<1>2. TypeOK /\ IInv /\ Kept /\ [Next]_vars => Kept'
  BY KeptStep
<1>3. TypeOK /\ IInv /\ Kept => OneOwner
  <2>1. SUFFICES ASSUME TypeOK, IInv, Kept, NEW a \in Acceptors
                 PROVE  Cardinality(Holders(a)) = IF acceptor[a].state \in {"free", "leaked"} THEN 0 ELSE 1
    BY DEF OneOwner
  <2>. QED
    BY <2>1, OneHolder, FS_EmptySet, FS_Singleton
<1>. QED
  BY Invariant, <1>1, <1>2, <1>3, PTL DEF Spec
=============================================================================
