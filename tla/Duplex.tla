------------------------------- MODULE Duplex --------------------------------
(***************************************************************************)
(* A TCP connection that reads and writes at the same time: IODevice and   *)
(* TcpSocket over IODeviceImpl, its handle in one of the selectors of the  *)
(* POSIX build (select, poll, epoll) and the rounds of the loop that run   *)
(* it.  Of the data matters how much waits to be read and whether there is *)
(* room to write; end of file, errors and hang-ups are left out.           *)
(*                                                                         *)
(* The application is the one of the documentation: it ends an operation   *)
(* after it was told that it is ready, at the latest in the handler that   *)
(* is told, and may begin the next one then or later, in any callback.     *)
(***************************************************************************)
EXTENDS Integers

CONSTANTS Backends,  \* the selectors looked at, one per build
          MaxInput,  \* bound: chunks that wait to be read
          MaxSends,  \* bound: chunks the peer sends before it pauses for good
          Garbage    \* bits the uninitialized word given to epoll_ctl may have

Dirs == {"read", "write"}

ASSUME DuplexAssumption ==
  /\ Backends \subseteq {"select", "poll", "epoll"}
  /\ MaxInput \in Nat \ {0}
  /\ MaxSends \in Nat
  /\ Garbage \subseteq Dirs

VARIABLES backend,   \* the selector compiled in
          input,     \* chunks in the receive buffer of the socket
          room,      \* the send buffer of the socket has room
          sent,      \* chunks the peer has sent
          op,        \* per direction: no buffer, waits, or completed at once
          avail,     \* the device is in MainLoopImpl::_avail
          interest,  \* _rfds/_wfds, pollfd::events or IOHandle::changed
          reported,  \* _rfdsOut/_wfdsOut, pollfd::revents or IOHandle::ready
          active,    \* IOHandle::isActive
          known,     \* epoll: IOHandle::events
          mask,      \* epoll: what the kernel watches
          added,     \* epoll: the kernel has the descriptor
          edge,      \* epoll: the kernel has something to report
          told,      \* the application: told of, not ended
          pc,        \* where the loop thread is
          back,      \* where onRun returns to
          blocked    \* endRead or endWrite sleeps in IODeviceImpl::wait

socketVars == <<input, room, sent>>
epollVars == <<known, mask, added, edge>>
selectorVars == <<interest, reported, active, epollVars>>
loopVars == <<pc, back, blocked>>
moving == <<socketVars, op, avail, selectorVars, told, loopVars>>
vars == <<backend, moving>>

Init ==
  /\ backend \in Backends
  /\ input = 0 /\ room = TRUE /\ sent = 0
  /\ op = [d \in Dirs |-> "none"]
  /\ avail = FALSE
  /\ interest = {} /\ reported = {} /\ active = FALSE
  /\ known = {} /\ mask = {} /\ added = FALSE /\ edge = FALSE
  /\ told = {}
  /\ pc = "avail" /\ back = "wait" /\ blocked = {}

-----------------------------------------------------------------------------
(* The socket.                                                             *)

Can(d) == IF d = "read" THEN input > 0 ELSE room

(* read() takes a chunk; write() fills the send buffer, or not quite.      *)
Transfer(d) ==
  IF d = "read"
  THEN input' = input - 1 /\ UNCHANGED <<room, sent>>
  ELSE room' \in BOOLEAN /\ UNCHANGED <<input, sent>>

(* The kernel queues a watched descriptor when something arrives.          *)
Notify(d) == edge' = (edge \/ d \in mask)

PeerSends ==
  /\ input < MaxInput
  /\ sent < MaxSends
  /\ input' = input + 1
  /\ sent' = sent + 1
  /\ Notify("read")
  /\ UNCHANGED <<room, op, avail, interest, reported, active, known, mask, added,
                 told, loopVars>>

PeerReads ==
  /\ ~room
  /\ room' = TRUE
  /\ Notify("write")
  /\ UNCHANGED <<input, sent, op, avail, interest, reported, active, known, mask, added,
                 told, loopVars>>

-----------------------------------------------------------------------------
(* The selectors: beginRead/beginWrite, endRead/endWrite and cancel.       *)

SelectorBegin(d) ==
  /\ interest' = interest \cup {d}
  /\ active' = TRUE
  /\ UNCHANGED <<reported, epollVars>>

(* Mutants: endRead leaves what was reported, or forgets all of it.        *)
SelectorEndKeeps(d) ==
  /\ interest' = interest \ {d}
  /\ UNCHANGED <<reported, active, epollVars>>

SelectorEndForgets(d) ==
  /\ interest' = interest \ {d}
  /\ reported' = {}
  /\ UNCHANGED <<active, epollVars>>

(* select keeps what it reported; epoll forgets both directions.           *)
SelectorEnd(d) ==
  /\ interest' = interest \ {d}
  /\ reported' = CASE backend = "select" -> reported
                   [] backend = "poll" -> reported \ {d}
                   [] backend = "epoll" -> {}
  /\ UNCHANGED <<active, epollVars>>

SelectorCancel ==
  /\ interest' = {}
  /\ reported' = IF backend = "select" THEN reported ELSE {}
  /\ active' = FALSE
  /\ known' = {} /\ mask' = {} /\ added' = FALSE /\ edge' = FALSE

-----------------------------------------------------------------------------
(* The device, called in any callback of the loop thread.                  *)

MayCall == blocked = {} /\ pc \in {"avail", "wait", "input", "output"}

(* Mutants: a transfer that would block counts as done; the device is not  *)
(* made ready after one that was done.                                     *)
BeginUnchecked(d) ==
  /\ MayCall
  /\ op[d] = "none"
  /\ Transfer(d)
  /\ op' = [op EXCEPT ![d] = "ready"]
  /\ avail' = TRUE
  /\ UNCHANGED <<selectorVars, told, loopVars>>

BeginUnready(d) ==
  /\ MayCall
  /\ op[d] = "none"
  /\ IF Can(d)
     THEN Transfer(d) /\ op' = [op EXCEPT ![d] = "ready"] /\ UNCHANGED <<avail, selectorVars>>
     ELSE op' = [op EXCEPT ![d] = "waits"] /\ SelectorBegin(d) /\ UNCHANGED <<avail, socketVars>>
  /\ UNCHANGED <<told, loopVars>>

Begin(d) ==
  /\ MayCall
  /\ op[d] = "none"
  /\ IF Can(d)
     THEN Transfer(d) /\ op' = [op EXCEPT ![d] = "ready"] /\ avail' = TRUE /\ UNCHANGED selectorVars
     ELSE op' = [op EXCEPT ![d] = "waits"] /\ SelectorBegin(d) /\ UNCHANGED <<avail, socketVars>>
  /\ UNCHANGED <<told, loopVars>>

Ended(d) == op' = [op EXCEPT ![d] = "none"] /\ told' = told \ {d}

(* Completed at once: nothing else to do.  Otherwise readImpl or writeImpl *)
(* transfers, and sleeps first if it cannot.                               *)
End(d) ==
  /\ MayCall
  /\ d \in told
  /\ \/ /\ op[d] = "ready"
        /\ Ended(d)
        /\ UNCHANGED <<socketVars, selectorVars, blocked>>
     \/ /\ op[d] = "waits" /\ Can(d)
        /\ Ended(d) /\ SelectorEnd(d) /\ Transfer(d)
        /\ UNCHANGED blocked
     \/ /\ op[d] = "waits" /\ ~Can(d)
        /\ SelectorEnd(d)
        /\ blocked' = {d}
        /\ UNCHANGED <<socketVars, op, told>>
  /\ UNCHANGED <<avail, pc, back>>

Unblock(d) ==
  /\ d \in blocked
  /\ Can(d)
  /\ Transfer(d)
  /\ Ended(d)
  /\ blocked' = {}
  /\ UNCHANGED <<avail, selectorVars, pc, back>>

Cancel ==
  /\ MayCall
  /\ op' = [d \in Dirs |-> "none"]
  /\ avail' = FALSE
  /\ told' = {}
  /\ SelectorCancel
  /\ UNCHANGED <<socketVars, loopVars>>

-----------------------------------------------------------------------------
(* The loop thread.                                                        *)

Goto(l) == pc' = l /\ UNCHANGED blocked

(* The selectables that are ready.                                         *)
Avail ==
  /\ pc = "avail" /\ blocked = {}
  /\ avail' = FALSE
  /\ back' = "wait"
  /\ Goto(IF avail THEN "run" ELSE "wait")
  /\ UNCHANGED <<socketVars, op, selectorVars, told>>

CanDo(S) == {d \in S : Can(d)}

(* select and poll run every active device when any descriptor is ready.   *)
WaitLevel ==
  /\ pc = "wait" /\ blocked = {}
  /\ backend # "epoll"
  /\ reported' = CanDo(interest)
  /\ back' = "avail"
  /\ \E others \in BOOLEAN :
       Goto(IF active /\ (reported' # {} \/ others) THEN "run" ELSE "avail")
  /\ UNCHANGED <<socketVars, op, avail, interest, active, epollVars, told>>

(* The events handed to epoll_ctl are added to an uninitialized word: it   *)
(* may watch more than was asked for.  EPOLL_CTL_ADD of a descriptor the   *)
(* kernel has already fails.                                               *)
WaitEdge ==
  /\ pc = "wait" /\ blocked = {}
  /\ backend = "epoll"
  /\ LET change == interest # known
         fails == known = {} /\ added
     IN  \E bits \in SUBSET Garbage :
           /\ mask' = IF change /\ ~fails THEN interest \cup bits ELSE mask
           /\ added' = (added \/ change)
           /\ known' = interest
           /\ LET hits == IF edge \/ (change /\ ~fails) THEN CanDo(mask') ELSE {}
              IN  reported' = reported \cup hits /\ Goto(IF hits # {} THEN "run" ELSE "avail")
  /\ edge' = FALSE
  /\ back' = "avail"
  /\ UNCHANGED <<socketVars, op, avail, interest, active, told>>

Wait == WaitLevel \/ WaitEdge

Ready(d) == op[d] = "ready" \/ (op[d] = "waits" /\ d \in reported)

(* Mutant: TcpSocket::onRun does not requeue.                              *)
RunOnce ==
  /\ pc = "run"
  /\ IF Ready("read")
     THEN told' = told \cup {"read"} /\ Goto("input")
     ELSE IF Ready("write")
          THEN told' = told \cup {"write"} /\ Goto("output")
          ELSE Goto(back) /\ UNCHANGED told
  /\ UNCHANGED <<socketVars, op, avail, selectorVars, back>>

(* TcpSocket::onRun sends one signal; it requeues if both directions were  *)
(* completed at once.                                                      *)
Run ==
  /\ pc = "run"
  /\ avail' = (avail \/ \A d \in Dirs : op[d] = "ready")
  /\ IF Ready("read")
     THEN told' = told \cup {"read"} /\ Goto("input")
     ELSE IF Ready("write")
          THEN told' = told \cup {"write"} /\ Goto("output")
          ELSE Goto(back) /\ UNCHANGED told
  /\ UNCHANGED <<socketVars, op, selectorVars, back>>

(* A handler ends what it was told of before it returns.                   *)
Return ==
  /\ blocked = {}
  /\ \/ pc = "input" /\ "read" \notin told
     \/ pc = "output" /\ "write" \notin told
  /\ Goto(back)
  /\ UNCHANGED <<socketVars, op, avail, selectorVars, told, back>>

LoopStep == Avail \/ Wait \/ Run \/ Return

Next ==
  /\ \/ PeerSends \/ PeerReads
     \/ \E d \in Dirs : Begin(d) \/ End(d) \/ Unblock(d)
     \/ Cancel
     \/ LoopStep
  /\ UNCHANGED backend

Spec == Init /\ [][Next]_vars

(* The loop thread is scheduled and handlers end what they were told of    *)
(* and return, however often they begin and cancel.                        *)
FairSpec ==
  /\ Spec
  /\ WF_moving(LoopStep) /\ SF_moving(Return) /\ SF_moving(Avail) /\ SF_moving(Wait)
  /\ \A d \in Dirs : SF_moving(End(d))

-----------------------------------------------------------------------------
(* Properties                                                              *)

TypeOK ==
  /\ backend \in Backends
  /\ input \in 0..MaxInput
  /\ room \in BOOLEAN
  /\ sent \in 0..MaxSends
  /\ op \in [Dirs -> {"none", "waits", "ready"}]
  /\ avail \in BOOLEAN /\ active \in BOOLEAN /\ added \in BOOLEAN /\ edge \in BOOLEAN
  /\ interest \subseteq Dirs /\ reported \subseteq Dirs
  /\ known \subseteq Dirs /\ mask \subseteq Dirs
  /\ told \subseteq Dirs
  /\ pc \in {"avail", "wait", "run", "input", "output"}
  /\ back \in {"avail", "wait"}
  /\ blocked \subseteq Dirs

(* endRead and endWrite never sleep in the loop thread when they are       *)
(* called after inputReady or outputReady (IODeviceImpl::readImpl would    *)
(* stop the whole loop).                                                   *)
NeverBlocks == blocked = {}

(* Somebody who waits for a direction that is possible hears of it.        *)
Heard(d) ==
  (op[d] = "ready" \/ (op[d] = "waits" /\ Can(d))) ~> (d \in told \/ op[d] = "none")

(* `When the transfer finishes, inputReady or outputReady is emitted'      *)
(* (IODevice): inputReady for data that arrived, outputReady for room.     *)
InputReported == backend = "poll" => Heard("read")
OutputReported == backend = "poll" => Heard("write")

Kept(d) ==
  d \in reported /\ op[d] = "waits" /\ op'[d] = "waits" => d \in reported'

(* `The two complete independently' (doc/concepts/io-duplex.md): what the  *)
(* selector reported of one direction stays until that direction is ended. *)
ReportsKept == [][\A d \in Dirs : Kept(d)]_vars

(* poll does that.                                                         *)
PollKeepsReports == [][backend = "poll" => \A d \in Dirs : Kept(d)]_vars
=============================================================================
