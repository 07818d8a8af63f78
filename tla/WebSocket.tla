------------------------------ MODULE WebSocket ------------------------------
(***************************************************************************)
(* Two WebSocketChannels at the ends of one connection: the operations of  *)
(* the application, the output queue, the loop that reads frames, the      *)
(* close handshake, the clocks, and a stream that may write a part only,   *)
(* fail or reach its end.  Each member function of the channel is an       *)
(* operator from the channel before the call to the channel after it; ok   *)
(* says whether the beginOutput it comes to, if any, starts a write or     *)
(* throws.                                                                 *)
(*                                                                         *)
(* The slots of inputReady() and pong() run inside the loop that reads     *)
(* frames and may call the channel back; behind every other signal the     *)
(* channel has nothing left to do, so what its slot calls is a call of its *)
(* own.  Of a frame only its kind is left: "big" is a data frame that the  *)
(* limit or the text check of the receiver rejects.                        *)
(***************************************************************************)
EXTENDS Integers, Sequences, SequencesExt

CONSTANTS Peers,         \* the two ends
          Sessions,      \* the ends that are a WebSocketSession
          Clocks,        \* per end: the clocks with a duration
          Calls,         \* per end: the operations the application begins
          SlotCalls,     \* per end: the ones it begins or ends in a slot
          DataKinds,     \* the data frames the applications send
          MaxData,       \* bound: data frames per end
          MaxPings,      \* bound: ping frames per end
          PartialWrites  \* a write may end before the buffer is empty

Outputs == {"send", "ping", "pong", "closeOut"}
Operations == Outputs \cup {"receive", "shutdown"}
Application == {"receive", "send", "ping", "shutdown", "close"}
AllClocks == {"idle", "delay", "ping", "close"}
FrameKinds == {"data", "big", "ping", "pong", "close"}

ASSUME WebSocketAssumption ==
  /\ \E p, q \in Peers : p # q /\ Peers = {p, q}
  /\ Sessions \subseteq Peers
  /\ Clocks \in [Peers -> SUBSET AllClocks]
  /\ Calls \in [Peers -> SUBSET Application]
  /\ SlotCalls \in [Peers -> SUBSET Application]
  /\ DataKinds \subseteq {"data", "big"}
  /\ MaxData \in Nat /\ MaxPings \in Nat
  /\ PartialWrites \in BOOLEAN

VARIABLE ch  \* per end: the channel, see Opened

Other(p) == CHOOSE q \in Peers : q # p

Opened(p) ==
  [session |-> p \in Sessions,          \* owned by a session, not by a client
   durations |-> Clocks[p],
   state |-> "Open",
   op |-> [o \in Operations |-> "Idle"],
   error |-> {},                        \* operations that hold an exception
   queue |-> <<>>,                      \* _outputQueue
   kind |-> "data",                     \* the frame set for _send
   inputPending |-> FALSE, reading |-> FALSE,  \* the flag; the read itself
   outputPending |-> FALSE, writing |-> FALSE,
   inputFailure |-> FALSE, outputFailure |-> FALSE,
   isPingPending |-> FALSE,
   clocks |-> Clocks[p] \cap {"idle", "delay"},
   closeCode |-> "none",
   at |-> "idle",    \* in onInput: "import"; in a slot it called: "slot"
   avail |-> 0,      \* frames endInput left in the streambuf
   log |-> <<>>,     \* history: the frames given to the streambuf
   put |-> 0,        \* how many of them are written completely
   got |-> 0,        \* how many frames of the other end were parsed
   reports |-> <<>>, \* history: the signals and errors that told the end
   failed |-> FALSE] \* history: a write has failed

Init == ch = [p \in Peers |-> Opened(p)]

-----------------------------------------------------------------------------
(* The end of a channel.                                                   *)

setCloseCode(c, code) ==
  IF c.closeCode # "none" THEN c ELSE [c EXCEPT !.closeCode = code]

onClose(c) ==
  LET d == IF c.state \in {"Open", "CloseSent"} THEN setCloseCode(c, "1006") ELSE c
  IN [d EXCEPT !.state = "Closed",
               !.op = [o \in Operations |-> "Closed"], !.error = {},
               !.queue = <<>>, !.avail = 0,
               !.inputPending = FALSE, !.reading = FALSE,
               !.outputPending = FALSE, !.writing = FALSE,
               !.inputFailure = FALSE, !.outputFailure = FALSE,
               !.isPingPending = FALSE, !.clocks = {}]

\* A session is closed and released when the signal has returned; a client
\* stays as it is until the application calls close().
Report(c, what) ==
  LET d == [c EXCEPT !.reports = Append(@, what)]
  IN IF c.session THEN onClose(d) ELSE d

SetReady(c, o) == [c EXCEPT !.op[o] = "Ready"]
SetError(c, o) == [c EXCEPT !.op[o] = "Ready", !.error = @ \cup {o}]

(* Mutant: the frame in flight is dropped from the queue with the rest.    *)
FinishedClears(c) == [c EXCEPT !.state = "Finish", !.clocks = {}, !.queue = <<>>]

onProtocolFinished(c) ==
  [c EXCEPT !.state = "Finish", !.clocks = {},
            !.queue = IF @ # <<>> /\ c.outputPending THEN <<Head(@)>> ELSE <<>>]

(* Mutant: done while outputs are still to be written.                     *)
DoneEarly(c) ==
  LET d == [c EXCEPT !.state = "Done"]
  IN IF c.state # "Finish" THEN c
     ELSE IF c.op["shutdown"] = "Pending"
     THEN Report(SetReady(d, "shutdown"), "shutdown")
     ELSE Report(d, "closed")

(* Mutant: done whatever the state is.                                     *)
DoneAgain(c) ==
  LET d == [c EXCEPT !.state = "Done"]
  IN IF c.state \in {"Open", "Closed"} \/ c.queue # <<>> \/ c.outputPending THEN c
     ELSE IF c.op["shutdown"] = "Pending"
     THEN Report(SetReady(d, "shutdown"), "shutdown")
     ELSE Report(d, "closed")

onProtocolDone(c) ==
  LET d == [c EXCEPT !.state = "Done"]
  IN IF c.state # "Finish" \/ c.queue # <<>> \/ c.outputPending THEN c
     ELSE IF c.op["shutdown"] = "Pending"
     THEN Report(SetReady(d, "shutdown"), "shutdown")
     ELSE Report(d, "closed")

FailShutdown(c, why) ==
  IF c.op["shutdown"] = "Pending" THEN Report(SetError(c, "shutdown"), why) ELSE c

(* Mutant: an abort is ignored once a close is queued.                     *)
AbortedOpen(c) ==
  IF c.state # "Open" THEN c
  ELSE onProtocolDone(onProtocolFinished(setCloseCode(c, "1006")))

onProtocolAborted(c) ==
  LET d == onProtocolFinished(setCloseCode(c, "1006"))
  IN IF c.state \notin {"Open", "CloseSent"} THEN c
     ELSE IF c.op["shutdown"] = "Pending" THEN FailShutdown([d EXCEPT !.state = "Done"], "aborted")
     ELSE onProtocolDone(d)

-----------------------------------------------------------------------------
(* Output.                                                                 *)

Frame(c, o) == CASE o = "send" -> c.kind
                 [] o = "closeOut" -> "close"
                 [] OTHER -> o

onBeginOutput(c, ok) ==
  [c EXCEPT !.log = Append(@, Frame(c, Head(c.queue))),
            !.outputPending = TRUE, !.writing = ok, !.failed = @ \/ ~ok]

\* The call from c to d came to a beginOutput that has thrown.
Threw(c, d, ok) == ~ok /\ d.log # c.log

enqueue(c, o, ok) ==
  LET d == [c EXCEPT !.queue = Append(@, o)]
  IN IF c.outputFailure \/ Contains(c.queue, o) THEN c
     ELSE IF d.outputPending THEN d ELSE onBeginOutput(d, ok)

InFlight(c, o) == c.outputPending /\ c.queue # <<>> /\ Head(c.queue) = o

begin(c, o) == [c EXCEPT !.op[o] = "Pending", !.error = @ \ {o}]

(* Mutant: a close that is written already is begun again.                 *)
EnqueueCloseAgain(c, ok) ==
  IF c.outputFailure \/ c.op["closeOut"] = "Closed" \/ InFlight(c, "closeOut")
  THEN c ELSE enqueue(begin(c, "closeOut"), "closeOut", ok)

enqueueClose(c, ok) ==
  IF c.outputFailure \/ c.op["closeOut"] \in {"Ready", "Closed"} \/ InFlight(c, "closeOut")
  THEN c ELSE enqueue(begin(c, "closeOut"), "closeOut", ok)

(* Mutant: the close frame ends nothing.                                   *)
CloseUnheard(c, o) ==
  IF o = "ping" /\ ~c.isPingPending THEN [c EXCEPT !.op[o] = "Idle", !.error = @ \ {o}] ELSE c

(* Mutant: a ping of the engine waits for endPing() like one that was      *)
(* begun.                                                                  *)
PingWaits(c, o) == IF o = "closeOut" THEN onProtocolDone(c) ELSE c

\* What the ready signal of an output does: closeOut ends the protocol, a
\* ping of the engine is put away, the others wait for the application.
onOutputReady(c, o) ==
  IF o = "closeOut" THEN onProtocolDone(c)
  ELSE IF o = "ping" /\ ~c.isPingPending THEN [c EXCEPT !.op[o] = "Idle", !.error = @ \ {o}]
  ELSE c

EndOutput(c, o, failed) ==
  IF c.op[o] # "Pending" THEN c
  ELSE onOutputReady(IF failed THEN SetError(c, o) ELSE SetReady(c, o), o)

onOutputError(c) ==
  LET d == setCloseCode([c EXCEPT !.outputFailure = TRUE, !.outputPending = FALSE], "1006")
  IN IF c.queue = <<>> THEN d
     ELSE EndOutput([d EXCEPT !.queue = Tail(@)], Head(c.queue), TRUE)

\* n frames are written when the write ends.
onOutput(c, n, ok) ==
  LET d == [c EXCEPT !.put = n, !.writing = FALSE, !.outputPending = FALSE,
                     !.queue = Tail(@)]
      e == IF d.queue = <<>> THEN d ELSE onBeginOutput(d, ok)
  IN IF Threw(d, e, ok) THEN onOutputError(e) ELSE EndOutput(e, Head(c.queue), FALSE)

-----------------------------------------------------------------------------
(* Input.                                                                  *)

(* Mutant: only a receive reads.                                           *)
InputForReceive(c) ==
  IF ~c.inputPending /\ c.state = "Open" /\ c.op["receive"] = "Pending"
  THEN [c EXCEPT !.inputPending = TRUE, !.reading = TRUE] ELSE c

onBeginInput(c) ==
  IF /\ ~c.inputPending
     /\ c.state = "CloseSent" \/ (c.state = "Open" /\ c.op["receive"] = "Pending")
  THEN [c EXCEPT !.inputPending = TRUE, !.reading = TRUE] ELSE c

onInputError(c) ==
  LET d == [c EXCEPT !.inputFailure = TRUE]
  IN IF c.state = "Closed" THEN c
     ELSE IF c.op["receive"] = "Pending" THEN SetError(d, "receive")
     ELSE FailShutdown(d, "unread")

onProtocolError(c, ok) ==
  LET d == onProtocolFinished([setCloseCode(c, "1002") EXCEPT !.inputFailure = TRUE])
      e == enqueueClose(d, ok)
  IN IF c.state # "Open" THEN c
     ELSE IF Threw(d, e, ok) THEN e
     ELSE IF c.op["receive"] = "Pending"
     THEN [SetError(e, "receive") EXCEPT !.state = "Done", !.reports = Append(@, "receive")]
     ELSE onProtocolDone(e)

onPing(c, ok) ==
  IF c.state # "Open" \/ c.op["pong"] = "Pending" THEN c
  ELSE enqueue(begin(c, "pong"), "pong", ok)

onPeerClose(c, ok) ==
  LET d == onProtocolFinished(setCloseCode(c, "peer"))
      e == enqueueClose(d, ok)
  IN IF Threw(d, e, ok) THEN onInputError(e) ELSE onProtocolDone(e)

\* A data frame that no receive waits for is dropped.
onData(c) ==
  IF c.op["receive"] = "Pending" THEN [SetReady(c, "receive") EXCEPT !.at = "slot"] ELSE c

\* A frame that is not a close restarts two clocks.
Heard(c) == IF c.state = "Open"
            THEN [c EXCEPT !.clocks = @ \cup (c.durations \cap {"idle", "delay"})] ELSE c

\* One turn of the loop in onInput with a frame of kind f.
onFrame(c, f, ok) ==
  LET h == Heard(c)
      leave == [c EXCEPT !.at = "idle"]
  IN CASE f = "ping" -> IF Threw(h, onPing(h, ok), ok)
                        THEN onInputError([onPing(h, ok) EXCEPT !.at = "idle"]) ELSE onPing(h, ok)
       [] f = "pong" -> [h EXCEPT !.clocks = @ \ {"ping"}, !.at = "slot"]
       [] f = "data" -> onData(h)
       [] f = "big" -> onProtocolError(leave, ok)
       [] f = "close" -> onPeerClose(leave, ok)

-----------------------------------------------------------------------------
(* The application.                                                        *)

Becomes(p, c) == ch' = [ch EXCEPT ![p] = c]

\* Reads and writes may fail once the other end is gone.
Gone(p) == ch[Other(p)].state = "Closed"

\* What the beginOutput of a step may come to.
Outcomes(p) == IF Gone(p) THEN BOOLEAN ELSE {TRUE}

MayCall(p, call) ==
  /\ call \in Calls[p]
  /\ \/ ch[p].at = "idle"
     \/ (ch[p].at = "slot" /\ call \in SlotCalls[p])

CountOf(c, kinds) == Len(SelectSeq(c.log, LAMBDA f : f \in kinds))

beginSend(p) ==
  /\ MayCall(p, "send") /\ ch[p].state = "Open"
  /\ ch[p].op["send"] = "Idle" /\ ~ch[p].outputFailure
  /\ CountOf(ch[p], {"data", "big"}) < MaxData
  /\ \E kind \in DataKinds, ok \in Outcomes(p) :
       Becomes(p, enqueue([begin(ch[p], "send") EXCEPT !.kind = kind], "send", ok))

beginPing(p) ==
  LET c == [begin(ch[p], "ping") EXCEPT !.isPingPending = TRUE]
  IN /\ MayCall(p, "ping") /\ ch[p].state = "Open"
     /\ ch[p].op["ping"] = "Idle" /\ ~ch[p].outputFailure
     /\ CountOf(c, {"ping"}) < MaxPings
     /\ \E ok \in Outcomes(p) :
          LET d == enqueue(c, "ping", ok)
          IN Becomes(p, IF Threw(c, d, ok) THEN d
                        ELSE [d EXCEPT !.clocks = @ \cup (c.durations \cap {"ping"})])

beginReceive(p) ==
  /\ MayCall(p, "receive") /\ ch[p].state \in {"Open", "CloseSent"}
  /\ ch[p].op["receive"] = "Idle" /\ ~ch[p].inputFailure
  /\ Becomes(p, onBeginInput(begin(ch[p], "receive")))

beginShutdown(p) ==
  LET c == [setCloseCode(begin(ch[p], "shutdown"), "local")
              EXCEPT !.state = "CloseSent", !.clocks = ch[p].durations \cap {"close"}]
  IN /\ MayCall(p, "shutdown") /\ ch[p].state = "Open"
     /\ ch[p].op["shutdown"] = "Idle" /\ ~ch[p].outputFailure
     /\ \E ok \in Outcomes(p) :
          LET d == enqueueClose(c, ok)
          IN Becomes(p, IF Threw(c, d, ok) THEN d ELSE onBeginInput(d))

\* endSend, endReceive, endPing and endShutdown; a stored error is rethrown.
end(p) ==
  \E o \in {"send", "receive", "ping", "shutdown"} :
    /\ MayCall(p, o) /\ ch[p].op[o] = "Ready"
    /\ Becomes(p, [ch[p] EXCEPT !.op[o] = "Idle", !.error = @ \ {o},
                                !.isPingPending = @ /\ o # "ping"])

close(p) ==
  /\ MayCall(p, "close") /\ ch[p].state # "Closed"
  /\ Becomes(p, onClose(ch[p]))

-----------------------------------------------------------------------------
(* The event loop of an end.                                               *)

Unread(p) == ch[Other(p)].put - ch[p].got - ch[p].avail

EndInput(c) ==
  LET d == [c EXCEPT !.reading = FALSE]
  IN IF c.state \in {"Open", "CloseSent"} THEN [d EXCEPT !.at = "import"]
     ELSE [d EXCEPT !.inputPending = FALSE]

onInput(p) ==
  /\ ch[p].at = "idle" /\ ch[p].reading
  /\ \E n \in 1 .. Unread(p) :
       Becomes(p, [EndInput(ch[p]) EXCEPT !.avail = @ + n])

onInputEof(p) ==
  /\ ch[p].at = "idle" /\ ch[p].reading
  /\ Unread(p) = 0 /\ Gone(p)
  /\ Becomes(p, onProtocolAborted([EndInput(ch[p]) EXCEPT !.at = "idle"]))

onInputThrows(p) ==
  /\ ch[p].at = "idle" /\ ch[p].reading /\ Gone(p)
  /\ Becomes(p, onInputError([ch[p] EXCEPT !.reading = FALSE]))

import(p) ==
  /\ ch[p].at = "import"
  /\ \/ /\ ch[p].avail = 0
        /\ Becomes(p, onBeginInput([ch[p] EXCEPT !.at = "idle", !.inputPending = FALSE]))
     \/ /\ ch[p].avail > 0
        /\ \E ok \in Outcomes(p) :
             Becomes(p, onFrame([ch[p] EXCEPT !.avail = @ - 1, !.got = @ + 1],
                                ch[Other(p)].log[ch[p].got + 1], ok))

\* The slot returns; a body that was not taken in it is dropped.
return(p) ==
  /\ ch[p].at = "slot"
  /\ Becomes(p, [ch[p] EXCEPT !.at = "import"])

onOutputEnd(p) ==
  /\ ch[p].at = "idle" /\ ch[p].writing
  /\ \E n \in (IF PartialWrites THEN ch[p].put ELSE Len(ch[p].log)) .. Len(ch[p].log) :
       \E ok \in Outcomes(p) : Becomes(p, onOutput(ch[p], n, ok))

onOutputThrows(p) ==
  /\ ch[p].at = "idle" /\ ch[p].writing /\ Gone(p)
  /\ Becomes(p, onOutputError([ch[p] EXCEPT !.writing = FALSE, !.failed = TRUE]))

\* onIdleTimeout, onPingTimeout and onCloseTimeout
onTimeout(p) ==
  /\ ch[p].at = "idle" /\ ch[p].clocks \cap {"idle", "ping", "close"} # {}
  /\ Becomes(p, onProtocolAborted(ch[p]))

onPingDelay(p) ==
  LET c == begin(ch[p], "ping")
      waits == c.durations \cap {"ping"}
  IN /\ ch[p].at = "idle" /\ "delay" \in ch[p].clocks
     /\ ch[p].state = "Open" /\ ch[p].op["receive"] = "Pending"
     /\ "ping" \notin ch[p].clocks /\ ch[p].op["ping"] = "Idle"
     /\ CountOf(c, {"ping"}) < MaxPings
     /\ \E ok \in Outcomes(p) :
          LET d == enqueue(c, "ping", ok)
          IN Becomes(p, IF Threw(c, d, ok) \/ waits = {} THEN d
                        ELSE [d EXCEPT !.clocks = (@ \cup waits) \ {"delay"}])

Input(p) == onInput(p) \/ onInputEof(p) \/ onInputThrows(p) \/ import(p) \/ return(p)
Output(p) == onOutputEnd(p) \/ onOutputThrows(p)
Call(p) == beginSend(p) \/ beginPing(p) \/ beginReceive(p) \/ beginShutdown(p) \/ end(p) \/ close(p)
Timer(p) == onTimeout(p) \/ onPingDelay(p)

Next == \E p \in Peers : Input(p) \/ Output(p) \/ Call(p) \/ Timer(p)

Spec == Init /\ [][Next]_ch

\* The event loops turn, slots return and the kernel moves what is written;
\* no clock is relied on and the application need not call anything.
Fairness == \A p \in Peers : WF_ch(Input(p)) /\ WF_ch(Output(p))
FairSpec == Spec /\ Fairness
-----------------------------------------------------------------------------
(* Properties.                                                             *)

IsChannel(c) ==
  /\ c.session \in BOOLEAN /\ c.durations \subseteq AllClocks
  /\ c.state \in {"Open", "CloseSent", "Finish", "Done", "Closed"}
  /\ c.op \in [Operations -> {"Closed", "Idle", "Pending", "Ready"}]
  /\ c.error \subseteq Operations
  /\ c.queue \in Seq(Outputs) /\ c.kind \in DataKinds \cup {"data"}
  /\ {c.inputPending, c.reading, c.outputPending, c.writing, c.inputFailure,
      c.outputFailure, c.isPingPending, c.failed} \subseteq BOOLEAN
  /\ c.clocks \subseteq AllClocks
  /\ c.closeCode \in {"none", "local", "peer", "1002", "1006"}
  /\ c.at \in {"idle", "import", "slot"} /\ c.avail \in Nat
  /\ c.log \in Seq(FrameKinds) /\ c.put \in 0 .. Len(c.log)
  /\ c.got \in Nat
  /\ c.reports \in Seq({"closed", "shutdown", "aborted", "unread", "receive"})

\* The fields of a channel have their types; a write is only outstanding for
\* the front of the queue, and no more is parsed than was written.
TypeOK ==
  /\ DOMAIN ch = Peers
  /\ \A p \in Peers :
       /\ IsChannel(ch[p])
       /\ ch[p].writing => ch[p].outputPending /\ ch[p].queue # <<>>
       /\ ch[p].got + ch[p].avail <= ch[Other(p)].put

\* A close frame is the last frame an end writes, and there is one at most:
\* through enqueueClose, the queue that onProtocolFinished reduces and a
\* close that is answered while the own one is still queued.
CloseIsLast ==
  \A p \in Peers : \A i \in DOMAIN ch[p].log :
    ch[p].log[i] = "close" => i = Len(ch[p].log)

\* The end of the protocol has one reporter: closed(), the shutdown or the
\* receive.  Only a shutdown that a read error has failed, which does not end
\* the protocol, is followed by closed().
OneReporter ==
  \A p \in Peers : \A i \in DOMAIN ch[p].reports :
    i = Len(ch[p].reports) \/ ch[p].reports[i] = "unread"

\* A shutdown that is ready without an error has completed the handshake:
\* the close frame of the peer was read and the own one is written.
CleanShutdown ==
  \A p \in Peers : "shutdown" \in ToSet(ch[p].reports) /\ ~ch[p].failed =>
    /\ ch[p].got > 0 /\ ch[Other(p)].log[ch[p].got] = "close"
    /\ ch[p].put > 0 /\ ch[p].log[ch[p].put] = "close"

\* A ping of the engine never blocks the pings of the application: one that
\* waits for endPing() was begun by beginPing().
PingIsOwned ==
  \A p \in Peers : ch[p].op["ping"] = "Ready" => ch[p].isPingPending

\* The protocol is over for an end, and its close frame will not be written.
GaveUp(p) ==
  \/ /\ ch[p].state \in {"Finish", "Done"}
     /\ ~Contains(ch[p].log, "close") /\ ~Contains(ch[p].queue, "closeOut")
  \/ /\ ch[p].state = "Closed"
     /\ ~Contains(SubSeq(ch[p].log, 1, ch[p].put), "close")

\* A frame of the other end was rejected.
Rejected(p) == \E i \in 1 .. ch[p].got : ch[Other(p)].log[i] = "big"

\* A shutdown whose peer receives is answered: without a clock it completes,
\* unless the peer stops receiving or ends without a close frame, a read or
\* a write fails, or a frame is rejected, which in this phase ends the reading.
HandshakeCompletes ==
  \A p \in Peers :
    (ch[p].op["shutdown"] = "Pending" /\ ch[Other(p)].op["receive"] = "Pending")
      ~> \/ ch[p].op["shutdown"] # "Pending"
         \/ ch[Other(p)].op["receive"] \in {"Idle", "Ready"} \/ GaveUp(Other(p))
         \/ ch[p].inputFailure \/ ch[p].failed \/ ch[Other(p)].failed \/ Rejected(p)

\* Once the last close frame is queued and the protocol is finished, the end
\* is reported as soon as the writes in front of it are done.
CloseReported ==
  \A p \in Peers :
    (ch[p].state = "Finish" /\ Contains(ch[p].queue, "closeOut"))
      ~> ch[p].state \in {"Done", "Closed"} \/ ch[p].failed

\* A receive does not wait for a peer that is gone: the channel leaves the
\* protocol or the receive is told, also after a local close is queued.  Only
\* when a frame was rejected in that phase, which ends the reading without a
\* word, is the close time-out needed.
PeerGoneNoticed ==
  \A p \in Peers :
    (ch[p].op["receive"] = "Pending" /\ ch[Other(p)].state = "Closed")
      ~> \/ ch[p].op["receive"] # "Pending"
         \/ ch[p].state \in {"Finish", "Done", "Closed"}
         \/ Rejected(p)

\* A protocol that is finished gets done, and with it closed() runs or the
\* shutdown is ready, unless a write fails.
FinishIsDone ==
  \A p \in Peers :
    ch[p].state = "Finish" ~> ch[p].state \in {"Done", "Closed"} \/ ch[p].failed
=============================================================================
