--------------------------- MODULE WebSocketProofs ---------------------------
(***************************************************************************)
(* Proofs about WebSocket, for any clocks, any calls of the applications,  *)
(* any bounds and partial writes.                                          *)
(***************************************************************************)
EXTENDS WebSocket, SequenceTheorems, TLAPS

USE WebSocketAssumption DEF WebSocketAssumption

-----------------------------------------------------------------------------
(* The invariant of a channel.                                             *)

Fields == {"session", "durations", "state", "op", "error", "queue", "kind", "inputPending", "reading",
           "outputPending", "writing", "inputFailure", "outputFailure", "isPingPending", "clocks",
           "closeCode", "at", "avail", "log", "put", "got", "reports", "failed"}
Stages == {"Closed", "Idle", "Pending", "Ready"}
States == {"Open", "CloseSent", "Finish", "Done", "Closed"}
Places == {"idle", "import", "slot"}
Codes == {"none", "local", "peer", "1002", "1006"}
ReportKinds == {"closed", "shutdown", "aborted", "unread", "receive"}

Typed(c) ==
  /\ DOMAIN c = Fields
  /\ c.session \in BOOLEAN
  /\ c.state \in States
  /\ c.op \in [Operations -> Stages]
  /\ c.queue \in Seq(Outputs) /\ c.kind \in DataKinds \cup {"data"}
  /\ c.outputPending \in BOOLEAN /\ c.writing \in BOOLEAN
  /\ c.outputFailure \in BOOLEAN /\ c.isPingPending \in BOOLEAN
  /\ c.log \in Seq(FrameKinds)
  /\ c.reports \in Seq(ReportKinds)
  /\ c.at \in Places
  /\ c.avail \in Nat /\ c.got \in Nat /\ c.put \in 0 .. Len(c.log)

(* The fields the rest of the invariant does not speak of.                 *)
Others(c) ==
  /\ c.durations \subseteq AllClocks /\ c.clocks \subseteq AllClocks
  /\ c.error \subseteq Operations
  /\ c.inputPending \in BOOLEAN /\ c.reading \in BOOLEAN
  /\ c.inputFailure \in BOOLEAN /\ c.failed \in BOOLEAN
  /\ c.closeCode \in Codes

(* The queue is empty unless its front is being written, or writing has    *)
(* failed, and then no more is written.                                    *)
Flow(c) ==
  /\ c.writing => c.outputPending
  /\ c.outputPending => c.queue # <<>> /\ ~c.outputFailure
  /\ ~c.outputPending /\ ~c.outputFailure => c.queue = <<>>

Pings(c) == c.op["ping"] = "Ready" => c.isPingPending

(* A close frame is queued behind all others, and nothing is queued when   *)
(* it was written.                                                         *)
CloseQueued(c) ==
  \A i \in DOMAIN c.queue : c.queue[i] = "closeOut" =>
    i = Len(c.queue) /\ c.state # "Open" /\ c.op["closeOut"] = "Pending"

CloseWritten(c) ==
  \A i \in DOMAIN c.log : c.log[i] = "close" =>
    /\ i = Len(c.log) /\ c.state # "Open"
    /\ \/ c.outputFailure
       \/ c.queue = <<>> /\ c.op["closeOut"] \in {"Ready", "Closed"}
       \/ c.outputPending /\ c.queue = <<"closeOut">>

NoClose(c) == \A i \in DOMAIN c.log : c.log[i] # "close"

(* The end of the protocol is told when it is over, and a shutdown waits   *)
(* only before that.                                                       *)
Telling(c) ==
  /\ \A i \in DOMAIN c.reports :
       c.reports[i] = "unread" \/ (i = Len(c.reports) /\ c.state \in {"Done", "Closed"})
  /\ c.op["shutdown"] = "Pending" => c.state \in {"CloseSent", "Finish"}

Untold(c) == \A i \in DOMAIN c.reports : c.reports[i] = "unread"

Good(c) ==
  /\ Typed(c) /\ Others(c) /\ Flow(c) /\ Pings(c)
  /\ CloseQueued(c) /\ CloseWritten(c) /\ Telling(c)

(* What no operator of a channel undoes: frames are written and read in    *)
(* turn, and the loop that reads frames goes on where it is.               *)
Later(c, d) ==
  /\ d.got = c.got /\ d.put = c.put /\ d.at = c.at /\ d.avail \in {c.avail, 0}
  /\ Len(d.log) >= Len(c.log)

-----------------------------------------------------------------------------
(* Operators that leave the output alone.                                  *)

SameStream(c, d) ==
  d.got = c.got /\ d.put = c.put /\ d.at = c.at /\ d.avail = c.avail /\ d.log = c.log

SameOutput(c, d) ==
  /\ d.queue = c.queue /\ d.outputPending = c.outputPending /\ d.writing = c.writing
  /\ d.outputFailure = c.outputFailure

Same(c, d) ==
  /\ DOMAIN d = Fields /\ Others(d)
  /\ d.session = c.session /\ d.kind = c.kind /\ d.reports = c.reports
  /\ SameOutput(c, d) /\ SameStream(c, d)

Core(c, d) ==
  Same(c, d) /\ d.state = c.state /\ d.op = c.op /\ d.isPingPending = c.isPingPending

LEMMA LaterTwice ==
  ASSUME NEW c, NEW d, NEW e, Good(c), Good(d), Good(e), Later(c, d), Later(d, e)
  PROVE  Later(c, e)
BY DEF Later, Good, Typed

(* The state and the operations may change, in a direction.                *)
LEMMA SameGood ==
  ASSUME NEW c, Good(c), NEW d, Same(c, d),
         d.state \in States, d.op \in [Operations -> Stages], d.isPingPending \in BOOLEAN,
         Pings(d),
         d.state = "Open" => c.state = "Open",
         c.state \in {"Done", "Closed"} => d.state \in {"Done", "Closed"},
         \/ d.op["closeOut"] = c.op["closeOut"]
         \/ d.op["closeOut"] = "Pending" /\ NoClose(c)
         \/ d.op["closeOut"] = "Ready" /\ c.queue = <<>>,
         d.op["shutdown"] = "Pending" => d.state \in {"CloseSent", "Finish"}
  PROVE  Good(d) /\ Later(c, d)
<1>1. Typed(d) /\ Others(d)
  BY DEF Good, Typed, Same, SameOutput, SameStream
<1>2. Flow(d)
  BY DEF Good, Flow, Same, SameOutput
<1>3. CloseQueued(d)
  BY DEF Good, CloseQueued, Same, SameOutput
<1>4. CloseWritten(d)
  BY DEF Good, CloseWritten, NoClose, Same, SameOutput, SameStream
<1>5. Telling(d)
  BY DEF Good, Telling, Same
<1>6. Later(c, d)
  BY DEF Good, Typed, Later, Same, SameStream
<1>. QED
  BY <1>1, <1>2, <1>3, <1>4, <1>5, <1>6 DEF Good

LEMMA SameCore ==
  ASSUME NEW c, Good(c), NEW d, Core(c, d)
  PROVE  Good(d) /\ Later(c, d)
<1>1. /\ d.state \in States /\ d.op \in [Operations -> Stages] /\ d.isPingPending \in BOOLEAN
      /\ Pings(d)
  BY DEF Good, Typed, Pings, Core
<1>2. d.op["shutdown"] = "Pending" => d.state \in {"CloseSent", "Finish"}
  BY DEF Good, Telling, Core
<1>. QED
  BY <1>1, <1>2, SameGood DEF Core

LEMMA CoreItself ==
  ASSUME NEW c, Good(c)
  PROVE  Core(c, c)
BY DEF Core, Same, SameOutput, SameStream, Good, Typed

LEMMA SetCode ==
  ASSUME NEW c, Good(c), NEW code \in Codes
  PROVE  Core(c, setCloseCode(c, code))
BY DEF Good, Typed, Others, Fields, setCloseCode, Core, Same, SameOutput, SameStream

LEMMA BeginInput ==
  ASSUME NEW c, Good(c)
  PROVE  Core(c, onBeginInput(c))
BY DEF Good, Typed, Others, Fields, onBeginInput, Core, Same, SameOutput, SameStream

LEMMA Closes ==
  ASSUME NEW c, Good(c)
  PROVE  Good(onClose(c)) /\ Later(c, onClose(c)) /\ onClose(c).state = "Closed" /\ onClose(c).avail = 0
<1>. DEFINE d == onClose(c)
            none == [o \in Operations |-> "Closed"]
<1>1. PICK e : /\ e \in {c, setCloseCode(c, "1006")}
               /\ d = [e EXCEPT !.state = "Closed", !.op = none, !.error = {},
                                !.queue = <<>>, !.avail = 0,
                                !.inputPending = FALSE, !.reading = FALSE,
                                !.outputPending = FALSE, !.writing = FALSE,
                                !.inputFailure = FALSE, !.outputFailure = FALSE,
                                !.isPingPending = FALSE, !.clocks = {}]
  BY DEF onClose
<1>2. Good(e) /\ Later(c, e)
  BY <1>1, CoreItself, SetCode, SameCore DEF Codes
<1>3. none \in [Operations -> Stages] /\ \A o \in Operations : none[o] = "Closed"
  BY DEF Stages
<1>. HIDE DEF none
<1>4. /\ DOMAIN d = Fields /\ d.session = e.session /\ d.state = "Closed" /\ d.op = none
      /\ d.queue = <<>> /\ d.kind = e.kind /\ d.outputPending = FALSE /\ d.writing = FALSE
      /\ d.outputFailure = FALSE /\ d.isPingPending = FALSE
      /\ d.log = e.log /\ d.reports = e.reports
  BY <1>1, <1>2 DEF Good, Typed, Fields
<1>5. /\ d.at = e.at /\ d.avail = 0 /\ d.got = e.got /\ d.put = e.put
      /\ d.durations = e.durations /\ d.clocks = {} /\ d.error = {} /\ d.closeCode = e.closeCode
      /\ d.inputPending = FALSE /\ d.reading = FALSE /\ d.inputFailure = FALSE
      /\ d.failed = e.failed
  BY <1>1, <1>2 DEF Good, Typed, Fields
<1>. HIDE DEF d
<1>6. Typed(d)
  <2>1. Typed(e)
    BY <1>2 DEF Good
  <2>2. /\ d.state \in States /\ d.queue \in Seq(Outputs) /\ d.avail \in Nat
        /\ d.op \in [Operations -> Stages]
    BY <1>3, <1>4, <1>5 DEF States
  <2>. QED
    BY <1>4, <1>5, <2>1, <2>2 DEF Typed
<1>7. Others(d)
  BY <1>2, <1>5 DEF Good, Others
<1>8. Flow(d) /\ Pings(d) /\ CloseQueued(d)
  BY <1>3, <1>4 DEF Flow, Pings, CloseQueued, Operations, Outputs
<1>9. CloseWritten(d)
  BY <1>2, <1>3, <1>4 DEF Good, CloseWritten, Operations, Outputs
<1>10. Telling(d)
  BY <1>2, <1>3, <1>4 DEF Good, Telling, Operations
<1>11. Later(c, d)
  BY <1>2, <1>4, <1>5 DEF Later
<1>. QED
  BY <1>4, <1>5, <1>6, <1>7, <1>8, <1>9, <1>10, <1>11 DEF Good, d

LEMMA Report1 ==
  ASSUME NEW c, Good(c), Untold(c), NEW what \in ReportKinds,
         what = "unread" \/ c.state \in {"Done", "Closed"}
  PROVE  LET d == [c EXCEPT !.reports = Append(@, what)]
         IN Good(d) /\ Later(c, d) /\ d.state = c.state /\ d.op = c.op
<1>. DEFINE d == [c EXCEPT !.reports = Append(@, what)]
<1>1. /\ DOMAIN d = Fields /\ Others(d)
      /\ d.session = c.session /\ d.kind = c.kind /\ d.reports = Append(c.reports, what)
      /\ SameOutput(c, d) /\ SameStream(c, d)
      /\ d.state = c.state /\ d.op = c.op /\ d.isPingPending = c.isPingPending
  BY DEF Good, Typed, Others, Fields, SameOutput, SameStream
<1>. HIDE DEF d
<1>2. c.reports \in Seq(ReportKinds) /\ d.reports \in Seq(ReportKinds)
  BY <1>1 DEF Good, Typed
<1>3. Typed(d)
  BY <1>1, <1>2 DEF Good, Typed, SameOutput, SameStream
<1>4. Flow(d) /\ Pings(d)
  BY <1>1 DEF Good, Flow, Pings, SameOutput
<1>5. CloseQueued(d)
  BY <1>1 DEF Good, CloseQueued, SameOutput
<1>6. CloseWritten(d)
  BY <1>1 DEF Good, CloseWritten, SameOutput, SameStream
<1>7. Telling(d)
  BY <1>1, <1>2 DEF Good, Telling, Untold
<1>8. Later(c, d)
  BY <1>1 DEF Good, Typed, Later, SameStream
<1>. QED
  BY <1>1, <1>3, <1>4, <1>5, <1>6, <1>7, <1>8 DEF Good, d

LEMMA Reports ==
  ASSUME NEW c, Good(c), Untold(c), NEW what \in ReportKinds,
         what = "unread" \/ c.state \in {"Done", "Closed"}
  PROVE  LET d == Report(c, what) IN Good(d) /\ Later(c, d)
<1>. DEFINE d == [c EXCEPT !.reports = Append(@, what)]
<1>1. Good(d) /\ Later(c, d)
  BY Report1
<1>2. Good(onClose(d)) /\ Later(d, onClose(d))
  BY <1>1, Closes
<1>3. Later(c, onClose(d))
  BY <1>1, <1>2, LaterTwice
<1>4. Report(c, what) \in {d, onClose(d)}
  BY DEF Report
<1>. QED
  BY <1>1, <1>2, <1>3, <1>4

(* What begins an operation, makes it ready or puts it away.               *)
Sets(c, d, o, s) ==
  /\ Same(c, d) /\ d.state = c.state /\ d.isPingPending = c.isPingPending
  /\ d.op = [c.op EXCEPT ![o] = s]

LEMMA SetsTyped ==
  ASSUME NEW c, Typed(c), Others(c), NEW o \in Operations
  PROVE  /\ Sets(c, SetReady(c, o), o, "Ready")
         /\ Sets(c, SetError(c, o), o, "Ready")
         /\ Sets(c, begin(c, o), o, "Pending")
         /\ Sets(c, [c EXCEPT !.op[o] = "Idle", !.error = @ \ {o}], o, "Idle")
<1>1. Sets(c, SetReady(c, o), o, "Ready")
  BY DEF Typed, Others, Fields, SetReady, Sets, Same, SameOutput, SameStream
<1>2. Sets(c, SetError(c, o), o, "Ready")
  BY DEF Typed, Others, Fields, SetError, Sets, Same, SameOutput, SameStream
<1>3. Sets(c, begin(c, o), o, "Pending")
  BY DEF Typed, Others, Fields, begin, Sets, Same, SameOutput, SameStream
<1>4. Sets(c, [c EXCEPT !.op[o] = "Idle", !.error = @ \ {o}], o, "Idle")
  BY DEF Typed, Others, Fields, Sets, Same, SameOutput, SameStream
<1>. QED
  BY <1>1, <1>2, <1>3, <1>4

LEMMA SetsStage ==
  ASSUME NEW c, Good(c), NEW o \in Operations
  PROVE  /\ Sets(c, SetReady(c, o), o, "Ready")
         /\ Sets(c, SetError(c, o), o, "Ready")
         /\ Sets(c, begin(c, o), o, "Pending")
         /\ Sets(c, [c EXCEPT !.op[o] = "Idle", !.error = @ \ {o}], o, "Idle")
BY SetsTyped DEF Good

LEMMA SetsGood ==
  ASSUME NEW c, Good(c), NEW d, NEW o \in Operations, NEW s \in Stages, Sets(c, d, o, s),
         o = "ping" /\ s = "Ready" => c.isPingPending,
         o = "shutdown" => s # "Pending",
         o = "closeOut" => IF s = "Pending" THEN NoClose(c) ELSE s = "Ready" /\ c.queue = <<>>
  PROVE  Good(d) /\ Later(c, d) /\ \A r \in Operations : d.op[r] = IF r = o THEN s ELSE c.op[r]
<1>1. /\ d.op \in [Operations -> Stages]
      /\ \A r \in Operations : d.op[r] = IF r = o THEN s ELSE c.op[r]
  BY DEF Sets, Good, Typed
<1>2. d.state \in States /\ d.isPingPending \in BOOLEAN /\ d.state = c.state
  BY DEF Sets, Good, Typed
<1>3. Pings(d)
  BY <1>1, <1>2 DEF Sets, Good, Pings, Operations, Outputs
<1>4. d.op["shutdown"] = "Pending" => d.state \in {"CloseSent", "Finish"}
  BY <1>1, <1>2 DEF Good, Telling, Operations
<1>5. \/ d.op["closeOut"] = c.op["closeOut"]
      \/ d.op["closeOut"] = "Pending" /\ NoClose(c)
      \/ d.op["closeOut"] = "Ready" /\ c.queue = <<>>
  BY <1>1 DEF Operations, Outputs
<1>6. Good(d) /\ Later(c, d)
  BY <1>1, <1>2, <1>3, <1>4, <1>5, SameGood DEF Sets
<1>. QED
  BY <1>1, <1>6

-----------------------------------------------------------------------------
(* The end of the protocol.                                                *)

LEMMA UntoldBefore ==
  ASSUME NEW c, Good(c), c.state \in {"Open", "CloseSent", "Finish"}
  PROVE  Untold(c)
BY DEF Good, Telling, Untold

LEMMA Finishes ==
  ASSUME NEW c, Good(c), c.state \in {"Open", "CloseSent"}
  PROVE  LET d == onProtocolFinished(c)
         IN Good(d) /\ Later(c, d) /\ d.state = "Finish" /\ d.op = c.op
<1>. DEFINE d == onProtocolFinished(c)
<1>1. /\ DOMAIN d = Fields /\ Others(d) /\ SameStream(c, d)
      /\ d.session = c.session /\ d.kind = c.kind /\ d.reports = c.reports
      /\ d.outputPending = c.outputPending /\ d.writing = c.writing
      /\ d.outputFailure = c.outputFailure
      /\ d.state = "Finish" /\ d.op = c.op /\ d.isPingPending = c.isPingPending
  BY DEF onProtocolFinished, Good, Typed, Others, Fields, SameStream
<1>2. d.queue = IF c.queue # <<>> /\ c.outputPending THEN <<Head(c.queue)>> ELSE <<>>
  BY DEF onProtocolFinished, Good, Typed, Fields
<1>. HIDE DEF d
<1>3. /\ d.queue \in Seq(Outputs)
      /\ d.queue = <<>> \/ (/\ c.queue # <<>> /\ c.outputPending
                            /\ Len(d.queue) = 1 /\ d.queue[1] = c.queue[1])
  BY <1>2 DEF Good, Typed
<1>4. Typed(d)
  BY <1>1, <1>3 DEF Good, Typed, SameStream, States
<1>5. Flow(d) /\ Pings(d)
  BY <1>1, <1>2, <1>3 DEF Good, Flow, Pings
<1>6. CloseQueued(d)
  BY <1>1, <1>3 DEF Good, Typed, CloseQueued
<1>7. CloseWritten(d)
  <2>1. c.queue = <<>> => d.queue = <<>>
    BY <1>2
  <2>2. c.outputPending /\ c.queue = <<"closeOut">> => d.queue = <<"closeOut">>
    BY <1>2
  <2>. QED
    BY <1>1, <2>1, <2>2 DEF Good, CloseWritten, SameStream
<1>8. Telling(d)
  BY <1>1 DEF Good, Telling
<1>9. Later(c, d)
  BY <1>1 DEF Good, Typed, Later, SameStream
<1>. QED
  BY <1>1, <1>4, <1>5, <1>6, <1>7, <1>8, <1>9 DEF Good, d

LEMMA DoneGood ==
  ASSUME NEW c, Good(c), c.state = "Finish", NEW d, Same(c, d), d.state = "Done",
         d.isPingPending = c.isPingPending,
         \/ d.op = [c.op EXCEPT !["shutdown"] = "Ready"]
         \/ d.op = c.op /\ c.op["shutdown"] # "Pending"
  PROVE  Good(d) /\ Later(c, d) /\ Untold(d)
<1>1. /\ d.op \in [Operations -> Stages] /\ d.op["shutdown"] # "Pending"
      /\ \A o \in Operations \ {"shutdown"} : d.op[o] = c.op[o]
  BY DEF Good, Typed, Operations, Stages
<1>2. d.op["closeOut"] = c.op["closeOut"] /\ d.op["ping"] = c.op["ping"]
  BY <1>1 DEF Operations, Outputs
<1>3. d.state \in States /\ d.isPingPending \in BOOLEAN /\ Pings(d)
  BY <1>2 DEF Good, Typed, Pings, States
<1>4. Good(d) /\ Later(c, d)
  BY <1>1, <1>2, <1>3, SameGood
<1>5. Untold(d)
  BY UntoldBefore DEF Untold, Same
<1>. QED
  BY <1>4, <1>5

LEMMA IsDone ==
  ASSUME NEW c, Good(c)
  PROVE  LET d == onProtocolDone(c) IN Good(d) /\ Later(c, d)
<1>. DEFINE d == [c EXCEPT !.state = "Done"]
            e == SetReady(d, "shutdown")
<1>1. CASE c.state # "Finish" \/ c.queue # <<>> \/ c.outputPending
  BY <1>1, CoreItself, SameCore DEF onProtocolDone
<1>2. CASE ~(c.state # "Finish" \/ c.queue # <<>> \/ c.outputPending) /\ c.op["shutdown"] = "Pending"
  <2>1. Same(c, e) /\ e.state = "Done" /\ e.isPingPending = c.isPingPending
    BY DEF SetReady, Good, Typed, Others, Fields, Same, SameOutput, SameStream
  <2>2. e.op = [c.op EXCEPT !["shutdown"] = "Ready"]
    BY DEF SetReady, Good, Typed, Fields
  <2>3. Good(e) /\ Later(c, e) /\ Untold(e)
    BY <1>2, <2>1, <2>2, DoneGood
  <2>4. Good(Report(e, "shutdown")) /\ Later(e, Report(e, "shutdown"))
    BY <2>1, <2>3, Reports DEF ReportKinds
  <2>5. onProtocolDone(c) = Report(e, "shutdown")
    BY <1>2 DEF onProtocolDone
  <2>. QED
    BY <2>3, <2>4, <2>5, LaterTwice
<1>3. CASE ~(c.state # "Finish" \/ c.queue # <<>> \/ c.outputPending) /\ c.op["shutdown"] # "Pending"
  <2>1. Same(c, d) /\ d.state = "Done" /\ d.isPingPending = c.isPingPending /\ d.op = c.op
    BY DEF Good, Typed, Others, Fields, Same, SameOutput, SameStream
  <2>2. Good(d) /\ Later(c, d) /\ Untold(d)
    BY <1>3, <2>1, DoneGood
  <2>3. Good(Report(d, "closed")) /\ Later(d, Report(d, "closed"))
    BY <2>1, <2>2, Reports DEF ReportKinds
  <2>4. onProtocolDone(c) = Report(d, "closed")
    BY <1>3 DEF onProtocolDone
  <2>. QED
    BY <2>2, <2>3, <2>4, LaterTwice
<1>. QED
  BY <1>1, <1>2, <1>3

LEMMA ShutdownFails ==
  ASSUME NEW c, Good(c)
  PROVE  LET d == FailShutdown(c, "unread") IN Good(d) /\ Later(c, d)
<1>1. CASE c.op["shutdown"] # "Pending"
  BY <1>1, CoreItself, SameCore DEF FailShutdown
<1>2. CASE c.op["shutdown"] = "Pending"
  <2>. DEFINE e == SetError(c, "shutdown")
  <2>1. Sets(c, e, "shutdown", "Ready")
    BY SetsStage DEF Operations
  <2>2. Good(e) /\ Later(c, e)
    BY <2>1, SetsGood DEF Operations, Stages
  <2>3. Untold(e)
    BY <1>2, <2>1, UntoldBefore DEF Good, Telling, Untold, Sets, Same
  <2>4. Good(Report(e, "unread")) /\ Later(e, Report(e, "unread"))
    BY <2>2, <2>3, Reports DEF ReportKinds
  <2>5. FailShutdown(c, "unread") = Report(e, "unread")
    BY <1>2 DEF FailShutdown
  <2>. QED
    BY <2>2, <2>4, <2>5, LaterTwice
<1>. QED
  BY <1>1, <1>2

LEMMA DoneFails ==
  ASSUME NEW c, Good(c)
  PROVE  LET e == SetError([c EXCEPT !.state = "Done"], "shutdown")
         IN /\ Same(c, e) /\ e.state = "Done" /\ e.isPingPending = c.isPingPending
            /\ e.op = [c.op EXCEPT !["shutdown"] = "Ready"]
<1>. DEFINE d == [c EXCEPT !.state = "Done"]
            e == SetError(d, "shutdown")
<1>1. DOMAIN d = Fields /\ d.state = "Done" /\ \A f \in Fields \ {"state"} : d[f] = c[f]
  BY DEF Good, Typed, Fields
<1>2. /\ DOMAIN e = Fields /\ e.op = [d.op EXCEPT !["shutdown"] = "Ready"]
      /\ e.error = d.error \cup {"shutdown"}
      /\ \A f \in Fields \ {"op", "error"} : e[f] = d[f]
  BY <1>1 DEF SetError, Fields
<1>. HIDE DEF d, e
<1>3. e.state = "Done" /\ e.isPingPending = c.isPingPending /\ d.op = c.op /\ d.error = c.error
  BY <1>1, <1>2 DEF Fields
<1>4. Others(e)
  BY <1>1, <1>2 DEF Good, Others, Fields, Operations
<1>5. SameOutput(c, e)
  BY <1>1, <1>2 DEF Fields, SameOutput
<1>6. SameStream(c, e)
  BY <1>1, <1>2 DEF Fields, SameStream
<1>7. Same(c, e)
  BY <1>1, <1>2, <1>4, <1>5, <1>6 DEF Fields, Same
<1>. QED
  BY <1>2, <1>3, <1>7 DEF d, e

LEMMA Aborts ==
  ASSUME NEW c, Good(c)
  PROVE  LET d == onProtocolAborted(c) IN Good(d) /\ Later(c, d)
<1>. DEFINE b == setCloseCode(c, "1006")
            d == onProtocolFinished(b)
            e == SetError([d EXCEPT !.state = "Done"], "shutdown")
<1>1. CASE c.state \notin {"Open", "CloseSent"}
  BY <1>1, CoreItself, SameCore DEF onProtocolAborted
<1>2. CASE c.state \in {"Open", "CloseSent"}
  <2>1. Core(c, b) /\ Good(b) /\ Later(c, b)
    BY SetCode, SameCore DEF Codes
  <2>2. Good(d) /\ Later(b, d) /\ d.state = "Finish" /\ d.op = c.op
    BY <1>2, <2>1, Finishes DEF Core
  <2>. HIDE DEF d
  <2>3. Later(c, d)
    BY <2>1, <2>2, LaterTwice
  <2>4. CASE c.op["shutdown"] # "Pending"
    <3>1. onProtocolAborted(c) = onProtocolDone(d)
      BY <1>2, <2>4 DEF onProtocolAborted, d
    <3>. QED
      BY <2>2, <2>3, <3>1, IsDone, LaterTwice
  <2>5. CASE c.op["shutdown"] = "Pending"
    <3>1. Same(d, e) /\ e.state = "Done" /\ e.isPingPending = d.isPingPending
      BY <2>2, DoneFails
    <3>2. e.op = [d.op EXCEPT !["shutdown"] = "Ready"]
      BY <2>2, DoneFails
    <3>3. Good(e) /\ Later(d, e) /\ Untold(e)
      BY <2>2, <3>1, <3>2, DoneGood
    <3>4. Good(Report(e, "aborted")) /\ Later(e, Report(e, "aborted"))
      BY <3>1, <3>3, Reports DEF ReportKinds
    <3>5. [d EXCEPT !.state = "Done"].op = d.op
      BY <2>2 DEF Good, Typed, Fields
    <3>6. onProtocolAborted(c) = Report(e, "aborted")
      BY <1>2, <2>2, <2>5, <3>5 DEF onProtocolAborted, FailShutdown, d
    <3>7. Later(c, e)
      BY <2>1, <2>2, <2>3, <3>3, LaterTwice
    <3>. QED
      BY <3>3, <3>4, <3>6, <3>7, LaterTwice
  <2>. QED
    BY <2>4, <2>5
<1>. QED
  BY <1>1, <1>2

-----------------------------------------------------------------------------
(* Output.                                                                 *)

(* Between two writes: nothing is outstanding, and no close was written.   *)
Between(c) ==
  /\ Typed(c) /\ Others(c) /\ Pings(c) /\ CloseQueued(c) /\ Telling(c)
  /\ NoClose(c) /\ ~c.outputFailure /\ c.queue # <<>>

LEMMA Begins ==
  ASSUME NEW c, Between(c), NEW ok \in BOOLEAN
  PROVE  LET d == onBeginOutput(c, ok)
         IN /\ Good(d) /\ Later(c, d) /\ d.state = c.state /\ d.op = c.op
            /\ d.queue = c.queue /\ d.writing = ok
            /\ Len(d.log) = Len(c.log) + 1
<1>. DEFINE d == onBeginOutput(c, ok)
            k == Frame(c, Head(c.queue))
<1>1. /\ Typed(c) /\ Others(c) /\ Pings(c) /\ CloseQueued(c) /\ Telling(c)
      /\ NoClose(c) /\ ~c.outputFailure /\ c.queue # <<>>
  BY DEF Between
<1>2. /\ DOMAIN d = Fields /\ Others(d)
      /\ d.session = c.session /\ d.kind = c.kind /\ d.reports = c.reports
      /\ d.outputPending = TRUE /\ d.writing = ok /\ d.outputFailure = c.outputFailure
      /\ d.state = c.state /\ d.op = c.op /\ d.isPingPending = c.isPingPending
      /\ d.queue = c.queue
  BY <1>1 DEF onBeginOutput, Typed, Others, Fields
<1>3. /\ d.got = c.got /\ d.put = c.put /\ d.at = c.at /\ d.avail = c.avail
      /\ d.log = Append(c.log, k)
  BY <1>1 DEF onBeginOutput, Typed, Fields
<1>4. /\ Head(c.queue) \in Outputs /\ Head(c.queue) = c.queue[1] /\ 1 \in DOMAIN c.queue
      /\ DOMAIN c.queue = 1 .. Len(c.queue)
  BY <1>1 DEF Typed
<1>5. k \in FrameKinds /\ (k = "close" => Head(c.queue) = "closeOut")
  BY <1>1, <1>4 DEF Frame, Typed, FrameKinds, Outputs
<1>. HIDE DEF d, k
<1>6. /\ c.log \in Seq(FrameKinds) /\ d.log \in Seq(FrameKinds)
      /\ Len(d.log) = Len(c.log) + 1 /\ d.log[Len(d.log)] = k
      /\ \A i \in DOMAIN d.log : i # Len(d.log) => i \in DOMAIN c.log /\ d.log[i] = c.log[i]
  BY <1>1, <1>3, <1>5 DEF Typed
<1>7. Typed(d)
  <2>1. d.put \in 0 .. Len(d.log)
    BY <1>1, <1>3, <1>6 DEF Typed
  <2>. QED
    BY <1>1, <1>2, <1>3, <1>6, <2>1 DEF Typed
<1>8. Flow(d) /\ Pings(d) /\ CloseQueued(d) /\ Telling(d)
  BY <1>1, <1>2 DEF Flow, Pings, CloseQueued, Telling
<1>9. CloseWritten(d)
  <2>. SUFFICES ASSUME NEW i \in DOMAIN d.log, d.log[i] = "close"
                PROVE  i = Len(d.log) /\ d.state # "Open" /\ d.outputPending /\ d.queue = <<"closeOut">>
    BY DEF CloseWritten
  <2>1. i = Len(d.log) /\ k = "close"
    BY <1>1, <1>6 DEF NoClose
  <2>2. c.queue[1] = "closeOut"
    BY <1>4, <1>5, <2>1
  <2>3. Len(c.queue) = 1 /\ c.state # "Open"
    BY <1>1, <1>4, <2>2 DEF CloseQueued
  <2>4. c.queue = <<"closeOut">>
    BY <1>1, <2>2, <2>3 DEF Typed
  <2>. QED
    BY <1>2, <2>1, <2>3, <2>4
<1>10. Later(c, d)
  BY <1>1, <1>3, <1>6 DEF Later, Typed
<1>. QED
  BY <1>2, <1>6, <1>7, <1>8, <1>9, <1>10 DEF Good, d

LEMMA CloseNotQueued ==
  ASSUME NEW c, Good(c), c.state = "Open"
  PROVE  NoClose(c) /\ \A i \in DOMAIN c.queue : c.queue[i] # "closeOut"
BY DEF Good, CloseQueued, CloseWritten, NoClose

LEMMA Enqueues ==
  ASSUME NEW c, Good(c), NEW o \in Outputs, NEW ok \in BOOLEAN,
         IF o = "closeOut" THEN NoClose(c) /\ c.op["closeOut"] = "Pending" /\ c.state # "Open"
                           ELSE c.state = "Open"
  PROVE  LET d == enqueue(c, o, ok)
         IN Good(d) /\ Later(c, d) /\ d.state = c.state /\ d.op = c.op
<1>. DEFINE d == [c EXCEPT !.queue = Append(@, o)]
<1>1. CASE c.outputFailure \/ Contains(c.queue, o)
  BY <1>1, CoreItself, SameCore DEF enqueue
<1>2. CASE ~c.outputFailure /\ ~Contains(c.queue, o)
  <2>1. /\ DOMAIN d = Fields /\ Others(d)
        /\ d.session = c.session /\ d.kind = c.kind /\ d.reports = c.reports
        /\ d.outputPending = c.outputPending /\ d.writing = c.writing
        /\ d.outputFailure = c.outputFailure
        /\ d.state = c.state /\ d.op = c.op /\ d.isPingPending = c.isPingPending
        /\ d.queue = Append(c.queue, o)
    BY DEF Good, Typed, Others, Fields
  <2>2. SameStream(c, d)
    BY DEF Good, Typed, Fields, SameStream
  <2>3. enqueue(c, o, ok) = IF d.outputPending THEN d ELSE onBeginOutput(d, ok)
    BY <1>2 DEF enqueue
  <2>. HIDE DEF d
  <2>4. /\ c.queue \in Seq(Outputs) /\ d.queue \in Seq(Outputs) /\ d.queue # <<>>
        /\ Len(d.queue) = Len(c.queue) + 1 /\ d.queue[Len(d.queue)] = o
        /\ \A i \in DOMAIN d.queue : i # Len(d.queue) => i \in DOMAIN c.queue /\ d.queue[i] = c.queue[i]
        /\ Len(c.queue) \in Nat
    BY <2>1 DEF Good, Typed
  <2>5. NoClose(c) /\ \A i \in DOMAIN c.queue : c.queue[i] # "closeOut"
    <3>1. CASE o = "closeOut"
      BY <1>2, <2>4, <3>1 DEF Contains
    <3>2. CASE o # "closeOut"
      BY <3>2, CloseNotQueued
    <3>. QED
      BY <3>1, <3>2
  <2>6. Typed(d)
    BY <2>1, <2>2, <2>4 DEF Good, Typed, SameStream
  <2>7. CloseQueued(d)
    BY <2>1, <2>4, <2>5 DEF CloseQueued
  <2>8. Pings(d) /\ Telling(d)
    BY <2>1 DEF Good, Pings, Telling
  <2>9. NoClose(d)
    BY <2>2, <2>5 DEF NoClose, SameStream
  <2>10. Later(c, d)
    BY <2>2 DEF Later, SameStream, Good, Typed
  <2>11. CASE d.outputPending
    <3>1. Flow(d) /\ CloseWritten(d)
      BY <1>2, <2>1, <2>4, <2>9, <2>11 DEF Good, Flow, CloseWritten, NoClose
    <3>. QED
      BY <2>1, <2>3, <2>6, <2>7, <2>8, <2>10, <2>11, <3>1 DEF Good
  <2>12. CASE ~d.outputPending
    <3>1. Between(d)
      BY <1>2, <2>1, <2>4, <2>6, <2>7, <2>8, <2>9 DEF Between
    <3>2. /\ Good(onBeginOutput(d, ok)) /\ Later(d, onBeginOutput(d, ok))
          /\ onBeginOutput(d, ok).state = d.state /\ onBeginOutput(d, ok).op = d.op
      BY <3>1, Begins
    <3>3. Later(c, onBeginOutput(d, ok))
      BY <2>6, <2>10, <3>2 DEF Later, Good, Typed
    <3>. QED
      BY <2>1, <2>3, <2>12, <3>2, <3>3
  <2>. QED
    BY <2>11, <2>12
<1>. QED
  BY <1>1, <1>2

LEMMA EnqueuesClose ==
  ASSUME NEW c, Good(c), NEW ok \in BOOLEAN, c.state # "Open"
  PROVE  LET d == enqueueClose(c, ok)
         IN /\ Good(d) /\ Later(c, d) /\ d.state = c.state
            /\ \A o \in Operations \ {"closeOut"} : d.op[o] = c.op[o]
<1>. DEFINE b == begin(c, "closeOut")
<1>1. CASE c.outputFailure \/ c.op["closeOut"] \in {"Ready", "Closed"} \/ InFlight(c, "closeOut")
  BY <1>1, CoreItself, SameCore DEF enqueueClose
<1>2. CASE ~(c.outputFailure \/ c.op["closeOut"] \in {"Ready", "Closed"} \/ InFlight(c, "closeOut"))
  <2>1. NoClose(c)
    BY <1>2 DEF Good, CloseWritten, NoClose, InFlight
  <2>2. Sets(c, b, "closeOut", "Pending")
    BY SetsStage DEF Operations, Outputs
  <2>3. /\ Good(b) /\ Later(c, b)
        /\ \A r \in Operations : b.op[r] = IF r = "closeOut" THEN "Pending" ELSE c.op[r]
    BY <2>1, <2>2, SetsGood DEF Operations, Outputs, Stages
  <2>4. NoClose(b) /\ b.state # "Open" /\ b.state = c.state /\ b.op["closeOut"] = "Pending"
    BY <2>1, <2>2, <2>3 DEF Sets, Same, SameStream, NoClose, Operations, Outputs
  <2>5. enqueueClose(c, ok) = enqueue(b, "closeOut", ok)
    BY <1>2 DEF enqueueClose
  <2>. HIDE DEF b
  <2>6. LET d == enqueue(b, "closeOut", ok)
        IN Good(d) /\ Later(b, d) /\ d.state = b.state /\ d.op = b.op
    BY <2>3, <2>4, Enqueues DEF Outputs
  <2>. QED
    BY <2>3, <2>4, <2>5, <2>6, LaterTwice
<1>. QED
  BY <1>1, <1>2

LEMMA EndsOutput ==
  ASSUME NEW c, Good(c), NEW o \in Outputs, NEW failed \in BOOLEAN,
         o = "closeOut" => c.queue = <<>>
  PROVE  LET d == EndOutput(c, o, failed) IN Good(d) /\ Later(c, d)
<1>. o \in Operations
  BY DEF Operations
<1>1. CASE c.op[o] # "Pending"
  BY <1>1, CoreItself, SameCore DEF EndOutput
<1>2. CASE c.op[o] = "Pending"
  <2>. DEFINE e == IF failed THEN SetError(c, o) ELSE SetReady(c, o)
  <2>1. Sets(c, e, o, "Ready")
    BY SetsStage
  <2>2. EndOutput(c, o, failed) = onOutputReady(e, o)
    BY <1>2 DEF EndOutput
  <2>. HIDE DEF e
  <2>3. CASE o = "ping" /\ ~e.isPingPending
    <3>. DEFINE g == [e EXCEPT !.op[o] = "Idle", !.error = @ \ {o}]
    <3>1. Typed(e) /\ Others(e)
      BY <2>1 DEF Sets, Same, SameOutput, SameStream, Good, Typed, Stages
    <3>2. Sets(e, g, o, "Idle")
      BY <3>1, SetsTyped
    <3>3. onOutputReady(e, o) = g
      BY <2>3 DEF onOutputReady
    <3>. HIDE DEF g
    <3>4. Same(c, g) /\ g.state = c.state /\ g.isPingPending = c.isPingPending
      BY <2>1, <3>2 DEF Sets, Same, SameOutput, SameStream
    <3>5. g.op = [c.op EXCEPT ![o] = "Idle"]
      BY <2>1, <3>2 DEF Sets, Good, Typed
    <3>6. Sets(c, g, o, "Idle")
      BY <3>4, <3>5 DEF Sets
    <3>7. Good(g) /\ Later(c, g)
      BY <2>3, <3>6, SetsGood DEF Stages
    <3>. QED
      BY <2>2, <3>3, <3>7
  <2>4. CASE ~(o = "ping" /\ ~e.isPingPending)
    <3>1. o = "ping" => c.isPingPending
      BY <2>1, <2>4 DEF Sets
    <3>2. Good(e) /\ Later(c, e)
      BY <2>1, <3>1, SetsGood DEF Stages
    <3>3. onOutputReady(e, o) \in {e, onProtocolDone(e)}
      BY <2>4 DEF onOutputReady
    <3>. QED
      BY <2>2, <3>2, <3>3, IsDone, LaterTwice
  <2>. QED
    BY <2>3, <2>4
<1>. QED
  BY <1>1, <1>2

(* The front of the queue is dropped with the write that has failed.       *)
Failing(c) == setCloseCode([c EXCEPT !.outputFailure = TRUE, !.outputPending = FALSE], "1006")
Dropped(c) == [Failing(c) EXCEPT !.queue = Tail(@)]

LEMMA Fails ==
  ASSUME NEW c, Good(c), ~c.writing
  PROVE  LET d == Failing(c)
         IN /\ Good(d) /\ Later(c, d) /\ d.outputFailure = TRUE /\ d.outputPending = FALSE
            /\ d.writing = FALSE /\ d.queue = c.queue
<1>. DEFINE b == [c EXCEPT !.outputFailure = TRUE, !.outputPending = FALSE]
            d == Failing(c)
<1>1. Good(b) /\ Later(c, b) /\ b.outputFailure = TRUE /\ b.outputPending = FALSE
      /\ b.writing = FALSE /\ b.queue = c.queue
  <2>1. /\ DOMAIN b = Fields /\ Others(b) /\ SameStream(c, b)
        /\ b.session = c.session /\ b.kind = c.kind /\ b.reports = c.reports
        /\ b.outputPending = FALSE /\ b.writing = c.writing /\ b.outputFailure = TRUE
        /\ b.state = c.state /\ b.op = c.op /\ b.isPingPending = c.isPingPending
        /\ b.queue = c.queue
    BY DEF Good, Typed, Others, Fields, SameStream
  <2>. HIDE DEF b
  <2>2. Typed(b)
    BY <2>1 DEF Good, Typed, SameStream
  <2>3. Flow(b) /\ Pings(b) /\ CloseQueued(b) /\ Telling(b)
    BY <2>1 DEF Good, Flow, Pings, CloseQueued, Telling
  <2>4. CloseWritten(b)
    BY <2>1 DEF Good, CloseWritten, SameStream
  <2>5. Later(c, b)
    BY <2>1 DEF Good, Typed, Later, SameStream
  <2>6. b.writing = FALSE
    BY <2>1 DEF Good, Typed
  <2>. QED
    BY <2>1, <2>2, <2>3, <2>4, <2>5, <2>6 DEF Good
<1>. HIDE DEF b
<1>2. d = setCloseCode(b, "1006")
  BY DEF Failing, b
<1>3. Good(d) /\ Later(b, d) /\ Core(b, d)
  BY <1>1, <1>2, SetCode, SameCore DEF Codes
<1>. HIDE DEF d
<1>4. Later(c, d)
  BY <1>1, <1>3, LaterTwice
<1>. QED
  BY <1>1, <1>3, <1>4 DEF Core, Same, SameOutput, d

LEMMA Drops ==
  ASSUME NEW c, Good(c), ~c.writing, c.queue # <<>>
  PROVE  LET e == Dropped(c)
         IN /\ Good(e) /\ Later(c, e)
            /\ Head(c.queue) \in Outputs /\ (Head(c.queue) = "closeOut" => e.queue = <<>>)
<1>. DEFINE d == Failing(c)
            e == Dropped(c)
<1>1. /\ Good(d) /\ Later(c, d) /\ d.outputFailure = TRUE /\ d.outputPending = FALSE
      /\ d.writing = FALSE /\ d.queue = c.queue
  BY Fails
<1>2. e = [d EXCEPT !.queue = Tail(@)]
  BY DEF Dropped
<1>. HIDE DEF d, e
<1>3. /\ DOMAIN e = Fields /\ Others(e) /\ SameStream(d, e)
      /\ e.session = d.session /\ e.kind = d.kind /\ e.reports = d.reports
      /\ e.outputPending = d.outputPending /\ e.writing = d.writing
      /\ e.outputFailure = d.outputFailure
      /\ e.state = d.state /\ e.op = d.op /\ e.isPingPending = d.isPingPending
      /\ e.queue = Tail(d.queue)
  BY <1>1, <1>2 DEF Good, Typed, Others, Fields, SameStream
<1>4. d.queue \in Seq(Outputs) /\ d.queue # <<>>
  BY <1>1 DEF Good, Typed
<1>5. Good(e) /\ Later(d, e)
  <2>1. Typed(e)
    BY <1>1, <1>3, <1>4 DEF Good, Typed, SameStream
  <2>2. Flow(e) /\ Pings(e) /\ Telling(e)
    BY <1>1, <1>3 DEF Good, Flow, Pings, Telling
  <2>3. CloseQueued(e)
    BY <1>1, <1>3, <1>4 DEF Good, CloseQueued
  <2>4. CloseWritten(e)
    BY <1>1, <1>3 DEF Good, CloseWritten, SameStream
  <2>5. Later(d, e)
    BY <1>1, <1>3 DEF Good, Typed, Later, SameStream
  <2>. QED
    BY <1>3, <2>1, <2>2, <2>3, <2>4, <2>5 DEF Good
<1>6. Head(c.queue) \in Outputs
  BY <1>1, <1>4
<1>7. Head(c.queue) = "closeOut" => e.queue = <<>>
  BY <1>1, <1>3, <1>4 DEF Good, CloseQueued
<1>8. Later(c, e)
  BY <1>1, <1>5, LaterTwice
<1>. QED
  BY <1>5, <1>6, <1>7, <1>8 DEF e

LEMMA OutputError ==
  ASSUME NEW c, Good(c), ~c.writing
  PROVE  onOutputError(c) = IF c.queue = <<>> THEN Failing(c)
                            ELSE EndOutput(Dropped(c), Head(c.queue), TRUE)
BY DEF onOutputError, Dropped, Failing

LEMMA OutputFails ==
  ASSUME NEW c, Good(c), ~c.writing
  PROVE  LET d == onOutputError(c) IN Good(d) /\ Later(c, d)
<1>1. CASE c.queue = <<>>
  BY <1>1, OutputError, Fails
<1>2. CASE c.queue # <<>>
  <2>1. LET f == EndOutput(Dropped(c), Head(c.queue), TRUE) IN Good(f) /\ Later(Dropped(c), f)
    BY <1>2, Drops, EndsOutput
  <2>. QED
    BY <1>2, <2>1, Drops, OutputError, LaterTwice
<1>. QED
  BY <1>1, <1>2

(* As Later, when the write has ended that brings put to n.                *)
Written(c, d, n) ==
  /\ d.got = c.got /\ d.put = n /\ d.at = c.at /\ d.avail \in {c.avail, 0}
  /\ Len(d.log) >= Len(c.log)

LEMMA WrittenLater ==
  ASSUME NEW c, NEW d, NEW e, NEW n, Good(c), Good(d), Good(e), Written(c, d, n), Later(d, e)
  PROVE  Written(c, e, n)
<1>1. Len(c.log) \in Nat /\ Len(d.log) \in Nat /\ Len(e.log) \in Nat
  <2>1. c.log \in Seq(FrameKinds) /\ d.log \in Seq(FrameKinds) /\ e.log \in Seq(FrameKinds)
    BY DEF Good, Typed
  <2>. QED
    BY <2>1
<1>. QED
  BY <1>1 DEF Written, Later

(* The write has ended; the next frame of the queue is given to the stream *)
(* before the ready signal of the one that was written.                    *)
Ended(c, n) == [c EXCEPT !.put = n, !.writing = FALSE, !.outputPending = FALSE, !.queue = Tail(@)]
NextWrite(c, n, ok) == IF Ended(c, n).queue = <<>> THEN Ended(c, n) ELSE onBeginOutput(Ended(c, n), ok)

LEMMA OutputOver ==
  ASSUME NEW c, NEW n, NEW ok
  PROVE  onOutput(c, n, ok) = IF Threw(Ended(c, n), NextWrite(c, n, ok), ok) THEN onOutputError(NextWrite(c, n, ok))
                              ELSE EndOutput(NextWrite(c, n, ok), Head(c.queue), FALSE)
BY DEF onOutput, Ended, NextWrite

(* What is known of a channel c whose write has ended and d after it.      *)
AtEnd(c, d, n) ==
  /\ Typed(d) /\ Others(d) /\ Pings(d) /\ Telling(d) /\ CloseQueued(d) /\ Written(c, d, n)
  /\ d.session = c.session /\ d.kind = c.kind /\ d.reports = c.reports
  /\ d.outputPending = FALSE /\ d.writing = FALSE /\ d.outputFailure = FALSE
  /\ d.state = c.state /\ d.op = c.op /\ d.isPingPending = c.isPingPending
  /\ d.queue = Tail(c.queue) /\ d.log = c.log /\ d.put = n /\ d.failed = c.failed
  /\ c.queue # <<>> /\ c.outputPending /\ c.queue \in Seq(Outputs)
  /\ Head(c.queue) \in Outputs /\ Head(c.queue) = c.queue[1] /\ 1 \in DOMAIN c.queue

LEMMA WriteAtEnd ==
  ASSUME NEW c, Good(c), c.writing, NEW n \in c.put .. Len(c.log)
  PROVE  AtEnd(c, Ended(c, n), n)
<1>. DEFINE d == Ended(c, n)
<1>1. /\ Typed(c) /\ Others(c) /\ c.queue # <<>> /\ c.outputPending /\ c.outputFailure = FALSE
      /\ c.queue \in Seq(Outputs) /\ Head(c.queue) \in Outputs /\ Head(c.queue) = c.queue[1]
      /\ 1 \in DOMAIN c.queue /\ Len(c.log) \in Nat /\ c.put \in Nat
  BY DEF Good, Flow, Typed
<1>2. /\ DOMAIN d = Fields /\ Others(d)
      /\ d.session = c.session /\ d.kind = c.kind /\ d.reports = c.reports
      /\ d.outputPending = FALSE /\ d.writing = FALSE /\ d.outputFailure = FALSE
      /\ d.state = c.state /\ d.op = c.op /\ d.isPingPending = c.isPingPending
      /\ d.queue = Tail(c.queue)
  BY <1>1 DEF Ended, Typed, Others, Fields
<1>3. /\ d.got = c.got /\ d.put = n /\ d.at = c.at /\ d.avail = c.avail /\ d.log = c.log
      /\ d.failed = c.failed
  BY <1>1 DEF Ended, Typed, Fields
<1>. HIDE DEF d
<1>4. Typed(d)
  <2>1. n \in 0 .. Len(d.log)
    BY <1>1, <1>3
  <2>2. d.queue \in Seq(Outputs)
    BY <1>1, <1>2
  <2>. QED
    BY <1>1, <1>2, <1>3, <2>1, <2>2 DEF Typed
<1>5. Pings(d) /\ Telling(d)
  BY <1>2 DEF Good, Pings, Telling
<1>6. CloseQueued(d)
  BY <1>1, <1>2 DEF Good, CloseQueued
<1>7. Written(c, d, n)
  BY <1>1, <1>3 DEF Written
<1>. QED
  BY <1>1, <1>2, <1>3, <1>4, <1>5, <1>6, <1>7 DEF AtEnd, d

(* The close frame was the last of the queue.                              *)
LEMMA CloseEnds ==
  ASSUME NEW c, Good(c), c.writing, NEW n \in c.put .. Len(c.log), NEW ok \in BOOLEAN,
         Head(c.queue) = "closeOut"
  PROVE  LET f == SetReady(Ended(c, n), "closeOut")
         IN /\ Good(f) /\ Written(c, f, n) /\ Sets(Ended(c, n), f, "closeOut", "Ready")
            /\ Ended(c, n).queue = <<>> /\ onOutput(c, n, ok) = onProtocolDone(f)
<1>. DEFINE d == Ended(c, n)
            f == SetReady(d, "closeOut")
<1>0. AtEnd(c, d, n)
  BY WriteAtEnd
<1>. HIDE DEF d
<1>1. /\ Typed(d) /\ Others(d) /\ Pings(d) /\ Telling(d) /\ Written(c, d, n)
      /\ d.outputPending = FALSE /\ d.writing = FALSE
      /\ d.state = c.state /\ d.op = c.op /\ d.queue = Tail(c.queue) /\ d.log = c.log
      /\ c.queue # <<>> /\ c.queue \in Seq(Outputs)
      /\ Head(c.queue) = c.queue[1] /\ 1 \in DOMAIN c.queue
  BY <1>0 DEF AtEnd
<1>2. NextWrite(c, n, ok) = IF d.queue = <<>> THEN d ELSE onBeginOutput(d, ok)
  BY DEF NextWrite, d
<1>3. d.queue = <<>> /\ c.op["closeOut"] = "Pending" /\ c.state # "Open"
  <2>1. 1 = Len(c.queue) /\ c.op["closeOut"] = "Pending" /\ c.state # "Open"
    BY <1>1 DEF Good, CloseQueued
  <2>2. Tail(c.queue) = <<>>
    <3>1. Tail(c.queue) \in Seq(Outputs) /\ Len(Tail(c.queue)) = 0
      BY <1>1, <2>1
    <3>. QED
      BY <3>1, EmptySeq
  <2>. QED
    BY <1>1, <2>1, <2>2
<1>4. onOutput(c, n, ok) = onProtocolDone(f)
  <2>1. NextWrite(c, n, ok) = d /\ ~Threw(d, d, ok)
    BY <1>2, <1>3 DEF Threw
  <2>2. onOutput(c, n, ok) = EndOutput(d, "closeOut", FALSE)
    BY <2>1, OutputOver DEF d
  <2>. QED
    BY <1>1, <1>3, <2>2 DEF EndOutput, onOutputReady
<1>5. Sets(d, f, "closeOut", "Ready")
  BY <1>1, SetsTyped DEF Operations, Outputs
<1>. HIDE DEF f
<1>6. /\ f.op \in [Operations -> Stages] /\ f.op["closeOut"] = "Ready"
      /\ \A r \in Operations \ {"closeOut"} : f.op[r] = c.op[r]
  BY <1>1, <1>5 DEF Sets, Typed, Operations, Outputs, Stages
<1>7. Typed(f) /\ Others(f)
  BY <1>1, <1>5, <1>6 DEF Sets, Same, SameOutput, SameStream, Typed
<1>8. Flow(f)
  BY <1>1, <1>3, <1>5 DEF Flow, Sets, Same, SameOutput
<1>9. Pings(f) /\ Telling(f)
  BY <1>1, <1>5, <1>6 DEF Pings, Telling, Sets, Same, Operations, Outputs
<1>10. CloseQueued(f) /\ CloseWritten(f)
  <2>1. f.queue = <<>> /\ f.log = c.log /\ f.state = c.state
    BY <1>1, <1>3, <1>5 DEF Sets, Same, SameOutput, SameStream
  <2>. QED
    BY <1>6, <2>1 DEF Good, CloseQueued, CloseWritten
<1>11. Written(c, f, n)
  BY <1>1, <1>5 DEF Written, Sets, Same, SameStream
<1>12. Good(f)
  BY <1>7, <1>8, <1>9, <1>10 DEF Good
<1>. QED
  BY <1>3, <1>4, <1>5, <1>11, <1>12 DEF d, f

LEMMA NextBegins ==
  ASSUME NEW c, Good(c), c.writing, NEW n \in c.put .. Len(c.log), NEW ok \in BOOLEAN,
         Head(c.queue) # "closeOut"
  PROVE  LET d == Ended(c, n)
             e == NextWrite(c, n, ok)
         IN /\ Good(e) /\ Written(c, e, n)
            /\ IF d.queue = <<>> THEN e = d ELSE Between(d) /\ e = onBeginOutput(d, ok)
            /\ (Threw(d, e, ok) => ~e.writing)
<1>. DEFINE d == Ended(c, n)
            e == NextWrite(c, n, ok)
<1>0. AtEnd(c, d, n)
  BY WriteAtEnd
<1>. HIDE DEF d
<1>1. /\ Typed(d) /\ Others(d) /\ Pings(d) /\ Telling(d) /\ CloseQueued(d) /\ Written(c, d, n)
      /\ d.outputPending = FALSE /\ d.writing = FALSE /\ d.outputFailure = FALSE
      /\ d.log = c.log /\ c.queue # <<>> /\ Head(c.queue) = c.queue[1]
  BY <1>0 DEF AtEnd
<1>2. e = IF d.queue = <<>> THEN d ELSE onBeginOutput(d, ok)
  BY DEF NextWrite, d
<1>. HIDE DEF e
<1>3. NoClose(c) /\ NoClose(d)
  <2>1. c.queue # <<"closeOut">>
    BY <1>1
  <2>2. c.outputFailure = FALSE
    BY DEF Good, Flow, Typed
  <2>. QED
    BY <1>1, <2>1, <2>2 DEF Good, CloseWritten, NoClose
<1>4. CASE d.queue = <<>>
  <2>1. Flow(d) /\ CloseWritten(d)
    BY <1>1, <1>3, <1>4 DEF Flow, CloseWritten, NoClose
  <2>2. Good(d) /\ e = d
    BY <1>1, <1>2, <1>4, <2>1 DEF Good
  <2>. QED
    BY <1>1, <1>4, <2>2 DEF Threw, d, e
<1>5. CASE d.queue # <<>>
  <2>1. Between(d) /\ e = onBeginOutput(d, ok)
    BY <1>1, <1>2, <1>3, <1>5 DEF Between
  <2>2. Good(e) /\ Later(d, e) /\ e.writing = ok
    BY <2>1, Begins
  <2>3. Written(c, e, n)
    BY <1>1, <2>2 DEF Written, Later
  <2>. QED
    BY <1>5, <2>1, <2>2, <2>3 DEF Threw, d, e
<1>. QED
  BY <1>4, <1>5

LEMMA WriteEnds ==
  ASSUME NEW c, Good(c), c.writing, NEW n \in c.put .. Len(c.log), NEW ok \in BOOLEAN
  PROVE  LET d == onOutput(c, n, ok) IN Good(d) /\ Written(c, d, n)
<1>1. CASE Head(c.queue) = "closeOut"
  <2>. DEFINE f == SetReady(Ended(c, n), "closeOut")
  <2>1. Good(f) /\ Written(c, f, n) /\ onOutput(c, n, ok) = onProtocolDone(f)
    BY <1>1, CloseEnds
  <2>. HIDE DEF f
  <2>2. Good(onProtocolDone(f)) /\ Later(f, onProtocolDone(f))
    BY <2>1, IsDone
  <2>. QED
    BY <2>1, <2>2, WrittenLater
<1>2. CASE Head(c.queue) # "closeOut"
  <2>. DEFINE d == Ended(c, n)
              e == NextWrite(c, n, ok)
              f == EndOutput(e, Head(c.queue), FALSE)
  <2>1. Good(e) /\ Written(c, e, n) /\ (Threw(d, e, ok) => ~e.writing)
    BY <1>2, NextBegins
  <2>2. onOutput(c, n, ok) = IF Threw(d, e, ok) THEN onOutputError(e) ELSE f
    BY OutputOver
  <2>. HIDE DEF e
  <2>3. CASE Threw(d, e, ok)
    <3>1. Good(onOutputError(e)) /\ Later(e, onOutputError(e))
      BY <2>1, <2>3, OutputFails
    <3>. QED
      BY <2>1, <2>2, <2>3, <3>1, WrittenLater
  <2>4. CASE ~Threw(d, e, ok)
    <3>1. Head(c.queue) \in Outputs
      BY WriteAtEnd DEF AtEnd
    <3>2. Good(f) /\ Later(e, f)
      BY <1>2, <2>1, <3>1, EndsOutput
    <3>. HIDE DEF f
    <3>. QED
      BY <2>1, <2>2, <2>4, <3>2, WrittenLater
  <2>. QED
    BY <2>3, <2>4
<1>. QED
  BY <1>1, <1>2

-----------------------------------------------------------------------------
(* Input.                                                                  *)

(* What an end does to the loop that reads frames, to a write that has     *)
(* failed and to the frame of the next send.                               *)
Elsewhere(c, d) ==
  /\ DOMAIN d = Fields /\ Others(d)
  /\ d.session = c.session /\ d.reports = c.reports
  /\ d.kind \in DataKinds \cup {"data"}
  /\ d.state = c.state /\ d.op = c.op /\ d.isPingPending = c.isPingPending
  /\ d.queue = c.queue /\ d.outputPending = c.outputPending /\ d.outputFailure = c.outputFailure
  /\ d.writing \in {c.writing, FALSE}
  /\ d.at \in Places /\ d.avail \in Nat /\ d.got \in Nat
  /\ d.put = c.put /\ d.log = c.log

LEMMA ElsewhereGood ==
  ASSUME NEW c, Good(c), NEW d, Elsewhere(c, d)
  PROVE  Good(d)
<1>1. Typed(d) /\ Others(d)
  BY DEF Good, Typed, Elsewhere
<1>2. Flow(d) /\ Pings(d)
  BY DEF Good, Flow, Pings, Elsewhere
<1>3. CloseQueued(d)
  BY DEF Good, CloseQueued, Elsewhere
<1>4. CloseWritten(d)
  BY DEF Good, CloseWritten, Elsewhere
<1>5. Telling(d)
  BY DEF Good, Telling, Elsewhere
<1>. QED
  BY <1>1, <1>2, <1>3, <1>4, <1>5 DEF Good

LEMMA InputFails ==
  ASSUME NEW c, Good(c)
  PROVE  LET d == onInputError(c) IN Good(d) /\ Later(c, d)
<1>. DEFINE b == [c EXCEPT !.inputFailure = TRUE]
<1>1. Core(c, b)
  BY DEF Good, Typed, Others, Fields, Core, Same, SameOutput, SameStream
<1>2. Good(b) /\ Later(c, b)
  BY <1>1, SameCore
<1>3. onInputError(c) \in {c, SetError(b, "receive"), FailShutdown(b, "unread")}
  BY DEF onInputError
<1>. HIDE DEF b
<1>4. Good(c) /\ Later(c, c)
  BY CoreItself, SameCore
<1>5. Good(SetError(b, "receive")) /\ Later(b, SetError(b, "receive"))
  BY <1>2, SetsStage, SetsGood DEF Operations, Stages
<1>6. Good(FailShutdown(b, "unread")) /\ Later(b, FailShutdown(b, "unread"))
  BY <1>2, ShutdownFails
<1>. QED
  BY <1>2, <1>3, <1>4, <1>5, <1>6, LaterTwice

LEMMA PingHeard ==
  ASSUME NEW c, Good(c), NEW ok \in BOOLEAN
  PROVE  LET d == onPing(c, ok) IN Good(d) /\ Later(c, d) /\ d.state = c.state
<1>. DEFINE b == begin(c, "pong")
<1>1. CASE c.state # "Open" \/ c.op["pong"] = "Pending"
  BY <1>1, CoreItself, SameCore DEF onPing
<1>2. CASE ~(c.state # "Open" \/ c.op["pong"] = "Pending")
  <2>1. Sets(c, b, "pong", "Pending")
    BY SetsStage DEF Operations, Outputs
  <2>2. Good(b) /\ Later(c, b) /\ b.state = c.state
    BY <2>1, SetsGood DEF Operations, Outputs, Stages, Sets
  <2>. HIDE DEF b
  <2>3. LET d == enqueue(b, "pong", ok) IN Good(d) /\ Later(b, d) /\ d.state = b.state
    BY <1>2, <2>2, Enqueues DEF Outputs
  <2>4. onPing(c, ok) = enqueue(b, "pong", ok)
    BY <1>2 DEF onPing, b
  <2>. QED
    BY <2>2, <2>3, <2>4, LaterTwice
<1>. QED
  BY <1>1, <1>2

LEMMA PeerCloses ==
  ASSUME NEW c, Good(c), c.state \in {"Open", "CloseSent"}, NEW ok \in BOOLEAN
  PROVE  LET d == onPeerClose(c, ok) IN Good(d) /\ Later(c, d)
<1>. DEFINE b == setCloseCode(c, "peer")
            d == onProtocolFinished(b)
            e == enqueueClose(d, ok)
<1>1. Core(c, b) /\ Good(b) /\ Later(c, b)
  BY SetCode, SameCore DEF Codes
<1>2. b.state \in {"Open", "CloseSent"}
  BY <1>1 DEF Core
<1>. HIDE DEF b
<1>3. Good(d) /\ Later(b, d) /\ d.state = "Finish"
  BY <1>1, <1>2, Finishes
<1>. HIDE DEF d
<1>4. Good(e) /\ Later(d, e)
  BY <1>3, EnqueuesClose
<1>5. Later(c, e)
  BY <1>1, <1>3, <1>4, LaterTwice
<1>6. onPeerClose(c, ok) \in {onInputError(e), onProtocolDone(e)}
  BY DEF onPeerClose, d, b
<1>. HIDE DEF e
<1>7. Good(onInputError(e)) /\ Later(e, onInputError(e))
  BY <1>4, InputFails
<1>8. Good(onProtocolDone(e)) /\ Later(e, onProtocolDone(e))
  BY <1>4, IsDone
<1>. QED
  BY <1>4, <1>5, <1>6, <1>7, <1>8, LaterTwice

LEMMA ReceiveFails ==
  ASSUME NEW c, Good(c), c.state = "Finish", c.op["shutdown"] # "Pending"
  PROVE  LET d == [SetError(c, "receive") EXCEPT !.state = "Done", !.reports = Append(@, "receive")]
         IN Good(d) /\ Later(c, d)
<1>. DEFINE h == SetError(c, "receive")
            f == [h EXCEPT !.state = "Done"]
            g == [f EXCEPT !.reports = Append(@, "receive")]
            d == [h EXCEPT !.state = "Done", !.reports = Append(@, "receive")]
<1>1. Sets(c, h, "receive", "Ready")
  BY SetsStage DEF Operations
<1>. HIDE DEF h
<1>2. Good(h) /\ Later(c, h) /\ h.state = "Finish" /\ h.op["shutdown"] # "Pending"
  <2>1. "receive" \in Operations /\ "shutdown" \in Operations /\ "Ready" \in Stages
    BY DEF Operations, Stages
  <2>2. /\ Good(h) /\ Later(c, h)
        /\ \A r \in Operations : h.op[r] = IF r = "receive" THEN "Ready" ELSE c.op[r]
    BY <1>1, <2>1, SetsGood
  <2>. QED
    BY <1>1, <2>1, <2>2 DEF Sets
<1>3. Same(h, f) /\ f.state = "Done" /\ f.isPingPending = h.isPingPending /\ f.op = h.op
  BY <1>2 DEF Good, Typed, Others, Fields, Same, SameOutput, SameStream
<1>4. Good(f) /\ Later(h, f) /\ Untold(f)
  BY <1>2, <1>3, DoneGood
<1>5. g = d
  BY <1>2 DEF Good, Typed, Fields
<1>. HIDE DEF f, d
<1>6. Good(g) /\ Later(f, g)
  BY <1>3, <1>4, Report1 DEF ReportKinds
<1>. HIDE DEF g
<1>7. Good(d) /\ Later(c, d)
  BY <1>2, <1>4, <1>5, <1>6, LaterTwice
<1>. QED
  BY <1>7 DEF d, h

LEMMA ProtocolFails ==
  ASSUME NEW c, Good(c), NEW ok \in BOOLEAN
  PROVE  LET d == onProtocolError(c, ok) IN Good(d) /\ Later(c, d)
<1>. DEFINE a == setCloseCode(c, "1002")
            b == [a EXCEPT !.inputFailure = TRUE]
            d == onProtocolFinished(b)
            e == enqueueClose(d, ok)
            g == [SetError(e, "receive") EXCEPT !.state = "Done", !.reports = Append(@, "receive")]
<1>1. CASE c.state # "Open"
  BY <1>1, CoreItself, SameCore DEF onProtocolError
<1>2. CASE c.state = "Open"
  <2>1. Core(c, a) /\ Good(a) /\ Later(c, a)
    BY SetCode, SameCore DEF Codes
  <2>2. onProtocolError(c, ok) \in {e, g, onProtocolDone(e)}
    BY <1>2 DEF onProtocolError
  <2>. HIDE DEF a
  <2>3. Core(a, b) /\ Good(b) /\ Later(a, b)
    <3>1. Core(a, b)
      BY <2>1 DEF Good, Typed, Others, Fields, Core, Same, SameOutput, SameStream
    <3>. QED
      BY <2>1, <3>1, SameCore
  <2>4. b.state = "Open" /\ b.op["shutdown"] # "Pending"
    BY <1>2, <2>1, <2>3 DEF Core, Good, Telling
  <2>. HIDE DEF b
  <2>5. Good(d) /\ Later(b, d) /\ d.state = "Finish" /\ d.op = b.op
    BY <2>3, <2>4, Finishes
  <2>. HIDE DEF d
  <2>6. Good(e) /\ Later(d, e) /\ e.state = "Finish" /\ e.op["shutdown"] = d.op["shutdown"]
    BY <2>5, EnqueuesClose DEF Operations
  <2>7. Later(c, e)
    BY <2>1, <2>3, <2>5, <2>6, LaterTwice
  <2>. HIDE DEF e
  <2>8. Good(g) /\ Later(e, g)
    BY <2>4, <2>5, <2>6, ReceiveFails
  <2>9. Good(onProtocolDone(e)) /\ Later(e, onProtocolDone(e))
    BY <2>6, IsDone
  <2>. QED
    BY <2>2, <2>6, <2>7, <2>8, <2>9, LaterTwice
<1>. QED
  BY <1>1, <1>2

(* The loop goes on only while frames are read.                            *)
Importing(c) == c.at # "idle" => c.avail = 0 \/ c.state \in {"Open", "CloseSent"}

Forward(c, d) ==
  d.got = c.got /\ d.put = c.put /\ d.avail \in {c.avail, 0} /\ Len(d.log) >= Len(c.log)

LEMMA FrameRead ==
  ASSUME NEW c, Good(c), c.state \in {"Open", "CloseSent"}, NEW f \in FrameKinds, NEW ok \in BOOLEAN
  PROVE  LET d == onFrame(c, f, ok) IN Good(d) /\ Forward(c, d) /\ Importing(d)
<1>. DEFINE h == Heard(c)
            leave == [c EXCEPT !.at = "idle"]
<1>1. Core(c, h) /\ Good(h) /\ Later(c, h) /\ h.state \in {"Open", "CloseSent"}
  <2>1. Core(c, h)
    BY DEF Heard, Good, Typed, Others, Fields, Core, Same, SameOutput, SameStream
  <2>. QED
    BY <2>1, SameCore DEF Core
<1>2. /\ Good(leave) /\ leave.at = "idle" /\ leave.state = c.state
      /\ leave.got = c.got /\ leave.put = c.put /\ leave.avail = c.avail /\ leave.log = c.log
  <2>1. Elsewhere(c, leave) /\ leave.at = "idle"
    BY DEF Good, Typed, Others, Fields, Elsewhere, Places
  <2>2. leave.avail = c.avail /\ leave.got = c.got
    BY DEF Good, Typed, Fields
  <2>. QED
    BY <2>1, <2>2, ElsewhereGood DEF Elsewhere
<1>3. CASE f = "ping"
  <2>. DEFINE d == onPing(h, ok)
              e == [d EXCEPT !.at = "idle"]
  <2>1. Good(d) /\ Later(h, d) /\ d.state = h.state
    BY <1>1, PingHeard
  <2>2. onFrame(c, f, ok) \in {d, onInputError(e)}
    BY <1>3 DEF onFrame
  <2>3. Forward(c, d) /\ Importing(d)
    BY <1>1, <2>1 DEF Forward, Importing, Core, Same, SameStream, Later
  <2>. HIDE DEF d
  <2>4. /\ Good(e) /\ e.at = "idle" /\ e.got = d.got /\ e.put = d.put /\ e.avail = d.avail
        /\ e.log = d.log
    <3>1. Elsewhere(d, e)
      BY <2>1 DEF Good, Typed, Others, Fields, Elsewhere, Places
    <3>2. e.at = "idle" /\ e.avail = d.avail /\ e.got = d.got
      BY <2>1 DEF Good, Typed, Fields
    <3>. QED
      BY <2>1, <3>1, <3>2, ElsewhereGood DEF Elsewhere
  <2>. HIDE DEF e
  <2>5. Good(onInputError(e)) /\ Later(e, onInputError(e))
    BY <2>4, InputFails
  <2>6. Forward(c, onInputError(e)) /\ Importing(onInputError(e))
    BY <2>1, <2>3, <2>4, <2>5 DEF Forward, Importing, Later, Good, Typed
  <2>. QED
    BY <2>1, <2>2, <2>3, <2>5, <2>6
<1>4. CASE f = "pong"
  <2>. DEFINE d == [h EXCEPT !.clocks = @ \ {"ping"}, !.at = "slot"]
  <2>1. onFrame(c, f, ok) = d
    BY <1>4 DEF onFrame
  <2>. HIDE DEF h
  <2>2. Elsewhere(h, d)
    BY <1>1 DEF Good, Typed, Others, Fields, Elsewhere, Places
  <2>3. d.avail = h.avail /\ d.got = h.got
    BY <1>1 DEF Good, Typed, Fields
  <2>. QED
    BY <1>1, <2>1, <2>2, <2>3, ElsewhereGood DEF Elsewhere, Forward, Importing, Later
<1>5. CASE f = "data"
  <2>. DEFINE r == SetReady(h, "receive")
              d == [r EXCEPT !.at = "slot"]
  <2>1. onFrame(c, f, ok) = onData(h)
    BY <1>5 DEF onFrame
  <2>2. onData(h) \in {h, d}
    BY DEF onData
  <2>. HIDE DEF h
  <2>3. Sets(h, r, "receive", "Ready")
    BY <1>1, SetsStage DEF Operations
  <2>. HIDE DEF r
  <2>4. Good(r) /\ Later(h, r) /\ r.state = h.state
    <3>1. "receive" \in Operations /\ "Ready" \in Stages
      BY DEF Operations, Stages
    <3>2. Good(r) /\ Later(h, r)
      BY <1>1, <2>3, <3>1, SetsGood
    <3>. QED
      BY <2>3, <3>2 DEF Sets
  <2>5. Elsewhere(r, d)
    BY <2>4 DEF Good, Typed, Others, Fields, Elsewhere, Places
  <2>6. d.avail = r.avail /\ d.got = r.got
    BY <2>4 DEF Good, Typed, Fields
  <2>. HIDE DEF d
  <2>7. Good(d) /\ d.state = h.state
    BY <2>4, <2>5, ElsewhereGood DEF Elsewhere
  <2>8. Later(c, r)
    BY <1>1, <2>4, LaterTwice
  <2>9. Forward(c, d) /\ Importing(d)
    BY <1>1, <2>5, <2>6, <2>7, <2>8 DEF Elsewhere, Forward, Importing, Later
  <2>10. Forward(c, h) /\ Importing(h)
    BY <1>1 DEF Forward, Importing, Later
  <2>. QED
    BY <1>1, <2>1, <2>2, <2>7, <2>9, <2>10
<1>6. CASE f = "big"
  <2>1. onFrame(c, f, ok) = onProtocolError(leave, ok)
    BY <1>6 DEF onFrame
  <2>. HIDE DEF leave
  <2>2. Good(onProtocolError(leave, ok)) /\ Later(leave, onProtocolError(leave, ok))
    BY <1>2, ProtocolFails
  <2>. QED
    BY <1>2, <2>1, <2>2 DEF Forward, Importing, Later
<1>7. CASE f = "close"
  <2>1. onFrame(c, f, ok) = onPeerClose(leave, ok)
    BY <1>7 DEF onFrame
  <2>. HIDE DEF leave
  <2>2. Good(onPeerClose(leave, ok)) /\ Later(leave, onPeerClose(leave, ok))
    BY <1>2, PeerCloses
  <2>. QED
    BY <1>2, <2>1, <2>2 DEF Forward, Importing, Later
<1>. QED
  BY <1>3, <1>4, <1>5, <1>6, <1>7 DEF FrameKinds

-----------------------------------------------------------------------------
(* The invariant of the two ends: no more is read than was written.        *)

Reads(p, c) == c.got + c.avail <= ch[Other(p)].put

IInv ==
  /\ DOMAIN ch = Peers
  /\ \A p \in Peers : Good(ch[p]) /\ Importing(ch[p]) /\ Reads(p, ch[p])

(* A step of p that keeps it.                                              *)
Steps(p) ==
  \E c : Becomes(p, c) /\ Good(c) /\ Importing(c) /\ Reads(p, c) /\ c.put >= ch[p].put

LEMMA Ends ==
  ASSUME NEW p \in Peers
  PROVE  Other(p) \in Peers /\ Other(p) # p /\ Peers = {p, Other(p)} /\ Other(Other(p)) = p
<1>1. PICK a, b \in Peers : a # b /\ Peers = {a, b}
  BY WebSocketAssumption
<1>2. Other(p) \in Peers /\ Other(p) # p
  BY <1>1 DEF Other
<1>3. Other(Other(p)) \in Peers /\ Other(Other(p)) # Other(p)
  BY <1>1, <1>2 DEF Other
<1>. HIDE DEF Other
<1>. QED
  BY <1>1, <1>2, <1>3

LEMMA Counters ==
  ASSUME NEW c, Good(c)
  PROVE  /\ c.got \in Nat /\ c.avail \in Nat /\ c.put \in Nat /\ Len(c.log) \in Nat
         /\ c.put <= Len(c.log)
<1>1. c.log \in Seq(FrameKinds) /\ c.put \in 0 .. Len(c.log) /\ c.got \in Nat /\ c.avail \in Nat
  BY DEF Good, Typed
<1>. QED
  BY <1>1

LEMMA StepsKeep ==
  ASSUME IInv, NEW p \in Peers, Steps(p)
  PROVE  IInv'
<1>1. PICK c : /\ ch' = [ch EXCEPT ![p] = c]
               /\ Good(c) /\ Importing(c) /\ Reads(p, c) /\ c.put >= ch[p].put
  BY DEF Steps, Becomes
<1>. DEFINE q == Other(p)
<1>2. q \in Peers /\ q # p /\ Peers = {p, q} /\ Other(q) = p
  BY Ends
<1>3. DOMAIN ch' = Peers /\ ch'[p] = c /\ ch'[q] = ch[q]
  BY <1>1, <1>2 DEF IInv
<1>4. Good(ch[q]) /\ Importing(ch[q]) /\ ch[q].got + ch[q].avail <= ch[p].put
  BY <1>2 DEF IInv, Reads
<1>5. c.got + c.avail <= ch[q].put
  BY <1>1 DEF Reads
<1>6. ch[q].got + ch[q].avail <= c.put
  <2>1. /\ ch[q].got \in Nat /\ ch[q].avail \in Nat /\ ch[p].put \in Nat /\ c.put \in Nat
    BY <1>1, <1>4, Counters DEF IInv
  <2>. QED
    BY <1>1, <1>4, <2>1
<1>. HIDE DEF q
<1>7. /\ Good(ch'[p]) /\ Importing(ch'[p]) /\ ch'[p].got + ch'[p].avail <= ch'[q].put
      /\ Good(ch'[q]) /\ Importing(ch'[q]) /\ ch'[q].got + ch'[q].avail <= ch'[p].put
  BY <1>1, <1>3, <1>4, <1>5, <1>6
<1>8. \A r \in Peers : Good(ch'[r]) /\ Importing(ch'[r]) /\ ch'[r].got + ch'[r].avail <= ch'[Other(r)].put
  <2>1. q = Other(p) /\ \A r \in Peers : r = p \/ r = q
    BY <1>2 DEF q
  <2>. QED
    BY <1>2, <1>7, <2>1
<1>9. IInv' <=> /\ DOMAIN ch' = Peers
                /\ \A r \in Peers : /\ Good(ch'[r]) /\ Importing(ch'[r])
                                    /\ ch'[r].got + ch'[r].avail <= ch'[Other(r)].put
  BY DEF IInv, Reads
<1>. QED
  BY <1>3, <1>8, <1>9

LEMMA ForwardSteps ==
  ASSUME IInv, NEW p \in Peers, NEW c, Good(c), Forward(ch[p], c), Importing(c), Becomes(p, c)
  PROVE  Steps(p)
<1>1. Reads(p, ch[p]) /\ Good(ch[p]) /\ Other(p) \in Peers /\ Good(ch[Other(p)])
  BY Ends DEF IInv
<1>2. /\ ch[p].got \in Nat /\ ch[p].avail \in Nat /\ ch[p].put \in Nat
      /\ ch[Other(p)].put \in Nat
  BY <1>1, Counters
<1>3. Reads(p, c) /\ c.put >= ch[p].put
  BY <1>1, <1>2 DEF Reads, Forward
<1>. QED
  BY <1>3 DEF Steps

LEMMA LaterSteps ==
  ASSUME IInv, NEW p \in Peers, NEW c, Good(c), Later(ch[p], c), Becomes(p, c),
         ch[p].at = "idle" \/ c.state \in {"Open", "CloseSent"}
  PROVE  Steps(p)
<1>1. Forward(ch[p], c) /\ Importing(c)
  BY DEF Later, Forward, Importing
<1>. QED
  BY <1>1, ForwardSteps

LEMMA MayThrow ==
  ASSUME NEW p \in Peers
  PROVE  Outcomes(p) \subseteq BOOLEAN
BY DEF Outcomes

LEMMA OpenedGood ==
  ASSUME NEW p \in Peers
  PROVE  Good(Opened(p)) /\ Importing(Opened(p)) /\ Opened(p).got + Opened(p).avail <= Opened(Other(p)).put
<1>. DEFINE c == Opened(p)
            idle == [o \in Operations |-> "Idle"]
<1>1. idle \in [Operations -> Stages] /\ \A o \in Operations : idle[o] = "Idle"
  BY DEF Stages
<1>. HIDE DEF idle
<1>2. /\ DOMAIN c = Fields /\ c.session \in BOOLEAN /\ c.state = "Open" /\ c.op = idle
      /\ c.queue = <<>> /\ c.kind = "data" /\ c.outputPending = FALSE /\ c.writing = FALSE
      /\ c.outputFailure = FALSE /\ c.isPingPending = FALSE
      /\ c.log = <<>> /\ c.reports = <<>> /\ c.at = "idle"
  BY DEF Opened, Fields, idle
<1>3. /\ c.durations = Clocks[p] /\ c.clocks = Clocks[p] \cap {"idle", "delay"} /\ c.error = {}
      /\ c.inputPending = FALSE /\ c.reading = FALSE /\ c.inputFailure = FALSE /\ c.failed = FALSE
      /\ c.closeCode = "none" /\ c.avail = 0 /\ c.got = 0 /\ c.put = 0
  BY DEF Opened
<1>4. Opened(Other(p)).put = 0
  BY DEF Opened
<1>. HIDE DEF c
<1>5. Typed(c)
  <2>1. Len(c.log) = 0 /\ c.log \in Seq(FrameKinds) /\ c.reports \in Seq(ReportKinds)
        /\ c.queue \in Seq(Outputs) /\ c.put \in 0 .. Len(c.log) /\ c.avail \in Nat /\ c.got \in Nat
    BY <1>2, <1>3
  <2>. QED
    BY <1>1, <1>2, <1>3, <2>1 DEF Typed, States, Places
<1>6. Others(c)
  BY <1>3 DEF Others, Codes, AllClocks
<1>7. Flow(c) /\ Pings(c) /\ CloseQueued(c) /\ CloseWritten(c) /\ Telling(c)
  BY <1>1, <1>2 DEF Flow, Pings, CloseQueued, CloseWritten, Telling, Operations, Outputs
<1>. QED
  BY <1>2, <1>3, <1>4, <1>5, <1>6, <1>7 DEF Good, Importing, c

LEMMA InitInvariant ==
  ASSUME Init
  PROVE  IInv
<1>1. DOMAIN ch = Peers /\ \A p \in Peers : ch[p] = Opened(p)
  BY DEF Init
<1>. QED
  BY <1>1, Ends, OpenedGood DEF IInv, Reads

-----------------------------------------------------------------------------
(* The steps of the event loop.                                            *)

LEMMA InputStep ==
  ASSUME IInv, NEW p \in Peers, onInput(p) \/ onInputEof(p) \/ onInputThrows(p) \/ return(p)
  PROVE  Steps(p)
<1>. DEFINE c == ch[p]
            i == EndInput(c)
<1>1. Good(c) /\ Importing(c) /\ Reads(p, c)
  BY DEF IInv
<1>2. c.got \in Nat /\ c.avail \in Nat /\ c.put \in Nat /\ ch[Other(p)].put \in Nat
  BY <1>1, Ends, Counters DEF IInv
<1>3. /\ Elsewhere(c, i) /\ Good(i) /\ i.got = c.got /\ i.avail = c.avail
      /\ i.at = c.at \/ i.state \in {"Open", "CloseSent"}
  <2>1. Elsewhere(c, i)
    BY <1>1 DEF EndInput, Good, Typed, Others, Fields, Elsewhere, Places
  <2>2. i.got = c.got /\ i.avail = c.avail /\ (i.at = c.at \/ i.state \in {"Open", "CloseSent"})
    BY <1>1 DEF EndInput, Good, Typed, Fields
  <2>. QED
    BY <1>1, <2>1, <2>2, ElsewhereGood
<1>4. CASE onInput(p)
  <2>1. PICK n \in 1 .. Unread(p) : Becomes(p, [i EXCEPT !.avail = @ + n])
    BY <1>4 DEF onInput
  <2>. DEFINE d == [i EXCEPT !.avail = @ + n]
  <2>2. c.at = "idle"
    BY <1>4 DEF onInput
  <2>. HIDE DEF i
  <2>3. Elsewhere(i, d) /\ d.got = c.got /\ d.avail = c.avail + n /\ d.at = i.at
    BY <1>2, <1>3 DEF Good, Typed, Others, Fields, Elsewhere
  <2>4. Good(d) /\ Importing(d)
    BY <1>3, <2>2, <2>3, ElsewhereGood DEF Importing, Elsewhere
  <2>5. Reads(p, d) /\ d.put >= c.put
    BY <1>2, <1>3, <2>3 DEF Reads, Unread, Elsewhere
  <2>. QED
    BY <2>1, <2>4, <2>5 DEF Steps
<1>5. CASE onInputEof(p)
  <2>. DEFINE e == [i EXCEPT !.at = "idle"]
              d == onProtocolAborted(e)
  <2>1. Becomes(p, d) /\ c.at = "idle"
    BY <1>5 DEF onInputEof
  <2>. HIDE DEF i
  <2>2. Elsewhere(i, e) /\ e.got = c.got /\ e.avail = c.avail /\ e.at = "idle"
    BY <1>3 DEF Good, Typed, Others, Fields, Elsewhere, Places
  <2>3. Good(e)
    BY <1>3, <2>2, ElsewhereGood
  <2>. HIDE DEF e
  <2>4. Good(d) /\ Later(e, d)
    BY <2>3, Aborts
  <2>5. Later(c, d)
    BY <1>3, <2>1, <2>2, <2>4 DEF Elsewhere, Later
  <2>. QED
    BY <2>1, <2>4, <2>5, LaterSteps
<1>6. CASE onInputThrows(p)
  <2>. DEFINE e == [c EXCEPT !.reading = FALSE]
              d == onInputError(e)
  <2>1. Becomes(p, d) /\ c.at = "idle"
    BY <1>6 DEF onInputThrows
  <2>2. Core(c, e)
    BY <1>1 DEF Good, Typed, Others, Fields, Core, Same, SameOutput, SameStream
  <2>3. Good(e) /\ Later(c, e)
    BY <1>1, <2>2, SameCore
  <2>. HIDE DEF e
  <2>4. Good(d) /\ Later(e, d)
    BY <2>3, InputFails
  <2>. HIDE DEF d
  <2>5. Later(c, d)
    BY <1>1, <2>3, <2>4, LaterTwice
  <2>. QED
    BY <2>1, <2>4, <2>5, LaterSteps
<1>7. CASE return(p)
  <2>. DEFINE d == [c EXCEPT !.at = "import"]
  <2>1. Becomes(p, d) /\ c.at = "slot"
    BY <1>7 DEF return
  <2>2. Elsewhere(c, d) /\ d.got = c.got /\ d.avail = c.avail
    BY <1>1 DEF Good, Typed, Others, Fields, Elsewhere, Places
  <2>. HIDE DEF d
  <2>3. Good(d)
    BY <1>1, <2>2, ElsewhereGood
  <2>4. Importing(d)
    BY <1>1, <2>1, <2>2 DEF Importing, Elsewhere
  <2>5. Forward(c, d)
    BY <1>2, <2>2 DEF Forward, Elsewhere
  <2>. QED
    BY <2>1, <2>3, <2>4, <2>5, ForwardSteps
<1>. QED
  BY <1>4, <1>5, <1>6, <1>7

LEMMA ImportStep ==
  ASSUME IInv, NEW p \in Peers, import(p)
  PROVE  Steps(p)
<1>. DEFINE c == ch[p]
<1>1. Good(c) /\ Importing(c) /\ Reads(p, c) /\ c.at = "import"
  BY DEF IInv, import
<1>2. c.got \in Nat /\ c.avail \in Nat /\ c.put \in Nat
  BY <1>1, Counters
<1>3. CASE c.avail = 0
  <2>. DEFINE b == [c EXCEPT !.at = "idle", !.inputPending = FALSE]
              d == onBeginInput(b)
  <2>1. Becomes(p, d)
    BY <1>2, <1>3 DEF import
  <2>2. Elsewhere(c, b) /\ b.got = c.got /\ b.avail = c.avail /\ b.at = "idle"
    BY <1>1 DEF Good, Typed, Others, Fields, Elsewhere, Places
  <2>. HIDE DEF b
  <2>3. Good(b)
    BY <1>1, <2>2, ElsewhereGood
  <2>4. Good(d) /\ Later(b, d)
    BY <2>3, BeginInput, SameCore
  <2>. HIDE DEF d
  <2>5. Importing(d) /\ Forward(c, d)
    BY <2>2, <2>4 DEF Importing, Forward, Later, Elsewhere
  <2>. QED
    BY <2>1, <2>4, <2>5, ForwardSteps
<1>4. CASE c.avail > 0
  <2>. DEFINE b == [c EXCEPT !.avail = @ - 1, !.got = @ + 1]
              f == ch[Other(p)].log[c.got + 1]
  <2>1. PICK ok \in Outcomes(p) : Becomes(p, onFrame(b, f, ok))
    BY <1>4, <1>2 DEF import
  <2>2. Elsewhere(c, b) /\ b.got = c.got + 1 /\ b.avail = c.avail - 1
    BY <1>1, <1>2, <1>4 DEF Good, Typed, Others, Fields, Elsewhere
  <2>. HIDE DEF b
  <2>3. Good(b) /\ b.state \in {"Open", "CloseSent"}
    <3>1. c.state \in {"Open", "CloseSent"}
      BY <1>1, <1>4 DEF Importing
    <3>. QED
      BY <1>1, <2>2, <3>1, ElsewhereGood DEF Elsewhere
  <2>4. f \in FrameKinds
    <3>1. Good(ch[Other(p)])
      BY Ends DEF IInv
    <3>2. c.got + 1 \in 1 .. Len(ch[Other(p)].log)
      BY <1>1, <1>2, <1>4, <3>1, Counters DEF Reads
    <3>. QED
      BY <3>1, <3>2 DEF Good, Typed
  <2>. HIDE DEF f
  <2>. DEFINE d == onFrame(b, f, ok)
  <2>5. Good(d) /\ Forward(b, d) /\ Importing(d)
    BY <2>1, <2>3, <2>4, MayThrow, FrameRead
  <2>. HIDE DEF d
  <2>6. Reads(p, d) /\ d.put >= c.put
    <3>1. ch[Other(p)].put \in Nat
      BY Ends, Counters DEF IInv
    <3>2. d.got = c.got + 1 /\ d.avail \in {c.avail - 1, 0} /\ d.put = c.put
      BY <2>2, <2>5 DEF Forward, Elsewhere
    <3>. QED
      BY <1>1, <1>2, <1>4, <3>1, <3>2 DEF Reads
  <2>. QED
    BY <2>1, <2>5, <2>6 DEF Steps, d
<1>. QED
  BY <1>2, <1>3, <1>4

LEMMA OutputStep ==
  ASSUME IInv, NEW p \in Peers, Output(p)
  PROVE  Steps(p)
<1>. DEFINE c == ch[p]
<1>1. Good(c) /\ Reads(p, c) /\ c.at = "idle" /\ c.writing
  BY DEF IInv, Output, onOutputEnd, onOutputThrows
<1>2. /\ c.got \in Nat /\ c.avail \in Nat /\ c.put \in Nat /\ Len(c.log) \in Nat
      /\ c.put <= Len(c.log) /\ ch[Other(p)].put \in Nat
  BY <1>1, Ends, Counters DEF IInv
<1>3. CASE onOutputEnd(p)
  <2>1. PICK n \in c.put .. Len(c.log), ok \in Outcomes(p) : Becomes(p, onOutput(c, n, ok))
    BY <1>2, <1>3 DEF onOutputEnd
  <2>. DEFINE d == onOutput(c, n, ok)
  <2>2. Good(d) /\ Written(c, d, n)
    BY <1>1, <2>1, MayThrow, WriteEnds
  <2>. HIDE DEF d
  <2>3. Importing(d) /\ Reads(p, d) /\ d.put >= c.put
    BY <1>1, <1>2, <2>1, <2>2 DEF Importing, Reads, Written
  <2>. QED
    BY <2>1, <2>2, <2>3 DEF Steps, d
<1>4. CASE onOutputThrows(p)
  <2>. DEFINE b == [c EXCEPT !.writing = FALSE, !.failed = TRUE]
              d == onOutputError(b)
  <2>1. Becomes(p, d)
    BY <1>4 DEF onOutputThrows
  <2>2. Elsewhere(c, b) /\ b.writing = FALSE /\ b.got = c.got /\ b.avail = c.avail /\ b.at = c.at
    BY <1>1 DEF Good, Typed, Others, Fields, Elsewhere
  <2>. HIDE DEF b
  <2>3. Good(d) /\ Later(b, d)
    BY <1>1, <2>2, ElsewhereGood, OutputFails
  <2>. HIDE DEF d
  <2>4. Later(c, d)
    BY <2>2, <2>3 DEF Later, Elsewhere
  <2>. QED
    BY <1>1, <2>1, <2>3, <2>4, LaterSteps
<1>. QED
  BY <1>3, <1>4 DEF Output

-----------------------------------------------------------------------------
(* The calls of the application and the clocks.                            *)

LEMMA SendStep ==
  ASSUME IInv, NEW p \in Peers, beginSend(p)
  PROVE  Steps(p)
<1>. DEFINE c == ch[p]
            b == begin(c, "send")
<1>1. Good(c) /\ c.state = "Open"
  BY DEF IInv, beginSend
<1>2. PICK k \in DataKinds, ok \in Outcomes(p) :
        Becomes(p, enqueue([b EXCEPT !.kind = k], "send", ok))
  BY DEF beginSend
<1>. DEFINE a == [b EXCEPT !.kind = k]
            d == enqueue(a, "send", ok)
<1>3. "send" \in Operations /\ "Pending" \in Stages /\ "send" \in Outputs
  BY DEF Operations, Outputs, Stages
<1>4. Sets(c, b, "send", "Pending")
  BY <1>1, <1>3, SetsStage
<1>. HIDE DEF b
<1>5. Good(b) /\ Later(c, b) /\ b.state = "Open"
  BY <1>1, <1>3, <1>4, SetsGood DEF Sets
<1>6. Elsewhere(b, a) /\ a.got = b.got /\ a.avail = b.avail /\ a.at = b.at
  BY <1>2, <1>5 DEF Good, Typed, Others, Fields, Elsewhere
<1>. HIDE DEF a
<1>7. Good(a) /\ a.state = "Open"
  BY <1>5, <1>6, ElsewhereGood DEF Elsewhere
<1>8. Later(c, a)
  BY <1>5, <1>6 DEF Elsewhere, Later
<1>9. Good(d) /\ Later(a, d) /\ d.state = "Open"
  BY <1>2, <1>3, <1>7, MayThrow, Enqueues
<1>. HIDE DEF d
<1>10. Later(c, d)
  BY <1>1, <1>7, <1>8, <1>9, LaterTwice
<1>. QED
  BY <1>2, <1>9, <1>10, LaterSteps DEF a, d

LEMMA ClocksGood ==
  ASSUME NEW c, Good(c), NEW s, s \subseteq AllClocks
  PROVE  LET d == [c EXCEPT !.clocks = s] IN Good(d) /\ Later(c, d) /\ d.state = c.state
<1>. DEFINE d == [c EXCEPT !.clocks = s]
<1>1. Core(c, d)
  BY DEF Good, Typed, Others, Fields, Core, Same, SameOutput, SameStream
<1>. QED
  BY <1>1, SameCore DEF Core

LEMMA PingStep ==
  ASSUME IInv, NEW p \in Peers, beginPing(p)
  PROVE  Steps(p)
<1>. DEFINE c == ch[p]
            b == begin(c, "ping")
            a == [b EXCEPT !.isPingPending = TRUE]
<1>1. Good(c) /\ c.state = "Open"
  BY DEF IInv, beginPing
<1>2. PICK ok \in Outcomes(p) :
        LET d == enqueue(a, "ping", ok)
        IN Becomes(p, IF Threw(a, d, ok) THEN d
                      ELSE [d EXCEPT !.clocks = @ \cup (a.durations \cap {"ping"})])
  BY DEF beginPing
<1>. DEFINE d == enqueue(a, "ping", ok)
            e == [d EXCEPT !.clocks = d.clocks \cup (a.durations \cap {"ping"})]
<1>3. "ping" \in Operations /\ "ping" \in Outputs
  BY DEF Operations, Outputs
<1>4. Sets(c, b, "ping", "Pending")
  BY <1>1, <1>3, SetsStage
<1>. HIDE DEF b
<1>5. Good(b) /\ Later(c, b) /\ b.state = "Open"
  <2>1. "Pending" \in Stages /\ b.state = c.state
    BY <1>4 DEF Sets, Stages
  <2>2. Good(b) /\ Later(c, b)
    BY <1>1, <1>3, <1>4, <2>1, SetsGood
  <2>. QED
    BY <1>1, <2>1, <2>2
<1>6. Same(b, a) /\ a.state = b.state /\ a.op = b.op /\ a.isPingPending = TRUE
  BY <1>5 DEF Good, Typed, Others, Fields, Same, SameOutput, SameStream
<1>. HIDE DEF a
<1>7. Good(a) /\ Later(b, a) /\ a.state = "Open"
  <2>1. a.state \in States /\ a.op \in [Operations -> Stages] /\ a.isPingPending \in BOOLEAN /\ Pings(a)
    BY <1>5, <1>6 DEF Good, Typed, Pings
  <2>2. a.op["shutdown"] = "Pending" => a.state \in {"CloseSent", "Finish"}
    BY <1>5, <1>6 DEF Good, Telling
  <2>. QED
    BY <1>5, <1>6, <2>1, <2>2, SameGood
<1>8. Good(d) /\ Later(a, d) /\ d.state = "Open"
  BY <1>2, <1>3, <1>7, MayThrow, Enqueues
<1>9. Becomes(p, d) \/ Becomes(p, e)
  BY <1>2
<1>. HIDE DEF d
<1>10. d.clocks \cup (a.durations \cap {"ping"}) \subseteq AllClocks
  BY <1>8 DEF Good, Others, AllClocks
<1>11. Good(e) /\ Later(d, e) /\ e.state = "Open"
  BY <1>8, <1>10, ClocksGood
<1>. HIDE DEF e
<1>12. Later(c, a)
  BY <1>1, <1>5, <1>7, LaterTwice
<1>13. Later(c, d)
  BY <1>1, <1>7, <1>8, <1>12, LaterTwice
<1>14. Later(c, e)
  BY <1>1, <1>8, <1>11, <1>13, LaterTwice
<1>. QED
  BY <1>8, <1>9, <1>11, <1>13, <1>14, LaterSteps

LEMMA ReceiveStep ==
  ASSUME IInv, NEW p \in Peers, beginReceive(p)
  PROVE  Steps(p)
<1>. DEFINE c == ch[p]
            b == begin(c, "receive")
            d == onBeginInput(b)
<1>1. Good(c) /\ c.state \in {"Open", "CloseSent"} /\ Becomes(p, d)
  BY DEF IInv, beginReceive
<1>2. "receive" \in Operations /\ "Pending" \in Stages
  BY DEF Operations, Stages
<1>3. Sets(c, b, "receive", "Pending")
  BY <1>1, <1>2, SetsStage
<1>. HIDE DEF b
<1>4. Good(b) /\ Later(c, b) /\ b.state = c.state
  <2>1. Good(b) /\ Later(c, b)
    BY <1>1, <1>2, <1>3, SetsGood
  <2>. QED
    BY <1>3, <2>1 DEF Sets
<1>5. Good(d) /\ Later(b, d) /\ d.state = c.state
  BY <1>4, BeginInput, SameCore DEF Core
<1>. HIDE DEF d
<1>6. Later(c, d)
  BY <1>1, <1>4, <1>5, LaterTwice
<1>. QED
  BY <1>1, <1>5, <1>6, LaterSteps

LEMMA ShutdownStep ==
  ASSUME IInv, NEW p \in Peers, beginShutdown(p)
  PROVE  Steps(p)
<1>. DEFINE c == ch[p]
            b == begin(c, "shutdown")
            s == setCloseCode(b, "local")
            a == [s EXCEPT !.state = "CloseSent", !.clocks = c.durations \cap {"close"}]
<1>1. Good(c) /\ c.state = "Open"
  BY DEF IInv, beginShutdown
<1>2. PICK ok \in Outcomes(p) :
        LET d == enqueueClose(a, ok)
        IN Becomes(p, IF Threw(a, d, ok) THEN d ELSE onBeginInput(d))
  BY DEF beginShutdown
<1>. DEFINE d == enqueueClose(a, ok)
            e == onBeginInput(d)
<1>3. Sets(c, b, "shutdown", "Pending")
  BY <1>1, SetsStage DEF Operations
<1>4. Becomes(p, d) \/ Becomes(p, e)
  BY <1>2
<1>. HIDE DEF b
<1>5. Typed(b) /\ Others(b)
  <2>1. b.op \in [Operations -> Stages]
    BY <1>1, <1>3 DEF Sets, Good, Typed, Stages
  <2>. QED
    BY <1>1, <1>3, <2>1 DEF Sets, Same, SameOutput, SameStream, Good, Typed
<1>6. Same(b, s) /\ s.op = b.op /\ s.isPingPending = b.isPingPending
  BY <1>5 DEF setCloseCode, Typed, Others, Fields, Codes, Same, SameOutput, SameStream
<1>. HIDE DEF s
<1>7. Same(c, s) /\ s.op = [c.op EXCEPT !["shutdown"] = "Pending"] /\ s.isPingPending = c.isPingPending
  BY <1>3, <1>6 DEF Sets, Same, SameOutput, SameStream
<1>8. Same(c, a) /\ a.op = s.op /\ a.isPingPending = c.isPingPending /\ a.state = "CloseSent"
  <2>1. c.durations \cap {"close"} \subseteq AllClocks
    BY DEF AllClocks
  <2>. QED
    BY <1>7, <2>1 DEF Others, Fields, Same, SameOutput, SameStream
<1>. HIDE DEF a
<1>9. Good(a) /\ Later(c, a)
  <2>1. /\ a.op \in [Operations -> Stages]
        /\ a.op["closeOut"] = c.op["closeOut"] /\ a.op["ping"] = c.op["ping"]
    BY <1>1, <1>7, <1>8 DEF Good, Typed, Operations, Outputs, Stages
  <2>2. Pings(a) /\ a.isPingPending \in BOOLEAN /\ a.state \in States
    BY <1>1, <1>8, <2>1 DEF Good, Typed, Pings, States
  <2>. QED
    BY <1>1, <1>8, <2>1, <2>2, SameGood
<1>10. Good(d) /\ Later(a, d) /\ d.state = "CloseSent"
  BY <1>2, <1>8, <1>9, MayThrow, EnqueuesClose
<1>. HIDE DEF d
<1>11. Good(e) /\ Later(d, e) /\ e.state = "CloseSent"
  BY <1>10, BeginInput, SameCore DEF Core
<1>. HIDE DEF e
<1>12. Later(c, d)
  BY <1>1, <1>9, <1>10, LaterTwice
<1>13. Later(c, e)
  BY <1>1, <1>10, <1>11, <1>12, LaterTwice
<1>. QED
  BY <1>4, <1>10, <1>11, <1>12, <1>13, LaterSteps

LEMMA EndStep ==
  ASSUME IInv, NEW p \in Peers, end(p)
  PROVE  Steps(p)
<1>. DEFINE c == ch[p]
<1>1. Good(c) /\ Importing(c)
  BY DEF IInv
<1>2. PICK o \in {"send", "receive", "ping", "shutdown"} :
        Becomes(p, [c EXCEPT !.op[o] = "Idle", !.error = @ \ {o}, !.isPingPending = @ /\ o # "ping"])
  BY DEF end
<1>. DEFINE d == [c EXCEPT !.op[o] = "Idle", !.error = c.error \ {o},
                           !.isPingPending = c.isPingPending /\ o # "ping"]
<1>3. /\ Same(c, d) /\ d.state = c.state /\ d.op = [c.op EXCEPT ![o] = "Idle"]
      /\ d.isPingPending = (c.isPingPending /\ o # "ping")
  BY <1>1 DEF Good, Typed, Others, Fields, Same, SameOutput, SameStream
<1>4. Becomes(p, d)
  BY <1>2
<1>. HIDE DEF d
<1>5. /\ d.op \in [Operations -> Stages]
      /\ \A r \in Operations : d.op[r] = IF r = o THEN "Idle" ELSE c.op[r]
  BY <1>1, <1>3 DEF Good, Typed, Stages
<1>6. d.isPingPending \in BOOLEAN /\ Pings(d) /\ d.state \in States
  <2>1. d.isPingPending \in BOOLEAN
    BY <1>3
  <2>2. CASE o = "ping"
    BY <1>1, <1>3, <1>5, <2>1, <2>2 DEF Good, Typed, Pings, Operations, Outputs
  <2>3. CASE o # "ping"
    <3>1. d.op["ping"] = c.op["ping"]
      BY <1>5, <2>3 DEF Operations, Outputs
    <3>. QED
      BY <1>1, <1>3, <2>1, <2>3, <3>1 DEF Good, Typed, Pings
  <2>. QED
    BY <2>2, <2>3
<1>7. /\ d.op["closeOut"] = c.op["closeOut"]
      /\ d.op["shutdown"] = "Pending" => d.state \in {"CloseSent", "Finish"}
  BY <1>1, <1>2, <1>3, <1>5 DEF Good, Telling, Operations, Outputs
<1>8. Good(d) /\ Later(c, d)
  BY <1>1, <1>3, <1>5, <1>6, <1>7, SameGood
<1>9. Forward(c, d) /\ Importing(d)
  BY <1>1, <1>3, <1>8 DEF Forward, Importing, Same, SameStream, Later
<1>. QED
  BY <1>4, <1>8, <1>9, ForwardSteps

LEMMA CloseStep ==
  ASSUME IInv, NEW p \in Peers, close(p)
  PROVE  Steps(p)
<1>. DEFINE c == ch[p]
            d == onClose(c)
<1>1. Good(d) /\ Later(c, d) /\ d.avail = 0 /\ Becomes(p, d)
  BY Closes DEF IInv, close
<1>. HIDE DEF d
<1>2. Forward(c, d) /\ Importing(d)
  BY <1>1 DEF Forward, Importing, Later
<1>. QED
  BY <1>1, <1>2, ForwardSteps

LEMMA TimerStep ==
  ASSUME IInv, NEW p \in Peers, Timer(p)
  PROVE  Steps(p)
<1>. DEFINE c == ch[p]
<1>1. Good(c) /\ c.at = "idle"
  BY DEF IInv, Timer, onTimeout, onPingDelay
<1>2. CASE onTimeout(p)
  <2>1. Good(onProtocolAborted(c)) /\ Later(c, onProtocolAborted(c))
    BY <1>1, Aborts
  <2>2. Becomes(p, onProtocolAborted(c))
    BY <1>2 DEF onTimeout
  <2>. QED
    BY <1>1, <2>1, <2>2, LaterSteps
<1>3. CASE onPingDelay(p)
  <2>. DEFINE b == begin(c, "ping")
              waits == b.durations \cap {"ping"}
  <2>1. PICK ok \in Outcomes(p) :
          LET d == enqueue(b, "ping", ok)
          IN Becomes(p, IF Threw(b, d, ok) \/ waits = {} THEN d
                        ELSE [d EXCEPT !.clocks = (@ \cup waits) \ {"delay"}])
    BY <1>3 DEF onPingDelay
  <2>. DEFINE d == enqueue(b, "ping", ok)
              e == [d EXCEPT !.clocks = (d.clocks \cup waits) \ {"delay"}]
  <2>2. "ping" \in Operations /\ "ping" \in Outputs /\ "Pending" \in Stages /\ c.state = "Open"
    BY <1>3 DEF Operations, Outputs, Stages, onPingDelay
  <2>3. Sets(c, b, "ping", "Pending")
    BY <1>1, <2>2, SetsStage
  <2>4. Becomes(p, d) \/ Becomes(p, e)
    BY <2>1
  <2>. HIDE DEF b
  <2>5. Good(b) /\ Later(c, b) /\ b.state = "Open"
    BY <1>1, <2>2, <2>3, SetsGood DEF Sets
  <2>6. Good(d) /\ Later(b, d) /\ d.state = "Open"
    BY <2>1, <2>2, <2>5, MayThrow, Enqueues
  <2>. HIDE DEF d
  <2>7. (d.clocks \cup waits) \ {"delay"} \subseteq AllClocks
    BY <2>6 DEF Good, Others, AllClocks
  <2>8. Good(e) /\ Later(d, e)
    BY <2>6, <2>7, ClocksGood
  <2>. HIDE DEF e
  <2>9. Later(c, d)
    BY <1>1, <2>5, <2>6, LaterTwice
  <2>10. Later(c, e)
    BY <1>1, <2>6, <2>8, <2>9, LaterTwice
  <2>. QED
    BY <1>1, <2>4, <2>6, <2>8, <2>9, <2>10, LaterSteps
<1>. QED
  BY <1>2, <1>3 DEF Timer

-----------------------------------------------------------------------------
(* The theorems.                                                           *)

LEMMA NextInvariant ==
  ASSUME IInv, Next
  PROVE  IInv'
<1>1. PICK p \in Peers : Input(p) \/ Output(p) \/ Call(p) \/ Timer(p)
  BY DEF Next
<1>2. CASE Input(p)
  BY <1>2, InputStep, ImportStep, StepsKeep DEF Input
<1>3. CASE Output(p)
  BY <1>3, OutputStep, StepsKeep
<1>4. CASE Call(p)
  BY <1>4, SendStep, PingStep, ReceiveStep, ShutdownStep, EndStep, CloseStep, StepsKeep DEF Call
<1>5. CASE Timer(p)
  BY <1>5, TimerStep, StepsKeep
<1>. QED
  BY <1>1, <1>2, <1>3, <1>4, <1>5

LEMMA Invariant == Spec => []IInv
<1>1. Init => IInv
  BY InitInvariant
<1>2. IInv /\ [Next]_ch => IInv'
  <2>1. ASSUME IInv, Next PROVE IInv'
    BY <2>1, NextInvariant
  <2>2. ASSUME IInv, UNCHANGED ch PROVE IInv'
    BY <2>2 DEF IInv, Reads
  <2>. QED
    BY <2>1, <2>2
<1>. QED
  BY <1>1, <1>2, PTL DEF Spec

LEMMA ChannelTyped ==
  ASSUME NEW c, Good(c)
  PROVE  IsChannel(c) /\ (c.writing => c.outputPending /\ c.queue # <<>>)
<1>1. c.writing => c.outputPending /\ c.queue # <<>>
  BY DEF Good, Flow
<1>2. {c.inputPending, c.reading, c.outputPending, c.writing, c.inputFailure,
       c.outputFailure, c.isPingPending, c.failed} \subseteq BOOLEAN
  BY DEF Good, Typed, Others
<1>3. IsChannel(c)
  BY <1>2 DEF Good, Typed, Others, IsChannel, States, Stages, Codes, Places, ReportKinds
<1>. QED
  BY <1>1, <1>3

(* The fields of the channels keep their types, a write is only            *)
(* outstanding for the front of the queue, and an end never parses a frame *)
(* that the other one has not written completely: whatever is called from  *)
(* a slot, when a read or write fails and when an end is closed.           *)
THEOREM TypeCorrect == Spec => []TypeOK
<1>1. IInv => TypeOK
  BY ChannelTyped DEF IInv, Reads, TypeOK
<1>. QED
  BY <1>1, Invariant, PTL

(* A close frame is the last frame an end writes and there is one at most: *)
(* a close enters the queue behind all others (CloseQueued), and one that  *)
(* was given to the stream is either in flight alone, or done with, or     *)
(* followed by a failure after which enqueue() writes nothing              *)
(* (CloseWritten).                                                         *)
THEOREM ClosesAreLast == Spec => []CloseIsLast
<1>1. IInv => CloseIsLast
  BY DEF IInv, Good, CloseWritten, CloseIsLast
<1>. QED
  BY <1>1, Invariant, PTL

(* The end of the protocol is told once: by closed(), by the shutdown or   *)
(* by the receive.  Each of them leaves the state Finish or Open for Done, *)
(* from which no handler reports again; a read error alone may come        *)
(* before.                                                                 *)
THEOREM OneReport == Spec => []OneReporter
<1>1. IInv => OneReporter
  BY DEF IInv, Good, Telling, OneReporter
<1>. QED
  BY <1>1, Invariant, PTL

(* A ping that waits for endPing() was begun by beginPing(): the ping of   *)
(* onPingDelay, and one that a failed write ends, is put away.             *)
THEOREM PingsAreOwned == Spec => []PingIsOwned
<1>1. IInv => PingIsOwned
  BY DEF IInv, Good, Pings, PingIsOwned
<1>. QED
  BY <1>1, Invariant, PTL
=============================================================================
