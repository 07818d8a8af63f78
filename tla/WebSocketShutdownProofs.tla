----------------------- MODULE WebSocketShutdownProofs -----------------------
(***************************************************************************)
(* The proof of CleanShutdown: a shutdown that is ready without an error   *)
(* has completed the close handshake, if a write ends only when the buffer *)
(* is empty.                                                               *)
(*                                                                         *)
(* A shutdown is reported in two places: by onProtocolDone, when the state *)
(* is Finish, and with an error.  While it waits, Finish is only reached   *)
(* by reading the close frame of the peer (Expecting), and the own close   *)
(* frame is in the queue or was given to the stream (Answering).           *)
(***************************************************************************)
EXTENDS WebSocketProofs

-----------------------------------------------------------------------------
(* The invariant.                                                          *)

Wrote(c) == c.log # <<>> /\ c.log[Len(c.log)] = "close"
Answering(c) == Wrote(c) \/ (c.queue # <<>> /\ c.queue[Len(c.queue)] = "closeOut")
Told(c) == \E i \in DOMAIN c.reports : c.reports[i] = "shutdown"

(* As long as no write has failed: what is pending is being written,       *)
(* everything else is written completely, and a close frame that is over   *)
(* was given to the stream.                                                *)
Orderly(c) ==
  ~c.failed =>
    /\ ~c.outputFailure
    /\ c.outputPending => c.writing
    /\ c.outputPending /\ c.queue[1] = "closeOut" => Wrote(c)
    /\ ~c.outputPending /\ c.state # "Closed" => c.put = Len(c.log)
    /\ c.op["closeOut"] = "Ready" => Wrote(c)
    /\ c.op["closeOut"] = "Closed" => c.state = "Closed"
    /\ Told(c) => Wrote(c) /\ c.put = Len(c.log)

Waiting(c) == c.op["shutdown"] = "Pending"
Answered(c) == ~c.failed /\ Waiting(c) => Answering(c)

(* The close frame of the peer was read.                                   *)
Expecting(c) == Told(c) \/ (Waiting(c) /\ c.state = "Finish")

(* What no operator of a channel undoes, and what only the close frame of  *)
(* the peer begins.                                                        *)
Longer(c, d) ==
  /\ c.failed => d.failed
  /\ Len(c.log) <= Len(d.log) /\ \A i \in DOMAIN c.log : d.log[i] = c.log[i]

Onward(c, d) == (Expecting(d) => Expecting(c)) /\ Longer(c, d)

Clean(c, d) == Onward(c, d) /\ Orderly(d) /\ Answered(d)

LEMMA OnwardTwice ==
  ASSUME NEW c, NEW d, NEW e, Good(c), Good(d), Good(e), Onward(c, d), Onward(d, e)
  PROVE  Onward(c, e)
<1>1. /\ c.log \in Seq(FrameKinds) /\ d.log \in Seq(FrameKinds) /\ e.log \in Seq(FrameKinds)
  BY DEF Good, Typed
<1>2. \A i \in DOMAIN c.log : i \in DOMAIN d.log
  BY <1>1 DEF Onward, Longer
<1>. QED
  BY <1>1, <1>2 DEF Onward, Longer

(* A write that has failed leaves nothing to keep.                         *)
LEMMA FailedClean ==
  ASSUME NEW d, d.failed
  PROVE  Orderly(d) /\ Answered(d)
BY DEF Orderly, Answered

-----------------------------------------------------------------------------
(* Operators that leave the output alone.                                  *)

Keeps(c, d) ==
  /\ d.log = c.log /\ d.put = c.put /\ d.queue = c.queue /\ d.failed = c.failed
  /\ d.outputPending = c.outputPending /\ d.writing = c.writing /\ d.outputFailure = c.outputFailure
  /\ d.reports = c.reports

LEMMA KeepsClean ==
  ASSUME NEW c, NEW d, Good(c), Keeps(c, d),
         d.op["closeOut"] = c.op["closeOut"],
         Waiting(d) => Waiting(c) /\ (d.state = "Finish" => c.state = "Finish"),
         c.state = "Closed" => d.state = "Closed"
  PROVE  Onward(c, d) /\ (Orderly(c) => Orderly(d)) /\ (Answered(c) => Answered(d))
<1>1. Told(d) <=> Told(c)
  BY DEF Told, Keeps
<1>2. Onward(c, d)
  <2>1. c.log \in Seq(FrameKinds)
    BY DEF Good, Typed
  <2>. QED
    BY <1>1, <2>1 DEF Onward, Longer, Expecting, Keeps
<1>3. Wrote(d) <=> Wrote(c)
  BY DEF Wrote, Keeps
<1>4. Orderly(c) => Orderly(d)
  BY <1>1, <1>3 DEF Orderly, Keeps
<1>5. Answered(c) => Answered(d)
  BY <1>3 DEF Answered, Answering, Keeps
<1>. QED
  BY <1>2, <1>4, <1>5

LEMMA SetCodeKeeps ==
  ASSUME NEW c, Good(c), NEW code \in Codes
  PROVE  LET d == setCloseCode(c, code) IN Keeps(c, d) /\ d.op = c.op /\ d.state = c.state
BY DEF Good, Typed, Fields, setCloseCode, Keeps

LEMMA BeginInputKeeps ==
  ASSUME NEW c, Good(c)
  PROVE  LET d == onBeginInput(c) IN Keeps(c, d) /\ d.op = c.op /\ d.state = c.state
BY DEF Good, Typed, Fields, onBeginInput, Keeps

LEMMA StagesKeep ==
  ASSUME NEW c, Typed(c), NEW o \in Operations
  PROVE  /\ Keeps(c, SetReady(c, o)) /\ Keeps(c, SetError(c, o)) /\ Keeps(c, begin(c, o))
         /\ Keeps(c, [c EXCEPT !.op[o] = "Idle", !.error = @ \ {o}])
<1>1. Keeps(c, SetReady(c, o))
  BY DEF Typed, Fields, SetReady, Keeps
<1>2. Keeps(c, SetError(c, o))
  BY DEF Typed, Fields, SetError, Keeps
<1>3. Keeps(c, begin(c, o))
  BY DEF Typed, Fields, begin, Keeps
<1>4. Keeps(c, [c EXCEPT !.op[o] = "Idle", !.error = @ \ {o}])
  BY DEF Typed, Fields, Keeps
<1>. QED
  BY <1>1, <1>2, <1>3, <1>4

(* An operation that is not the close frame, or the shutdown when it ends. *)
LEMMA StageClean ==
  ASSUME NEW c, Good(c), NEW d, Keeps(c, d), NEW o \in Operations \ {"closeOut"}, NEW s \in Stages,
         Sets(c, d, o, s), o = "shutdown" => s # "Pending"
  PROVE  Onward(c, d) /\ (Orderly(c) => Orderly(d)) /\ (Answered(c) => Answered(d))
<1>1. d.state = c.state /\ d.op["closeOut"] = c.op["closeOut"] /\ (Waiting(d) => Waiting(c))
  BY DEF Sets, Good, Typed, Waiting, Operations, Outputs
<1>. QED
  BY <1>1, KeepsClean

LEMMA CloseClean ==
  ASSUME NEW c, Good(c), Orderly(c)
  PROVE  Clean(c, onClose(c))
<1>. DEFINE d == onClose(c)
            none == [o \in Operations |-> "Closed"]
<1>1. PICK e : /\ e \in {c, setCloseCode(c, "1006")}
               /\ d = [e EXCEPT !.state = "Closed", !.op = none, !.error = {},
                                !.queue = <<>>, !.avail = 0,
                                !.inputPending = FALSE, !.reading = FALSE,
                                !.outputPending = FALSE, !.writing = FALSE,
                                !.inputFailure = FALSE, !.outputFailure = FALSE,
                                !.isPingPending = FALSE, !.clocks = {}]
  BY DEF onClose
<1>2. DOMAIN e = Fields /\ e.log = c.log /\ e.put = c.put /\ e.reports = c.reports /\ e.failed = c.failed
  BY <1>1, SetCodeKeeps, SetCode DEF Keeps, Core, Same, Good, Typed, Codes
<1>3. none["closeOut"] = "Closed" /\ none["shutdown"] = "Closed"
  BY DEF Operations, Outputs
<1>. HIDE DEF none
<1>4. /\ d.state = "Closed" /\ d.op = none /\ d.outputPending = FALSE /\ d.outputFailure = FALSE
      /\ d.log = c.log /\ d.put = c.put /\ d.reports = c.reports /\ d.failed = c.failed
  BY <1>1, <1>2 DEF Fields
<1>. HIDE DEF d
<1>5. (Told(d) <=> Told(c)) /\ (Wrote(d) <=> Wrote(c)) /\ ~Waiting(d)
  BY <1>3, <1>4 DEF Told, Wrote, Waiting
<1>6. Onward(c, d)
  <2>1. c.log \in Seq(FrameKinds)
    BY DEF Good, Typed
  <2>. QED
    BY <1>4, <1>5, <2>1 DEF Onward, Longer, Expecting
<1>7. Orderly(d)
  BY <1>3, <1>4, <1>5 DEF Orderly
<1>8. Answered(d)
  BY <1>5 DEF Answered
<1>. QED
  BY <1>6, <1>7, <1>8 DEF Clean, d

-----------------------------------------------------------------------------
(* The end of the protocol.                                                *)

LEMMA ToldClean ==
  ASSUME NEW c, Good(c), Untold(c), Orderly(c), Answered(c), NEW what \in ReportKinds \ {"shutdown"},
         what = "unread" \/ c.state \in {"Done", "Closed"}
  PROVE  LET d == [c EXCEPT !.reports = Append(@, what)]
         IN Clean(c, d) /\ Good(d) /\ Later(c, d)
<1>. DEFINE d == [c EXCEPT !.reports = Append(@, what)]
<1>1. /\ d.log = c.log /\ d.put = c.put /\ d.queue = c.queue /\ d.failed = c.failed
      /\ d.outputPending = c.outputPending /\ d.writing = c.writing
      /\ d.outputFailure = c.outputFailure
      /\ d.reports = Append(c.reports, what) /\ d.state = c.state /\ d.op = c.op
  BY DEF Good, Typed, Fields
<1>2. Good(d) /\ Later(c, d)
  BY Report1
<1>. HIDE DEF d
<1>4. Told(d) <=> Told(c)
  <2>1. c.reports \in Seq(ReportKinds)
    BY DEF Good, Typed
  <2>2. \A i \in DOMAIN d.reports : d.reports[i] = "shutdown" => i \in DOMAIN c.reports /\ c.reports[i] = "shutdown"
    BY <1>1, <2>1
  <2>3. \A i \in DOMAIN c.reports : i \in DOMAIN d.reports /\ d.reports[i] = c.reports[i]
    BY <1>1, <2>1
  <2>. QED
    BY <2>2, <2>3 DEF Told
<1>5. (Wrote(d) <=> Wrote(c)) /\ (Waiting(d) <=> Waiting(c))
  BY <1>1 DEF Wrote, Waiting
<1>6. Clean(c, d)
  <2>1. c.log \in Seq(FrameKinds)
    BY DEF Good, Typed
  <2>2. Onward(c, d)
    BY <1>1, <1>4, <1>5, <2>1 DEF Onward, Longer, Expecting
  <2>3. Orderly(d)
    BY <1>1, <1>4, <1>5 DEF Orderly
  <2>4. Answered(d)
    BY <1>1, <1>5 DEF Answered, Answering
  <2>. QED
    BY <2>2, <2>3, <2>4 DEF Clean
<1>. QED
  BY <1>2, <1>6 DEF d

LEMMA ReportClean ==
  ASSUME NEW c, Good(c), Untold(c), Orderly(c), Answered(c), NEW what \in ReportKinds \ {"shutdown"},
         what = "unread" \/ c.state \in {"Done", "Closed"}
  PROVE  Clean(c, Report(c, what))
<1>. DEFINE d == [c EXCEPT !.reports = Append(@, what)]
<1>1. Clean(c, d) /\ Good(d)
  BY ToldClean
<1>2. Report(c, what) \in {d, onClose(d)}
  BY DEF Report
<1>. HIDE DEF d
<1>3. Clean(d, onClose(d)) /\ Good(onClose(d))
  BY <1>1, CloseClean, Closes DEF Clean
<1>4. Onward(c, onClose(d))
  BY <1>1, <1>3, OnwardTwice DEF Clean
<1>. QED
  BY <1>1, <1>2, <1>3, <1>4 DEF Clean

(* The shutdown is ready: the close frames of both ends are over.          *)
LEMMA ShutdownReported ==
  ASSUME NEW c, Good(c), Orderly(c), Answered(c), Waiting(c), c.state = "Finish",
         c.queue = <<>>, ~c.outputPending
  PROVE  LET e == SetReady([c EXCEPT !.state = "Done"], "shutdown")
         IN Clean(c, Report(e, "shutdown"))
<1>. DEFINE a == [c EXCEPT !.state = "Done"]
            e == SetReady(a, "shutdown")
            d == [e EXCEPT !.reports = Append(@, "shutdown")]
<1>1. Same(c, e) /\ e.state = "Done" /\ e.isPingPending = c.isPingPending
      /\ e.op = [c.op EXCEPT !["shutdown"] = "Ready"]
  <2>1. Same(c, e) /\ e.state = "Done" /\ e.isPingPending = c.isPingPending
    BY DEF SetReady, Good, Typed, Others, Fields, Same, SameOutput, SameStream
  <2>2. e.op = [c.op EXCEPT !["shutdown"] = "Ready"]
    BY DEF SetReady, Good, Typed, Fields
  <2>. QED
    BY <2>1, <2>2
<1>2. e.failed = c.failed
  BY DEF SetReady, Good, Typed, Fields
<1>3. Report(e, "shutdown") \in {d, onClose(d)}
  BY DEF Report
<1>. HIDE DEF e
<1>4. Good(e) /\ Untold(e)
  BY <1>1, DoneGood
<1>5. Good(d) /\ d.state = "Done" /\ d.op = e.op
  BY <1>1, <1>4, Report1 DEF ReportKinds
<1>6. /\ d.log = c.log /\ d.put = c.put /\ d.failed = c.failed /\ d.queue = <<>>
      /\ d.outputPending = FALSE /\ d.outputFailure = c.outputFailure
  BY <1>1, <1>2, <1>4 DEF Good, Typed, Fields, Same, SameOutput, SameStream
<1>. HIDE DEF d
<1>7. d.op["closeOut"] = c.op["closeOut"] /\ ~Waiting(d)
  BY <1>1, <1>5 DEF Good, Typed, Operations, Outputs, Waiting
<1>8. Expecting(c)
  BY DEF Expecting
<1>9. ~c.failed => Wrote(c) /\ c.put = Len(c.log)
  BY DEF Answered, Answering, Orderly
<1>10. Wrote(d) <=> Wrote(c)
  BY <1>6 DEF Wrote
<1>11. Onward(c, d)
  <2>1. c.log \in Seq(FrameKinds)
    BY DEF Good, Typed
  <2>. QED
    BY <1>6, <1>8, <2>1 DEF Onward, Longer
<1>12. Orderly(d)
  <2>1. c.op["closeOut"] # "Closed" \/ c.failed
    BY DEF Orderly
  <2>. QED
    BY <1>5, <1>6, <1>7, <1>9, <1>10, <2>1 DEF Orderly
<1>13. Answered(d)
  BY <1>7 DEF Answered
<1>14. Clean(d, onClose(d)) /\ Good(onClose(d))
  BY <1>5, <1>12, CloseClean, Closes
<1>15. Onward(c, onClose(d))
  BY <1>5, <1>11, <1>14, OnwardTwice DEF Clean
<1>. QED
  BY <1>3, <1>11, <1>12, <1>13, <1>14, <1>15 DEF Clean, e, a

LEMMA ItselfClean ==
  ASSUME NEW c, Good(c), Orderly(c), Answered(c)
  PROVE  Clean(c, c)
<1>1. c.log \in Seq(FrameKinds)
  BY DEF Good, Typed
<1>. QED
  BY <1>1 DEF Clean, Onward, Longer

LEMMA CleanTwice ==
  ASSUME NEW c, NEW d, NEW e, Good(c), Good(d), Good(e), Onward(c, d), Clean(d, e)
  PROVE  Clean(c, e)
BY OnwardTwice DEF Clean

LEMMA DoneClean ==
  ASSUME NEW c, Good(c), Orderly(c), Answered(c)
  PROVE  Clean(c, onProtocolDone(c))
<1>. DEFINE d == [c EXCEPT !.state = "Done"]
<1>1. CASE c.state # "Finish" \/ c.queue # <<>> \/ c.outputPending
  BY <1>1, ItselfClean DEF onProtocolDone
<1>2. CASE ~(c.state # "Finish" \/ c.queue # <<>> \/ c.outputPending) /\ c.op["shutdown"] = "Pending"
  <2>1. onProtocolDone(c) = Report(SetReady(d, "shutdown"), "shutdown")
    BY <1>2 DEF onProtocolDone
  <2>. QED
    BY <1>2, <2>1, ShutdownReported DEF Waiting
<1>3. CASE ~(c.state # "Finish" \/ c.queue # <<>> \/ c.outputPending) /\ c.op["shutdown"] # "Pending"
  <2>1. Same(c, d) /\ d.state = "Done" /\ d.isPingPending = c.isPingPending /\ d.op = c.op
    BY DEF Good, Typed, Others, Fields, Same, SameOutput, SameStream
  <2>2. Good(d) /\ Later(c, d) /\ Untold(d)
    BY <1>3, <2>1, DoneGood
  <2>3. Keeps(c, d)
    BY DEF Good, Typed, Fields, Keeps
  <2>4. onProtocolDone(c) = Report(d, "closed")
    BY <1>3 DEF onProtocolDone
  <2>. HIDE DEF d
  <2>5. Onward(c, d) /\ Orderly(d) /\ Answered(d)
    BY <1>3, <2>1, <2>3, KeepsClean DEF Waiting
  <2>6. Clean(d, Report(d, "closed"))
    BY <2>1, <2>2, <2>5, ReportClean DEF ReportKinds
  <2>7. Good(Report(d, "closed"))
    BY <2>1, <2>2, Reports DEF ReportKinds
  <2>. QED
    BY <2>2, <2>4, <2>5, <2>6, <2>7, CleanTwice
<1>. QED
  BY <1>1, <1>2, <1>3

LEMMA ShutdownFailsClean ==
  ASSUME NEW c, Good(c), Orderly(c), Answered(c)
  PROVE  Clean(c, FailShutdown(c, "unread"))
<1>1. CASE c.op["shutdown"] # "Pending"
  BY <1>1, ItselfClean DEF FailShutdown
<1>2. CASE c.op["shutdown"] = "Pending"
  <2>. DEFINE e == SetError(c, "shutdown")
  <2>1. "shutdown" \in Operations \ {"closeOut"} /\ "Ready" \in Stages
    BY DEF Operations, Stages
  <2>2. Sets(c, e, "shutdown", "Ready") /\ Keeps(c, e)
    BY <2>1, SetsStage, StagesKeep DEF Good
  <2>3. FailShutdown(c, "unread") = Report(e, "unread")
    BY <1>2 DEF FailShutdown
  <2>. HIDE DEF e
  <2>4. Good(e) /\ Later(c, e)
    BY <2>1, <2>2, SetsGood
  <2>5. Untold(e)
    BY <1>2, <2>2, UntoldBefore DEF Good, Telling, Untold, Sets, Same
  <2>6. Onward(c, e) /\ Orderly(e) /\ Answered(e)
    BY <2>1, <2>2, StageClean
  <2>7. Clean(e, Report(e, "unread"))
    BY <2>4, <2>5, <2>6, ReportClean DEF ReportKinds
  <2>8. Good(Report(e, "unread"))
    BY <2>4, <2>5, Reports DEF ReportKinds
  <2>. QED
    BY <2>3, <2>4, <2>6, <2>7, <2>8, CleanTwice
<1>. QED
  BY <1>1, <1>2

(* The queue is cut behind the frame in flight.                            *)
Cuts(c, d) ==
  /\ d.log = c.log /\ d.put = c.put /\ d.failed = c.failed /\ d.reports = c.reports
  /\ d.outputPending = c.outputPending /\ d.writing = c.writing /\ d.outputFailure = c.outputFailure
  /\ c.outputPending => d.queue[1] = c.queue[1]
  /\ d.op["closeOut"] = c.op["closeOut"]

LEMMA CutsOrderly ==
  ASSUME NEW c, Good(c), Orderly(c), NEW d, Cuts(c, d), c.state = "Closed" => d.state = "Closed"
  PROVE  Orderly(d) /\ Longer(c, d) /\ (Told(d) <=> Told(c))
<1>1. (Told(d) <=> Told(c)) /\ (Wrote(d) <=> Wrote(c))
  BY DEF Told, Wrote, Cuts
<1>2. c.log \in Seq(FrameKinds)
  BY DEF Good, Typed
<1>3. Longer(c, d)
  BY <1>2 DEF Longer, Cuts
<1>4. Orderly(d)
  BY <1>1 DEF Orderly, Cuts
<1>. QED
  BY <1>1, <1>3, <1>4

LEMMA CutsClean ==
  ASSUME NEW c, Good(c), Orderly(c), NEW d, Cuts(c, d),
         Waiting(d) => Waiting(c) /\ d.state # "Finish",
         c.state = "Closed" => d.state = "Closed"
  PROVE  Onward(c, d) /\ Orderly(d)
BY CutsOrderly DEF Onward, Expecting

LEMMA FinishCuts ==
  ASSUME NEW c, Good(c), c.state \in {"Open", "CloseSent"}
  PROVE  LET d == onProtocolFinished(c) IN Cuts(c, d) /\ d.reports = c.reports
<1>. DEFINE d == onProtocolFinished(c)
<1>1. /\ d.log = c.log /\ d.put = c.put /\ d.failed = c.failed /\ d.reports = c.reports
      /\ d.outputPending = c.outputPending /\ d.writing = c.writing
      /\ d.outputFailure = c.outputFailure /\ d.op = c.op
      /\ d.queue = IF c.queue # <<>> /\ c.outputPending THEN <<Head(c.queue)>> ELSE <<>>
  BY DEF onProtocolFinished, Good, Typed, Fields
<1>. HIDE DEF d
<1>2. c.outputPending => d.queue[1] = c.queue[1]
  <2>1. c.outputPending => c.queue # <<>> /\ c.queue \in Seq(Outputs)
    BY DEF Good, Flow, Typed
  <2>. QED
    BY <1>1, <2>1
<1>. QED
  BY <1>1, <1>2 DEF Cuts, d

LEMMA AbortClean ==
  ASSUME NEW c, Good(c), Orderly(c), Answered(c)
  PROVE  Clean(c, onProtocolAborted(c))
<1>. DEFINE b == setCloseCode(c, "1006")
            d == onProtocolFinished(b)
            a == [d EXCEPT !.state = "Done"]
            e == SetError(a, "shutdown")
<1>1. CASE c.state \notin {"Open", "CloseSent"}
  BY <1>1, ItselfClean DEF onProtocolAborted
<1>2. CASE c.state \in {"Open", "CloseSent"}
  <2>1. Good(b) /\ Keeps(c, b) /\ b.op = c.op /\ b.state = c.state
    BY SetCode, SetCodeKeeps, SameCore DEF Codes
  <2>2. onProtocolAborted(c) = IF c.op["shutdown"] = "Pending" THEN FailShutdown(a, "aborted")
                                                                ELSE onProtocolDone(d)
    BY <1>2 DEF onProtocolAborted
  <2>. HIDE DEF b
  <2>3. Onward(c, b) /\ Orderly(b) /\ Answered(b)
    BY <2>1, KeepsClean DEF Waiting
  <2>4. Good(d) /\ d.state = "Finish" /\ d.op = b.op
    BY <1>2, <2>1, Finishes
  <2>5. Cuts(b, d)
    BY <1>2, <2>1, FinishCuts
  <2>. HIDE DEF d
  <2>6. CASE c.op["shutdown"] # "Pending"
    <3>1. ~Waiting(d)
      BY <2>1, <2>4, <2>6 DEF Waiting
    <3>2. Onward(b, d) /\ Orderly(d)
      BY <1>2, <2>1, <2>3, <2>5, <3>1, CutsClean
    <3>3. Answered(d)
      BY <3>1 DEF Answered
    <3>4. Clean(d, onProtocolDone(d)) /\ Good(onProtocolDone(d))
      BY <2>4, <3>2, <3>3, DoneClean, IsDone
    <3>5. Onward(c, d)
      BY <2>1, <2>3, <2>4, <3>2, OnwardTwice
    <3>. QED
      BY <2>2, <2>4, <2>6, <3>4, <3>5, CleanTwice
  <2>7. CASE c.op["shutdown"] = "Pending"
    <3>1. /\ Same(d, e) /\ e.state = "Done" /\ e.isPingPending = d.isPingPending
          /\ e.op = [d.op EXCEPT !["shutdown"] = "Ready"]
      BY <2>4, DoneFails
    <3>2. e.failed = d.failed /\ a.op = d.op
      BY <2>4 DEF SetError, Good, Typed, Fields
    <3>3. FailShutdown(a, "aborted") = Report(e, "aborted")
      BY <2>1, <2>4, <2>7, <3>2 DEF FailShutdown
    <3>. HIDE DEF e
    <3>4. Good(e) /\ Untold(e)
      BY <2>4, <3>1, DoneGood
    <3>5. Cuts(b, e) /\ ~Waiting(e)
      BY <2>4, <2>5, <3>1, <3>2 DEF Cuts, Same, SameOutput, SameStream, Waiting, Good, Typed, Operations, Outputs
    <3>6. Onward(b, e) /\ Orderly(e)
      BY <1>2, <2>1, <2>3, <3>5, CutsClean
    <3>7. Answered(e)
      BY <3>5 DEF Answered
    <3>8. Clean(e, Report(e, "aborted")) /\ Good(Report(e, "aborted"))
      BY <3>1, <3>4, <3>6, <3>7, ReportClean, Reports DEF ReportKinds
    <3>9. Onward(c, e)
      BY <2>1, <2>3, <3>4, <3>6, OnwardTwice
    <3>. QED
      BY <2>2, <2>7, <3>3, <3>4, <3>8, <3>9, CleanTwice
  <2>. QED
    BY <2>6, <2>7
<1>. QED
  BY <1>1, <1>2

-----------------------------------------------------------------------------
(* Output.                                                                 *)

LEMMA BeginsClean ==
  ASSUME NEW c, Between(c), NEW ok \in BOOLEAN,
         ~c.failed => /\ c.op["closeOut"] # "Ready" /\ ~Told(c)
                      /\ c.op["closeOut"] = "Closed" => c.state = "Closed"
  PROVE  LET d == onBeginOutput(c, ok)
         IN Onward(c, d) /\ Orderly(d) /\ (Answered(c) => Answered(d)) /\ (~ok => d.failed)
<1>. DEFINE d == onBeginOutput(c, ok)
            k == Frame(c, Head(c.queue))
<1>1. Typed(c) /\ c.queue # <<>> /\ c.queue \in Seq(Outputs) /\ NoClose(c) /\ ~c.outputFailure
  BY DEF Between, Typed
<1>2. /\ d.log = Append(c.log, k) /\ d.failed = (c.failed \/ ~ok) /\ d.reports = c.reports
      /\ d.outputPending = TRUE /\ d.writing = ok /\ d.outputFailure = c.outputFailure
      /\ d.state = c.state /\ d.op = c.op /\ d.queue = c.queue
  BY <1>1 DEF onBeginOutput, Typed, Fields
<1>3. c.queue[1] = "closeOut" => k = "close"
  BY <1>1 DEF Frame
<1>4. k \in FrameKinds
  <2>1. Head(c.queue) \in Outputs
    BY <1>1
  <2>2. c.kind \in FrameKinds
    BY <1>1, WebSocketAssumption DEF Typed, FrameKinds
  <2>. QED
    BY <2>1, <2>2 DEF Frame, FrameKinds, Outputs
<1>. HIDE DEF d, k
<1>5. /\ c.log \in Seq(FrameKinds) /\ d.log \in Seq(FrameKinds) /\ d.log # <<>>
      /\ Len(d.log) = Len(c.log) + 1 /\ d.log[Len(d.log)] = k
      /\ \A i \in DOMAIN c.log : d.log[i] = c.log[i]
  BY <1>1, <1>2, <1>4 DEF Typed
<1>6. (Told(d) <=> Told(c)) /\ (Waiting(d) <=> Waiting(c))
  BY <1>2 DEF Told, Waiting
<1>7. Onward(c, d)
  <2>1. Len(c.log) <= Len(d.log)
    <3>1. Len(c.log) \in Nat
      BY <1>5
    <3>. QED
      BY <1>5, <3>1
  <2>2. Expecting(d) => Expecting(c)
    BY <1>2, <1>6 DEF Expecting
  <2>3. c.failed => d.failed
    BY <1>2
  <2>. QED
    BY <1>5, <2>1, <2>2, <2>3 DEF Onward, Longer
<1>8. Orderly(d)
  BY <1>1, <1>2, <1>3, <1>5, <1>6 DEF Orderly, Wrote
<1>9. Answered(c) => Answered(d)
  <2>1. ~Wrote(c)
    <3>1. c.log # <<>> => Len(c.log) \in DOMAIN c.log
      BY <1>5
    <3>. QED
      BY <1>1, <3>1 DEF NoClose, Wrote
  <2>. QED
    BY <1>2, <1>6, <2>1 DEF Answered, Answering
<1>. QED
  BY <1>2, <1>7, <1>8, <1>9 DEF d

LEMMA OpenIsNotWaiting ==
  ASSUME NEW c, Good(c), c.state \notin {"CloseSent", "Finish"}
  PROVE  ~Waiting(c) /\ Answered(c)
BY DEF Good, Telling, Waiting, Answered

LEMMA NotToldYet ==
  ASSUME NEW c, Good(c), c.state \in {"Open", "CloseSent", "Finish"}
  PROVE  ~Told(c)
BY UntoldBefore DEF Untold, Told

(* A close in the queue is the last.                                       *)
LEMMA QueuedIsLast ==
  ASSUME NEW c, Good(c), NEW i \in DOMAIN c.queue, c.queue[i] = "closeOut"
  PROVE  Answered(c)
<1>1. i = Len(c.queue) /\ c.queue # <<>>
  BY DEF Good, CloseQueued, Typed
<1>. QED
  BY <1>1 DEF Answered, Answering

LEMMA EnqueuesClean ==
  ASSUME NEW c, Good(c), Orderly(c), NEW o \in Outputs, NEW ok \in BOOLEAN,
         IF o = "closeOut" THEN NoClose(c) /\ c.op["closeOut"] = "Pending"
                                /\ c.state \in {"CloseSent", "Finish"}
                           ELSE c.state = "Open"
  PROVE  LET d == enqueue(c, o, ok)
         IN Clean(c, d) /\ (Threw(c, d, ok) => d.failed)
<1>. DEFINE d == [c EXCEPT !.queue = Append(@, o)]
            e == onBeginOutput(d, ok)
<1>1. /\ c.log \in Seq(FrameKinds) /\ c.queue \in Seq(Outputs) /\ Len(c.queue) \in Nat
      /\ ~Told(c) /\ c.state \in {"Open", "CloseSent", "Finish"}
  BY NotToldYet DEF Good, Typed
<1>2. NoClose(c) /\ (~c.failed => c.op["closeOut"] # "Ready" /\ c.op["closeOut"] # "Closed")
  <2>1. NoClose(c)
    BY CloseNotQueued
  <2>2. ~Wrote(c)
    <3>1. c.log # <<>> => Len(c.log) \in DOMAIN c.log
      BY <1>1
    <3>. QED
      BY <2>1, <3>1 DEF NoClose, Wrote
  <2>. QED
    BY <1>1, <2>1, <2>2 DEF Orderly
<1>3. CASE c.outputFailure \/ Contains(c.queue, o)
  <2>1. enqueue(c, o, ok) = c
    BY <1>3 DEF enqueue
  <2>2. Answered(c)
    <3>1. CASE o # "closeOut"
      BY <3>1, OpenIsNotWaiting
    <3>2. CASE c.outputFailure
      BY <3>2 DEF Orderly, Answered
    <3>3. CASE o = "closeOut" /\ Contains(c.queue, o)
      BY <1>1, <3>3, QueuedIsLast DEF Contains
    <3>. QED
      BY <1>3, <3>1, <3>2, <3>3
  <2>3. ~Threw(c, c, ok)
    BY DEF Threw
  <2>. QED
    BY <2>1, <2>2, <2>3, ItselfClean
<1>4. CASE ~c.outputFailure /\ ~Contains(c.queue, o)
  <2>1. /\ DOMAIN d = Fields /\ Others(d)
        /\ d.session = c.session /\ d.kind = c.kind /\ d.reports = c.reports
        /\ d.outputPending = c.outputPending /\ d.writing = c.writing
        /\ d.outputFailure = c.outputFailure
        /\ d.state = c.state /\ d.op = c.op /\ d.isPingPending = c.isPingPending
        /\ d.queue = Append(c.queue, o) /\ d.failed = c.failed /\ d.put = c.put /\ d.log = c.log
    BY DEF Good, Typed, Others, Fields
  <2>2. d.got = c.got /\ d.at = c.at /\ d.avail = c.avail
    BY DEF Good, Typed, Fields
  <2>3. enqueue(c, o, ok) = IF d.outputPending THEN d ELSE e
    BY <1>4 DEF enqueue
  <2>. HIDE DEF d
  <2>4. /\ d.queue \in Seq(Outputs) /\ d.queue # <<>>
        /\ Len(d.queue) = Len(c.queue) + 1 /\ d.queue[Len(d.queue)] = o
        /\ \A i \in DOMAIN d.queue : i # Len(d.queue) => i \in DOMAIN c.queue /\ d.queue[i] = c.queue[i]
        /\ c.queue # <<>> => d.queue[1] = c.queue[1]
    BY <1>1, <2>1
  <2>5. (Told(d) <=> Told(c)) /\ (Waiting(d) <=> Waiting(c)) /\ (Wrote(d) <=> Wrote(c))
    BY <2>1 DEF Told, Waiting, Wrote
  <2>6. Answered(d)
    <3>1. CASE o = "closeOut"
      BY <2>4, <3>1 DEF Answered, Answering
    <3>2. CASE o # "closeOut"
      BY <2>5, <3>2, OpenIsNotWaiting DEF Answered
    <3>. QED
      BY <3>1, <3>2
  <2>7. Onward(c, d)
    BY <1>1, <2>1, <2>5 DEF Onward, Longer, Expecting
  <2>8. CASE d.outputPending
    <3>1. c.queue # <<>>
      BY <2>1, <2>8 DEF Good, Flow
    <3>2. Orderly(d)
      BY <2>1, <2>4, <2>5, <2>8, <3>1 DEF Orderly
    <3>3. ~Threw(c, d, ok)
      BY <2>1 DEF Threw
    <3>. QED
      BY <2>3, <2>6, <2>7, <2>8, <3>2, <3>3 DEF Clean
  <2>9. CASE ~d.outputPending
    <3>1. c.queue = <<>>
      BY <1>4, <2>1, <2>9 DEF Good, Flow
    <3>2. Typed(d)
      BY <2>1, <2>2, <2>4 DEF Good, Typed
    <3>3. CloseQueued(d)
      <4>1. Len(d.queue) = 1
        BY <2>4, <3>1
      <4>. QED
        BY <2>1, <2>4, <4>1 DEF CloseQueued
    <3>4. Pings(d) /\ Telling(d) /\ NoClose(d)
      BY <1>2, <2>1 DEF Good, Pings, Telling, NoClose
    <3>5. Between(d)
      BY <1>4, <2>1, <2>4, <3>2, <3>3, <3>4 DEF Between
    <3>6. Onward(d, e) /\ Orderly(e) /\ Answered(e) /\ (~ok => e.failed)
      BY <1>1, <1>2, <2>1, <2>5, <2>6, <3>5, BeginsClean
    <3>7. Good(e)
      BY <3>5, Begins
    <3>. HIDE DEF e
    <3>8. Onward(c, e)
      <4>1. e.log \in Seq(FrameKinds)
        BY <3>7 DEF Good, Typed
      <4>. QED
        BY <1>1, <2>1, <2>7, <3>6, <4>1 DEF Onward, Longer
    <3>. QED
      BY <2>3, <2>9, <3>6, <3>8 DEF Clean, Threw
  <2>. QED
    BY <2>8, <2>9
<1>. QED
  BY <1>3, <1>4

LEMMA EnqueuesCloseClean ==
  ASSUME NEW c, Good(c), Orderly(c), NEW ok \in BOOLEAN, c.state \in {"CloseSent", "Finish"}
  PROVE  LET d == enqueueClose(c, ok)
         IN Clean(c, d) /\ (Threw(c, d, ok) => d.failed)
<1>. DEFINE b == begin(c, "closeOut")
            d == enqueue(b, "closeOut", ok)
<1>1. CASE c.outputFailure \/ c.op["closeOut"] \in {"Ready", "Closed"} \/ InFlight(c, "closeOut")
  <2>1. enqueueClose(c, ok) = c
    BY <1>1 DEF enqueueClose
  <2>2. CASE InFlight(c, "closeOut")
    <3>1. 1 \in DOMAIN c.queue /\ c.queue[1] = "closeOut"
      BY <2>2 DEF InFlight, Good, Typed
    <3>. QED
      BY <2>1, <3>1, QueuedIsLast, ItselfClean DEF Threw
  <2>3. CASE c.outputFailure \/ c.op["closeOut"] \in {"Ready", "Closed"}
    <3>1. Answered(c)
      BY <2>3 DEF Orderly, Answered, Answering
    <3>. QED
      BY <2>1, <3>1, ItselfClean DEF Threw
  <2>. QED
    BY <1>1, <2>2, <2>3
<1>2. CASE ~(c.outputFailure \/ c.op["closeOut"] \in {"Ready", "Closed"} \/ InFlight(c, "closeOut"))
  <2>1. NoClose(c)
    BY <1>2 DEF Good, CloseWritten, NoClose, InFlight
  <2>2. "closeOut" \in Operations /\ "closeOut" \in Outputs /\ "shutdown" \in Operations /\ "Pending" \in Stages
    BY DEF Operations, Outputs, Stages
  <2>3. Sets(c, b, "closeOut", "Pending") /\ Keeps(c, b)
    BY <2>2, SetsStage, StagesKeep DEF Good
  <2>4. enqueueClose(c, ok) = d
    BY <1>2 DEF enqueueClose
  <2>. HIDE DEF b
  <2>5. /\ Good(b) /\ Later(c, b)
        /\ \A r \in Operations : b.op[r] = IF r = "closeOut" THEN "Pending" ELSE c.op[r]
    BY <2>1, <2>2, <2>3, SetsGood
  <2>6. b.state = c.state /\ b.op["closeOut"] = "Pending" /\ NoClose(b) /\ (Waiting(b) <=> Waiting(c))
    BY <2>1, <2>2, <2>3, <2>5 DEF Sets, Keeps, NoClose, Waiting
  <2>7. (Told(b) <=> Told(c)) /\ (Wrote(b) <=> Wrote(c))
    BY <2>3 DEF Told, Wrote, Keeps
  <2>8. Orderly(b)
    BY <2>3, <2>6, <2>7 DEF Orderly, Keeps
  <2>9. Onward(c, b)
    <3>1. c.log \in Seq(FrameKinds)
      BY DEF Good, Typed
    <3>. QED
      BY <2>3, <2>6, <2>7, <3>1 DEF Onward, Longer, Expecting, Keeps
  <2>10. Clean(b, d) /\ (Threw(b, d, ok) => d.failed)
    BY <2>2, <2>5, <2>6, <2>8, EnqueuesClean
  <2>11. Good(d)
    BY <2>2, <2>5, <2>6, Enqueues
  <2>. HIDE DEF d
  <2>12. Clean(c, d)
    BY <2>5, <2>9, <2>10, <2>11, CleanTwice
  <2>. QED
    BY <2>3, <2>4, <2>10, <2>12 DEF Threw, Keeps
<1>. QED
  BY <1>1, <1>2

(* The state, the operations and what was told stay as they are.           *)
LEMMA UntouchedOnward ==
  ASSUME NEW c, Good(c), NEW d, d.log = c.log, c.failed => d.failed, d.reports = c.reports,
         d.state = c.state, Waiting(d) <=> Waiting(c)
  PROVE  Onward(c, d)
<1>1. Told(d) <=> Told(c)
  BY DEF Told
<1>2. c.log \in Seq(FrameKinds)
  BY DEF Good, Typed
<1>. QED
  BY <1>1, <1>2 DEF Onward, Longer, Expecting

LEMMA EndsOutputClean ==
  ASSUME NEW c, Good(c), Orderly(c), Answered(c), NEW o \in Outputs, NEW failed \in BOOLEAN,
         o = "closeOut" => c.queue = <<>> /\ c.failed
  PROVE  Clean(c, EndOutput(c, o, failed))
<1>0. /\ o \in Operations /\ "Ready" \in Stages /\ "Idle" \in Stages
      /\ "shutdown" \in Operations /\ o # "shutdown"
  BY DEF Operations, Outputs, Stages
<1>1. CASE c.op[o] # "Pending"
  BY <1>1, ItselfClean DEF EndOutput
<1>2. CASE c.op[o] = "Pending"
  <2>. DEFINE e == IF failed THEN SetError(c, o) ELSE SetReady(c, o)
  <2>1. Sets(c, e, o, "Ready") /\ Keeps(c, e)
    BY <1>0, SetsStage, StagesKeep DEF Good
  <2>2. EndOutput(c, o, failed) = onOutputReady(e, o)
    BY <1>2 DEF EndOutput
  <2>. HIDE DEF e
  <2>3. CASE o = "closeOut"
    <3>1. Good(e) /\ \A r \in Operations : e.op[r] = IF r = o THEN "Ready" ELSE c.op[r]
      <4>1. o # "ping" /\ c.queue = <<>>
        BY <2>3
      <4>. QED
        BY <1>0, <2>1, <4>1, SetsGood
    <3>2. Waiting(e) <=> Waiting(c)
      BY <1>0, <3>1 DEF Waiting
    <3>3. Onward(c, e) /\ e.failed
      BY <2>1, <2>3, <3>2, UntouchedOnward DEF Sets, Same, Keeps
    <3>4. Clean(e, onProtocolDone(e)) /\ Good(onProtocolDone(e))
      BY <3>1, <3>3, FailedClean, DoneClean, IsDone
    <3>5. Clean(c, onProtocolDone(e))
      BY <3>1, <3>3, <3>4, CleanTwice
    <3>. QED
      BY <2>2, <2>3, <3>5 DEF onOutputReady
  <2>4. CASE o = "ping" /\ ~e.isPingPending
    <3>. DEFINE g == [e EXCEPT !.op[o] = "Idle", !.error = @ \ {o}]
    <3>1. Typed(e) /\ Others(e)
      BY <1>0, <2>1 DEF Sets, Same, SameOutput, SameStream, Good, Typed, Stages
    <3>2. Sets(e, g, o, "Idle") /\ Keeps(e, g)
      BY <1>0, <3>1, SetsTyped, StagesKeep
    <3>3. onOutputReady(e, o) = g
      BY <2>4 DEF onOutputReady
    <3>. HIDE DEF g
    <3>4. Same(c, g) /\ g.state = c.state /\ g.isPingPending = c.isPingPending
      BY <2>1, <3>2 DEF Sets, Same, SameOutput, SameStream
    <3>5. g.op = [c.op EXCEPT ![o] = "Idle"]
      BY <2>1, <3>2 DEF Sets, Good, Typed
    <3>6. Sets(c, g, o, "Idle") /\ Keeps(c, g)
      BY <2>1, <3>2, <3>4, <3>5 DEF Sets, Keeps
    <3>7. o \in Operations \ {"closeOut"}
      BY <1>0, <2>4
    <3>. QED
      BY <1>0, <2>2, <3>3, <3>6, <3>7, StageClean DEF Clean
  <2>5. CASE o # "closeOut" /\ ~(o = "ping" /\ ~e.isPingPending)
    <3>1. onOutputReady(e, o) = e
      BY <2>5 DEF onOutputReady
    <3>2. o \in Operations \ {"closeOut"}
      BY <1>0, <2>5
    <3>. QED
      BY <1>0, <2>1, <2>2, <3>1, <3>2, StageClean DEF Clean
  <2>. QED
    BY <2>3, <2>4, <2>5
<1>. QED
  BY <1>1, <1>2

LEMMA OutputFailsClean ==
  ASSUME NEW c, Good(c), ~c.writing, c.failed
  PROVE  Clean(c, onOutputError(c))
<1>. DEFINE d == Failing(c)
            e == Dropped(c)
<1>1. d.log = c.log /\ d.failed = c.failed /\ d.reports = c.reports /\ d.state = c.state /\ d.op = c.op
  BY DEF Failing, setCloseCode, Good, Typed, Fields
<1>2. Good(d)
  BY Fails
<1>3. e.log = d.log /\ e.failed = d.failed /\ e.reports = d.reports /\ e.state = d.state /\ e.op = d.op
  BY <1>2 DEF Dropped, Good, Typed, Fields
<1>. HIDE DEF d, e
<1>4. CASE c.queue = <<>>
  <2>1. Onward(c, d) /\ d.failed
    BY <1>1, UntouchedOnward DEF Waiting
  <2>. QED
    BY <1>4, <2>1, FailedClean, OutputError DEF Clean, d
<1>5. CASE c.queue # <<>>
  <2>1. Onward(c, e) /\ e.failed
    BY <1>1, <1>3, UntouchedOnward DEF Waiting
  <2>2. Good(e) /\ Head(c.queue) \in Outputs /\ (Head(c.queue) = "closeOut" => e.queue = <<>>)
    BY <1>5, Drops DEF e
  <2>. DEFINE f == EndOutput(e, Head(c.queue), TRUE)
  <2>3. Clean(e, f) /\ Good(f)
    BY <2>1, <2>2, FailedClean, EndsOutputClean, EndsOutput
  <2>4. onOutputError(c) = f
    BY <1>5, OutputError DEF e
  <2>. HIDE DEF f
  <2>. QED
    BY <2>1, <2>2, <2>3, <2>4, CleanTwice
<1>. QED
  BY <1>4, <1>5

LEMMA LastWritten ==
  ASSUME NEW c, Good(c), c.writing, Orderly(c), Answered(c), NEW ok \in BOOLEAN,
         Head(c.queue) = "closeOut"
  PROVE  Clean(c, onOutput(c, Len(c.log), ok))
<1>. DEFINE n == Len(c.log)
            d == Ended(c, n)
            f == SetReady(d, "closeOut")
<1>0. n \in c.put .. Len(c.log)
  BY Counters
<1>1. AtEnd(c, d, n)
  BY <1>0, WriteAtEnd
<1>2. /\ Good(f) /\ Sets(d, f, "closeOut", "Ready") /\ d.queue = <<>>
      /\ onOutput(c, n, ok) = onProtocolDone(f)
  BY <1>0, CloseEnds
<1>. HIDE DEF d
<1>3. Keeps(d, f)
  BY <1>1, StagesKeep DEF AtEnd, Operations, Outputs
<1>. HIDE DEF f, n
<1>4. /\ f.log = c.log /\ f.put = n /\ f.failed = c.failed /\ f.reports = c.reports
      /\ f.state = c.state /\ f.outputFailure = FALSE /\ f.outputPending = FALSE
  BY <1>1, <1>2, <1>3 DEF AtEnd, Keeps, Sets
<1>5. f.op["closeOut"] = "Ready" /\ (Waiting(f) <=> Waiting(c))
  <2>1. d.op = c.op /\ c.op \in [Operations -> Stages] /\ f.op = [d.op EXCEPT !["closeOut"] = "Ready"]
    BY <1>1, <1>2 DEF AtEnd, Sets, Good, Typed
  <2>. QED
    BY <2>1 DEF Waiting, Operations, Outputs
<1>6. (Told(f) <=> Told(c)) /\ (Wrote(f) <=> Wrote(c))
  BY <1>4 DEF Told, Wrote
<1>7. ~c.failed => Wrote(c)
  BY <1>1 DEF AtEnd, Orderly
<1>8. Orderly(f)
  BY <1>4, <1>5, <1>6, <1>7 DEF Orderly, n
<1>9. Answered(f)
  BY <1>4, <1>6, <1>7 DEF Answered, Answering
<1>10. Onward(c, f)
  BY <1>4, <1>5, UntouchedOnward
<1>11. Clean(f, onProtocolDone(f)) /\ Good(onProtocolDone(f))
  BY <1>2, <1>8, <1>9, DoneClean, IsDone
<1>. QED
  BY <1>2, <1>10, <1>11, CleanTwice DEF n

LEMMA NextClean ==
  ASSUME NEW c, Good(c), c.writing, Orderly(c), Answered(c), NEW ok \in BOOLEAN,
         Head(c.queue) # "closeOut"
  PROVE  LET d == Ended(c, Len(c.log))
             e == NextWrite(c, Len(c.log), ok)
         IN Clean(c, e) /\ (Threw(d, e, ok) => e.failed)
<1>. DEFINE n == Len(c.log)
            d == Ended(c, n)
            e == NextWrite(c, n, ok)
<1>0. n \in c.put .. Len(c.log)
  BY Counters
<1>1. AtEnd(c, d, n)
  BY <1>0, WriteAtEnd
<1>2. /\ Good(e) /\ IF d.queue = <<>> THEN e = d ELSE Between(d) /\ e = onBeginOutput(d, ok)
  BY <1>0, NextBegins
<1>. HIDE DEF d, e, n
<1>3. /\ d.log = c.log /\ d.put = n /\ d.failed = c.failed /\ d.reports = c.reports /\ d.op = c.op
      /\ d.state = c.state /\ d.outputFailure = FALSE /\ d.outputPending = FALSE
      /\ d.queue = Tail(c.queue) /\ c.queue \in Seq(Outputs) /\ c.queue # <<>>
      /\ Head(c.queue) = c.queue[1]
  BY <1>1 DEF AtEnd
<1>4. (Told(d) <=> Told(c)) /\ (Wrote(d) <=> Wrote(c)) /\ (Waiting(d) <=> Waiting(c))
  BY <1>3 DEF Told, Wrote, Waiting
<1>5. Onward(c, d)
  BY <1>3, <1>4, UntouchedOnward
<1>6. Answered(d)
  <2>1. c.queue[Len(c.queue)] = "closeOut" => d.queue # <<>> /\ d.queue[Len(d.queue)] = "closeOut"
    <3>. SUFFICES ASSUME c.queue[Len(c.queue)] = "closeOut"
                  PROVE  d.queue # <<>> /\ d.queue[Len(d.queue)] = "closeOut"
      OBVIOUS
    <3>1. Len(c.queue) \in Nat /\ Len(c.queue) > 1
      BY <1>3
    <3>2. Len(d.queue) = Len(c.queue) - 1 /\ d.queue[Len(c.queue) - 1] = c.queue[Len(c.queue)]
      BY <1>3, <3>1
    <3>3. d.queue # <<>>
      <4>1. Len(d.queue) # 0
        BY <3>1, <3>2
      <4>. QED
        BY <4>1
    <3>4. d.queue[Len(d.queue)] = c.queue[Len(c.queue)]
      BY <3>2
    <3>. QED
      BY <3>3, <3>4
  <2>. QED
    BY <1>3, <1>4, <2>1 DEF Answered, Answering
<1>7. CASE d.queue = <<>>
  <2>1. Orderly(d)
    BY <1>3, <1>4 DEF Orderly, n
  <2>. QED
    BY <1>2, <1>5, <1>6, <1>7, <2>1 DEF Clean, Threw, d, e, n
<1>8. CASE d.queue # <<>>
  <2>1. Between(d) /\ e = onBeginOutput(d, ok)
    BY <1>2, <1>8
  <2>2. ~Wrote(d)
    <3>1. NoClose(d) /\ d.log \in Seq(FrameKinds)
      BY <2>1 DEF Between, Typed
    <3>2. d.log # <<>> => Len(d.log) \in DOMAIN d.log
      BY <3>1
    <3>. QED
      BY <3>1, <3>2 DEF NoClose, Wrote
  <2>3. ~d.failed => /\ d.op["closeOut"] # "Ready" /\ ~Told(d)
                     /\ d.op["closeOut"] = "Closed" => d.state = "Closed"
    BY <1>3, <1>4, <2>2 DEF Orderly
  <2>4. Onward(d, e) /\ Orderly(e) /\ Answered(e) /\ (~ok => e.failed)
    BY <1>6, <2>1, <2>3, BeginsClean
  <2>5. Onward(c, e)
    <3>1. c.log \in Seq(FrameKinds) /\ e.log \in Seq(FrameKinds)
      BY <1>2 DEF Good, Typed
    <3>. QED
      BY <1>3, <1>5, <2>4, <3>1 DEF Onward, Longer
  <2>. QED
    BY <2>4, <2>5 DEF Clean, Threw, d, e, n
<1>. QED
  BY <1>7, <1>8

LEMMA WriteEndsClean ==
  ASSUME NEW c, Good(c), c.writing, Orderly(c), Answered(c), NEW ok \in BOOLEAN
  PROVE  Clean(c, onOutput(c, Len(c.log), ok))
<1>1. CASE Head(c.queue) = "closeOut"
  BY <1>1, LastWritten
<1>2. CASE Head(c.queue) # "closeOut"
  <2>. DEFINE d == Ended(c, Len(c.log))
              e == NextWrite(c, Len(c.log), ok)
              f == EndOutput(e, Head(c.queue), FALSE)
  <2>0. Len(c.log) \in c.put .. Len(c.log)
    BY Counters
  <2>1. Good(e) /\ (Threw(d, e, ok) => ~e.writing)
    BY <1>2, <2>0, NextBegins
  <2>2. Clean(c, e) /\ (Threw(d, e, ok) => e.failed)
    BY <1>2, NextClean
  <2>3. onOutput(c, Len(c.log), ok) = IF Threw(d, e, ok) THEN onOutputError(e) ELSE f
    BY OutputOver
  <2>. HIDE DEF e
  <2>4. CASE Threw(d, e, ok)
    <3>1. Clean(e, onOutputError(e)) /\ Good(onOutputError(e))
      BY <2>1, <2>2, <2>4, OutputFails, OutputFailsClean
    <3>. QED
      BY <2>1, <2>2, <2>3, <2>4, <3>1, CleanTwice DEF Clean
  <2>5. CASE ~Threw(d, e, ok)
    <3>1. Head(c.queue) \in Outputs
      BY <2>0, WriteAtEnd DEF AtEnd
    <3>2. Clean(e, f) /\ Good(f)
      BY <1>2, <2>1, <2>2, <3>1, EndsOutputClean, EndsOutput DEF Clean
    <3>. HIDE DEF f
    <3>. QED
      BY <2>1, <2>2, <2>3, <2>5, <3>2, CleanTwice DEF Clean
  <2>. QED
    BY <2>4, <2>5
<1>. QED
  BY <1>1, <1>2

-----------------------------------------------------------------------------
(* Input.                                                                  *)

LEMMA InputFailsClean ==
  ASSUME NEW c, Good(c), Orderly(c), Answered(c)
  PROVE  Clean(c, onInputError(c))
<1>. DEFINE b == [c EXCEPT !.inputFailure = TRUE]
            e == SetError(b, "receive")
            s == FailShutdown(b, "unread")
<1>1. Core(c, b)
  BY DEF Good, Typed, Others, Fields, Core, Same, SameOutput, SameStream
<1>2. Keeps(c, b)
  BY DEF Good, Typed, Fields, Keeps
<1>3. onInputError(c) \in {c, e, s}
  BY DEF onInputError
<1>. HIDE DEF b
<1>4. Good(b) /\ Onward(c, b) /\ Orderly(b) /\ Answered(b)
  <2>1. Good(b)
    BY <1>1, SameCore
  <2>. QED
    BY <1>1, <1>2, <2>1, KeepsClean DEF Core, Waiting
<1>5. Good(e) /\ Clean(b, e)
  <2>1. "receive" \in Operations \ {"closeOut"} /\ "Ready" \in Stages
    BY DEF Operations, Outputs, Stages
  <2>2. Sets(b, e, "receive", "Ready") /\ Keeps(b, e)
    BY <1>4, <2>1, SetsStage, StagesKeep DEF Good
  <2>. HIDE DEF e
  <2>3. Good(e)
    BY <1>4, <2>1, <2>2, SetsGood
  <2>4. Onward(b, e) /\ Orderly(e) /\ Answered(e)
    BY <1>4, <2>1, <2>2, StageClean
  <2>. QED
    BY <2>3, <2>4 DEF Clean
<1>6. Good(s) /\ Clean(b, s)
  BY <1>4, ShutdownFails, ShutdownFailsClean
<1>. HIDE DEF e, s
<1>7. Clean(c, e) /\ Clean(c, s)
  BY <1>4, <1>5, <1>6, CleanTwice
<1>. QED
  BY <1>3, <1>7, ItselfClean

LEMMA PingHeardClean ==
  ASSUME NEW c, Good(c), Orderly(c), Answered(c), NEW ok \in BOOLEAN
  PROVE  LET d == onPing(c, ok)
         IN Clean(c, d) /\ (Threw(c, d, ok) => d.failed)
<1>. DEFINE b == begin(c, "pong")
            d == enqueue(b, "pong", ok)
<1>1. CASE c.state # "Open" \/ c.op["pong"] = "Pending"
  BY <1>1, ItselfClean DEF onPing, Threw
<1>2. CASE ~(c.state # "Open" \/ c.op["pong"] = "Pending")
  <2>1. "pong" \in Operations \ {"closeOut"} /\ "pong" \in Outputs /\ "Pending" \in Stages
    BY DEF Operations, Outputs, Stages
  <2>2. Sets(c, b, "pong", "Pending") /\ Keeps(c, b)
    BY <2>1, SetsStage, StagesKeep DEF Good
  <2>3. onPing(c, ok) = d
    BY <1>2 DEF onPing
  <2>. HIDE DEF b
  <2>4. Good(b) /\ b.state = "Open"
    BY <1>2, <2>1, <2>2, SetsGood DEF Sets
  <2>5. Onward(c, b) /\ Orderly(b) /\ Answered(b)
    BY <2>1, <2>2, StageClean
  <2>6. Clean(b, d) /\ (Threw(b, d, ok) => d.failed) /\ Good(d)
    BY <2>1, <2>4, <2>5, EnqueuesClean, Enqueues
  <2>. HIDE DEF d
  <2>7. Clean(c, d)
    BY <2>4, <2>5, <2>6, CleanTwice
  <2>. QED
    BY <2>2, <2>3, <2>6, <2>7 DEF Threw, Keeps
<1>. QED
  BY <1>1, <1>2

LEMMA LongerTwice ==
  ASSUME NEW c, NEW d, NEW e, Good(c), Good(d), Good(e), Longer(c, d), Longer(d, e)
  PROVE  Longer(c, e)
<1>1. /\ c.log \in Seq(FrameKinds) /\ d.log \in Seq(FrameKinds) /\ e.log \in Seq(FrameKinds)
  BY DEF Good, Typed
<1>2. \A i \in DOMAIN c.log : i \in DOMAIN d.log
  BY <1>1 DEF Longer
<1>. QED
  BY <1>1, <1>2 DEF Longer

(* The close frame of the peer: from here on the shutdown is expected.     *)
LEMMA PeerClosesClean ==
  ASSUME NEW c, Good(c), Orderly(c), c.state \in {"Open", "CloseSent"}, NEW ok \in BOOLEAN
  PROVE  LET d == onPeerClose(c, ok) IN Orderly(d) /\ Answered(d) /\ Longer(c, d)
<1>. DEFINE b == setCloseCode(c, "peer")
            d == onProtocolFinished(b)
            e == enqueueClose(d, ok)
<1>1. Good(b) /\ Keeps(c, b) /\ b.op = c.op /\ b.state = c.state
  BY SetCode, SetCodeKeeps, SameCore DEF Codes
<1>2. onPeerClose(c, ok) \in {onInputError(e), onProtocolDone(e)}
  BY DEF onPeerClose
<1>. HIDE DEF b
<1>3. Onward(c, b) /\ Orderly(b)
  BY <1>1, KeepsClean DEF Waiting
<1>4. Good(d) /\ d.state = "Finish" /\ Cuts(b, d)
  BY <1>1, Finishes, FinishCuts
<1>. HIDE DEF d
<1>5. Orderly(d) /\ Longer(b, d)
  BY <1>1, <1>3, <1>4, CutsOrderly
<1>6. Good(e) /\ Clean(d, e)
  BY <1>4, <1>5, EnqueuesClose, EnqueuesCloseClean
<1>. HIDE DEF e
<1>7. /\ Good(onInputError(e)) /\ Clean(e, onInputError(e))
      /\ Good(onProtocolDone(e)) /\ Clean(e, onProtocolDone(e))
  BY <1>6, InputFails, InputFailsClean, IsDone, DoneClean DEF Clean
<1>8. Longer(c, d)
  BY <1>1, <1>3, <1>4, <1>5, LongerTwice DEF Onward
<1>9. Longer(c, e)
  BY <1>4, <1>6, <1>8, LongerTwice DEF Clean, Onward
<1>10. Longer(c, onInputError(e)) /\ Longer(c, onProtocolDone(e))
  BY <1>6, <1>7, <1>9, LongerTwice DEF Clean, Onward
<1>. QED
  BY <1>2, <1>7, <1>10 DEF Clean

LEMMA ReceiveFailsClean ==
  ASSUME NEW c, Good(c), Orderly(c), Answered(c), c.state = "Finish", ~Waiting(c)
  PROVE  Clean(c, [SetError(c, "receive") EXCEPT !.state = "Done", !.reports = Append(@, "receive")])
<1>. DEFINE h == SetError(c, "receive")
            f == [h EXCEPT !.state = "Done"]
            g == [f EXCEPT !.reports = Append(@, "receive")]
            d == [h EXCEPT !.state = "Done", !.reports = Append(@, "receive")]
<1>1. "receive" \in Operations \ {"closeOut"} /\ "shutdown" \in Operations /\ "Ready" \in Stages
  BY DEF Operations, Outputs, Stages
<1>2. Sets(c, h, "receive", "Ready") /\ Keeps(c, h)
  BY <1>1, SetsStage, StagesKeep DEF Good
<1>. HIDE DEF h
<1>3. Good(h) /\ \A r \in Operations : h.op[r] = IF r = "receive" THEN "Ready" ELSE c.op[r]
  BY <1>1, <1>2, SetsGood
<1>4. h.state = "Finish" /\ ~Waiting(h)
  BY <1>1, <1>2, <1>3 DEF Sets, Waiting
<1>5. Onward(c, h) /\ Orderly(h) /\ Answered(h)
  BY <1>1, <1>2, StageClean
<1>6. Same(h, f) /\ f.state = "Done" /\ f.isPingPending = h.isPingPending /\ f.op = h.op
  BY <1>3 DEF Good, Typed, Others, Fields, Same, SameOutput, SameStream
<1>7. Keeps(h, f)
  BY <1>3 DEF Good, Typed, Fields, Keeps
<1>8. g = d
  BY <1>3 DEF Good, Typed, Fields
<1>. HIDE DEF f, d
<1>9. Good(f) /\ Untold(f)
  BY <1>3, <1>4, <1>6, DoneGood DEF Waiting
<1>10. Onward(h, f) /\ Orderly(f) /\ Answered(f)
  BY <1>3, <1>4, <1>5, <1>6, <1>7, KeepsClean DEF Waiting
<1>11. Clean(f, g) /\ Good(g)
  BY <1>6, <1>9, <1>10, ToldClean DEF ReportKinds
<1>. HIDE DEF g
<1>12. Onward(c, f)
  BY <1>3, <1>5, <1>9, <1>10, OnwardTwice
<1>13. Clean(c, g)
  BY <1>9, <1>11, <1>12, CleanTwice
<1>. QED
  BY <1>8, <1>13 DEF d, h

LEMMA ProtocolFailsClean ==
  ASSUME NEW c, Good(c), Orderly(c), Answered(c), NEW ok \in BOOLEAN
  PROVE  Clean(c, onProtocolError(c, ok))
<1>. DEFINE a == setCloseCode(c, "1002")
            b == [a EXCEPT !.inputFailure = TRUE]
            d == onProtocolFinished(b)
            e == enqueueClose(d, ok)
            g == [SetError(e, "receive") EXCEPT !.state = "Done", !.reports = Append(@, "receive")]
<1>1. CASE c.state # "Open"
  BY <1>1, ItselfClean DEF onProtocolError
<1>2. CASE c.state = "Open"
  <2>1. Good(a) /\ Core(c, a) /\ Keeps(c, a)
    BY SetCode, SetCodeKeeps, SameCore DEF Codes
  <2>2. onProtocolError(c, ok) \in {e, g, onProtocolDone(e)}
    BY <1>2 DEF onProtocolError
  <2>. HIDE DEF a
  <2>3. Core(a, b) /\ Keeps(a, b)
    <3>1. Core(a, b)
      BY <2>1 DEF Good, Typed, Others, Fields, Core, Same, SameOutput, SameStream
    <3>2. Keeps(a, b)
      BY <2>1 DEF Good, Typed, Fields, Keeps
    <3>. QED
      BY <3>1, <3>2
  <2>. HIDE DEF b
  <2>4. Good(b) /\ b.state = "Open" /\ b.op = c.op /\ Keeps(c, b)
    <3>1. Good(b)
      BY <2>1, <2>3, SameCore
    <3>. QED
      BY <1>2, <2>1, <2>3, <3>1 DEF Core, Keeps
  <2>5. Onward(c, b) /\ Orderly(b) /\ ~Waiting(b)
    BY <1>2, <2>4, KeepsClean, OpenIsNotWaiting DEF Waiting
  <2>6. Good(d) /\ d.state = "Finish" /\ d.op = b.op /\ Cuts(b, d)
    BY <2>4, Finishes, FinishCuts
  <2>. HIDE DEF d
  <2>7. ~Waiting(d) /\ Onward(b, d) /\ Orderly(d)
    <3>1. ~Waiting(d)
      BY <2>5, <2>6 DEF Waiting
    <3>. QED
      BY <2>4, <2>5, <2>6, <3>1, CutsClean
  <2>8. Good(e) /\ e.state = "Finish" /\ Clean(d, e) /\ ~Waiting(e)
    <3>1. /\ Good(e) /\ e.state = d.state
          /\ \A o \in Operations \ {"closeOut"} : e.op[o] = d.op[o]
      BY <2>6, EnqueuesClose
    <3>2. "shutdown" \in Operations \ {"closeOut"}
      BY DEF Operations, Outputs
    <3>. QED
      BY <2>6, <2>7, <3>1, <3>2, EnqueuesCloseClean DEF Waiting
  <2>. HIDE DEF e
  <2>9. Onward(c, d)
    BY <2>4, <2>5, <2>6, <2>7, OnwardTwice
  <2>10. Clean(c, e)
    BY <2>6, <2>8, <2>9, CleanTwice
  <2>11. Good(g) /\ Clean(e, g)
    BY <2>8, ReceiveFails, ReceiveFailsClean DEF Waiting, Clean
  <2>12. Good(onProtocolDone(e)) /\ Clean(e, onProtocolDone(e))
    BY <2>8, IsDone, DoneClean DEF Clean
  <2>. HIDE DEF g
  <2>13. Clean(c, g) /\ Clean(c, onProtocolDone(e))
    BY <2>8, <2>10, <2>11, <2>12, CleanTwice DEF Clean
  <2>. QED
    BY <2>2, <2>10, <2>13
<1>. QED
  BY <1>1, <1>2

(* Where the loop is, and how many frames are read, are not looked at.     *)
LEMMA PlaceClean ==
  ASSUME NEW c, Good(c), Orderly(c), Answered(c), NEW d, Keeps(c, d), d.op = c.op, d.state = c.state
  PROVE  Clean(c, d)
BY KeepsClean DEF Clean, Waiting

LEMMA FrameClean ==
  ASSUME NEW c, Good(c), Orderly(c), Answered(c), c.state \in {"Open", "CloseSent"},
         NEW f \in FrameKinds, NEW ok \in BOOLEAN
  PROVE  LET d == onFrame(c, f, ok)
         IN Orderly(d) /\ Answered(d) /\ Longer(c, d) /\ (f # "close" => Onward(c, d))
<1>. DEFINE h == Heard(c)
            leave == [c EXCEPT !.at = "idle"]
<1>1. Good(h) /\ Clean(c, h)
  <2>1. Core(c, h)
    BY DEF Heard, Good, Typed, Others, Fields, Core, Same, SameOutput, SameStream
  <2>2. Keeps(c, h)
    BY DEF Heard, Good, Typed, Fields, Keeps
  <2>. HIDE DEF h
  <2>. QED
    BY <2>1, <2>2, SameCore, PlaceClean DEF Core
<1>2. Good(leave) /\ Clean(c, leave) /\ leave.state = c.state
  <2>1. Elsewhere(c, leave)
    BY DEF Good, Typed, Others, Fields, Elsewhere, Places
  <2>2. Keeps(c, leave)
    BY DEF Good, Typed, Fields, Keeps
  <2>. HIDE DEF leave
  <2>. QED
    BY <2>1, <2>2, ElsewhereGood, PlaceClean DEF Elsewhere
<1>3. CASE f = "ping"
  <2>. DEFINE d == onPing(h, ok)
              e == [d EXCEPT !.at = "idle"]
  <2>1. Good(d) /\ Clean(h, d)
    BY <1>1, PingHeard, PingHeardClean DEF Clean
  <2>2. onFrame(c, f, ok) \in {d, onInputError(e)}
    BY <1>3 DEF onFrame
  <2>. HIDE DEF h
  <2>3. Clean(c, d)
    BY <1>1, <2>1, CleanTwice DEF Clean
  <2>. HIDE DEF d
  <2>4. Good(e) /\ Clean(d, e)
    <3>1. Elsewhere(d, e)
      BY <2>1 DEF Good, Typed, Others, Fields, Elsewhere, Places
    <3>2. Keeps(d, e)
      BY <2>1 DEF Good, Typed, Fields, Keeps
    <3>. HIDE DEF e
    <3>. QED
      BY <2>1, <3>1, <3>2, ElsewhereGood, PlaceClean DEF Elsewhere, Clean
  <2>. HIDE DEF e
  <2>5. Clean(c, e)
    BY <2>1, <2>3, <2>4, CleanTwice DEF Clean
  <2>6. Good(onInputError(e)) /\ Clean(e, onInputError(e))
    BY <2>4, InputFails, InputFailsClean DEF Clean
  <2>7. Clean(c, onInputError(e))
    BY <2>4, <2>5, <2>6, CleanTwice DEF Clean
  <2>. QED
    BY <2>2, <2>3, <2>7 DEF Clean, Onward
<1>4. CASE f = "pong"
  <2>. DEFINE d == [h EXCEPT !.clocks = @ \ {"ping"}, !.at = "slot"]
  <2>1. onFrame(c, f, ok) = d
    BY <1>4 DEF onFrame
  <2>. HIDE DEF h
  <2>2. Elsewhere(h, d)
    BY <1>1 DEF Good, Typed, Others, Fields, Elsewhere, Places
  <2>3. Keeps(h, d)
    BY <1>1 DEF Good, Typed, Fields, Keeps
  <2>. HIDE DEF d
  <2>4. Good(d) /\ Clean(h, d)
    BY <1>1, <2>2, <2>3, ElsewhereGood, PlaceClean DEF Elsewhere, Clean
  <2>5. Clean(c, d)
    BY <1>1, <2>4, CleanTwice DEF Clean
  <2>. QED
    BY <2>1, <2>5 DEF Clean, Onward
<1>5. CASE f = "data"
  <2>. DEFINE r == SetReady(h, "receive")
              d == [r EXCEPT !.at = "slot"]
  <2>1. onFrame(c, f, ok) \in {h, d}
    BY <1>5 DEF onFrame, onData
  <2>. HIDE DEF h
  <2>2. "receive" \in Operations \ {"closeOut"} /\ "Ready" \in Stages
    BY DEF Operations, Outputs, Stages
  <2>3. Sets(h, r, "receive", "Ready") /\ Keeps(h, r)
    BY <1>1, <2>2, SetsStage, StagesKeep DEF Good
  <2>. HIDE DEF r
  <2>4. Good(r)
    BY <1>1, <2>2, <2>3, SetsGood
  <2>5. Clean(h, r)
    BY <1>1, <2>2, <2>3, StageClean DEF Clean
  <2>6. Elsewhere(r, d)
    BY <2>4 DEF Good, Typed, Others, Fields, Elsewhere, Places
  <2>7. Keeps(r, d)
    BY <2>4 DEF Good, Typed, Fields, Keeps
  <2>. HIDE DEF d
  <2>8. Good(d) /\ Clean(r, d)
    BY <2>4, <2>5, <2>6, <2>7, ElsewhereGood, PlaceClean DEF Elsewhere, Clean
  <2>9. Onward(c, r)
    BY <1>1, <2>4, <2>5, OnwardTwice DEF Clean
  <2>10. Clean(c, d)
    BY <2>4, <2>8, <2>9, CleanTwice
  <2>. QED
    BY <1>1, <2>1, <2>10 DEF Clean, Onward
<1>6. CASE f = "big"
  <2>. DEFINE d == onProtocolError(leave, ok)
  <2>1. onFrame(c, f, ok) = d
    BY <1>6 DEF onFrame
  <2>. HIDE DEF leave
  <2>2. Good(d) /\ Clean(leave, d)
    BY <1>2, ProtocolFails, ProtocolFailsClean DEF Clean
  <2>. HIDE DEF d
  <2>3. Clean(c, d)
    BY <1>2, <2>2, CleanTwice DEF Clean
  <2>. QED
    BY <2>1, <2>3 DEF Clean, Onward
<1>7. CASE f = "close"
  <2>. DEFINE d == onPeerClose(leave, ok)
  <2>1. onFrame(c, f, ok) = d
    BY <1>7 DEF onFrame
  <2>. HIDE DEF leave
  <2>2. Good(d) /\ Orderly(d) /\ Answered(d) /\ Longer(leave, d)
    BY <1>2, PeerCloses, PeerClosesClean DEF Clean
  <2>. HIDE DEF d
  <2>3. Longer(c, d)
    BY <1>2, <2>2, LongerTwice DEF Clean, Onward
  <2>. QED
    BY <1>7, <2>1, <2>2, <2>3
<1>. QED
  BY <1>3, <1>4, <1>5, <1>6, <1>7 DEF FrameKinds

-----------------------------------------------------------------------------
(* The invariant of the two ends.                                          *)

Heeded(p, c) == Expecting(c) => c.got > 0 /\ ch[Other(p)].log[c.got] = "close"

JInv == \A p \in Peers : Orderly(ch[p]) /\ Answered(ch[p]) /\ Heeded(p, ch[p])

(* A step of p that keeps it.                                              *)
Turns(p) ==
  \E c : Becomes(p, c) /\ Orderly(c) /\ Answered(c) /\ Heeded(p, c) /\ Longer(ch[p], c)

LEMMA TurnsKeep ==
  ASSUME IInv, JInv, NEW p \in Peers, Turns(p)
  PROVE  JInv'
<1>1. PICK c : /\ ch' = [ch EXCEPT ![p] = c]
               /\ Orderly(c) /\ Answered(c) /\ Heeded(p, c) /\ Longer(ch[p], c)
  BY DEF Turns, Becomes
<1>. DEFINE q == Other(p)
<1>2. q \in Peers /\ q # p /\ Peers = {p, q} /\ Other(q) = p
  BY Ends
<1>3. ch'[p] = c /\ ch'[q] = ch[q]
  BY <1>1, <1>2 DEF IInv
<1>4. Expecting(c) => c.got > 0 /\ ch[q].log[c.got] = "close"
  BY <1>1 DEF Heeded
<1>5. /\ Good(ch[p]) /\ Good(ch[q]) /\ ch[q].got + ch[q].avail <= ch[p].put
      /\ Orderly(ch[q]) /\ Answered(ch[q])
      /\ Expecting(ch[q]) => ch[q].got > 0 /\ ch[p].log[ch[q].got] = "close"
  BY <1>2 DEF IInv, Reads, JInv, Heeded
<1>. HIDE DEF q
<1>6. Expecting(ch[q]) => ch[q].got > 0 /\ c.log[ch[q].got] = "close"
  <2>1. /\ ch[p].log \in Seq(FrameKinds) /\ Len(ch[p].log) \in Nat
        /\ ch[p].put \in Nat /\ ch[p].put <= Len(ch[p].log)
        /\ ch[q].got \in Nat /\ ch[q].avail \in Nat
    BY <1>5, Counters DEF Good, Typed
  <2>2. ch[q].got > 0 => ch[q].got \in DOMAIN ch[p].log
    <3>1. ch[q].got > 0 => ch[q].got \in 1 .. Len(ch[p].log)
      BY <1>5, <2>1
    <3>2. DOMAIN ch[p].log = 1 .. Len(ch[p].log)
      BY <2>1
    <3>. QED
      BY <3>1, <3>2
  <2>. QED
    BY <1>1, <1>5, <2>2 DEF Longer
<1>7. \A r \in Peers : /\ Orderly(ch'[r]) /\ Answered(ch'[r])
                       /\ Expecting(ch'[r]) =>
                            ch'[r].got > 0 /\ ch'[Other(r)].log[ch'[r].got] = "close"
  <2>1. q = Other(p) /\ \A r \in Peers : r = p \/ r = q
    BY <1>2 DEF q
  <2>2. ASSUME NEW r \in Peers, r = p
        PROVE  /\ Orderly(ch'[r]) /\ Answered(ch'[r])
               /\ Expecting(ch'[r]) => ch'[r].got > 0 /\ ch'[Other(r)].log[ch'[r].got] = "close"
    BY <1>1, <1>3, <1>4, <2>1, <2>2
  <2>3. ASSUME NEW r \in Peers, r = q
        PROVE  /\ Orderly(ch'[r]) /\ Answered(ch'[r])
               /\ Expecting(ch'[r]) => ch'[r].got > 0 /\ ch'[Other(r)].log[ch'[r].got] = "close"
    BY <1>2, <1>3, <1>5, <1>6, <2>3
  <2>. QED
    BY <2>1, <2>2, <2>3
<1>8. JInv' <=> \A r \in Peers : /\ Orderly(ch'[r]) /\ Answered(ch'[r])
                                 /\ Expecting(ch'[r]) =>
                                      ch'[r].got > 0 /\ ch'[Other(r)].log[ch'[r].got] = "close"
  BY DEF JInv, Heeded
<1>. QED
  BY <1>7, <1>8

LEMMA CleanTurns ==
  ASSUME JInv, NEW p \in Peers, NEW c, Clean(ch[p], c), c.got = ch[p].got, Becomes(p, c)
  PROVE  Turns(p)
<1>1. Heeded(p, c)
  BY DEF JInv, Heeded, Clean, Onward
<1>. QED
  BY <1>1 DEF Turns, Clean, Onward

LEMMA InputTurn ==
  ASSUME IInv, JInv, NEW p \in Peers, onInput(p) \/ onInputEof(p) \/ onInputThrows(p) \/ return(p)
  PROVE  Turns(p)
<1>. DEFINE c == ch[p]
            i == EndInput(c)
<1>1. Good(c) /\ Orderly(c) /\ Answered(c)
  BY DEF IInv, JInv
<1>2. /\ Elsewhere(c, i) /\ Good(i) /\ Clean(c, i) /\ i.got = c.got
  <2>1. Elsewhere(c, i)
    BY <1>1 DEF EndInput, Good, Typed, Others, Fields, Elsewhere, Places
  <2>2. Keeps(c, i)
    BY <1>1 DEF EndInput, Good, Typed, Fields, Keeps
  <2>3. i.got = c.got
    BY <1>1 DEF EndInput, Good, Typed, Fields
  <2>. HIDE DEF i
  <2>. QED
    BY <1>1, <2>1, <2>2, <2>3, ElsewhereGood, PlaceClean DEF Elsewhere
<1>3. CASE onInput(p)
  <2>1. PICK n \in 1 .. Unread(p) : Becomes(p, [i EXCEPT !.avail = @ + n])
    BY <1>3 DEF onInput
  <2>. DEFINE d == [i EXCEPT !.avail = @ + n]
  <2>. HIDE DEF i
  <2>2. Keeps(i, d) /\ d.op = i.op /\ d.state = i.state /\ d.got = i.got
    BY <1>2 DEF Good, Typed, Fields, Keeps
  <2>3. Becomes(p, d)
    BY <2>1
  <2>. HIDE DEF d
  <2>4. Clean(i, d)
    BY <1>2, <2>2, PlaceClean DEF Clean
  <2>5. Clean(c, d)
    <3>1. Onward(c, d)
      <4>1. c.log \in Seq(FrameKinds) /\ d.log = i.log
        BY <1>1, <2>2 DEF Good, Typed, Keeps
      <4>. QED
        BY <1>2, <2>4, <4>1 DEF Clean, Onward, Longer
    <3>. QED
      BY <2>4, <3>1 DEF Clean
  <2>. QED
    BY <1>2, <2>2, <2>3, <2>5, CleanTurns
<1>4. CASE onInputEof(p)
  <2>. DEFINE e == [i EXCEPT !.at = "idle"]
              d == onProtocolAborted(e)
  <2>1. Becomes(p, d)
    BY <1>4 DEF onInputEof
  <2>. HIDE DEF i
  <2>2. Elsewhere(i, e) /\ e.got = i.got
    BY <1>2 DEF Good, Typed, Others, Fields, Elsewhere, Places
  <2>3. Keeps(i, e)
    BY <1>2 DEF Good, Typed, Fields, Keeps
  <2>. HIDE DEF e
  <2>4. Good(e) /\ Clean(i, e)
    BY <1>2, <2>2, <2>3, ElsewhereGood, PlaceClean DEF Elsewhere, Clean
  <2>5. Good(d) /\ Later(e, d) /\ Clean(e, d)
    BY <2>4, Aborts, AbortClean DEF Clean
  <2>. HIDE DEF d
  <2>6. Clean(c, d)
    <3>1. Onward(c, e)
      BY <1>1, <1>2, <2>4, OnwardTwice DEF Clean
    <3>. QED
      BY <1>1, <2>4, <2>5, <3>1, CleanTwice
  <2>7. d.got = c.got
    BY <1>2, <2>2, <2>5 DEF Later
  <2>. QED
    BY <2>1, <2>6, <2>7, CleanTurns
<1>5. CASE onInputThrows(p)
  <2>. DEFINE e == [c EXCEPT !.reading = FALSE]
              d == onInputError(e)
  <2>1. Becomes(p, d)
    BY <1>5 DEF onInputThrows
  <2>2. Core(c, e)
    BY <1>1 DEF Good, Typed, Others, Fields, Core, Same, SameOutput, SameStream
  <2>3. Keeps(c, e)
    BY <1>1 DEF Good, Typed, Fields, Keeps
  <2>. HIDE DEF e
  <2>4. Good(e) /\ Later(c, e) /\ Clean(c, e)
    BY <1>1, <2>2, <2>3, SameCore, PlaceClean DEF Core
  <2>5. Good(d) /\ Later(e, d) /\ Clean(e, d)
    BY <2>4, InputFails, InputFailsClean DEF Clean
  <2>. HIDE DEF d
  <2>6. Clean(c, d)
    BY <1>1, <2>4, <2>5, CleanTwice DEF Clean
  <2>7. d.got = c.got
    BY <2>4, <2>5 DEF Later
  <2>. QED
    BY <2>1, <2>6, <2>7, CleanTurns
<1>6. CASE return(p)
  <2>. DEFINE d == [c EXCEPT !.at = "import"]
  <2>1. Becomes(p, d)
    BY <1>6 DEF return
  <2>2. Keeps(c, d) /\ d.op = c.op /\ d.state = c.state /\ d.got = c.got
    BY <1>1 DEF Good, Typed, Fields, Keeps
  <2>. HIDE DEF d
  <2>. QED
    BY <1>1, <2>1, <2>2, PlaceClean, CleanTurns
<1>. QED
  BY <1>3, <1>4, <1>5, <1>6

LEMMA ImportTurn ==
  ASSUME IInv, JInv, NEW p \in Peers, import(p)
  PROVE  Turns(p)
<1>. DEFINE c == ch[p]
<1>1. Good(c) /\ Orderly(c) /\ Answered(c) /\ Importing(c) /\ Reads(p, c) /\ c.at = "import"
  BY DEF IInv, JInv, import
<1>2. c.got \in Nat /\ c.avail \in Nat /\ c.put \in Nat
  BY <1>1, Counters
<1>3. CASE c.avail = 0
  <2>. DEFINE b == [c EXCEPT !.at = "idle", !.inputPending = FALSE]
              d == onBeginInput(b)
  <2>1. Becomes(p, d)
    BY <1>2, <1>3 DEF import
  <2>2. Elsewhere(c, b) /\ b.got = c.got
    BY <1>1 DEF Good, Typed, Others, Fields, Elsewhere, Places
  <2>3. Keeps(c, b)
    BY <1>1 DEF Good, Typed, Fields, Keeps
  <2>. HIDE DEF b
  <2>4. Good(b) /\ Clean(c, b)
    BY <1>1, <2>2, <2>3, ElsewhereGood, PlaceClean DEF Elsewhere
  <2>5. Good(d) /\ Later(b, d) /\ Clean(b, d)
    <3>1. Core(b, d) /\ Keeps(b, d)
      BY <2>4, BeginInput, BeginInputKeeps
    <3>. HIDE DEF d
    <3>. QED
      BY <2>4, <3>1, SameCore, PlaceClean DEF Core, Clean
  <2>. HIDE DEF d
  <2>6. Clean(c, d)
    BY <1>1, <2>4, <2>5, CleanTwice DEF Clean
  <2>7. d.got = c.got
    BY <2>2, <2>5 DEF Later
  <2>. QED
    BY <2>1, <2>6, <2>7, CleanTurns
<1>4. CASE c.avail > 0
  <2>. DEFINE b == [c EXCEPT !.avail = @ - 1, !.got = @ + 1]
              f == ch[Other(p)].log[c.got + 1]
  <2>1. PICK ok \in Outcomes(p) : Becomes(p, onFrame(b, f, ok))
    BY <1>4, <1>2 DEF import
  <2>2. Elsewhere(c, b) /\ b.got = c.got + 1
    BY <1>1, <1>2, <1>4 DEF Good, Typed, Others, Fields, Elsewhere
  <2>3. Keeps(c, b)
    BY <1>1 DEF Good, Typed, Fields, Keeps
  <2>. HIDE DEF b
  <2>4. Good(b) /\ Clean(c, b) /\ b.state \in {"Open", "CloseSent"}
    <3>1. c.state \in {"Open", "CloseSent"}
      BY <1>1, <1>4 DEF Importing
    <3>. QED
      BY <1>1, <2>2, <2>3, <3>1, ElsewhereGood, PlaceClean DEF Elsewhere
  <2>5. f \in FrameKinds
    <3>1. Good(ch[Other(p)])
      BY Ends DEF IInv
    <3>2. c.got + 1 \in 1 .. Len(ch[Other(p)].log)
      BY <1>1, <1>2, <1>4, <3>1, Counters DEF Reads
    <3>. QED
      BY <3>1, <3>2 DEF Good, Typed
  <2>. HIDE DEF f
  <2>. DEFINE d == onFrame(b, f, ok)
  <2>6. /\ Good(d) /\ Forward(b, d)
        /\ Orderly(d) /\ Answered(d) /\ Longer(b, d) /\ (f # "close" => Onward(b, d))
    <3>1. ok \in BOOLEAN
      BY <2>1, MayThrow
    <3>. QED
      BY <2>4, <2>5, <3>1, FrameRead, FrameClean DEF Clean
  <2>7. Becomes(p, d)
    BY <2>1
  <2>. HIDE DEF d
  <2>8. d.got = c.got + 1 /\ Longer(c, d)
    BY <1>1, <2>2, <2>4, <2>6, LongerTwice DEF Forward, Clean, Onward
  <2>9. ~Expecting(b)
    BY <2>4, NotToldYet DEF Expecting
  <2>10. Heeded(p, d)
    BY <1>2, <2>6, <2>8, <2>9 DEF Heeded, Onward, f
  <2>. QED
    BY <2>6, <2>7, <2>8, <2>10 DEF Turns
<1>. QED
  BY <1>2, <1>3, <1>4

LEMMA OutputTurn ==
  ASSUME IInv, JInv, ~PartialWrites, NEW p \in Peers, Output(p)
  PROVE  Turns(p)
<1>. DEFINE c == ch[p]
<1>1. Good(c) /\ Orderly(c) /\ Answered(c) /\ c.writing
  BY DEF IInv, JInv, Output, onOutputEnd, onOutputThrows
<1>2. CASE onOutputEnd(p)
  <2>0. Len(c.log) \in Nat /\ Len(c.log) \in c.put .. Len(c.log)
    BY <1>1, Counters
  <2>1. PICK n \in Len(c.log) .. Len(c.log), ok \in Outcomes(p) : Becomes(p, onOutput(c, n, ok))
    BY <1>2 DEF onOutputEnd
  <2>2. n = Len(c.log) /\ ok \in BOOLEAN
    BY <2>0, <2>1, MayThrow
  <2>. DEFINE d == onOutput(c, Len(c.log), ok)
  <2>3. Becomes(p, d)
    BY <2>1, <2>2
  <2>4. Clean(c, d)
    BY <1>1, <2>2, WriteEndsClean
  <2>5. d.got = c.got
    BY <1>1, <2>0, <2>2, WriteEnds DEF Written
  <2>. HIDE DEF d
  <2>. QED
    BY <2>3, <2>4, <2>5, CleanTurns
<1>3. CASE onOutputThrows(p)
  <2>. DEFINE b == [c EXCEPT !.writing = FALSE, !.failed = TRUE]
              d == onOutputError(b)
  <2>1. Becomes(p, d)
    BY <1>3 DEF onOutputThrows
  <2>2. Elsewhere(c, b) /\ b.writing = FALSE /\ b.failed = TRUE /\ b.got = c.got
    BY <1>1 DEF Good, Typed, Others, Fields, Elsewhere
  <2>. HIDE DEF b
  <2>3. Good(b) /\ Onward(c, b)
    BY <1>1, <2>2, ElsewhereGood, UntouchedOnward DEF Elsewhere, Waiting
  <2>4. Good(d) /\ Later(b, d) /\ Clean(b, d)
    BY <2>2, <2>3, OutputFails, OutputFailsClean
  <2>. HIDE DEF d
  <2>5. Clean(c, d)
    BY <1>1, <2>3, <2>4, CleanTwice
  <2>6. d.got = c.got
    BY <2>2, <2>4 DEF Later
  <2>. QED
    BY <2>1, <2>5, <2>6, CleanTurns
<1>. QED
  BY <1>2, <1>3 DEF Output

LEMMA ClocksClean ==
  ASSUME NEW c, Good(c), Orderly(c), Answered(c), NEW s
  PROVE  LET d == [c EXCEPT !.clocks = s] IN Clean(c, d) /\ d.got = c.got
<1>. DEFINE d == [c EXCEPT !.clocks = s]
<1>1. Keeps(c, d) /\ d.op = c.op /\ d.state = c.state /\ d.got = c.got
  BY DEF Good, Typed, Fields, Keeps
<1>. HIDE DEF d
<1>. QED
  BY <1>1, PlaceClean DEF d

LEMMA SendTurn ==
  ASSUME IInv, JInv, NEW p \in Peers, beginSend(p)
  PROVE  Turns(p)
<1>. DEFINE c == ch[p]
            b == begin(c, "send")
<1>1. Good(c) /\ Orderly(c) /\ Answered(c) /\ c.state = "Open"
  BY DEF IInv, JInv, beginSend
<1>2. PICK k \in DataKinds, ok \in Outcomes(p) :
        Becomes(p, enqueue([b EXCEPT !.kind = k], "send", ok))
  BY DEF beginSend
<1>. DEFINE a == [b EXCEPT !.kind = k]
            d == enqueue(a, "send", ok)
<1>3. "send" \in Operations \ {"closeOut"} /\ "Pending" \in Stages /\ "send" \in Outputs /\ ok \in BOOLEAN
  BY <1>2, MayThrow DEF Operations, Outputs, Stages
<1>4. Sets(c, b, "send", "Pending") /\ Keeps(c, b)
  BY <1>1, <1>3, SetsStage, StagesKeep DEF Good
<1>. HIDE DEF b
<1>5. Good(b) /\ Later(c, b) /\ b.state = "Open"
  BY <1>1, <1>3, <1>4, SetsGood DEF Sets
<1>6. Clean(c, b)
  BY <1>1, <1>3, <1>4, StageClean DEF Clean
<1>7. Elsewhere(b, a) /\ a.got = b.got
  BY <1>2, <1>5 DEF Good, Typed, Others, Fields, Elsewhere
<1>8. Keeps(b, a)
  BY <1>5 DEF Good, Typed, Fields, Keeps
<1>9. Becomes(p, d)
  BY <1>2
<1>. HIDE DEF a
<1>10. Good(a) /\ a.state = "Open" /\ Clean(b, a)
  BY <1>5, <1>6, <1>7, <1>8, ElsewhereGood, PlaceClean DEF Elsewhere, Clean
<1>11. Good(d) /\ Later(a, d) /\ Clean(a, d)
  BY <1>3, <1>10, Enqueues, EnqueuesClean DEF Clean
<1>. HIDE DEF d
<1>12. Onward(c, a)
  BY <1>1, <1>5, <1>6, <1>10, OnwardTwice DEF Clean
<1>13. Clean(c, d)
  BY <1>1, <1>10, <1>11, <1>12, CleanTwice
<1>14. d.got = c.got
  BY <1>5, <1>7, <1>11 DEF Later
<1>. QED
  BY <1>9, <1>13, <1>14, CleanTurns

LEMMA PingTurn ==
  ASSUME IInv, JInv, NEW p \in Peers, beginPing(p)
  PROVE  Turns(p)
<1>. DEFINE c == ch[p]
            b == begin(c, "ping")
            a == [b EXCEPT !.isPingPending = TRUE]
<1>1. Good(c) /\ Orderly(c) /\ Answered(c) /\ c.state = "Open"
  BY DEF IInv, JInv, beginPing
<1>2. PICK ok \in Outcomes(p) :
        LET d == enqueue(a, "ping", ok)
        IN Becomes(p, IF Threw(a, d, ok) THEN d
                      ELSE [d EXCEPT !.clocks = @ \cup (a.durations \cap {"ping"})])
  BY DEF beginPing
<1>. DEFINE d == enqueue(a, "ping", ok)
            e == [d EXCEPT !.clocks = d.clocks \cup (a.durations \cap {"ping"})]
<1>3. "ping" \in Operations \ {"closeOut"} /\ "Pending" \in Stages /\ "ping" \in Outputs /\ ok \in BOOLEAN
  BY <1>2, MayThrow DEF Operations, Outputs, Stages
<1>4. Sets(c, b, "ping", "Pending") /\ Keeps(c, b)
  BY <1>1, <1>3, SetsStage, StagesKeep DEF Good
<1>. HIDE DEF b
<1>5. Good(b) /\ Later(c, b) /\ b.state = "Open"
  BY <1>1, <1>3, <1>4, SetsGood DEF Sets
<1>6. Clean(c, b)
  BY <1>1, <1>3, <1>4, StageClean DEF Clean
<1>7. Same(b, a) /\ a.state = b.state /\ a.op = b.op /\ a.isPingPending = TRUE
  BY <1>5 DEF Good, Typed, Others, Fields, Same, SameOutput, SameStream
<1>8. Keeps(b, a)
  BY <1>5 DEF Good, Typed, Fields, Keeps
<1>9. Becomes(p, d) \/ Becomes(p, e)
  BY <1>2
<1>. HIDE DEF a
<1>10. Good(a) /\ Later(b, a) /\ a.state = "Open"
  <2>1. a.state \in States /\ a.op \in [Operations -> Stages] /\ a.isPingPending \in BOOLEAN /\ Pings(a)
    BY <1>5, <1>7 DEF Good, Typed, Pings
  <2>2. a.op["shutdown"] = "Pending" => a.state \in {"CloseSent", "Finish"}
    BY <1>5, <1>7 DEF Good, Telling
  <2>. QED
    BY <1>5, <1>7, <2>1, <2>2, SameGood
<1>11. Clean(b, a)
  BY <1>5, <1>6, <1>7, <1>8, PlaceClean DEF Clean
<1>12. Good(d) /\ Later(a, d) /\ Clean(a, d)
  BY <1>3, <1>10, <1>11, Enqueues, EnqueuesClean DEF Clean
<1>. HIDE DEF d
<1>13. Onward(c, a)
  BY <1>1, <1>5, <1>6, <1>10, <1>11, OnwardTwice DEF Clean
<1>14. Clean(c, d) /\ d.got = c.got
  BY <1>1, <1>5, <1>10, <1>12, <1>13, CleanTwice DEF Later
<1>15. Clean(d, e) /\ e.got = d.got
  BY <1>12, <1>14, ClocksClean DEF Clean
<1>16. Good(e)
  <2>1. d.clocks \cup (a.durations \cap {"ping"}) \subseteq AllClocks
    BY <1>12 DEF Good, Others, AllClocks
  <2>. QED
    BY <1>12, <2>1, ClocksGood
<1>. HIDE DEF e
<1>17. Clean(c, e)
  BY <1>1, <1>12, <1>14, <1>15, <1>16, CleanTwice DEF Clean
<1>. QED
  BY <1>9, <1>14, <1>15, <1>17, CleanTurns

LEMMA ReceiveTurn ==
  ASSUME IInv, JInv, NEW p \in Peers, beginReceive(p)
  PROVE  Turns(p)
<1>. DEFINE c == ch[p]
            b == begin(c, "receive")
            d == onBeginInput(b)
<1>1. Good(c) /\ Orderly(c) /\ Answered(c) /\ Becomes(p, d)
  BY DEF IInv, JInv, beginReceive
<1>2. "receive" \in Operations \ {"closeOut"} /\ "Pending" \in Stages
  BY DEF Operations, Outputs, Stages
<1>3. Sets(c, b, "receive", "Pending") /\ Keeps(c, b)
  BY <1>1, <1>2, SetsStage, StagesKeep DEF Good
<1>. HIDE DEF b
<1>4. Good(b) /\ Later(c, b)
  BY <1>1, <1>2, <1>3, SetsGood
<1>5. Clean(c, b)
  BY <1>1, <1>2, <1>3, StageClean DEF Clean
<1>6. Core(b, d) /\ Keeps(b, d)
  BY <1>4, BeginInput, BeginInputKeeps
<1>. HIDE DEF d
<1>7. Good(d) /\ Later(b, d) /\ Clean(b, d)
  BY <1>4, <1>5, <1>6, SameCore, PlaceClean DEF Core, Clean
<1>8. Clean(c, d) /\ d.got = c.got
  BY <1>1, <1>4, <1>5, <1>7, CleanTwice DEF Clean, Later
<1>. QED
  BY <1>1, <1>8, CleanTurns

LEMMA ShutdownTurn ==
  ASSUME IInv, JInv, NEW p \in Peers, beginShutdown(p)
  PROVE  Turns(p)
<1>. DEFINE c == ch[p]
            b == begin(c, "shutdown")
            s == setCloseCode(b, "local")
            a == [s EXCEPT !.state = "CloseSent", !.clocks = c.durations \cap {"close"}]
<1>1. Good(c) /\ Orderly(c) /\ c.state = "Open"
  BY DEF IInv, JInv, beginShutdown
<1>2. PICK ok \in Outcomes(p) :
        LET d == enqueueClose(a, ok)
        IN Becomes(p, IF Threw(a, d, ok) THEN d ELSE onBeginInput(d))
  BY DEF beginShutdown
<1>. DEFINE d == enqueueClose(a, ok)
            e == onBeginInput(d)
<1>3. "shutdown" \in Operations /\ "closeOut" \in Operations /\ "ping" \in Operations /\ ok \in BOOLEAN
  BY <1>2, MayThrow DEF Operations, Outputs
<1>4. Sets(c, b, "shutdown", "Pending") /\ Keeps(c, b)
  BY <1>1, <1>3, SetsStage, StagesKeep DEF Good
<1>5. Becomes(p, d) \/ Becomes(p, e)
  BY <1>2
<1>. HIDE DEF b
<1>6. Typed(b) /\ Others(b)
  <2>1. b.op \in [Operations -> Stages]
    BY <1>1, <1>4 DEF Sets, Good, Typed, Stages
  <2>. QED
    BY <1>1, <1>4, <2>1 DEF Sets, Same, SameOutput, SameStream, Good, Typed
<1>7. Same(b, s) /\ s.op = b.op /\ s.isPingPending = b.isPingPending
  BY <1>6 DEF setCloseCode, Typed, Others, Fields, Codes, Same, SameOutput, SameStream
<1>8. Keeps(b, s)
  BY <1>6 DEF setCloseCode, Typed, Fields, Keeps
<1>. HIDE DEF s
<1>9. Same(c, s) /\ s.op = [c.op EXCEPT !["shutdown"] = "Pending"] /\ s.isPingPending = c.isPingPending
  BY <1>4, <1>7 DEF Sets, Same, SameOutput, SameStream
<1>10. Same(c, a) /\ a.op = s.op /\ a.isPingPending = c.isPingPending /\ a.state = "CloseSent"
  <2>1. c.durations \cap {"close"} \subseteq AllClocks
    BY DEF AllClocks
  <2>. QED
    BY <1>9, <2>1 DEF Others, Fields, Same, SameOutput, SameStream
<1>11. Keeps(c, a)
  <2>1. Keeps(s, a)
    BY <1>9 DEF Same, Fields, Keeps
  <2>. QED
    BY <1>4, <1>8, <2>1 DEF Keeps
<1>. HIDE DEF a
<1>12. a.op \in [Operations -> Stages] /\ a.op["closeOut"] = c.op["closeOut"] /\ a.op["ping"] = c.op["ping"]
  BY <1>1, <1>9, <1>10 DEF Good, Typed, Operations, Outputs, Stages
<1>13. Good(a) /\ Later(c, a)
  <2>1. Pings(a) /\ a.isPingPending \in BOOLEAN /\ a.state \in States
    BY <1>1, <1>10, <1>12 DEF Good, Typed, Pings, States
  <2>. QED
    BY <1>1, <1>10, <1>12, <2>1, SameGood
<1>14. (Told(a) <=> Told(c)) /\ (Wrote(a) <=> Wrote(c))
  BY <1>11 DEF Told, Wrote, Keeps
<1>15. Onward(c, a)
  <2>1. c.log \in Seq(FrameKinds)
    BY <1>1 DEF Good, Typed
  <2>. QED
    BY <1>10, <1>11, <1>14, <2>1 DEF Onward, Longer, Expecting, Keeps
<1>16. Orderly(a)
  BY <1>1, <1>10, <1>11, <1>12, <1>14 DEF Orderly, Keeps
<1>17. Good(d) /\ Later(a, d) /\ Clean(a, d)
  BY <1>3, <1>10, <1>13, <1>16, EnqueuesClose, EnqueuesCloseClean
<1>. HIDE DEF d
<1>18. Clean(c, d) /\ d.got = c.got
  BY <1>1, <1>13, <1>15, <1>17, CleanTwice DEF Later
<1>19. Core(d, e) /\ Keeps(d, e)
  BY <1>17, BeginInput, BeginInputKeeps
<1>. HIDE DEF e
<1>20. Good(e) /\ Later(d, e) /\ Clean(d, e)
  BY <1>17, <1>18, <1>19, SameCore, PlaceClean DEF Core, Clean
<1>21. Clean(c, e) /\ e.got = c.got
  BY <1>1, <1>17, <1>18, <1>20, CleanTwice DEF Clean, Later
<1>. QED
  BY <1>5, <1>18, <1>21, CleanTurns

LEMMA EndTurn ==
  ASSUME IInv, JInv, NEW p \in Peers, end(p)
  PROVE  Turns(p)
<1>. DEFINE c == ch[p]
<1>1. Good(c) /\ Orderly(c) /\ Answered(c)
  BY DEF IInv, JInv
<1>2. PICK o \in {"send", "receive", "ping", "shutdown"} :
        Becomes(p, [c EXCEPT !.op[o] = "Idle", !.error = @ \ {o}, !.isPingPending = @ /\ o # "ping"])
  BY DEF end
<1>. DEFINE d == [c EXCEPT !.op[o] = "Idle", !.error = c.error \ {o},
                           !.isPingPending = c.isPingPending /\ o # "ping"]
<1>3. Becomes(p, d)
  BY <1>2
<1>4. Keeps(c, d) /\ d.got = c.got
  BY <1>1 DEF Good, Typed, Fields, Keeps
<1>5. d.state = c.state /\ d.op = [c.op EXCEPT ![o] = "Idle"]
  BY <1>1 DEF Good, Typed, Fields
<1>. HIDE DEF d
<1>6. d.op["closeOut"] = c.op["closeOut"] /\ (Waiting(d) => Waiting(c))
  BY <1>1, <1>2, <1>5 DEF Good, Typed, Waiting, Operations, Outputs
<1>7. Clean(c, d)
  BY <1>1, <1>4, <1>5, <1>6, KeepsClean DEF Clean
<1>. QED
  BY <1>3, <1>4, <1>7, CleanTurns

LEMMA CloseTurn ==
  ASSUME IInv, JInv, NEW p \in Peers, close(p)
  PROVE  Turns(p)
<1>. DEFINE d == onClose(ch[p])
<1>1. Becomes(p, d) /\ Clean(ch[p], d) /\ Later(ch[p], d)
  BY Closes, CloseClean DEF IInv, JInv, close
<1>. HIDE DEF d
<1>. QED
  BY <1>1, CleanTurns DEF Later

LEMMA TimerTurn ==
  ASSUME IInv, JInv, NEW p \in Peers, Timer(p)
  PROVE  Turns(p)
<1>. DEFINE c == ch[p]
<1>1. Good(c) /\ Orderly(c) /\ Answered(c)
  BY DEF IInv, JInv
<1>2. CASE onTimeout(p)
  <2>. DEFINE d == onProtocolAborted(c)
  <2>1. Becomes(p, d) /\ Later(c, d) /\ Clean(c, d)
    BY <1>1, <1>2, Aborts, AbortClean DEF onTimeout
  <2>. HIDE DEF d
  <2>. QED
    BY <2>1, CleanTurns DEF Later
<1>3. CASE onPingDelay(p)
  <2>. DEFINE b == begin(c, "ping")
              waits == b.durations \cap {"ping"}
  <2>1. PICK ok \in Outcomes(p) :
          LET d == enqueue(b, "ping", ok)
          IN Becomes(p, IF Threw(b, d, ok) \/ waits = {} THEN d
                        ELSE [d EXCEPT !.clocks = (@ \cup waits) \ {"delay"}])
    BY <1>3 DEF onPingDelay
  <2>. DEFINE d == enqueue(b, "ping", ok)
              e == [d EXCEPT !.clocks = (d.clocks \cup waits) \ {"delay"}]
  <2>2. /\ "ping" \in Operations \ {"closeOut"} /\ "Pending" \in Stages /\ "ping" \in Outputs
        /\ ok \in BOOLEAN /\ c.state = "Open"
    BY <1>3, <2>1, MayThrow DEF Operations, Outputs, Stages, onPingDelay
  <2>3. Sets(c, b, "ping", "Pending") /\ Keeps(c, b)
    BY <1>1, <2>2, SetsStage, StagesKeep DEF Good
  <2>4. Becomes(p, d) \/ Becomes(p, e)
    BY <2>1
  <2>. HIDE DEF b
  <2>5. Good(b) /\ Later(c, b) /\ b.state = "Open"
    BY <1>1, <2>2, <2>3, SetsGood DEF Sets
  <2>6. Clean(c, b)
    BY <1>1, <2>2, <2>3, StageClean DEF Clean
  <2>7. Good(d) /\ Later(b, d) /\ Clean(b, d)
    BY <2>2, <2>5, <2>6, Enqueues, EnqueuesClean DEF Clean
  <2>. HIDE DEF d
  <2>8. Clean(c, d) /\ d.got = c.got
    BY <1>1, <2>5, <2>6, <2>7, CleanTwice DEF Clean, Later
  <2>9. Clean(d, e) /\ e.got = d.got
    BY <2>7, <2>8, ClocksClean DEF Clean
  <2>10. Good(e)
    <3>1. (d.clocks \cup waits) \ {"delay"} \subseteq AllClocks
      BY <2>7 DEF Good, Others, AllClocks
    <3>. QED
      BY <2>7, <3>1, ClocksGood
  <2>. HIDE DEF e
  <2>11. Clean(c, e)
    BY <1>1, <2>7, <2>8, <2>9, <2>10, CleanTwice DEF Clean
  <2>. QED
    BY <2>4, <2>8, <2>9, <2>11, CleanTurns
<1>. QED
  BY <1>2, <1>3 DEF Timer

-----------------------------------------------------------------------------
(* The theorem.                                                            *)

LEMMA InitClean ==
  ASSUME Init
  PROVE  JInv
<1>. SUFFICES ASSUME NEW p \in Peers
              PROVE  Orderly(ch[p]) /\ Answered(ch[p]) /\ Heeded(p, ch[p])
  BY DEF JInv
<1>. DEFINE c == ch[p]
<1>1. /\ c.log = <<>> /\ c.put = 0 /\ c.reports = <<>> /\ c.state = "Open"
      /\ c.op = [o \in Operations |-> "Idle"]
      /\ c.outputFailure = FALSE /\ c.outputPending = FALSE
  BY DEF Init, Opened
<1>. HIDE DEF c
<1>2. ~Waiting(c) /\ ~Told(c) /\ c.op["closeOut"] = "Idle"
  BY <1>1 DEF Waiting, Told, Operations, Outputs
<1>. QED
  BY <1>1, <1>2 DEF Orderly, Answered, Heeded, Expecting, c

LEMMA TurnsNext ==
  ASSUME IInv, JInv, ~PartialWrites, Next
  PROVE  JInv'
<1>1. PICK p \in Peers : Input(p) \/ Output(p) \/ Call(p) \/ Timer(p)
  BY DEF Next
<1>2. CASE Input(p)
  BY <1>2, InputTurn, ImportTurn, TurnsKeep DEF Input
<1>3. CASE Output(p)
  BY <1>3, OutputTurn, TurnsKeep
<1>4. CASE Call(p)
  BY <1>4, SendTurn, PingTurn, ReceiveTurn, ShutdownTurn, EndTurn, CloseTurn, TurnsKeep DEF Call
<1>5. CASE Timer(p)
  BY <1>5, TimerTurn, TurnsKeep
<1>. QED
  BY <1>1, <1>2, <1>3, <1>4, <1>5

(* A shutdown that is ready without an error has completed the handshake:  *)
(* the close frame of the peer was read and the own one is written.  For   *)
(* any calls, clocks and slots, if endOutput of the stream returns only    *)
(* when its buffer is empty: onOutput takes it as the end of the frame in  *)
(* front.                                                                  *)
THEOREM ShutdownsAreClean ==
  ASSUME ~PartialWrites
  PROVE  Spec => []CleanShutdown
<1>1. Init => JInv
  BY InitClean
<1>2. IInv /\ JInv /\ [Next]_ch => JInv'
  <2>1. ASSUME IInv, JInv, Next PROVE JInv'
    BY <2>1, TurnsNext
  <2>2. ASSUME JInv, UNCHANGED ch PROVE JInv'
    BY <2>2 DEF JInv, Heeded
  <2>. QED
    BY <2>1, <2>2
<1>3. IInv /\ JInv => CleanShutdown
  <2>. SUFFICES ASSUME IInv, JInv, NEW p \in Peers,
                       "shutdown" \in ToSet(ch[p].reports), ~ch[p].failed
                PROVE  /\ ch[p].got > 0 /\ ch[Other(p)].log[ch[p].got] = "close"
                       /\ ch[p].put > 0 /\ ch[p].log[ch[p].put] = "close"
    BY DEF CleanShutdown
  <2>. DEFINE c == ch[p]
  <2>1. c.log \in Seq(FrameKinds) /\ Orderly(c) /\ Heeded(p, c)
    BY DEF IInv, JInv, Good, Typed
  <2>2. Told(c)
    BY DEF ToSet, Told
  <2>3. Wrote(c) /\ c.put = Len(c.log)
    BY <2>1, <2>2 DEF Orderly
  <2>4. c.put > 0
    <3>1. Len(c.log) \in Nat /\ Len(c.log) # 0
      BY <2>1, <2>3, EmptySeq DEF Wrote
    <3>. QED
      BY <2>3, <3>1
  <2>. QED
    BY <2>1, <2>2, <2>3, <2>4 DEF Wrote, Heeded, Expecting
<1>. QED
  BY Invariant, <1>1, <1>2, <1>3, PTL DEF Spec
=============================================================================
