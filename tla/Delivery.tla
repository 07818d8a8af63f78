------------------------------ MODULE Delivery -------------------------------
(***************************************************************************)
(* What event sources and sinks promise to the threads that use them,      *)
(* without mutexes, maps, iterators and deferred removal: every call takes *)
(* effect at once between its begin and its return, a send has its source  *)
(* for itself except for what the receivers do, it serves every link there *)
(* was when it began and still is, once, and an object is destroyed only   *)
(* when nothing leads to it any more.                                      *)
(***************************************************************************)
EXTENDS Integers

CONSTANTS Thread, Source, Sink, None

LinkOps == {"connect", "subscribe", "disconnect", "unsubscribe"}
Types == {"any", "typed"}
Kind == Source \X Sink \X Types

VARIABLES alive,   \* sources and sinks not destroyed
          links,   \* how many there are of each link
          due,     \* how many of them the send in progress has still to serve
          fresh,   \* how many of them no send has met
          sender,  \* who sends from which source
          inside,  \* who is in a receiver of its send
          call     \* what each thread does

counts == <<links, due, fresh>>
dVars == <<alive, counts, sender, inside, call>>

NoCall == [op |-> "none", source |-> None, sink |-> None]
Sending(e) == [op |-> "send", source |-> e, sink |-> None]

Init ==
  /\ alive = Source \cup Sink
  /\ links = [k \in Kind |-> 0]
  /\ due = [k \in Kind |-> 0]
  /\ fresh = [k \in Kind |-> 0]
  /\ sender = [e \in Source |-> None]
  /\ inside = [t \in Thread |-> FALSE]
  /\ call = [t \in Thread |-> NoCall]

Begin(t) ==
  /\ call[t].op = "none" \/ (call[t].op = "send" /\ inside[t])
  /\ \E op \in LinkOps \cup {"send", "deleteSource", "deleteSink"}, e \in Source \cup {None}, s \in Sink \cup {None} :
       /\ inside[t] => op \in LinkOps /\ e = call[t].source
       /\ call' = [call EXCEPT ![t] = [op |-> op, source |-> e, sink |-> s]]
  /\ UNCHANGED <<alive, counts, sender, inside>>

-----------------------------------------------------------------------------
(* Links.                                                                  *)

Between(e, s, types) == {k \in Kind : k[1] = e /\ k[2] = s /\ k[3] \in types}

More(count, K) == [k \in Kind |-> IF k \in K THEN count[k] + 1 ELSE count[k]]
NoMore(count, K) == [k \in Kind |-> IF k \in K THEN 0 ELSE count[k]]

Tie(e, s, type) ==
  /\ links' = More(links, Between(e, s, {type}))
  /\ fresh' = More(fresh, Between(e, s, {type}))
  /\ UNCHANGED due

Cut(e, s, types) ==
  /\ links' = NoMore(links, Between(e, s, types))
  /\ due' = NoMore(due, Between(e, s, types))
  /\ fresh' = NoMore(fresh, Between(e, s, types))

(* connect, disconnect, subscribe, unsubscribe take effect and return, to  *)
(* the send whose receiver called them or to the program.                  *)
ChangeLink(t) ==
  LET op == call[t].op
      e == call[t].source
      s == call[t].sink
  IN
  /\ e \in alive \cap Source /\ s \in alive \cap Sink
  /\ \/ op = "connect" /\ Tie(e, s, "any")
     \/ op = "subscribe" /\ Tie(e, s, "typed")
     \/ op = "disconnect" /\ Cut(e, s, Types)
     \/ op = "unsubscribe" /\ Cut(e, s, {"typed"})
  /\ \/ sender[e] = t /\ call' = [call EXCEPT ![t] = Sending(e)]
     \/ sender[e] = None /\ call' = [call EXCEPT ![t] = NoCall]
  /\ UNCHANGED <<alive, sender, inside>>

-----------------------------------------------------------------------------
(* Sends.                                                                  *)

BeginSend(t) ==
  LET e == call[t].source IN
  /\ call[t].op = "send"
  /\ e \in alive \cap Source /\ sender[e] = None
  /\ sender' = [sender EXCEPT ![e] = t]
  /\ due' = [k \in Kind |-> IF k[1] = e THEN links[k] ELSE due[k]]
  /\ fresh' = [k \in Kind |-> IF k[1] = e THEN 0 ELSE fresh[k]]
  /\ UNCHANGED <<alive, links, inside, call>>

(* A link that was made during the send may be served or not.              *)
Deliver(t) ==
  LET e == call[t].source IN
  /\ call[t].op = "send"
  /\ sender[e] = t /\ ~inside[t]
  /\ \E k \in Kind :
       /\ k[1] = e /\ k[2] \in alive /\ links[k] > 0
       /\ \/ due[k] > 0 /\ due' = [due EXCEPT ![k] = @ - 1] /\ UNCHANGED fresh
          \/ fresh[k] > 0 /\ fresh' = [fresh EXCEPT ![k] = @ - 1] /\ UNCHANGED due
  /\ inside' = [inside EXCEPT ![t] = TRUE]
  /\ UNCHANGED <<alive, links, sender, call>>

Return(t) ==
  /\ call[t].op = "send" /\ inside[t]
  /\ inside' = [inside EXCEPT ![t] = FALSE]
  /\ UNCHANGED <<alive, counts, sender, call>>

(* A send ends when nothing is due, or when a receiver throws.             *)
EndSend(t) ==
  LET e == call[t].source IN
  /\ call[t].op = "send"
  /\ e \in Source /\ sender[e] = t
  /\ inside[t] \/ \A k \in Kind : k[1] = e => due[k] = 0
  /\ sender' = [sender EXCEPT ![e] = None]
  /\ due' = [k \in Kind |-> IF k[1] = e THEN 0 ELSE due[k]]
  /\ fresh' = [k \in Kind |-> IF k[1] = e THEN links[k] ELSE fresh[k]]
  /\ inside' = [inside EXCEPT ![t] = FALSE]
  /\ call' = [call EXCEPT ![t] = NoCall]
  /\ UNCHANGED <<alive, links>>

-----------------------------------------------------------------------------
(* Destructors take their links one by one.                                *)

CutLink(t) ==
  /\ \E e \in alive \cap Source, s \in alive \cap Sink :
       /\ \/ call[t].op = "deleteSource" /\ call[t].source = e
          \/ call[t].op = "deleteSink" /\ call[t].sink = s
       /\ sender[e] = None
       /\ \E k \in Between(e, s, Types) : links[k] > 0
       /\ Cut(e, s, Types)
  /\ UNCHANGED <<alive, sender, inside, call>>

DeleteSource(t) ==
  LET e == call[t].source IN
  /\ call[t].op = "deleteSource"
  /\ e \in alive \cap Source /\ sender[e] = None
  /\ \A k \in Kind : k[1] = e => links[k] = 0
  /\ alive' = alive \ {e}
  /\ call' = [call EXCEPT ![t] = NoCall]
  /\ UNCHANGED <<counts, sender, inside>>

DeleteSink(t) ==
  LET s == call[t].sink IN
  /\ call[t].op = "deleteSink"
  /\ s \in alive \cap Sink
  /\ \A k \in Kind : k[2] = s => links[k] = 0
  /\ alive' = alive \ {s}
  /\ call' = [call EXCEPT ![t] = NoCall]
  /\ UNCHANGED <<counts, sender, inside>>

Next ==
  \E t \in Thread :
    \/ Begin(t) \/ ChangeLink(t)
    \/ BeginSend(t) \/ Deliver(t) \/ Return(t) \/ EndSend(t)
    \/ CutLink(t) \/ DeleteSource(t) \/ DeleteSink(t)

Spec == Init /\ [][Next]_dVars
=============================================================================
