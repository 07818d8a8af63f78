----------------------------- MODULE EventSource -----------------------------
(***************************************************************************)
(* Pt::System::EventSource and EventSink: sources send events to sinks of  *)
(* other threads; connect, disconnect, subscribe, unsubscribe, send and    *)
(* both destructors may run at once.  A source has a multimap of sinks, a  *)
(* sink has a list of sources, each under the mutex of its object, and one *)
(* mutex of the library (dmx) keeps destructors apart: ~EventSource locks  *)
(* dmx, the source, then the sinks; ~EventSink locks the sink first and    *)
(* only tries dmx, giving the sink back when another destructor has it.    *)
(*                                                                         *)
(* The program keeps the rules of C++: it destroys no object that a call   *)
(* it made still names, and calls nothing on an object it is destroying.   *)
(* That a source reaches a sink through its map, or a sink a source        *)
(* through its list, is the library's concern.  While it receives an       *)
(* event a sink may connect and disconnect sinks of the sending source.    *)
(***************************************************************************)
EXTENDS Integers, Sequences, SequencesExt, FiniteSets

CONSTANTS Thread, Source, Sink,
          Dmx,            \* the library's mutex
          None,           \* no owner, no sink, no source
          MaxEntries,     \* bound: entries of all sources
          SubscribeTwice  \* sinks are subscribed twice or not before unsubscribe

ASSUME EventSourceAssumption ==
  /\ Source \cap Sink = {}
  /\ Dmx \notin Source \cup Sink
  /\ None \notin Thread \cup Source \cup Sink \cup {Dmx}
  /\ MaxEntries \in Nat
  /\ SubscribeTwice \in BOOLEAN

LinkOps == {"connect", "subscribe", "disconnect", "unsubscribe"}
AddOps == {"connect", "subscribe"}
DeleteOps == {"deleteSource", "deleteSink"}
Locks == Source \cup Sink \cup {Dmx}

Types == {"any", "typed"}  \* connected to all events or to one type
Marks == {"new", "due", "sent"}

(* The entries of a source for a sink; emptied ones are for None.          *)
EntriesFor(s, types) == [type : types, sink : {s}, mark : Marks]

VARIABLES alive,    \* sources and sinks not destroyed
          sinks,    \* EventSource::_sinks, in the order of the multimap
          sources,  \* EventSink::_sources
          sending,  \* EventSource::_sentry is set
          dirty,    \* EventSource::_dirty
          it,       \* the iterator of send
          owner,    \* who has which mutex
          pc, call  \* what each thread does

links == <<sinks, sources>>
sends == <<sending, dirty, it>>
vars == <<alive, links, sends, owner, pc, call>>

NoCall == [op |-> "none", source |-> None, sink |-> None]

Init ==
  /\ alive = Source \cup Sink
  /\ sinks = [e \in Source |-> <<>>]
  /\ sources = [s \in Sink |-> <<>>]
  /\ sending = [e \in Source |-> FALSE]
  /\ dirty = [e \in Source |-> FALSE]
  /\ it = [e \in Source |-> 0]
  /\ owner = [l \in Locks |-> None]
  /\ pc = [t \in Thread |-> "idle"]
  /\ call = [t \in Thread |-> NoCall]

-----------------------------------------------------------------------------
(* Sequences.                                                              *)

Count(seq, X) == Cardinality({i \in DOMAIN seq : seq[i] \in X})

(* What is left of a sequence when the elements of X are erased.           *)
Without(seq, X) ==
  LET left[n \in 0..Len(seq)] ==
        IF n = 0 THEN <<>> ELSE IF seq[n] \in X THEN left[n - 1] ELSE Append(left[n - 1], seq[n])
  IN left[Len(seq)]

-----------------------------------------------------------------------------
(* The calls a program may make.                                           *)

Names(t, x) == pc[t] # "idle" /\ x \in {call[t].source, call[t].sink}
Deleting(x) == \E t \in Thread : Names(t, x) /\ call[t].op \in DeleteOps
Usable(x) == x \in alive /\ ~Deleting(x)

Subscriptions(e, s) == Count(sinks[e], EntriesFor(s, {"typed"}))

(* subscribe and unsubscribe come in pairs.                                *)
InPairs(op, e, s) ==
  /\ op = "subscribe" => Subscriptions(e, s) = 0
  /\ op = "unsubscribe" => Subscriptions(e, s) = 1

Entries == UNION {{e} \X DOMAIN sinks[e] : e \in Source}
Pending == {t \in Thread : pc[t] # "idle" /\ call[t].op \in AddOps}

MayLink(op, e, s) ==
  /\ Usable(e) /\ Usable(s)
  /\ \A t \in Thread : ~(Names(t, e) /\ Names(t, s))
  /\ SubscribeTwice \/ InPairs(op, e, s)
  /\ op \in AddOps => Cardinality(Entries) + Cardinality(Pending) < MaxEntries

Goto(t, label) == pc' = [pc EXCEPT ![t] = label]
Enter(t, op, e, s, label) ==
  /\ Goto(t, label)
  /\ call' = [call EXCEPT ![t] = [op |-> op, source |-> e, sink |-> s]]
  /\ UNCHANGED <<alive, links, sends, owner>>

CallLink(t, op, e, s) == pc[t] = "idle" /\ MayLink(op, e, s) /\ Enter(t, op, e, s, "lockSource")
CallSend(t, e) == pc[t] = "idle" /\ Usable(e) /\ Enter(t, "send", e, None, "lockSource")

(* The sink that receives the event calls back: the mutex is recursive.    *)
CallInSlot(t, op, s) ==
  pc[t] = "slot" /\ MayLink(op, call[t].source, s) /\ Enter(t, op, call[t].source, s, "lockSink")

Unused(x) == x \in alive /\ \A t \in Thread : ~Names(t, x)
CallDeleteSource(t, e) == pc[t] = "idle" /\ Unused(e) /\ Enter(t, "deleteSource", e, None, "lockGlobal")
CallDeleteSink(t, s) == pc[t] = "idle" /\ Unused(s) /\ Enter(t, "deleteSink", None, s, "lockSelf")

-----------------------------------------------------------------------------
(* Mutexes.                                                                *)

Free(l) == owner[l] = None
Lock(t, l) == Free(l) /\ owner' = [owner EXCEPT ![l] = t]
Release(ls) == owner' = [l \in Locks |-> IF l \in ls THEN None ELSE owner[l]]
Leave(t) == Goto(t, "idle") /\ call' = [call EXCEPT ![t] = NoCall]

-----------------------------------------------------------------------------
(* The map of a source.                                                    *)

(* Entries for all types come before those for one; a new one goes behind  *)
(* its equals.                                                             *)
Place(e, type) ==
  1 + IF type = "any" THEN Count(sinks[e], [type : {"any"}, sink : Sink \cup {None}, mark : Marks]) ELSE Len(sinks[e])

Add(e, s, type) ==
  /\ sinks' = [sinks EXCEPT ![e] = InsertAt(@, Place(e, type), [type |-> type, sink |-> s, mark |-> "new"])]
  /\ sources' = [sources EXCEPT ![s] = Append(@, e)]
  /\ it' = [it EXCEPT ![e] = IF sending[e] /\ Place(e, type) <= @ THEN @ + 1 ELSE @]
  /\ UNCHANGED dirty

(* Mutant: entries are erased while send goes over them.                   *)
TakeAtOnce(e, s, types) ==
  /\ sinks' = [sinks EXCEPT ![e] = Without(@, EntriesFor(s, types))]
  /\ UNCHANGED <<dirty, it>>

Emptied(entries, X) == [i \in DOMAIN entries |-> IF entries[i] \in X THEN [entries[i] EXCEPT !.sink = None] ELSE entries[i]]

(* An entry is erased, or emptied while send goes over the map.            *)
Take(e, s, types) ==
  /\ sinks' = [sinks EXCEPT ![e] =
       IF sending[e]
       THEN Emptied(@, EntriesFor(s, types))
       ELSE Without(@, EntriesFor(s, types))]
  /\ dirty' = [dirty EXCEPT ![e] = @ \/ (sending[e] /\ Count(sinks[e], EntriesFor(s, types)) > 0)]
  /\ UNCHANGED it

Disconnect(e, s) ==
  /\ Take(e, s, Types)
  /\ sources' = [sources EXCEPT ![s] = Without(@, {e})]

(* Mutant: the sink forgets the source altogether.                         *)
UnsubscribeForgets(e, s) ==
  /\ Take(e, s, {"typed"})
  /\ sources' = [sources EXCEPT ![s] = Without(@, {e})]

(* The sink forgets one of its entries for the source.                     *)
Unsubscribe(e, s) ==
  /\ Take(e, s, {"typed"})
  /\ sources' = [sources EXCEPT ![s] = RemoveFirst(@, e)]

Update(op, e, s) ==
  \/ op = "connect" /\ Add(e, s, "any")
  \/ op = "subscribe" /\ Add(e, s, "typed")
  \/ op = "disconnect" /\ Disconnect(e, s)
  \/ op = "unsubscribe" /\ Unsubscribe(e, s)

-----------------------------------------------------------------------------
(* connect, disconnect, subscribe, unsubscribe: the mutex of the source,   *)
(* then that of the sink for a moment.  Both sides change in one step:     *)
(* between onConnect or onDisconnect and the change of the map the source  *)
(* is locked, and whoever follows the sink's list waits for it.            *)

LockSource(t) ==
  /\ pc[t] = "lockSource"
  /\ call[t].op \in LinkOps
  /\ Lock(t, call[t].source)
  /\ Goto(t, "lockSink")
  /\ UNCHANGED <<alive, links, sends, call>>

Link(t) ==
  /\ pc[t] = "lockSink"
  /\ Free(call[t].sink)
  /\ Update(call[t].op, call[t].source, call[t].sink)
  /\ \/ /\ sending[call[t].source]
        /\ Goto(t, "slot")
        /\ call' = [call EXCEPT ![t] = [op |-> "send", source |-> call[t].source, sink |-> None]]
        /\ UNCHANGED owner
     \/ /\ ~sending[call[t].source]
        /\ Leave(t)
        /\ Release({call[t].source})
  /\ UNCHANGED <<alive, sending>>

-----------------------------------------------------------------------------
(* send holds the mutex of the source all the time.                        *)

Marked(entries, mark) == [i \in DOMAIN entries |-> [entries[i] EXCEPT !.mark = mark]]

StartSend(t) ==
  LET e == call[t].source IN
  /\ pc[t] = "lockSource"
  /\ call[t].op = "send"
  /\ Lock(t, e)
  /\ sending' = [sending EXCEPT ![e] = TRUE]
  /\ dirty' = [dirty EXCEPT ![e] = FALSE]
  /\ it' = [it EXCEPT ![e] = 1]
  /\ sinks' = [sinks EXCEPT ![e] = Marked(@, "due")]
  /\ Goto(t, "send")
  /\ UNCHANGED <<alive, sources, call>>

Visit(t) ==
  LET e == call[t].source IN
  /\ pc[t] = "send"
  /\ it[e] <= Len(sinks[e])
  /\ \/ /\ sinks[e][it[e]].sink = None
        /\ it' = [it EXCEPT ![e] = @ + 1]
        /\ UNCHANGED <<sinks, pc>>
     \/ /\ sinks[e][it[e]].sink # None
        /\ sinks' = [sinks EXCEPT ![e][it[e]].mark = "sent"]
        /\ Goto(t, "slot")
        /\ UNCHANGED it
  /\ UNCHANGED <<alive, sources, sending, dirty, owner, call>>

Return(t) ==
  /\ pc[t] = "slot"
  /\ it' = [it EXCEPT ![call[t].source] = @ + 1]
  /\ Goto(t, "send")
  /\ UNCHANGED <<alive, links, sending, dirty, owner, call>>

(* The sentry removes what was emptied.                                    *)
EndSend(t, e) ==
  /\ sinks' = [sinks EXCEPT ![e] = Marked(IF dirty[e] THEN Without(@, EntriesFor(None, Types)) ELSE @, "new")]
  /\ sending' = [sending EXCEPT ![e] = FALSE]
  /\ dirty' = [dirty EXCEPT ![e] = FALSE]
  /\ it' = [it EXCEPT ![e] = 0]
  /\ Release({e})
  /\ Leave(t)
  /\ UNCHANGED <<alive, sources>>

Finish(t) == pc[t] = "send" /\ it[call[t].source] > Len(sinks[call[t].source]) /\ EndSend(t, call[t].source)
Throw(t) == pc[t] = "slot" /\ EndSend(t, call[t].source)

-----------------------------------------------------------------------------
(* ~EventSource holds dmx all the time.                                    *)

LockGlobal(t) ==
  /\ pc[t] = "lockGlobal"
  /\ Lock(t, Dmx)
  /\ Goto(t, "lockOwn")
  /\ UNCHANGED <<alive, links, sends, call>>

(* Mutant: one sink is disconnected, the others are not told.              *)
LockOwnOnce(t) ==
  LET e == call[t].source IN
  /\ pc[t] = "lockOwn"
  /\ Free(e)
  /\ \/ /\ Len(sinks[e]) <= 1
        /\ alive' = alive \ {e}
        /\ sinks' = [sinks EXCEPT ![e] = <<>>]
        /\ Release({Dmx})
        /\ Leave(t)
     \/ /\ Len(sinks[e]) > 1
        /\ Lock(t, e)
        /\ Goto(t, "cutSink")
        /\ UNCHANGED <<alive, call, sinks>>
  /\ UNCHANGED <<sources, sends>>

LockOwn(t) ==
  LET e == call[t].source IN
  /\ pc[t] = "lockOwn"
  /\ Free(e)
  /\ \/ /\ sinks[e] = <<>>
        /\ alive' = alive \ {e}
        /\ Release({Dmx})
        /\ Leave(t)
     \/ /\ sinks[e] # <<>>
        /\ Lock(t, e)
        /\ Goto(t, "cutSink")
        /\ UNCHANGED <<alive, call>>
  /\ UNCHANGED <<links, sends>>

CutSink(t) ==
  LET e == call[t].source
      s == sinks[e][1].sink
  IN
  /\ pc[t] = "cutSink"
  /\ Free(s)
  /\ Disconnect(e, s)
  /\ Release({e})
  /\ Goto(t, "lockOwn")
  /\ UNCHANGED <<alive, sending, call>>

-----------------------------------------------------------------------------
(* ~EventSink holds its own mutex and tries dmx.                           *)

LockSelf(t) ==
  LET s == call[t].sink IN
  /\ pc[t] = "lockSelf"
  /\ Free(s)
  /\ \/ /\ sources[s] = <<>>
        /\ alive' = alive \ {s}
        /\ Leave(t)
        /\ UNCHANGED owner
     \/ /\ sources[s] # <<>>
        /\ Lock(t, s)
        /\ Goto(t, "try")
        /\ UNCHANGED <<alive, call>>
  /\ UNCHANGED <<links, sends>>

(* Mutant: the mutex of the library is waited for.                         *)
TryBlocks(t) ==
  /\ pc[t] = "try"
  /\ Lock(t, Dmx)
  /\ Goto(t, "cutSource")
  /\ UNCHANGED <<alive, links, sends, call>>

(* Mutant: the sink is destroyed when another destructor has the mutex.    *)
TryOnce(t) ==
  /\ pc[t] = "try"
  /\ \/ /\ Lock(t, Dmx)
        /\ Goto(t, "cutSource")
        /\ UNCHANGED <<alive, call>>
     \/ /\ ~Free(Dmx)
        /\ alive' = alive \ {call[t].sink}
        /\ Release({call[t].sink})
        /\ Leave(t)
  /\ UNCHANGED <<links, sends>>

(* Mutant: the sink is kept when another destructor has the mutex.         *)
TryKeepsSink(t) ==
  /\ pc[t] = "try"
  /\ \/ /\ Lock(t, Dmx)
        /\ Goto(t, "cutSource")
     \/ /\ ~Free(Dmx)
        /\ Goto(t, "lockSelf")
        /\ UNCHANGED owner
  /\ UNCHANGED <<alive, links, sends, call>>

Try(t) ==
  /\ pc[t] = "try"
  /\ \/ /\ Lock(t, Dmx)
        /\ Goto(t, "cutSource")
     \/ /\ ~Free(Dmx)
        /\ Release({call[t].sink})
        /\ Goto(t, "lockSelf")
  /\ UNCHANGED <<alive, links, sends, call>>

CutSource(t) ==
  LET s == call[t].sink
      e == Head(sources[s])
  IN
  /\ pc[t] = "cutSource"
  /\ Free(e)
  /\ Disconnect(e, s)
  /\ Release({s, Dmx})
  /\ Goto(t, "lockSelf")
  /\ UNCHANGED <<alive, sending, call>>

-----------------------------------------------------------------------------
Proceed(t) ==
  \/ LockSource(t) \/ Link(t)
  \/ StartSend(t) \/ Visit(t) \/ Return(t) \/ Finish(t)
  \/ LockGlobal(t) \/ LockOwn(t) \/ CutSink(t)
  \/ LockSelf(t) \/ Try(t) \/ CutSource(t)

Next ==
  \E t \in Thread :
    \/ \E op \in LinkOps, e \in Source, s \in Sink : CallLink(t, op, e, s)
    \/ \E op \in LinkOps, s \in Sink : CallInSlot(t, op, s)
    \/ \E e \in Source : CallSend(t, e) \/ CallDeleteSource(t, e)
    \/ \E s \in Sink : CallDeleteSink(t, s)
    \/ Proceed(t)
    \/ Throw(t)

Spec == Init /\ [][Next]_vars

(* A thread that waits for a mutex gets it if it is free again and again:  *)
(* the destructor that keeps trying yields in between.  Slots return.      *)
FairSpec == Spec /\ \A t \in Thread : SF_vars(Proceed(t)) /\ SF_vars(Return(t))

-----------------------------------------------------------------------------
(* Properties                                                              *)

Entry == [type : Types, sink : Sink \cup {None}, mark : Marks]

TypeOK ==
  /\ alive \subseteq Source \cup Sink
  /\ sinks \in [Source -> Seq(Entry)]
  /\ sources \in [Sink -> Seq(Source)]
  /\ sending \in [Source -> BOOLEAN]
  /\ dirty \in [Source -> BOOLEAN]
  /\ it \in [Source -> Nat]
  /\ \A e \in Source : it[e] <= Len(sinks[e]) + 1
  /\ owner \in [Locks -> Thread \cup {None}]
  /\ pc \in [Thread -> {"idle", "lockSource", "lockSink", "send", "slot", "lockGlobal", "lockOwn", "cutSink",
                        "lockSelf", "try", "cutSource"}]
  /\ call \in [Thread -> [op : LinkOps \cup DeleteOps \cup {"send", "none"},
                          source : Source \cup {None}, sink : Sink \cup {None}]]

(* A source reaches no destroyed sink and a sink no destroyed source, so   *)
(* that send and both destructors use live objects only.                   *)
NoDangling ==
  /\ \A e \in alive \cap Source : \A i \in DOMAIN sinks[e] : sinks[e][i].sink \in alive \cup {None}
  /\ \A s \in alive \cap Sink : \A i \in DOMAIN sources[s] : sources[s][i] \in alive

(* A sink lists a source as often as the source has entries for the sink.  *)
LinksAgree == \A e \in Source, s \in Sink :
  Count(sources[s], {e}) = Count(sinks[e], EntriesFor(s, Types))

(* The mutex a thread is about to take; trying one is not waiting for it.  *)
Awaits(t, l) ==
  \/ pc[t] \in {"lockSource", "lockOwn"} /\ l = call[t].source
  \/ pc[t] \in {"lockSink", "lockSelf"} /\ l = call[t].sink
  \/ pc[t] = "lockGlobal" /\ l = Dmx
  \/ pc[t] = "cutSink" /\ l = sinks[call[t].source][1].sink
  \/ pc[t] = "cutSource" /\ l = Head(sources[call[t].sink])

WaitsFor(t, u) == \E l \in Locks : Awaits(t, l) /\ owner[l] = u

(* Nobody waits in a circle, however many threads there are: who waits for *)
(* a thread that waits itself, waits for one that can go on.               *)
NoCircularWait == \A t, u, v, w \in Thread : ~(WaitsFor(t, u) /\ WaitsFor(u, v) /\ WaitsFor(v, w))

(* send delivers to every sink that was connected when it began and is     *)
(* still connected, once for each entry.                                   *)
SendReachesAll ==
  [][\A t \in Thread : LET e == call[t].source IN
       /\ pc[t] = "send" /\ pc'[t] = "idle" =>
            \A i \in DOMAIN sinks[e] : sinks[e][i].sink # None => sinks[e][i].mark # "due"
       /\ pc[t] = "send" /\ pc'[t] = "slot" => sinks[e][it[e]].mark # "sent"]_vars

(* The entries that are links of one kind, and how many there are.         *)
OfKind(k, marks) == [type : {k[3]}, sink : {k[2]}, mark : marks]
LinksMarked(marks) == [k \in Source \X Sink \X Types |-> Count(sinks[k[1]], OfKind(k, marks))]

Senders == [e \in Source |-> IF sending[e] THEN owner[e] ELSE None]

(* A thread is in a receiver, or in a call of one.                         *)
Receiving(t) == pc[t] = "slot" \/ (pc[t] = "lockSink" /\ sending[call[t].source])
Inside == [t \in Thread |-> Receiving(t)]

Abstract == INSTANCE Delivery WITH
  links <- LinksMarked(Marks),
  due <- LinksMarked({"due"}),
  fresh <- LinksMarked({"new"}),
  sender <- Senders,
  inside <- Inside

(* Calls take effect at once, whatever the threads do: a send has its      *)
(* source for itself, and who is destroyed is out of reach before.         *)
ImplementsDelivery == Abstract!Spec

(* Every call returns: neither the destructors nor the senders wait for    *)
(* each other in a circle, and a destructor does not try forever.          *)
CallsEnd == \A t \in Thread : pc[t] # "idle" ~> pc[t] = "idle"
=============================================================================
