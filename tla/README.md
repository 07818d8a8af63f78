# Pt: models, model checking and proofs

Pt (Platinum) is a C++ class library: signals and slots, an event loop with timers and I/O
selectors, threads, streams and codecs, networking, HTTP with WebSockets, remoting, XML and JSON
readers, database and GUI layers. This directory holds TLA+ models of its event machinery, the part
everything else runs on and the part that is hard to test: code that calls back into itself while it
iterates, several threads around one loop, and three selectors that must behave as one.

Paths below are relative to the repository. `PROJECT.json` maps each definition of a module to the
lines it models and lists the runs, the hazards of the code and the proved theorems.

## 1. The system

### Components

**Signals** (`include/Pt/Signal.h`, `src/Pt/Signal.cpp`, `Connectable`, `Connection`).
State: a list of connections per sender; each connection has shared data that says whether it is
valid; a signal has `_sending`, `_dirty` and a chain of `Sentry` objects, one per nested `send`.
Operations: connect, disconnect (one slot, all), close, assignment, send, destruction of the sender or
of a receiver. Everything runs in one thread; what is hard is that a slot may do any of this, and
throw, while `send` iterates over the list. Correct means: iterators stay valid, every send serves
what was connected when it began and still is, closed entries are removed once nobody iterates.

**Event signals** (`Signal<const Event&>`, same files). The same with routes ordered by event type.

**Event loop** (`System/EventLoop`, `posix/MainLoopImpl`, `EventQueue`, wake pipe). State: the event
queue, the exit flag, the vector of ready selectables, the wake pipe, the events epoll reported.
Other threads commit events, wake, post selectables and ask for the exit; the loop thread runs
timers, selectables, handles and events, all of which may call the loop again or throw. Correct
means: nothing the loop was told of waits without a wake, every released event is delivered, exit
ends the loop, no selectable starves.

**Timers** (`System/Timer`, `TimerQueue` in `EventLoop.cpp`). State: interval and end of each timer, a
multimap from end to timer. `processTimers` runs the expired timers; their slots start, stop, attach,
detach and delete timers, or throw. Correct means: the loop sleeps no longer than the earliest end, a
timer that is late by several intervals is run once, and one that ended is run.

**Event sources and sinks** (`System/EventSource`, `EventSink`). Sources send events to sinks of other
threads. Each side points to the other and has a mutex of its own, and a mutex of the library keeps
the destructors apart. Correct means: no pointer to a destroyed object, both sides agree, a send
reaches everybody, no call waits forever.

**I/O devices and selectors** (`System/IODevice`, `posix/IODeviceImpl`, `Selector_select.h`,
`Selector_poll.h`, `Selector_epoll.h`, `Net/TcpSocket`). A device has one read and one write
operation; each is completed at once, or left to the selector and ended when the selector reports it.
Correct means: the end of an operation never blocks the loop, and who waits for something that is
possible hears of it, whichever selector is compiled in.

**HTTP server** (`Http/ServerImpl`: `ServerImpl`, `ServerThread`, `Acceptor`). State: a list of
acceptors per thread, one event queue per loop, the list of servlets under a mutex, the pending
upgrades under another, the answer of a worker under a condition. The main thread accepts and gives
connections in turn to the workers and to itself; a worker serves its acceptors and sends itself an
event for each that is finished; an acceptor that is switched to another protocol goes back to the
main thread. `removeServlet` and `isServletIdle` ask one worker after the other and wait; `cancel`
stops them. Correct means: an acceptor has one owner and is deleted once, an event that names an
address does not hit the next object there, a servlet that was removed or found idle is used by
nobody, every call returns, everything finished goes.

**WebSocket** (`Http/WebSocketChannel`, `WebSocketSession`). State: one of five protocol states, six
operations that are idle, pending or ready, the output queue with the frame in flight, the pending
read, four clocks, the close code. Operations: begin and end of receive, send, ping and shutdown, and
`close`; the loop ends reads and writes, reads frames one after the other with slots in between, and
runs the time-outs. Correct means: the close frame is the last, the end of the protocol is reported
once, a clean shutdown is clean, nobody waits without end for a peer that answers or is gone.

**HTTP connection and parser, Remoting and its bindings**: calls over HTTP, with cancellation and
time-outs. **IOBuffer**: a stream buffer over a device. **TCP connect and accept, UDP**.
**LogManager**: targets and channels under a mutex. **Threads, mutexes, pipes, files, processes**:
wrappers of system calls. **Readers, codecs, serialization, databases, Lua, reflection, graphics,
forms, TLS**: sequential code about data, or adapters of other libraries.

### How they interact

```
 other threads          loop thread
 EventSource --commit--> EventQueue --+
 EventLoop::commitEvent, wake, exit --+--> wake pipe --> MainLoopImpl::waitNext
 EventLoop::post -------> _avail -----+       |  1. TimerQueue::processTimers -> Timer::update
                                              |  2. ready selectables  -> Selectable::onRun
                                              |  3. Selector::wait     -> devices, wake pipe
                                              |  4. EventQueue::processEvents
                                              v
                                       Signal::send -> slots -> any of these again
```

A `MainLoop` is an `EventSink`. Devices are selectables: they are run from `_avail` (operation
completed at once) or from the selector (operation became possible). Everything the loop runs ends in
a signal, and slots call back into loop, timers, devices and signals.

```
 program --removeServlet, isServletIdle, cancel--> main thread <--- server socket
                                                    |       ^
        AcceptEvent, RemoveServletEvent, ServletInfo|       | _pendingUpgrades + UpgradeEvent
                                                    v       | answers under a condition
                                          worker loops (acceptors, RemoveHandlerEvent to itself)
                                                    |
                                                   101 --> WebSocketSession <== frames ==> client
```

## 2. The modules

| module | component | abstracts |
| --- | --- | --- |
| `Multicast` | what a signal promises | iterators, sentries, deferred removal |
| `Signal` | `Pt::SignalBase`, `Signal<As...>` | arguments, memory of connections |
| `EventLoop` | `MainLoop`, `EventQueue`, wake pipe | what timers and handles do |
| `Timers` | `Timer`, `TimerQueue` | who calls the loop |
| `Delivery` | what sources and sinks promise to several threads | mutexes, maps, iterators, deferred removal |
| `EventSource` | `EventSource`, `EventSink` | the type of the event |
| `Duplex` | `IODevice`, `IODeviceImpl`, selectors, `TcpSocket` | the bytes |
| `WebSocket` | two `WebSocketChannel`s and the stream between them | the bytes, the durations |
| `HttpServer` | `ServerImpl`, `ServerThread`, `Acceptor` | requests and replies, the sockets |
| `MC<module>` | the module on small instances | |
| `<module>Proofs` | theorems about the module | |

`Signal` implements `Multicast`, and `EventSource` implements `Delivery` as long as no sink is
subscribed twice (refinement mappings, checked and proved). The other modules stand side by side: where
one uses another, the other appears as what it promises. In `EventLoop` timers and handles are callbacks
that may do all the program can; in `Duplex` the loop is its round of selectables, wait and run;
`Timers` has the wait of the loop with its time, which is what `EventLoop` leaves open as `timeout`.
`HttpServer` composes several loops: each is its queue and what runs between two passes of
`processEvents`. `WebSocket` composes the two ends of a connection, and its clocks are timers that may
run out at any time.

### Signal

The list of connections grows only at its end, so a connection is its number and the list is a set of
numbers. `valid` are those whose data says so. `frame[k]` is the activation record of the k-th nested
`send`: the two iterators `it` and `last` of the loop in `Signal.h`, its sentry (`signal`, `next`)
and where it is (`visit`, `slot`, `check`). While a frame is in `slot`, or none exists, the program
runs and every operation of the class is an action: `Connect`, `CloseConnection`, `DisconnectSlot`,
`Disconnect`, `DestroyReceiver`, `Assign`, `DeleteSignal`, `Send`. `Leave` is the sentry's destructor,
reached by `Finish` and by `Throw`. `DetachAll` is what `Sentry::detachAll` does, including that it
stops at the first sentry because `detach` clears the link it follows.

### EventLoop

Events are numbered in the order they enter the queue: `popped+1..pushed` is the queue, and `due` says
up to where it was released by a wake (`queueEvent` alone does not wake). Calls of other threads change
the loop first and write the pipe afterwards (`waking`, `WriteWake`), so that anything may happen in
between. `pc` follows `waitNext`: `timers`, `avail`, `wait`, `batch` (what epoll returned), `events`;
the callbacks have locations of their own, in which every call is possible, `processEvents` too
(`caller` remembers who called it; only `waitNext` looks at the exit flag afterwards). `TakeSelectable`
takes the largest element of `_avail`, because the code takes `back()` of a vector sorted by address.
`batch` survives an exception as `SelectorImpl::_events` does; `isWake` does not, it is a local.

### Timers

`key[t]` is the key of the multimap, `finished[t]` what the timer says; they differ while a timer is
run. `front` says that the entry of the timer that is run is still the one it had (restarting it moves
it behind its equals, which decides who is put in again by `Reinsert`). `update` is a loop of `Send`,
the slot and `Return` until the timer has not expired for the time `seen`; `NextEnd` is the code's
division. `disturbed` is a history variable used in properties only: a slot threw, or attached a timer
that ended before the one that is run.

### EventSource

`sinks[e]` is the multimap in its order, `sources[s]` the list of the sink. `owner` holds all
mutexes. Each stretch between two lock operations is an action; a mutex that is taken and given back
within a stretch only has to be free. `send` keeps the mutex of the source, visits one entry at a time
and gives control to the sink (`slot`), which may connect and disconnect sinks of that source: the
mutex is recursive. `~EventSource` takes `Dmx`, the source, each sink; `~EventSink` takes the sink and
only tries `Dmx`. `mark` is a history of the current send. The program follows the rules of C++: it
does not destroy an object that a call it made names.

`Delivery` knows nothing of the mutexes: a call begins, takes effect in one step and returns; a send has
its source for itself but for what its receivers do, serves every link there was when it began and still
is once, and may serve those made meanwhile; an object goes when nothing leads to it. `Abstract` counts
the entries of the maps: a link is an entry that was not emptied, `due` and `fresh` count the marks.

### Duplex

One connected socket. `input` and `room` are what the kernel has; `op` the two operations; `interest`
and `reported` the fields in which the compiled-in selector keeps what is asked for and what came
back; `known`, `mask`, `added` and `edge` belong to epoll, whose reports are edges. `SelectorEnd` is
the place where the three differ: select keeps the report, poll forgets that direction, epoll forgets
both. `Garbage` are the bits the word passed to `epoll_ctl` may have, of which the code assigns only
some. The application is the one of the documentation: it ends what it was told of, at the latest in
the handler, and begins and cancels whenever it likes.

### WebSocket

`ch[p]` is the channel of one end, a record with the members of the class. Each member function is an
operator from the channel before to the channel after (`enqueue`, `enqueueClose`, `onBeginOutput`,
`onProtocolFinished`, `onProtocolDone`, `onProtocolAborted`, ...), so that a call within a call is an
application within an application, in the order of the code. `ok` says whether the `beginOutput` in it
starts a write or throws. `at` is the position of the loop that reads frames: `import` between two
frames, `slot` in `inputReady()` or `pong()`, whose slots may call the channel back. `log` is what an
end wrote, `put` how much of it is written and `got` how much the other end has read: the stream is
neither lossy nor reordered, but it fails and ends when the other end is gone. A channel of a session
is closed and released behind the report of its end; that of a client stays. `clocks` are the timers
that run; any of them may run out.

### HttpServer

Acceptors are addresses: a deleted one is `Free` and may be accepted again, so that an event that
names an address may come late. `handlers[t]`, the accept events in `queue[t]`, `inside[w]` (between
`onHandlerUpgraded` of a worker and the end of `beginUpgrade`) and `pending` are the places of an
acceptor. `draining[t]` says that the loop is in `processEvents`, which runs events until the queue is
empty: callbacks come before or behind. `pending` is a set, because one event takes all of it before
anything else happens. The calls of the program go in steps: `call` says which call it is, for which
servlet, which worker is next (0: the main thread itself) and whether it was asked; `answer` is what
it answered. A 101 takes three steps in a worker, `TakeOff`, `GiveToMain`, `WakeMain`, as it locks and
commits, and one in the main thread. Of a request only the decisions are left that change what becomes
of the acceptor: found or not, authorized or not, replied, switched, failed. `leaked` are acceptors
whose accept event went with the loop of a worker that `cancel` stopped.

## 3. What is checked

Run a configuration with `tlc -config MCSignal.cfg MCSignal`, and so on.

| run | configuration | states | shows |
| --- | --- | --- | --- |
| `signal` | `MCSignal.cfg` | 252,460 | types, `IteratorsValid`, `CleanBetweenSends`, `ImplementsMulticast` |
| `event_loop` | `MCEventLoop.cfg` | 71,442 | types, `NoLostWake`, `EventsDelivered`, `ExitEndsRun` |
| `timers` | `MCTimers.cfg` | 36,148 | types, `NoOversleep`, `RunOncePerTime`, `DueTimersRun` |
| `event_source` | `MCEventSource.cfg` | 116,848 | types, `NoDangling`, `LinksAgree`, `NoCircularWait`, `ImplementsDelivery`, `SendReachesAll`, `CallsEnd` |
| `duplex` | `MCDuplex.cfg` | 7,214 | types, `NeverBlocks`, `InputReported`, `OutputReported`, `PollKeepsReports` |
| `websocket` | `MCWebSocket.cfg` | 85,377 | types, `CloseIsLast`, `OneReporter`, `CleanShutdown`, `PingIsOwned`, `HandshakeCompletes`, `CloseReported`, `PeerGoneNoticed` |
| `http_server` | `MCHttpServer.cfg` | 347,438 | types, `OneOwner`, `StaleRemoveHarmless`, `RemovedServletUnused`, `IdleMeansUnused`, `CallsReturn`, `FinishedRemoved`, `UpgradesServed` |

The `TypeOK`s apart, each property needs several steps, mostly of several actors, to be violated;
each comes with a plausible bug of the code (the `mutants` of `PROJECT.json`, operators commented
`Mutant:` in the modules) under which TLC finds it violated.

Five runs show where the code does not do what its documentation says:

| run | property | what happens |
| --- | --- | --- |
| `signal_delete` | `SentriesSeeDeletion` | A slot under two nested sends deletes the signal; `detachAll` tells only the innermost sentry and the outer send goes on over a destroyed list (`Signal.cpp:51`). |
| `duplex_select` | `NeverBlocks` | select keeps a report after `endRead`; the next read is reported without data and `endRead` sleeps in the loop thread (`Selector_select.h:166`). |
| `duplex_epoll` | `ReportsKept` | epoll forgets the report of the write when the read is ended (`Selector_epoll.h:170`). |
| `websocket_finish` | `FinishIsDone` | The protocol ends by a time-out or by the end of the stream while an output is being written; only the end of a close frame looks at it again, and `closed()` never runs (`WebSocketChannel.cpp:354`). |
| `http_removed` | `RemovedServletGone` | A worker upgrades an acceptor after `removeServlet` looked at the pending upgrades and before it asks that worker; the acceptor stays with the removed servlet (`ServerImpl.cpp:728`). |

Where such a disagreement would hide the rest of a component, the passing run excludes exactly its
cause, by a constant of the environment:

* `DeleteDepth = 1` in `signal`: the signal is deleted under at most one send.
* `MayThrow = {"timer", "selectable"}` in `event_loop`: receivers of events do not throw, nor do
  handles (the wake that was read is lost with the local `isWake`).
* `Garbage = {}` in `duplex`, and `Backends` without select; `InputReported` and `OutputReported` are
  about poll (with epoll a descriptor that lost its last interest is added again, `epoll_ctl` fails
  with `EEXIST`, and the edge does not come).
* `SubscribeTwice = FALSE` in `event_source`: subscribe and unsubscribe come in pairs. After two
  subscribes, `unsubscribe` erases both entries of the source and one of the sink.
* `disturbed` in `Timers`: nothing is said after a slot threw or attached a timer that had ended (the
  wrong entry is put in again, `EventLoop.cpp:253`). The run itself lets slots do both.
* One selectable in `event_loop`: with two that post themselves, the one at the lower address starves
  (`MainLoopImpl.cpp:138`).
* A sink leaves its sources in the destructor of its base class (`EventSink.cpp:40`): until then another
  thread may send to what is left of it. In `event_source` the sink still receives; no property forbids
  it.
* `PartialWrites = FALSE` in `websocket`: a write that ends before the buffer is empty is gone on with
  by the next frame only, so that a close frame may never be sent completely
  (`WebSocketChannel.cpp:880`), and `CleanShutdown` fails. `CloseReported` starts at the queued close.
* `RemovedServletUnused` and `IdleMeansUnused` speak of the acceptors that threads serve, not of those
  that are being upgraded. `StaleRemoveHarmless` speaks of workers: the main thread accepts into its
  list directly, and there a late event deletes the new acceptor.

### Bounds and why they suffice

* `signal`: two slots, four connections, three nested sends. Two entries on each side of the one
  being served, closed or opened by an inner send of an inner send, with a connection made after them,
  is the largest case the code distinguishes; the sentry chain has a first, a middle and a last link.
  The slots are symmetric. The theorems of section 4 have no bounds.
* `event_loop`: two threads, so that one may be interrupted between its change and its wake while the
  other does the same; two events, so that one is behind another; one selectable, one handle, one timer
  a round and one exception.
* `timers`: two timers, intervals 1 and 2, a clock up to 3: a timer can be late by two intervals and
  end at the same time as the other.
* `event_source`: two threads, two sources, two sinks, two entries in all: both destructors, a
  destructor and a sender, and two senders meet, on one link or on links that cross; a source has
  an entry behind the one that is served. That three threads and more do not wait in a circle
  either is proved (section 4).
* `duplex`: two chunks of input at a time, three in all. The peer pauses for good after three chunks,
  which `OutputReported` needs: a peer that never pauses starves the write, because `TcpSocket::onRun`
  serves input first.
* `websocket`: a client with ping and close clocks and a session with an idle clock; one data frame,
  which may be one that is rejected, and one ping of each end beside the pong and the close: four
  frames in the queue of an end, in every order, is all that the six operations allow at once, and a
  second frame of a kind is only begun behind the first. Calls and slot calls are those of the two
  roles; a session that closes in a slot is a hazard without a property.
* `http_server`: the main thread and one worker, two acceptors, so that an address is used again while
  events for it are under way, one servlet, one event in the main queue when it accepts, one upgraded
  connection. A second worker adds a second place of the same kind, and `useWorker` and the asking go
  from one to the next: that it makes no difference to the invariants is proved (section 4). No request
  is bounded: an acceptor serves any number.

Deadlock is not checked for `Signal` and `EventLoop` (everything may have been used up, or `run` is
over) nor for `EventSource` and `WebSocket` (everything may be destroyed or closed; `CallsEnd`,
`HandshakeCompletes` and `PeerGoneNoticed` say that nobody is stuck). `Timers`, `Duplex` and
`HttpServer` are checked for deadlock.

### Fairness

* `EventLoop!FairSpec`: the loop thread is scheduled (`WF LoopStep`); callbacks return, even if they
  call `processEvents` again and again (`SF Return`); an application whose loop was left by an
  exception runs it again (`SF Run`); a thread that began a call gets to write the pipe
  (`WF WriteWake`). Nothing is assumed of other threads beginning calls, of timers expiring or of
  epoll reporting handles.
* `Timers!FairSpec`: `WF LoopStep`. `Wake`, the end of a wait for other reasons, is not in `LoopStep`:
  a timer has to be run although nothing else wakes the loop.
* `EventSource!FairSpec`: strong fairness of what a thread does next, because a mutex is free again and
  again without being free forever, and the destructor of a sink that tries in vain yields. Slots
  return (`SF Return`).
* `Duplex!FairSpec`: the loop thread is scheduled; it gets on with its round and handlers end what they
  were told of, however often the application begins and cancels in between (`SF`). Of the peer nothing
  is assumed.
* `WebSocket!FairSpec`: the loop of each end reads, writes and goes on with the frames it has read
  (`WF Input`, `WF Output`); slots return. No clock is relied on, so that the liveness properties do not
  hold only because something times out, and neither end has to call anything.
* `HttpServer!FairSpec`: workers run their events and leave their signals (`WF`), a call of the program
  goes on (`WF GoOn`). The events of the main thread have strong fairness: the program may call from
  callback to callback, during which no event runs, but every callback returns and every round of the
  loop ends with its events. Connections, requests and calls of the program are not relied on.

## 4. What is proved

`tlapm SignalProofs.tla` and so on; every leaf is checked. The assumptions
are the named `ASSUME` of each module (bounds are naturals, kinds of things are disjoint, intervals are
positive) and those written in the theorem.

| theorem | for all | needs |
| --- | --- | --- |
| `Signal`: `TypeCorrect`, `CleanWhenIdle` | slots, connections, depths | |
| `Signal`: `IteratorsStayValid` | the same | `DeleteDepth <= 1` |
| `Signal`: `Refinement` (`Spec => ImplementsMulticast`) | the same, any `DeleteDepth` | |
| `EventLoop`: `TypeCorrect` | threads, selectables, handles, events | |
| `EventLoop`: `WakesAreNotLost` | the same | `MayThrow \subseteq {"timer", "selectable"}` |
| `Timers`: `TypeCorrect`, `NeverSleepsOverATimer`, `RunsOncePerTime` | timers, intervals, times | |
| `EventSource`: `TypeCorrect`, `SendsReachAll`, `NobodyWaitsInACircle` | threads, sources, sinks, entries | |
| `EventSource`: `LinksAreMutual`, `NothingDangles` | the same | `~SubscribeTwice` |
| `EventSource`: `Refinement` (`Spec => ImplementsDelivery`) | the same | `~SubscribeTwice` |
| `Duplex`: `TypeCorrect`, `DirectionsAreIndependent` | amounts of data, selectors | |
| `Duplex`: `EndsNeverBlock` | amounts of data | no select; `Garbage = {}` if epoll |
| `HttpServer`: `TypeCorrect` | workers, acceptors, servlets | |
| `HttpServer`: `RemovedServletNotServed`, `IdleHolds` | the same | |
| `HttpServer`: `StaleRemovalsHarmless`, `AcceptorsHaveOneOwner` | the same | |
| `WebSocket`: `TypeCorrect`, `ClosesAreLast` | calls, clocks, bounds, partial writes | two ends |
| `WebSocket`: `OneReport`, `PingsAreOwned` | the same | |
| `WebSocket`: `ShutdownsAreClean` | the same | two ends, `~PartialWrites` |

Along which argument:

* **Signal.** `IteratorsValid` is not inductive: nothing in it keeps a `Close` in an inner send from
  removing an entry of an outer one. `SentryChain` says that the sentries form one chain from the
  innermost send to the outermost and that `_sending` is set exactly while there is one, so that only
  the outermost clean-up removes entries; `DeferredClose` says when entries are left over;
  `StackShape` that only the innermost frame runs; `Destroyed` what holds after deletion. The refinement
  maps `valid` to the open connections and what lies between `it` and `last` to what a send has still
  to serve. It holds for any nesting of the deletion too, because a deleted signal has nothing left to
  serve: what goes wrong then is that memory is touched, which `IteratorsValid` is about.
* **EventLoop.** `NoLostWake` speaks of the moment before the wait; by then the wake may have been read.
  `Answered` says where the knowledge of a wake is at every other moment: in the pipe, in a thread about
  to write it, in `isWake`, or in a loop that is looking at its queue. `Frames` says that epoll reports
  the pipe only if it is readable, also when a batch is left over after an exception, and who may be the
  caller of `processEvents`.
* **Timers.** `InOrder`: as long as no slot threw or attached a timer that had ended, only the entry of
  the timer that is run has an old key, and it is the first. `MovedOn` says that a timer that was run
  ends later than the time it was run for, which takes the arithmetic of the skipped intervals
  (`Division`, `NextEndLater`); `OffEndsNever` that stopped timers are last, so that finding one at the
  front means that nothing is started. `RunsOncePerTime` needs no order: what was run for the time that
  was seen ends later (`ServedLater`), and whatever a slot does to it keeps that.
* **Duplex.** The selector watches a direction exactly while somebody waits for it; so what it reported
  is still possible, as only the owner of the buffer takes input or fills room, and the application was
  told of nothing else.
* **EventSource.** The map of a source and the list of a sink are sequences, of which the proofs need
  only how often something is in them: after a few lemmas about counting (`InsertAtCounts`,
  `RemoveFirstCounts`, `WithoutCounts`, by induction over the length, see below) no step looks at a
  sequence as a whole. `Core` is inductive for every program: `Places` and `Mutexes` tie the place of a
  thread to the mutexes it has; `NamedLive`, `DeletedAlone` and `LinkedAlone` are the rules of the
  program, kept while calls are under way; `Sends` says that a source is in a send exactly while the
  owner of its mutex sends, and that the iterator is set and within the map; `InOrder`, that what is
  before the iterator was served and what is behind it was not; `EmptiedLater`, that entries without a
  sink are there only until the send that made them ends, so that a destructor never takes one for a
  sink; `StillLinked`, that what a destructor has locked and found is still there when it cuts it.
  In `NobodyWaitsInACircle` who has a mutex and waits is a destructor that cuts a link (a call that
  links waits for no sink, as nobody destroys what it names), and whom it waits for has no `Dmx` and
  waits for nobody (`HoldsAndWaits`); receivers that destroy a source are not covered (a hazard). The two
  sides of a link (`Linked`) need `~SubscribeTwice` and each other: `Agree` counts both sides of a pair,
  `Paired` says that the pairing of subscribe and unsubscribe still holds when the mutex is there, and
  `DeadUnlinked` that destroyed objects are unlinked, which is why an object that is named by the other
  side is alive (`LinkedLive`). `SubscribeTwice` is what the code does not get right (`EventSource.cpp:180`).
  `Refinement` takes each action to the step of `Delivery` it is, or to none (taking a mutex, giving
  way to another destructor, passing an emptied entry over). The counts follow from the lemmas about
  sequences, one kind of link at a time (`KindCount`). `InOrder` gives that nothing is due when a send
  ends, `LinkedLive` that who is served is alive, `EmptiedLater` that a destructor finds links and no
  emptied entries, and `Agree` is why `~EventSink` may go when its own list is empty: no source has an
  entry for it.
* **HttpServer** (`HttpServerProofs`). None of the properties is inductive, and
  they need each other's parts. `Placement` says that an acceptor is in one place and that its state
  names which (`Listed`, `Underway`, `Upgrading`); so what an accept event brings has no servlet, and a
  free address is nowhere. `Asking` and `Questions`: a question is in a queue only while the call waits
  for its answer, it is the only one, and it is in the queue of the worker the call is at. `Usage` is
  what a removal knows half-way: the threads that were searched are without the servlet, and as nobody
  finds a servlet that is not mapped (`NoNewUse`), they stay so; `Stopping` is needed for the threads
  that are gone. `Stale` puts the removal of an acceptor in front of the accept event of the next at the
  same address, which is why a worker never applies it to that one. `Kept`, the other half of
  `OneOwner`, says that the holder named by the state is there.
* **WebSocket.** The operators of a channel are proved one by one, each from a channel that is `Good` to
  one that is (`SameGood`, `Enqueues`, `WriteEnds`, `FrameRead`), as a step is a call that passes
  through several. `Flow` says when the queue may be longer than the write; `CloseQueued`, that a close
  is the last in the queue; `CloseWritten`, where a close that was given to the stream still is: in
  flight and alone, done with, or in front of a failure. Between two writes `Flow` does not hold
  (`Between`). `Telling` ties what was reported to the state. Between the ends there is only `Reads`,
  that no more is parsed than was written, so that the frame parsed next exists, and `Importing`: a
  frame is only parsed while the protocol goes on, because a slot that ends it also empties the input. The shutdown (`WebSocketShutdownProofs`) needs a
  second invariant, about channels whose writes have not failed: `Orderly`, that everything but the
  frame in flight is written completely and that a close frame that is over was given to the stream;
  `Answered`, that while a shutdown waits its close frame is in the queue or written; and `Heeded`, that
  a waiting shutdown is only finished by the close frame of the peer, which is why reading that frame is
  the one step that is not `Onward`.

### Only model-checked

* Liveness (`EventsDelivered`, `ExitEndsRun`, `DueTimersRun`, `CallsEnd`, `InputReported`,
  `OutputReported`, `HandshakeCompletes`, `CloseReported`, `PeerGoneNoticed`, `CallsReturn`,
  `FinishedRemoved`, `UpgradesServed`): out of the proof system's reach.

The library's principles of induction take operators as parameters, which the provers cannot
instantiate. Where an induction over the length of a sequence is needed (`EventSource`), it is done
over sets of numbers: that the order of the naturals is well-founded is a fact about a set, and
`LeastNumber` and `Induction` in `EventSourceProofs` follow from it.

## 5. What is not modelled, and why

* In the modelled components: kqueue, Windows and the other loops; end of file, errors and hang-ups of
  devices; `Timer::update` called by the program and event loops nested in slots of timers; times that
  overflow; nested sends of one event source and sinks that destroy a source while they receive. The
  last two are hazards without a property in `PROJECT.json`, with the reason.
* The type of an event in `EventSource::send`: the code does not look at it. `EventSource.h:53-55` says
  that send delivers to every sink that accepts the type; the models follow the code.
* `HttpServer`: `listen()` again after `cancel`, calls of the server from inside a responder, in a worker
  or in a callback of an acceptor (the waiting for the own loop is a hazard), the bytes and chunks of
  requests and replies, keep-alive time-outs. What an acceptor does after its event was committed is not
  split further, so that a deletion by the main thread while the worker is still in the signal
  (`ServerImpl.cpp:939`) does not show.
* `WebSocket`: the bytes, masks and fragments of frames, the values of the durations, the HTTP handshake
  before it, and channels that are destroyed in a slot.
* Whole components not modelled yet: event signals, connecting, `IOBuffer`, HTTP connection, remoting,
  `LogManager`.
* Components that stay out: parsers, codecs and serialization (about data; TLC would see short inputs
  only), thin wrappers of system calls, graphics, forms, databases, Lua, TLS (adapters of other
  libraries or no protocol), the vendored libraries.

## 6. Plan

Done, in this order: `Multicast`, `Signal` and its refinement; `EventLoop`; `Duplex`; `Timers`;
`EventSource`; `WebSocket` and `HttpServer` with their proofs; the proofs of `EventSource`, and `Delivery`
with its refinement. Next:

1. `EventSignal`: routes ordered by type; it shares the abstract specification with `Signal`, with its
   sends limited to routes of one type. Both hangs of the destructor and of `disconnect`
   (`Signal.cpp:269, 327`) are stated there.
2. `Connect` (resolving, several addresses, accept), `IOBuffer`, then the HTTP connection on top.
3. A composition of `EventLoop` with `Timers`, in which `timeout` comes from the queue.
