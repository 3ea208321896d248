# Gaslight in TLA+

Gaslight is a mock Ethereum JSON-RPC node that misbehaves on purpose: a scenario
file makes it produce blocks, finalize, reorg, delay answers and answer `null`
for what exists.  These modules model the parts of it whose correctness depends
on order: the chain and its lock-free readers, the head subscriptions, the fault
registry, the engine that performs a scenario, the RPC handler that answers from
the chain through the faults, WebSocket connections, and the server's way to its
end.  TLC checks them on small instances; TLAPS proves every invariant, every
action property and every refinement that these runs find to hold, for all values
of the constants.  What is only model-checked is liveness.

## Inventory

| component | state | operations | used by |
|---|---|---|---|
| chain values, snapshot (`internal/chain/{hash,types,snapshot}.go`) | an immutable `ChainSnapshot`: block map, canonical slice, head, finalized height | `Head`, `Height`, `ByNumber`, `ByHash`, `BlockByTx`, `ReceiptOf`, `Finalized`, `clone` | driver, RPC methods |
| driver (`chain/driver.go`) | `current` (atomic pointer), `seq`, `mu`, the clock's parameters | `ProduceBlock`, `Finalize`, `Reorg`, `Snapshot` | engine, main, RPC |
| head subscriptions (`chain/events.go`) | `subs`, `subSeq`, one buffered channel per subscriber | `SubscribeHeads`, unsubscribe, `notifyHeads` | driver, WebSocket |
| fault registry (`internal/faults`, `rpc/faults.go`) | list of faults under an RW lock, an atomic budget per fault | `Enable`, `Clear`, `Before`, `After` | engine; every RPC method |
| scenario (`internal/scenario`) | `Scenario`; the engine's `cursor`, `height`, resolver | `validate`, `Step`, `Run` | main |
| RPC handler (`internal/rpc`) | none but a message's answers so far and its lazy snapshot | `ServeRPC`, seven methods | HTTP, WebSocket |
| WebSocket connection (`transport/ws.go`) | `subs`, `subSeq`, two locks, a context; a read loop and one pump per subscription | subscribe, unsubscribe, `write`, close | server |
| server (`transport/server.go`, `http.go`) | set of connections, base context | `Start`, `Shutdown`, add and remove connections | main |
| command (`cmd/gaslight`) | goroutines and the select between them | run, stop | – |

How they interact.  One goroutine (the engine, or a block ticker) calls the
driver; request goroutines load its snapshot without a lock; the driver sends
heads into subscribers' channels while it holds its lock, and a pump goroutine
per subscription reads them; every RPC method runs between `Registry.Before` and
`Registry.After`, while the engine changes the registry; the read loop and the
pumps of a connection share its write lock; `Shutdown` cancels the context every
delay listens to, closes the WebSocket connections itself, and leaves the rest to
net/http.

What is hard, and where (`hazards` in `PROJECT.json` has each at its line):
copy-on-write under readers; a sequence of legal finalizations and reorgs;
channels that fill up, are closed by two parties, and outlive their
registration; budgets taken by concurrent requests while the list is reaped;
a validation that predicts a chain it never sees; batches that are delayed
halfway while the chain moves; writes to clients that do not read; delays,
upgrades and half-open connections against shutdown.

What makes each correct:

* chain: the canonical slice is a path, finality is permanent, orphans never
  return and stay reachable, queries agree;
* driver: a published snapshot never changes, operations are atomic to readers,
  none is lost;
* subscriptions: heads arrive without gap or repetition and in order, a slow
  subscriber stops nobody, every end is seen;
* faults: a budget is spent exactly, by the requests that were lied to or
  delayed; reaping and clearing are exact; cancelled requests end;
* scenario: what is accepted runs to the end as predicted;
* RPC: a message is answered from one state, no older than the end of its first
  delay, and what was sent for finalized is never contradicted;
* WebSocket: the response comes before the first notification, no client stalls
  a goroutine, every subscription is given back and every goroutine ends;
* server: a process that stops unasked fails, one that is asked stops without
  its deadline.

## Modules

| module | models | extends / uses |
|---|---|---|
| `Snapshot` | values, block construction, the queries | – |
| `Chain` | the driver's operations, atomic | `Snapshot`; `ForkChoice` |
| `ForkChoice` | what a chain promises: a path that only grows, over fresh blocks, above a watermark | – |
| `RcuDriver` | the statements of the operations over explicit memory | `Snapshot`; `Chain` as the abstraction |
| `HeadFeed` | subscriptions and `notifyHeads` on top of the operations | `Chain`; `HeadSource` as the abstraction |
| `HeadSource` | what the transport may count on from subscriptions | – |
| `Faults` | the registry under concurrent requests | `FaultSource` as the abstraction |
| `FaultSource` | what a request may count on from the faults | – |
| `Scenario` | what a scenario is and which are accepted | `Snapshot` |
| `Engine` | an accepted scenario performed on the chain | `Chain`, `Scenario` |
| `RpcHandler` | messages answered from the chain through the faults | `Chain`, `FaultSource` |
| `WsConn` | one connection: read loop, pumps, write lock, socket | `HeadSource` |
| `Server` | listener, requests, upgrades, `Shutdown`, `main` | – |
| `ChainProofs`, `HeadFeedProofs`, `FaultsProofs`, `EngineProofs`, `WsConnProofs`, `ServerProofs` | theorems | the module of that name; TLAPS.  `HeadFeedProofs` and `EngineProofs` build on `ChainProofs` |
| `RpcProofs`, `RcuProofs` | theorems about `RpcHandler` and `RcuDriver` | also `ChainProofs`, extended by the first, instantiated at the published snapshot by the second |
| `MC…` | values of the constants for TLC | the module of that name |

Two interfaces of the code, `transport.HeadSource` and `rpc.FaultSource`, cut the
system into parts that are checked apart: `HeadFeed` and `Faults` are shown to
implement what `WsConn` and `RpcHandler` are built on.  `RcuDriver` in the same way
justifies that everyone else takes a driver call for one step.

A definition with an underscore in its name (`Reorg_SeqOnce`) is a mutant of the
definition it precedes: the form a plausible bug would give it.  No
specification uses one.  Each property of a passing run has one
(`mutants` in `PROJECT.json`) under which TLC finds it violated.

### Correspondence with the code

*Hashes.*  A SHA-256 digest is its preimage, so a block hash is the sequence of
the preimages along its ancestry.  That is collision freedom and nothing more:
two blocks whose digested fields agree do have the same hash, which is what
`OrphansStayOrphaned` is about (`seq` is digested to prevent it).

*Snapshot and driver.*  `current` and `seq` are `Driver.current` and
`Driver.seq`; `ProduceBlock`, `Finalize` and `Reorg` are the methods.  An
operation holds `Driver.mu` throughout and publishes by one atomic store, hence
one action.  `FinalizeError` and `ReorgError` give the error a call returns, in
the code's order of tests; a refused call changes nothing.  Timestamps are
reduced by `TimeModulus` (2^64).

*RcuDriver* justifies that atomicity.  `maps`, `arrays` and `snaps` are the heap;
`ptr` is the atomic pointer, `mu` the mutex; each writer has a program counter.
`Clone`, `Truncate`, `Insert`, `Finish`, `Store`, `NotifyHeads` and `Unlock` are
the statements in order; `append` overwrites the array behind the slice, so a
clone that shared its slice would be seen.  The refinement mapping reads the
published pointer, and counts only the numbers of published blocks as `seq`,
which `buildBlock` advances early.

*HeadFeed.*  `subs`, `subSeq` are the fields, `chans` the channels (buffer and
closed flag), `notice` a `notifyHeads` at work.  Between its sends subscribers
receive, but no other call that needs the lock gets in.  A receiver drains a
closed channel before it sees the end, as Go's do.  `heads`, `origin`, `seen`,
`ended` and `left` are history for the properties.  `Stream` maps a channel to
`HeadSource`: whether it is open, dropped or closed by its owner, and how many
heads wait.

*Faults.*  A request is `withFaults`: match (the copy under the read lock), load
and compare-and-swap (`consume`), wait, the method, match again.  Its context may
be cancelled before it begins, as that of the later items of a batch is.
`Enable` holds the lock while it walks the list, one action per fault, and
requests that have their copy go on meanwhile.  `fired` and `cleared` are history.
`Turn` maps a call to `FaultSource`: before, in and after the method, with what the
method returned and what the client is sent.

*Scenario and Engine.*  `After` and `ValidEvent` are one turn of validate's loop,
`Outcome` the loop; `Accepted` is the set of scenarios that pass, built event by
event.  An event has the types it decodes to: heights are unsigned, the length of
a branch is an `int` and may be negative or zero, which is validate's to refuse.  `Engine`
starts from any of them.  Each driver or registry call of a `Step` is an action
of its own, since clients see the chain in between.

*RpcHandler.*  `Arrive` is the start of `ServeRPC` with its unread `lazySnapshot`
(`once` is the `sync.Once`, `snap` what it loaded); each item is refused
(`Refuse`) or goes through `Call`, `Proceed` and `Handle`: `Before`, its return,
then the method and `After`.  `WriteChain` lets any driver operation happen between
any two steps.  `Result` has the seven methods with their order of parameter
checks; an item is a method, the kind of parameter it came with, and what that
decodes to.  Hashes asked for are those the client was sent, or unknown ones.
One client stands for all: handlers share nothing but the chain and the faults,
both of which move freely.  `asOf`, `woke`, `told`, `finals` are history.

*WsConn.*  `loop` is the goroutine of `readLoop` with the subscription its reply
is about and the unsubscribe functions it has yet to call; `pump` the goroutines of
the subscriptions; a pump that ended at a failed write is `failed`, as it leaves its
id registered, and any other that ended is `gone`.  `subs` is the map.  `subMu` covers single map operations and is
not a variable.  `c.mu` is held by whoever is at `write`.  The socket takes
`SocketRoom` frames; a write that finds it full fails at its deadline, and a
failed write is sticky, as gorilla's is.  A close frame does not take `c.mu`; it
gets through or not.  `closer` is `Shutdown`'s pass over the connection.  The
client reads, sends, and leaves when it likes.

*Server.*  `main` is the main goroutine from its select through the steps of
`Shutdown`: cancel `baseCtx`, copy the set, close each connection, stop listening
and drain.  `phase` is how far the server is with each TCP connection: HTTP
request, upgrade, hijacked, open.  A hijacked connection that has not been added
yet is one net/http no longer knows and `closeAllConns` does not know yet.
`worker` is the goroutine of the scenario or of the block ticker, and `serveErr`
the buffered channel of `Start`.

## Runs

| run | asks | bounds | distinct states |
|---|---|---|---|
| `chain` | the chain's invariants and action properties, and the fork choice | 6 blocks, branches ≤ 3, two kinds of block | 5 049 |
| `feed` | no gap, no repetition, no closed channel registered, only the slow dropped; the chain is never held up; every end is seen | 4 blocks, branches ≤ 2, 2 subscriptions, buffer of 2 | 66 680 |
| `rcu` | no torn reads, no lost updates, calls return, implements `Chain` | 2 writers, 4 blocks, 5 snapshots | 18 209 |
| `faults` | exact budgets, exact reaping and clearing, implements `FaultSource`, cancelled requests end | 2 requests at a time (any number in all), 2 methods, 2 faults of 4 kinds | 364 102 |
| `faults_masking` | *violated*: a spent delay masks no live one | 1 request at a time | – |
| `engine` | accepted scenarios run as predicted, to the end | 3 events, heights ≤ 3 for events, ≤ 6 for the chain | 351 052 |
| `engine_twice` | *violated*: no transaction is canonical twice | same | – |
| `rpc` | answers agree, are fresh, and finality holds for clients | 7 messages of up to 4 items, 3 blocks, branches ≤ 2 | 846 213 |
| `ws` | the protocol of a connection, its clean-up, and that nobody stalls | 2 subscriptions, 2 requests, head buffer of 1, socket of 1 frame | 201 672 |
| `ws_delay` | *violated*: a delay ends with its connection | 1 subscription, 3 requests | – |
| `server` | exit codes; a signal ends the process | 2 connections | 68 184 |
| `server_upgrade` | *violated*: `Shutdown` closes every WebSocket | same | – |

Why the bounds are enough.  Six blocks let a branch of three replace one of two
after a finalization, twice, and let an orphan be a candidate for return; two
transactions in one block make receipts positional.  A buffer of two overflows
with two blocks unread; a second subscription can come and go while the first
overflows.  Two writers are the least that can lose an update; two requests the
least that can race for a unit, and a budget of two makes a compare-and-swap fail
with budget left.  Two faults give a list to reap and a delay to mask.  Three
events reach finalize–reorg–produce and produce–reorg with a repeated
transaction; `TimeModulus` is small enough for a chain of seven blocks to wrap
and `MaxTimestamp` for one of six to be refused.  A batch of three has an item
that reads before the chain moves and two after; three blocks let a block be
replaced by a branch of two below which another is finalized.  Two subscriptions
on a socket of one frame make a pump, another pump and the read loop want the
write lock at once, with each of them failing; with a head buffer of one a second
unread head drops the subscription.  Two requests are a subscribe and an
unsubscribe, two subscribes, or either with a delayed call.  Two connections let
one be upgraded or delayed while the other is closed.  Distinct connections,
callers and subscriptions do the same things, so that more of them add no kind
of step.

Fairness.  `WriterNeverBlocks` and `EndIsSeen` are assume–guarantee formulas:
under the producing goroutine's fairness alone the blocks get built, under a
subscriber's alone its end is seen; neither may count on the other.
`RcuDriver`: a goroutine inside a call keeps running (Go's scheduler preempts);
nobody is obliged to start a call.  `Faults`: request goroutines and an `Enable`
at work keep running; timers owe nothing, so a delay may be as long as it likes.
`Engine`: the ticker ticks and the goroutine runs; cancellation may come at any
time or not at all.  `WsConn`: the read loop, the pumps and `Shutdown`'s pass keep
running, and whoever waits for the write lock gets it if it is free again and
again (strong fairness, which `sync.Mutex` gives: a waiter of a millisecond is
handed the lock); nothing is asked of the client, of heads or of a delay's timer,
and a write that cannot proceed ends at its deadline.  `Server`: goroutines keep
running, a client that began a request sends it or leaves, and a connection that
has no request is closed in the end, if only after net/http's five seconds;
neither a delay's timer nor `Shutdown`'s deadline owes anything.  Everything else
is weak fairness of what one goroutine does next.

`engine`, `ws` and `server` do not check for deadlock: a run, a connection and a
process really end.  `ScenarioEnds`, `ConnectionEnds` and `SignalEndsProcess` say
that they end, and where.

### What the violated properties say

1. `SpentDelayMasksNone`.  A test's comment says that a short delay fires once
   the long one is spent.  `Before` picks the longest regardless of its budget
   and then waits for none, until an `Enable` reaps it.
2. `NoTxTwice`.  Validation refuses a transaction repeated in a branch because it
   would be canonical twice; one that stands at or below the fork point has the
   same effect and is accepted.
3. `DelayEndsWithConnection`.  A comment says that a connection's context ends a
   delay when the connection ends.  The context is cancelled after the read loop
   returned, and the read loop is what waits for the delay.  `Shutdown` does end
   it, through `baseCtx`.
4. `ShutdownClosesWebSockets`.  A comment says that `Shutdown` closes WebSocket
   connections.  One that is upgraded while it runs can miss both its copy of the
   set and net/http's wait.

Noticed on the way, and modelled as the code has it:

* Heads that were in the buffer still arrive after `unsubscribe`; a test's comment
  says none does (`chain/events_test.go:107-108`), but the test has an empty
  buffer.  `NoGap` covers what arrives.
* A pump whose write failed returns, and if its subscription is dropped later
  nobody tells the client (`transport/ws_test.go:455-456` expects the connection to
  be closed); hence the pump that has `failed` in `SlowIsTold`.  The socket is useless by
  then.
* When a signal and the scenario's failure are ready together, `main`'s select may
  take the signal and exit with 0 (`cmd/gaslight/main.go:113-124`); hence
  `UnaskedIsFailure` speaks of a process nobody asked, and nothing is claimed of
  that race.

## Proofs

Each theorem holds for all values of the constants: any chain length, branch,
transaction set, number of subscriptions, callers, faults, connections, any
buffer, any messages.

| module | theorem | states |
|---|---|---|
| `ChainProofs` | `TypeCorrect` | `[]TypeOK` |
| | `CanonicalPath` | `[](CanonicalIsAPath /\ FinalizedWithinChain /\ SeqIsAhead)` |
| | `Finality`, `OrphansStay`, `HeadRises`, `KnownBlocks` | `FinalityIsPermanent`, `OrphansStayOrphaned`, `HeadOnlyRises`, `KnownBlocksStand` |
| | `ForkChoiceImplemented` | `ImplementsForkChoice` |
| | `InclusionStands` | `FinalizedInclusionStands` |
| `RcuProofs` | `SnapshotsStand`, `AnnouncedAreFound` | `PublishedNeverChanges`, `[]AnnouncedIsPublished` |
| | `WritersImplementChain` | `ImplementsChain` |
| `HeadFeedProofs` | `FeedTypes`, `OpenIffRegistered`, `GapFree`, `KnowsHead` | `[]FeedTypeOK`, `[]RegisteredIffOpen`, `[]NoGap`, `[]CaughtUpKnowsHead` |
| | `HeadSourceImplemented` | `ImplementsHeadSource` |
| `FaultsProofs` | `ExactBudget`, `LiveStay`, `ClearedForGood` | `[]BudgetIsExact`, `[]LiveFaultsStay`, `[]ClearIsFinal` |
| | `ChargedExactly`, `FaultTypes` | `[]ChargedForWhatItGot`, `[]TypeOK` |
| | `SourceImplemented` | `ImplementsFaultSource` |
| `EngineProofs` | `CountsRight`, `ExactClock` | `[]HeightIsTheChains`, `[]ClockIsExact` |
| | `AsValidated`, `EventsFirst` | `RunsAsValidated`, `EventsBeforeBlocks` |
| | `NeverRefused` | `[](pc # "failed")`: the driver refuses no event of an accepted scenario |
| `RpcProofs` | `RpcTypes`, `OneState`, `NoInternalError`, `FreshFirstRead`, `FinalForClients` | `[]RpcTypeOK`, `[]BatchAgrees`, `[]NeverInternalError`, `[]FirstReadIsFresh`, `[]FinalizedIsFinal` |
| `WsConnProofs` | `ConnectionTypes`, `ResponseFirst`, `ClosedForSlowness`, `NothingIsLeft` | `[]WsTypeOK`, `[]ResponseBeforePush`, `[]OnlyTheSlowAreClosed`, `[]NothingLeft` |
| `ServerProofs` | `ServerTypes`, `UnaskedFails` | `[]TypeOK`, `[]UnaskedIsFailure` |

Assumptions are those the modules name, as TLC evaluates them in the runs: that
transaction lists are lists of transactions and messages lists of items, bounds
naturals, buffers positive, `Nil` no block, the interval positive
(`WithBlockInterval` ignores 0), that a fault to enable and an event of a scenario
have their fields' types, and that no goroutine is the value that stands for a
free mutex.

The arguments, each an invariant that is inductive where the property is not:

* `IInv` (`Chain`).  That a new block's hash is fresh needs `seq` to be ahead of every
  known block; that the cut of a reorg leaves a path needs the slice to be one
  already and the watermark below its end.  `ProduceBlock` and `Reorg` are shown to
  be the same move, `GrowsBy(fork, new)`: fresh, linked, numbered blocks on a cut of
  the path.  `GrowsFacts` says what that does to each field, and everything follows
  from it and from `FinalizeFacts`.
* `InclusionInv` (`Chain`).  `BlockByTx` scans from the bottom, so it returns the least height
  with the transaction; the least-element principle gives the answer its height
  (`MinFacts`), and a reorg that leaves everything up to the watermark leaves the
  least one at or below it.  The receipt is found by position, which needs every
  block to be one that `BuildBlock` made (`AllMint`).
* `FeedInv`.  `NoGap` alone says nothing of a subscriber that is about to be told;
  the invariant has for each subscriber where its run of heads ends, whether or
  not the notification has come to it, and that the last announced head is the
  chain's.
* `RcuInv`.  A snapshot that was published must not change while the next one is
  written, and nothing in the property says why it does not.  The invariant does:
  a snapshot at address `a` owns the map and the array of that address and nothing
  refers to a later one; whoever is inside a call holds the mutex; its draft is the
  published snapshot, cut for a reorg, with the first `k` blocks of the branch in
  (`Partial`), so that with all of them in it is what `Chain`'s action yields; and
  what the call decided before it took its copy still fits the published snapshot.
  That the numbers of the new blocks are fresh is `IInv` of the chain that readers
  see, where `seq` counts published blocks only (`Abs`).  With this `Store` is the
  one step of an operation that moves the abstract chain.
* `FaultsInv` and `AllCharged`.  While `Enable` walks the list, the list is not what
  will be stored; the first speaks of what is kept so far, what is yet to be walked
  and the new fault together (`Stored`), and of the copies that requests hold.  The
  second says what a request has been charged at every point of its way, that the
  faults it has yet to try name its method and are of the kind its stage looks for
  (which is what `matching` gives: `MatchingFinds`, `LongestFinds`), and that it pays
  for no lie before it ends.
* `EngineInv`.  That no event is refused depends on validation and on everything the
  engine did since: the chain is the one that `validate`'s model has after the
  events done, but for the blocks that fill the gap to the next event (`OnCourse`);
  the filling never goes past that event or, after the last one, past the end
  (`NotPast`); and no block, orphans included, stands above the head, so
  that the bound on the head's height bounds every block's time.  What `validate` computes is a recursion over the
  timeline.  A least counterexample takes the place of induction over it: that the
  recursion has a value (`PlaysExist`), that two timelines with a common beginning
  agree there (`PlaysAgree`), and that each beginning of an accepted timeline
  passes (`TimelinesPass`).
* `WsInv`.  Who is at `write` holds the lock; an open subscription is in the map or
  in the hands of the read loop, which will give it back or introduce it; a pump
  runs only for an id the client was told.
* `ServerInv`.  `Shutdown` begins, and the channel of `Start` yields nil, only after a
  signal.
* `RpcInv`.  Each answer is the result of its item on the message's snapshot, and
  that snapshot is sound, no older than the first delay, and agrees with every
  block ever sent as finalized, because later states agree with it up to its
  watermark.

What stays with TLC is everything under fairness, which the prover does not handle:
`WriterNeverBlocks`, `EndIsSeen`, `EveryCallReturns`, `CancelledCallsEnd`,
`ScenarioEnds`, `WritesEnd`, `ConnectionEnds`, `SlowIsTold` and
`SignalEndsProcess`.  `NeverRefused` is the half of `ScenarioEnds` that is safety: a
scenario may take its time, but it does not fail.

## Plan

*Done*, in the order in which they matter: `Snapshot`, `Chain`, `ForkChoice`;
`HeadFeed`, `HeadSource`; `RcuDriver`; `Faults`, `FaultSource`; `Scenario`, `Engine`;
`WsConn`; `RpcHandler`; `Server`; the proofs above.

Next:

1. A composition of `Engine` and `RpcHandler`: what a client can see of a scenario's
   fault in the step between a reorg and the fault meant to hide it.
2. The safety halves of the other liveness properties, as invariants to prove: that
   whoever waits for a connection's write lock waits for a goroutine that can move,
   and that a `Shutdown` that waits for a connection waits for one that will close.

## Not modelled

* YAML decoding, the one-action rule and name and address syntax
  (`scenario/parse.go`, `resolve.go`): pure conversions, of which the model has the
  outcome.  JSON and hex encoding (`rpc/hex.go`, part of `wire.go`), flags, logging,
  the version: no state.
* The golden recorder (`goldentest`): test tooling that formats a sequential run.
* Time.  Timers are steps that may come at any moment.  So nothing is said of how
  long a shutdown takes: `closeAllConns` closes one connection after another and
  each may take the ten seconds of its write deadlines, while `Shutdown`'s whole
  deadline is five (`server.go:76-104`).  `SignalEndsProcess` says that it ends.
* The inside of gorilla/websocket and net/http.  What the code depends on of them is in
  `WsConn` (sticky write errors, control frames beside the lock) and `Server` (which
  connections a shutdown waits for), and marked external where it is theirs.
* Memory below a Go statement: atomics are atomic, and the code has no other unlocked
  sharing.
