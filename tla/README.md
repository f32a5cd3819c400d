# toolbox8: a formal model

toolbox8 is a collection of Scala modules around one idea, the *jar tree*: a running process that accepts jar files
over the network, keeps them in a cache, and plugs and unplugs code loaded from them; beside them it holds a table over
LevelDB and, in `scalajs/o3d`, a graphics library in JavaScript. This directory models the parts of the repository that
keep state and interact, checks the models with TLC on small instances and proves properties of them with TLAPS. The
actors are in `jartree/akka`, the stream app in `jartree/streamapp` and `jartree/requests`, the JavaScript in
`scalajs/o3d/src/main/javascript`; `PROJECT.json` gives the file and the lines of every definition.

## 1. Inventory

### 1.1 Components, their state and their operations

| Component | State | Operations |
|---|---|---|
| **Buffered transfer** (`BufferedSenderActor`, `BufferedReceiverActor`) | sender: `pending`, `complete`, one pull of its `SinkQueue`; receiver: `buffer`, `offering`, `complete`, one offer to its `SourceQueue` | `Data`, `Done`, `Complete`, `Error` in both actors |
| **Jar cache** (`JarCacheActor`) | persistent `State(nextId, lookup)`; files in the cache directory; running children | `VerifyRequest`, `Finished`, `Get`, recovery |
| **Uploader** (`JarCacheUploaderActor`) | `slots`, `queue` of keys to upload, one sender child per key in flight | `VerifyResponse` (in `preStart`), `JarsRequest`, `Done` |
| **Pluggable service** (`PluggableServiceActor`) | persistent `PlugRequest`; `plugged`, `classLoader`, `plugging`, stash | plug request, `PluggingComplete`, `GetPlugged`, `Query`, recovery |
| **Stream app root** (`StreamAppMain`, `PutRoot…FirstRequest`) | the plugged root in an `AtomicReference`; the stored `classloader.config`; `stopped`, `clientThreads`; one thread per client | accept, the two requests that replace the root, `persist`, shutdown hook, start |
| **Stream app cache** (`StreamAppThread`, `JarCache`) | jar files in one directory; nothing in memory | `VerifyCacheRequest`, `PutCacheRequest`, `RunMarked`, `RunRequest` |
| **LevelDB table** (`LevelDBTable`) | the last id, in memory and under the meta key; rows | open, `insert` |
| **O3D counters** (`o3d-webgl/counter.js`) | a counter: count, direction, range, mode, whether it runs, its sorted callbacks and where the last search in them ended; the manager: the running counters by type | tick and frame; `advance`; setters, `reset`, `addCallback`, `removeCallback`; binding its count to another parameter |
| **O3D loading** (`o3djs/loader.js`, `io.js`, `scene.js`, `o3d-webgl/archive_request.js`, `file_request.js`) | a loader: `count_`, its parent; a request: `pendingRequests_`, `success`, `done` | `load…`, `createLoader`, `finish`; the answers of the browser; `resolvePendingRequest_` |
| **Stream coding** (`AkkaStreamCoding`) | position in a stream of chunks; the `State` of a `StateMachine` | `Terminal` encoding and decoding, `Multiplex`, `StateMachine.flow` and its sequences |
| **Standalone** (`JarTreeStandalone`, its protocol and client) | cached files, the plugged service | `VerifyRequest` and the jars that follow it, `Query`, `Plug` |
| **Tomcat jar servlet** (`JarServletWsEndpoint`, `PersistedProvider`, `Startup`) | stored config, current provider, jar files | `VerifyJars`, `UploadJarStart`/`Piece`/`End`, `Run`, `apply`, clean start |
| **Pickler registry and actor utilities** (`BoopickleSerializer`, `PubSubActor`, `ActorTools`) | picklers by id; subscribers; a promise | register, unregister; subscribe, publish; watch |
| **Stream stages** (`Streams`, `ByteStreams`, `AkkaStreamTools`) | per-stage buffers | chunking, grouping and splitting of byte strings |
| **Byte string states** (`ByteStringState`, `StreamCoding`) | a parser's state | consume, end |
| **Jar resolver and exec server** (`JarResolver`, `ExecServer`, `ExecClient`) | hash cache; none | resolve; run a closure |

The rest of the repository (Android and Raspberry Pi packaging, installer, builders, D-Bus bindings, generated
JavaScript facades, the rest of the graphics library) holds no protocol or shared state of its own and is not modelled.

### 1.2 How they interact

A client that wants code to run first fills the server's jar cache and then asks for the code to be plugged:

1. The client starts an **uploader** with the keys of the jars. Its `preStart` asks the **jar cache** which of them
   are missing (`VerifyRequest`). The cache answers at once with the missing ones and, before that, starts a file
   writer with a **buffered receiver** for each, under an id it has persisted.
2. For each missing key, at most `Parrallelism` at a time, the uploader starts a **buffered sender** for the jar's
   bytes, addressed to the receiver. When the cache reports a key as done (`Done`), the uploader starts the next.
3. When the file writer of a key is done the cache persists the pair of key and id. When the uploader has no key left
   and none in flight it stops; the client watches it stop and takes this to mean that the cache holds every jar.
4. The client then sends a plug request to the **pluggable service**, which persists it, asks the cache for the files,
   builds a class loader, unplugs the old code and plugs the new.

The **stream app** and the **standalone** server do the same over plain sockets and without actors: a thread or a stream
per client, all sharing one cache directory and one plugged root.

The **LevelDB table** is a library class that any thread of a process may use. The **O3D** parts run in a browser, on
one thread: the browser's timers and answers call them, and they call callbacks of the client, which may call any of
their operations again before they return.

### 1.3 Behaviours that are hard

* Two asynchronous queues and a lossy channel are coupled by counters in two actors (buffered transfer).
* Ids are persisted and files are not: a crash can fall between the journal write, the handler, the creation of the
  file and its end (jar cache). A file that exists must never be written again under the same id.
* Messages arrive in an order chosen by the dispatcher, some from an earlier incarnation of the actor (uploader).
* A request is stashed or dropped while another is being served, and the flag that says so must be reset on every
  path (pluggable service).
* Threads share a root and a cache directory without a lock (stream app).
* A counter is held in memory and on disk (LevelDB table, jar cache), and an insert is two writes that are not synced.
* A callback changes the list, or the counter, that is in the middle of being processed (O3D counters).
* What a counter calls depends on where its last search ended, over turns, wraps and resets (O3D counters).
* Everything is counted that has been begun, and callbacks begin more; many failures are reported to nobody (O3D
  loading).

### 1.4 What makes each component correct

* **Buffered transfer**: the stream sees the elements in order and none twice; it is completed only when it has them
  all; no buffer exceeds the sender's window; the transfer ends unless a fault disturbs it.
* **Jar cache and uploader**: an id is never reused for a second file; a cached key names a closed file of its own,
  before and after a crash; an uploader that stops has its keys cached; without faults it stops.
* **Pluggable service**: what is served is what was last asked for; old and new code are not plugged together; `Done`
  means that the request is plugged and persisted; stashing reorders nothing; without failures everybody is served and
  a restart ends with the persisted request.
* **Stream app root**: no root is forgotten, stopped twice or stopped while in use; a shutdown stops the last root; an
  acknowledged root survives a restart.
* **Stream app cache**: one writer per file; a jar for which a client has read `Done` is whole for ever, unless it grew
  while it was sent; a client that loses a race gets through later.
* **LevelDB table**: an insert that has returned stays; no row is written over, so that no id is given twice, also
  after a loss of power that took some of the log.
* **O3D counters**: a pass advances every running counter once; what a counter shows and calls does not depend on how
  the time was cut; the remembered place is where a search from the last count would end, past the callbacks at it.
* **O3D loading**: `onFinished` is called once, after everything; a scene that is reported as loaded is whole; a loader
  that does not finish waits for something that was lost.
* **Stream coding, stages, byte string states**: what comes out is what went in, cut differently.
* **Standalone, Tomcat jar servlet**: as for the stream app, with a library's cache and with a digest.
* **Pickler registry**: while plugged code is live its pickler is registered, in whatever order old and new come and go.

The hazards behind these properties are listed line by line in `PROJECT.json`.

## 2. Plan

| Order | Module | Extends or uses | State |
|---|---|---|---|
| 1 | `OrderedTransfer` | – | done: the abstract specification of a transfer |
| 2 | `BufferedTransfer` | implements `OrderedTransfer` | done, proved (`BufferedTransferProofs`) |
| 3 | `JarCache` | a transfer of `BufferedTransfer` is one of its steps | done, proved (`JarCacheProofs`) but for liveness |
| 4 | `PluggableService` | – | done, proved (`PluggableServiceProofs`) but for liveness |
| 5 | `StreamAppRoot` | – | done, proved (`StreamAppRootProofs`) |
| 6 | `StreamAppCache` | – | done, proved (`StreamAppCacheProofs`) |
| 7 | `LevelDBTable` | – | done, proved (`LevelDBTableProofs`) |
| 8 | `O3DCounter` | – | done, proved (`O3DCounterProofs`) |
| 9 | `O3DLoader` | – | done, proved (`O3DLoaderProofs`) but for liveness |
| – | Tomcat jar servlet, standalone server, stream coding, stages, picklers | – | left out, see section 7 |

Abstract specifications: `OrderedTransfer` is stated and refined. Worth stating still: for the jar cache a map from keys
to whole jars that only grows, which the cache implements where no write fails.

Every safety property of the modules is proved.

A module is kept to one run, with every fault and, where it has a liveness property, fairness; a second run is there for
a second instance that asks another question, or for a claim of the code's own comments that the model refutes. Properties are few, and each has a mutant.

## 3. The modules

Conventions. One action models one handler, from its message to its last effect. What a handler defers (a future, a
journal write, the answer of a queue) is an action of its own, since other steps come between. Each module has a
constant `Faults`: the environment's misbehaviour is an action whose guard asks whether its kind is in that set, so one
specification serves every run. Operators named `Wrong…` (or after the mistake they make: `HastyDoProcess`,
`VoidPreUnplug`, `UnorderedComplete`, `StashedComplete`) are deliberate mistakes, at least one for each property; no behaviour
uses them, and put in the place of the definition that follows they make the property fail.

### 3.1 `BufferedTransfer` (and `OrderedTransfer`)

The element at position i of the source is the number i. Akka remoting keeps the order between two actors and delivers
at most once, so the channel is a sequence whose head may be lost. Acknowledgements are all alike: a counter.

| Code | Model |
|---|---|
| `preStart`, `doPoll` of the sender; the SinkQueue's future | `Init`, `DoPoll`, `NoPoll`, `PullAnswered` |
| `case d: Data`, `Done`, `Complete`, `Error` of the sender | `SendData`, `SenderDone`, `SourceExhausted`, `SourceFailed`, each with `CheckComplete` where the code calls it |
| `doOffer` and the SourceQueue's future | `DoOffer`, `OfferAccepted`, `OfferDiscarded`, `OfferFailed` |
| `case d: Data`, `Done`, `Complete`, `Error` of the receiver | `ReceiveData`, `ReceiveOffered`, `ReceiveComplete`, `ReceiveError` |
| remoting; the file sink; death of the parent | `LoseMessage`; `SinkClosed`; `Kill` |

A `SourceQueue` that is offered a second element before it has answered fails that offer; the model lets it lose the
element, and the proof that this never happens is part of the inductive invariant.

### 3.2 `JarCache`

The cache actor and all uploaders, with the files. `persist` is three steps, as in Akka: `Accept` (the command is taken
and others are stashed), `Store` (the event is in the journal), and the handler (`StartWriters`, `ReportDone`, both
through `Handling`). The journal is the state that replaying it gives.

| Code | Model |
|---|---|
| `VerifyRequest`, `Finished`: command, `persist`, handler | `Accept`, `Store`, `StartWriters`, `ReportDone` |
| `updateState` | `UpdateState`, `NextId`, `PutEvent` |
| the file streams and `io.foreach` | `FileWritten`, `FileFailed` |
| `Get` of a key that is not cached | `GetMissing` (of a cached key it only reads) |
| `receiveRecover` after a crash | `Crash` |
| the uploader's `JarsRequest`, `Done`, `doProcess` | `UploaderJars`, `UploaderDone`, `DoProcess` |
| an exception in `resources`, restart, `preStart` | `UploaderRestarts` |

A file is a member of `writing`, `whole` or `torn`. Opening a file removes its id from `whole` and `torn`, because
`FileIO.toPath` truncates: this is what makes reuse of an id visible. The bytes of a transfer are not in this module;
`BufferedTransfer` proves what a whole transfer is.

### 3.3 `PluggableService`

`doPlugging` is a chain of futures beside the actor: `job` is where it is (`PreUnplug`, `CallPlug`, `Plugged`,
`JobFails`), and its result is a message in the mailbox. `persist` is again three steps (`Persist`, `Store`,
`DoPlugging`). `live` and `leaving` are the instances that run and those that were asked to unplug; `created` numbers
them, so that a second instance of the same request is not the first. `Recover` is common to a crash and to a restart
by an exception; after the first nothing runs, after the second everything does.

### 3.4 `StreamAppRoot`

One client, one thread, one request. A thread's `pc` is the point in `PutRootReplaceFirstRequest` or
`PutRootStopFirstRequest` it has reached; its local variables are `oldPlugged`, `newPlugged` and, in `persist`, `clc`.

| Code | Model |
|---|---|
| accept loop: `thread.start()`, then `clientThreads.transform` | `Accept`, `Register` |
| `newPlugged`; `holder.getAndSet`; `holder.get`, `holder.set`; `oldPlugged.plugged.stop()` | `Plug`; `Replace`; `GetOld`, `Set`; `StopOld` |
| `persist`: read the holder, truncate the file, write it | `ReadHolder`, `Open`, `Write` |
| what the thread catches; its `finally` | `Fail`; `Close` |
| shutdown hook | `Shutdown`, `Join` (which may time out), `StopRoot` |
| `main` up to the server socket | `Init`, `Restart` with `Started` |

`clean` holds a thread that has been alone in writing the file; without that, what the file holds is a choice between
the thread's config and `Torn`. `promised` is a history variable: what the last client was told.

### 3.5 `StreamAppCache`

A file is absent, partial or whole, and what tells a client's thread about it is only whether it exists (`Verify`) and
whether it could be created (`Create`, else `Reject`). A client comes again after a failure, `MaxAttempts` times.

| Code | Model |
|---|---|
| `VerifyCacheRequest`, its response | `Verify`, one key at a time; `Verified` |
| `PutCacheRequest`: `createNewFile`, which `require` wants to succeed | `Create`, or `Reject` |
| `IOUtils.copy`, `fos.close`, `Done` | `Copy`, or `CopyCutShort` in `StreamEnds` and `JarGrows`; `UploadBreaks` where it throws |
| the client's `require(dis.readObject() == Done)` | `Confirm`, or part of `JarGrows` |
| `readObject` at the end of the stream or at what it cannot read; the thread's `finally` | `End`; `Leave` |
| `RunRequest` | `Load` |

`Done` sent and `Done` read are two things. The server copies through a `BoundedInputStream`, compares nothing with the
size that was announced, and writes `Done` for whatever it has copied when the stream ends. So `Done` alone does not say
that a jar is whole (`CopyCutShort` leaves the file partial), and `ConfirmedIsWhole` is about the clients that have read
it (`confirmed`). The client of the repository sends all that its file has before it waits for `Done`
(`StreamAppClient.scala:143-150`), and ends its stream only by closing the connection, both directions at once (its `finally`, 273-275, or its
death): nobody reads the `Done` of a stream that has ended. A client that closed only its output would read `Done` for half
a jar; there is none in the repository. One case remains, a jar that grows between `f.length()` and the copy
(`JarGrows`): its client may read `Done` for a truncated jar, and the property excepts it (`outgrown`). One that shrinks
leaves the server waiting for the rest until the client closes, which is `StreamEnds` again.
`broken`, `confirmed`, `outgrown` and `rejected` are history variables.

### 3.6 `LevelDBTable`

LevelDB appends every write to a log; `stores` is what the database held after each of them, and `durable` how many of
them a loss of power cannot take back: those up to the last write that was synced.

| Code | Model |
|---|---|
| `keyProvider` of a new object: `db.get(metaKey)` | `Open`, in `Restart` (the process ends) and `PowerLoss` (the log is cut as well) |
| `KeyProvider.next` | `NextId`, modulo the number of keys |
| the `synchronized` block of `insert` | `Allocate`, or `AllocateFails` where `put` throws |
| `db.put` of the row, with the caller's options | `PutRow`, or `PutRowFails` |

An id runs from 0 to `KeyCount - 1` and wraps to 0, whose key is the meta key: negative numbers are the upper half. What
the bytes of a row mean when they are read as an id is a choice. `wrapped` is a history variable.

### 3.7 `O3DCounter`

`advance` is a function, `Advance(c, amount)`: the counter afterwards and the callbacks it has queued. `Path` cuts the
move into legs, each of which is a call of `callCallbacks_`; the four branches of the code, for a range with start below
or above end and a move towards either, are one with a sign (`mirror`). The callbacks are client code, so that each
call of one is a step (`CallNext`, `Return`) in which any operation on any counter may come, `advance` also: its
callbacks go in front of those still queued, with `Resume` as the mark where the outer callback goes on.

The loops of `advance` have closed forms here, so that the prover can take them: `CyclePath` and `BouncePath` say how
often the range fits into what is left, and where each leg ends. `MCO3DCounter` has the loops turn by turn, and its
`ASSUME PathsAreLoops` compares the two for every start, move and range of a small instance. `Along` goes through the
legs with what `callCallbacks_` remembers, and `NumberBelow` is where its searches of the sorted list end.

| Code | Model |
|---|---|
| `tick`, `advanceRenderFrameCounters` | `Tick`, `RenderFrame` |
| `advanceCounters`: the copy, the loop, the end | `BeginPass`, `Turn`, `EndPass` |
| `advance`; its loop over the queue | `Advance` in `Turn` and `AdvanceByHand`; `CallNext` |
| `callCallbacks_`; `next_callback_`, `prev_callback_`, `last_call_callbacks_end_count_` | `CallCallbacks`, `CallsUp`, `CallsDown`; `next`, `prev`, `lastEnd` |
| `running`, `forward`, `countMode`, `start`, `end`, `multiplier`, `count` | `SetRunning`, `SetForward`, `Configure`, `SetsCount` |
| the `gl` setter, by which a pack gives a counter its manager | `Attach` |
| `reset`, `addCallback`, `removeCallback`, `removeAllCallbacks` | `Reset`, `ChangesCallbacks` |
| `bind` on the count, and the other parameter | `Bind`, `SourceMoves` |
| a callback that throws | `Throws` |

What a callback throws is caught nowhere in the library: the rest of the queue, of the pass and of the frame is lost
(`Throws`), so that counters are left out of that pass. A client that catches, in one callback, what an `advance` of its
own has thrown is not modelled.

Counts are integers; the code adds and subtracts floating point numbers and may be off by the last digit where this
model is exact. `registerCounter` keeps no set: `Attach` of a counter that runs appends it, as the code does.

### 3.8 `O3DLoader`

There is one thread. An answer arrives when `stack` is empty; a callback of the client is then on the stack until it
returns (`ItemReturns`, `LoaderReturns`) or throws (`Throws`), and the client's calls may come at any time.

| Code | Model |
|---|---|
| `createLoader`; `Loader.createLoader`; `finish` | `CreateLoader`; `CreateNested`; `Finish` |
| `loadTexture`, `loadBitmaps`, `loadRawData`, `loadScene`, `loadTextFile` | `Load`, with a member of `Kinds` |
| `countDown_` | `CountDown` and `Told`, in `Finish`, `ItemReturns`, `LoaderReturns` |
| `onreadystatechange` of a text file; `onload` of an image | `TextArrives`; `ImageArrives` |
| the callback of `ArchiveRequest.send`; `resolvePendingRequest_` | `SceneArrives`, `SceneFails`; `FileArrives`, `Resolved` |
| `onFinished` in `loadScene`; `deserializeMore`, with the `finishCallback` it calls, which may throw and so lose the answer | `ArchiveDone`; `Deserialized` |

The client finishes a loader once, as the documentation of `createLoader` shows, and uses a finished one only in the
callbacks of what it has loaded with it: before they return the loader still waits for them, so that more may be added.
`calls` and `failed` are history variables.

## 4. The runs

| Run | Configuration | What it shows |
|---|---|---|
| `transfer` | 5 elements, window 3, every fault, fair | types, `PollDiscipline`, `WindowBound`, `Settles`, and that `OrderedTransfer` is implemented |
| `cache_all_faults` | 3 keys, 2 uploaders that share one, 2 slots, every fault but an uploader's restart, 1 incident | types, `FileOfOneKey`, `StateFollowsJournal`, `NeverReopened`, `StoppedMeansCached` |
| `cache_live` | the same keys; a crash or an uploader's restart; fair | `CachedIsWhole`, `UploadsFinish` |
| `service` | 4 clients (two requests, `Clear`, a question), every fault, 1 crash or restart, fair | types, `ServedIsCurrent`, `OneLive`, `InArrivalOrder`, `AckedIsServed`, `EveryoneServed`, `Recovers` |
| `root_at_once` | 2 clients that replace first, at once, every fault, 1 restart | types, `EveryRootAccounted`, `CleanShutdown` |
| `root_in_turn` | 4 clients, two of each kind, one after the other in any order, every fault but a root that cannot be plugged at the start, 2 restarts | `NeverTwoLive`, `PromiseKept` |
| `appcache` | 3 clients, 2 jars, 3 attempts each, every fault, any cache directory at the start | types, `OneWriter`, `ConfirmedIsWhole`, `RejectedOnce`, `LoadsWhole` |
| `leveldb` | 2 threads, 2 values, 3 ids before the wrap, a log of 5 writes, every fault, 2 restarts | types, `AckedIsStored`, `RowsKept` |
| `counter` | 2 counters in one list, one with callbacks at 0 and 1 in each mode that has an end and with both orders of the range, the other continuous with a multiplier of zero | types, `RememberedPlaces`, `RateIndependent`, `AdvancedOnce` |
| `counter_downward` | the same, the first counter continuous | **violated**: `NoDoubleFiring`, see section 6 |
| `loader` | 2 loaders, 2 items of any kind, 2 files, every failure, fair | types, `FinishedAfterAll`, `WholeScenes`, `FinishesOrLost` |
| `loader_report` | the same | **violated**: `RequestsReport`, see section 6 |

Deadlock is checked in the two runs of the counters, which never come to rest. Everything else may: transfers end,
clients go away, a log is full, and a lost message or a failed job leaves its actors waiting, as in the code.

**Bounds.** The source is longer than the window, so the window fills, drains and fills again, and the receiver's
buffer holds more than one element behind an offer. An uploader has more keys than slots, so its queue is used, and two
uploaders want one key, so that the same jar is written twice. A behaviour of `service` begins with a recovery, so that
one restart more is a restart during or after a recovery. Two threads are enough for both orders of every pair of their
steps; four clients in turn, two of each kind, give each kind of request a predecessor of the other kind and of its own. Three ids and five
writes let both threads have their two writes under way at once, lose the one or the other, and wrap. The counters'
range is one or two long and amounts go to 3, twice 3 when taken together: a counter stops, wraps and turns several
times in one advance; a callback may advance a counter within a callback (`MaxNesting`), and one callback may start and stop both
counters. Two loaders and two items give a nested loader, a load begun in a callback of the last load, and two answers
in both orders; two files of a scene, a failure before and after a success. `MaxIncidents`, `MaxRestarts`,
`MaxAttempts`, `MaxPuts` and `MaxCount` bound only how often a behaviour meets a fault or how far it counts. Symmetry is used in
`cache_all_faults` (between keys only one uploader wants), in `appcache` (between clients that want the same jars) and
in `leveldb` (between threads and between values), never where a liveness property is checked.

**Fairness.** Weak fairness of the actors' steps stands for the Akka dispatcher, which runs every actor that has mail;
of `Store` for the journal plugin; of `PullAnswered`, `OfferStep` and `FileWritten` for streams that produce, consume
and write; of `JobStep` for plugged code that keeps its promise to complete its futures. In `O3DLoader` it stands for
the browser, which answers a request that was sent and runs its timers, and for callbacks that return; the client's own
calls are not fair. No fault is ever obliged to happen.

**Where a property has a condition, it is the code's.** `Settles` holds under every fault and names what a transfer can
wait for for ever (`Disturbed`): nothing in the code times it out. `UploadsFinish` speaks of behaviours without an
incident: nothing asks again. `InArrivalOrder` and `EveryoneServed` speak of the time between restarts, since a restart
drops the mailbox and the stash; `EveryoneServed` and `Recovers` except a job that has failed, and `OneLive` instances
that an exception in `postUnplug` has made the actor forget. `StoppedMeansCached` is not checked with `resourceError`,
because a restarted uploader counts the `Done` of its last instance. `EveryRootAccounted` is about clients that replace
first; `NeverTwoLive` and `PromiseKept` are about clients one after the other. `AckedIsStored` and `RowsKept` end where
an id wraps to zero. `RateIndependent` has two exceptions, an empty range and an advance by zero, and counts the double
call of section 6 as one. `CachedIsWhole` speaks of runs in which no write fails and no `Get` misses; `ConfirmedIsWhole`
excepts jars that grew while they were sent, `LoadsWhole` those whose upload is under way or was given up, and
`CleanShutdown` shutdowns that leave a thread running. `FinishesOrLost` excepts a loader that waits for an item or for a nested loader that is lost.

## 5. The proofs

All proofs are for every value of the constants under the `ASSUME`s of the modules (a window and slots of at least one,
finitely many keys, well-formed requests) and name further assumptions in the theorem.

* `BufferedTransferProofs`. The inductive invariant is `Inv` at the end of `BufferedTransfer`. `WindowBound` counts every
  element under way against `pending`, which keeps the counters in range. `CreditInv` says that an acknowledgement
  stands for an accepted element as long as the stream is open; with `ChannelInv` (nothing follows the message that ends
  a transfer, and `Complete` is sent when nothing is pending) this gives `CompleteIsWhole`: elements that are accepted
  in increasing order, as many as were sent, are all of them. `OrderInv` orders what was delivered before what is
  offered, buffered and in the channel, whatever is lost. The last theorem, `Refinement`, maps every step to a step of
  `OrderedTransfer` or to a stutter. `CompleteIsWhole` has no run of its own: `OrderedTransfer` implies it.
* `JarCacheProofs`. `FreshIds` (whatever was opened is below `nextId`), `ReportedIsClosed` and `IdOfOneKey`, together with
  `StateFollowsJournal`, give `NeverReopened`, `WholeForever` and `FileOfOneKey` with every fault. `WholeCache` adds
  `WholeInv` and assumes that no write fails and that no `Get` misses.
  `StoppedMeansCached` holds as long as no uploader is restarted. An uploader is in one of four phases:
  `Asking`, `Told` (the answer is its first message), `Working` and `Lost` (the request or its answer was lost). While
  it works, its slots, the uploads it has started and the `Done`s under way to it are never more than its slots at the
  start and its uploads that are over and cached (`Working`); a lost `Done` lowers the left side only, and an upload
  that failed before it was started raises both. When the uploader stops, with all of its slots and nothing queued, its
  uploads are therefore no more than those that are cached. `Once` keeps an upload from being counted twice.
* `PluggableServiceProofs`. A stored event, a running job and a `PluggingComplete` in the mailbox are one token (`Token`),
  which is there only while `plugging` is set or an event is being persisted; so nothing but its next step changes the
  request, the plugged code or what is live (`Asked`, `Instances`). For the order, `Order`: the messages taken so far
  are a prefix of those that arrived, and the stash followed by the mailbox, but for a result, is the rest, in order;
  the last request of the prefix is the current one, and each of its questions was answered with the last request
  before it. Several questions may wait, and many requests.
* `StreamAppRootProofs`. `RInv`: roots have numbers that are given once, and every live root is the holder's or in the
  hands of one thread; for clients that replace first, any number at once. `SInv` and `PInv` assume one client at a
  time; `PInv` also that a stored root can be plugged again.
* `StreamAppCacheProofs`. One invariant: a file that is being written is partial, is in nobody else's hands and was not
  given up; one for which `Done` was sent after a whole copy is whole, and so is one for which a client has read `Done`,
  unless it grew (`Confirmation`, under every fault); a rejected key is not absent any more, so that the next attempt does not ask to
  put it.
* `LevelDBTableProofs`. Along the log the last id only grows and rows only come (`LogGrows`), and no row is above the last
  id that was written with it (`RowsBelow`). Therefore, wherever a loss of power cuts the log, the table opens with an
  id above all the rows that are left. `IdsInUse` says the same of the inserts under way, and `Kept` that what was
  synced is in every cut.
* `O3DLoaderProofs`. The count is the number of things a loader waits for (`Counted`: `count` is the cardinality of
  `Awaited`, a finite set from which every step takes one or to which it adds one). `CalledOnce`, `Owned` and `Stacked`
  tie the callbacks that run to their loaders: only a loader that still waits can be used. `Archives` is the same of a
  scene and its files.

* `O3DCounterProofs`. The inductive invariant is `Inv` at the end of `O3DCounter`. A counter's part of it (`Fine`) is that
  its callbacks are sorted and that a place it remembers is `NumberBelow` of its last count. `Below` says what that
  number is for a sorted list, by induction on the count; from it a leg up or down calls what lies between its ends and
  leaves the right place (`UpLeg`, `DownLeg`), and so do all legs of a path (`GoodAlong`). The inductions are made by
  the least-number principle (`Least`): the least leg at which it fails has a predecessor. The manager's part is that
  its lists have every attached counter that runs, once (`RegisteredRun`), and that the counters in `throughout` that
  have had their turn in the copy of the list are those that were advanced (`PassInv`).

  `RateIndependent` holds in every state of the invariant (`SameRate`). First the paths: those of an advance by a and of
  the next by b are the path of one by a + b, cut in one leg (`Composes`). For a cycle the wraps of the two add up
  (`WrapsOn`); an oscillating path is a zigzag of which only the number of turns and what is left count (`IsZigzag`,
  `ZigzagComposes`), and where the first advance turned the counter, the second sees the range mirrored, which is the same
  path again (`OppositeFrame`, `SecondRoute`). Then the calls: the leg that is cut calls what its parts call together
  (`JoinUp`, `JoinDown`, `JoinZero` for a cut at a turn), with one exception, which is the double call of section 6:
  a leg downwards that is cut at the lowest callback. What comes after the cut goes along the same legs from the same
  remembered places, and therefore calls the same (`SameSuffix`). The theorem is about integer counts; with the
  floating-point counts of the code it holds as far as additions are exact.

Only model-checked are every liveness property (`Settles`, `UploadsFinish`, `EveryoneServed`, `Recovers`,
`FinishesOrLost`), which is out of the prover's reach, and that the closed forms of `CyclePath` and `BouncePath` are what
the loops of the code compute (`PathsAreLoops`), which is an induction over what a recursive definition computes.

## 6. What the models say about the code

Two runs refute a comment of the code:

* `counter_downward`. `counter.js:154-156` says that the last end count is kept "to prevent double-firing of callbacks
  if start_count is the same". Going down, `prev_callback_` ends at -1 when no callback is left below, and -1 also means
  that the place is not known (`counter.js:651`): a counter that is advanced down to its lowest callback, and then
  further down, calls it twice. Upwards it does not happen.
* `loader_report`. `archive_request.js:150-152` and `file_request.js:199-200` say that "the onreadystatechange callback
  will be called no matter what, with success or failure". An archive request whose main file cannot be loaded throws
  while it parses the empty text (`archive_request.js:162`); a file request sets no `onerror` for its image
  (`file_request.js:206`), and one for any other URL is opened and never sent (`file_request.js:211`). In each case
  nothing is called, and a loader that counts on it never finishes.

Behaviour that the models reproduce and that no property forbids, because the repository claims nothing to the contrary:

* a file write that fails is reported as finished and the torn file is cached as the jar (`FileFailed`);
* a failed offer is handled by nobody, and both actors of the transfer wait for ever (`OfferFailed`);
* a restarted uploader counts acknowledgements of its last instance (`UploaderRestarts`);
* a plugging job that fails leaves `plugging` set: every later request is stashed for ever (`JobFails`);
* an exception in `postUnplug` leaves an instance plugged that nobody knows (`PostUnplugThrows`);
* of two clients that stop the old root first at the same time, one's root is overwritten and never stopped;
* two threads in `persist` may leave a config that is not the holder's, or none that can be read;
* a thread may end before it is put among `clientThreads`, and then stays there (`Register` after `Close`);
* an upload that is broken off leaves a file that is taken for a jar from then on (`UploadBreaks`);
* a stream that ends in the middle of a jar ends the copy without an exception, and `Done` is written for the partial
  file (`StreamEnds`); a jar that grows while it is sent is cached truncated, and its client may be told `Done` (`JarGrows`);
* the row of the id zero is written over the last id, and after it every id is given again (`PutRow` once `wrapped`);
* an advance by zero counts as one towards the end, whatever the direction (`counter.js:392`): a counter that stops at
  its end and stands there is stopped by a tick of no length, and one that cycles wraps to its start; one that
  oscillates does nothing, for the loop of its branch is not entered;
* `counter.js:622` says that callbacks are called "up to but not including" the end count; one at the end count is called
  too (640), as the documentation of `addCallback` wants of a callback at the end;
* a change of the list of callbacks forgets the remembered place, so that a callback at the very count is called again;
  for the same reason a callback at the start is called counting forward too, other than `counter.js:677-679` says;
* `old_count_` is not the count but the beginning of the last leg (`counter.js:614`): a counter whose count is bound to
  another parameter after some advances calls the callbacks of that leg again.

## 7. Not modelled

`Query` and `GetPlugged`-like reads change nothing and appear only where a property is about their answer. The contents
of jars, class loading, logging and the wire format are data: a load either succeeds or fails. Of the table over LevelDB,
a second table over the same prefix. Of loading, `LoadInfo`, which only measures progress (and where
`getTotalKnownRequestsToStreamSoFar` calls a misspelt method), and what a deserializer builds.

Left out as components, with the reason:

* **Tomcat jar servlet**: one session at a time writes jars straight to their final path; it has the stream app cache's
  hazards without its `createNewFile`, and its digest is finished with every piece. A model would show what can be read
  off: that nothing protects a file.
* **Standalone server and client**: its cache is a library outside the repository, and what can go wrong between clients
  is decided there.
* **Stream coding, stages, byte string states**: parsers and cutters of byte strings, functions of their input, run by
  Akka Streams one step at a time; the concurrency is the library's.
* **Pickler registry and actor utilities**: an assignment per message.
* **The rest of the graphics library**: geometry, matrices and shaders in floating point and draw calls, from the
  beginning to the end of an event on one thread. It makes up nearly all of the repository's JavaScript, so that the
  models cover a small share of its lines: the counters and the loading are the parts in which one event depends on
  another.
* **Entry points, packaging, bindings, builds, commented-out code**: nothing that one step leaves for another.
