------------------------------ MODULE O3DLoader ------------------------------
(***************************************************************************)
(* Loading in the o3d library (o3djs/loader.js, io.js, scene.js and the    *)
(* requests of o3d-webgl): a loader counts the items that a client has     *)
(* begun to load with it, and the loaders made from it, and calls          *)
(* onFinished when the count comes to zero.  There is one thread: answers  *)
(* arrive when no code runs, and each runs a callback of the client to its *)
(* end, in which the client may begin further loads, make loaders and      *)
(* finish them.  Many failures are silent: no callback is ever called.     *)
(***************************************************************************)
EXTENDS Naturals, Sequences, FiniteSets

CONSTANTS
    Loaders,
    Items,      \* the loads a client begins
    Files,      \* the .fx, .png and .jpg files that scenes refer to
    NoLoader

ASSUME LoaderAssumption ==
    /\ IsFiniteSet(Loaders) /\ IsFiniteSet(Items) /\ IsFiniteSet(Files)
    /\ Loaders \cap Items = {}
    /\ NoLoader \notin Loaders

VARIABLES
    made,       \* of a loader: not made yet, open, or finished by the client
    parent,     \* the loader it was made from, if any
    count,      \* count_
    told,       \* whether onFinished is to be called, runs, has returned or thrown
    calls,      \* history: how often it has been called
    owner,      \* of an item: the loader it is loaded with
    kind,       \* what it is
    stage,      \* how far it is
    result,     \* what its callback is given: what was loaded, or an exception
    waiting,    \* of a scene: the files it has requested that are not resolved
    pending,    \* pendingRequests_ of its archive request
    success,    \* success of its archive request
    failed,     \* history: the files that could not be loaded
    stack       \* the callbacks that run: of items, and onFinished of loaders

loaderVars == <<made, parent, count, told, calls>>
itemVars == <<owner, kind, stage, result>>
archiveVars == <<waiting, pending, success, failed>>
vars == <<loaderVars, itemVars, archiveVars, stack>>

(* A text file; an image that a file request loads for a texture, a bitmap *)
(* or raw data; raw data at any other URL; a scene.                        *)
Kinds == {"text", "image", "data", "scene"}

(* "requested" until the answer arrives; a scene then waits for the files  *)
(* of its archive and may be deserialized in the background; the callback  *)
(* of the loader runs and returns.  A "silent" request never reports how   *)
(* it went; of a "lost" item the answer has come, but an exception keeps   *)
(* the loader from counting down.                                          *)
Stages == {"none", "requested", "files", "deserializing", "calling", "done", "silent", "lost"}

TypeOK ==
    /\ made \in [Loaders -> {"none", "open", "finished"}]
    /\ parent \in [Loaders -> Loaders \cup {NoLoader}]
    /\ count \in [Loaders -> Nat]
    /\ told \in [Loaders -> {"no", "calling", "done", "lost"}]
    /\ calls \in [Loaders -> Nat]
    /\ owner \in [Items -> Loaders \cup {NoLoader}]
    /\ kind \in [Items -> Kinds]
    /\ stage \in [Items -> Stages]
    /\ result \in [Items -> {"none", "loaded", "exception"}]
    /\ waiting \in [Items -> SUBSET Files]
    /\ pending \in [Items -> Nat]
    /\ success \in [Items -> BOOLEAN]
    /\ failed \in [Items -> SUBSET Files]
    /\ stack \in Seq(Loaders \cup Items)

Init ==
    /\ made = [l \in Loaders |-> "none"]
    /\ parent = [l \in Loaders |-> NoLoader]
    /\ count = [l \in Loaders |-> 0]
    /\ told = [l \in Loaders |-> "no"]
    /\ calls = [l \in Loaders |-> 0]
    /\ owner = [i \in Items |-> NoLoader]
    /\ kind = [i \in Items |-> "text"]
    /\ stage = [i \in Items |-> "none"]
    /\ result = [i \in Items |-> "none"]
    /\ waiting = [i \in Items |-> {}]
    /\ pending = [i \in Items |-> 0]
    /\ success = [i \in Items |-> TRUE]
    /\ failed = [i \in Items |-> {}]
    /\ stack = <<>>

-----------------------------------------------------------------------------
(* The client's calls, between events or in a callback.                    *)

\* A callback of something loaded with l, or onFinished of a loader made from
\* l, is running.
WithinCallbackOf(l) ==
    \E n \in DOMAIN stack :
        \/ stack[n] \in Items /\ owner[stack[n]] = l
        \/ stack[n] \in Loaders /\ parent[stack[n]] = l

\* The client adds to a loader that it has not finished, or, after that, in a
\* callback of what it has loaded with it.
Usable(l) == made[l] = "open" \/ (made[l] = "finished" /\ WithinCallbackOf(l))

NewLoader(l) ==
    /\ made[l] = "none"
    /\ made' = [made EXCEPT ![l] = "open"]

\* o3djs.loader.createLoader
CreateLoader(l) ==
    /\ NewLoader(l)
    /\ count' = [count EXCEPT ![l] = 1]
    /\ UNCHANGED <<parent, told, calls, itemVars, archiveVars, stack>>

\* Loader.createLoader
CreateNested(p, l) ==
    /\ Usable(p)
    /\ NewLoader(l)
    /\ parent' = [parent EXCEPT ![l] = p]
    /\ count' = [count EXCEPT ![p] = @ + 1, ![l] = 1]
    /\ UNCHANGED <<told, calls, itemVars, archiveVars, stack>>

\* A mutated form of Load, which does not count the item.
WrongLoad(l, i, k) ==
    /\ Usable(l)
    /\ stage[i] = "none"
    /\ owner' = [owner EXCEPT ![i] = l]
    /\ kind' = [kind EXCEPT ![i] = k]
    /\ stage' = [stage EXCEPT ![i] = IF k = "data" THEN "silent" ELSE "requested"]
    /\ UNCHANGED <<loaderVars, result, archiveVars, stack>>

\* loadTextFile, loadTexture, loadBitmaps, loadRawData and loadScene.  A file
\* request of another URL than an image's is opened and never sent.
Load(l, i, k) ==
    /\ Usable(l)
    /\ stage[i] = "none"
    /\ owner' = [owner EXCEPT ![i] = l]
    /\ kind' = [kind EXCEPT ![i] = k]
    /\ stage' = [stage EXCEPT ![i] = IF k = "data" THEN "silent" ELSE "requested"]
    /\ count' = [count EXCEPT ![l] = @ + 1]
    /\ UNCHANGED <<made, parent, told, calls, result, archiveVars, stack>>

\* countDown_, when callbacks are left running: it calls onFinished at zero.
CountDown(l, callbacks) ==
    LET last == count[l] = 1
    IN  /\ count' = [count EXCEPT ![l] = @ - 1]
        /\ calls' = IF last THEN [calls EXCEPT ![l] = @ + 1] ELSE calls
        /\ stack' = IF last THEN Append(callbacks, l) ELSE callbacks

\* told, when x has returned and l counts down.
Told(l) == IF count[l] = 1 THEN [told EXCEPT ![l] = "calling"] ELSE told

\* Loader.finish
Finish(l) ==
    /\ made[l] = "open"
    /\ made' = [made EXCEPT ![l] = "finished"]
    /\ CountDown(l, stack)
    /\ told' = Told(l)
    /\ UNCHANGED <<parent, itemVars, archiveVars>>

-----------------------------------------------------------------------------
(* Answers arrive, when no code runs.                                      *)

\* The callback given to the loader is called with what was loaded, or with
\* an exception.
Call(i, given) ==
    /\ stage' = [stage EXCEPT ![i] = "calling"]
    /\ result' = [result EXCEPT ![i] = given]
    /\ stack' = Append(stack, i)

\* Nothing is called, now or later.
Lose(i, how) ==
    /\ stage' = [stage EXCEPT ![i] = how]
    /\ UNCHANGED <<result, stack>>

\* A text file arrives, or cannot be loaded: the callback is called with text
\* or with an exception.
TextArrives(i) ==
    /\ stack = <<>>
    /\ stage[i] = "requested" /\ kind[i] = "text"
    /\ \E given \in {"loaded", "exception"} : Call(i, given)
    /\ UNCHANGED <<loaderVars, owner, kind, archiveVars>>

\* An image arrives, but making a texture or a bitmap of it may throw.
\* Nothing is notified of an image that cannot be loaded.
ImageArrives(i) ==
    /\ stack = <<>>
    /\ stage[i] = "requested" /\ kind[i] = "image"
    /\ Call(i, "loaded") \/ \E how \in {"silent", "lost"} : Lose(i, how)
    /\ UNCHANGED <<loaderVars, owner, kind, archiveVars>>

\* The archive request of a scene is done.  A failed one is reported; the
\* scene of the other is deserialized, at once or in the background, unless
\* deserializeArchive throws before that.
ArchiveDone(i, allLoaded) ==
    IF allLoaded
      THEN \/ \E given \in {"loaded", "exception"} : Call(i, given)
           \/ stage' = [stage EXCEPT ![i] = "deserializing"] /\ UNCHANGED <<result, stack>>
           \/ Lose(i, "lost")
      ELSE Call(i, "exception")

\* The main file of a scene arrives, with the files it refers to, which are
\* requested; the main file is itself the last of the pending requests.  The
\* text of a file that cannot be loaded does not parse, and that throws.
SceneArrives(i, files) ==
    /\ stack = <<>>
    /\ stage[i] = "requested" /\ kind[i] = "scene"
    /\ waiting' = [waiting EXCEPT ![i] = files]
    /\ pending' = [pending EXCEPT ![i] = Cardinality(files)]
    /\ IF files = {}
         THEN ArchiveDone(i, success[i])
         ELSE stage' = [stage EXCEPT ![i] = "files"] /\ UNCHANGED <<result, stack>>
    /\ UNCHANGED <<loaderVars, owner, kind, success, failed>>

SceneFails(i) ==
    /\ stack = <<>>
    /\ stage[i] = "requested" /\ kind[i] = "scene"
    /\ Lose(i, "silent")
    /\ UNCHANGED <<loaderVars, owner, kind, archiveVars>>

\* A mutated form of Resolved, which forgets earlier failures.
WrongResolved(i, loaded) == loaded

\* success, when one more request is resolved.
Resolved(i, loaded) == success[i] /\ loaded

\* resolvePendingRequest_ of a file, which was loaded or not.
FileArrives(i, f, loaded) ==
    /\ stack = <<>>
    /\ stage[i] = "files" /\ f \in waiting[i]
    /\ waiting' = [waiting EXCEPT ![i] = @ \ {f}]
    /\ pending' = [pending EXCEPT ![i] = @ - 1]
    /\ success' = [success EXCEPT ![i] = Resolved(i, loaded)]
    /\ failed' = IF loaded THEN failed ELSE [failed EXCEPT ![i] = @ \cup {f}]
    /\ IF pending[i] = 1
         THEN ArchiveDone(i, Resolved(i, loaded))
         ELSE UNCHANGED <<stage, result, stack>>
    /\ UNCHANGED <<loaderVars, owner, kind>>

\* The timer callback of runBackground, which catches every exception but one
\* thrown while a loaded scene is rebound, before the callback is called.
Deserialized(i) ==
    /\ stack = <<>>
    /\ stage[i] = "deserializing"
    /\ (\E given \in {"loaded", "exception"} : Call(i, given)) \/ Lose(i, "lost")
    /\ UNCHANGED <<loaderVars, owner, kind, archiveVars>>

-----------------------------------------------------------------------------
(* The callback on top of the stack ends.                                  *)

Top == stack[Len(stack)]
Below == SubSeq(stack, 1, Len(stack) - 1)

\* A mutated form of ItemReturns, which takes a finished loader to have
\* nothing left to wait for.
WrongItemReturns ==
    /\ stack # <<>> /\ Top \in Items
    /\ stage' = [stage EXCEPT ![Top] = "done"]
    /\ LET l == owner[Top] IN
         IF made[l] = "finished"
           THEN /\ count' = [count EXCEPT ![l] = 0]
                /\ calls' = [calls EXCEPT ![l] = @ + 1]
                /\ told' = [told EXCEPT ![l] = "calling"]
                /\ stack' = Append(Below, l)
           ELSE CountDown(l, Below) /\ told' = Told(l)
    /\ UNCHANGED <<made, parent, owner, kind, result, archiveVars>>

\* A mutated form of ItemReturns, which counts down only for what was loaded.
ItemReturnsIfLoaded ==
    /\ stack # <<>> /\ Top \in Items
    /\ stage' = [stage EXCEPT ![Top] = "done"]
    /\ IF result[Top] = "loaded"
         THEN CountDown(owner[Top], Below) /\ told' = Told(owner[Top])
         ELSE stack' = Below /\ UNCHANGED <<count, calls, told>>
    /\ UNCHANGED <<made, parent, owner, kind, result, archiveVars>>

\* The client's callback for an item returns, and its loader counts down.
ItemReturns ==
    /\ stack # <<>> /\ Top \in Items
    /\ stage' = [stage EXCEPT ![Top] = "done"]
    /\ CountDown(owner[Top], Below)
    /\ told' = Told(owner[Top])
    /\ UNCHANGED <<made, parent, owner, kind, result, archiveVars>>

\* onFinished returns; that of a nested loader makes its parent count down.
LoaderReturns ==
    /\ stack # <<>> /\ Top \in Loaders
    /\ IF parent[Top] = NoLoader
         THEN /\ stack' = Below
              /\ told' = [told EXCEPT ![Top] = "done"]
              /\ UNCHANGED <<count, calls>>
         ELSE /\ CountDown(parent[Top], Below)
              /\ told' = [Told(parent[Top]) EXCEPT ![Top] = "done"]
    /\ UNCHANGED <<made, parent, itemVars, archiveVars>>

\* The client's code throws: all that runs is abandoned.
Throws ==
    /\ stack # <<>>
    /\ stack' = <<>>
    /\ LET abandoned == {stack[n] : n \in DOMAIN stack} IN
         /\ stage' = [i \in Items |-> IF i \in abandoned THEN "lost" ELSE stage[i]]
         /\ told' = [l \in Loaders |-> IF l \in abandoned THEN "lost" ELSE told[l]]
    /\ UNCHANGED <<made, parent, count, calls, owner, kind, result, archiveVars>>

-----------------------------------------------------------------------------
Client ==
    \E l \in Loaders :
        \/ CreateLoader(l)
        \/ \E p \in Loaders : CreateNested(p, l)
        \/ \E i \in Items, k \in Kinds : Load(l, i, k)
        \/ Finish(l)

Arrives(i) ==
    \/ TextArrives(i) \/ ImageArrives(i) \/ SceneFails(i) \/ Deserialized(i)
    \/ \E files \in SUBSET Files : SceneArrives(i, files)
    \/ \E f \in Files, loaded \in BOOLEAN : FileArrives(i, f, loaded)

Next ==
    \/ Client
    \/ \E i \in Items : Arrives(i)
    \/ ItemReturns \/ LoaderReturns \/ Throws

Spec == Init /\ [][Next]_vars

\* The browser answers every request, runs its timers, and callbacks end.  The
\* client need not do anything.
FairSpec ==
    /\ Spec
    /\ \A i \in Items : WF_vars(Arrives(i))
    /\ WF_vars(ItemReturns \/ LoaderReturns)

-----------------------------------------------------------------------------
\* What a loader still has to wait for: itself until the client finishes it,
\* the items whose callback has not returned, and the loaders made from it
\* whose onFinished has not.
Awaited(l) ==
    {x \in {l} : made[l] = "open"}
    \cup {i \in Items : owner[i] = l /\ stage[i] \notin {"none", "done"}}
    \cup {c \in Loaders : parent[c] = l /\ told[c] # "done"}

\* onFinished is called at most once, and when it is, the client has finished
\* the loader and the callbacks of all it has loaded with it, and of all the
\* loaders made from it, have returned, also of what was begun in callbacks
\* after the loader was finished; and it stays so.
FinishedAfterAll ==
    \A l \in Loaders :
        /\ calls[l] =< 1
        /\ calls[l] = 1 => made[l] = "finished" /\ Awaited(l) = {}

\* A scene whose callback is told that it was loaded has all of its files: its
\* archive is done when every request has been resolved, in whatever order,
\* and not before, and a single failure makes the whole archive fail.
WholeScenes ==
    \A i \in Items :
        /\ stage[i] = "files" => waiting[i] # {}
        /\ kind[i] = "scene" /\ result[i] = "loaded" => waiting[i] = {} /\ failed[i] = {}

\* A loader that the client has finished calls onFinished, unless it waits for
\* ever for an item whose callback is never called or throws, or for a loader
\* made from it.
FinishesOrLost ==
    \A l \in Loaders :
        [](made[l] = "finished" =>
             <>(calls[l] = 1
                 \/ [](\/ \E i \in Items : owner[i] = l /\ stage[i] \in {"silent", "lost"}
                       \/ \E c \in Loaders : parent[c] = l /\ told[c] # "done")))

\* "The onreadystatechange callback will be called no matter what, with success
\* or failure": a request for an image or for a scene that is sent reports how
\* it went.
RequestsReport ==
    \A i \in Items : stage[i] = "requested" ~> stage[i] \notin {"requested", "silent"}

=============================================================================
