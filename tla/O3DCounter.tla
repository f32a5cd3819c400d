----------------------------- MODULE O3DCounter -----------------------------
(***************************************************************************)
(* The counters of the o3d graphics library (o3d-webgl/counter.js): values *)
(* that a manager advances at every tick or frame, that stop, wrap around  *)
(* or turn back at the ends of their range, and that call callbacks at the *)
(* counts they pass.  Everything runs on one thread; what makes it hard is *)
(* that a callback is client code, which may change any counter, also the  *)
(* one that is being advanced, while the manager is in the middle of its   *)
(* list.  Counts are integers here, in the place of floating point.        *)
(***************************************************************************)
EXTENDS Integers, FiniteSets, SequencesExt

CONSTANTS
    Counters,       \* the counters a client creates
    TypeOf,         \* counter_type_ of each of them
    Setups,         \* for each, the [mode, start, end, multiplier] it may get
    CallbackCounts, \* for each, the counts the client has callbacks at
    Counts,         \* for each, the values the client sets its count to
    Settable,       \* the counters the client does more to than start and stop
    Amounts,        \* amounts to advance by: seconds between ticks, or by hand
    MaxCount,       \* bound: advances begin at counts from zero to this
    MaxAmount,      \* bound on the amounts whose splitting RateIndependent tries
    MaxNesting      \* bound on advances by hand within callbacks

Types == {"SecondCounter", "TickCounter", "RenderFrameCounter"}
Modes == {"CONTINUOUS", "ONCE", "CYCLE", "OSCILLATE"}

ASSUME CounterAssumption ==
    /\ TypeOf \in [Counters -> Types]
    /\ \A c \in Counters :
          /\ Setups[c] \subseteq [mode : Modes, start : Int, end : Int, multiplier : Int]
          /\ CallbackCounts[c] \subseteq Int
          /\ Counts[c] \subseteq Int
    /\ Amounts \subseteq Nat
    /\ {MaxCount, MaxAmount, MaxNesting} \subseteq Nat
    /\ Settable \subseteq Counters

VARIABLES
    counter,    \* the counters
    registered, \* counterMap_: the running counters of every type, in order
    rounds,     \* the calls of advanceCounters the manager has yet to make
    pass,       \* the advanceCounters under way: its copy of the list, the
                \* next place in it, and the amount
    queue,      \* the callbacks still to be called, of all advances under way
    calling,    \* a callback runs, so that client code does
    throughout, \* history: registered since the beginning of the pass
    advanced    \* history: how often the pass has advanced each counter

vars == <<counter, registered, rounds, pass, queue, calling, throughout, advanced>>

\* In a queue: the callback that advanced a counter by hand goes on.
Resume == [counter |-> "none", at |-> 0, up |-> FALSE]

-----------------------------------------------------------------------------
(* callCallbacks_: the callbacks between two counts, and where the next    *)
(* search begins.  callbacks_ is sorted, so that a search finds the number *)
(* of callbacks below a count; its indices begin at zero.                  *)

NumberBelow(callbacks, n) == Cardinality({i \in DOMAIN callbacks : callbacks[i] < n})

\* A mutated form of CallsUp, which searches again at every call.
WrongCallsUp(callbacks, r, from, to) ==
    LET next == NumberBelow(callbacks, from)
        past == NumberBelow(callbacks, to + 1)
    IN  [called |-> [i \in 1 .. past - next |-> [at |-> callbacks[next + i], up |-> TRUE]],
         next |-> IF past > next THEN past ELSE next]

\* The callbacks of an upward move: a search from the count itself, unless
\* the last move ended there and what comes next is known.
CallsUp(callbacks, r, from, to) ==
    LET next == IF r.next < 0 \/ from # r.lastEnd THEN NumberBelow(callbacks, from) ELSE r.next
        past == NumberBelow(callbacks, to + 1)
    IN  [called |-> [i \in 1 .. past - next |-> [at |-> callbacks[next + i], up |-> TRUE]],
         next |-> IF past > next THEN past ELSE next]

CallsDown(callbacks, r, from, to) ==
    LET prev == IF r.prev < 0 \/ from # r.lastEnd THEN NumberBelow(callbacks, from + 1) - 1 ELSE r.prev
        past == NumberBelow(callbacks, to) - 1
    IN  [called |-> [i \in 1 .. prev - past |-> [at |-> callbacks[prev + 2 - i], up |-> FALSE]],
         prev |-> IF past < prev THEN past ELSE prev]

\* r holds the remembered places and the calls so far; a leg is the move
\* between two counts.
CallCallbacks(callbacks, r, leg) ==
    LET up   == CallsUp(callbacks, r, leg[1], leg[2])
        down == CallsDown(callbacks, r, leg[1], leg[2])
    IN  IF leg[1] < leg[2]
          THEN [next |-> up.next, prev |-> -1, lastEnd |-> leg[2], called |-> r.called \o up.called]
        ELSE IF leg[2] < leg[1]
          THEN [next |-> -1, prev |-> down.prev, lastEnd |-> leg[2], called |-> r.called \o down.called]
        ELSE r

\* A counter's calls along some legs: what is remembered and called after each.
Along(c, legs) ==
    LET after[i \in 0 .. Len(legs)] ==
          IF i = 0 THEN [next |-> c.next, prev |-> c.prev, lastEnd |-> c.lastEnd, called |-> <<>>]
                   ELSE CallCallbacks(c.callbacks, after[i - 1], legs[i])
    IN  after

-----------------------------------------------------------------------------
(* advance: the four branches, for a range with start below or above end   *)
(* and a move towards either, are mirror images of one another.  In them   *)
(* the counter moves up, towards the bound "ahead", away from "behind".    *)
(* The number of turns of each loop is the number of times the range fits  *)
(* into what is left when it is entered.                                   *)

\* An empty range is wrapped once.
CyclePath(from, to, behind, ahead) ==
    LET range == ahead - behind
        wraps == IF to < ahead THEN 0 ELSE (to - ahead) \div range + 1
    IN  IF to >= ahead /\ range = 0 THEN <<<<from, ahead>>, <<from, to>>>>
        ELSE [i \in 1 .. wraps + 1 |-> <<IF i = 1 THEN from ELSE behind,
                                         IF i =< wraps THEN ahead ELSE to - wraps * range>>]

\* Where a leg ends that comes to an end of the range.
Turning(i, behind, ahead) == IF i % 2 = 1 THEN ahead ELSE behind

\* The counter comes to an end of the range, crosses the range a number of
\* times, and goes what is left; in an empty range it turns once.
BouncePath(from, delta, behind, ahead) ==
    LET range    == ahead - behind
        rest     == delta - (ahead - from)
        crossing == rest \div range
        left     == rest % range
        last     == crossing + 2
    IN  IF delta = 0 \/ rest < 0 THEN <<<<from, from + delta>>>>
        ELSE IF range = 0 THEN <<<<from, ahead>>, <<ahead, ahead>>>>
        ELSE [i \in 1 .. last |->
                <<IF i = 1 THEN from ELSE Turning(i - 1, behind, ahead),
                  IF i < last THEN Turning(i, behind, ahead)
                  ELSE IF last % 2 = 0 THEN ahead - left ELSE behind + left>>]

Delta(c, amount) == (IF c.forward THEN amount ELSE -amount) * c.multiplier

\* The legs of a move by d at least zero, in each mode.
Route(mode, from, d, behind, ahead) ==
    IF mode = "ONCE" /\ from + d >= ahead THEN <<<<from, ahead>>>>
    ELSE IF mode = "CYCLE" THEN CyclePath(from, from + d, behind, ahead)
    ELSE IF mode = "OSCILLATE" THEN BouncePath(from, d, behind, ahead)
    ELSE <<<<from, from + d>>>>

\* Where an advance goes, leg by leg; whether it stops the counter; whether it
\* leaves it with the other direction.
Path(c, amount) ==
    LET delta  == Delta(c, amount)
        mirror == IF (c.end >= c.start) = (delta >= 0) THEN 1 ELSE -1
        far    == IF delta >= 0 THEN c.end ELSE c.start
        ahead  == mirror * far
        behind == mirror * (c.start + c.end - far)
        from   == mirror * c.count
        d      == IF delta >= 0 THEN delta ELSE -delta
        still  == delta = 0 /\ c.end < c.start
        legs   == IF still THEN <<<<from, from>>>> ELSE Route(c.mode, from, d, behind, ahead)
    IN  [legs |-> [i \in DOMAIN legs |-> <<mirror * legs[i][1], mirror * legs[i][2]>>],
         ends |-> c.mode = "ONCE" /\ from + d >= ahead /\ ~still,
         turned |-> c.mode = "OSCILLATE" /\ Len(legs) % 2 = 0]

\* A counter whose count is bound to another parameter follows that one.
Advance(c, amount) ==
    LET path  == IF c.bound
                   THEN [legs |-> <<<<c.oldCount, c.count>>>>, ends |-> FALSE, turned |-> FALSE]
                   ELSE Path(c, amount)
        after == Along(c, path.legs)[Len(path.legs)]
        leg   == Last(path.legs)
    IN  [counter |-> [c EXCEPT
                        !.next     = after.next,
                        !.prev     = after.prev,
                        !.lastEnd  = after.lastEnd,
                        !.count    = leg[2],
                        !.oldCount = IF c.bound THEN leg[2] ELSE leg[1],
                        !.forward  = (c.forward # path.turned),
                        !.running  = c.running /\ ~path.ends],
         called  |-> after.called]

-----------------------------------------------------------------------------
(* The client's operations on one counter.                                 *)

NewCounter(setup) ==
    [mode |-> setup.mode, start |-> setup.start, end |-> setup.end,
     multiplier |-> setup.multiplier, forward |-> TRUE, running |-> TRUE,
     count |-> 0, oldCount |-> 0, bound |-> FALSE, attached |-> FALSE,
     callbacks |-> <<>>, next |-> -1, prev |-> -1, lastEnd |-> 0]

Fresh(c) == [c EXCEPT !.next = -1, !.prev = -1]

SetCount(c, value) == Fresh([c EXCEPT !.count = value, !.oldCount = value])

\* A mutated form of AddCallback, which keeps the cached places.
WrongAddCallback(c, at) ==
    IF Contains(c.callbacks, at) THEN c
    ELSE [c EXCEPT !.callbacks = InsertAt(@, NumberBelow(@, at) + 1, at)]

AddCallback(c, at) ==
    IF Contains(c.callbacks, at) THEN Fresh(c)
    ELSE Fresh([c EXCEPT !.callbacks = InsertAt(@, NumberBelow(@, at) + 1, at)])

\* A mutated form of RemoveCallback, which keeps the cached places.
WrongRemoveCallback(c, at) ==
    IF Contains(c.callbacks, at) THEN [c EXCEPT !.callbacks = RemoveFirst(@, at)] ELSE c

RemoveCallback(c, at) ==
    IF Contains(c.callbacks, at) THEN Fresh([c EXCEPT !.callbacks = RemoveFirst(@, at)]) ELSE c

RemoveAllCallbacks(c) == Fresh([c EXCEPT !.callbacks = <<>>])

-----------------------------------------------------------------------------
NoPass == [copy |-> <<>>, next |-> 1, amount |-> 0]
PassOver == pass.next > Len(pass.copy) /\ queue = <<>> /\ ~calling

\* The bound on counts, which a CONTINUOUS counter would exceed.
Near(c) == counter[c].count \in 0 .. MaxCount

Idle == rounds = <<>> /\ pass = NoPass /\ queue = <<>> /\ ~calling

\* Client code runs: in a callback, or by itself between ticks and frames.
ClientRuns == calling \/ Idle

\* The running setter: it registers or unregisters a counter that changes.
Registering(c, running) ==
    IF counter[c].running = running THEN registered
    ELSE [registered EXCEPT ![TypeOf[c]] = IF running THEN Append(@, c) ELSE RemoveFirst(@, c)]

\* Counter c becomes new.
Becomes(c, new) ==
    /\ counter' = [counter EXCEPT ![c] = new]
    /\ registered' = Registering(c, new.running)
    /\ throughout' = IF new.running THEN throughout ELSE throughout \ {c}

Init ==
    /\ counter \in [Counters -> UNION {{NewCounter(s) : s \in Setups[c]} : c \in Counters}]
    /\ \A c \in Counters : \E s \in Setups[c] : counter[c] = NewCounter(s)
    /\ registered = [t \in Types |-> <<>>]
    /\ rounds = <<>>
    /\ pass = NoPass
    /\ queue = <<>>
    /\ calling = FALSE
    /\ throughout = {}
    /\ advanced = [c \in Counters |-> 0]

\* The gl setter, called when a pack creates the counter: it stops the
\* counter, gives it the manager of its client, and starts it again.
Attach(c) ==
    /\ ClientRuns
    /\ ~counter[c].attached
    /\ counter' = [counter EXCEPT ![c].attached = TRUE]
    /\ registered' = [registered EXCEPT ![TypeOf[c]] = Append(@, c)]
    /\ UNCHANGED <<rounds, pass, queue, calling, throughout, advanced>>

\* CounterManager.tick, called by the client's interval timer.
Tick ==
    /\ Idle
    /\ \A c \in Counters : Near(c)
    /\ \E seconds \in Amounts :
          rounds' = <<[type |-> "TickCounter", amount |-> 1],
                      [type |-> "SecondCounter", amount |-> seconds]>>
    /\ UNCHANGED <<counter, registered, pass, queue, calling, throughout, advanced>>

\* CounterManager.advanceRenderFrameCounters, called by Client.render.
RenderFrame ==
    /\ Idle
    /\ \A c \in Counters : Near(c)
    /\ rounds' = <<[type |-> "RenderFrameCounter", amount |-> 1]>>
    /\ UNCHANGED <<counter, registered, pass, queue, calling, throughout, advanced>>

\* advanceCounters copies the list of one type.
BeginPass ==
    /\ rounds # <<>> /\ pass = NoPass /\ queue = <<>> /\ ~calling
    /\ pass' = [copy |-> registered[Head(rounds).type], next |-> 1, amount |-> Head(rounds).amount]
    /\ rounds' = Tail(rounds)
    /\ throughout' = ToSet(pass'.copy)
    /\ advanced' = [c \in Counters |-> 0]
    /\ UNCHANGED <<counter, registered, queue, calling>>

\* A mutated form of List: the pass goes through the list itself.
WrongList == registered[TypeOf[pass.copy[1]]]

\* The list the pass goes through.
List == pass.copy

Calls(c, called) == [i \in DOMAIN called |-> [counter |-> c, at |-> called[i].at, up |-> called[i].up]]

\* The next counter's turn in advanceCounters: it is skipped unless it runs.
Turn ==
    /\ pass.next =< Len(pass.copy) /\ queue = <<>> /\ ~calling
    /\ pass' = [pass EXCEPT !.next = @ + 1]
    /\ IF pass.next \in DOMAIN List /\ counter[List[pass.next]].running
         THEN LET c      == List[pass.next]
                  result == Advance(counter[c], pass.amount)
              IN  /\ Becomes(c, result.counter)
                  /\ queue' = Calls(c, result.called)
                  /\ advanced' = [advanced EXCEPT ![c] = @ + 1]
         ELSE UNCHANGED <<counter, registered, queue, throughout, advanced>>
    /\ UNCHANGED <<rounds, calling>>

\* advanceCounters returns.
EndPass ==
    /\ PassOver
    /\ pass # NoPass
    /\ pass' = NoPass
    /\ throughout' = {}
    /\ advanced' = [c \in Counters |-> 0]
    /\ UNCHANGED <<counter, registered, rounds, queue, calling>>

\* The loop at the end of advance calls the next callback of its queue.
CallNext ==
    /\ queue # <<>> /\ ~calling
    /\ calling' = TRUE
    /\ queue' = Tail(queue)
    /\ UNCHANGED <<counter, registered, rounds, pass, throughout, advanced>>

\* A callback returns.
Return ==
    /\ calling
    /\ calling' = FALSE
    /\ UNCHANGED <<counter, registered, rounds, pass, queue, throughout, advanced>>

\* A callback throws, and nothing of the library catches it: the rest of the
\* queue is lost, and so are the rest of the pass and of the tick.
Throws ==
    /\ calling
    /\ calling' = FALSE
    /\ queue' = <<>>
    /\ rounds' = <<>>
    /\ pass' = NoPass
    /\ throughout' = {}
    /\ advanced' = [c \in Counters |-> 0]
    /\ UNCHANGED <<counter, registered>>

\* The client advances a counter itself.  Within a callback, the callbacks of
\* this advance are called first, and then the callback goes on.
AdvanceByHand(c, amount) ==
    LET result == Advance(counter[c], amount)
    IN  /\ ClientRuns
        /\ counter[c].attached
        /\ calling => Cardinality({i \in DOMAIN queue : queue[i] = Resume}) < MaxNesting
        /\ Near(c)
        /\ Becomes(c, result.counter)
        /\ queue' = Calls(c, result.called) \o (IF calling THEN <<Resume>> ELSE <<>>) \o queue
        /\ calling' = FALSE
        /\ UNCHANGED <<rounds, pass, advanced>>

\* The client changes a counter.  Setting the count of a bound counter, also
\* by a reset, throws and changes nothing.
Change(c, new) ==
    /\ ClientRuns
    /\ counter[c].attached
    /\ new # counter[c]
    /\ Becomes(c, new)
    /\ UNCHANGED <<rounds, pass, queue, calling, advanced>>

SetRunning(c) == Change(c, [counter[c] EXCEPT !.running = ~@])

SetForward(c) == Change(c, [counter[c] EXCEPT !.forward = ~@])

\* mode, start, end and multiplier are plain parameters.
Configure(c) ==
    \E s \in Setups[c] :
        Change(c, [counter[c] EXCEPT !.mode = s.mode, !.start = s.start, !.end = s.end,
                                     !.multiplier = s.multiplier])

SetsCount(c) ==
    /\ ~counter[c].bound
    /\ \E value \in Counts[c] : Change(c, SetCount(counter[c], value))

Reset(c) ==
    /\ ~counter[c].bound
    /\ Change(c, SetCount(counter[c], IF counter[c].forward THEN counter[c].start ELSE counter[c].end))

ChangesCallbacks(c) ==
    \/ \E at \in CallbackCounts[c] : Change(c, AddCallback(counter[c], at))
    \/ \E at \in CallbackCounts[c] : Change(c, RemoveCallback(counter[c], at))
    \/ Change(c, RemoveAllCallbacks(counter[c]))

\* Binds the count to another parameter, which has some value; nothing can
\* unbind it (unbindInput is not implemented).
Bind(c) ==
    /\ ~counter[c].bound
    /\ \E value \in Counts[c] : Change(c, [counter[c] EXCEPT !.bound = TRUE, !.count = value])

\* The other parameter may be another counter's count and change at any time.
SourceMoves(c) ==
    /\ counter[c].bound
    /\ \E value \in Counts[c] :
          /\ value # counter[c].count
          /\ counter' = [counter EXCEPT ![c].count = value]
    /\ UNCHANGED <<registered, rounds, pass, queue, calling, throughout, advanced>>

Next ==
    \/ Tick \/ RenderFrame \/ BeginPass \/ Turn \/ EndPass \/ CallNext \/ Return \/ Throws
    \/ \E c \in Counters : Attach(c) \/ SetRunning(c)
    \/ \E c \in Settable :
          \/ SetForward(c) \/ Configure(c) \/ SetsCount(c) \/ Reset(c)
          \/ ChangesCallbacks(c) \/ Bind(c) \/ SourceMoves(c)
          \/ \E amount \in Amounts : AdvanceByHand(c, amount)

Spec == Init /\ [][Next]_vars

-----------------------------------------------------------------------------
CounterType ==
    [mode : Modes, start : Int, end : Int, multiplier : Int,
     forward : BOOLEAN, running : BOOLEAN, count : Int, oldCount : Int,
     bound : BOOLEAN, attached : BOOLEAN,
     callbacks : Seq(Int), next : Int, prev : Int, lastEnd : Int]

\* The types of the variables; a cached place is one of the list of callbacks.
TypeOK ==
    /\ counter \in [Counters -> CounterType]
    /\ \A c \in Counters :
          LET k == counter[c] IN
          /\ k.callbacks \in Seq(CallbackCounts[c])
          /\ k.next \in -1 .. Len(k.callbacks) /\ k.prev \in -1 .. Len(k.callbacks) - 1
    /\ registered \in [Types -> Seq(Counters)]
    /\ rounds \in Seq([type : Types, amount : Nat])
    /\ pass \in [copy : Seq(Counters), next : Nat \ {0}, amount : Nat]
    /\ queue \in Seq([counter : Counters, at : Int, up : BOOLEAN] \cup {Resume})
    /\ calling \in BOOLEAN
    /\ throughout \subseteq Counters /\ advanced \in [Counters -> Nat]

\* A place the counter remembers is that of the first callback past the count at
\* which its last calls ended, in the direction they went, so that none in
\* between is called twice or left out: whatever turns, wraps, resets, changes
\* of the list or of the parameters came before.
RememberedPlaces ==
    \A c \in Counters :
        LET k == counter[c] IN
        /\ k.next >= 0 => k.next = NumberBelow(k.callbacks, k.lastEnd + 1)
        /\ k.prev >= 0 => k.prev = NumberBelow(k.callbacks, k.lastEnd) - 1
        /\ k.next < 0 \/ k.prev < 0

\* The calls of an advance and of the next, in which the first callback of the
\* list counts once where the advance ends at it and the next goes on down from
\* there (NoDoubleFiring below).
InARow(first, second) ==
    LET lowest == [at |-> first.counter.count, up |-> FALSE]
    IN  IF /\ first.counter.prev = -1 /\ first.counter.lastEnd = first.counter.count
           /\ first.called # <<>> /\ second.called # <<>>
           /\ Last(first.called) = lowest /\ Head(second.called) = lowest
          THEN first.called \o Tail(second.called)
          ELSE first.called \o second.called

\* What a counter shows and calls does not depend on the rate it is advanced
\* at: one advance by a + b comes to the same count, direction and running
\* state, and calls the same callbacks in the same order, as one by a and one
\* by b.  Two exceptions: in an empty range a counter turns or wraps once for
\* every advance, and an advance by zero counts as one towards the end.
RateIndependent ==
    Idle => \A c \in Counters, a \in 1 .. MaxAmount, b \in 1 .. MaxAmount :
        LET whole  == Advance(counter[c], a + b)
            first  == Advance(counter[c], a)
            second == Advance(first.counter, b)
            Shown(k) == <<k.count, k.forward, k.running>>
        IN  ~counter[c].bound /\ counter[c].start # counter[c].end =>
              /\ Shown(second.counter) = Shown(whole.counter)
              /\ InARow(first, second) = whole.called

\* A tick advances a counter at most once, and every counter that runs from
\* the beginning to the end of the manager's pass exactly once, whatever the
\* callbacks called in between start, stop, create or advance by hand.
AdvancedOnce ==
    \A c \in Counters :
        /\ advanced[c] =< 1
        /\ PassOver /\ c \in throughout => advanced[c] = 1

\* The counter keeps the count at which its last calls ended "to prevent
\* double-firing of callbacks if start_count is the same": a counter that
\* neither turns nor wraps calls no callback twice in two advances in a row.
NoDoubleFiring ==
    Idle => \A c \in Counters, a \in 1 .. MaxAmount, b \in 1 .. MaxAmount :
        LET first  == Advance(counter[c], a)
            second == Advance(first.counter, b)
        IN  ~counter[c].bound /\ counter[c].mode = "CONTINUOUS" =>
              IsInjective(first.called \o second.called)

-----------------------------------------------------------------------------
(* The inductive invariant.                                                *)

\* The counts of the callbacks of a counter, in order and without repetition.
Sorted(callbacks) == \A i, j \in DOMAIN callbacks : i < j => callbacks[i] < callbacks[j]

SortedCallbacks == \A c \in Counters : Sorted(counter[c].callbacks)

\* The manager's lists have every attached counter that runs, once.
RegisteredRun ==
    /\ \A t \in Types : IsInjective(registered[t])
    /\ \A t \in Types, c \in Counters :
          Contains(registered[t], c) <=> TypeOf[c] = t /\ counter[c].attached /\ counter[c].running
    /\ \A c \in Counters : counter[c].attached \/ counter[c].running

\* The counters that have had their turn in the pass.
Passed == {List[i] : i \in 1 .. pass.next - 1}

\* A counter that has run all the time is advanced when its turn comes.
PassInv ==
    /\ IsInjective(pass.copy) /\ pass.next =< Len(pass.copy) + 1
    /\ \A c \in ToSet(pass.copy) : counter[c].attached
    /\ throughout \subseteq ToSet(pass.copy)
    /\ \A c \in throughout : counter[c].running
    /\ \A c \in Counters : advanced[c] =< 1 /\ (advanced[c] = 1 => c \in Passed)
    /\ \A c \in throughout \cap Passed : advanced[c] = 1

Inv == TypeOK /\ RememberedPlaces /\ SortedCallbacks /\ RegisteredRun /\ PassInv

=============================================================================
