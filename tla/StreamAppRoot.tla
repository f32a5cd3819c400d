---------------------------- MODULE StreamAppRoot ----------------------------
(***************************************************************************)
(* The root of the stream app.  A thread per client runs its request, and  *)
(* a request may put another root in the place of the plugged one, which   *)
(* all threads share: PutRootReplaceFirstRequest plugs the new root before *)
(* it stops the old, PutRootStopFirstRequest the other way round.  Both    *)
(* end by writing the config of the root to a file, from which the next    *)
(* start plugs it again.  A shutdown hook waits for the client threads and *)
(* stops the root.                                                         *)
(*                                                                         *)
(* A definition named Wrong... is the definition after it with a mistake   *)
(* in it, and no behaviour uses it: each shows a property can fail.        *)
(***************************************************************************)
EXTENDS Naturals, FiniteSets

CONSTANTS
  Clients,       \* each connects once and puts a root
  Asks,          \* how, and which one
  Configs,       \* ClassLoaderConfigs of roots
  NoConfig,      \* DummyPlugged's config; also no config file, or no promise
  Torn,          \* a config file that cannot be read
  None,          \* no client
  MaxConnected,  \* how many clients are connected at a time
  Faults,        \* the faults the environment may inject, see FaultKinds
  MaxRestarts    \* how many times a behaviour may start the app again

Kinds == {"replaceFirst", "stopFirst"}
FaultKinds == {"putFails", "persistFails", "startFails", "crash"}

ASSUME AsksAssumption == Asks \in [Clients -> [kind : Kinds, config : Configs]]
ASSUME NamesAssumption ==
  NoConfig \notin Configs /\ Torn \notin Configs \cup {NoConfig} /\ None \notin Clients
ASSUME FaultsAssumption == Faults \subseteq FaultKinds
ASSUME BoundsAssumption == MaxConnected \in Nat \ {0} /\ MaxRestarts \in Nat

VARIABLES
  holder,         \* RootContext.holder
  file,           \* what classloader.config holds
  pc,             \* where each client's thread is
  newPlugged,     \* local variable of each thread
  oldPlugged,     \* local variable of each thread
  clc,            \* local variable of persist in each thread
  clean,          \* threads that are alone in writing the file
  live,           \* roots plugged and not stopped
  created,        \* how many roots were plugged
  clientThreads,  \* the threads the shutdown hook will wait for
  accepted,       \* a thread started and not yet among clientThreads, or None
  hook,           \* where the shutdown hook is
  waiting,        \* the threads it has still to wait for
  alone,          \* whether no thread was left when it stopped the root
  promised,       \* the config of the last client told that its root is in
                  \* place, until another root takes it
  restarts

rootVars   == <<holder, live, created, promised>>
fileVars   == <<file, clc, clean>>
localVars  == <<newPlugged, oldPlugged>>
acceptVars == <<clientThreads, accepted>>
hookVars   == <<hook, waiting, alone>>
vars == <<rootVars, fileVars, pc, localVars, acceptVars, hookVars, restarts>>

\* DummyPlugged is one object, and stopping it does nothing.
Dummy == [config |-> NoConfig, nr |-> 0]
Plugged == [config : Configs, nr : Nat \ {0}]

Stages == {"none", "connected", "gotOld", "stoppedOld", "plugged", "swapped", "persist",
           "open", "writing", "answered", "closed"}

TypeOK ==
  /\ holder \in Plugged \cup {Dummy}
  /\ file \in Configs \cup {NoConfig, Torn}
  /\ pc \in [Clients -> Stages]
  /\ newPlugged \in [Clients -> Plugged \cup {Dummy}]
  /\ oldPlugged \in [Clients -> Plugged \cup {Dummy}]
  /\ clc \in [Clients -> Configs \cup {NoConfig}]
  /\ clean \subseteq Clients
  /\ live \subseteq Plugged
  /\ created \in Nat
  /\ clientThreads \subseteq Clients
  /\ accepted \in Clients \cup {None}
  /\ hook \in {"none", "joining", "done"}
  /\ waiting \subseteq Clients
  /\ alone \in BOOLEAN
  /\ promised \in Configs \cup {NoConfig}
  /\ restarts \in 0 .. MaxRestarts

\* main before the server socket: the root of the config file is plugged, or
\* the dummy when there is none or it cannot be.
Started(config, n) ==
  {r \in {[config |-> config, nr |-> n]} : config \in Configs}
    \cup {r \in {Dummy} : config \notin Configs \/ "startFails" \in Faults}

\* The app starts from any file an earlier process left.
Init ==
  /\ file \in Configs \cup {NoConfig, Torn}
  /\ holder \in Started(file, 1)
  /\ live = {holder} \ {Dummy}
  /\ created = 1
  /\ promised = NoConfig
  /\ clean = {}
  /\ clc = [c \in Clients |-> NoConfig]
  /\ pc = [c \in Clients |-> "none"]
  /\ newPlugged = [c \in Clients |-> Dummy]
  /\ oldPlugged = [c \in Clients |-> Dummy]
  /\ clientThreads = {} /\ accepted = None
  /\ hook = "none" /\ waiting = {} /\ alone = FALSE
  /\ restarts = 0

-----------------------------------------------------------------------------
(* Connections                                                              *)

stopped == hook # "none"

Running == {c \in Clients : pc[c] \notin {"none", "closed"}}

\* The main thread starts a thread for a client...
Accept(c) ==
  /\ ~stopped /\ accepted = None
  /\ pc[c] = "none" /\ Cardinality(Running) < MaxConnected
  /\ pc' = [pc EXCEPT ![c] = "connected"]
  /\ accepted' = c
  /\ UNCHANGED <<rootVars, fileVars, localVars, clientThreads, hookVars, restarts>>

\* Does not look whether a thread was started.
WrongRegister ==
  /\ hook # "done"
  /\ clientThreads' = clientThreads \cup {accepted}
  /\ accepted' = None
  /\ UNCHANGED <<rootVars, fileVars, pc, localVars, hookVars, restarts>>

\* ...and then puts it among clientThreads, from which it may be gone already.
Register ==
  /\ accepted # None /\ hook # "done"
  /\ clientThreads' = clientThreads \cup {accepted}
  /\ accepted' = None
  /\ UNCHANGED <<rootVars, fileVars, pc, localVars, hookVars, restarts>>

\* The thread of c goes from one stage of its request to the next.
Goes(c, from, to) ==
  /\ hook # "done"
  /\ pc[c] = from
  /\ pc' = [pc EXCEPT ![c] = to]
  /\ UNCHANGED <<acceptVars, hookVars, restarts>>

\* The connection is closed, and onStop is called.
Close(c) ==
  /\ hook # "done"
  /\ pc[c] = "answered"
  /\ pc' = [pc EXCEPT ![c] = "closed"]
  /\ clientThreads' = IF stopped THEN clientThreads ELSE clientThreads \ {c}
  /\ newPlugged' = [newPlugged EXCEPT ![c] = Dummy]
  /\ oldPlugged' = [oldPlugged EXCEPT ![c] = Dummy]
  /\ clc' = [clc EXCEPT ![c] = NoConfig]
  /\ UNCHANGED <<rootVars, file, clean, accepted, hookVars, restarts>>

-----------------------------------------------------------------------------
(* Putting a root                                                           *)

GetOld(c) ==
  /\ Asks[c].kind = "stopFirst"
  /\ Goes(c, "connected", "gotOld")
  /\ oldPlugged' = [oldPlugged EXCEPT ![c] = holder]
  /\ UNCHANGED <<rootVars, fileVars, newPlugged>>

\* Stops nothing.
WrongStopOld(c) ==
  /\ \/ Goes(c, "gotOld", "stoppedOld")
     \/ Goes(c, "swapped", "persist")
  /\ UNCHANGED <<rootVars, fileVars, localVars>>

\* oldPlugged.plugged.stop(), before the new root is plugged or after it has
\* taken the place of the old.
StopOld(c) ==
  /\ \/ Goes(c, "gotOld", "stoppedOld")
     \/ Goes(c, "swapped", "persist")
  /\ live' = live \ {oldPlugged[c]}
  /\ UNCHANGED <<holder, created, promised, fileVars, localVars>>

\* The config is read from the client, its class is loaded and plug is called.
Plug(c) ==
  LET new == [config |-> Asks[c].config, nr |-> created + 1]
  IN  /\ IF Asks[c].kind = "replaceFirst" THEN Goes(c, "connected", "plugged")
                                          ELSE Goes(c, "stoppedOld", "plugged")
      /\ newPlugged' = [newPlugged EXCEPT ![c] = new]
      /\ live' = live \cup {new}
      /\ created' = created + 1
      /\ UNCHANGED <<holder, promised, fileVars, oldPlugged>>

\* The old root, whatever it was, stays with nobody.
WrongReplace(c) ==
  /\ Asks[c].kind = "replaceFirst"
  /\ Goes(c, "plugged", "swapped")
  /\ holder' = newPlugged[c]
  /\ promised' = NoConfig
  /\ UNCHANGED <<live, created, fileVars, localVars>>

\* holder.getAndSet
Replace(c) ==
  /\ Asks[c].kind = "replaceFirst"
  /\ Goes(c, "plugged", "swapped")
  /\ holder' = newPlugged[c]
  /\ oldPlugged' = [oldPlugged EXCEPT ![c] = holder]
  /\ promised' = NoConfig
  /\ UNCHANGED <<live, created, fileVars, newPlugged>>

\* holder.set
Set(c) ==
  /\ Asks[c].kind = "stopFirst"
  /\ Goes(c, "plugged", "persist")
  /\ holder' = newPlugged[c]
  /\ promised' = NoConfig
  /\ UNCHANGED <<live, created, fileVars, localVars>>

\* Persists the root that was there before.
WrongReadHolder(c) ==
  /\ Goes(c, "persist", "open")
  /\ clc' = [clc EXCEPT ![c] = oldPlugged[c].config]
  /\ UNCHANGED <<rootVars, file, clean, localVars>>

\* persist: holder.get.classLoaderConfig...
ReadHolder(c) ==
  /\ Goes(c, "persist", "open")
  /\ clc' = [clc EXCEPT ![c] = holder.config]
  /\ UNCHANGED <<rootVars, file, clean, localVars>>

Writing == {c \in Clients : pc[c] = "writing"}

\* ...the file is truncated...
Open(c) ==
  /\ Goes(c, "open", "writing")
  /\ file' = Torn
  /\ clean' = IF Writing = {} THEN {c} ELSE {}
  /\ UNCHANGED <<rootVars, clc, localVars>>

\* ...and written, the client is told Done.  Two threads that write at the
\* same time may leave a mixture.
Write(c) ==
  /\ Goes(c, "writing", "answered")
  /\ file' \in {clc[c]} \cup (IF c \in clean THEN {} ELSE {Torn})
  /\ clean' = clean \ {c}
  /\ promised' = Asks[c].config
  /\ UNCHANGED <<holder, live, created, clc, localVars>>

\* What is thrown is sent to the client, and the thread goes on: the config
\* cannot be read, the class not loaded or not plugged, the file not opened or
\* not written.
Fail(c) ==
  /\ \/ "putFails" \in Faults /\ \E s \in {"connected", "stoppedOld"} : Goes(c, s, "answered")
     \/ "persistFails" \in Faults /\ \E s \in {"open", "writing"} : Goes(c, s, "answered")
  /\ clean' = clean \ {c}
  /\ UNCHANGED <<rootVars, file, clc, localVars>>

-----------------------------------------------------------------------------
(* Shutdown and start                                                       *)

\* stopped is set, the server socket is closed and clientThreads is read.
Shutdown ==
  /\ hook = "none"
  /\ hook' = "joining"
  /\ waiting' = clientThreads
  /\ UNCHANGED <<rootVars, fileVars, pc, localVars, acceptVars, alone, restarts>>

\* th.join(5000) returns, whether or not the thread has ended.
Join(c) ==
  /\ hook = "joining" /\ c \in waiting
  /\ waiting' = waiting \ {c}
  /\ UNCHANGED <<rootVars, fileVars, pc, localVars, acceptVars, hook, alone, restarts>>

\* Stops the first root there was.
WrongStopRoot ==
  /\ hook = "joining" /\ waiting = {}
  /\ hook' = "done"
  /\ live' = live \ {r \in live : r.nr = 1}
  /\ alone' = (Running = {})
  /\ UNCHANGED <<holder, created, promised, fileVars, pc, localVars, acceptVars, waiting, restarts>>

\* holder.get.plugged.stop()
StopRoot ==
  /\ hook = "joining" /\ waiting = {}
  /\ hook' = "done"
  /\ live' = live \ {holder}
  /\ alone' = (Running = {})
  /\ UNCHANGED <<holder, created, promised, fileVars, pc, localVars, acceptVars, waiting, restarts>>

\* The process has ended, or dies, and is started again.
Restart ==
  /\ hook = "done" \/ "crash" \in Faults
  /\ restarts < MaxRestarts
  /\ restarts' = restarts + 1
  /\ created' = created + 1
  /\ holder' \in Started(file, created')
  /\ live' = {holder'} \ {Dummy}
  /\ pc' = [c \in Clients |-> IF pc[c] = "none" THEN "none" ELSE "closed"]
  /\ newPlugged' = [c \in Clients |-> Dummy]
  /\ oldPlugged' = [c \in Clients |-> Dummy]
  /\ clc' = [c \in Clients |-> NoConfig]
  /\ clean' = {}
  /\ clientThreads' = {} /\ accepted' = None
  /\ hook' = "none" /\ waiting' = {} /\ alone' = FALSE
  /\ UNCHANGED <<file, promised>>

-----------------------------------------------------------------------------
HookStep == StopRoot \/ \E c \in Clients : Join(c)

ThreadStep(c) ==
  GetOld(c) \/ StopOld(c) \/ Plug(c) \/ Replace(c) \/ Set(c) \/ ReadHolder(c) \/ Open(c)
    \/ Write(c) \/ Fail(c) \/ Close(c)

Next ==
  \/ \E c \in Clients : Accept(c) \/ ThreadStep(c)
  \/ Register \/ Shutdown \/ HookStep \/ Restart

Spec == Init /\ [][Next]_vars

-----------------------------------------------------------------------------
(* Properties                                                               *)

\* The root a thread alone knows of, because it has just plugged it or just
\* taken it out of the holder.
InHand(c) ==
  {r \in {newPlugged[c], oldPlugged[c]} \ {Dummy} :
     \/ pc[c] = "plugged" /\ r = newPlugged[c]
     \/ pc[c] = "swapped" /\ r = oldPlugged[c]}

\* When every client plugs first, no root that was plugged is forgotten, and
\* none is stopped that is in use or stopped already: a root that runs is the
\* one in the holder or is in the hands of exactly one thread.
EveryRootAccounted ==
  hook # "done" =>
    /\ live = ({holder} \ {Dummy}) \cup UNION {InHand(c) : c \in Clients}
    /\ \A c \in Clients : holder \notin InHand(c)
    /\ \A c, d \in Clients : c # d => InHand(c) \cap InHand(d) = {}

\* A shutdown that has waited for every thread leaves no root running.
CleanShutdown == hook = "done" /\ alone => live = {}

\* When clients come one at a time the old root and the new are plugged together
\* only while a client that asked for that is between the two, whatever fails.
NeverTwoLive ==
  \/ Cardinality(live) =< 1
  \/ \E c \in Clients : Asks[c].kind = "replaceFirst" /\ pc[c] \in {"plugged", "swapped"}

\* What a client was promised is both in place and on disk until the next root
\* takes its place, through requests that fail, shutdowns and crashes, provided
\* that clients put their roots one after the other.
PromiseKept ==
  promised # NoConfig => holder.config = promised /\ file = promised
=============================================================================
