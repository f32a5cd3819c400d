-------------------------- MODULE StreamAppRootProofs --------------------------
(***************************************************************************)
(* Proofs about StreamAppRoot.  When every client plugs its root before it *)
(* stops the old one, no root is forgotten or stopped twice, however the   *)
(* threads interleave, and a shutdown that has waited for all of them      *)
(* leaves nothing running.                                                 *)
(*                                                                         *)
(* The argument: getAndSet hands every root that leaves the holder to one  *)
(* thread, and roots are told apart by their number, which no root plugged *)
(* before can have.                                                        *)
(***************************************************************************)
EXTENDS StreamAppRoot, FiniteSetTheorems, TLAPS

USE AsksAssumption, NamesAssumption, BoundsAssumption

\* What every step does to pc, and to which thread.
LEMMA GoesOn ==
  ASSUME TypeOK, NEW c \in Clients, NEW from \in Stages, NEW to \in Stages, Goes(c, from, to)
  PROVE  /\ pc' \in [Clients -> Stages]
         /\ pc[c] = from /\ pc'[c] = to
         /\ \A d \in Clients \ {c} : pc'[d] = pc[d]
         /\ hook # "done" /\ UNCHANGED <<hook, waiting, alone, clientThreads, accepted, restarts>>
  BY DEF TypeOK, Goes, acceptVars, hookVars

-----------------------------------------------------------------------------
(* Types                                                                    *)

LEMMA StartedType ==
  ASSUME NEW config \in Configs \cup {NoConfig, Torn}, NEW n \in Nat \ {0},
         NEW r \in Started(config, n)
  PROVE  r \in Plugged \cup {Dummy} /\ r.nr =< n
  BY DEF Started, Plugged, Dummy

LEMMA TypeInit == Init => TypeOK
  <1> SUFFICES ASSUME Init PROVE TypeOK
    OBVIOUS
  <1>1. holder \in Plugged \cup {Dummy}
    BY StartedType DEF Init
  <1>2. live \subseteq Plugged
    BY <1>1 DEF Init
  <1>3. restarts \in 0 .. MaxRestarts
    BY DEF Init
  <1>4. /\ newPlugged \in [Clients -> Plugged \cup {Dummy}]
        /\ oldPlugged \in [Clients -> Plugged \cup {Dummy}]
    BY DEF Init
  <1>5. pc \in [Clients -> Stages]
    BY DEF Init, Stages
  <1>6. QED
    BY <1>1, <1>2, <1>3, <1>4, <1>5 DEF Init, TypeOK

LEMMA TypeThread ==
  ASSUME TypeOK, NEW c \in Clients, ThreadStep(c) PROVE TypeOK'
  <1> USE DEF TypeOK, Goes, Stages, rootVars, fileVars, localVars, acceptVars, hookVars
  <1>1. CASE GetOld(c)
    BY <1>1 DEF GetOld
  <1>2. CASE StopOld(c)
    BY <1>2 DEF StopOld
  <1>3. CASE Plug(c)
    <2> DEFINE new == [config |-> Asks[c].config, nr |-> created + 1]
    <2>1. new \in Plugged /\ created + 1 \in Nat
      BY DEF Plugged
    <2>2. newPlugged' = [newPlugged EXCEPT ![c] = new] /\ live' = live \cup {new}
      BY <1>3 DEF Plug
    <2> HIDE DEF new
    <2>3. newPlugged' \in [Clients -> Plugged \cup {Dummy}] /\ live' \subseteq Plugged
      BY <2>1, <2>2
    <2>4. pc' \in [Clients -> Stages]
      BY <1>3 DEF Plug
    <2>5. created' \in Nat
      BY <2>1, <1>3 DEF Plug
    <2>6. QED
      BY <2>3, <2>4, <2>5, <1>3 DEF Plug
  <1>4. CASE Replace(c)
    BY <1>4 DEF Replace
  <1>5. CASE Set(c)
    BY <1>5 DEF Set
  <1>6. CASE ReadHolder(c)
    <2>1. holder.config \in Configs \cup {NoConfig}
      BY DEF Plugged, Dummy
    <2>2. QED
      BY <1>6, <2>1 DEF ReadHolder
  <1>7. CASE Open(c)
    BY <1>7 DEF Open
  <1>8. CASE Write(c)
    BY <1>8 DEF Write
  <1>9. CASE Fail(c)
    BY <1>9 DEF Fail
  <1>10. CASE Close(c)
    BY <1>10 DEF Close
  <1>11. QED
    BY <1>1, <1>2, <1>3, <1>4, <1>5, <1>6, <1>7, <1>8, <1>9, <1>10 DEF ThreadStep

LEMMA TypeRestart == ASSUME TypeOK, Restart PROVE TypeOK'
  <1>1. created' \in Nat \ {0} /\ file \in Configs \cup {NoConfig, Torn}
    BY DEF TypeOK, Restart
  <1>2. holder' \in Plugged \cup {Dummy}
    BY <1>1, StartedType DEF Restart
  <1>3. live' \subseteq Plugged
    BY <1>2 DEF Restart
  <1>4. pc' \in [Clients -> Stages]
    BY DEF Restart, Stages
  <1>5. restarts' \in 0 .. MaxRestarts
    BY DEF TypeOK, Restart
  <1>6. QED
    BY <1>1, <1>2, <1>3, <1>4, <1>5 DEF TypeOK, Restart

LEMMA TypeStep == TypeOK /\ [Next]_vars => TypeOK'
  <1> SUFFICES ASSUME TypeOK, [Next]_vars PROVE TypeOK'
    OBVIOUS
  <1> USE DEF rootVars, fileVars, localVars, acceptVars, hookVars
  <1>1. CASE \E c \in Clients : Accept(c)
    BY <1>1 DEF Accept, TypeOK, Stages
  <1>2. CASE \E c \in Clients : ThreadStep(c)
    BY <1>2, TypeThread
  <1>3. CASE Register
    BY <1>3 DEF Register, TypeOK
  <1>4. CASE Shutdown
    BY <1>4 DEF Shutdown, TypeOK
  <1>5. CASE \E c \in Clients : Join(c)
    BY <1>5 DEF Join, TypeOK
  <1>6. CASE StopRoot
    <2>1. (Running = {}) \in BOOLEAN
      OBVIOUS
    <2>2. alone' \in BOOLEAN
      BY <1>6, <2>1, Zenon DEF StopRoot
    <2>3. QED
      BY <1>6, <2>2 DEF StopRoot, TypeOK
  <1>7. CASE Restart
    BY <1>7, TypeRestart
  <1>8. CASE UNCHANGED vars
    BY <1>8 DEF vars, TypeOK
  <1>9. QED
    BY <1>1, <1>2, <1>3, <1>4, <1>5, <1>6, <1>7, <1>8 DEF Next, HookStep

\* The threads, the hook and the restarts keep to their types: in particular
\* no thread registers that was not started, and only real roots are live.
THEOREM TypeCorrect == Spec => []TypeOK
  <1>1. Init => TypeOK
    BY TypeInit
  <1>2. TypeOK /\ [Next]_vars => TypeOK'
    BY TypeStep
  <1>3. QED
    BY <1>1, <1>2, PTL DEF Spec

-----------------------------------------------------------------------------
(* No root is forgotten                                                     *)

\* Every client plugs its root before the old one is stopped.
ReplaceOnly == \A c \in Clients : Asks[c].kind = "replaceFirst"

\* The thread of c alone knows of r.
Holds(c, r) ==
  /\ r # Dummy
  /\ \/ pc[c] = "plugged" /\ r = newPlugged[c]
     \/ pc[c] = "swapped" /\ r = oldPlugged[c]

\* Numbers of roots are given once.
Numbered ==
  /\ holder.nr =< created
  /\ \A r \in live : r.nr =< created
  /\ \A c \in Clients : newPlugged[c].nr =< created /\ oldPlugged[c].nr =< created

\* No thread is on the way of PutRootStopFirstRequest, and one that has plugged
\* a root has one.
OnTheWay ==
  \A c \in Clients : /\ pc[c] \notin {"gotOld", "stoppedOld"}
                     /\ pc[c] = "plugged" => newPlugged[c] # Dummy

\* The parts of EveryRootAccounted.
HeldIsLive  == \A r \in Plugged : r = holder \/ (\E c \in Clients : Holds(c, r)) => r \in live
LiveIsHeld  == \A r \in live : r = holder \/ \E c \in Clients : Holds(c, r)
HeldApart   == \A c \in Clients : ~Holds(c, holder)
HeldByOne   == \A c, d \in Clients : c # d => \A r \in Plugged : ~(Holds(c, r) /\ Holds(d, r))
Accounted == hook # "done" => HeldIsLive /\ LiveIsHeld /\ HeldApart /\ HeldByOne

RInv == /\ TypeOK
        /\ Numbered
        /\ OnTheWay
        /\ Accounted
        /\ CleanShutdown

\* InHand(c) is the set of what the thread of c holds.
LEMMA InHandHolds ==
  ASSUME TypeOK, NEW c \in Clients, NEW r PROVE r \in InHand(c) <=> Holds(c, r)
  BY DEF InHand, Holds

LEMMA HoldsPlugged ==
  ASSUME TypeOK, NEW c \in Clients, NEW r, Holds(c, r) PROVE r \in Plugged
  BY DEF TypeOK, Holds

\* The property in terms of Holds.
LEMMA AccountedIsProperty == RInv => EveryRootAccounted
  <1> SUFFICES ASSUME RInv, hook # "done"
               PROVE  /\ live = ({holder} \ {Dummy}) \cup UNION {InHand(c) : c \in Clients}
                      /\ \A c \in Clients : holder \notin InHand(c)
                      /\ \A c, d \in Clients : c # d => InHand(c) \cap InHand(d) = {}
    BY DEF EveryRootAccounted
  <1> DEFINE held == ({holder} \ {Dummy}) \cup UNION {InHand(c) : c \in Clients}
  <1>1. TypeOK /\ HeldIsLive /\ LiveIsHeld /\ HeldApart /\ HeldByOne
    BY DEF RInv, Accounted
  <1>2. ASSUME NEW r \in live PROVE r \in held
    <2>1. r # Dummy
      BY <1>1 DEF TypeOK, Plugged, Dummy
    <2>2. CASE r = holder
      BY <2>1, <2>2
    <2>3. CASE \E c \in Clients : Holds(c, r)
      BY <2>3, <1>1, InHandHolds
    <2>4. QED
      BY <2>2, <2>3, <1>1 DEF LiveIsHeld
  <1>3. ASSUME NEW r \in held PROVE r \in live
    <2>1. CASE r \in {holder} \ {Dummy}
      BY <2>1, <1>1 DEF TypeOK, HeldIsLive
    <2>2. CASE \E c \in Clients : r \in InHand(c)
      BY <2>2, <1>1, InHandHolds, HoldsPlugged DEF HeldIsLive
    <2>3. QED
      BY <2>1, <2>2
  <1>4. live = held
    BY <1>2, <1>3
  <1>5. \A c \in Clients : holder \notin InHand(c)
    BY <1>1, InHandHolds DEF HeldApart
  <1>6. ASSUME NEW c \in Clients, NEW d \in Clients, c # d, NEW r \in InHand(c), r \in InHand(d)
        PROVE  FALSE
    BY <1>6, <1>1, InHandHolds, HoldsPlugged DEF HeldByOne
  <1>7. QED
    BY <1>4, <1>5, <1>6

LEMMA RInit == Init => RInv
  <1> SUFFICES ASSUME Init PROVE RInv
    OBVIOUS
  <1>1. TypeOK
    BY TypeInit
  <1>2. holder \in Plugged \cup {Dummy} /\ holder.nr =< 1
    BY StartedType DEF Init
  <1>3. Numbered
    BY <1>2 DEF Init, Numbered, Dummy
  <1>4. OnTheWay
    BY DEF Init, OnTheWay
  <1>5. \A c \in Clients : \A r : ~Holds(c, r)
    BY DEF Init, Holds
  <1>6. Accounted
    <2>1. \A r \in Plugged : r # Dummy
      BY DEF Plugged, Dummy
    <2>2. QED
      BY <1>5, <2>1 DEF Init, Accounted, HeldIsLive, LiveIsHeld, HeldApart, HeldByOne
  <1>7. QED
    BY <1>1, <1>3, <1>4, <1>6 DEF RInv, CleanShutdown, Init

\* A thread that neither plugs, stops nor moves a root changes nothing.
LEMMA Elsewhere ==
  ASSUME RInv, NEW c \in Clients, NEW from \in Stages, NEW to \in Stages, Goes(c, from, to),
         from \notin {"plugged", "swapped"}, to \notin {"plugged", "swapped", "gotOld", "stoppedOld"},
         UNCHANGED <<holder, live, created, newPlugged, oldPlugged>>
  PROVE  Numbered' /\ OnTheWay' /\ Accounted' /\ CleanShutdown'
  <1>1. /\ pc[c] = from /\ pc'[c] = to
        /\ \A d \in Clients \ {c} : pc'[d] = pc[d]
        /\ hook # "done" /\ hook' = hook
    BY GoesOn DEF RInv
  <1>2. \A d \in Clients : \A r : Holds(d, r)' <=> Holds(d, r)
    BY <1>1 DEF Holds
  <1>3. Numbered' /\ OnTheWay'
    BY <1>1 DEF RInv, Numbered, OnTheWay
  <1>4. Accounted'
    BY <1>1, <1>2 DEF RInv, Accounted, HeldIsLive, LiveIsHeld, HeldApart, HeldByOne
  <1>5. QED
    BY <1>1, <1>3, <1>4 DEF CleanShutdown

\* A new root has a number none had before, so that only its thread holds it.
LEMMA RPlug ==
  ASSUME ReplaceOnly, RInv, NEW c \in Clients, Plug(c)
  PROVE  Numbered' /\ OnTheWay' /\ Accounted' /\ CleanShutdown'
  <1> DEFINE new == [config |-> Asks[c].config, nr |-> created + 1]
  <1>1. /\ new \in Plugged /\ new.nr = created + 1 /\ created' = created + 1
        /\ created \in Nat /\ new # Dummy
    BY DEF RInv, TypeOK, Plug, Plugged, Dummy
  <1>2. /\ newPlugged' = [newPlugged EXCEPT ![c] = new] /\ live' = live \cup {new}
        /\ oldPlugged' = oldPlugged /\ holder' = holder
        /\ Goes(c, "connected", "plugged")
    BY DEF Plug, ReplaceOnly
  <1> HIDE DEF new
  <1>3. /\ pc[c] = "connected" /\ pc'[c] = "plugged"
        /\ \A d \in Clients \ {c} : pc'[d] = pc[d]
        /\ hook # "done" /\ hook' = hook
    BY <1>2, GoesOn DEF RInv, Stages
  <1>4. /\ newPlugged'[c] = new
        /\ \A d \in Clients \ {c} : newPlugged'[d] = newPlugged[d]
    BY <1>2 DEF RInv, TypeOK
  <1>5. \A r : ~Holds(c, r) /\ (Holds(c, r)' <=> r = new)
    BY <1>1, <1>3, <1>4 DEF Holds
  <1>6. \A d \in Clients \ {c} : \A r : Holds(d, r)' <=> Holds(d, r)
    BY <1>2, <1>3, <1>4 DEF Holds
  <1>7. /\ holder # new /\ new \notin live
        /\ \A d \in Clients : ~Holds(d, new)
    <2>1. \A r : r.nr =< created => r # new
      BY <1>1
    <2>2. holder.nr =< created /\ \A r \in live : r.nr =< created
      BY DEF RInv, Numbered
    <2>3. \A d \in Clients : newPlugged[d].nr =< created /\ oldPlugged[d].nr =< created
      BY DEF RInv, Numbered
    <2>4. \A d \in Clients : ~Holds(d, new)
      BY <2>1, <2>3 DEF Holds
    <2>5. QED
      BY <2>1, <2>2, <2>4
  <1>8. Numbered'
    <2>1. holder'.nr =< created'
      BY <1>1, <1>2 DEF RInv, Numbered, TypeOK, Plugged, Dummy
    <2>2. \A r \in live' : r.nr =< created'
      BY <1>1, <1>2 DEF RInv, Numbered, TypeOK, Plugged
    <2>3. ASSUME NEW d \in Clients
          PROVE  newPlugged'[d].nr =< created' /\ oldPlugged'[d].nr =< created'
      BY <1>1, <1>2, <1>4 DEF RInv, Numbered, TypeOK, Plugged, Dummy
    <2>4. QED
      BY <2>1, <2>2, <2>3 DEF Numbered
  <1>9. OnTheWay'
    BY <1>1, <1>3, <1>4 DEF RInv, OnTheWay
  <1>10. HeldIsLive' /\ LiveIsHeld'
    BY <1>1, <1>2, <1>3, <1>5, <1>6 DEF RInv, Accounted, HeldIsLive, LiveIsHeld
  <1>11. HeldApart' /\ HeldByOne'
    BY <1>2, <1>3, <1>5, <1>6, <1>7 DEF RInv, Accounted, HeldApart, HeldByOne
  <1>12. QED
    BY <1>3, <1>8, <1>9, <1>10, <1>11 DEF Accounted, CleanShutdown

\* getAndSet: what was held is in the holder, and what was there is held.
LEMMA RReplace ==
  ASSUME RInv, NEW c \in Clients, Replace(c)
  PROVE  Numbered' /\ OnTheWay' /\ Accounted' /\ CleanShutdown'
  <1>1. /\ pc[c] = "plugged" /\ pc'[c] = "swapped"
        /\ \A d \in Clients \ {c} : pc'[d] = pc[d]
        /\ hook # "done" /\ hook' = hook
    BY GoesOn DEF RInv, Stages, Replace
  <1>2. /\ holder' = newPlugged[c] /\ oldPlugged'[c] = holder
        /\ \A d \in Clients \ {c} : oldPlugged'[d] = oldPlugged[d]
        /\ newPlugged' = newPlugged /\ live' = live /\ created' = created
    BY DEF RInv, TypeOK, Replace, rootVars
  <1>3. newPlugged[c] \in Plugged /\ newPlugged[c] # Dummy
    BY <1>1 DEF RInv, TypeOK, OnTheWay
  <1>4. \A r : Holds(c, r)' <=> r # Dummy /\ r = holder
    BY <1>1, <1>2 DEF Holds
  <1>5. \A r : Holds(c, r) <=> r = holder'
    BY <1>1, <1>2, <1>3 DEF Holds
  <1>6. \A d \in Clients \ {c} : \A r : Holds(d, r)' <=> Holds(d, r)
    BY <1>1, <1>2 DEF Holds
  <1>7. HeldIsLive /\ LiveIsHeld /\ HeldApart /\ HeldByOne
    BY <1>1 DEF RInv, Accounted
  <1>8. Numbered' /\ OnTheWay'
    BY <1>1, <1>2 DEF RInv, Numbered, OnTheWay, Stages
  <1>9. HeldIsLive'
    BY <1>2, <1>4, <1>5, <1>6, <1>7 DEF HeldIsLive
  <1>10. LiveIsHeld'
    <2>1. \A r \in live : r # Dummy
      BY DEF RInv, TypeOK, Plugged, Dummy
    <2>2. QED
      BY <1>2, <1>4, <1>5, <1>6, <1>7, <2>1 DEF LiveIsHeld
  <1>11. HeldApart'
    BY <1>2, <1>3, <1>4, <1>5, <1>6, <1>7 DEF HeldApart, HeldByOne
  <1>12. HeldByOne'
    BY <1>2, <1>4, <1>6, <1>7 DEF HeldApart, HeldByOne
  <1>13. QED
    BY <1>1, <1>8, <1>9, <1>10, <1>11, <1>12 DEF Accounted, CleanShutdown

\* Only the thread that stops a root held it.
LEMMA RStopOld ==
  ASSUME RInv, NEW c \in Clients, StopOld(c)
  PROVE  Numbered' /\ OnTheWay' /\ Accounted' /\ CleanShutdown'
  <1>1. Goes(c, "swapped", "persist")
    BY DEF StopOld, RInv, OnTheWay, Goes
  <1>2. /\ pc[c] = "swapped" /\ pc'[c] = "persist"
        /\ \A d \in Clients \ {c} : pc'[d] = pc[d]
        /\ hook # "done" /\ hook' = hook
    BY <1>1, GoesOn DEF RInv, Stages
  <1>3. /\ live' = live \ {oldPlugged[c]}
        /\ UNCHANGED <<holder, created, newPlugged, oldPlugged>>
    BY DEF StopOld, localVars
  <1>4. \A r : ~Holds(c, r)' /\ (Holds(c, r) <=> r # Dummy /\ r = oldPlugged[c])
    BY <1>2 DEF Holds
  <1>5. \A d \in Clients \ {c} : \A r : Holds(d, r)' <=> Holds(d, r)
    BY <1>2, <1>3 DEF Holds
  <1>6. HeldIsLive /\ LiveIsHeld /\ HeldApart /\ HeldByOne
    BY <1>2 DEF RInv, Accounted
  <1>7. Numbered' /\ OnTheWay'
    BY <1>2, <1>3 DEF RInv, Numbered, OnTheWay
  <1>8. HeldIsLive'
    <2>1. \A r \in Plugged : r # Dummy
      BY DEF Plugged, Dummy
    <2>2. QED
      BY <1>3, <1>4, <1>5, <1>6, <2>1 DEF HeldIsLive, HeldApart, HeldByOne
  <1>9. LiveIsHeld'
    BY <1>3, <1>4, <1>5, <1>6 DEF LiveIsHeld
  <1>10. HeldApart' /\ HeldByOne'
    BY <1>3, <1>4, <1>5, <1>6 DEF HeldApart, HeldByOne
  <1>11. QED
    BY <1>2, <1>7, <1>8, <1>9, <1>10 DEF Accounted, CleanShutdown

LEMMA RThread ==
  ASSUME ReplaceOnly, RInv, NEW c \in Clients, ThreadStep(c)
  PROVE  Numbered' /\ OnTheWay' /\ Accounted' /\ CleanShutdown'
  <1>1. CASE GetOld(c)
    BY <1>1 DEF GetOld, ReplaceOnly
  <1>2. CASE StopOld(c)
    BY <1>2, RStopOld
  <1>3. CASE Plug(c)
    BY <1>3, RPlug
  <1>4. CASE Replace(c)
    BY <1>4, RReplace
  <1>5. CASE Set(c)
    BY <1>5 DEF Set, ReplaceOnly
  <1>6. CASE ReadHolder(c)
    BY <1>6, Elsewhere DEF ReadHolder, rootVars, localVars, Stages
  <1>7. CASE Open(c)
    BY <1>7, Elsewhere DEF Open, rootVars, localVars, Stages
  <1>8. CASE Write(c)
    BY <1>8, Elsewhere DEF Write, localVars, Stages
  <1>9. CASE Fail(c)
    <2>1. PICK s \in {"connected", "stoppedOld", "open", "writing"} : Goes(c, s, "answered")
      BY <1>9 DEF Fail
    <2>2. UNCHANGED <<holder, live, created, newPlugged, oldPlugged>>
      BY <1>9 DEF Fail, rootVars, localVars
    <2>3. s \in Stages /\ "answered" \in Stages
      BY DEF Stages
    <2>4. QED
      BY <2>1, <2>2, <2>3, Elsewhere
  <1>10. CASE Close(c)
    <2>1. /\ hook # "done" /\ hook' = hook
          /\ UNCHANGED <<holder, live, created>>
          /\ pc[c] = "answered" /\ pc' = [pc EXCEPT ![c] = "closed"]
          /\ newPlugged' = [newPlugged EXCEPT ![c] = Dummy]
          /\ oldPlugged' = [oldPlugged EXCEPT ![c] = Dummy]
      BY <1>10 DEF Close, hookVars, rootVars
    <2>2. /\ pc'[c] = "closed" /\ newPlugged'[c] = Dummy /\ oldPlugged'[c] = Dummy
          /\ \A d \in Clients \ {c} : /\ pc'[d] = pc[d] /\ newPlugged'[d] = newPlugged[d]
                                      /\ oldPlugged'[d] = oldPlugged[d]
      BY <2>1 DEF RInv, TypeOK
    <2>3. \A d \in Clients : \A r : Holds(d, r)' <=> Holds(d, r)
      BY <2>1, <2>2 DEF Holds
    <2>4. Numbered' /\ OnTheWay'
      BY <2>1, <2>2 DEF RInv, TypeOK, Numbered, OnTheWay, Dummy
    <2>5. Accounted'
      BY <2>1, <2>3 DEF RInv, Accounted, HeldIsLive, LiveIsHeld, HeldApart, HeldByOne
    <2>6. QED
      BY <2>1, <2>4, <2>5 DEF CleanShutdown
  <1>11. QED
    BY <1>1, <1>2, <1>3, <1>4, <1>5, <1>6, <1>7, <1>8, <1>9, <1>10 DEF ThreadStep

\* When no thread is left, what is live is in the holder.
LEMMA RStopRoot ==
  ASSUME RInv, StopRoot PROVE Numbered' /\ OnTheWay' /\ Accounted' /\ CleanShutdown'
  <1>1. /\ hook = "joining" /\ hook' = "done" /\ live' = live \ {holder}
        /\ UNCHANGED <<holder, created, pc, newPlugged, oldPlugged>>
    BY DEF StopRoot, localVars
  <1>2. Numbered' /\ OnTheWay' /\ Accounted'
    BY <1>1 DEF RInv, Numbered, OnTheWay, Accounted
  <1>3. ASSUME alone' PROVE live' = {}
    <2>1. \A c \in Clients : pc[c] \in {"none", "closed"}
      BY <1>3 DEF StopRoot, Running
    <2>2. \A c \in Clients : \A r : ~Holds(c, r)
      BY <2>1 DEF Holds
    <2>3. QED
      BY <1>1, <2>2 DEF RInv, Accounted, LiveIsHeld
  <1>4. QED
    BY <1>2, <1>3 DEF CleanShutdown

LEMMA RRestart ==
  ASSUME RInv, Restart PROVE Numbered' /\ OnTheWay' /\ Accounted' /\ CleanShutdown'
  <1>1. created' \in Nat \ {0} /\ file \in Configs \cup {NoConfig, Torn}
    BY DEF RInv, TypeOK, Restart
  <1>2. holder' \in Plugged \cup {Dummy} /\ holder'.nr =< created'
    BY <1>1, StartedType DEF Restart
  <1>3. /\ live' = {holder'} \ {Dummy} /\ hook' = "none"
        /\ newPlugged' = [c \in Clients |-> Dummy] /\ oldPlugged' = [c \in Clients |-> Dummy]
        /\ \A c \in Clients : pc'[c] \in {"none", "closed"}
    BY DEF Restart
  <1>4. Numbered'
    BY <1>1, <1>2, <1>3 DEF Numbered, Dummy
  <1>5. OnTheWay'
    BY <1>3 DEF OnTheWay
  <1>6. \A c \in Clients : \A r : ~Holds(c, r)'
    BY <1>3 DEF Holds
  <1>7. \A r \in Plugged : r # Dummy
    BY DEF Plugged, Dummy
  <1>8. Accounted'
    BY <1>3, <1>6, <1>7 DEF Accounted, HeldIsLive, LiveIsHeld, HeldApart, HeldByOne
  <1>9. QED
    BY <1>3, <1>4, <1>5, <1>8 DEF CleanShutdown

LEMMA RStep == ReplaceOnly /\ RInv /\ [Next]_vars => RInv'
  <1> SUFFICES ASSUME ReplaceOnly, RInv, [Next]_vars
               PROVE  Numbered' /\ OnTheWay' /\ Accounted' /\ CleanShutdown'
    BY TypeStep DEF RInv
  <1>1. CASE \E c \in Clients : Accept(c)
    <2>1. PICK c \in Clients : Accept(c)
      BY <1>1
    <2>2. /\ pc'[c] = "connected" /\ pc[c] = "none" /\ hook = "none" /\ hook' = hook
          /\ \A d \in Clients \ {c} : pc'[d] = pc[d]
          /\ UNCHANGED <<holder, live, created, newPlugged, oldPlugged>>
      BY <2>1 DEF Accept, stopped, RInv, TypeOK, hookVars, rootVars, localVars
    <2>3. \A d \in Clients : \A r : Holds(d, r)' <=> Holds(d, r)
      BY <2>2 DEF Holds
    <2>4. Numbered' /\ OnTheWay'
      BY <2>2 DEF RInv, Numbered, OnTheWay
    <2>5. Accounted'
      BY <2>2, <2>3 DEF RInv, Accounted, HeldIsLive, LiveIsHeld, HeldApart, HeldByOne
    <2>6. QED
      BY <2>2, <2>4, <2>5 DEF CleanShutdown
  <1>2. CASE \E c \in Clients : ThreadStep(c)
    BY <1>2, RThread
  <1>3. CASE Register \/ Shutdown \/ (\E c \in Clients : Join(c)) \/ UNCHANGED vars
    <2>1. /\ UNCHANGED <<holder, live, created, pc, newPlugged, oldPlugged, alone>>
          /\ hook # "done" => hook' # "done"
          /\ hook = "done" => hook' = "done"
      BY <1>3 DEF Register, Shutdown, Join, vars, rootVars, localVars, hookVars
    <2>2. Numbered' /\ OnTheWay'
      BY <2>1 DEF RInv, Numbered, OnTheWay
    <2>3. \A c \in Clients : \A r : Holds(c, r)' <=> Holds(c, r)
      BY <2>1 DEF Holds
    <2>4. Accounted'
      BY <2>1, <2>3 DEF RInv, Accounted, HeldIsLive, LiveIsHeld, HeldApart, HeldByOne
    <2>5. QED
      BY <2>1, <2>2, <2>4 DEF RInv, CleanShutdown
  <1>4. CASE StopRoot
    BY <1>4, RStopRoot
  <1>5. CASE Restart
    BY <1>5, RRestart
  <1>6. QED
    BY <1>1, <1>2, <1>3, <1>4, <1>5 DEF Next, HookStep

LEMMA RAlways == ASSUME ReplaceOnly PROVE Spec => []RInv
  <1>1. ReplaceOnly
    OBVIOUS
  <1>2. Init => RInv
    BY RInit
  <1>3. RInv /\ [Next]_vars => RInv'
    BY <1>1, RStep
  <1>4. QED
    BY <1>2, <1>3, PTL DEF Spec

\* When every client plugs first, every root that runs is the one in the holder
\* or in the hands of one thread, which will put it there or stop it.
THEOREM Accounting == ASSUME ReplaceOnly PROVE Spec => []EveryRootAccounted
  <1>1. Spec => []RInv
    BY RAlways
  <1>2. RInv => EveryRootAccounted
    BY AccountedIsProperty
  <1>3. QED
    BY <1>1, <1>2, PTL

\* When every client plugs first, a shutdown after the last thread has ended
\* leaves no root running.
THEOREM Shutdowns == ASSUME ReplaceOnly PROVE Spec => []CleanShutdown
  <1>1. Spec => []RInv
    BY RAlways
  <1>2. RInv => CleanShutdown
    BY DEF RInv
  <1>3. QED
    BY <1>1, <1>2, PTL

-----------------------------------------------------------------------------
(* One client at a time                                                     *)

OneAtATime == MaxConnected = 1 /\ IsFiniteSet(Clients)

OneRunning == \A c, d \in Running : c = d

LEMMA FirstRunning ==
  ASSUME OneAtATime, NEW c \in Clients, Accept(c) PROVE Running = {}
  <1>1. IsFiniteSet(Running)
    BY FS_Subset DEF OneAtATime, Running
  <1>2. Cardinality(Running) < 1 /\ Cardinality(Running) \in Nat
    BY <1>1, FS_CardinalityType DEF Accept, OneAtATime
  <1>3. QED
    BY <1>1, <1>2, FS_EmptySet

\* While a thread takes a step no other is running.
LEMMA Undisturbed ==
  ASSUME TypeOK, OneRunning, NEW c \in Clients, ThreadStep(c)
  PROVE  /\ c \in Running
         /\ \A d \in Clients \ {c} : pc[d] \in {"none", "closed"} /\ pc'[d] = pc[d]
  <1>1. /\ pc[c] \notin {"none", "closed"}
        /\ \E s \in Stages : pc' = [pc EXCEPT ![c] = s]
    BY DEF ThreadStep, GetOld, StopOld, Plug, Replace, Set, ReadHolder, Open, Write, Fail, Close,
           Goes, Stages
  <1>2. c \in Running
    BY <1>1 DEF Running
  <1>3. \A d \in Clients \ {c} : d \notin Running
    BY <1>2 DEF OneRunning
  <1>4. \A d \in Clients \ {c} : pc'[d] = pc[d]
    BY <1>1 DEF TypeOK
  <1>5. QED
    BY <1>2, <1>3, <1>4 DEF Running

LEMMA OneStep == OneAtATime /\ TypeOK /\ OneRunning /\ [Next]_vars => OneRunning'
  <1> SUFFICES ASSUME OneAtATime, TypeOK, OneRunning, [Next]_vars PROVE OneRunning'
    OBVIOUS
  <1>1. CASE \E c \in Clients : Accept(c)
    <2>1. PICK c \in Clients : Accept(c)
      BY <1>1
    <2>2. \A d \in Clients \ {c} : pc'[d] = pc[d]
      BY <2>1 DEF Accept, TypeOK
    <2>3. \A d \in Running' : d = c
      BY <2>1, <2>2, FirstRunning DEF Running
    <2>4. QED
      BY <2>3 DEF OneRunning
  <1>2. CASE \E c \in Clients : ThreadStep(c)
    <2>1. PICK c \in Clients : ThreadStep(c)
      BY <1>2
    <2>2. \A d \in Running' : d = c
      BY <2>1, Undisturbed DEF Running
    <2>3. QED
      BY <2>2 DEF OneRunning
  <1>3. CASE Restart
    BY <1>3 DEF Restart, OneRunning, Running
  <1>4. CASE UNCHANGED pc
    BY <1>4 DEF OneRunning, Running
  <1>5. QED
    BY <1>1, <1>2, <1>3, <1>4 DEF Next, HookStep, Register, Shutdown, StopRoot, Join, vars

-----------------------------------------------------------------------------
(* Roots together                                                           *)

\* The thread of c may have plugged its root beside the old one.
Overlaps(c) == Asks[c].kind = "replaceFirst" /\ pc[c] \in {"plugged", "swapped"}

\* A root that runs is in the holder, where no thread has stopped it, or has
\* just been plugged, or has just been taken out of the holder.
OneOfTwo ==
  \A r \in live :
    \/ r = holder /\ \A c \in Clients : pc[c] \in {"stoppedOld", "plugged"} => Overlaps(c)
    \/ \E c \in Clients : pc[c] = "plugged" /\ r = newPlugged[c]
    \/ \E c \in Clients : pc[c] = "swapped" /\ r = oldPlugged[c]

OldIsHeld ==
  \A c \in Clients : /\ pc[c] = "swapped" => Overlaps(c)
                     /\ pc[c] = "gotOld" => oldPlugged[c] = holder

SInv == TypeOK /\ OneRunning /\ (hook # "done" => OldIsHeld /\ OneOfTwo) /\ NeverTwoLive

LEMMA AtMostOneLive ==
  ASSUME TypeOK, OneRunning, OldIsHeld, OneOfTwo PROVE NeverTwoLive
  <1>1. SUFFICES ASSUME \A c \in Clients : ~Overlaps(c)
                 PROVE  Cardinality(live) =< 1
    BY DEF NeverTwoLive, Overlaps
  <1>2. \A c, d \in Clients : pc[c] = "plugged" /\ pc[d] = "plugged" => c = d
    BY DEF OneRunning, Running
  <1>3. \A r, s \in live : r = s
    BY <1>1, <1>2 DEF OneOfTwo, OldIsHeld
  <1>4. CASE live = {}
    BY <1>4, FS_EmptySet
  <1>5. CASE live # {}
    <2>1. PICK r \in live : TRUE
      BY <1>5
    <2>2. live = {r}
      BY <1>3, <2>1
    <2>3. Cardinality(live) = 1
      BY <2>2, FS_Singleton
    <2>4. QED
      BY <2>3
  <1>6. QED
    BY <1>4, <1>5

LEMMA SThread ==
  ASSUME SInv, NEW c \in Clients, ThreadStep(c)
  PROVE  hook' # "done" /\ OldIsHeld' /\ OneOfTwo'
  <1>1. \A d \in Clients \ {c} : pc[d] \in {"none", "closed"} /\ pc'[d] = pc[d]
    BY Undisturbed DEF SInv
  <1>2. hook # "done" /\ hook' = hook
    BY DEF ThreadStep, GetOld, StopOld, Plug, Replace, Set, ReadHolder, Open, Write, Fail, Close,
           Goes, hookVars
  <1>3. OldIsHeld /\ OneOfTwo
    BY <1>2 DEF SInv
  <1> USE DEF OldIsHeld, OneOfTwo, Overlaps
  <1>4. CASE GetOld(c)
    <2>1. /\ pc[c] = "connected" /\ pc'[c] = "gotOld" /\ oldPlugged'[c] = holder
          /\ holder' = holder /\ live' = live /\ newPlugged' = newPlugged
      BY <1>4 DEF GetOld, Goes, SInv, TypeOK, rootVars
    <2>2. QED
      BY <1>1, <1>2, <1>3, <2>1
  <1>5. CASE StopOld(c)
    <2>1. /\ \/ pc[c] = "gotOld" /\ pc'[c] = "stoppedOld"
             \/ pc[c] = "swapped" /\ pc'[c] = "persist"
          /\ live' = live \ {oldPlugged[c]}
          /\ holder' = holder /\ newPlugged' = newPlugged
      BY <1>5 DEF StopOld, Goes, SInv, TypeOK, localVars
    <2>2. \A r \in live' : r = holder /\ pc'[c] # "stoppedOld"
      BY <1>1, <1>3, <2>1
    <2>3. QED
      BY <1>1, <1>2, <2>1, <2>2
  <1>6. CASE Plug(c)
    <2> DEFINE new == [config |-> Asks[c].config, nr |-> created + 1]
    <2>1. /\ \/ pc[c] = "connected" /\ Asks[c].kind = "replaceFirst"
             \/ pc[c] = "stoppedOld"
          /\ pc'[c] = "plugged" /\ live' = live \cup {new}
          /\ newPlugged'[c] = new /\ holder' = holder
      BY <1>6 DEF Plug, Goes, SInv, TypeOK
    <2> HIDE DEF new
    <2>2. \A r \in live' : r = new \/ (r = holder /\ Asks[c].kind = "replaceFirst")
      BY <1>1, <1>3, <2>1
    <2>3. QED
      BY <1>1, <1>2, <2>1, <2>2
  <1>7. CASE Replace(c)
    <2>1. /\ pc[c] = "plugged" /\ pc'[c] = "swapped" /\ Asks[c].kind = "replaceFirst"
          /\ live' = live /\ holder' = newPlugged[c] /\ newPlugged' = newPlugged
          /\ oldPlugged'[c] = holder
      BY <1>7 DEF Replace, Goes, SInv, TypeOK, rootVars
    <2>2. QED
      BY <1>1, <1>2, <1>3, <2>1
  <1>8. CASE Set(c)
    <2>1. /\ pc[c] = "plugged" /\ pc'[c] = "persist" /\ Asks[c].kind = "stopFirst"
          /\ live' = live /\ holder' = newPlugged[c] /\ newPlugged' = newPlugged
      BY <1>8 DEF Set, Goes, SInv, TypeOK, localVars
    <2>2. \A r \in live : r = newPlugged[c]
      BY <1>1, <1>3, <2>1
    <2>3. QED
      BY <1>1, <1>2, <2>1, <2>2
  <1>9. CASE ReadHolder(c) \/ Open(c) \/ Write(c) \/ Fail(c) \/ Close(c)
    <2>1. /\ pc[c] \in {"persist", "open", "writing", "answered", "connected", "stoppedOld"}
          /\ pc'[c] \in {"open", "writing", "answered", "closed"}
          /\ live' = live /\ holder' = holder
      BY <1>9 DEF ReadHolder, Open, Write, Fail, Close, Goes, SInv, TypeOK, rootVars
    <2>2. \A r \in live : r = holder
      BY <1>1, <1>3, <2>1
    <2>3. QED
      BY <1>1, <1>2, <2>1, <2>2
  <1>10. QED
    BY <1>4, <1>5, <1>6, <1>7, <1>8, <1>9 DEF ThreadStep

LEMMA SInit == Init => SInv
  <1> SUFFICES ASSUME Init PROVE SInv
    OBVIOUS
  <1>1. OldIsHeld /\ OneOfTwo /\ OneRunning
    BY DEF Init, OldIsHeld, OneOfTwo, Overlaps, OneRunning, Running
  <1>2. QED
    BY <1>1, TypeInit, AtMostOneLive DEF SInv

LEMMA SStep == OneAtATime /\ SInv /\ [Next]_vars => SInv'
  <1> SUFFICES ASSUME OneAtATime, SInv, [Next]_vars PROVE SInv'
    OBVIOUS
  <1>1. TypeOK' /\ OneRunning'
    BY TypeStep, OneStep DEF SInv
  <1>2. OldIsHeld' /\ OneOfTwo' => NeverTwoLive'
    BY <1>1, AtMostOneLive, PTL
  <1>3. CASE \E c \in Clients : Accept(c)
    <2>1. PICK c \in Clients : Accept(c)
      BY <1>3
    <2>2. /\ pc'[c] = "connected" /\ pc[c] = "none" /\ hook = "none"
          /\ \A d \in Clients \ {c} : pc'[d] = pc[d]
          /\ UNCHANGED <<holder, live, newPlugged, oldPlugged>>
      BY <2>1 DEF Accept, stopped, SInv, TypeOK, rootVars, localVars
    <2>3. OldIsHeld' /\ OneOfTwo'
      BY <2>2 DEF SInv, OldIsHeld, OneOfTwo, Overlaps
    <2>4. QED
      BY <1>1, <1>2, <2>3 DEF SInv
  <1>4. CASE \E c \in Clients : ThreadStep(c)
    BY <1>4, <1>1, <1>2, SThread DEF SInv
  <1>5. CASE Register \/ Shutdown \/ (\E c \in Clients : Join(c)) \/ UNCHANGED vars
    <2>1. /\ UNCHANGED <<holder, live, pc, newPlugged, oldPlugged>>
          /\ hook = "done" => hook' = "done"
      BY <1>5 DEF Register, Shutdown, Join, vars, rootVars, localVars, hookVars
    <2>2. hook' # "done" => OldIsHeld' /\ OneOfTwo'
      BY <2>1 DEF SInv, OldIsHeld, OneOfTwo, Overlaps
    <2>3. NeverTwoLive'
      BY <2>1 DEF SInv, NeverTwoLive
    <2>4. QED
      BY <1>1, <2>2, <2>3 DEF SInv
  <1>6. CASE StopRoot
    <2>1. hook = "joining" /\ hook' = "done" /\ live' \subseteq live
          /\ UNCHANGED <<holder, pc, newPlugged, oldPlugged>>
      BY <1>6 DEF StopRoot, localVars
    <2>2. OldIsHeld' /\ OneOfTwo'
      BY <2>1 DEF SInv, OldIsHeld, OneOfTwo, Overlaps
    <2>3. QED
      BY <1>1, <1>2, <2>2 DEF SInv
  <1>7. CASE Restart
    <2>1. OldIsHeld' /\ OneOfTwo'
      BY <1>7 DEF Restart, OldIsHeld, OneOfTwo, Overlaps
    <2>2. QED
      BY <1>1, <1>2, <2>1 DEF SInv
  <1>8. QED
    BY <1>3, <1>4, <1>5, <1>6, <1>7 DEF Next, HookStep

\* When clients come one at a time, two roots are plugged together only while
\* a client that asked for that is between the two, whatever fails and whenever
\* the app is stopped or dies.
THEOREM OneRootAtATime == ASSUME OneAtATime PROVE Spec => []NeverTwoLive
  <1>1. OneAtATime
    OBVIOUS
  <1>2. Init => SInv
    BY SInit
  <1>3. SInv /\ [Next]_vars => SInv'
    BY <1>1, SStep
  <1>4. SInv => NeverTwoLive
    BY DEF SInv
  <1>5. QED
    BY <1>2, <1>3, <1>4, PTL DEF Spec

-----------------------------------------------------------------------------
(* Promises                                                                 *)

Replacing == {"swapped", "persist", "open", "writing"}

\* From the change of the root to the end of the write the client's root is in
\* place, nothing is promised, and what is written is its config.
OwnPut ==
  \A c \in Clients :
    /\ pc[c] = "plugged" => newPlugged[c].config = Asks[c].config
    /\ pc[c] \in Replacing => holder.config = Asks[c].config /\ promised = NoConfig
    /\ pc[c] \in {"open", "writing"} => clc[c] = Asks[c].config
    /\ pc[c] = "writing" => c \in clean

PInv == TypeOK /\ OneRunning /\ OwnPut /\ PromiseKept

LEMMA PThread ==
  ASSUME PInv, NEW c \in Clients, ThreadStep(c) PROVE OwnPut' /\ PromiseKept'
  <1>1. \A d \in Clients \ {c} : pc[d] \in {"none", "closed"} /\ pc'[d] = pc[d]
    BY Undisturbed DEF PInv
  <1>2. OwnPut /\ PromiseKept /\ Asks[c].config \in Configs
    BY DEF PInv
  <1>3. \A d \in Clients \ {c} : pc'[d] \notin Replacing \cup {"plugged"}
    BY <1>1 DEF Replacing
  <1>4. SUFFICES /\ pc'[c] = "plugged" => newPlugged'[c].config = Asks[c].config
                 /\ pc'[c] \in Replacing => holder'.config = Asks[c].config /\ promised' = NoConfig
                 /\ pc'[c] \in {"open", "writing"} => clc'[c] = Asks[c].config
                 /\ pc'[c] = "writing" => c \in clean'
                 /\ PromiseKept'
    BY <1>3, <1>4 DEF OwnPut, Replacing
  <1> USE DEF OwnPut, Replacing, PromiseKept
  <1>5. CASE GetOld(c)
    <2>1. pc'[c] = "gotOld" /\ UNCHANGED <<holder, promised, file>>
      BY <1>5 DEF GetOld, Goes, PInv, TypeOK, rootVars, fileVars
    <2>2. QED
      BY <1>2, <2>1
  <1>6. CASE StopOld(c)
    <2>1. /\ \/ pc'[c] = "stoppedOld"
             \/ (pc[c] = "swapped" /\ pc'[c] = "persist")
          /\ UNCHANGED <<holder, promised, file>>
      BY <1>6 DEF StopOld, Goes, PInv, TypeOK, fileVars
    <2>2. QED
      BY <1>2, <2>1
  <1>7. CASE Plug(c)
    <2>1. /\ pc'[c] = "plugged" /\ newPlugged'[c].config = Asks[c].config
          /\ UNCHANGED <<holder, promised, file>>
      BY <1>7 DEF Plug, Goes, PInv, TypeOK, fileVars
    <2>2. QED
      BY <1>2, <2>1
  <1>8. CASE Replace(c) \/ Set(c)
    <2>1. /\ pc[c] = "plugged" /\ pc'[c] \in {"swapped", "persist"}
          /\ holder' = newPlugged[c] /\ promised' = NoConfig
      BY <1>8 DEF Replace, Set, Goes, PInv, TypeOK
    <2>2. QED
      BY <1>2, <2>1
  <1>9. CASE ReadHolder(c)
    <2>1. /\ pc[c] = "persist" /\ pc'[c] = "open" /\ clc'[c] = holder.config
          /\ UNCHANGED <<holder, promised, file>>
      BY <1>9 DEF ReadHolder, Goes, PInv, TypeOK, rootVars
    <2>2. QED
      BY <1>2, <2>1
  <1>10. CASE Open(c)
    <2>1. /\ pc[c] = "open" /\ pc'[c] = "writing" /\ UNCHANGED <<holder, promised, clc>>
          /\ clean' = IF Writing = {} THEN {c} ELSE {}
      BY <1>10 DEF Open, Goes, PInv, TypeOK, rootVars
    <2>2. Writing = {}
      BY <1>1, <2>1 DEF Writing
    <2>3. QED
      BY <1>2, <2>1, <2>2
  <1>11. CASE Write(c)
    <2>1. /\ pc[c] = "writing" /\ pc'[c] = "answered" /\ holder' = holder
          /\ promised' = Asks[c].config
          /\ c \in clean => file' = clc[c]
      BY <1>11 DEF Write, Goes, PInv, TypeOK
    <2>2. QED
      BY <1>2, <2>1
  <1>12. CASE Fail(c)
    <2>1. pc'[c] = "answered" /\ UNCHANGED <<holder, promised, file>>
      BY <1>12 DEF Fail, Goes, PInv, TypeOK, rootVars
    <2>2. QED
      BY <1>2, <2>1
  <1>13. CASE Close(c)
    <2>1. pc'[c] = "closed" /\ UNCHANGED <<holder, promised, file>>
      BY <1>13 DEF Close, PInv, TypeOK, rootVars
    <2>2. QED
      BY <1>2, <2>1
  <1>14. QED
    BY <1>5, <1>6, <1>7, <1>8, <1>9, <1>10, <1>11, <1>12, <1>13 DEF ThreadStep

LEMMA PStep == OneAtATime /\ "startFails" \notin Faults /\ PInv /\ [Next]_vars => PInv'
  <1> SUFFICES ASSUME OneAtATime, "startFails" \notin Faults, PInv, [Next]_vars PROVE PInv'
    OBVIOUS
  <1>1. TypeOK' /\ OneRunning'
    BY TypeStep, OneStep DEF PInv
  <1>2. SUFFICES OwnPut' /\ PromiseKept'
    BY <1>1 DEF PInv
  <1>3. CASE \E c \in Clients : Accept(c)
    <2>1. PICK c \in Clients : Accept(c)
      BY <1>3
    <2>2. /\ pc'[c] = "connected"
          /\ \A d \in Clients \ {c} : pc'[d] = pc[d]
          /\ UNCHANGED <<holder, promised, file, clc, clean, newPlugged>>
      BY <2>1 DEF Accept, PInv, TypeOK, rootVars, fileVars, localVars
    <2>3. QED
      BY <2>2 DEF PInv, OwnPut, PromiseKept, Replacing
  <1>4. CASE \E c \in Clients : ThreadStep(c)
    BY <1>4, PThread
  <1>5. CASE Restart
    <2>1. /\ holder' \in Started(file, created') /\ UNCHANGED <<file, promised>>
          /\ \A c \in Clients : pc'[c] \in {"none", "closed"}
      BY <1>5 DEF Restart
    <2>2. OwnPut'
      BY <2>1 DEF OwnPut, Replacing
    <2>3. ASSUME promised # NoConfig PROVE holder'.config = promised /\ file = promised
      BY <2>1, <2>3 DEF Started, PInv, TypeOK, PromiseKept
    <2>4. QED
      BY <2>1, <2>2, <2>3 DEF PromiseKept
  <1>6. CASE Register \/ Shutdown \/ (\E c \in Clients : Join(c)) \/ StopRoot \/ UNCHANGED vars
    <2>1. UNCHANGED <<holder, promised, file, clc, clean, pc, newPlugged>>
      BY <1>6 DEF Register, Shutdown, Join, StopRoot, vars, rootVars, fileVars, localVars
    <2>2. QED
      BY <2>1 DEF PInv, OwnPut, PromiseKept
  <1>7. QED
    BY <1>3, <1>4, <1>5, <1>6 DEF Next, HookStep

\* When clients come one at a time and a stored root can be plugged again, the
\* root a client was told of is in place and on disk until the next one takes
\* its place, through shutdowns and crashes.
THEOREM Promises ==
  ASSUME OneAtATime, "startFails" \notin Faults PROVE Spec => []PromiseKept
  <1>1. OneAtATime /\ "startFails" \notin Faults
    OBVIOUS
  <1>2. Init => PInv
    BY TypeInit DEF Init, PInv, OneRunning, Running, OwnPut, Replacing, PromiseKept
  <1>3. PInv /\ [Next]_vars => PInv'
    BY <1>1, PStep
  <1>4. PInv => PromiseKept
    BY DEF PInv
  <1>5. QED
    BY <1>2, <1>3, <1>4, PTL DEF Spec
=============================================================================
