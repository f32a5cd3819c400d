---------------------------- MODULE JarCacheProofs ----------------------------
(***************************************************************************)
(* Proofs about JarCache: no file is opened twice, no jar is overwritten,  *)
(* memory follows the journal, a cached key has a file of its own, and an  *)
(* uploader that stops has all of its keys in the cache.                   *)
(*                                                                         *)
(* The invariant rests on two facts.  Every id under which a file was ever *)
(* opened lies below nextId, in memory and in the journal, at every point  *)
(* between a request and its handler.  And a step changes the state only   *)
(* to what the journal holds already.                                      *)
(***************************************************************************)
EXTENDS JarCache, FiniteSetTheorems, TLAPS

USE KeysAssumption, WantedAssumption

-----------------------------------------------------------------------------
(* Commands and events                                                      *)

\* The number of missing keys is a number.
LEMMA MissingCount == ASSUME NEW u \in Uploaders PROVE Cardinality(Missing(u)) \in Nat
  <1>1. IsFiniteSet(Missing(u))
    BY FS_Subset DEF Missing
  <1>2. QED
    BY <1>1, FS_CardinalityType

\* Ids given to the missing keys are new ones, one for each.
LEMMA NewIds ==
  ASSUME NEW u \in Uploaders, NEW start \in Nat,
         NEW id \in Numberings(Missing(u), start), NEW k \in Missing(u)
  PROVE  /\ id[k] \in Nat /\ id[k] >= start
         /\ id[k] < start + Cardinality(Missing(u))
         /\ \A j \in Missing(u) : id[j] = id[k] => j = k
  <1> DEFINE n == Cardinality(Missing(u))
  <1>1. n \in Nat
    BY MissingCount
  <1> HIDE DEF n
  <1>2. id \in Injection(Missing(u), start .. start + n - 1)
    BY DEF Numberings, n
  <1>3. /\ id \in [Missing(u) -> start .. start + n - 1]
        /\ \A a, b \in Missing(u) : id[a] = id[b] => a = b
    BY <1>2 DEF Injection, IsInjective
  <1>4. id[k] \in start .. start + n - 1
    BY <1>3
  <1>5. id[k] \in Nat /\ id[k] >= start /\ id[k] < start + n
    BY <1>1, <1>4
  <1>6. QED
    BY <1>3, <1>5 DEF n

\* What a command looks like, by its type.
LEMMA CommandTypes ==
  ASSUME TypeOK
  PROVE  /\ command.type = "VerifyRequest" => command.from \in Uploaders
         /\ command.type = "Finished" => command.upload \in Upload
         /\ command # NoCommand => command.type \in {"VerifyRequest", "Finished"}
         /\ command.type \in {"VerifyRequest", "Finished"} => command # NoCommand
  BY DEF TypeOK, Command, NoCommand

\* NextId moves nextId and leaves the lookup alone.
LEMMA UpdateNextId ==
  ASSUME TypeOK, NEW s, IsState(s), command.type = "VerifyRequest"
  PROVE  /\ IsState(UpdateState(s))
         /\ UpdateState(s).nextId = state.nextId + Cardinality(Missing(command.from))
         /\ UpdateState(s).lookup = s.lookup
  <1>1. Cardinality(Missing(command.from)) \in Nat
    BY CommandTypes, MissingCount
  <1>2. state.nextId \in Nat
    BY DEF TypeOK, IsState
  <1> DEFINE n == state.nextId + Cardinality(Missing(command.from))
  <1>3. n \in Nat
    BY <1>1, <1>2
  <1>4. UpdateState(s) = [s EXCEPT !.nextId = n]
    BY DEF UpdateState, NextId
  <1> HIDE DEF n
  <1>5. PICK D \in SUBSET Keys : s \in [nextId : Nat, lookup : [D -> Nat]]
    BY DEF IsState
  <1>6. /\ UpdateState(s) \in [nextId : Nat, lookup : [D -> Nat]]
        /\ UpdateState(s).nextId = n
        /\ UpdateState(s).lookup = s.lookup
    BY <1>3, <1>4, <1>5
  <1>7. QED
    BY <1>5, <1>6 DEF IsState, n

\* PutEvent enters one key and leaves nextId and the other keys alone.
LEMMA UpdatePut ==
  ASSUME TypeOK, NEW s, IsState(s), command.type = "Finished"
  PROVE  /\ IsState(UpdateState(s))
         /\ UpdateState(s).nextId = s.nextId
         /\ DOMAIN UpdateState(s).lookup = DOMAIN s.lookup \cup {command.upload.key}
         /\ \A k \in DOMAIN UpdateState(s).lookup :
              UpdateState(s).lookup[k] =
                IF k = command.upload.key THEN command.upload.id ELSE s.lookup[k]
  <1> DEFINE key == command.upload.key
             id  == command.upload.id
             f   == [k \in DOMAIN s.lookup \cup {key} |-> IF k = key THEN id ELSE s.lookup[k]]
  <1>1. key \in Keys /\ id \in Nat
    BY CommandTypes DEF Upload
  <1>2. UpdateState(s) = [s EXCEPT !.lookup = f]
    BY DEF UpdateState, PutEvent
  <1>3. PICK D \in SUBSET Keys : s \in [nextId : Nat, lookup : [D -> Nat]]
    BY DEF IsState
  <1>4. DOMAIN s.lookup = D
    BY <1>3
  <1>5. f \in [D \cup {key} -> Nat]
    BY <1>1, <1>3, <1>4
  <1>6. D \cup {key} \in SUBSET Keys
    BY <1>1, <1>3
  <1>7. DOMAIN f = D \cup {key} /\ \A k \in DOMAIN f : f[k] = IF k = key THEN id ELSE s.lookup[k]
    BY <1>4
  <1> HIDE DEF f
  <1>8. /\ UpdateState(s) \in [nextId : Nat, lookup : [D \cup {key} -> Nat]]
        /\ UpdateState(s).nextId = s.nextId
        /\ UpdateState(s).lookup = f
    BY <1>2, <1>3, <1>5
  <1>9. IsState(UpdateState(s))
    BY <1>6, <1>8 DEF IsState
  <1>10. QED
    BY <1>4, <1>7, <1>8, <1>9

\* Either way the result is a state.
LEMMA UpdateIsState ==
  ASSUME TypeOK, NEW s, IsState(s), command # NoCommand
  PROVE  IsState(UpdateState(s))
  BY CommandTypes, UpdateNextId, UpdatePut

\* What the journal holds is at most one event ahead of the memory.
LEMMA JournalAhead ==
  ASSUME Inv
  PROVE  /\ journal.nextId \in Nat /\ state.nextId \in Nat
         /\ journal.nextId >= state.nextId
         /\ \A k \in DOMAIN journal.lookup :
              \/ k \in DOMAIN state.lookup /\ journal.lookup[k] = state.lookup[k]
              \/ /\ command.upload \in Reported
                 /\ k = command.upload.key
                 /\ journal.lookup[k] = command.upload.id
  <1>1. journal.nextId \in Nat /\ state.nextId \in Nat /\ IsState(state)
    BY DEF Inv, TypeOK, IsState
  <1>2. CASE ~stored
    BY <1>1, <1>2 DEF Inv, StateFollowsJournal
  <1>3. CASE stored /\ command.type = "VerifyRequest"
    <2>1. journal = UpdateState(state)
      BY <1>3 DEF Inv, StateFollowsJournal
    <2>2. Cardinality(Missing(command.from)) \in Nat
      BY <1>3, CommandTypes, MissingCount DEF Inv
    <2>3. /\ journal.nextId = state.nextId + Cardinality(Missing(command.from))
          /\ journal.lookup = state.lookup
      BY <1>1, <1>3, <2>1, UpdateNextId DEF Inv
    <2>4. journal.nextId >= state.nextId
      BY <1>1, <2>2, <2>3
    <2>5. QED
      BY <1>1, <2>3, <2>4
  <1>4. CASE stored /\ command.type = "Finished"
    <2>1. journal = UpdateState(state)
      BY <1>4 DEF Inv, StateFollowsJournal
    <2>2. command.upload \in Reported
      BY <1>4 DEF Reported
    <2>3. /\ journal.nextId = state.nextId
          /\ DOMAIN journal.lookup = DOMAIN state.lookup \cup {command.upload.key}
          /\ \A k \in DOMAIN journal.lookup :
               journal.lookup[k] = IF k = command.upload.key THEN command.upload.id
                                                             ELSE state.lookup[k]
      BY <1>1, <1>4, <2>1, UpdatePut DEF Inv
    <2>4. journal.nextId >= state.nextId
      BY <1>1, <2>3
    <2>5. QED
      BY <1>1, <2>2, <2>3, <2>4
  <1>5. QED
    BY <1>2, <1>3, <1>4, CommandTypes DEF Inv

-----------------------------------------------------------------------------
(* Type correctness                                                         *)

\* A message that is handled was in the inbox, and the rest stays there.
LEMMA HandledReply ==
  ASSUME TypeOK, NEW u \in Uploaders, NEW type, Running(u, type)
  PROVE  Head(inbox[u]) \in Reply /\ inbox' \in [Uploaders -> Seq(Reply)]
  <1>1. inbox[u] \in Seq(Reply) /\ inbox[u] # << >>
    BY DEF TypeOK, Running
  <1>2. Head(inbox[u]) \in Reply /\ Tail(inbox[u]) \in Seq(Reply)
    BY <1>1
  <1>3. QED
    BY <1>2 DEF TypeOK, Running

\* A reply to an uploader keeps the inboxes well formed.
LEMMA SentReply ==
  ASSUME TypeOK, NEW u \in Uploaders, NEW r \in Reply,
         inbox' = [inbox EXCEPT ![u] = Append(@, r)]
  PROVE  inbox' \in [Uploaders -> Seq(Reply)]
  <1>1. Append(inbox[u], r) \in Seq(Reply)
    BY DEF TypeOK
  <1>2. QED
    BY <1>1 DEF TypeOK

\* Starting senders keeps the uploader's variables well typed.
LEMMA DoProcessTypes ==
  ASSUME TypeOK, NEW u \in Uploaders, NEW requests \in Uploads, NEW n \in Nat,
         DoProcess(u, requests, n)
  PROVE  /\ slots' \in [Uploaders -> Nat]
         /\ queue' \in [Uploaders -> Uploads]
         /\ started' \subseteq Upload
         /\ uploader' \in [Uploaders -> {"running", "stopped"}]
  <1>1. PICK start \in SUBSET requests :
          /\ \/ Cardinality(start) = n
             \/ Cardinality(start) < n /\ start = requests
          /\ started' = started \cup start
          /\ queue' = [queue EXCEPT ![u] = requests \ start]
          /\ slots' = [slots EXCEPT ![u] = n - Cardinality(start)]
          /\ \/ uploader' = [uploader EXCEPT ![u] = "stopped"]
             \/ uploader' = uploader
    BY DEF DoProcess
  <1>2. IsFiniteSet(start) /\ IsFiniteSet(requests \ start)
    BY FS_Subset DEF Uploads
  <1>3. Cardinality(start) \in Nat
    BY <1>2, FS_CardinalityType
  <1>4. n - Cardinality(start) \in Nat
    BY <1>1, <1>3
  <1>5. slots' \in [Uploaders -> Nat]
    BY <1>1, <1>4 DEF TypeOK
  <1>6. queue' \in [Uploaders -> Uploads] /\ started' \subseteq Upload
    BY <1>1, <1>2 DEF TypeOK, Uploads
  <1>7. uploader' \in [Uploaders -> {"running", "stopped"}]
    BY <1>1 DEF TypeOK
  <1>8. QED
    BY <1>5, <1>6, <1>7

\* Every step keeps every variable's type.
LEMMA TypeStep == TypeOK /\ [Next]_vars => TypeOK'
  <1> SUFFICES ASSUME TypeOK, [Next]_vars PROVE TypeOK'
    OBVIOUS
  <1> USE DEF cacheVars, fileVars, uploaderVars
  <1>1. CASE Accept
    BY <1>1 DEF Accept, TypeOK
  <1>2. CASE Store
    <2>1. IsState(UpdateState(journal))
      BY <1>2, UpdateIsState DEF Store, TypeOK
    <2>2. QED
      BY <1>2, <2>1 DEF Store, TypeOK
  <1>3. CASE StartWriters
    <2>1. /\ command.type = "VerifyRequest" /\ command # NoCommand
          /\ command.from \in Uploaders
      BY <1>3, CommandTypes DEF StartWriters, Handling
    <2>2. IsState(UpdateState(state)) /\ state.nextId \in Nat
      BY <2>1, UpdateIsState DEF TypeOK, IsState
    <2> DEFINE u == command.from
    <2>3. PICK id \in Numberings(Missing(u), state.nextId) :
            LET uploads == {[id |-> id[k], key |-> k, from |-> u] : k \in Missing(u)}
                ids     == {w.id : w \in uploads}
            IN  /\ writing' = writing \cup uploads
                /\ whole' = whole \ ids
                /\ torn' = torn \ ids
                /\ inbox' = [inbox EXCEPT ![u] = Append(@, JarsRequest(uploads))]
      BY <1>3 DEF StartWriters
    <2> DEFINE uploads == {[id |-> id[k], key |-> k, from |-> u] : k \in Missing(u)}
    <2>4. Missing(u) \subseteq Keys /\ IsFiniteSet(Missing(u))
      BY <2>1, FS_Subset DEF Missing
    <2>5. \A k \in Missing(u) : id[k] \in Nat
      BY <2>1, <2>2, NewIds
    <2>6. uploads \subseteq Upload
      BY <2>1, <2>4, <2>5 DEF Upload
    <2>7. IsFiniteSet(uploads)
      <3> DEFINE g == [k \in Missing(u) |-> [id |-> id[k], key |-> k, from |-> u]]
      <3>1. uploads = {g[k] : k \in Missing(u)}
        OBVIOUS
      <3>2. IsFiniteSet({g[k] : k \in Missing(u)})
        <4>1. g \in Surjection(Missing(u), {g[k] : k \in Missing(u)})
          BY DEF Surjection
        <4>2. QED
          BY <2>4, <4>1, FS_Surjection
      <3>3. QED
        BY <3>1, <3>2
    <2>8. JarsRequest(uploads) \in Reply
      BY <2>6, <2>7 DEF JarsRequest, Reply, Uploads
    <2>9. inbox' \in [Uploaders -> Seq(Reply)]
      BY <2>1, <2>3, <2>8, SentReply
    <2>10. writing' \subseteq Upload /\ whole' \subseteq Nat /\ torn' \subseteq Nat
      BY <2>3, <2>6 DEF TypeOK
    <2>11. QED
      BY <1>3, <2>2, <2>9, <2>10 DEF StartWriters, Handling, TypeOK
  <1>4. CASE ReportDone
    <2>1. /\ command # NoCommand /\ command.upload \in Upload
      BY <1>4, CommandTypes DEF ReportDone, Handling
    <2>2. IsState(UpdateState(state))
      BY <2>1, UpdateIsState DEF TypeOK
    <2>3. command.upload.from \in Uploaders /\ Done \in Reply
      BY <2>1 DEF Upload, Reply
    <2>4. inbox' \in [Uploaders -> Seq(Reply)]
      BY <1>4, <2>3, SentReply DEF ReportDone
    <2>5. QED
      BY <1>4, <2>2, <2>4 DEF ReportDone, Handling, TypeOK
  <1>5. CASE FileWritten
    <2>1. PICK w \in writing :
            /\ writing' = writing \ {w}
            /\ whole' = whole \cup {w.id}
            /\ mail' = mail \cup {Finished(w)}
      BY <1>5 DEF FileWritten
    <2>2. w.id \in Nat /\ Finished(w) \in Command
      BY DEF TypeOK, Upload, Finished, Command
    <2>3. writing' \subseteq Upload /\ whole' \subseteq Nat /\ mail' \subseteq Command
      BY <2>1, <2>2 DEF TypeOK
    <2>4. QED
      BY <1>5, <2>3 DEF FileWritten, TypeOK
  <1>6. CASE FileFailed
    <2>1. PICK w \in writing :
            /\ writing' = writing \ {w}
            /\ torn' = torn \cup {w.id}
            /\ mail' = mail \cup {Finished(w)}
      BY <1>6 DEF FileFailed
    <2>2. w.id \in Nat /\ Finished(w) \in Command
      BY DEF TypeOK, Upload, Finished, Command
    <2>3. writing' \subseteq Upload /\ torn' \subseteq Nat /\ mail' \subseteq Command
      BY <2>1, <2>2 DEF TypeOK
    <2>4. QED
      BY <1>6, <2>3 DEF FileFailed, TypeOK
  <1>7. ASSUME NEW u \in Uploaders, UploaderJars(u) PROVE TypeOK'
    <2>1. Head(inbox[u]) \in Reply /\ inbox' \in [Uploaders -> Seq(Reply)]
      BY <1>7, HandledReply DEF UploaderJars
    <2>2. Head(inbox[u]).requests \in Uploads
      BY <1>7, <2>1 DEF UploaderJars, Running, Reply, Done
    <2>3. slots[u] \in Nat /\ DoProcess(u, Head(inbox[u]).requests, slots[u])
      BY <1>7 DEF UploaderJars, TypeOK
    <2>4. /\ slots' \in [Uploaders -> Nat]
          /\ queue' \in [Uploaders -> Uploads]
          /\ started' \subseteq Upload
          /\ uploader' \in [Uploaders -> {"running", "stopped"}]
      BY <2>2, <2>3, DoProcessTypes
    <2>5. QED
      BY <1>7, <2>1, <2>4 DEF UploaderJars, TypeOK
  <1>8. ASSUME NEW u \in Uploaders, UploaderDone(u) PROVE TypeOK'
    <2>1. inbox' \in [Uploaders -> Seq(Reply)]
      BY <1>8, HandledReply DEF UploaderDone
    <2>2. slots[u] + 1 \in Nat /\ queue[u] \in Uploads /\ DoProcess(u, queue[u], slots[u] + 1)
      BY <1>8 DEF UploaderDone, TypeOK
    <2>3. /\ slots' \in [Uploaders -> Nat]
          /\ queue' \in [Uploaders -> Uploads]
          /\ started' \subseteq Upload
          /\ uploader' \in [Uploaders -> {"running", "stopped"}]
      BY <2>2, DoProcessTypes
    <2>4. QED
      BY <1>8, <2>1, <2>3 DEF UploaderDone, TypeOK
  <1>9. ASSUME NEW u \in Uploaders, UploaderRestarts(u) PROVE TypeOK'
    <2>1. inbox' \in [Uploaders -> Seq(Reply)]
      BY <1>9, HandledReply DEF UploaderRestarts
    <2>2. mail' \subseteq Command
      BY <1>9 DEF UploaderRestarts, VerifyRequest, Command, TypeOK
    <2>3. {} \in Uploads
      BY FS_EmptySet DEF Uploads
    <2>4. slots' \in [Uploaders -> Nat] /\ queue' \in [Uploaders -> Uploads]
      BY <1>9, <2>3, ParrallelismAssumption DEF UploaderRestarts, TypeOK
    <2>5. incidents' \in 0 .. MaxIncidents
      BY <1>9, MaxIncidentsAssumption DEF UploaderRestarts, TypeOK
    <2>6. QED
      BY <1>9, <2>1, <2>2, <2>4, <2>5 DEF UploaderRestarts, TypeOK
  <1>10. CASE LoseMessage
    <2>1. CASE \E u \in Uploaders : mail' = mail \ {VerifyRequest(u)} /\ UNCHANGED inbox
      BY <1>10, <2>1 DEF LoseMessage, TypeOK
    <2>2. ASSUME NEW u \in Uploaders, inbox[u] # << >>, inbox' = [inbox EXCEPT ![u] = Tail(@)],
                 UNCHANGED mail
          PROVE  TypeOK'
      <3>1. Tail(inbox[u]) \in Seq(Reply)
        BY <2>2 DEF TypeOK
      <3>2. inbox' \in [Uploaders -> Seq(Reply)]
        BY <2>2, <3>1 DEF TypeOK
      <3>3. QED
        BY <1>10, <2>2, <3>2 DEF LoseMessage, TypeOK
    <2>3. QED
      BY <1>10, <2>1, <2>2 DEF LoseMessage
  <1>11. CASE GetMissing
    <2>1. \A w \in writing : Finished(w) \in Command
      BY DEF Finished, Command, TypeOK
    <2>2. mail' \subseteq Command
      BY <1>11, <2>1 DEF GetMissing, TypeOK
    <2>3. writing' = {} /\ torn' \subseteq Nat /\ whole' = whole
      BY <1>11 DEF GetMissing, TearAll, TypeOK, Upload
    <2>4. incidents' \in 0 .. MaxIncidents
      BY <1>11, MaxIncidentsAssumption DEF GetMissing, TypeOK
    <2>5. QED
      BY <1>11, <2>2, <2>3, <2>4 DEF GetMissing, TypeOK
  <1>12. CASE Crash
    <2>1. mail' \subseteq Command
      BY <1>12 DEF Crash, TypeOK
    <2>2. writing' = {} /\ torn' \subseteq Nat /\ whole' = whole
      BY <1>12 DEF Crash, TearAll, TypeOK, Upload
    <2>3. incidents' \in 0 .. MaxIncidents
      BY <1>12, MaxIncidentsAssumption DEF Crash, TypeOK
    <2>4. QED
      BY <1>12, <2>1, <2>2, <2>3 DEF Crash, TypeOK
  <1>13. CASE UNCHANGED vars
    BY <1>13 DEF vars, TypeOK
  <1>14. QED
    BY <1>1, <1>2, <1>3, <1>4, <1>5, <1>6, <1>7, <1>8, <1>9, <1>10, <1>11, <1>12, <1>13 DEF Next

-----------------------------------------------------------------------------
(* What a step may do to the files and to what is known of them             *)

\* The initial state satisfies the invariant.
LEMMA InitInv == Init => Inv
  <1> SUFFICES ASSUME Init PROVE Inv
    OBVIOUS
  <1> USE DEF Init
  <1>1. IsState(EmptyState)
    <2>1. EmptyState \in [nextId : Nat, lookup : [{} -> Nat]]
      BY DEF EmptyState
    <2>2. QED
      BY <2>1 DEF IsState
  <1>2. {} \in Uploads
    BY FS_EmptySet DEF Uploads
  <1>3. TypeOK
    <2>1. mail \subseteq Command
      BY DEF Command, VerifyRequest
    <2>2. /\ inbox \in [Uploaders -> Seq(Reply)]
          /\ queue \in [Uploaders -> Uploads]
          /\ uploader \in [Uploaders -> {"running", "stopped"}]
      BY <1>2
    <2>3. slots \in [Uploaders -> Nat] /\ incidents \in 0 .. MaxIncidents
      BY ParrallelismAssumption, MaxIncidentsAssumption
    <2>4. QED
      BY <1>1, <2>1, <2>2, <2>3 DEF TypeOK
  <1>4. DOMAIN state.lookup = {}
    BY DEF EmptyState
  <1>5. Reported = {} /\ Opened = {}
    BY DEF Reported, Opened, VerifyRequest, NoCommand
  <1>6. QED
    BY <1>3, <1>4, <1>5
      DEF Inv, StateFollowsJournal, FreshIds, ReportedIsClosed, IdOfOneKey

\* The memory stays as it is or catches up with the journal.
LEMMA StateStep == ASSUME Inv, [Next]_vars PROVE state' = state \/ state' = journal
  <1>1. Handling("VerifyRequest") \/ Handling("Finished") => state' = journal
    BY DEF Inv, StateFollowsJournal, Handling
  <1>2. CASE StartWriters \/ ReportDone
    BY <1>1, <1>2 DEF StartWriters, ReportDone
  <1>3. CASE GetMissing \/ Crash
    BY <1>3 DEF GetMissing, Crash
  <1>4. CASE ~(StartWriters \/ ReportDone \/ GetMissing \/ Crash)
    BY <1>4 DEF Next, vars, cacheVars, Accept, Store, FileWritten, FileFailed, UploaderJars,
      UploaderDone, UploaderRestarts, LoseMessage
  <1>5. QED
    BY <1>2, <1>3, <1>4

\* A file that is opened gets a new id, below the next one, and no other file
\* that is opened with it has the same.
NewFiles ==
  /\ writing \subseteq writing'
  /\ \A w \in writing' \ writing :
       /\ w.id >= state.nextId
       /\ w.id < state'.nextId
       /\ \A v \in writing' \ writing : v.id = w.id => v.key = w.key

\* What StartWriters does to the files.
LEMMA StartWritersFiles ==
  ASSUME Inv, StartWriters
  PROVE  /\ NewFiles
         /\ whole' = whole /\ torn' = torn
         /\ Reported' \subseteq Reported
  <1>1. /\ command.type = "VerifyRequest" /\ command # NoCommand
        /\ command.from \in Uploaders
    BY CommandTypes DEF Inv, StartWriters, Handling
  <1>2. IsState(state) /\ state.nextId \in Nat
    BY DEF Inv, TypeOK, IsState
  <1> DEFINE u == command.from
             n == Cardinality(Missing(u))
  <1>3. n \in Nat
    BY <1>1, MissingCount
  <1>4. state'.nextId = state.nextId + n
    BY <1>1, <1>2, UpdateNextId DEF Inv, StartWriters, Handling
  <1>5. PICK id \in Numberings(Missing(u), state.nextId) :
          LET uploads == {[id |-> id[k], key |-> k, from |-> u] : k \in Missing(u)}
              ids     == {w.id : w \in uploads}
          IN  /\ writing' = writing \cup uploads
              /\ whole' = whole \ ids
              /\ torn' = torn \ ids
    BY DEF StartWriters
  <1> DEFINE uploads == {[id |-> id[k], key |-> k, from |-> u] : k \in Missing(u)}
             ids     == {w.id : w \in uploads}
  <1>6. \A k \in Missing(u) :
          /\ id[k] \in Nat /\ id[k] >= state.nextId /\ id[k] < state'.nextId
          /\ \A j \in Missing(u) : id[j] = id[k] => j = k
    BY <1>1, <1>2, <1>4, NewIds
  <1>7. \A w \in uploads :
          /\ w.id \in Nat /\ w.id >= state.nextId /\ w.id < state'.nextId
          /\ \A v \in uploads : v.id = w.id => v.key = w.key
    BY <1>6
  <1>8. NewFiles
    BY <1>5, <1>7 DEF NewFiles
  <1>9. \A i \in ids : i \in Nat /\ i >= state.nextId
    BY <1>7
  <1>10. \A i \in whole \cup torn : i \in Nat /\ i < state.nextId
    BY DEF Inv, TypeOK, FreshIds, Opened
  <1>11. \A i \in ids : i \notin whole \cup torn
    BY <1>2, <1>9, <1>10
  <1>12. whole' = whole /\ torn' = torn
    BY <1>5, <1>11
  <1>13. mail' = mail /\ command' = NoCommand
    BY DEF StartWriters, Handling
  <1>14. Reported' \subseteq Reported
    BY <1>13 DEF Reported, NoCommand
  <1>15. QED
    BY <1>8, <1>12, <1>14

\* Every other step opens nothing; what it reports was open and is closed.
LEMMA OtherFiles ==
  ASSUME Inv, [Next]_vars, ~StartWriters
  PROVE  /\ writing' \subseteq writing
         /\ whole \subseteq whole' /\ torn \subseteq torn'
         /\ Opened' = Opened
         /\ \A w \in Reported' : 
              \/ w \in Reported
              \/ w \in writing /\ w.id \in whole' \cup torn'
  <1> USE DEF cacheVars, fileVars, uploaderVars
  <1>1. CASE Accept
    BY <1>1 DEF Accept, Reported, Opened
  <1>2. CASE FileWritten
    <2>1. PICK w \in writing :
            /\ writing' = writing \ {w}
            /\ whole' = whole \cup {w.id}
            /\ mail' = mail \cup {Finished(w)}
      BY <1>2 DEF FileWritten
    <2>2. UNCHANGED <<torn, command>>
      BY <1>2 DEF FileWritten
    <2>3. \A v \in Reported' : v \in Reported \/ v = w
      BY <2>1, <2>2 DEF Reported, Finished
    <2>4. Opened' = Opened
      BY <2>1, <2>2 DEF Opened
    <2>5. QED
      BY <2>1, <2>2, <2>3, <2>4
  <1>3. CASE FileFailed
    <2>1. PICK w \in writing :
            /\ writing' = writing \ {w}
            /\ torn' = torn \cup {w.id}
            /\ mail' = mail \cup {Finished(w)}
      BY <1>3 DEF FileFailed
    <2>2. UNCHANGED <<whole, command>>
      BY <1>3 DEF FileFailed
    <2>3. \A v \in Reported' : v \in Reported \/ v = w
      BY <2>1, <2>2 DEF Reported, Finished
    <2>4. Opened' = Opened
      BY <2>1, <2>2 DEF Opened
    <2>5. QED
      BY <2>1, <2>2, <2>3, <2>4
  <1>4. CASE GetMissing
    <2>1. PICK reporting \in SUBSET writing :
            mail' = mail \cup {Finished(w) : w \in reporting}
      BY <1>4 DEF GetMissing
    <2>2. /\ writing' = {} /\ torn' = torn \cup {w.id : w \in writing}
          /\ UNCHANGED <<whole, command>>
      BY <1>4 DEF GetMissing, TearAll
    <2>3. \A v \in Reported' : v \in Reported \/ v \in writing
      BY <2>1, <2>2 DEF Reported, Finished
    <2>4. Opened' = Opened
      BY <2>2 DEF Opened
    <2>5. QED
      BY <2>2, <2>3, <2>4
  <1>5. CASE Crash
    <2>1. /\ writing' = {} /\ torn' = torn \cup {w.id : w \in writing}
          /\ UNCHANGED whole
          /\ mail' \subseteq mail /\ command' = NoCommand
      BY <1>5 DEF Crash, TearAll
    <2>2. Reported' \subseteq Reported
      BY <2>1 DEF Reported, NoCommand
    <2>3. Opened' = Opened
      BY <2>1 DEF Opened
    <2>4. QED
      BY <2>1, <2>2, <2>3
  <1>6. CASE ReportDone
    <2>1. UNCHANGED <<mail, writing, whole, torn>> /\ command' = NoCommand
      BY <1>6 DEF ReportDone, Handling
    <2>2. QED
      BY <2>1 DEF Reported, Opened, NoCommand
  <1>7. ASSUME NEW u \in Uploaders, UploaderRestarts(u)
        PROVE  /\ UNCHANGED <<command, writing, whole, torn>>
               /\ mail' = mail \cup {VerifyRequest(u)}
    BY <1>7 DEF UploaderRestarts
  <1>8. CASE \E u \in Uploaders : UploaderRestarts(u)
    <2>1. PICK u \in Uploaders : UploaderRestarts(u)
      BY <1>8
    <2>2. UNCHANGED <<command, writing, whole, torn>> /\ mail' = mail \cup {VerifyRequest(u)}
      BY <1>7, <2>1
    <2>3. QED
      BY <2>2 DEF Reported, Opened, VerifyRequest
  <1>9. CASE LoseMessage
    <2>1. UNCHANGED <<command, writing, whole, torn>> /\ mail' \subseteq mail
      BY <1>9 DEF LoseMessage
    <2>2. QED
      BY <2>1 DEF Reported, Opened
  <1>10. CASE Store \/ (\E u \in Uploaders : UploaderJars(u) \/ UploaderDone(u)) \/ UNCHANGED vars
    <2>1. UNCHANGED <<command, mail, writing, whole, torn>>
      BY <1>10 DEF Store, UploaderJars, UploaderDone, vars
    <2>2. QED
      BY <2>1 DEF Reported, Opened
  <1>11. QED
    BY <1>1, <1>2, <1>3, <1>4, <1>5, <1>6, <1>8, <1>9, <1>10 DEF Next

-----------------------------------------------------------------------------
(* The invariant                                                            *)

\* Memory and journal are updated in this order, and a recovery in between
\* catches up.
LEMMA JournalStep ==
  ASSUME Inv, [Next]_vars
  PROVE  (stored' => command' # NoCommand) /\ StateFollowsJournal'
  <1> USE DEF cacheVars, fileVars, uploaderVars
  <1>1. /\ stored => command # NoCommand
        /\ stored \in BOOLEAN
        /\ stored => journal = UpdateState(state)
        /\ ~stored => journal = state
    BY DEF Inv, TypeOK, StateFollowsJournal
  <1>2. CASE Store
    <2>1. UpdateState(state)' = UpdateState(state)
      BY <1>2 DEF Store, UpdateState, Missing, NextId, PutEvent
    <2>2. QED
      BY <1>1, <1>2, <2>1 DEF Store, StateFollowsJournal
  <1>3. CASE StartWriters \/ ReportDone
    BY <1>1, <1>3 DEF StartWriters, ReportDone, Handling, StateFollowsJournal
  <1>4. CASE GetMissing
    BY <1>1, <1>4 DEF GetMissing, StateFollowsJournal
  <1>5. CASE Crash
    BY <1>1, <1>5 DEF Crash, StateFollowsJournal
  <1>6. CASE Accept
    BY <1>1, <1>6 DEF Accept, StateFollowsJournal, TypeOK, Inv, Command, NoCommand
  <1>7. CASE ~(Store \/ StartWriters \/ ReportDone \/ GetMissing \/ Crash \/ Accept)
    <2>1. UNCHANGED <<state, journal, command, stored>>
      BY <1>7 DEF Next, vars, FileWritten, FileFailed, UploaderJars, UploaderDone,
        UploaderRestarts, LoseMessage
    <2>2. UpdateState(state)' = UpdateState(state)
      BY <2>1 DEF UpdateState, Missing, NextId, PutEvent
    <2>3. QED
      BY <1>1, <2>1, <2>2 DEF StateFollowsJournal
  <1>8. QED
    BY <1>2, <1>3, <1>4, <1>5, <1>6, <1>7

\* The next id stays above every id in use.
LEMMA FreshStep == ASSUME Inv, [Next]_vars PROVE FreshIds'
  <1>1. /\ state.nextId \in Nat /\ state'.nextId \in Nat
        /\ state'.nextId >= state.nextId
    BY StateStep, JournalAhead
  <1>2. \A id \in Opened : id \in Nat /\ id < state.nextId
    BY DEF Inv, TypeOK, FreshIds, Opened, Upload
  <1>3. CASE StartWriters
    <2>1. NewFiles /\ whole' = whole /\ torn' = torn
      BY <1>3, StartWritersFiles
    <2>2. \A id \in Opened' : id \in Opened \/ \E w \in writing' \ writing : id = w.id
      BY <2>1 DEF Opened
    <2>3. \A id \in Opened : id < state'.nextId
      BY <1>1, <1>2
    <2>4. QED
      BY <2>1, <2>2, <2>3 DEF FreshIds, NewFiles
  <1>4. CASE ~StartWriters
    <2>1. Opened' = Opened
      BY <1>4, OtherFiles
    <2>2. \A id \in Opened : id < state'.nextId
      BY <1>1, <1>2
    <2>3. QED
      BY <2>1, <2>2 DEF FreshIds
  <1>5. QED
    BY <1>3, <1>4

\* What the next state has cached was cached or reported.
LEMMA NextLookup ==
  ASSUME Inv, [Next]_vars
  PROVE  \A k \in DOMAIN state'.lookup :
           \/ k \in DOMAIN state.lookup /\ state'.lookup[k] = state.lookup[k]
           \/ \E w \in Reported : k = w.key /\ state'.lookup[k] = w.id
  <1>1. CASE state' = state
    BY <1>1
  <1>2. CASE state' = journal
    BY <1>2, JournalAhead
  <1>3. QED
    BY <1>1, <1>2, StateStep

\* No step reopens a closed file, or reports one that is open.
LEMMA ClosedStep == ASSUME Inv, [Next]_vars PROVE ReportedIsClosed'
  <1>1. /\ whole \subseteq whole' /\ torn \subseteq torn'
        /\ \A w \in Reported' : w \in Reported \/ w.id \in whole' \cup torn'
    <2>1. CASE StartWriters
      BY <2>1, StartWritersFiles
    <2>2. CASE ~StartWriters
      BY <2>2, OtherFiles
    <2>3. QED
      BY <2>1, <2>2
  <1>2. \A w \in Reported : w.id \in whole \cup torn
    BY DEF Inv, ReportedIsClosed
  <1>3. \A k \in DOMAIN state.lookup : state.lookup[k] \in whole \cup torn
    BY DEF Inv, ReportedIsClosed
  <1>4. \A w \in Reported' : w.id \in whole' \cup torn'
    BY <1>1, <1>2
  <1>5. \A k \in DOMAIN state'.lookup : state'.lookup[k] \in whole' \cup torn'
    BY <1>1, <1>2, <1>3, NextLookup
  <1>6. QED
    BY <1>4, <1>5 DEF ReportedIsClosed

\* Every id goes on standing for one key.
LEMMA OneKeyStep == ASSUME Inv, [Next]_vars PROVE IdOfOneKey'
  <1> DEFINE Known == writing \cup Reported
  <1>1. /\ \A v, w \in Known : v.id = w.id => v.key = w.key
        /\ \A w \in Known : \A k \in DOMAIN state.lookup : state.lookup[k] = w.id => k = w.key
        /\ \A j, k \in DOMAIN state.lookup : state.lookup[j] = state.lookup[k] => j = k
    BY DEF Inv, IdOfOneKey
  <1>2. state.nextId \in Nat
    BY DEF Inv, TypeOK, IsState
  <1>3. \A w \in Known : w.id \in Nat /\ w.id < state.nextId
    BY DEF Inv, TypeOK, Upload, FreshIds, Opened, ReportedIsClosed
  <1>4. \A k \in DOMAIN state.lookup :
          state.lookup[k] \in Nat /\ state.lookup[k] < state.nextId
    BY DEF Inv, TypeOK, FreshIds, Opened, ReportedIsClosed
  <1>5. \A w \in Known' : w \in Known \/ w \in writing' \ writing
    BY StartWritersFiles, OtherFiles
  <1>6. \A w \in writing' \ writing :
          /\ w.id >= state.nextId
          /\ \A v \in writing' \ writing : v.id = w.id => v.key = w.key
    BY StartWritersFiles, OtherFiles DEF NewFiles
  <1>7. \A w \in writing' \ writing : w.id \in Nat
    BY TypeStep DEF Inv, TypeOK, Upload
  <1> HIDE DEF Known
  <1>8. \A v, w \in Known' : v.id = w.id => v.key = w.key
    <2> SUFFICES ASSUME NEW v \in Known', NEW w \in Known', v.id = w.id PROVE v.key = w.key
      OBVIOUS
    <2>1. CASE v \in Known /\ w \in Known
      BY <1>1, <2>1
    <2>2. CASE v \in Known /\ w \in writing' \ writing
      BY <1>2, <1>3, <1>6, <1>7, <2>2
    <2>3. CASE v \in writing' \ writing /\ w \in Known
      BY <1>2, <1>3, <1>6, <1>7, <2>3
    <2>4. CASE v \in writing' \ writing /\ w \in writing' \ writing
      BY <1>6, <2>4
    <2>5. QED
      BY <1>5, <2>1, <2>2, <2>3, <2>4
  <1>9. ASSUME NEW k \in DOMAIN state'.lookup
        PROVE  \/ k \in DOMAIN state.lookup /\ state'.lookup[k] = state.lookup[k]
               \/ \E r \in Known : k = r.key /\ state'.lookup[k] = r.id
    BY NextLookup DEF Known
  <1>10. \A w \in Known' : \A k \in DOMAIN state'.lookup : state'.lookup[k] = w.id => k = w.key
    <2> SUFFICES ASSUME NEW w \in Known', NEW k \in DOMAIN state'.lookup, state'.lookup[k] = w.id
                 PROVE  k = w.key
      OBVIOUS
    <2>1. state'.lookup[k] \in Nat /\ state'.lookup[k] < state.nextId
      BY <1>3, <1>4, <1>9
    <2>2. w \in Known
      BY <1>2, <1>5, <1>6, <1>7, <2>1
    <2>3. QED
      BY <1>1, <1>9, <2>2
  <1>11. \A j, k \in DOMAIN state'.lookup : state'.lookup[j] = state'.lookup[k] => j = k
    BY <1>1, <1>9
  <1>12. QED
    BY <1>8, <1>10, <1>11 DEF IdOfOneKey, Known

\* The invariant is inductive.
LEMMA InvStep == Inv /\ [Next]_vars => Inv'
  BY TypeStep, JournalStep, FreshStep, ClosedStep, OneKeyStep DEF Inv

\* Inv holds in every reachable state.
THEOREM Invariance == Spec => []Inv
  BY InitInv, InvStep, PTL DEF Spec

-----------------------------------------------------------------------------
(* What the invariant gives                                                 *)

\* Every variable keeps its type.
THEOREM TypeCorrect == Spec => []TypeOK
  <1>1. Inv => TypeOK
    BY DEF Inv
  <1>2. QED
    BY <1>1, Invariance, PTL

\* The memory of the cache agrees with its journal, up to the event whose
\* handler has not run.
THEOREM Recoverable == Spec => []StateFollowsJournal
  <1>1. Inv => StateFollowsJournal
    BY DEF Inv
  <1>2. QED
    BY <1>1, Invariance, PTL

\* A cached key has a closed file of its own, in memory and in the journal.
THEOREM OwnFile == Spec => []FileOfOneKey
  <1>1. ASSUME Inv PROVE FileOfOneKey
    <2>1. \A k \in DOMAIN state.lookup :
            /\ state.lookup[k] \in whole \cup torn
            /\ \A j \in DOMAIN state.lookup : state.lookup[j] = state.lookup[k] => j = k
      BY <1>1 DEF Inv, ReportedIsClosed, IdOfOneKey
    <2>2. \A k \in DOMAIN journal.lookup :
            /\ journal.lookup[k] \in whole \cup torn
            /\ \A j \in DOMAIN journal.lookup : journal.lookup[j] = journal.lookup[k] => j = k
      BY <1>1, JournalAhead DEF Inv, ReportedIsClosed, IdOfOneKey
    <2>3. QED
      BY <2>1, <2>2 DEF FileOfOneKey
  <1>2. QED
    BY <1>1, Invariance, PTL

\* No file is opened twice, whatever crashes or restarts.
THEOREM NoReopening == Spec => NeverReopened
  <1>1. ASSUME Inv, [Next]_vars PROVE \A w \in writing' \ writing : w.id \notin Opened
    <2>1. state.nextId \in Nat /\ \A id \in Opened : id \in Nat /\ id < state.nextId
      BY <1>1 DEF Inv, TypeOK, IsState, FreshIds, Opened, Upload
    <2>2. \A w \in writing' \ writing : w.id \in Nat /\ w.id >= state.nextId
      BY <1>1, StartWritersFiles, OtherFiles, TypeStep DEF NewFiles, Inv, TypeOK, Upload
    <2>3. QED
      BY <2>1, <2>2
  <1>2. QED
    BY <1>1, Invariance, PTL DEF Spec, NeverReopened

\* A whole jar is never overwritten.
THEOREM KeptWhole == Spec => WholeForever
  <1>1. ASSUME Inv, [Next]_vars PROVE whole \subseteq whole'
    BY <1>1, StartWritersFiles, OtherFiles
  <1>2. QED
    BY <1>1, Invariance, PTL DEF Spec, WholeForever

-----------------------------------------------------------------------------
(* Whole jars                                                               *)

\* Where no file is torn before it is reported, what is reported is whole.
LEMMA WholeStep ==
  ASSUME Inv, WholeInv, [Next]_vars, "writeError" \notin Faults, "missingKey" \notin Faults
  PROVE  WholeInv'
  <1> USE DEF cacheVars, fileVars, uploaderVars
  <1>1. whole \subseteq whole'
    BY StartWritersFiles, OtherFiles
  <1>2. \A w \in Reported' : w \in Reported \/ w.id \in whole'
    <2>1. CASE StartWriters
      BY <2>1, StartWritersFiles
    <2>2. CASE FileWritten
      <3>1. PICK w \in writing : /\ whole' = whole \cup {w.id}
                                /\ mail' = mail \cup {Finished(w)}
                                /\ command' = command
        BY <2>2 DEF FileWritten
      <3>2. \A v \in Reported' : v \in Reported \/ v = w
        BY <3>1 DEF Reported, Finished
      <3>3. QED
        BY <3>1, <3>2
    <2>3. CASE Crash \/ LoseMessage
      <3>1. mail' \subseteq mail /\ command' \in {command, NoCommand}
        BY <2>3 DEF Crash, LoseMessage
      <3>2. QED
        BY <3>1 DEF Reported, NoCommand
    <2>4. CASE \E u \in Uploaders : UploaderRestarts(u)
      <3>1. PICK u \in Uploaders : mail' = mail \cup {VerifyRequest(u)} /\ command' = command
        BY <2>4 DEF UploaderRestarts
      <3>2. QED
        BY <3>1 DEF Reported, VerifyRequest
    <2>5. CASE ReportDone
      BY <2>5 DEF ReportDone, Handling, Reported, NoCommand
    <2>6. CASE Accept
      BY <2>6 DEF Accept, Reported
    <2>7. CASE \/ Store
               \/ \E u \in Uploaders : UploaderJars(u) \/ UploaderDone(u)
               \/ UNCHANGED vars
      <3>1. UNCHANGED <<mail, command>>
        BY <2>7 DEF Store, UploaderJars, UploaderDone, vars
      <3>2. QED
        BY <3>1 DEF Reported
    <2>8. QED
      BY <2>1, <2>2, <2>3, <2>4, <2>5, <2>6, <2>7 DEF Next, FileFailed, GetMissing
  <1>3. \A w \in Reported : w.id \in whole
    BY DEF WholeInv
  <1>4. \A k \in DOMAIN state.lookup : state.lookup[k] \in whole
    BY DEF WholeInv
  <1>5. \A w \in Reported' : w.id \in whole'
    BY <1>1, <1>2, <1>3
  <1>6. \A k \in DOMAIN state'.lookup : state'.lookup[k] \in whole'
    BY <1>1, <1>3, <1>4, NextLookup
  <1>7. QED
    BY <1>5, <1>6 DEF WholeInv

\* Without failed writes and restarts by a missing key, every cached key names
\* a whole jar: lost messages, crashes and uploader restarts do no harm.
THEOREM WholeCache ==
  ASSUME "writeError" \notin Faults, "missingKey" \notin Faults
  PROVE  Spec => []CachedIsWhole
  <1>1. Init => WholeInv
    <2> SUFFICES ASSUME Init PROVE WholeInv
      OBVIOUS
    <2>1. DOMAIN state.lookup = {} /\ Reported = {}
      BY DEF Init, EmptyState, Reported, VerifyRequest, NoCommand
    <2>2. QED
      BY <2>1 DEF WholeInv
  <1>2. Inv /\ WholeInv /\ [Next]_vars => WholeInv'
    BY WholeStep
  <1>3. ASSUME Inv, WholeInv PROVE CachedIsWhole
    <2>1. \A k \in DOMAIN state.lookup : state.lookup[k] \in whole
      BY <1>3 DEF WholeInv
    <2>2. \A k \in DOMAIN journal.lookup : journal.lookup[k] \in whole
      BY <1>3, JournalAhead DEF WholeInv
    <2>3. QED
      BY <2>1, <2>2 DEF CachedIsWhole
  <1>4. QED
    BY <1>1, <1>2, <1>3, Invariance, PTL DEF Spec

-----------------------------------------------------------------------------
(* The uploaders                                                           *)
(*                                                                         *)
(* An uploader that stops has all of its keys in the cache, whatever is    *)
(* lost, torn or crashes, as long as no uploader is restarted.             *)
(*                                                                         *)
(* The argument: the slots of an uploader, the uploads it has started and  *)
(* the Done under way to it are never more than its slots at the start and *)
(* its uploads that were handled.  When it stops it has all of its slots   *)
(* and has started all of its uploads, so all of them were handled.        *)

(* The invariant                                                            *)

\* Whether the request of u is under way to the cache, or is its command.
Asked(u) == VerifyRequest(u) \in mail \cup {command}

\* The uploads u has started.
Mine(u) == {w \in started : w.from = u}

\* Nothing is under way twice.
Once ==
  /\ \A u \in Uploaders : ~(VerifyRequest(u) \in mail /\ command = VerifyRequest(u))
  /\ \A w \in writing : w \notin Reported
  /\ command.type = "Finished" => command \notin mail

\* Those of the uploads R that are over, and whose keys are cached.
Handled(R) == {w \in R : w \notin writing \cup Reported /\ w.key \in DOMAIN state.lookup}

AllDone(s) == \A p \in DOMAIN s : s[p] = Done

\* R is what u was asked for: what is not cached yet is among it.
Covers(u, R) ==
  /\ R \in Uploads /\ \A w \in R : w.from = u
  /\ \A w \in writing \cup Reported : w.from = u => w \in R
  /\ \A k \in Wanted[u] : k \in DOMAIN state.lookup \/ \E w \in R : w.key = k

\* u has started nothing.
Idle(u) ==
  /\ Mine(u) = {} /\ queue[u] = {} /\ uploader[u] = "running" /\ slots[u] >= Parrallelism

\* The cache has not handled the request of u.
Asking(u) ==
  /\ Asked(u) /\ Idle(u) /\ inbox[u] = << >> /\ slots[u] = Parrallelism
  /\ \A w \in writing \cup Reported : w.from # u

\* The request or its answer was lost: u starts nothing.
Lost(u) == ~Asked(u) /\ Idle(u) /\ AllDone(inbox[u])

\* The answer is the first message to u; uploads that have failed may have been
\* reported before u has seen it.
Told(u, R) ==
  /\ ~Asked(u) /\ Idle(u) /\ slots[u] = Parrallelism /\ Covers(u, R)
  /\ inbox[u] # << >> /\ Head(inbox[u]) = JarsRequest(R) /\ AllDone(Tail(inbox[u]))
  /\ Len(inbox[u]) - 1 =< Cardinality(Handled(R))

\* u works on R: every slot that came back, and every Done under way, stands
\* for one upload that was handled.
Working(u, R) ==
  /\ ~Asked(u) /\ Covers(u, R) /\ AllDone(inbox[u])
  /\ R = Mine(u) \cup queue[u] /\ Mine(u) \cap queue[u] = {}
  /\ slots[u] + Cardinality(Mine(u)) + Len(inbox[u]) =< Parrallelism + Cardinality(Handled(R))
  /\ uploader[u] = "stopped" => Wanted[u] \subseteq DOMAIN state.lookup

Phase(u) == Asking(u) \/ Lost(u) \/ \E R \in Uploads : Told(u, R) \/ Working(u, R)

UploadInv == Once /\ \A u \in Uploaders : Phase(u)

-----------------------------------------------------------------------------
(* What grows and what ends                                                 *)

\* The journal is never behind the memory, and keys stay cached.
LEMMA JournalCovers == ASSUME Inv PROVE DOMAIN state.lookup \subseteq DOMAIN journal.lookup
  <1>1. IsState(state)
    BY DEF Inv, TypeOK
  <1>2. CASE ~stored
    BY <1>2 DEF Inv, StateFollowsJournal
  <1>3. CASE stored /\ command.type = "VerifyRequest"
    BY <1>1, <1>3, UpdateNextId DEF Inv, StateFollowsJournal
  <1>4. CASE stored /\ command.type = "Finished"
    BY <1>1, <1>4, UpdatePut DEF Inv, StateFollowsJournal
  <1>5. QED
    BY <1>2, <1>3, <1>4, CommandTypes DEF Inv

\* A step uncaches no key.
LEMMA KeysStay == ASSUME Inv, [Next]_vars PROVE DOMAIN state.lookup \subseteq DOMAIN state'.lookup
  BY StateStep, JournalCovers

\* Done is no other message.
LEMMA ReplyTypes ==
  /\ Done.type = "Done" /\ Done \in Reply
  /\ \A R : JarsRequest(R).type = "JarsRequest" /\ JarsRequest(R).requests = R
  /\ \A R \in Uploads : JarsRequest(R) \in Reply
  BY DEF Done, JarsRequest, Reply

\* What the two commands carry.
LEMMA CommandNames ==
  /\ \A u \in Uploaders : /\ VerifyRequest(u).type = "VerifyRequest" /\ VerifyRequest(u).from = u
                          /\ VerifyRequest(u) # NoCommand
  /\ \A w \in Upload : Finished(w).type = "Finished" /\ Finished(w).upload = w
  BY DEF VerifyRequest, Finished, NoCommand

\* A command is one of the two messages.
LEMMA CommandShape ==
  ASSUME TypeOK, NEW m \in mail \cup {command}, m # NoCommand
  PROVE  \/ \E u \in Uploaders : m = VerifyRequest(u)
         \/ \E w \in Upload : m = Finished(w) /\ w = m.upload
  <1>1. m \in Command
    BY DEF TypeOK
  <1>2. QED
    BY <1>1 DEF Command, VerifyRequest, Finished

\* An upload is reported when its Finished is under way.
LEMMA ReportedShape ==
  ASSUME TypeOK
  PROVE  /\ \A w \in Upload : w \in Reported <=> Finished(w) \in mail \cup {command}
         /\ Reported \subseteq Upload
  <1>1. ASSUME NEW w \in Reported PROVE w \in Upload /\ Finished(w) \in mail \cup {command}
    <2>1. PICK m \in mail \cup {command} : m.type = "Finished" /\ w = m.upload
      BY DEF Reported
    <2>2. m # NoCommand
      BY <2>1 DEF NoCommand
    <2>3. QED
      BY <2>1, <2>2, CommandShape, CommandNames
  <1>2. ASSUME NEW w \in Upload, Finished(w) \in mail \cup {command} PROVE w \in Reported
    BY <1>2, CommandNames DEF Reported
  <1>3. QED
    BY <1>1, <1>2

\* More was handled, of finitely many.
LEMMA MoreHandled ==
  ASSUME NEW R, IsFiniteSet(R),
         \A w \in R : w \in writing' \cup Reported' => w \in writing \cup Reported,
         DOMAIN state.lookup \subseteq DOMAIN state'.lookup
  PROVE  /\ Handled(R) \subseteq Handled(R)'
         /\ Cardinality(Handled(R)) \in Nat /\ Cardinality(Handled(R)') \in Nat
         /\ Cardinality(Handled(R)) =< Cardinality(Handled(R)')
  <1>1. Handled(R) \subseteq Handled(R)'
    BY DEF Handled
  <1>2. Handled(R)' \subseteq R
    BY DEF Handled
  <1>3. IsFiniteSet(Handled(R)') /\ IsFiniteSet(Handled(R))
    BY <1>1, <1>2, FS_Subset
  <1>4. QED
    BY <1>1, <1>3, FS_Subset, FS_CardinalityType

\* Finitely many uploads of an uploader, wherever they are.
LEMMA WorkTypes ==
  ASSUME TypeOK, NEW u \in Uploaders, NEW R \in Uploads
  PROVE  /\ IsFiniteSet(R)
         /\ slots[u] \in Nat /\ Parrallelism \in Nat /\ Parrallelism > 0
         /\ inbox[u] \in Seq(Reply) /\ Len(inbox[u]) \in Nat
         /\ Mine(u) \subseteq R => IsFiniteSet(Mine(u)) /\ Cardinality(Mine(u)) \in Nat
  <1>1. IsFiniteSet(R)
    BY DEF Uploads
  <1>2. Mine(u) \subseteq R => IsFiniteSet(Mine(u)) /\ Cardinality(Mine(u)) \in Nat
    BY <1>1, FS_Subset, FS_CardinalityType
  <1>3. slots[u] \in Nat /\ inbox[u] \in Seq(Reply)
    BY DEF TypeOK
  <1>4. QED
    BY <1>1, <1>2, <1>3, ParrallelismAssumption

\* A step of others: u may lose its request, and its uploads may end.
LEMMA Elsewhere ==
  ASSUME TypeOK, NEW u \in Uploaders, Phase(u),
         inbox'[u] = inbox[u], slots'[u] = slots[u], queue'[u] = queue[u],
         uploader'[u] = uploader[u], Mine(u)' = Mine(u),
         Asked(u)' => Asked(u),
         \A w \in writing' \cup Reported' : w.from = u => w \in writing \cup Reported,
         DOMAIN state.lookup \subseteq DOMAIN state'.lookup
  PROVE  Phase(u)'
  <1>1. Idle(u) => Idle(u)'
    BY DEF Idle
  <1>2. CASE Asking(u)
    <2>1. CASE Asked(u)'
      <3>1. \A w \in writing' \cup Reported' : w.from # u
        BY <1>2 DEF Asking
      <3>2. Asking(u)'
        BY <1>1, <1>2, <2>1, <3>1 DEF Asking
      <3>3. QED
        BY <3>2 DEF Phase
    <2>2. CASE ~Asked(u)'
      <3>1. Lost(u)'
        BY <1>1, <1>2, <2>2 DEF Asking, Lost, AllDone
      <3>2. QED
        BY <3>1 DEF Phase
    <2>3. QED
      BY <2>1, <2>2
  <1>3. CASE Lost(u)
    <2>1. Lost(u)'
      BY <1>1, <1>3 DEF Lost, AllDone
    <2>2. QED
      BY <2>1 DEF Phase
  <1>4. ASSUME NEW R \in Uploads, Covers(u, R) PROVE Covers(u, R)'
    BY <1>4 DEF Covers
  <1>5. ASSUME NEW R \in Uploads, Covers(u, R)
        PROVE  /\ Cardinality(Handled(R)) \in Nat /\ Cardinality(Handled(R)') \in Nat
               /\ Cardinality(Handled(R)) =< Cardinality(Handled(R)')
    <2>1. \A w \in R : w \in writing' \cup Reported' => w \in writing \cup Reported
      BY <1>5 DEF Covers
    <2>2. IsFiniteSet(R)
      BY DEF Uploads
    <2>3. QED
      BY <2>1, <2>2, MoreHandled
  <1>6. ASSUME NEW R \in Uploads, Told(u, R) PROVE Told(u, R)'
    <2>1. Len(inbox[u]) - 1 =< Cardinality(Handled(R)')
      <3>1. Len(inbox[u]) - 1 =< Cardinality(Handled(R)) /\ Covers(u, R)
        BY <1>6 DEF Told
      <3>2. QED
        BY <1>5, <3>1, WorkTypes
    <2>2. QED
      BY <1>1, <1>4, <1>6, <2>1 DEF Told, AllDone
  <1>7. ASSUME NEW R \in Uploads, Working(u, R) PROVE Working(u, R)'
    <2>1. slots[u] + Cardinality(Mine(u)) + Len(inbox[u]) =< Parrallelism + Cardinality(Handled(R)')
      <3>1. /\ slots[u] + Cardinality(Mine(u)) + Len(inbox[u]) =< Parrallelism + Cardinality(Handled(R))
            /\ Covers(u, R) /\ Mine(u) \subseteq R
        BY <1>7 DEF Working
      <3>2. QED
        BY <1>5, <3>1, WorkTypes
    <2>2. QED
      BY <1>4, <1>7, <2>1 DEF Working, AllDone
  <1>8. QED
    BY <1>2, <1>3, <1>6, <1>7 DEF Phase

-----------------------------------------------------------------------------
(* Nothing is under way twice                                               *)

NoRestart == "resourceError" \notin Faults

\* No step asks again.
LEMMA AskedStep ==
  ASSUME Inv, [Next]_vars, NoRestart, NEW u \in Uploaders
  PROVE  Asked(u)' => Asked(u)
  <1> USE DEF cacheVars, fileVars, uploaderVars
  <1>1. CASE Accept
    BY <1>1 DEF Accept, Asked
  <1>2. CASE FileWritten \/ FileFailed \/ GetMissing
    <2>1. /\ command' = command
          /\ \A m \in mail' : m \in mail \/ m.type = "Finished"
      BY <1>2 DEF FileWritten, FileFailed, GetMissing, Finished
    <2>2. VerifyRequest(u).type # "Finished"
      BY CommandNames
    <2>3. QED
      BY <2>1, <2>2 DEF Asked
  <1>3. CASE Crash \/ StartWriters \/ ReportDone
    <2>1. mail' \subseteq mail /\ command' = NoCommand
      BY <1>3 DEF Crash, StartWriters, ReportDone, Handling
    <2>2. VerifyRequest(u) # NoCommand
      BY CommandNames
    <2>3. QED
      BY <2>1, <2>2 DEF Asked
  <1>4. CASE Store \/ LoseMessage \/ (\E v \in Uploaders : UploaderJars(v) \/ UploaderDone(v)) \/ UNCHANGED vars
    <2>1. mail' \subseteq mail /\ command' = command
      BY <1>4 DEF Store, LoseMessage, UploaderJars, UploaderDone, vars
    <2>2. QED
      BY <2>1 DEF Asked
  <1>5. QED
    BY <1>1, <1>2, <1>3, <1>4 DEF Next, NoRestart, UploaderRestarts

\* What a command under way is, is not in the mailbox too.
LEMMA OnceStep == ASSUME Inv, Once, [Next]_vars, NoRestart PROVE Once'
  <1> USE DEF cacheVars, fileVars, uploaderVars
  <1>t. TypeOK
    BY DEF Inv
  <1>1. \A w \in writing' : w \notin Reported'
    <2>1. CASE StartWriters
      <3>1. /\ writing \subseteq writing' /\ Reported' \subseteq Reported
            /\ \A w \in writing' \ writing : w.id >= state.nextId
        BY <2>1, StartWritersFiles DEF NewFiles
      <3>2. \A w \in Reported : w.id < state.nextId
        BY DEF Inv, ReportedIsClosed, FreshIds, Opened
      <3>3. \A w \in writing' : w.id \in Nat
        BY TypeStep DEF Inv, TypeOK, Upload
      <3>4. state.nextId \in Nat
        BY DEF Inv, TypeOK, IsState
      <3>5. ASSUME NEW w \in writing', w \in Reported PROVE FALSE
        <4>1. CASE w \in writing
          BY <3>5, <4>1 DEF Once
        <4>2. CASE w \in writing' \ writing
          BY <3>1, <3>2, <3>3, <3>4, <3>5, <4>2
        <4>3. QED
          BY <3>5, <4>1, <4>2
      <3>6. QED
        BY <3>1, <3>5
    <2>2. CASE FileWritten \/ FileFailed
      <3>1. PICK w \in writing : /\ writing' = writing \ {w}
                                /\ mail' = mail \cup {Finished(w)}
                                /\ command' = command
        BY <2>2 DEF FileWritten, FileFailed
      <3>2. \A v \in Reported' : v \in Reported \/ v = w
        BY <3>1 DEF Reported, Finished
      <3>3. QED
        BY <3>1, <3>2 DEF Once
    <2>3. CASE GetMissing \/ Crash
      BY <2>3 DEF GetMissing, Crash, TearAll
    <2>4. CASE Accept
      <3>1. Reported' = Reported
        BY <2>4 DEF Accept, Reported, NoCommand
      <3>2. QED
        BY <2>4, <3>1 DEF Accept, Once
    <2>5. CASE ReportDone
      <3>1. mail' = mail /\ command' = NoCommand /\ writing' = writing
        BY <2>5 DEF ReportDone, Handling
      <3>2. Reported' \subseteq Reported
        BY <3>1 DEF Reported, NoCommand
      <3>3. QED
        BY <3>1, <3>2 DEF Once
    <2>6. CASE Store \/ LoseMessage \/ (\E v \in Uploaders : UploaderJars(v) \/ UploaderDone(v)) \/ UNCHANGED vars
      <3>1. mail' \subseteq mail /\ command' = command /\ writing' = writing
        BY <2>6 DEF Store, LoseMessage, UploaderJars, UploaderDone, vars
      <3>2. Reported' \subseteq Reported
        BY <3>1 DEF Reported
      <3>3. QED
        BY <3>1, <3>2 DEF Once
    <2>7. QED
      BY <2>1, <2>2, <2>3, <2>4, <2>5, <2>6 DEF Next, NoRestart, UploaderRestarts
  <1>2. /\ \A u \in Uploaders : ~(VerifyRequest(u) \in mail' /\ command' = VerifyRequest(u))
        /\ command'.type = "Finished" => command' \notin mail'
    <2>1. CASE Accept
      BY <2>1 DEF Accept
    <2>2. CASE command' = NoCommand
      BY <2>2, CommandNames DEF NoCommand
    <2>3. CASE FileWritten \/ FileFailed
      <3>1. PICK w \in writing : mail' = mail \cup {Finished(w)} /\ command' = command
        BY <2>3 DEF FileWritten, FileFailed
      <3>2. w \in Upload /\ Finished(w) # command
        <4>1. w \in Upload
          BY <1>t DEF TypeOK
        <4>2. QED
          BY <1>t, <4>1, ReportedShape DEF Once
      <3>3. Finished(w).type = "Finished" /\ \A u \in Uploaders : VerifyRequest(u) # Finished(w)
        BY <3>2, CommandNames
      <3>4. QED
        BY <3>1, <3>2, <3>3 DEF Once
    <2>4. CASE Store \/ LoseMessage \/ (\E v \in Uploaders : UploaderJars(v) \/ UploaderDone(v)) \/ UNCHANGED vars
      <3>1. mail' \subseteq mail /\ command' = command
        BY <2>4 DEF Store, LoseMessage, UploaderJars, UploaderDone, vars
      <3>2. QED
        BY <3>1 DEF Once
    <2>5. CASE StartWriters \/ ReportDone \/ GetMissing \/ Crash
      BY <2>2, <2>5 DEF StartWriters, ReportDone, Handling, GetMissing, Crash
    <2>6. QED
      BY <2>1, <2>3, <2>4, <2>5 DEF Next, NoRestart, UploaderRestarts
  <1>3. QED
    BY <1>1, <1>2 DEF Once

-----------------------------------------------------------------------------
(* Messages to an uploader                                                  *)

\* A Done that is sent goes behind what is under way.
LEMMA DoneAppended ==
  ASSUME NEW s \in Seq(Reply)
  PROVE  /\ AllDone(s) => AllDone(Append(s, Done))
         /\ s # << >> => /\ Head(Append(s, Done)) = Head(s)
                         /\ AllDone(Tail(s)) => AllDone(Tail(Append(s, Done)))
         /\ Append(s, Done) # << >> /\ Len(Append(s, Done)) = Len(s) + 1
  <1>0. Done \in Reply
    BY ReplyTypes
  <1>1. Len(Append(s, Done)) = Len(s) + 1
    BY <1>0
  <1>6. Append(s, Done) # << >>
    <2>1. Len(s) \in Nat /\ Len(<< >>) = 0
      OBVIOUS
    <2>2. Len(Append(s, Done)) # 0
      BY <1>1, <2>1
    <2>3. QED
      BY <2>1, <2>2, Zenon
  <1>2. AllDone(s) => AllDone(Append(s, Done))
    BY <1>0 DEF AllDone
  <1>3. ASSUME s # << >> PROVE Tail(Append(s, Done)) = Append(Tail(s), Done) /\ Head(Append(s, Done)) = Head(s)
    BY <1>0, <1>3
  <1>4. ASSUME s # << >>, AllDone(Tail(s)) PROVE AllDone(Tail(Append(s, Done)))
    <2>1. Tail(s) \in Seq(Reply)
      BY <1>4
    <2>2. AllDone(Append(Tail(s), Done))
      BY <1>0, <1>4, <2>1 DEF AllDone
    <2>3. QED
      BY <1>3, <1>4, <2>2
  <1>5. QED
    BY <1>1, <1>2, <1>3, <1>4, <1>6

\* The first message is taken, the others stay.
LEMMA DoneTaken ==
  ASSUME NEW s \in Seq(Reply), s # << >>
  PROVE  /\ AllDone(s) => Head(s) = Done /\ AllDone(Tail(s))
         /\ Len(Tail(s)) = Len(s) - 1 /\ Tail(s) \in Seq(Reply)
  <1>1. Len(Tail(s)) = Len(s) - 1 /\ Tail(s) \in Seq(Reply)
    OBVIOUS
  <1>2. AllDone(s) => Head(s) = Done
    BY DEF AllDone
  <1>3. \A p \in DOMAIN Tail(s) : p + 1 \in DOMAIN s /\ Tail(s)[p] = s[p + 1]
    OBVIOUS
  <1>4. AllDone(s) => AllDone(Tail(s))
    BY <1>3 DEF AllDone
  <1>5. QED
    BY <1>1, <1>2, <1>4

\* Where nothing is cached, written or reported, nothing is handled.
LEMMA SameHandled ==
  ASSUME writing' = writing, Reported' = Reported, state' = state, NEW R, NEW u \in Uploaders
  PROVE  Handled(R)' = Handled(R) /\ (Covers(u, R) => Covers(u, R)')
  BY DEF Handled, Covers

-----------------------------------------------------------------------------
(* Steps of an uploader                                                     *)

\* Of the uploads of v, those started and those that wait stay the same, and
\* every one that is started takes a slot.
LEMMA Starting ==
  ASSUME TypeOK, NEW v \in Uploaders, NEW R \in Uploads, NEW requests, NEW n \in Nat,
         \A w \in R : w.from = v, R = Mine(v) \cup requests, Mine(v) \cap requests = {},
         uploader[v] = "running", DoProcess(v, requests, n)
  PROVE  /\ R = Mine(v)' \cup queue'[v] /\ Mine(v)' \cap queue'[v] = {}
         /\ slots'[v] + Cardinality(Mine(v)') = n + Cardinality(Mine(v))
         /\ uploader'[v] \in {"running", "stopped"}
         /\ uploader'[v] = "stopped" => Mine(v)' = R /\ slots'[v] = Parrallelism
         /\ \A u \in Uploaders \ {v} : /\ Mine(u)' = Mine(u) /\ slots'[u] = slots[u]
                                       /\ queue'[u] = queue[u] /\ uploader'[u] = uploader[u]
  <1>1. PICK start \in SUBSET requests :
          /\ started' = started \cup start
          /\ queue' = [queue EXCEPT ![v] = requests \ start]
          /\ slots' = [slots EXCEPT ![v] = n - Cardinality(start)]
          /\ uploader' = IF start = requests /\ n - Cardinality(start) = Parrallelism
                         THEN [uploader EXCEPT ![v] = "stopped"] ELSE uploader
    BY DEF DoProcess
  <1>2. /\ queue'[v] = requests \ start /\ slots'[v] = n - Cardinality(start)
        /\ \A u \in Uploaders \ {v} : /\ slots'[u] = slots[u] /\ queue'[u] = queue[u]
                                      /\ uploader'[u] = uploader[u]
    BY <1>1 DEF TypeOK
  <1>3. Mine(v)' = Mine(v) \cup start
    BY <1>1 DEF Mine
  <1>4. \A u \in Uploaders \ {v} : Mine(u)' = Mine(u)
    BY <1>1 DEF Mine
  <1>5. /\ IsFiniteSet(Mine(v)) /\ IsFiniteSet(start) /\ Mine(v) \cap start = {}
        /\ Cardinality(Mine(v)) \in Nat /\ Cardinality(start) \in Nat
    <2>1. IsFiniteSet(R) /\ Mine(v) \subseteq R /\ start \subseteq R
      BY DEF Uploads
    <2>2. IsFiniteSet(Mine(v)) /\ IsFiniteSet(start)
      BY <2>1, FS_Subset
    <2>3. Mine(v) \cap start = {}
      OBVIOUS
    <2>4. QED
      BY <2>2, <2>3, FS_CardinalityType
  <1>6. Cardinality(Mine(v)') = Cardinality(Mine(v)) + Cardinality(start)
    <2>1. Cardinality(Mine(v) \cup start) = Cardinality(Mine(v)) + Cardinality(start) - Cardinality(Mine(v) \cap start)
      BY <1>5, FS_Union
    <2>2. Cardinality(Mine(v) \cap start) = 0
      BY <1>5, FS_EmptySet
    <2>3. QED
      BY <1>3, <1>5, <2>1, <2>2
  <1>7. slots'[v] + Cardinality(Mine(v)') = n + Cardinality(Mine(v))
    BY <1>2, <1>5, <1>6
  <1>8. /\ uploader'[v] \in {"running", "stopped"}
        /\ uploader'[v] = "stopped" => start = requests /\ n - Cardinality(start) = Parrallelism
    BY <1>1 DEF TypeOK
  <1>9. QED
    BY <1>2, <1>3, <1>4, <1>7, <1>8

\* All of its uploads were handled when it has all of its slots back.
LEMMA AllHandled ==
  ASSUME TypeOK, NEW u \in Uploaders, NEW R \in Uploads, NEW m \in Nat,
         Covers(u, R), Cardinality(R) + m =< Cardinality(Handled(R))
  PROVE  Wanted[u] \subseteq DOMAIN state.lookup
  <1>1. Handled(R) \subseteq R
    BY DEF Handled
  <1>2. /\ IsFiniteSet(R) /\ Cardinality(Handled(R)) =< Cardinality(R)
        /\ Cardinality(R) \in Nat /\ Cardinality(Handled(R)) \in Nat
    BY <1>1, FS_Subset, FS_CardinalityType DEF Uploads
  <1>3. Cardinality(R) = Cardinality(Handled(R))
    BY <1>2
  <1>4. Handled(R) = R
    BY <1>1, <1>2, <1>3, FS_Subset
  <1>5. QED
    BY <1>4 DEF Covers, Handled

\* The answer makes a working uploader.
LEMMA JarsStep ==
  ASSUME Inv, NEW v \in Uploaders, Phase(v), UploaderJars(v)
  PROVE  /\ Phase(v)'
         /\ \A u \in Uploaders \ {v} : Phase(u) => Phase(u)'
  <1>s. /\ UNCHANGED <<state, command, mail, writing>>
        /\ inbox[v] # << >> /\ Head(inbox[v]).type = "JarsRequest" /\ uploader[v] = "running"
        /\ inbox' = [inbox EXCEPT ![v] = Tail(@)]
        /\ DoProcess(v, Head(inbox[v]).requests, slots[v])
    BY DEF UploaderJars, Running, cacheVars, fileVars
  <1>t. TypeOK /\ inbox[v] \in Seq(Reply)
    BY DEF Inv, TypeOK
  <1>1. Reported' = Reported
    BY <1>s DEF Reported
  <1>2. ~AllDone(inbox[v])
    BY <1>s, <1>t, DoneTaken, ReplyTypes
  <1>3. PICK R \in Uploads : Told(v, R)
    BY <1>s, <1>2 DEF Phase, Asking, Lost, Working
  <1>4. /\ Head(inbox[v]).requests = R /\ Mine(v) = {} /\ Covers(v, R) /\ \A w \in R : w.from = v
        /\ slots[v] = Parrallelism /\ AllDone(Tail(inbox[v])) /\ ~Asked(v)
        /\ Len(inbox[v]) - 1 =< Cardinality(Handled(R))
    BY <1>3, ReplyTypes DEF Told, Idle, Covers
  <1>5. /\ IsFiniteSet(R) /\ slots[v] \in Nat /\ Len(inbox[v]) \in Nat /\ Parrallelism \in Nat
        /\ Cardinality(Mine(v)) = 0
    BY <1>t, <1>4, WorkTypes, FS_EmptySet
  <1>6. /\ R = Mine(v)' \cup queue'[v] /\ Mine(v)' \cap queue'[v] = {}
        /\ slots'[v] + Cardinality(Mine(v)') = slots[v] + Cardinality(Mine(v))
        /\ uploader'[v] \in {"running", "stopped"}
        /\ uploader'[v] = "stopped" => Mine(v)' = R /\ slots'[v] = Parrallelism
        /\ \A u \in Uploaders \ {v} : /\ Mine(u)' = Mine(u) /\ slots'[u] = slots[u]
                                      /\ queue'[u] = queue[u] /\ uploader'[u] = uploader[u]
    <2>1. PICK n \in Nat : n = slots[v]
      BY <1>5
    <2>2. DoProcess(v, R, n) /\ uploader[v] = "running"
      BY <1>s, <1>4, <2>1
    <2>3. R \in SUBSET R /\ R = Mine(v) \cup R /\ Mine(v) \cap R = {}
      BY <1>4
    <2>4. \A w \in R : w.from = v
      BY <1>4
    <2>5. QED
      BY <1>t, <2>1, <2>2, <2>3, <2>4, Starting
  <1>7. Handled(R)' = Handled(R) /\ Covers(v, R)'
    BY <1>s, <1>1, <1>4, SameHandled
  <1>8. inbox'[v] = Tail(inbox[v]) /\ Len(inbox'[v]) = Len(inbox[v]) - 1
    BY <1>s, <1>t, DoneTaken DEF TypeOK
  <1>9. slots'[v] + Cardinality(Mine(v)') + Len(inbox'[v]) =< Parrallelism + Cardinality(Handled(R)')
    <2>1. Cardinality(Handled(R)) \in Nat
      BY <1>5, FS_Subset, FS_CardinalityType DEF Handled
    <2>2. QED
      BY <1>4, <1>5, <1>6, <1>7, <1>8, <2>1
  <1>10. ASSUME uploader'[v] = "stopped" PROVE Wanted[v] \subseteq DOMAIN state'.lookup
    <2>1. Cardinality(R) \in Nat /\ Cardinality(Handled(R)) \in Nat
      BY <1>5, FS_Subset, FS_CardinalityType DEF Handled
    <2>2. Len(inbox[v]) - 1 \in Nat
      BY <1>s, <1>t, <1>5
    <2>3. Cardinality(R) + (Len(inbox[v]) - 1) =< Cardinality(Handled(R))
      <3>1. /\ slots'[v] = Parrallelism /\ Cardinality(Mine(v)') = Cardinality(R)
            /\ Cardinality(Handled(R)') = Cardinality(Handled(R))
        BY <1>6, <1>7, <1>10
      <3>2. Parrallelism + Cardinality(R) + (Len(inbox[v]) - 1) =< Parrallelism + Cardinality(Handled(R))
        BY <1>8, <1>9, <3>1
      <3>3. QED
        BY <1>5, <2>1, <3>2
    <2>4. Wanted[v] \subseteq DOMAIN state.lookup
      BY <1>t, <1>4, <2>2, <2>3, AllHandled
    <2>5. QED
      BY <1>s, <2>4
  <1>11. ~Asked(v)'
    BY <1>s, <1>4 DEF Asked
  <1>12. Working(v, R)'
    BY <1>4, <1>6, <1>7, <1>8, <1>9, <1>10, <1>11 DEF Working
  <1>13. ASSUME NEW u \in Uploaders \ {v}, Phase(u) PROVE Phase(u)'
    <2>1. inbox'[u] = inbox[u] /\ (Asked(u)' => Asked(u))
      BY <1>s DEF TypeOK, Asked
    <2>2. QED
      BY <1>s, <1>t, <1>1, <1>6, <1>13, <2>1, Elsewhere
  <1>14. QED
    BY <1>12, <1>13 DEF Phase

\* A Done gives a slot back, and may be the last.
LEMMA DoneStep ==
  ASSUME Inv, NEW v \in Uploaders, Phase(v), UploaderDone(v)
  PROVE  /\ Phase(v)'
         /\ \A u \in Uploaders \ {v} : Phase(u) => Phase(u)'
  <1>s. /\ UNCHANGED <<state, command, mail, writing>>
        /\ inbox[v] # << >> /\ Head(inbox[v]).type = "Done" /\ uploader[v] = "running"
        /\ inbox' = [inbox EXCEPT ![v] = Tail(@)]
        /\ DoProcess(v, queue[v], slots[v] + 1)
    BY DEF UploaderDone, Running, cacheVars, fileVars
  <1>t. TypeOK /\ inbox[v] \in Seq(Reply) /\ slots[v] \in Nat /\ slots[v] + 1 \in Nat
    BY DEF Inv, TypeOK
  <1>1. Reported' = Reported
    BY <1>s DEF Reported
  <1>2. Lost(v) \/ \E R \in Uploads : Working(v, R)
    BY <1>s, ReplyTypes DEF Phase, Asking, Told
  <1>3. PICK R \in Uploads : \/ Lost(v) /\ R = {}
                             \/ Working(v, R)
    BY <1>2, FS_EmptySet DEF Uploads
  <1>4. /\ R = Mine(v) \cup queue[v] /\ Mine(v) \cap queue[v] = {} /\ \A w \in R : w.from = v
        /\ AllDone(inbox[v]) /\ ~Asked(v)
    BY <1>3 DEF Working, Lost, Idle, Covers
  <1>5. /\ IsFiniteSet(R) /\ Len(inbox[v]) \in Nat /\ Parrallelism \in Nat
        /\ Cardinality(Mine(v)) \in Nat
    BY <1>t, <1>4, WorkTypes
  <1>6. /\ R = Mine(v)' \cup queue'[v] /\ Mine(v)' \cap queue'[v] = {}
        /\ slots'[v] + Cardinality(Mine(v)') = slots[v] + 1 + Cardinality(Mine(v))
        /\ uploader'[v] \in {"running", "stopped"}
        /\ uploader'[v] = "stopped" => Mine(v)' = R /\ slots'[v] = Parrallelism
        /\ \A u \in Uploaders \ {v} : /\ Mine(u)' = Mine(u) /\ slots'[u] = slots[u]
                                      /\ queue'[u] = queue[u] /\ uploader'[u] = uploader[u]
    <2>1. PICK n \in Nat : n = slots[v] + 1
      BY <1>t
    <2>2. PICK waiting : waiting = queue[v]
      OBVIOUS
    <2>3. DoProcess(v, waiting, n) /\ uploader[v] = "running"
      BY <1>s, <2>1, <2>2
    <2>4. R = Mine(v) \cup waiting /\ Mine(v) \cap waiting = {} /\ \A w \in R : w.from = v
      BY <1>4, <2>2
    <2>5. /\ R = Mine(v)' \cup queue'[v] /\ Mine(v)' \cap queue'[v] = {}
          /\ slots'[v] + Cardinality(Mine(v)') = n + Cardinality(Mine(v))
          /\ uploader'[v] \in {"running", "stopped"}
          /\ uploader'[v] = "stopped" => Mine(v)' = R /\ slots'[v] = Parrallelism
          /\ \A u \in Uploaders \ {v} : /\ Mine(u)' = Mine(u) /\ slots'[u] = slots[u]
                                        /\ queue'[u] = queue[u] /\ uploader'[u] = uploader[u]
      <3>1. TypeOK
        BY <1>t
      <3>2. \A w \in R : w.from = v
        BY <2>4
      <3>3. R = Mine(v) \cup waiting
        BY <2>4
      <3>4. Mine(v) \cap waiting = {}
        BY <2>4
      <3>5. uploader[v] = "running"
        BY <2>3
      <3>6. DoProcess(v, waiting, n)
        BY <2>3
      <3>7. QED
        BY <3>1, <3>2, <3>3, <3>4, <3>5, <3>6, Starting
    <2>6. QED
      BY <2>1, <2>5
  <1>7. /\ inbox'[v] = Tail(inbox[v]) /\ Len(inbox'[v]) = Len(inbox[v]) - 1
        /\ AllDone(inbox'[v]) /\ ~Asked(v)'
    BY <1>s, <1>t, <1>4, DoneTaken DEF TypeOK, Asked
  <1>8. slots'[v] \in Nat /\ Cardinality(Mine(v)') \in Nat
    <2>1. Mine(v)' \subseteq R
      BY <1>6
    <2>2. Cardinality(Mine(v)') \in Nat
      BY <1>5, <2>1, FS_Subset, FS_CardinalityType
    <2>3. slots'[v] \in Nat
      BY <1>s, <1>t, <1>4, DoProcessTypes DEF TypeOK
    <2>4. QED
      BY <2>2, <2>3
  <1>9. ASSUME Lost(v), R = {} PROVE Phase(v)'
    <2>1. Mine(v)' = {} /\ queue'[v] = {} /\ Mine(v) = {}
      BY <1>4, <1>6, <1>9
    <2>2. slots'[v] = slots[v] + 1 /\ slots[v] >= Parrallelism
      BY <1>t, <1>6, <1>8, <1>9, <2>1, FS_EmptySet DEF Lost, Idle
    <2>3. uploader'[v] = "running" /\ slots'[v] >= Parrallelism
      BY <1>t, <1>5, <1>6, <2>2
    <2>4. Lost(v)'
      BY <1>7, <2>1, <2>3 DEF Lost, Idle
    <2>5. QED
      BY <2>4 DEF Phase
  <1>10. ASSUME Working(v, R) PROVE Phase(v)'
    <2>1. /\ Covers(v, R)
          /\ slots[v] + Cardinality(Mine(v)) + Len(inbox[v]) =< Parrallelism + Cardinality(Handled(R))
      BY <1>10 DEF Working
    <2>2. Handled(R)' = Handled(R) /\ Covers(v, R)'
      BY <1>s, <1>1, <2>1, SameHandled
    <2>3. Cardinality(R) \in Nat /\ Cardinality(Handled(R)) \in Nat
      BY <1>5, FS_Subset, FS_CardinalityType DEF Handled
    <2>4. slots'[v] + Cardinality(Mine(v)') + Len(inbox'[v]) =< Parrallelism + Cardinality(Handled(R)')
      <3>1. /\ Cardinality(Handled(R)') = Cardinality(Handled(R))
            /\ slots'[v] + Cardinality(Mine(v)') = slots[v] + 1 + Cardinality(Mine(v))
            /\ Len(inbox'[v]) = Len(inbox[v]) - 1
        BY <1>6, <1>7, <2>2
      <3>2. PICK a \in Nat, b \in Nat, c \in Nat, d \in Nat, e \in Nat :
              /\ a = slots[v] /\ b = Cardinality(Mine(v)) /\ c = Len(inbox[v])
              /\ d = Parrallelism /\ e = Cardinality(Handled(R))
        BY <1>t, <1>5, <2>3
      <3>3. a + b + c =< d + e
        BY <2>1, <3>2
      <3>4. a + 1 + b + (c - 1) =< d + e
        BY <3>3
      <3>5. QED
        BY <3>1, <3>2, <3>4
    <2>5. ASSUME uploader'[v] = "stopped" PROVE Wanted[v] \subseteq DOMAIN state'.lookup
      <3>1. Len(inbox[v]) - 1 \in Nat
        BY <1>s, <1>t, <1>5
      <3>2. Cardinality(R) + (Len(inbox[v]) - 1) =< Cardinality(Handled(R))
        <4>1. /\ slots'[v] = Parrallelism /\ Cardinality(Mine(v)') = Cardinality(R)
              /\ Cardinality(Handled(R)') = Cardinality(Handled(R))
              /\ Len(inbox'[v]) = Len(inbox[v]) - 1
          BY <1>6, <1>7, <2>2, <2>5
        <4>2. Parrallelism + Cardinality(R) + (Len(inbox[v]) - 1) =< Parrallelism + Cardinality(Handled(R))
          BY <2>4, <4>1
        <4>3. QED
          BY <1>5, <2>3, <4>2
      <3>3. Wanted[v] \subseteq DOMAIN state.lookup
        BY <1>t, <2>1, <3>1, <3>2, AllHandled
      <3>4. QED
        BY <1>s, <3>3
    <2>6. Working(v, R)'
      BY <1>6, <1>7, <2>2, <2>4, <2>5 DEF Working
    <2>7. QED
      BY <2>6 DEF Phase
  <1>11. ASSUME NEW u \in Uploaders \ {v}, Phase(u) PROVE Phase(u)'
    <2>1. inbox'[u] = inbox[u] /\ (Asked(u)' => Asked(u))
      BY <1>s DEF TypeOK, Asked
    <2>2. QED
      BY <1>s, <1>t, <1>1, <1>6, <1>11, <2>1, Elsewhere
  <1>12. QED
    BY <1>3, <1>9, <1>10, <1>11

-----------------------------------------------------------------------------
(* Steps of the cache and of the network                                    *)

\* A step that leaves u and its messages alone, and opens no file for it.
LEMMA Quiet ==
  ASSUME Inv, [Next]_vars, NoRestart, NEW u \in Uploaders, Phase(u),
         inbox'[u] = inbox[u], UNCHANGED uploaderVars,
         \A w \in writing' \ writing : w.from # u
  PROVE  Phase(u)'
  <1>1. \A w \in writing' \cup Reported' : w.from = u => w \in writing \cup Reported
    BY StartWritersFiles, OtherFiles
  <1>2. /\ slots'[u] = slots[u] /\ queue'[u] = queue[u] /\ uploader'[u] = uploader[u]
        /\ Mine(u)' = Mine(u)
    BY DEF uploaderVars, Mine
  <1>3. TypeOK
    BY DEF Inv
  <1>4. QED
    BY <1>1, <1>2, <1>3, AskedStep, KeysStay, Elsewhere

\* The request is answered: u is told what to send.
LEMMA StartStep ==
  ASSUME Inv, Once, StartWriters, NEW u \in Uploaders, Phase(u), u = command.from
  PROVE  Phase(u)'
  <1>t. TypeOK /\ [Next]_vars
    BY DEF Inv, Next
  <1>s. /\ command.type = "VerifyRequest" /\ command # NoCommand /\ command' = NoCommand
        /\ mail' = mail /\ UNCHANGED uploaderVars
    BY <1>t, CommandTypes DEF StartWriters, Handling
  <1>1. command = VerifyRequest(u)
    <2>1. command \in mail \cup {command}
      OBVIOUS
    <2>2. QED
      BY <1>t, <1>s, <2>1, CommandShape, CommandNames
  <1>2. Asking(u)
    BY <1>1 DEF Phase, Lost, Told, Working, Asked
  <1>3. ~Asked(u)'
    BY <1>s, <1>1, CommandNames DEF Once, Asked
  <1>4. PICK id \in Numberings(Missing(command.from), state.nextId) :
          LET uploads == {[id |-> id[k], key |-> k, from |-> command.from] : k \in Missing(command.from)}
          IN  /\ writing' = writing \cup uploads
              /\ inbox' = [inbox EXCEPT ![command.from] = Append(@, JarsRequest(uploads))]
    BY DEF StartWriters
  <1>r. PICK R : R = {[id |-> id[k], key |-> k, from |-> u] : k \in Missing(u)}
    OBVIOUS
  <1>f. writing' = writing \cup R /\ inbox' = [inbox EXCEPT ![u] = Append(@, JarsRequest(R))]
    BY <1>4, <1>r
  <1>5. /\ \A w \in R : w.from = u /\ w \in Upload
        /\ \A k \in Missing(u) : \E w \in R : w.key = k
        /\ IsFiniteSet(R)
    <2>1. Missing(u) \subseteq Keys
      BY WantedAssumption DEF Missing
    <2>2. IsFiniteSet(Missing(u))
      BY <2>1, KeysAssumption, FS_Subset
    <2>3. \A k \in Missing(u) : id[k] \in Nat
      <3>1. state.nextId \in Nat /\ id \in Numberings(Missing(u), state.nextId)
        BY <1>t DEF TypeOK, IsState
      <3>2. QED
        BY <3>1, NewIds
    <2>4. IsFiniteSet(R)
      <3> DEFINE g == [k \in Missing(u) |-> [id |-> id[k], key |-> k, from |-> u]]
      <3>1. R = {g[k] : k \in Missing(u)}
        BY <1>r
      <3>2. g \in Surjection(Missing(u), {g[k] : k \in Missing(u)})
        BY DEF Surjection
      <3>3. QED
        BY <2>2, <3>1, <3>2, FS_Surjection
    <2>5. \A w \in R : w.from = u /\ w \in Upload
      BY <1>r, <2>1, <2>3 DEF Upload
    <2>6. ASSUME NEW k \in Missing(u) PROVE \E w \in R : w.key = k
      <3>1. [id |-> id[k], key |-> k, from |-> u] \in R
        BY <1>r
      <3>2. [id |-> id[k], key |-> k, from |-> u].key = k
        OBVIOUS
      <3>3. QED
        BY <3>1, <3>2
    <2>7. QED
      BY <2>4, <2>5, <2>6
  <1>6. R \in Uploads
    BY <1>5 DEF Uploads
  <1>7. Covers(u, R)'
    <2>1. \A w \in writing' \cup Reported' : w.from = u => w \in R
      BY <1>2, <1>f, StartWritersFiles DEF Asking
    <2>2. \A k \in Wanted[u] : k \in DOMAIN state'.lookup \/ \E w \in R : w.key = k
      BY <1>t, <1>5, KeysStay DEF Missing
    <2>3. QED
      BY <1>5, <1>6, <2>1, <2>2 DEF Covers
  <1>8. inbox'[u] = <<JarsRequest(R)>>
    BY <1>t, <1>2, <1>f DEF Asking, TypeOK
  <1>9. /\ inbox'[u] # << >> /\ Head(inbox'[u]) = JarsRequest(R)
        /\ AllDone(Tail(inbox'[u])) /\ Len(inbox'[u]) - 1 = 0
    BY <1>8 DEF AllDone
  <1>10. Len(inbox'[u]) - 1 =< Cardinality(Handled(R)')
    <2>1. Cardinality(Handled(R)') \in Nat
      <3>1. Handled(R)' \subseteq R
        BY DEF Handled
      <3>2. QED
        BY <1>5, <3>1, FS_Subset, FS_CardinalityType
    <2>2. PICK n \in Nat : n = Cardinality(Handled(R)')
      BY <2>1
    <2>3. 0 =< n
      OBVIOUS
    <2>4. QED
      BY <1>9, <2>2, <2>3
  <1>11. Idle(u)' /\ slots'[u] = Parrallelism
    BY <1>s, <1>2 DEF Asking, Idle, Mine, uploaderVars
  <1>12. Told(u, R)'
    BY <1>3, <1>7, <1>9, <1>10, <1>11 DEF Told
  <1>13. QED
    BY <1>6, <1>12 DEF Phase

\* The upload that is entered is under way nowhere else.
LEMMA Reporting ==
  ASSUME Inv, Once, ReportDone
  PROVE  /\ command.upload \in Upload /\ command.upload \in Reported
         /\ command.upload \notin writing' \cup Reported'
         /\ command.upload.key \in DOMAIN state'.lookup
         /\ inbox' = [inbox EXCEPT ![command.upload.from] = Append(@, Done)]
         /\ UNCHANGED <<mail, writing, uploaderVars>> /\ command' = NoCommand
  <1>t. TypeOK /\ [Next]_vars /\ IsState(state)
    BY DEF Inv, Next, TypeOK
  <1>s. /\ inbox' = [inbox EXCEPT ![command.upload.from] = Append(@, Done)]
        /\ UNCHANGED <<mail, writing, uploaderVars>> /\ command' = NoCommand
        /\ command.type = "Finished" /\ state' = UpdateState(state)
    BY DEF ReportDone, Handling, fileVars
  <1>1. command.upload \in Upload /\ command = Finished(command.upload)
    <2>1. command # NoCommand /\ command \in mail \cup {command}
      BY <1>t, <1>s, CommandTypes
    <2>2. QED
      BY <1>t, <1>s, <2>1, CommandShape, CommandNames
  <1>2. command.upload \in Reported
    BY <1>t, <1>1, ReportedShape
  <1>3. command.upload \notin writing'
    BY <1>s, <1>2 DEF Once
  <1>4. command.upload \notin Reported'
    <2>1. \A m \in mail' \cup {command'} : m.type = "Finished" => m \in mail /\ m # NoCommand
      BY <1>s DEF NoCommand
    <2>2. \A m \in mail' \cup {command'} : m.type = "Finished" => m = Finished(m.upload)
      <3>1. ASSUME NEW m \in mail' \cup {command'}, m.type = "Finished" PROVE m = Finished(m.upload)
        <4>1. m \in mail \cup {command} /\ m # NoCommand
          BY <2>1, <3>1
        <4>2. QED
          BY <1>t, <3>1, <4>1, CommandShape, CommandNames
      <3>2. QED
        BY <3>1
    <2>3. command \notin mail
      BY <1>s DEF Once
    <2>4. QED
      BY <1>1, <2>1, <2>2, <2>3 DEF Reported
  <1>5. command.upload.key \in DOMAIN state'.lookup
    BY <1>t, <1>s, UpdatePut
  <1>6. QED
    BY <1>s, <1>1, <1>2, <1>3, <1>4, <1>5

\* One more upload of u is handled, and one more Done is under way to it.
LEMMA ReportStep ==
  ASSUME Inv, Once, NoRestart, ReportDone, NEW u \in Uploaders, Phase(u), u = command.upload.from
  PROVE  Phase(u)'
  <1>t. TypeOK /\ [Next]_vars /\ inbox[u] \in Seq(Reply)
    BY DEF Inv, Next, TypeOK
  <1>s. UNCHANGED <<mail, writing, uploaderVars>>
    BY Reporting
  <1>1. PICK w \in Upload : /\ w = command.upload /\ w.from = u /\ w \in Reported
                            /\ w \notin writing' \cup Reported'
                            /\ w.key \in DOMAIN state'.lookup
    BY Reporting
  <1>2. inbox'[u] = Append(inbox[u], Done)
    BY <1>t, Reporting DEF TypeOK
  <1>3. /\ Len(inbox'[u]) = Len(inbox[u]) + 1 /\ Len(inbox[u]) \in Nat /\ inbox'[u] # << >>
        /\ AllDone(inbox[u]) => AllDone(inbox'[u])
        /\ inbox[u] # << >> => /\ Head(inbox'[u]) = Head(inbox[u])
                               /\ AllDone(Tail(inbox[u])) => AllDone(Tail(inbox'[u]))
    BY <1>t, <1>2, DoneAppended
  <1>4. /\ Idle(u) => Idle(u)'
        /\ Mine(u)' = Mine(u) /\ queue'[u] = queue[u] /\ slots'[u] = slots[u]
        /\ uploader'[u] = uploader[u]
        /\ ~Asked(u) => ~Asked(u)'
    BY <1>s, <1>t, AskedStep DEF Idle, Mine, uploaderVars
  <1>5. \A v \in writing' \cup Reported' : v \in writing \cup Reported
    <2>1. ~StartWriters
      BY DEF StartWriters, ReportDone, Handling
    <2>2. QED
      BY <1>t, <2>1, OtherFiles
  <1>6. DOMAIN state.lookup \subseteq DOMAIN state'.lookup
    BY <1>t, KeysStay
  <1>7. ASSUME NEW R \in Uploads, Covers(u, R)
        PROVE  /\ Covers(u, R)'
               /\ Cardinality(Handled(R)) \in Nat /\ Cardinality(Handled(R)') \in Nat
               /\ Cardinality(Handled(R)) + 1 =< Cardinality(Handled(R)')
    <2>1. Covers(u, R)'
      BY <1>5, <1>6, <1>7 DEF Covers
    <2>2. w \in R
      BY <1>1, <1>7 DEF Covers
    <2>3. w \notin Handled(R) /\ Handled(R) \cup {w} \subseteq Handled(R)' /\ Handled(R)' \subseteq R
      BY <1>1, <1>5, <1>6, <2>2 DEF Handled
    <2>4. IsFiniteSet(R)
      BY DEF Uploads
    <2>5. IsFiniteSet(Handled(R)') /\ IsFiniteSet(Handled(R))
      BY <2>3, <2>4, FS_Subset
    <2>6. Cardinality(Handled(R) \cup {w}) = Cardinality(Handled(R)) + 1
      BY <2>3, <2>5, FS_AddElement
    <2>7. Cardinality(Handled(R) \cup {w}) =< Cardinality(Handled(R)')
      BY <2>3, <2>5, FS_Subset
    <2>8. Cardinality(Handled(R)) \in Nat /\ Cardinality(Handled(R)') \in Nat
      BY <2>5, FS_CardinalityType
    <2>9. QED
      BY <2>1, <2>6, <2>7, <2>8
  <1>8. CASE Lost(u)
    <2>1. Lost(u)'
      BY <1>3, <1>4, <1>8 DEF Lost
    <2>2. QED
      BY <2>1 DEF Phase
  <1>9. ~Asking(u)
    BY <1>1 DEF Asking
  <1>10. ASSUME NEW R \in Uploads, Told(u, R) PROVE Phase(u)'
    <2>1. Covers(u, R) /\ Len(inbox[u]) - 1 =< Cardinality(Handled(R))
      BY <1>10 DEF Told
    <2>2. Len(inbox'[u]) - 1 =< Cardinality(Handled(R)')
      <3>1. PICK a \in Nat, b \in Nat, c \in Nat :
              a = Len(inbox[u]) /\ b = Cardinality(Handled(R)) /\ c = Cardinality(Handled(R)')
        BY <1>3, <1>7, <2>1
      <3>2. a - 1 =< b /\ b + 1 =< c
        BY <1>7, <2>1, <3>1
      <3>3. (a + 1) - 1 =< c
        BY <3>2
      <3>4. QED
        BY <1>3, <3>1, <3>3
    <2>3. Told(u, R)'
      BY <1>3, <1>4, <1>7, <1>10, <2>1, <2>2 DEF Told
    <2>4. QED
      BY <2>3 DEF Phase
  <1>11. ASSUME NEW R \in Uploads, Working(u, R) PROVE Phase(u)'
    <2>1. /\ Covers(u, R) /\ Mine(u) \subseteq R
          /\ slots[u] + Cardinality(Mine(u)) + Len(inbox[u]) =< Parrallelism + Cardinality(Handled(R))
      BY <1>11 DEF Working
    <2>2. slots[u] + Cardinality(Mine(u)) + Len(inbox'[u]) =< Parrallelism + Cardinality(Handled(R)')
      <3>1. PICK a \in Nat, b \in Nat, c \in Nat, d \in Nat, e \in Nat, f \in Nat :
              /\ a = slots[u] /\ b = Cardinality(Mine(u)) /\ c = Len(inbox[u])
              /\ d = Parrallelism /\ e = Cardinality(Handled(R)) /\ f = Cardinality(Handled(R)')
        BY <1>t, <1>3, <1>7, <2>1, WorkTypes
      <3>2. a + b + c =< d + e /\ e + 1 =< f
        BY <1>7, <2>1, <3>1
      <3>3. a + b + (c + 1) =< d + f
        BY <3>2
      <3>4. QED
        BY <1>3, <3>1, <3>3
    <2>3. uploader'[u] = "stopped" => Wanted[u] \subseteq DOMAIN state'.lookup
      BY <1>4, <1>6, <1>11 DEF Working
    <2>4. Working(u, R)'
      BY <1>3, <1>4, <1>7, <1>11, <2>1, <2>2, <2>3 DEF Working
    <2>5. QED
      BY <2>4 DEF Phase
  <1>12. QED
    BY <1>8, <1>9, <1>10, <1>11 DEF Phase

\* A message to u is lost: with the answer, u waits for ever; with a Done, a
\* slot is lost.
LEMMA LossStep ==
  ASSUME Inv, NEW u \in Uploaders, Phase(u), inbox[u] # << >>,
         inbox' = [inbox EXCEPT ![u] = Tail(@)],
         UNCHANGED <<mail, cacheVars, fileVars, uploaderVars>>
  PROVE  Phase(u)'
  <1>t. TypeOK /\ inbox[u] \in Seq(Reply)
    BY DEF Inv, TypeOK
  <1>s. /\ UNCHANGED <<mail, command, state, writing, slots, queue, started, uploader>>
        /\ Reported' = Reported
    BY DEF cacheVars, fileVars, uploaderVars, Reported
  <1>1. /\ inbox'[u] = Tail(inbox[u]) /\ Len(inbox'[u]) = Len(inbox[u]) - 1
        /\ AllDone(inbox[u]) => AllDone(inbox'[u])
    BY <1>t, DoneTaken DEF TypeOK
  <1>2. (Idle(u) => Idle(u)') /\ (~Asked(u) => ~Asked(u)') /\ Mine(u)' = Mine(u)
    BY <1>s DEF Idle, Asked, Mine
  <1>3. ~Asking(u)
    BY DEF Asking
  <1>4. CASE Lost(u) \/ \E R \in Uploads : Told(u, R)
    <2>1. Lost(u)'
      BY <1>1, <1>2, <1>4 DEF Lost, Told
    <2>2. QED
      BY <2>1 DEF Phase
  <1>5. ASSUME NEW R \in Uploads, Working(u, R) PROVE Phase(u)'
    <2>1. /\ Covers(u, R) /\ Mine(u) \subseteq R
          /\ slots[u] + Cardinality(Mine(u)) + Len(inbox[u]) =< Parrallelism + Cardinality(Handled(R))
      BY <1>5 DEF Working
    <2>2. Handled(R)' = Handled(R) /\ Covers(u, R)'
      BY <1>s, <2>1, SameHandled
    <2>3. slots[u] + Cardinality(Mine(u)) + Len(inbox'[u]) =< Parrallelism + Cardinality(Handled(R))
      <3>1. Cardinality(Handled(R)) \in Nat
        BY FS_Subset, FS_CardinalityType DEF Handled, Uploads
      <3>2. PICK a \in Nat, b \in Nat, c \in Nat, d \in Nat, e \in Nat :
              /\ a = slots[u] /\ b = Cardinality(Mine(u)) /\ c = Len(inbox[u])
              /\ d = Parrallelism /\ e = Cardinality(Handled(R))
        BY <1>t, <2>1, <3>1, WorkTypes
      <3>3. a + b + c =< d + e
        BY <2>1, <3>2
      <3>4. a + b + (c - 1) =< d + e
        BY <3>3
      <3>5. QED
        BY <1>1, <3>2, <3>4
    <2>4. Working(u, R)'
      BY <1>s, <1>1, <1>2, <1>5, <2>2, <2>3 DEF Working
    <2>5. QED
      BY <2>4 DEF Phase
  <1>6. QED
    BY <1>3, <1>4, <1>5 DEF Phase

-----------------------------------------------------------------------------
(* The invariant                                                            *)

\* Every uploader stays in one of the four phases.
LEMMA PhaseStep ==
  ASSUME Inv, UploadInv, [Next]_vars, NoRestart, NEW u \in Uploaders
  PROVE  Phase(u)'
  <1>t. TypeOK /\ Once /\ \A v \in Uploaders : Phase(v)
    BY DEF Inv, UploadInv
  <1>1. CASE StartWriters
    <2>1. CASE u = command.from
      BY <1>t, <1>1, <2>1, StartStep
    <2>2. CASE u # command.from
      <3>1. /\ inbox'[u] = inbox[u] /\ UNCHANGED uploaderVars
            /\ \A w \in writing' \ writing : w.from # u
        BY <1>t, <1>1, <2>2 DEF StartWriters, TypeOK
      <3>2. QED
        BY <1>t, <3>1, Quiet
    <2>3. QED
      BY <2>1, <2>2
  <1>2. CASE ReportDone
    <2>1. CASE u = command.upload.from
      BY <1>t, <1>2, <2>1, ReportStep
    <2>2. CASE u # command.upload.from
      <3>1. inbox'[u] = inbox[u] /\ UNCHANGED uploaderVars /\ writing' = writing
        BY <1>t, <1>2, <2>2, Reporting DEF TypeOK
      <3>2. QED
        BY <1>t, <3>1, Quiet
    <2>3. QED
      BY <2>1, <2>2
  <1>3. ASSUME NEW v \in Uploaders, UploaderJars(v) PROVE Phase(u)'
    BY <1>t, <1>3, JarsStep
  <1>4. ASSUME NEW v \in Uploaders, UploaderDone(v) PROVE Phase(u)'
    BY <1>t, <1>4, DoneStep
  <1>5. CASE LoseMessage
    <2>1. UNCHANGED <<cacheVars, fileVars, uploaderVars>> /\ writing' = writing
      BY <1>5 DEF LoseMessage, fileVars
    <2>2. CASE inbox'[u] = inbox[u]
      BY <1>t, <2>1, <2>2, Quiet
    <2>3. CASE inbox'[u] # inbox[u]
      <3>1. PICK v \in Uploaders : /\ inbox[v] # << >> /\ inbox' = [inbox EXCEPT ![v] = Tail(@)]
                                   /\ UNCHANGED mail
        BY <1>5, <2>3 DEF LoseMessage
      <3>2. u = v
        BY <1>t, <2>3, <3>1 DEF TypeOK
      <3>3. QED
        BY <1>t, <2>1, <3>1, <3>2, LossStep
    <2>4. QED
      BY <2>2, <2>3
  <1>6. CASE Accept \/ Store \/ FileWritten \/ FileFailed \/ GetMissing \/ Crash \/ UNCHANGED vars
    <2>1. inbox' = inbox /\ UNCHANGED uploaderVars /\ writing' \subseteq writing
      BY <1>6 DEF Accept, Store, FileWritten, FileFailed, GetMissing, Crash, TearAll, fileVars, vars
    <2>2. QED
      BY <1>t, <2>1, Quiet
  <1>7. QED
    BY <1>1, <1>2, <1>3, <1>4, <1>5, <1>6 DEF Next, NoRestart, UploaderRestarts

\* At first every uploader has asked.
LEMMA InitUpload == Init => UploadInv
  <1> SUFFICES ASSUME Init PROVE UploadInv
    OBVIOUS
  <1>1. Reported = {} /\ writing = {}
    BY DEF Init, Reported, VerifyRequest, NoCommand
  <1>2. Once
    BY <1>1, CommandNames DEF Init, Once, NoCommand
  <1>3. ASSUME NEW u \in Uploaders PROVE Asking(u)
    <2>1. Asked(u) /\ inbox[u] = << >> /\ slots[u] = Parrallelism
      BY DEF Init, Asked
    <2>2. Mine(u) = {} /\ queue[u] = {} /\ uploader[u] = "running"
      BY DEF Init, Mine
    <2>3. Parrallelism >= Parrallelism
      BY ParrallelismAssumption
    <2>4. QED
      BY <1>1, <2>1, <2>2, <2>3 DEF Asking, Idle
  <1>4. QED
    BY <1>2, <1>3 DEF UploadInv, Phase

\* Only an uploader that works stops, and then its keys are cached.
LEMMA StoppedCached == Inv /\ UploadInv => StoppedMeansCached
  <1> SUFFICES ASSUME Inv, UploadInv, NEW u \in Uploaders, uploader[u] = "stopped"
               PROVE  Wanted[u] \subseteq DOMAIN journal.lookup /\ Wanted[u] \subseteq DOMAIN state.lookup
    BY DEF StoppedMeansCached
  <1>1. Wanted[u] \subseteq DOMAIN state.lookup
    BY DEF UploadInv, Phase, Asking, Lost, Told, Idle, Working
  <1>2. QED
    BY <1>1, JournalCovers

\* As long as no uploader is restarted, the keys of one that has stopped are
\* cached and in the journal, whatever is lost, torn or crashes.
THEOREM StoppedIsCached ==
  ASSUME NoRestart
  PROVE  Spec => []StoppedMeansCached
  <1>1. Inv /\ UploadInv /\ [Next]_vars => UploadInv'
    BY OnceStep, PhaseStep DEF UploadInv
  <1>2. QED
    BY <1>1, InitUpload, StoppedCached, Invariance, PTL DEF Spec
=============================================================================
