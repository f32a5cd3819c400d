------------------------------- MODULE JarCache -------------------------------
(***************************************************************************)
(* JarCacheActor, the JarCacheUploaderActors that fill it, and the files   *)
(* between them.  An uploader asks which of its keys are missing; the      *)
(* cache reserves an id for each missing key in its journal, opens a file  *)
(* under that id and tells the uploader, which sends at most Parrallelism  *)
(* files at a time.  A file that is closed is entered in the journal as    *)
(* the file of its key, and the uploader is told Done.                     *)
(*                                                                         *)
(* A transfer (module BufferedTransfer) is one step here: it completes the *)
(* file, or it never does.  The journal is represented by the state that   *)
(* replaying it gives.  A process that crashes loses its actors and        *)
(* streams and comes back with the journal and the files.                  *)
(*                                                                         *)
(* A definition named Wrong... is the definition after it with a mistake   *)
(* in it, and no behaviour uses it: each shows a property can fail.        *)
(***************************************************************************)
EXTENDS Integers, Sequences, FiniteSets, Functions

CONSTANTS
  Keys,           \* the jars there are
  Uploaders,      \* the uploader actors
  Wanted,         \* Config.keys of each uploader
  Parrallelism,   \* how many files an uploader sends at a time
  Faults,         \* the faults the environment may inject, see FaultKinds
  MaxIncidents    \* how many crashes and restarts a behaviour may have

FaultKinds == {"loss", "writeError", "missingKey", "crash", "resourceError"}

ASSUME WantedAssumption == Wanted \in [Uploaders -> SUBSET Keys]
ASSUME KeysAssumption == IsFiniteSet(Keys)
ASSUME ParrallelismAssumption == Parrallelism \in Nat \ {0}
ASSUME FaultsAssumption == Faults \subseteq FaultKinds
ASSUME MaxIncidentsAssumption == MaxIncidents \in Nat

VARIABLES
  state,      \* JarCacheActor.state
  journal,    \* the state a recovery would give
  mail,       \* messages to the cache
  command,    \* the command whose event is being persisted, or NoCommand
  stored,     \* whether that event is in the journal
  writing,    \* uploads whose file is open
  whole,      \* ids of the files that hold all of their jar
  torn,       \* ids of the files that were left before that
  inbox,      \* messages to each uploader
  slots,      \* JarCacheUploaderActor.slots
  queue,      \* JarCacheUploaderActor.queue
  started,    \* uploads a sender was created for
  uploader,   \* "running" or "stopped"
  incidents   \* crashes and restarts so far

cacheVars    == <<state, journal, command, stored>>
fileVars     == <<writing, whole, torn>>
uploaderVars == <<slots, queue, started, uploader>>
vars == <<cacheVars, mail, fileVars, inbox, uploaderVars, incidents>>

\* An upload is a file to be written: Finished carries the same three values.
Upload == [id : Nat, key : Keys, from : Uploaders]

VerifyRequest(u) == [type |-> "VerifyRequest", from |-> u]
Finished(upload) == [type |-> "Finished", upload |-> upload]
Command ==
  [type : {"VerifyRequest"}, from : Uploaders] \cup [type : {"Finished"}, upload : Upload]
NoCommand == [type |-> "none"]

JarsRequest(uploads) == [type |-> "JarsRequest", requests |-> uploads]
Done == [type |-> "Done"]
Uploads == {r \in SUBSET Upload : IsFiniteSet(r)}
Reply == {Done} \cup [type : {"JarsRequest"}, requests : Uploads]

IsState(s) == \E D \in SUBSET Keys : s \in [nextId : Nat, lookup : [D -> Nat]]

TypeOK ==
  /\ IsState(state) /\ IsState(journal)
  /\ mail \subseteq Command
  /\ command \in Command \cup {NoCommand}
  /\ stored \in BOOLEAN
  /\ writing \subseteq Upload
  /\ whole \subseteq Nat /\ torn \subseteq Nat
  /\ inbox \in [Uploaders -> Seq(Reply)]
  /\ slots \in [Uploaders -> Nat]
  /\ queue \in [Uploaders -> Uploads]
  /\ started \subseteq Upload
  /\ uploader \in [Uploaders -> {"running", "stopped"}]
  /\ incidents \in 0 .. MaxIncidents

EmptyState == [nextId |-> 0, lookup |-> [k \in {} |-> 0]]

\* preStart of each uploader sends its request.
Init ==
  /\ state = EmptyState /\ journal = EmptyState
  /\ mail = {VerifyRequest(u) : u \in Uploaders}
  /\ command = NoCommand
  /\ stored = FALSE
  /\ writing = {} /\ whole = {} /\ torn = {}
  /\ inbox = [u \in Uploaders |-> << >>]
  /\ slots = [u \in Uploaders |-> Parrallelism]
  /\ queue = [u \in Uploaders |-> {}]
  /\ started = {}
  /\ uploader = [u \in Uploaders |-> "running"]
  /\ incidents = 0

-----------------------------------------------------------------------------
(* JarCacheActor                                                            *)

Missing(u) == Wanted[u] \ DOMAIN state.lookup

PutEvent(s, key, id) ==
  [s EXCEPT !.lookup = [k \in DOMAIN s.lookup \cup {key} |->
                          IF k = key THEN id ELSE s.lookup[k]]]

NextId(s, id) == [s EXCEPT !.nextId = id]

\* The event of the command under way, applied to s.  A command that arrives
\* while another is being persisted is stashed, so state is still what it was
\* when the command was accepted.
UpdateState(s) ==
  IF command.type = "VerifyRequest"
  THEN NextId(s, state.nextId + Cardinality(Missing(command.from)))
  ELSE PutEvent(s, command.upload.key, command.upload.id)

\* VerifyRequest and Finished both begin by persisting an event ...
Accept ==
  /\ command = NoCommand
  /\ \E m \in mail : command' = m /\ mail' = mail \ {m}
  /\ stored' = FALSE
  /\ UNCHANGED <<state, journal, fileVars, inbox, uploaderVars, incidents>>

\* ... which the journal stores some time later, ...
Store ==
  /\ command # NoCommand
  /\ ~stored
  /\ journal' = UpdateState(journal)
  /\ stored' = TRUE
  /\ UNCHANGED <<state, command, mail, fileVars, inbox, uploaderVars, incidents>>

\* Persists the event and does not call updateState.
WrongHandling(type) ==
  /\ stored
  /\ command.type = type
  /\ command' = NoCommand
  /\ stored' = FALSE
  /\ UNCHANGED <<state, journal>>

\* ... and go on in the handler of the stored event.
Handling(type) ==
  /\ stored
  /\ command.type = type
  /\ state' = UpdateState(state)
  /\ command' = NoCommand
  /\ stored' = FALSE
  /\ UNCHANGED journal

\* Gives every key the same id.
WrongNumberings(keys, startId) == [keys -> {startId}]

\* missing.zipWithIndex: the order of a Set is arbitrary.
Numberings(keys, startId) == Injection(keys, startId .. startId + Cardinality(keys) - 1)

\* Reports a file as finished when it is opened.
WrongStartWriters ==
  /\ Handling("VerifyRequest")
  /\ \E id \in Numberings(Missing(command.from), state.nextId) :
       LET u       == command.from
           uploads == {[id |-> id[k], key |-> k, from |-> u] : k \in Missing(u)}
           ids     == {w.id : w \in uploads}
       IN  /\ writing' = writing \cup uploads
           /\ whole' = whole \ ids
           /\ torn' = torn \ ids
           /\ inbox' = [inbox EXCEPT ![u] = Append(@, JarsRequest(uploads))]
           /\ mail' = mail \cup {Finished(w) : w \in uploads}
  /\ UNCHANGED <<uploaderVars, incidents>>

\* Opening a file that exists truncates it (FileIO.toPath).
StartWriters ==
  /\ Handling("VerifyRequest")
  /\ \E id \in Numberings(Missing(command.from), state.nextId) :
       LET u       == command.from
           uploads == {[id |-> id[k], key |-> k, from |-> u] : k \in Missing(u)}
           ids     == {w.id : w \in uploads}
       IN  /\ writing' = writing \cup uploads
           /\ whole' = whole \ ids
           /\ torn' = torn \ ids
           /\ inbox' = [inbox EXCEPT ![u] = Append(@, JarsRequest(uploads))]
  /\ UNCHANGED <<mail, uploaderVars, incidents>>

ReportDone ==
  /\ Handling("Finished")
  /\ inbox' = [inbox EXCEPT ![command.upload.from] = Append(@, Done)]
  /\ UNCHANGED <<mail, fileVars, uploaderVars, incidents>>

-----------------------------------------------------------------------------
(* The streams that write the files                                         *)

\* The transfer has delivered the whole jar; the file is flushed and closed,
\* and io.foreach sends Finished.
FileWritten ==
  /\ \E w \in writing \cap started :
       /\ writing' = writing \ {w}
       /\ whole' = whole \cup {w.id}
       /\ mail' = mail \cup {Finished(w)}
  /\ UNCHANGED <<cacheVars, torn, inbox, uploaderVars, incidents>>

\* A failed write, or a failed source, closes the file as well: its IOResult
\* tells of the failure, but the future that carries it succeeds.
FileFailed ==
  /\ "writeError" \in Faults
  /\ \E w \in writing :
       /\ writing' = writing \ {w}
       /\ torn' = torn \cup {w.id}
       /\ mail' = mail \cup {Finished(w)}
  /\ UNCHANGED <<cacheVars, whole, inbox, uploaderVars, incidents>>

-----------------------------------------------------------------------------
(* JarCacheUploaderActor                                                    *)

Running(u, type) ==
  /\ uploader[u] = "running"
  /\ inbox[u] # << >>
  /\ Head(inbox[u]).type = type
  /\ inbox' = [inbox EXCEPT ![u] = Tail(@)]

\* Stops as soon as nothing is left to start.
HastyDoProcess(u, requests, slotsNow) ==
  \E start \in SUBSET requests :
    /\ \/ Cardinality(start) = slotsNow
       \/ Cardinality(start) < slotsNow /\ start = requests
    /\ started' = started \cup start
    /\ queue' = [queue EXCEPT ![u] = requests \ start]
    /\ slots' = [slots EXCEPT ![u] = slotsNow - Cardinality(start)]
    /\ uploader' = IF start = requests
                   THEN [uploader EXCEPT ![u] = "stopped"] ELSE uploader

\* Starts every file at once.
WrongDoProcess(u, requests, slotsNow) ==
  /\ started' = started \cup requests
  /\ queue' = [queue EXCEPT ![u] = {}]
  /\ slots' = [slots EXCEPT ![u] = slotsNow - Cardinality(requests)]
  /\ uploader' = IF slotsNow - Cardinality(requests) = Parrallelism
                 THEN [uploader EXCEPT ![u] = "stopped"] ELSE uploader

\* A set stands for the sequence, whose order is that of a Set of the cache.
DoProcess(u, requests, slotsNow) ==
  \E start \in SUBSET requests :
    /\ \/ Cardinality(start) = slotsNow
       \/ Cardinality(start) < slotsNow /\ start = requests
    /\ started' = started \cup start
    /\ queue' = [queue EXCEPT ![u] = requests \ start]
    /\ slots' = [slots EXCEPT ![u] = slotsNow - Cardinality(start)]
    /\ uploader' = IF start = requests /\ slotsNow - Cardinality(start) = Parrallelism
                   THEN [uploader EXCEPT ![u] = "stopped"] ELSE uploader

UploaderJars(u) ==
  /\ Running(u, "JarsRequest")
  /\ DoProcess(u, Head(inbox[u]).requests, slots[u])
  /\ UNCHANGED <<cacheVars, mail, fileVars, incidents>>

\* Does not give the slot of the finished file back.
WrongUploaderDone(u) ==
  /\ Running(u, "Done")
  /\ DoProcess(u, queue[u], slots[u])
  /\ UNCHANGED <<cacheVars, mail, fileVars, incidents>>

UploaderDone(u) ==
  /\ Running(u, "Done")
  /\ DoProcess(u, queue[u], slots[u] + 1)
  /\ UNCHANGED <<cacheVars, mail, fileVars, incidents>>

\* resources(key) throws in doProcess: the supervisor restarts the actor,
\* whose new instance sends the request again and knows nothing of the
\* uploads of the old one.
UploaderRestarts(u) ==
  /\ "resourceError" \in Faults
  /\ incidents < MaxIncidents
  /\ \/ Running(u, "JarsRequest") /\ slots[u] > 0 /\ Head(inbox[u]).requests # {}
     \/ Running(u, "Done") /\ queue[u] # {}
  /\ mail' = mail \cup {VerifyRequest(u)}
  /\ slots' = [slots EXCEPT ![u] = Parrallelism]
  /\ queue' = [queue EXCEPT ![u] = {}]
  /\ incidents' = incidents + 1
  /\ UNCHANGED <<cacheVars, fileVars, started, uploader>>

-----------------------------------------------------------------------------
(* Faults                                                                   *)

\* Requests and replies cross the network; Finished is sent to self.
LoseMessage ==
  /\ "loss" \in Faults
  /\ \/ \E u \in Uploaders :
          /\ VerifyRequest(u) \in mail
          /\ mail' = mail \ {VerifyRequest(u)}
          /\ UNCHANGED inbox
     \/ \E u \in Uploaders :
          /\ inbox[u] # << >>
          /\ inbox' = [inbox EXCEPT ![u] = Tail(@)]
          /\ UNCHANGED mail
  /\ UNCHANGED <<cacheVars, fileVars, uploaderVars, incidents>>

TearAll ==
  /\ writing' = {}
  /\ torn' = torn \cup {w.id : w \in writing}
  /\ UNCHANGED whole

\* Get of a key that is not cached throws, and the supervisor restarts the
\* actor: it recovers from the journal and keeps its mailbox, its streams are
\* torn down, and any of them may still report its file as finished.
GetMissing ==
  /\ "missingKey" \in Faults
  /\ incidents < MaxIncidents
  /\ command = NoCommand
  /\ Keys \ DOMAIN state.lookup # {}
  /\ state' = journal
  /\ TearAll
  /\ \E reporting \in SUBSET writing : mail' = mail \cup {Finished(w) : w \in reporting}
  /\ incidents' = incidents + 1
  /\ UNCHANGED <<journal, command, stored, inbox, uploaderVars>>

\* Recovers the files' keys and not the next id.
WrongCrash ==
  /\ "crash" \in Faults
  /\ incidents < MaxIncidents
  /\ state' = [journal EXCEPT !.nextId = Cardinality(DOMAIN journal.lookup)]
  /\ command' = NoCommand
  /\ stored' = FALSE
  /\ mail' \in SUBSET {m \in mail : m.type = "VerifyRequest"}
  /\ TearAll
  /\ incidents' = incidents + 1
  /\ UNCHANGED <<journal, inbox, uploaderVars>>

\* The process of the cache dies and is started again.  A request that has
\* not reached its mailbox yet may reach the next one.
Crash ==
  /\ "crash" \in Faults
  /\ incidents < MaxIncidents
  /\ state' = journal
  /\ command' = NoCommand
  /\ stored' = FALSE
  /\ mail' \in SUBSET {m \in mail : m.type = "VerifyRequest"}
  /\ TearAll
  /\ incidents' = incidents + 1
  /\ UNCHANGED <<journal, inbox, uploaderVars>>

-----------------------------------------------------------------------------
CacheStep == Accept \/ Store \/ StartWriters \/ ReportDone

Next ==
  \/ Accept \/ Store \/ StartWriters \/ ReportDone
  \/ FileWritten \/ FileFailed
  \/ \E u \in Uploaders : UploaderJars(u) \/ UploaderDone(u) \/ UploaderRestarts(u)
  \/ LoseMessage \/ GetMissing \/ Crash

Spec == Init /\ [][Next]_vars

\* The dispatcher runs every actor that has mail, the journal stores what it
\* is given, and a transfer both of whose ends live completes its file.
Fairness ==
  /\ WF_vars(CacheStep)
  /\ WF_vars(FileWritten)
  /\ \A u \in Uploaders : WF_vars(UploaderJars(u) \/ UploaderDone(u))

FairSpec == Spec /\ Fairness

-----------------------------------------------------------------------------
(* Properties                                                               *)

Opened == {w.id : w \in writing} \cup whole \cup torn

\* A file is never opened twice, whatever crashes between the reservation of
\* its id in the journal and the creation of the file: nextId is stored
\* before a file is opened under it, and recovered before the next request.
NeverReopened ==
  [][\A w \in writing' \ writing : w.id \notin Opened]_vars

\* The jar a key was cached under stays whole for ever: nothing truncates it.
WholeForever == [][whole \subseteq whole']_vars

\* A cached key names a closed file, which is no other key's file, in memory
\* and in the journal, although both are updated at different times.
FileOfOneKey ==
  \A s \in {state, journal} : \A k \in DOMAIN s.lookup :
    /\ s.lookup[k] \in whole \cup torn
    /\ \A j \in DOMAIN s.lookup : s.lookup[j] = s.lookup[k] => j = k

\* Where no write fails and no actor is restarted, a cached key names a whole
\* jar, crashes and lost messages included.
CachedIsWhole ==
  \A s \in {state, journal} : \A k \in DOMAIN s.lookup : s.lookup[k] \in whole

\* The state in memory is the journal's except between Store and its handler.
StateFollowsJournal ==
  IF stored THEN journal = UpdateState(state) ELSE journal = state

\* What plug relies on when it sees the uploader stop: every key it was given
\* is cached, in the journal and in memory, so a crash does not lose it.
StoppedMeansCached ==
  \A u \in Uploaders : uploader[u] = "stopped" =>
    Wanted[u] \subseteq DOMAIN journal.lookup /\ Wanted[u] \subseteq DOMAIN state.lookup

\* Where nothing is lost, no write fails and nothing is restarted, every
\* uploader stops, and then the cache has whole jars for all of its keys.
UploadsFinish ==
  <>[](incidents = 0 =>
         \A u \in Uploaders :
           /\ uploader[u] = "stopped"
           /\ \A k \in Wanted[u] : k \in DOMAIN state.lookup /\ state.lookup[k] \in whole)

-----------------------------------------------------------------------------
(* The inductive invariant                                                  *)

\* Uploads whose file is closed and that the journal does not know yet.
Reported ==
  {m.upload : m \in {m \in mail \cup {command} : m.type = "Finished"}}

\* An id under which a file was ever opened is below the next id.
FreshIds == \A id \in Opened : id < state.nextId

\* What is reported or cached is closed, ...
ReportedIsClosed ==
  /\ \A w \in Reported : w.id \in whole \cup torn
  /\ \A k \in DOMAIN state.lookup : state.lookup[k] \in whole \cup torn

\* ... and an id stands for one key wherever it occurs.
IdOfOneKey ==
  /\ \A v, w \in writing \cup Reported : v.id = w.id => v.key = w.key
  /\ \A w \in writing \cup Reported : \A k \in DOMAIN state.lookup :
       state.lookup[k] = w.id => k = w.key
  /\ \A j, k \in DOMAIN state.lookup : state.lookup[j] = state.lookup[k] => j = k

Inv ==
  /\ TypeOK
  /\ stored => command # NoCommand
  /\ StateFollowsJournal
  /\ FreshIds
  /\ ReportedIsClosed
  /\ IdOfOneKey

\* Strengthens CachedIsWhole where no file is torn before it is reported.
WholeInv ==
  /\ \A w \in Reported : w.id \in whole
  /\ \A k \in DOMAIN state.lookup : state.lookup[k] \in whole
=============================================================================
