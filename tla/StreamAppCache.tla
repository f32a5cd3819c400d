---------------------------- MODULE StreamAppCache ----------------------------
(***************************************************************************)
(* The jar cache of the stream app: files and nothing else.  A client asks *)
(* which of its jars are not there, sends those one after the other and    *)
(* has its code run.  Every client has a thread of its own, and all that   *)
(* keeps two of them from writing the same file is that a file is created  *)
(* only once.  An upload that is broken off leaves its file behind, and    *)
(* nothing compares what was copied with what was announced: Done is sent  *)
(* for half a jar as well, if nothing more comes.                          *)
(*                                                                         *)
(* A definition named Wrong... is the definition after it with a mistake   *)
(* in it, and no behaviour uses it: each shows a property can fail.        *)
(***************************************************************************)
EXTENDS Naturals, FiniteSets

CONSTANTS
  Clients,
  Keys,         \* JarKeys
  Wanted,       \* the jars of each client's code
  NoKey,        \* no upload under way
  Faults,       \* the faults the environment may inject, see FaultKinds
  MaxAttempts   \* how many times a client connects

FaultKinds == {"uploadBreaks", "streamEnds", "jarGrows", "crash"}

ASSUME WantedAssumption == Wanted \in [Clients -> SUBSET Keys]
ASSUME NoKeyAssumption == NoKey \notin Keys
ASSUME FaultsAssumption == Faults \subseteq FaultKinds
ASSUME MaxAttemptsAssumption == MaxAttempts \in Nat

VARIABLES
  file,       \* what is in the cache directory under each key
  pc,         \* where each client and its thread are
  unchecked,  \* the keys of its VerifyCacheRequest the thread has not looked up
  missing,    \* the keys found missing and not yet confirmed by Done
  key,        \* the key each client is putting
  attempts,   \* how often each client has connected
  confirmed,  \* keys for which some client has read Done
  broken,     \* keys whose file was given up before it was whole
  outgrown,   \* keys of which a client's jar grew while it was sent
  rejected    \* how often each client was turned away over each key

clientVars  == <<unchecked, missing, key, attempts>>
historyVars == <<confirmed, broken, outgrown, rejected>>
vars == <<file, pc, clientVars, historyVars>>

\* "done" until the client has read Done; "ended" when the thread will find
\* nothing more that it can read.
Stages == {"away", "verifying", "putting", "writing", "done", "ended", "loaded"}

TypeOK ==
  /\ file \in [Keys -> {"absent", "partial", "whole"}]
  /\ pc \in [Clients -> Stages]
  /\ unchecked \in [Clients -> SUBSET Keys]
  /\ missing \in [Clients -> SUBSET Keys]
  /\ key \in [Clients -> Keys \cup {NoKey}]
  /\ attempts \in [Clients -> 0 .. MaxAttempts]
  /\ confirmed \subseteq Keys /\ broken \subseteq Keys /\ outgrown \subseteq Keys
  /\ rejected \in [Clients -> [Keys -> Nat]]

\* The cache directory is as an earlier process left it.
Init ==
  /\ file \in [Keys -> {"absent", "partial", "whole"}]
  /\ pc = [c \in Clients |-> "away"]
  /\ unchecked = [c \in Clients |-> {}]
  /\ missing = [c \in Clients |-> {}]
  /\ key = [c \in Clients |-> NoKey]
  /\ attempts = [c \in Clients |-> 0]
  /\ confirmed = {} /\ broken = {k \in Keys : file[k] = "partial"} /\ outgrown = {}
  /\ rejected = [c \in Clients |-> [k \in Keys |-> 0]]

-----------------------------------------------------------------------------
(* Verifying                                                                *)

\* A client connects and sends a VerifyCacheRequest, again after a failure.
Connect(c) ==
  /\ pc[c] = "away" /\ attempts[c] < MaxAttempts
  /\ attempts' = [attempts EXCEPT ![c] = @ + 1]
  /\ pc' = [pc EXCEPT ![c] = "verifying"]
  /\ unchecked' = [unchecked EXCEPT ![c] = Wanted[c]]
  /\ UNCHANGED <<file, missing, key, historyVars>>

\* Takes a file for missing that is being written.
WrongVerify(c, k) ==
  /\ pc[c] = "verifying" /\ k \in unchecked[c]
  /\ unchecked' = [unchecked EXCEPT ![c] = @ \ {k}]
  /\ missing' = IF file[k] = "whole" THEN missing
                                     ELSE [missing EXCEPT ![c] = @ \cup {k}]
  /\ UNCHANGED <<file, pc, key, attempts, historyVars>>

\* cache.get(k).exists(), one key after the other.
Verify(c, k) ==
  /\ pc[c] = "verifying" /\ k \in unchecked[c]
  /\ unchecked' = [unchecked EXCEPT ![c] = @ \ {k}]
  /\ missing' = IF file[k] = "absent" THEN [missing EXCEPT ![c] = @ \cup {k}]
                                      ELSE missing
  /\ UNCHANGED <<file, pc, key, attempts, historyVars>>

\* The VerifyCacheResponse.
Verified(c) ==
  /\ pc[c] = "verifying" /\ unchecked[c] = {}
  /\ pc' = [pc EXCEPT ![c] = "putting"]
  /\ UNCHANGED <<file, clientVars, historyVars>>

-----------------------------------------------------------------------------
(* Putting                                                                  *)

\* Does not care whether the file was there.
WrongCreate(c, k) ==
  /\ pc[c] = "putting" /\ k \in missing[c]
  /\ file' = [file EXCEPT ![k] = "partial"]
  /\ pc' = [pc EXCEPT ![c] = "writing"]
  /\ key' = [key EXCEPT ![c] = k]
  /\ UNCHANGED <<unchecked, missing, attempts, historyVars>>

\* PutCacheRequest: createNewFile succeeds, and the file is opened.
Create(c, k) ==
  /\ pc[c] = "putting" /\ k \in missing[c]
  /\ file[k] = "absent"
  /\ file' = [file EXCEPT ![k] = "partial"]
  /\ pc' = [pc EXCEPT ![c] = "writing"]
  /\ key' = [key EXCEPT ![c] = k]
  /\ UNCHANGED <<unchecked, missing, attempts, historyVars>>

\* The connection of c is closed, from the server or from the client.
Leave(c) ==
  /\ pc' = [pc EXCEPT ![c] = "away"]
  /\ unchecked' = [unchecked EXCEPT ![c] = {}]
  /\ missing' = [missing EXCEPT ![c] = {}]
  /\ key' = [key EXCEPT ![c] = NoKey]
  /\ UNCHANGED attempts

\* createNewFile fails, and so does require: the thread ends.
Reject(c, k) ==
  /\ pc[c] = "putting" /\ k \in missing[c]
  /\ file[k] # "absent"
  /\ rejected' = [rejected EXCEPT ![c][k] = @ + 1]
  /\ Leave(c)
  /\ UNCHANGED <<file, confirmed, broken, outgrown>>

\* Tells the client Done before the bytes are in the file.
WrongCopy(c) ==
  /\ pc[c] = "writing"
  /\ pc' = [pc EXCEPT ![c] = "done"]
  /\ UNCHANGED <<file, clientVars, historyVars>>

\* All bytes are copied and the file is closed; the client is sent Done.
Copy(c) ==
  /\ pc[c] = "writing"
  /\ file' = [file EXCEPT ![key[c]] = "whole"]
  /\ pc' = [pc EXCEPT ![c] = "done"]
  /\ UNCHANGED <<clientVars, historyVars>>

\* The client reads Done and goes on to its next jar.
Confirm(c) ==
  /\ pc[c] = "done"
  /\ pc' = [pc EXCEPT ![c] = "putting"]
  /\ missing' = [missing EXCEPT ![c] = @ \ {key[c]}]
  /\ key' = [key EXCEPT ![c] = NoKey]
  /\ confirmed' = confirmed \cup {key[c]}
  /\ UNCHANGED <<file, unchecked, attempts, broken, outgrown, rejected>>

\* The copy returns as if all bytes had been copied, the file is closed as it
\* is, and Done is sent.
CopyCutShort(c) ==
  /\ pc[c] = "writing"
  /\ broken' = broken \cup {key[c]}
  /\ pc' = [pc EXCEPT ![c] = "ended"]
  /\ UNCHANGED <<file, clientVars, rejected>>

\* The client closes its connection, or dies, before it has sent all.  It closes
\* both directions at once, so that nobody reads Done.
StreamEnds(c) ==
  /\ "streamEnds" \in Faults
  /\ CopyCutShort(c)
  /\ UNCHANGED <<confirmed, outgrown>>

\* The client's jar has grown since its length was announced: the client sends
\* more than that, and may read Done, but what is left over will be taken for
\* its next request.
JarGrows(c) ==
  /\ "jarGrows" \in Faults
  /\ CopyCutShort(c)
  /\ outgrown' = outgrown \cup {key[c]}
  /\ confirmed' \in {confirmed, confirmed \cup {key[c]}}

\* The copy throws, for the connection is reset or the disk full: the file
\* stays as it is, and the thread ends.
UploadBreaks(c) ==
  /\ "uploadBreaks" \in Faults
  /\ pc[c] = "writing"
  /\ broken' = broken \cup {key[c]}
  /\ Leave(c)
  /\ UNCHANGED <<file, confirmed, outgrown, rejected>>

\* The thread meets the end of the stream, or what it cannot read, where it
\* expects a request; or the client is gone when it is answered.
End(c) ==
  /\ \/ pc[c] = "ended"
     \/ "streamEnds" \in Faults /\ pc[c] \in {"verifying", "putting", "done"}
  /\ Leave(c)
  /\ UNCHANGED <<file, historyVars>>

\* Loads while jars are missing.
WrongLoad(c) ==
  /\ pc[c] = "putting"
  /\ pc' = [pc EXCEPT ![c] = "loaded"]
  /\ UNCHANGED <<file, clientVars, historyVars>>

\* RunRequest: the class is loaded from the files of the client's jars.
Load(c) ==
  /\ pc[c] = "putting" /\ missing[c] = {}
  /\ pc' = [pc EXCEPT ![c] = "loaded"]
  /\ UNCHANGED <<file, clientVars, historyVars>>

\* Gives up uploads that were not under way.
WrongCrash ==
  /\ "crash" \in Faults
  /\ broken' = broken \cup {key[c] : c \in Clients}
  /\ pc' = [c \in Clients |-> IF pc[c] = "loaded" THEN "loaded" ELSE "away"]
  /\ unchecked' = [c \in Clients |-> {}]
  /\ missing' = [c \in Clients |-> {}]
  /\ key' = [c \in Clients |-> NoKey]
  /\ UNCHANGED <<file, attempts, confirmed, outgrown, rejected>>

\* The process dies, and with it every connection.
Crash ==
  /\ "crash" \in Faults
  /\ broken' = broken \cup {key[c] : c \in {d \in Clients : pc[d] = "writing"}}
  /\ pc' = [c \in Clients |-> IF pc[c] = "loaded" THEN "loaded" ELSE "away"]
  /\ unchecked' = [c \in Clients |-> {}]
  /\ missing' = [c \in Clients |-> {}]
  /\ key' = [c \in Clients |-> NoKey]
  /\ UNCHANGED <<file, attempts, confirmed, outgrown, rejected>>

Next ==
  \/ \E c \in Clients, k \in Keys : Verify(c, k) \/ Create(c, k) \/ Reject(c, k)
  \/ \E c \in Clients :
       \/ Connect(c) \/ Verified(c) \/ Copy(c) \/ Confirm(c) \/ Load(c)
       \/ StreamEnds(c) \/ JarGrows(c) \/ UploadBreaks(c) \/ End(c)
  \/ Crash

Spec == Init /\ [][Next]_vars

-----------------------------------------------------------------------------
(* Properties                                                               *)

\* No two threads write the same file, and the file a thread writes is the one
\* it created.
OneWriter ==
  \A c, d \in Clients :
    pc[c] = "writing" => /\ file[key[c]] = "partial" /\ key[c] \notin broken
                         /\ pc[d] = "writing" /\ key[d] = key[c] => c = d

\* A jar for which a client has read Done is in the cache whole, and stays so
\* through other uploads and crashes: although Done is also sent for what was
\* cut short, it then finds nobody to read it, unless the jar grew on the way.
ConfirmedIsWhole == \A k \in confirmed : file[k] = "whole" \/ k \in outgrown

\* A client loads its code from whole jars, except for those that another is
\* still sending or that were given up half sent: these it cannot tell from
\* whole ones.
LoadsWhole ==
  [][\A c \in Clients : pc[c] # "loaded" /\ pc'[c] = "loaded" =>
       \A k \in Wanted[c] :
         \/ file[k] = "whole" \/ k \in broken
         \/ \E d \in Clients : pc[d] = "writing" /\ key[d] = k]_vars

\* A client that tries again is not turned away twice over the same jar: who
\* races with others for its jars gets through, after one attempt per jar.
RejectedOnce == \A c \in Clients, k \in Keys : rejected[c][k] =< 1
=============================================================================
