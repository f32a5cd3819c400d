-------------------------- MODULE StreamAppCacheProofs --------------------------
(***************************************************************************)
(* Proofs about StreamAppCache, for any clients, jars and attempts.        *)
(*                                                                         *)
(* The argument: a file is partial while its one writer is at it, or for   *)
(* ever, and a key that was found is never again among the missing.        *)
(***************************************************************************)
EXTENDS StreamAppCache, TLAPS

USE WantedAssumption, NoKeyAssumption, MaxAttemptsAssumption

\* A client has a key from the creation of its file to the answer.
KeyOfWriter ==
  \A c \in Clients :
    IF pc[c] \in {"writing", "done", "ended"} THEN key[c] \in Keys ELSE key[c] = NoKey

\* A partial file has a writer or was given up, a writer has a file of its own,
\* and what a client is about to read Done for is whole.
PartialFiles ==
  /\ \A k \in Keys : file[k] = "partial" =>
       k \in broken \/ \E c \in Clients : pc[c] = "writing" /\ key[c] = k
  /\ \A k \in broken : file[k] = "partial"
  /\ \A c \in Clients : pc[c] = "writing" => file[key[c]] = "partial" /\ key[c] \notin broken
  /\ \A c, d \in Clients : pc[c] = "writing" /\ pc[d] = "writing" /\ key[c] = key[d] => c = d
  /\ \A c \in Clients : pc[c] = "done" => file[key[c]] = "whole"

\* What a client found is there.
Found ==
  \A c \in Clients :
    /\ pc[c] \in {"putting", "writing", "done"} => unchecked[c] = {}
    /\ pc[c] \in {"verifying", "putting", "writing", "done"} =>
         \A k \in Wanted[c] : k \in unchecked[c] \/ k \in missing[c] \/ file[k] # "absent"

\* Nor is a key missing over which the client was turned away.
Rejections ==
  \A c \in Clients, k \in Keys :
    /\ rejected[c][k] =< 1
    /\ rejected[c][k] # 0 => file[k] # "absent" /\ k \notin missing[c]

Inv == TypeOK /\ KeyOfWriter /\ PartialFiles /\ ConfirmedIsWhole /\ Found /\ Rejections

LEMMA InvInit == Init => Inv
  <1> SUFFICES ASSUME Init PROVE Inv
    OBVIOUS
  <1>1. TypeOK
    BY DEF Init, TypeOK, Stages
  <1>2. KeyOfWriter /\ PartialFiles /\ ConfirmedIsWhole /\ Found
    BY DEF Init, KeyOfWriter, PartialFiles, ConfirmedIsWhole, Found
  <1>3. \A c \in Clients, k \in Keys : rejected[c][k] = 0
    BY DEF Init
  <1>4. Rejections
    BY <1>3 DEF Rejections
  <1>5. QED
    BY <1>1, <1>2, <1>4 DEF Inv

\* The files only grow, and no step but a rejection counts one.
LEMMA Grown ==
  ASSUME Inv, NEW c \in Clients, UNCHANGED <<missing, rejected>>,
         \A k \in Keys : file[k] # "absent" => file'[k] # "absent"
  PROVE  Rejections'
  BY DEF Inv, Rejections

LEMMA InvConnect == ASSUME Inv, NEW c \in Clients, Connect(c) PROVE Inv'
  <1> USE DEF Connect, historyVars
  <1>1. TypeOK'
    BY DEF Inv, TypeOK, Stages
  <1>2. KeyOfWriter' /\ PartialFiles' /\ ConfirmedIsWhole'
    BY DEF Inv, TypeOK, KeyOfWriter, PartialFiles, ConfirmedIsWhole
  <1>3. Found'
    BY DEF Inv, TypeOK, Found
  <1>4. QED
    BY <1>1, <1>2, <1>3, Grown DEF Inv

LEMMA InvVerify == ASSUME Inv, NEW c \in Clients, NEW k \in Keys, Verify(c, k) PROVE Inv'
  <1> USE DEF Verify, historyVars
  <1>1. TypeOK'
    BY DEF Inv, TypeOK
  <1>2. KeyOfWriter' /\ PartialFiles' /\ ConfirmedIsWhole'
    BY DEF Inv, KeyOfWriter, PartialFiles, ConfirmedIsWhole
  <1>3. Found'
    <2>1. /\ unchecked'[c] = unchecked[c] \ {k}
          /\ missing'[c] = IF file[k] = "absent" THEN missing[c] \cup {k} ELSE missing[c]
          /\ \A d \in Clients \ {c} : unchecked'[d] = unchecked[d] /\ missing'[d] = missing[d]
          /\ pc[c] = "verifying" /\ UNCHANGED <<pc, file>>
      BY DEF Inv, TypeOK
    <2>2. QED
      BY <2>1 DEF Inv, Found
  <1>4. Rejections'
    <2>1. \A d \in Clients : missing'[d] \subseteq missing[d] \cup {j \in {k} : file[k] = "absent"}
      BY DEF Inv, TypeOK
    <2>2. QED
      BY <2>1 DEF Inv, Rejections
  <1>5. QED
    BY <1>1, <1>2, <1>3, <1>4 DEF Inv

LEMMA InvVerified == ASSUME Inv, NEW c \in Clients, Verified(c) PROVE Inv'
  <1> USE DEF Verified, clientVars, historyVars
  <1>1. TypeOK'
    BY DEF Inv, TypeOK, Stages
  <1>2. KeyOfWriter' /\ PartialFiles' /\ ConfirmedIsWhole'
    BY DEF Inv, TypeOK, KeyOfWriter, PartialFiles, ConfirmedIsWhole
  <1>3. Found'
    BY DEF Inv, TypeOK, Found
  <1>4. QED
    BY <1>1, <1>2, <1>3, Grown DEF Inv

LEMMA InvCreate == ASSUME Inv, NEW c \in Clients, NEW k \in Keys, Create(c, k) PROVE Inv'
  <1> USE DEF Create, historyVars
  <1>1. TypeOK'
    BY DEF Inv, TypeOK, Stages
  <1>2. /\ file[k] = "absent" /\ file'[k] = "partial" /\ key'[c] = k
        /\ pc[c] = "putting" /\ pc'[c] = "writing"
        /\ \A j \in Keys \ {k} : file'[j] = file[j]
        /\ \A d \in Clients \ {c} : key'[d] = key[d] /\ pc'[d] = pc[d]
    BY DEF Inv, TypeOK
  <1>4. KeyOfWriter'
    BY <1>2 DEF Inv, KeyOfWriter
  <1>5. PartialFiles'
    <2>1. k \notin broken /\ \A d \in Clients : pc[d] = "writing" => key[d] # k
      BY <1>2 DEF Inv, PartialFiles
    <2>2. \A j \in Keys : file'[j] = "partial" =>
            j \in broken \/ \E d \in Clients : pc'[d] = "writing" /\ key'[d] = j
      BY <1>2 DEF Inv, PartialFiles
    <2>3. \A j \in broken : file'[j] = "partial"
      BY <1>2, <2>1 DEF Inv, PartialFiles, TypeOK
    <2>4. \A d \in Clients : pc'[d] = "writing" => file'[key'[d]] = "partial" /\ key'[d] \notin broken
      BY <1>2, <2>1 DEF Inv, PartialFiles, KeyOfWriter
    <2>5. \A d, e \in Clients : pc'[d] = "writing" /\ pc'[e] = "writing" /\ key'[d] = key'[e] => d = e
      BY <1>2, <2>1 DEF Inv, PartialFiles
    <2>6. \A d \in Clients : pc'[d] = "done" => file'[key'[d]] = "whole"
      BY <1>2 DEF Inv, PartialFiles, KeyOfWriter
    <2>7. QED
      BY <2>2, <2>3, <2>4, <2>5, <2>6 DEF PartialFiles
  <1>6. ConfirmedIsWhole'
    BY <1>2 DEF Inv, TypeOK, ConfirmedIsWhole
  <1>7. Found'
    BY <1>2 DEF Inv, TypeOK, Found
  <1>8. Rejections'
    BY <1>2, Grown
  <1>9. QED
    BY <1>1, <1>4, <1>5, <1>6, <1>7, <1>8 DEF Inv

LEMMA InvReject == ASSUME Inv, NEW c \in Clients, NEW k \in Keys, Reject(c, k) PROVE Inv'
  <1> USE DEF Reject, Leave
  <1>1. TypeOK'
    BY DEF Inv, TypeOK, Stages
  <1>2. /\ pc[c] = "putting" /\ pc'[c] = "away" /\ key'[c] = NoKey /\ missing'[c] = {}
        /\ rejected'[c][k] = rejected[c][k] + 1
        /\ \A j \in Keys \ {k} : rejected'[c][j] = rejected[c][j]
        /\ \A d \in Clients \ {c} : /\ pc'[d] = pc[d] /\ key'[d] = key[d] /\ missing'[d] = missing[d]
                                    /\ unchecked'[d] = unchecked[d] /\ rejected'[d] = rejected[d]
        /\ k \in missing[c] /\ file[k] # "absent" /\ file' = file
    BY DEF Inv, TypeOK
  <1>3. key' = key
    <2>1. key[c] = NoKey
      BY <1>2 DEF Inv, KeyOfWriter
    <2>2. QED
      BY <2>1 DEF Inv, TypeOK
  <1>4. KeyOfWriter'
    BY <1>2 DEF Inv, KeyOfWriter
  <1>5. PartialFiles' /\ ConfirmedIsWhole'
    BY <1>3 DEF Inv, PartialFiles, ConfirmedIsWhole
  <1>6. Found'
    BY <1>2 DEF Inv, Found
  <1>7. Rejections'
    <2>1. rejected[c][k] = 0 /\ rejected'[c][k] = 1
      BY <1>2 DEF Inv, Rejections
    <2>2. QED
      BY <1>2, <2>1 DEF Inv, Rejections
  <1>8. QED
    BY <1>1, <1>4, <1>5, <1>6, <1>7 DEF Inv

LEMMA InvCopy == ASSUME Inv, NEW c \in Clients, Copy(c) PROVE Inv'
  <1> USE DEF Copy, clientVars, historyVars
  <1>1. key[c] \in Keys
    BY DEF Inv, KeyOfWriter
  <1>2. TypeOK'
    BY <1>1 DEF Inv, TypeOK, Stages
  <1>3. /\ file[key[c]] = "partial" /\ file'[key[c]] = "whole" /\ key[c] \notin broken
        /\ pc[c] = "writing" /\ pc'[c] = "done"
        /\ \A j \in Keys \ {key[c]} : file'[j] = file[j]
        /\ \A d \in Clients \ {c} : pc'[d] = pc[d]
        /\ UNCHANGED <<key, unchecked, missing, broken, outgrown, rejected, confirmed>>
    BY <1>1 DEF Inv, TypeOK, PartialFiles
  <1>4. KeyOfWriter'
    BY <1>3 DEF Inv, KeyOfWriter
  <1>5. PartialFiles'
    <2>1. \A d \in Clients \ {c} : pc[d] = "writing" => key[d] # key[c]
      BY <1>1, <1>3 DEF Inv, PartialFiles
    <2>2. \A j \in Keys : file'[j] = "partial" =>
            j \in broken' \/ \E d \in Clients : pc'[d] = "writing" /\ key'[d] = j
      BY <1>3 DEF Inv, PartialFiles
    <2>3. \A j \in broken' : file'[j] = "partial"
      BY <1>3 DEF Inv, PartialFiles, TypeOK
    <2>4. \A d \in Clients : pc'[d] = "writing" => file'[key'[d]] = "partial" /\ key'[d] \notin broken'
      BY <1>3, <2>1 DEF Inv, PartialFiles, KeyOfWriter
    <2>5. \A d, e \in Clients : pc'[d] = "writing" /\ pc'[e] = "writing" /\ key'[d] = key'[e] => d = e
      BY <1>3, <2>1 DEF Inv, PartialFiles
    <2>6. \A d \in Clients : pc'[d] = "done" => file'[key'[d]] = "whole"
      BY <1>3 DEF Inv, PartialFiles, KeyOfWriter
    <2>7. QED
      BY <2>2, <2>3, <2>4, <2>5, <2>6 DEF PartialFiles
  <1>6. ConfirmedIsWhole'
    BY <1>3 DEF Inv, TypeOK, ConfirmedIsWhole
  <1>7. \A j \in Keys : file[j] # "absent" => file'[j] # "absent"
    BY <1>3
  <1>8. Found'
    BY <1>3, <1>7 DEF Inv, Found
  <1>9. Rejections'
    BY <1>3, <1>7, Grown
  <1>10. QED
    BY <1>2, <1>4, <1>5, <1>6, <1>8, <1>9 DEF Inv

LEMMA InvConfirm == ASSUME Inv, NEW c \in Clients, Confirm(c) PROVE Inv'
  <1> USE DEF Confirm
  <1>1. key[c] \in Keys /\ file[key[c]] = "whole"
    BY DEF Inv, KeyOfWriter, PartialFiles
  <1>2. TypeOK'
    BY <1>1 DEF Inv, TypeOK, Stages
  <1>3. /\ key'[c] = NoKey /\ pc[c] = "done" /\ pc'[c] = "putting"
        /\ \A d \in Clients \ {c} : key'[d] = key[d] /\ pc'[d] = pc[d] /\ missing'[d] = missing[d]
        /\ missing'[c] = missing[c] \ {key[c]}
        /\ UNCHANGED <<file, unchecked, broken, outgrown, rejected>>
        /\ confirmed' = confirmed \cup {key[c]}
    BY DEF Inv, TypeOK
  <1>4. KeyOfWriter'
    BY <1>3 DEF Inv, KeyOfWriter
  <1>5. PartialFiles'
    <2>1. \A d \in Clients : pc'[d] \in {"writing", "done"} => pc'[d] = pc[d] /\ key'[d] = key[d]
      BY <1>3
    <2>2. \A j \in Keys : file'[j] = "partial" =>
            j \in broken' \/ \E d \in Clients : pc'[d] = "writing" /\ key'[d] = j
      BY <1>3 DEF Inv, PartialFiles
    <2>3. QED
      BY <1>3, <2>1, <2>2 DEF Inv, PartialFiles
  <1>6. ConfirmedIsWhole'
    BY <1>1, <1>3 DEF Inv, ConfirmedIsWhole
  <1>7. Found'
    BY <1>1, <1>3 DEF Inv, Found
  <1>8. Rejections'
    <2>1. \A d \in Clients : missing'[d] \subseteq missing[d]
      BY <1>3
    <2>2. QED
      BY <1>3, <2>1 DEF Inv, Rejections
  <1>9. QED
    BY <1>2, <1>4, <1>5, <1>6, <1>7, <1>8 DEF Inv

\* The file of a writer that goes on to something else is given up.
LEMMA GivenUp ==
  ASSUME Inv, NEW c \in Clients, pc[c] = "writing", pc'[c] \notin {"writing", "done"},
         broken' = broken \cup {key[c]}, file' = file,
         \A d \in Clients \ {c} : key'[d] = key[d] /\ pc'[d] = pc[d]
  PROVE  PartialFiles'
  <1>1. key[c] \in Keys /\ file[key[c]] = "partial"
    BY DEF Inv, KeyOfWriter, PartialFiles
  <1>2. \A d \in Clients \ {c} : pc[d] = "writing" => key[d] # key[c]
    BY DEF Inv, PartialFiles
  <1>3. \A j \in Keys : file'[j] = "partial" =>
          j \in broken' \/ \E d \in Clients : pc'[d] = "writing" /\ key'[d] = j
    BY DEF Inv, PartialFiles
  <1>4. \A j \in broken' : file'[j] = "partial"
    BY <1>1 DEF Inv, PartialFiles
  <1>5. \A d \in Clients : pc'[d] = "writing" => file'[key'[d]] = "partial" /\ key'[d] \notin broken'
    BY <1>2 DEF Inv, PartialFiles
  <1>6. \A d, e \in Clients : pc'[d] = "writing" /\ pc'[e] = "writing" /\ key'[d] = key'[e] => d = e
    BY DEF Inv, PartialFiles
  <1>7. \A d \in Clients : pc'[d] = "done" => file'[key'[d]] = "whole"
    BY DEF Inv, PartialFiles
  <1>8. QED
    BY <1>3, <1>4, <1>5, <1>6, <1>7 DEF PartialFiles

\* What the two kinds of a copy that is cut short have in common.
LEMMA CutShort ==
  ASSUME Inv, NEW c \in Clients, CopyCutShort(c)
  PROVE  /\ key[c] \in Keys
         /\ pc' \in [Clients -> Stages] /\ broken' \subseteq Keys
         /\ KeyOfWriter' /\ PartialFiles' /\ Found' /\ Rejections'
  <1> USE DEF CopyCutShort, clientVars
  <1>1. key[c] \in Keys
    BY DEF Inv, KeyOfWriter
  <1>2. /\ pc[c] = "writing" /\ pc'[c] = "ended"
        /\ \A d \in Clients \ {c} : pc'[d] = pc[d]
        /\ UNCHANGED <<file, key, unchecked, missing, rejected>>
        /\ broken' = broken \cup {key[c]}
    BY DEF Inv, TypeOK
  <1>3. pc' \in [Clients -> Stages] /\ broken' \subseteq Keys
    BY <1>1 DEF Inv, TypeOK, Stages
  <1>4. KeyOfWriter'
    BY <1>2 DEF Inv, KeyOfWriter
  <1>5. PartialFiles'
    BY <1>2, GivenUp
  <1>6. Found'
    BY <1>2 DEF Inv, Found
  <1>7. Rejections'
    BY <1>2, Grown
  <1>8. QED
    BY <1>1, <1>3, <1>4, <1>5, <1>6, <1>7

LEMMA InvStreamEnds == ASSUME Inv, NEW c \in Clients, StreamEnds(c) PROVE Inv'
  <1> USE DEF StreamEnds
  <1>1. /\ pc' \in [Clients -> Stages] /\ broken' \subseteq Keys
        /\ KeyOfWriter' /\ PartialFiles' /\ Found' /\ Rejections'
    BY CutShort
  <1>2. TypeOK'
    BY <1>1 DEF CopyCutShort, clientVars, Inv, TypeOK
  <1>3. ConfirmedIsWhole'
    BY DEF CopyCutShort, Inv, ConfirmedIsWhole
  <1>4. QED
    BY <1>1, <1>2, <1>3 DEF Inv

LEMMA InvJarGrows == ASSUME Inv, NEW c \in Clients, JarGrows(c) PROVE Inv'
  <1> USE DEF JarGrows
  <1>1. /\ key[c] \in Keys /\ pc' \in [Clients -> Stages] /\ broken' \subseteq Keys
        /\ KeyOfWriter' /\ PartialFiles' /\ Found' /\ Rejections'
    BY CutShort
  <1>2. TypeOK'
    BY <1>1 DEF CopyCutShort, clientVars, Inv, TypeOK
  <1>3. ConfirmedIsWhole'
    BY DEF CopyCutShort, Inv, ConfirmedIsWhole
  <1>4. QED
    BY <1>1, <1>2, <1>3 DEF Inv

LEMMA InvUploadBreaks == ASSUME Inv, NEW c \in Clients, UploadBreaks(c) PROVE Inv'
  <1> USE DEF UploadBreaks, Leave
  <1>1. key[c] \in Keys
    BY DEF Inv, KeyOfWriter
  <1>2. TypeOK'
    BY <1>1 DEF Inv, TypeOK, Stages
  <1>3. /\ key'[c] = NoKey /\ file' = file
        /\ pc[c] = "writing" /\ pc'[c] = "away" /\ missing'[c] = {}
        /\ \A d \in Clients \ {c} : /\ key'[d] = key[d] /\ pc'[d] = pc[d]
                                    /\ missing'[d] = missing[d] /\ unchecked'[d] = unchecked[d]
        /\ broken' = broken \cup {key[c]}
        /\ UNCHANGED <<rejected, confirmed, outgrown>>
    BY DEF Inv, TypeOK
  <1>4. KeyOfWriter'
    BY <1>3 DEF Inv, KeyOfWriter
  <1>5. PartialFiles'
    BY <1>3, GivenUp
  <1>6. ConfirmedIsWhole'
    BY <1>3 DEF Inv, ConfirmedIsWhole
  <1>7. Found'
    BY <1>3 DEF Inv, Found
  <1>8. Rejections'
    BY <1>3 DEF Inv, Rejections
  <1>9. QED
    BY <1>2, <1>4, <1>5, <1>6, <1>7, <1>8 DEF Inv

LEMMA InvEnd == ASSUME Inv, NEW c \in Clients, End(c) PROVE Inv'
  <1> USE DEF End, Leave, historyVars
  <1>1. TypeOK'
    BY DEF Inv, TypeOK, Stages
  <1>2. /\ key'[c] = NoKey /\ pc[c] # "writing" /\ pc'[c] = "away" /\ missing'[c] = {}
        /\ \A d \in Clients \ {c} : /\ key'[d] = key[d] /\ pc'[d] = pc[d]
                                    /\ missing'[d] = missing[d] /\ unchecked'[d] = unchecked[d]
        /\ UNCHANGED <<file, broken, rejected, confirmed, outgrown>>
    BY DEF Inv, TypeOK
  <1>3. KeyOfWriter'
    BY <1>2 DEF Inv, KeyOfWriter
  <1>4. PartialFiles'
    <2>1. \A d \in Clients : pc'[d] \in {"writing", "done"} => pc'[d] = pc[d] /\ key'[d] = key[d]
      BY <1>2
    <2>2. \A j \in Keys : file'[j] = "partial" =>
            j \in broken' \/ \E d \in Clients : pc'[d] = "writing" /\ key'[d] = j
      BY <1>2 DEF Inv, PartialFiles
    <2>3. QED
      BY <1>2, <2>1, <2>2 DEF Inv, PartialFiles
  <1>5. ConfirmedIsWhole'
    BY <1>2 DEF Inv, ConfirmedIsWhole
  <1>6. Found'
    BY <1>2 DEF Inv, Found
  <1>7. Rejections'
    BY <1>2 DEF Inv, Rejections
  <1>8. QED
    BY <1>1, <1>3, <1>4, <1>5, <1>6, <1>7 DEF Inv

LEMMA InvLoad == ASSUME Inv, NEW c \in Clients, Load(c) PROVE Inv'
  <1> USE DEF Load, clientVars, historyVars
  <1>1. TypeOK'
    BY DEF Inv, TypeOK, Stages
  <1>2. KeyOfWriter' /\ PartialFiles' /\ ConfirmedIsWhole'
    BY DEF Inv, TypeOK, KeyOfWriter, PartialFiles, ConfirmedIsWhole
  <1>3. Found'
    BY DEF Inv, TypeOK, Found
  <1>4. QED
    BY <1>1, <1>2, <1>3, Grown DEF Inv

LEMMA InvCrash == ASSUME Inv, Crash PROVE Inv'
  <1> USE DEF Crash
  <1> DEFINE given == {key[c] : c \in {d \in Clients : pc[d] = "writing"}}
  <1>1. \A k \in Keys : (\E c \in Clients : pc[c] = "writing" /\ key[c] = k) <=> k \in given
    OBVIOUS
  <1>2. given \subseteq Keys
    BY DEF Inv, KeyOfWriter
  <1>3. broken' = broken \cup given /\ file' = file /\ \A c \in Clients : key'[c] = NoKey
    OBVIOUS
  <1>4. \A k \in given : file[k] = "partial"
    BY <1>1, <1>2 DEF Inv, PartialFiles
  <1> HIDE DEF given
  <1>5. TypeOK'
    BY <1>2, <1>3 DEF Inv, TypeOK, Stages
  <1>6. KeyOfWriter'
    BY DEF KeyOfWriter
  <1>7. PartialFiles'
    BY <1>1, <1>3, <1>4 DEF Inv, PartialFiles
  <1>8. ConfirmedIsWhole' /\ Found'
    BY DEF Inv, ConfirmedIsWhole, Found
  <1>9. Rejections'
    BY DEF Inv, Rejections
  <1>10. QED
    BY <1>5, <1>6, <1>7, <1>8, <1>9 DEF Inv

LEMMA InvStep == Inv /\ [Next]_vars => Inv'
  <1> SUFFICES ASSUME Inv, [Next]_vars PROVE Inv'
    OBVIOUS
  <1>1. CASE UNCHANGED vars
    BY <1>1 DEF vars, clientVars, historyVars, Inv, TypeOK, KeyOfWriter, PartialFiles,
                ConfirmedIsWhole, Found, Rejections
  <1>2. CASE Next
    BY <1>2, InvConnect, InvVerify, InvVerified, InvCreate, InvReject, InvCopy, InvConfirm,
       InvStreamEnds, InvJarGrows, InvUploadBreaks, InvEnd, InvLoad, InvCrash DEF Next
  <1>3. QED
    BY <1>1, <1>2

THEOREM Invariance == Spec => []Inv
  <1>1. QED
    BY InvInit, InvStep, PTL DEF Spec

-----------------------------------------------------------------------------
(* The properties                                                           *)

\* Every client, thread and file keeps to its type.
THEOREM TypeCorrect == Spec => []TypeOK
  <1>1. Inv => TypeOK
    BY DEF Inv
  <1>2. QED
    BY <1>1, Invariance, PTL

\* Of any number of clients that want the same jar one at most writes its file.
THEOREM Exclusion == Spec => []OneWriter
  <1>1. Inv => OneWriter
    BY DEF Inv, OneWriter, KeyOfWriter, PartialFiles
  <1>2. QED
    BY <1>1, Invariance, PTL

\* A jar for which a client has read Done is cached whole, and stays whole,
\* although Done is also sent for a file that was cut short; but for a jar that
\* grew while it was sent.
THEOREM Confirmation == Spec => []ConfirmedIsWhole
  <1>1. Inv => ConfirmedIsWhole
    BY DEF Inv
  <1>2. QED
    BY <1>1, Invariance, PTL

\* No client is turned away twice over a jar.
THEOREM Progress == Spec => []RejectedOnce
  <1>1. Inv => RejectedOnce
    BY DEF Inv, Rejections, RejectedOnce
  <1>2. QED
    BY <1>1, Invariance, PTL

\* Code is loaded from whole jars, but for those that are being written or were
\* given up half sent.
THEOREM Loading == Spec => LoadsWhole
  <1>1. ASSUME Inv, [Next]_vars, NEW c \in Clients, pc[c] # "loaded", pc'[c] = "loaded",
               NEW k \in Wanted[c]
        PROVE  \/ file[k] = "whole" \/ k \in broken
               \/ \E d \in Clients : pc[d] = "writing" /\ key[d] = k
    <2>1. Load(c)
      BY <1>1 DEF Inv, TypeOK, Next, Connect, Verify, Verified, Create, Reject, Leave, Copy, Confirm,
                  CopyCutShort, StreamEnds, JarGrows, UploadBreaks, End, Load, Crash, vars
    <2>2. file[k] # "absent"
      BY <1>1, <2>1 DEF Load, Inv, Found
    <2>3. k \in Keys /\ file[k] \in {"absent", "partial", "whole"}
      BY <1>1 DEF Inv, TypeOK
    <2>4. QED
      BY <1>1, <2>2, <2>3 DEF Inv, PartialFiles
  <1>2. Inv /\ [Next]_vars =>
          [\A c \in Clients : pc[c] # "loaded" /\ pc'[c] = "loaded" =>
             \A k \in Wanted[c] :
               \/ file[k] = "whole" \/ k \in broken
               \/ \E d \in Clients : pc[d] = "writing" /\ key[d] = k]_vars
    BY <1>1
  <1>3. QED
    BY <1>2, Invariance, PTL DEF Spec, LoadsWhole
=============================================================================
