----------------------------- MODULE LevelDBTable -----------------------------
(***************************************************************************)
(* LevelDBTable: rows under ids that the table hands out.  The last id is  *)
(* held in memory by the KeyProvider and written under the key that is all *)
(* zeros (metaKey), from where it is read when the table is opened.        *)
(*                                                                         *)
(* An insert is two writes: the id, under the lock of the KeyProvider, and *)
(* the row, outside it.  LevelDB appends both to its log.  Neither is      *)
(* synced unless the caller of insert asks for it, so that a loss of power *)
(* may take back the last writes, but never one and leave a later one.     *)
(*                                                                         *)
(* A definition named Wrong... is the definition after it with a mistake   *)
(* in it, and no behaviour uses it: each shows a property can fail.        *)
(***************************************************************************)
EXTENDS Naturals, Sequences

CONSTANTS
  Callers,      \* threads that insert
  Data,         \* what they insert
  Missing,      \* no row, or no insert under way
  KeyCount,     \* how many keys the size of the key allows
  Faults,       \* the faults the environment may inject, see FaultKinds
  MaxPuts,      \* how many writes the log may hold
  MaxRestarts   \* how often a behaviour opens the table again

FaultKinds == {"putFails", "restart", "powerLoss"}

ASSUME MissingAssumption == Missing \notin Data
ASSUME KeyCountAssumption == KeyCount \in Nat \ {0}
ASSUME FaultsAssumption == Faults \subseteq FaultKinds
ASSUME MaxPutsAssumption == MaxPuts \in Nat
ASSUME MaxRestartsAssumption == MaxRestarts \in Nat

VARIABLES
  stores,     \* what the database held after each write in its log
  durable,    \* how many of these a loss of power cannot take back
  id,         \* KeyProvider.id
  inserting,  \* the insert each caller is in, between its two writes
  promised,   \* inserts that have returned, and that power loss has not excused
  wrapped,    \* whether an id has wrapped around to zero
  restarts    \* how often the table was opened again

vars == <<stores, durable, id, inserting, promised, wrapped, restarts>>

Keys == 0 .. KeyCount - 1
MetaKey == 0
RowKeys == Keys \ {MetaKey}

\* What is under MetaKey, read as an id, and the data under every key.
Store  == [last : Keys, rows : [Keys -> Data \cup {Missing}]]
Insert == [id : Keys, data : Data, sync : BOOLEAN]

TypeOK ==
  /\ stores \in Seq(Store) /\ stores # << >>
  /\ durable \in 1 .. Len(stores)
  /\ id \in Keys
  /\ inserting \in [Callers -> Insert \cup {Missing}]
  /\ promised \subseteq Insert
  /\ wrapped \in BOOLEAN
  /\ restarts \in 0 .. MaxRestarts

\* What the database holds now.
store == stores[Len(stores)]

\* A new table: nothing is under MetaKey, which is read as zero.
Init ==
  /\ stores = <<[last |-> 0, rows |-> [k \in Keys |-> Missing]]>>
  /\ durable = 1
  /\ id = 0
  /\ inserting = [c \in Callers |-> Missing]
  /\ promised = {}
  /\ wrapped = FALSE
  /\ restarts = 0

-----------------------------------------------------------------------------
(* insert                                                                   *)

\* Does not wrap around.
WrongNextId == id + 1

\* KeyProvider.next: the id is a number of the size of the key.
NextId == (id + 1) % KeyCount

\* db.put(metaKey, id)
WithLast(n) == [last |-> n, rows |-> [store.rows EXCEPT ![MetaKey] = Missing]]

\* db.put(key, data).  Under MetaKey the data will be read as some id.
WithRow(k, d, n) ==
  [last |-> IF k = MetaKey THEN n ELSE store.last, rows |-> [store.rows EXCEPT ![k] = d]]

\* Leaves the id under MetaKey as it was.
WrongAllocate(c, d, sync) ==
  /\ inserting[c] = Missing
  /\ Len(stores) < MaxPuts
  /\ id' = NextId
  /\ stores' = Append(stores, store)
  /\ inserting' = [inserting EXCEPT ![c] = [id |-> NextId, data |-> d, sync |-> sync]]
  /\ wrapped' = (wrapped \/ NextId = 0)
  /\ UNCHANGED <<durable, promised, restarts>>

\* Gives the last id once more.
WrongAllocateAgain(c, d, sync) ==
  /\ inserting[c] = Missing
  /\ Len(stores) < MaxPuts
  /\ id' = id
  /\ stores' = Append(stores, WithLast(NextId))
  /\ inserting' = [inserting EXCEPT ![c] = [id |-> NextId, data |-> d, sync |-> sync]]
  /\ wrapped' = (wrapped \/ NextId = 0)
  /\ UNCHANGED <<durable, promised, restarts>>

\* The synchronized block: the next id, written under MetaKey.
Allocate(c, d, sync) ==
  /\ inserting[c] = Missing
  /\ Len(stores) < MaxPuts
  /\ id' = NextId
  /\ stores' = Append(stores, WithLast(NextId))
  /\ inserting' = [inserting EXCEPT ![c] = [id |-> NextId, data |-> d, sync |-> sync]]
  /\ wrapped' = (wrapped \/ NextId = 0)
  /\ UNCHANGED <<durable, promised, restarts>>

\* That write fails: insert throws, and the id in memory has advanced.
AllocateFails ==
  /\ "putFails" \in Faults
  /\ id' = NextId
  /\ wrapped' = (wrapped \/ NextId = 0)
  /\ UNCHANGED <<stores, durable, inserting, promised, restarts>>

\* The row is written with the caller's options, and insert returns.
PutRow(c) ==
  /\ inserting[c] # Missing
  /\ Len(stores) < MaxPuts
  /\ \E n \in Keys :
       stores' = Append(stores, WithRow(inserting[c].id, inserting[c].data, n))
  /\ durable' = IF inserting[c].sync THEN Len(stores) + 1 ELSE durable
  /\ promised' = promised \cup {inserting[c]}
  /\ inserting' = [inserting EXCEPT ![c] = Missing]
  /\ UNCHANGED <<id, wrapped, restarts>>

\* That write fails, and insert throws.
PutRowFails(c) ==
  /\ "putFails" \in Faults
  /\ inserting[c] # Missing
  /\ inserting' = [inserting EXCEPT ![c] = Missing]
  /\ UNCHANGED <<stores, durable, id, promised, wrapped, restarts>>

-----------------------------------------------------------------------------
(* Opening the table again                                                  *)

\* Reads nothing under MetaKey.
WrongOpen(s) ==
  /\ restarts < MaxRestarts
  /\ restarts' = restarts + 1
  /\ id' = 0
  /\ inserting' = [c \in Callers |-> Missing]
  /\ UNCHANGED wrapped

\* The constructor on the database s: db.get(metaKey).
Open(s) ==
  /\ restarts < MaxRestarts
  /\ restarts' = restarts + 1
  /\ id' = s.last
  /\ inserting' = [c \in Callers |-> Missing]
  /\ UNCHANGED wrapped

\* The process ends, anywhere, and what it has written is in the system's hands.
Restart ==
  /\ "restart" \in Faults
  /\ Open(store)
  /\ UNCHANGED <<stores, durable, promised>>

\* The machine stops.  Some of the writes that were not synced are lost, from
\* the last one back.
PowerLoss ==
  /\ "powerLoss" \in Faults
  /\ \E n \in durable .. Len(stores) :
       /\ stores' = SubSeq(stores, 1, n)
       /\ durable' = n
       /\ Open(stores[n])
  /\ promised' = {p \in promised : p.sync}

-----------------------------------------------------------------------------
Next ==
  \/ \E c \in Callers :
       \/ \E d \in Data, sync \in BOOLEAN : Allocate(c, d, sync)
       \/ PutRow(c)
       \/ PutRowFails(c)
  \/ AllocateFails \/ Restart \/ PowerLoss

Spec == Init /\ [][Next]_vars

-----------------------------------------------------------------------------
(* Properties, up to the first id that wraps around                         *)

\* An insert that has returned stays: its row holds what was inserted, however
\* many callers are between their two writes, whatever fails, and over every
\* restart.  Loss of power excuses inserts that were not synced, no others.
AckedIsStored ==
  ~wrapped => \A p \in promised : store.rows[p.id] = p.data

\* No row is written over, not even one that nobody was told of: after a loss
\* of power the id of a row that has survived is not handed out again, because
\* the id was written before the row.  A row may only be lost, with the end of
\* the log.
RowsKept ==
  [][~wrapped' =>
       \A k \in RowKeys : store.rows[k] # Missing =>
         \/ store'.rows[k] = store.rows[k]
         \/ store'.rows[k] = Missing /\ Len(stores') < Len(stores)]_vars
=============================================================================
