-------------------------- MODULE LevelDBTableProofs --------------------------
(***************************************************************************)
(* Proofs about LevelDBTable, for any callers, data, size of key and       *)
(* number of restarts.                                                     *)
(*                                                                         *)
(* The argument: along the log the last id only grows and rows only come,  *)
(* and no row is above the last id that was written before it.  So         *)
(* wherever a loss of power cuts the log, the id the table opens with is   *)
(* above every row that is left.                                           *)
(***************************************************************************)
EXTENDS LevelDBTable, TLAPS

USE MissingAssumption, KeyCountAssumption, MaxRestartsAssumption

\* Along the log the last id grows, and a row that is there stays as it is.
LogGrows ==
  \A i, j \in 1 .. Len(stores) : i =< j =>
    /\ stores[i].last =< stores[j].last
    /\ \A k \in RowKeys :
         stores[i].rows[k] # Missing => stores[j].rows[k] = stores[i].rows[k]

\* No row is above the last id that was in the log with it.
RowsBelow ==
  \A i \in 1 .. Len(stores), k \in RowKeys :
    stores[i].rows[k] # Missing => k =< stores[i].last

\* The id of an insert under way is its own, was written, and has no row.
IdsInUse ==
  /\ store.last =< id
  /\ \A c \in Callers : inserting[c] # Missing =>
       /\ inserting[c].id \in RowKeys
       /\ inserting[c].id =< store.last
       /\ store.rows[inserting[c].id] = Missing
  /\ \A c, d \in Callers :
       inserting[c] # Missing /\ inserting[d] # Missing /\ inserting[c].id = inserting[d].id
         => c = d

\* What was promised is stored, and what was synced is so in all that a loss of
\* power may leave.
Kept ==
  \A p \in promised :
    /\ p.id \in RowKeys
    /\ store.rows[p.id] = p.data
    /\ p.sync => \A i \in durable .. Len(stores) : stores[i].rows[p.id] = p.data

Safe == ~wrapped => LogGrows /\ RowsBelow /\ IdsInUse /\ Kept

Inv == TypeOK /\ Safe

\* The next id is an id, and the one after the last one unless it is zero.
LEMMA NextIdIs ==
  ASSUME TypeOK
  PROVE  NextId \in Keys /\ (NextId = 0 \/ NextId = id + 1)
  BY DEF TypeOK, NextId, Keys

LEMMA StoreTyped == ASSUME TypeOK PROVE store \in Store
  BY DEF TypeOK, store

-----------------------------------------------------------------------------
(* The log                                                                  *)

\* One more write: what was in the log stays, and the new state is the current.
LEMMA Appended ==
  ASSUME TypeOK, NEW s \in Store, stores' = Append(stores, s)
  PROVE  /\ stores' \in Seq(Store) /\ stores' # << >>
         /\ Len(stores') = Len(stores) + 1
         /\ \A i \in 1 .. Len(stores) : stores'[i] = stores[i]
         /\ stores'[Len(stores')] = s
         /\ store' = s
  BY DEF TypeOK, store

\* A write that lowers no last id and changes no row keeps the log growing, and
\* its rows below the last id.
LEMMA GrowsByAppend ==
  ASSUME TypeOK, LogGrows, RowsBelow, NEW s \in Store, stores' = Append(stores, s),
         store.last =< s.last,
         \A k \in RowKeys : store.rows[k] # Missing => s.rows[k] = store.rows[k],
         \A k \in RowKeys : s.rows[k] # Missing => k =< s.last
  PROVE  LogGrows' /\ RowsBelow'
  <1> DEFINE L == Len(stores)
  <1>1. /\ L \in Nat \ {0} /\ Len(stores') = L + 1 /\ store = stores[L]
        /\ \A i \in 1 .. L : stores'[i] = stores[i] /\ stores[i] \in Store
        /\ stores'[L + 1] = s
    BY Appended DEF TypeOK, store
  <1>2. ASSUME NEW i \in 1 .. L + 1, NEW j \in 1 .. L + 1, i =< j
        PROVE  /\ stores'[i].last =< stores'[j].last
               /\ \A k \in RowKeys :
                    stores'[i].rows[k] # Missing => stores'[j].rows[k] = stores'[i].rows[k]
    <2>1. CASE j \in 1 .. L
      <3>1. i \in 1 .. L
        BY <1>1, <1>2, <2>1
      <3>2. QED
        BY <1>1, <1>2, <2>1, <3>1 DEF LogGrows
    <2>2. CASE i = L + 1
      <3>1. j = L + 1
        BY <1>1, <1>2, <2>2
      <3>2. s.last \in Nat
        BY DEF Store, Keys
      <3>3. QED
        BY <1>1, <2>2, <3>1, <3>2
    <2>3. CASE i \in 1 .. L /\ j = L + 1
      <3>1. /\ stores[i].last =< store.last
            /\ \A k \in RowKeys : stores[i].rows[k] # Missing => store.rows[k] = stores[i].rows[k]
        BY <1>1, <2>3 DEF LogGrows
      <3>2. stores[i].last \in Nat /\ store.last \in Nat /\ s.last \in Nat
        BY <1>1, <2>3, StoreTyped DEF Store, Keys
      <3>3. QED
        BY <1>1, <2>3, <3>1, <3>2
    <2>4. QED
      BY <1>1, <2>1, <2>2, <2>3
  <1>3. LogGrows'
    BY <1>1, <1>2 DEF LogGrows
  <1>4. ASSUME NEW i \in 1 .. L + 1, NEW k \in RowKeys, stores'[i].rows[k] # Missing
        PROVE  k =< stores'[i].last
    <2>1. CASE i \in 1 .. L
      BY <1>1, <1>4, <2>1 DEF RowsBelow
    <2>2. CASE i = L + 1
      BY <1>1, <1>4, <2>2
    <2>3. QED
      BY <1>1, <2>1, <2>2
  <1>5. RowsBelow'
    BY <1>1, <1>4 DEF RowsBelow
  <1>6. QED
    BY <1>3, <1>5

\* Nothing of the log changes where the log does not.
LEMMA LogUnchanged ==
  ASSUME UNCHANGED stores
  PROVE  /\ store' = store
         /\ LogGrows' <=> LogGrows
         /\ RowsBelow' <=> RowsBelow
  BY DEF store, LogGrows, RowsBelow

-----------------------------------------------------------------------------
(* The steps                                                                *)

LEMMA InvInit == Init => Inv
  <1> SUFFICES ASSUME Init PROVE Inv
    OBVIOUS
  <1> DEFINE new == [last |-> 0, rows |-> [k \in Keys |-> Missing]]
  <1>1. stores = <<new>> /\ new \in Store /\ 0 \in Keys
    BY DEF Init, Store, Keys
  <1>2. TypeOK
    <2>1. ASSUME NEW s \in Store PROVE <<s>> \in Seq(Store) /\ <<s>> # << >> /\ Len(<<s>>) = 1
      OBVIOUS
    <2>2. stores \in Seq(Store) /\ stores # << >> /\ Len(stores) = 1
      BY <1>1, <2>1
    <2>3. inserting \in [Callers -> Insert \cup {Missing}]
      BY DEF Init
    <2>4. durable \in 1 .. Len(stores) /\ restarts \in 0 .. MaxRestarts
      BY <2>2 DEF Init
    <2>5. id \in Keys /\ promised \subseteq Insert /\ wrapped \in BOOLEAN
      BY <1>1 DEF Init
    <2>6. QED
      BY <2>2, <2>3, <2>4, <2>5 DEF TypeOK
  <1>3. \A i \in 1 .. Len(stores) : stores[i] = new
    BY <1>1
  <1>4. LogGrows /\ RowsBelow
    BY <1>3 DEF LogGrows, RowsBelow, RowKeys
  <1>5. IdsInUse /\ Kept
    BY <1>1 DEF Init, IdsInUse, Kept, store
  <1>6. QED
    BY <1>2, <1>4, <1>5 DEF Inv, Safe

LEMMA InvAllocate ==
  ASSUME Inv, NEW c \in Callers, NEW d \in Data, NEW sync \in BOOLEAN, Allocate(c, d, sync)
  PROVE  Inv'
  <1> DEFINE s == WithLast(NextId)
             ins == [id |-> NextId, data |-> d, sync |-> sync]
  <1> USE DEF Inv
  <1>1. NextId \in Keys /\ (NextId = 0 \/ NextId = id + 1)
    BY NextIdIs
  <1>2. store \in Store
    BY StoreTyped
  <1>3. s \in Store /\ stores' = Append(stores, s)
    BY <1>1, <1>2 DEF Allocate, WithLast, Store
  <1>4. /\ s.last = NextId
        /\ \A k \in RowKeys : s.rows[k] = store.rows[k]
    BY <1>2 DEF WithLast, Store, RowKeys
  <1>5. ins \in Insert /\ inserting' = [inserting EXCEPT ![c] = ins]
    BY <1>1 DEF Allocate, Insert
  <1> HIDE DEF s, ins
  <1>6. /\ stores' \in Seq(Store) /\ stores' # << >>
        /\ Len(stores') = Len(stores) + 1
        /\ \A i \in 1 .. Len(stores) : stores'[i] = stores[i]
        /\ stores'[Len(stores')] = s
        /\ store' = s
    BY <1>3, Appended
  <1>7. TypeOK'
    BY <1>1, <1>5, <1>6 DEF Allocate, TypeOK
  <1>8. ASSUME ~wrapped' PROVE LogGrows' /\ RowsBelow' /\ IdsInUse' /\ Kept'
    <2>1. ~wrapped /\ NextId = id + 1 /\ id' = id + 1 /\ ins.id = id + 1 /\ id + 1 \in RowKeys
      BY <1>1, <1>8 DEF Allocate, TypeOK, ins, RowKeys, MetaKey
    <2>2. LogGrows /\ RowsBelow /\ IdsInUse /\ Kept
      BY <2>1 DEF Safe
    <2>3. store.last =< id /\ store.last \in Nat /\ id \in Nat /\ s.last = id + 1
      BY <1>2, <1>4, <2>1, <2>2 DEF IdsInUse, TypeOK, Store, Keys
    <2>4. \A k \in RowKeys : store.rows[k] # Missing => k =< store.last
      BY <2>2 DEF RowsBelow, store, TypeOK
    <2>5. \A k \in RowKeys : k \in Nat
      BY DEF RowKeys, Keys
    <2>6. LogGrows' /\ RowsBelow'
      BY <1>3, <1>4, <2>2, <2>3, <2>4, <2>5, GrowsByAppend
    <2>7. store.rows[id + 1] = Missing
      BY <2>1, <2>3, <2>4
    <2>8. IdsInUse'
      <3>1. store'.last =< id'
        BY <1>6, <2>1, <2>3
      <3>2. \A e \in Callers : inserting'[e] = IF e = c THEN ins ELSE inserting[e]
        BY <1>5 DEF TypeOK
      <3>3. ASSUME NEW e \in Callers, inserting'[e] # Missing
            PROVE  /\ inserting'[e].id \in RowKeys
                   /\ inserting'[e].id =< store'.last
                   /\ store'.rows[inserting'[e].id] = Missing
        <4>1. CASE e = c
          BY <1>4, <1>6, <2>1, <2>3, <2>7, <3>2, <4>1
        <4>2. CASE e # c
          BY <1>4, <1>6, <2>2, <2>3, <2>5, <3>2, <3>3, <4>2 DEF IdsInUse
        <4>3. QED
          BY <4>1, <4>2
      <3>4. \A e \in Callers : e # c /\ inserting[e] # Missing => inserting[e].id # id + 1
        BY <2>2, <2>3, <2>5 DEF IdsInUse
      <3>5. \A e, f \in Callers :
              inserting'[e] # Missing /\ inserting'[f] # Missing
                /\ inserting'[e].id = inserting'[f].id => e = f
        BY <2>1, <2>2, <3>2, <3>4 DEF IdsInUse
      <3>6. QED
        BY <3>1, <3>3, <3>5 DEF IdsInUse
    <2>9. Kept'
      <3>1. promised' = promised /\ durable' = durable
        BY DEF Allocate
      <3>2. ASSUME NEW p \in promised
            PROVE  /\ p.id \in RowKeys
                   /\ store'.rows[p.id] = p.data
                   /\ p.sync => \A i \in durable .. Len(stores') : stores'[i].rows[p.id] = p.data
        <4>1. p.id \in RowKeys /\ s.rows[p.id] = p.data
          BY <1>4, <2>2 DEF Kept
        <4>2. ASSUME p.sync, NEW i \in durable .. Len(stores')
              PROVE  stores'[i].rows[p.id] = p.data
          <5>1. CASE i = Len(stores')
            BY <1>6, <4>1, <5>1
          <5>2. CASE i # Len(stores')
            <6>1. i \in durable .. Len(stores) /\ i \in 1 .. Len(stores)
              BY <1>6, <5>2 DEF TypeOK
            <6>2. QED
              BY <1>6, <2>2, <4>2, <6>1 DEF Kept
          <5>3. QED
            BY <5>1, <5>2
        <4>3. QED
          BY <1>6, <4>1, <4>2
      <3>3. QED
        BY <3>1, <3>2 DEF Kept
    <2>10. QED
      BY <2>6, <2>8, <2>9
  <1>9. QED
    BY <1>7, <1>8 DEF Safe

LEMMA InvAllocateFails == ASSUME Inv, AllocateFails PROVE Inv'
  <1> USE DEF Inv, AllocateFails
  <1>1. NextId \in Keys /\ (NextId = 0 \/ NextId = id + 1)
    BY NextIdIs
  <1>2. TypeOK'
    BY <1>1 DEF TypeOK
  <1>3. ASSUME ~wrapped' PROVE LogGrows' /\ RowsBelow' /\ IdsInUse' /\ Kept'
    <2>1. LogGrows /\ RowsBelow /\ IdsInUse /\ Kept /\ id' = id + 1
      BY <1>1, <1>3 DEF Safe, TypeOK
    <2>2. LogGrows' /\ RowsBelow' /\ store' = store
      BY <2>1, LogUnchanged
    <2>3. store.last =< id'
      BY <2>1, StoreTyped DEF IdsInUse, TypeOK, Store, Keys
    <2>4. IdsInUse'
      BY <2>1, <2>2, <2>3 DEF IdsInUse
    <2>5. Kept'
      BY <2>1, <2>2 DEF Kept
    <2>6. QED
      BY <2>2, <2>4, <2>5
  <1>4. QED
    BY <1>2, <1>3 DEF Safe

LEMMA InvPutRow == ASSUME Inv, NEW c \in Callers, PutRow(c) PROVE Inv'
  <1> DEFINE ins == inserting[c]
  <1> USE DEF Inv
  <1>1. PICK n \in Keys : stores' = Append(stores, WithRow(ins.id, ins.data, n))
    BY DEF PutRow
  <1> DEFINE s == WithRow(ins.id, ins.data, n)
  <1>2. store \in Store /\ ins \in Insert
    BY StoreTyped DEF PutRow, TypeOK
  <1>3. s \in Store /\ stores' = Append(stores, s)
    BY <1>1, <1>2 DEF WithRow, Store, Insert
  <1>4. /\ ins.id # MetaKey => s.last = store.last
        /\ \A k \in Keys : s.rows[k] = IF k = ins.id THEN ins.data ELSE store.rows[k]
    BY <1>2 DEF WithRow, Store, Insert
  <1>5. /\ inserting' = [inserting EXCEPT ![c] = Missing]
        /\ promised' = promised \cup {ins}
        /\ durable' = IF ins.sync THEN Len(stores) + 1 ELSE durable
        /\ UNCHANGED <<id, wrapped, restarts>>
        /\ ins # Missing
    BY DEF PutRow
  <1> HIDE DEF s, ins
  <1>6. /\ stores' \in Seq(Store) /\ stores' # << >>
        /\ Len(stores') = Len(stores) + 1
        /\ \A i \in 1 .. Len(stores) : stores'[i] = stores[i]
        /\ stores'[Len(stores')] = s
        /\ store' = s
    BY <1>3, Appended
  <1>7. durable' \in 1 .. Len(stores')
    BY <1>5, <1>6 DEF TypeOK
  <1>8. inserting' \in [Callers -> Insert \cup {Missing}]
    BY <1>5 DEF TypeOK
  <1>9. TypeOK'
    BY <1>2, <1>5, <1>6, <1>7, <1>8 DEF TypeOK
  <1>10. ASSUME ~wrapped' PROVE LogGrows' /\ RowsBelow' /\ IdsInUse' /\ Kept'
    <2>1. LogGrows /\ RowsBelow /\ IdsInUse /\ Kept
      BY <1>5, <1>10 DEF Safe
    <2>2. ins.id \in RowKeys /\ ins.id =< store.last /\ store.rows[ins.id] = Missing
      BY <1>5, <2>1 DEF IdsInUse, ins
    <2>3. s.last = store.last /\ store.last \in Nat
      BY <1>2, <1>4, <2>2 DEF RowKeys, Store, Keys
    <2>4. \A k \in RowKeys : s.rows[k] = IF k = ins.id THEN ins.data ELSE store.rows[k]
      BY <1>4 DEF RowKeys
    <2>5. \A k \in RowKeys : store.rows[k] # Missing => k =< store.last
      BY <2>1 DEF RowsBelow, store, TypeOK
    <2>6. /\ store.last =< s.last
          /\ \A k \in RowKeys : store.rows[k] # Missing => s.rows[k] = store.rows[k]
          /\ \A k \in RowKeys : s.rows[k] # Missing => k =< s.last
      BY <2>2, <2>3, <2>4, <2>5
    <2>7. LogGrows' /\ RowsBelow'
      BY <1>3, <2>1, <2>6, GrowsByAppend
    <2>8. IdsInUse'
      <3>1. \A e \in Callers : inserting'[e] = IF e = c THEN Missing ELSE inserting[e]
        BY <1>5 DEF TypeOK
      <3>2. \A e \in Callers : e # c /\ inserting[e] # Missing => inserting[e].id # ins.id
        BY <1>5, <2>1 DEF IdsInUse, ins
      <3>3. ASSUME NEW e \in Callers, inserting'[e] # Missing
            PROVE  /\ inserting'[e].id \in RowKeys
                   /\ inserting'[e].id =< store'.last
                   /\ store'.rows[inserting'[e].id] = Missing
        <4>1. e # c /\ inserting'[e] = inserting[e]
          BY <3>1, <3>3
        <4>2. inserting[e].id # ins.id
          BY <3>2, <3>3, <4>1
        <4>3. /\ inserting[e].id \in RowKeys
              /\ inserting[e].id =< store.last
              /\ store.rows[inserting[e].id] = Missing
          BY <2>1, <3>3, <4>1 DEF IdsInUse
        <4>4. QED
          BY <1>6, <2>3, <2>4, <4>1, <4>2, <4>3
      <3>4. store'.last =< id'
        BY <1>5, <1>6, <2>1, <2>3 DEF IdsInUse
      <3>5. \A e, f \in Callers :
              inserting'[e] # Missing /\ inserting'[f] # Missing
                /\ inserting'[e].id = inserting'[f].id => e = f
        BY <2>1, <3>1 DEF IdsInUse
      <3>6. QED
        BY <3>3, <3>4, <3>5 DEF IdsInUse
    <2>9. \A p \in promised : p.id \in RowKeys /\ p.id # ins.id /\ store.rows[p.id] = p.data
      <3>1. \A p \in promised : p.data \in Data
        BY DEF TypeOK, Insert
      <3>2. QED
        BY <2>1, <2>2, <3>1 DEF Kept
    <2>10. ASSUME NEW p \in promised'
           PROVE  /\ p.id \in RowKeys
                  /\ store'.rows[p.id] = p.data
                  /\ p.sync => \A i \in durable' .. Len(stores') : stores'[i].rows[p.id] = p.data
      <3>1. CASE p = ins
        <4>1. p.id \in RowKeys /\ s.rows[p.id] = p.data
          BY <2>2, <2>4, <3>1
        <4>2. ASSUME p.sync, NEW i \in durable' .. Len(stores') PROVE i = Len(stores')
          BY <1>5, <1>6, <3>1, <4>2 DEF TypeOK
        <4>3. QED
          BY <1>6, <4>1, <4>2
      <3>2. CASE p \in promised
        <4>1. p.id \in RowKeys /\ s.rows[p.id] = p.data
          BY <2>4, <2>9, <3>2
        <4>2. ASSUME p.sync, NEW i \in durable' .. Len(stores')
              PROVE  stores'[i].rows[p.id] = p.data
          <5>1. CASE i = Len(stores')
            BY <1>6, <4>1, <5>1
          <5>2. CASE i # Len(stores')
            <6>1. i \in durable .. Len(stores) /\ i \in 1 .. Len(stores)
              BY <1>5, <1>6, <5>2 DEF TypeOK
            <6>2. QED
              BY <1>6, <2>1, <3>2, <4>2, <6>1 DEF Kept
          <5>3. QED
            BY <5>1, <5>2
        <4>3. QED
          BY <1>6, <4>1, <4>2
      <3>3. QED
        BY <1>5, <3>1, <3>2
    <2>11. Kept'
      BY <2>10 DEF Kept
    <2>12. QED
      BY <2>7, <2>8, <2>11
  <1>11. QED
    BY <1>9, <1>10 DEF Safe

LEMMA InvPutRowFails == ASSUME Inv, NEW c \in Callers, PutRowFails(c) PROVE Inv'
  <1> USE DEF Inv, PutRowFails
  <1>1. \A e \in Callers : inserting'[e] \in {Missing, inserting[e]}
    BY DEF TypeOK
  <1>2. TypeOK'
    BY DEF TypeOK
  <1>3. ASSUME ~wrapped' PROVE LogGrows' /\ RowsBelow' /\ IdsInUse' /\ Kept'
    <2>1. LogGrows /\ RowsBelow /\ IdsInUse /\ Kept
      BY <1>3 DEF Safe
    <2>2. LogGrows' /\ RowsBelow' /\ store' = store
      BY <2>1, LogUnchanged
    <2>3. IdsInUse'
      BY <1>1, <2>1, <2>2 DEF IdsInUse
    <2>4. Kept'
      BY <2>1, <2>2 DEF Kept
    <2>5. QED
      BY <2>2, <2>3, <2>4
  <1>4. QED
    BY <1>2, <1>3 DEF Safe

LEMMA InvRestart == ASSUME Inv, Restart PROVE Inv'
  <1> USE DEF Inv, Restart, Open
  <1>1. store \in Store /\ store.last \in Keys
    BY StoreTyped DEF Store
  <1>2. \A e \in Callers : inserting'[e] = Missing
    OBVIOUS
  <1>3. TypeOK'
    BY <1>1 DEF TypeOK
  <1>4. ASSUME ~wrapped' PROVE LogGrows' /\ RowsBelow' /\ IdsInUse' /\ Kept'
    <2>1. LogGrows /\ RowsBelow /\ IdsInUse /\ Kept
      BY <1>4 DEF Safe
    <2>2. LogGrows' /\ RowsBelow' /\ store' = store
      BY <2>1, LogUnchanged
    <2>3. store'.last =< id'
      BY <1>1, <2>2 DEF Keys
    <2>4. IdsInUse'
      BY <1>2, <2>3 DEF IdsInUse
    <2>5. Kept'
      BY <2>1, <2>2 DEF Kept
    <2>6. QED
      BY <2>2, <2>4, <2>5
  <1>5. QED
    BY <1>3, <1>4 DEF Safe

\* What is left of the log after a loss of power.
LEMMA Cut ==
  ASSUME TypeOK, NEW n \in durable .. Len(stores), stores' = SubSeq(stores, 1, n)
  PROVE  /\ stores' \in Seq(Store) /\ stores' # << >>
         /\ Len(stores') = n /\ n \in 1 .. Len(stores)
         /\ \A i \in 1 .. n : stores'[i] = stores[i]
         /\ store' = stores[n] /\ stores[n] \in Store
  BY DEF TypeOK, store

LEMMA InvPowerLoss == ASSUME Inv, PowerLoss PROVE Inv'
  <1> USE DEF Inv, Open
  <1>1. PICK n \in durable .. Len(stores) :
          stores' = SubSeq(stores, 1, n) /\ durable' = n /\ Open(stores[n])
    BY DEF PowerLoss
  <1>2. promised' = {p \in promised : p.sync}
    BY DEF PowerLoss
  <1>3. /\ stores' \in Seq(Store) /\ stores' # << >>
        /\ Len(stores') = n /\ n \in 1 .. Len(stores)
        /\ \A i \in 1 .. n : stores'[i] = stores[i]
        /\ store' = stores[n] /\ stores[n] \in Store
    BY <1>1, Cut
  <1>4. \A e \in Callers : inserting'[e] = Missing
    BY <1>1
  <1>5. store'.last \in Keys /\ id' = store'.last
    BY <1>1, <1>3 DEF Store
  <1>6. TypeOK'
    <2>1. inserting' \in [Callers -> Insert \cup {Missing}] /\ wrapped' = wrapped
      BY <1>1
    <2>2. restarts' \in 0 .. MaxRestarts
      BY <1>1 DEF TypeOK
    <2>3. QED
      BY <1>1, <1>2, <1>3, <1>5, <2>1, <2>2 DEF TypeOK
  <1>7. ASSUME ~wrapped' PROVE LogGrows' /\ RowsBelow' /\ IdsInUse' /\ Kept'
    <2>1. LogGrows /\ RowsBelow /\ IdsInUse /\ Kept
      BY <1>1, <1>7 DEF Safe
    <2>2. LogGrows'
      BY <1>3, <2>1 DEF LogGrows
    <2>3. RowsBelow'
      BY <1>3, <2>1 DEF RowsBelow
    <2>4. IdsInUse'
      BY <1>4, <1>5 DEF IdsInUse, Keys
    <2>5. ASSUME NEW p \in promised'
          PROVE  /\ p.id \in RowKeys
                 /\ store'.rows[p.id] = p.data
                 /\ \A i \in durable' .. Len(stores') : stores'[i].rows[p.id] = p.data
      <3>1. p \in promised /\ p.sync
        BY <1>2
      <3>2. p.id \in RowKeys /\ stores[n].rows[p.id] = p.data
        BY <1>1, <2>1, <3>1 DEF Kept
      <3>3. \A i \in durable' .. Len(stores') : i = n
        BY <1>1, <1>3
      <3>4. QED
        BY <1>3, <3>2, <3>3
    <2>6. Kept'
      BY <2>5 DEF Kept
    <2>7. QED
      BY <2>2, <2>3, <2>4, <2>6
  <1>8. QED
    BY <1>6, <1>7 DEF Safe

LEMMA InvStutter == ASSUME Inv, UNCHANGED vars PROVE Inv'
  <1>1. TypeOK'
    BY DEF Inv, vars, TypeOK
  <1>2. LogGrows' = LogGrows /\ RowsBelow' = RowsBelow /\ IdsInUse' = IdsInUse /\ Kept' = Kept
    BY DEF vars, LogGrows, RowsBelow, IdsInUse, Kept, store
  <1>3. Safe'
    BY <1>2 DEF Inv, vars, Safe
  <1>4. QED
    BY <1>1, <1>3 DEF Inv

LEMMA InvStep == Inv /\ [Next]_vars => Inv'
  <1> SUFFICES ASSUME Inv, [Next]_vars PROVE Inv'
    OBVIOUS
  <1>1. ASSUME NEW c \in Callers, NEW d \in Data, NEW sync \in BOOLEAN, Allocate(c, d, sync)
        PROVE  Inv'
    BY <1>1, InvAllocate
  <1>2. ASSUME NEW c \in Callers, PutRow(c) PROVE Inv'
    BY <1>2, InvPutRow
  <1>3. ASSUME NEW c \in Callers, PutRowFails(c) PROVE Inv'
    BY <1>3, InvPutRowFails
  <1>4. CASE AllocateFails
    BY <1>4, InvAllocateFails
  <1>5. CASE Restart
    BY <1>5, InvRestart
  <1>6. CASE PowerLoss
    BY <1>6, InvPowerLoss
  <1>7. CASE UNCHANGED vars
    BY <1>7, InvStutter
  <1>8. QED
    BY <1>1, <1>2, <1>3, <1>4, <1>5, <1>6, <1>7 DEF Next

LEMMA Invariance == Spec => []Inv
  <1>1. Init => Inv
    BY InvInit
  <1>2. Inv /\ [Next]_vars => Inv'
    BY InvStep
  <1>3. QED
    BY <1>1, <1>2, PTL DEF Spec

-----------------------------------------------------------------------------
(* The theorems                                                             *)

\* Every variable keeps its type; the id keeps the size of the key.
THEOREM TypeCorrect == Spec => []TypeOK
  <1>1. Inv => TypeOK
    BY DEF Inv
  <1>2. QED
    BY <1>1, Invariance, PTL

\* An insert that has returned stays, whatever other callers do and whatever
\* fails, and a synced one stays when power is lost.
THEOREM InsertsStay == Spec => []AckedIsStored
  <1>1. Inv => AckedIsStored
    BY DEF Inv, Safe, Kept, AckedIsStored
  <1>2. QED
    BY <1>1, Invariance, PTL

\* The part of RowsKept about one step.
RowsKeptByStep ==
  ~wrapped' =>
     \A k \in RowKeys : store.rows[k] # Missing =>
       \/ store'.rows[k] = store.rows[k]
       \/ store'.rows[k] = Missing /\ Len(stores') < Len(stores)

LEMMA StepKeepsRows == Inv /\ [Next]_vars => RowsKeptByStep
  <1> SUFFICES ASSUME Inv, [Next]_vars, ~wrapped', NEW k \in RowKeys, store.rows[k] # Missing
               PROVE  \/ store'.rows[k] = store.rows[k]
                      \/ store'.rows[k] = Missing /\ Len(stores') < Len(stores)
    BY DEF RowsKeptByStep
  <1> USE DEF Inv
  <1>1. store \in Store /\ k # MetaKey /\ k \in Keys
    BY StoreTyped DEF RowKeys
  <1>2. ASSUME NEW c \in Callers, NEW d \in Data, NEW sync \in BOOLEAN, Allocate(c, d, sync)
        PROVE  store'.rows[k] = store.rows[k]
    <2>1. WithLast(NextId) \in Store
      BY <1>1, NextIdIs DEF WithLast, Store
    <2>2. store' = WithLast(NextId)
      BY <1>2, <2>1, Appended DEF Allocate
    <2>3. QED
      BY <1>1, <2>2 DEF WithLast, Store
  <1>3. ASSUME NEW c \in Callers, PutRow(c) PROVE store'.rows[k] = store.rows[k]
    <2>1. PICK n \in Keys :
            stores' = Append(stores, WithRow(inserting[c].id, inserting[c].data, n))
      BY <1>3 DEF PutRow
    <2>2. inserting[c] \in Insert /\ ~wrapped
      BY <1>3 DEF PutRow, TypeOK
    <2>3. WithRow(inserting[c].id, inserting[c].data, n) \in Store
      BY <1>1, <2>2 DEF WithRow, Store, Insert
    <2>4. store' = WithRow(inserting[c].id, inserting[c].data, n)
      BY <2>1, <2>3, Appended
    <2>5. inserting[c].id # k
      BY <1>3, <2>2 DEF Safe, IdsInUse, PutRow
    <2>6. QED
      BY <1>1, <2>4, <2>5 DEF WithRow, Store
  <1>4. CASE PowerLoss
    <2>1. PICK n \in durable .. Len(stores) : stores' = SubSeq(stores, 1, n) /\ Open(stores[n])
      BY <1>4 DEF PowerLoss
    <2>2. /\ Len(stores') = n /\ n \in 1 .. Len(stores)
          /\ store' = stores[n]
      BY <2>1, Cut
    <2>3. LogGrows
      BY <2>1 DEF Safe, Open
    <2>4. Len(stores) \in 1 .. Len(stores) /\ store = stores[Len(stores)]
      BY <2>2 DEF store
    <2>5. stores[n].rows[k] # Missing => store.rows[k] = stores[n].rows[k]
      BY <2>2, <2>3, <2>4 DEF LogGrows
    <2>6. n = Len(stores) => store' = store
      BY <2>2, <2>4
    <2>7. n # Len(stores) => Len(stores') < Len(stores)
      BY <2>2
    <2>8. QED
      BY <2>2, <2>5, <2>6, <2>7
  <1>5. CASE UNCHANGED stores
    BY <1>5 DEF store
  <1>6. QED
    BY <1>2, <1>3, <1>4, <1>5 DEF Next, vars, PutRowFails, AllocateFails, Restart

\* No row is written over: an id whose row has survived is never handed out
\* again, wherever a loss of power cut the log.
THEOREM RowsStay == Spec => RowsKept
  <1>1. Inv /\ [Next]_vars => [RowsKeptByStep]_vars
    BY StepKeepsRows
  <1>2. QED
    BY <1>1, Invariance, PTL DEF Spec, RowsKept, RowsKeptByStep
=============================================================================
