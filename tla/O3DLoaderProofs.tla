--------------------------- MODULE O3DLoaderProofs ---------------------------
(***************************************************************************)
(* Proofs about O3DLoader, for any numbers of loaders, items and files.    *)
(*                                                                         *)
(* The argument: the count of a loader is the number of things it awaits.  *)
(* Every call adds one of them and counts up, and every callback that      *)
(* returns takes one away and counts down; so when the count comes to zero *)
(* nothing is left, and nothing can be added any more, for a client that   *)
(* has finished a loader adds to it only in a callback it still awaits.    *)
(***************************************************************************)
EXTENDS O3DLoader, FiniteSetTheorems, TLAPS

USE LoaderAssumption

\* The count of a loader is the number of things it awaits.
Counted == \A l \in Loaders : count[l] = Cardinality(Awaited(l))

\* onFinished has been called once or is still to be called; it is called of
\* loaders that are finished and await nothing.
CalledOnce ==
  \A l \in Loaders :
    /\ told[l] = "no" => calls[l] = 0
    /\ told[l] # "no" => calls[l] = 1 /\ made[l] = "finished" /\ count[l] = 0

\* A loader that is not made yet has nothing, and none is its own parent.
Unmade ==
  \A l \in Loaders :
    /\ made[l] = "none" => count[l] = 0 /\ told[l] = "no" /\ parent[l] = NoLoader
    /\ \A i \in Items : owner[i] = l => made[l] # "none"
    /\ \A c \in Loaders : parent[c] = l => made[l] # "none" /\ c # l

\* Every item that was begun is some loader's.
Owned == \A i \in Items : stage[i] # "none" => owner[i] \in Loaders

\* The items and loaders whose callbacks are said to run.
Running == {i \in Items : stage[i] = "calling"} \cup {l \in Loaders : told[l] = "calling"}

\* What is on the stack runs, and is there once.
Stacked ==
  /\ \A n \in DOMAIN stack : stack[n] \in Running
  /\ \A m, n \in DOMAIN stack : stack[m] = stack[n] => m = n

\* The archive request of an item in every stage.
Archives ==
  \A i \in Items :
    /\ stage[i] \notin {"calling", "done", "lost"} => result[i] = "none"
    /\ stage[i] \in {"none", "requested"} => success[i] /\ waiting[i] = {} /\ failed[i] = {}
    /\ stage[i] = "files" =>
         /\ waiting[i] # {} /\ pending[i] = Cardinality(waiting[i])
         /\ success[i] <=> failed[i] = {}
    /\ stage[i] = "deserializing" => waiting[i] = {} /\ failed[i] = {}
    /\ kind[i] = "scene" /\ result[i] = "loaded" => waiting[i] = {} /\ failed[i] = {}

Inv == TypeOK /\ Counted /\ CalledOnce /\ Unmade /\ Owned /\ Stacked /\ Archives

-----------------------------------------------------------------------------
(* Counting                                                                 *)

LEMMA AddOne ==
  ASSUME NEW S, IsFiniteSet(S), NEW x, x \notin S
  PROVE  Cardinality(S \cup {x}) = Cardinality(S) + 1
  BY FS_AddElement

LEMMA TakeOne ==
  ASSUME NEW S, IsFiniteSet(S), NEW x \in S
  PROVE  /\ Cardinality(S) \in Nat /\ Cardinality(S) >= 1
         /\ Cardinality(S \ {x}) = Cardinality(S) - 1
         /\ Cardinality(S) = 1 <=> S = {x}
  <1>1. Cardinality(S) \in Nat
    BY FS_CardinalityType
  <1>2. Cardinality(S) # 0
    BY FS_EmptySet
  <1>3. Cardinality(S \ {x}) = Cardinality(S) - 1
    BY FS_RemoveElement
  <1>4. Cardinality(S) = 1 => S = {x}
    BY FS_Singleton
  <1>5. S = {x} => Cardinality(S) = 1
    BY FS_Singleton
  <1>6. QED
    BY <1>1, <1>2, <1>3, <1>4, <1>5

LEMMA AwaitedFinite ==
  ASSUME NEW l \in Loaders
  PROVE  IsFiniteSet(Awaited(l))
  <1>1. Awaited(l) \in SUBSET (Loaders \cup Items)
    BY DEF Awaited
  <1>2. IsFiniteSet(Loaders \cup Items)
    BY FS_Union
  <1>3. QED
    BY <1>1, <1>2, FS_Subset

\* What is counted down was awaited; if it is the last, onFinished has not been
\* called before.
LEMMA CountsDown ==
  ASSUME Inv, NEW l \in Loaders, NEW x \in Awaited(l), NEW callbacks, CountDown(l, callbacks),
         Awaited(l)' = Awaited(l) \ {x},
         \A m \in Loaders \ {l} : Awaited(m)' = Awaited(m)
  PROVE  /\ count' \in [Loaders -> Nat] /\ calls' \in [Loaders -> Nat]
         /\ Counted'
         /\ told[l] = "no" /\ calls[l] = 0
         /\ count[l] = 1 => Awaited(l) = {x}
         /\ \A m \in Loaders : m # l => count'[m] = count[m] /\ calls'[m] = calls[m]
         /\ count[l] = 1 => count'[l] = 0 /\ calls'[l] = 1
         /\ count[l] # 1 => calls' = calls
  <1>1. /\ count[l] = Cardinality(Awaited(l))
        /\ \A m \in Loaders : count[m] = Cardinality(Awaited(m))
    BY DEF Inv, Counted
  <1>2. /\ count \in [Loaders -> Nat] /\ calls \in [Loaders -> Nat]
        /\ told \in [Loaders -> {"no", "calling", "done", "lost"}]
    BY DEF Inv, TypeOK
  <1>3. /\ count[l] >= 1
        /\ Cardinality(Awaited(l) \ {x}) = count[l] - 1
        /\ count[l] = 1 => Awaited(l) = {x}
    BY <1>1, AwaitedFinite, TakeOne
  <1>4. count' = [count EXCEPT ![l] = count[l] - 1]
    BY DEF CountDown
  <1>5. count[l] \in Nat
    BY <1>2
  <1>6. count' \in [Loaders -> Nat]
    BY <1>2, <1>3, <1>4, <1>5
  <1>7. /\ count'[l] = count[l] - 1
        /\ \A m \in Loaders : m # l => count'[m] = count[m]
    BY <1>2, <1>4
  <1>8. ASSUME NEW m \in Loaders PROVE count'[m] = Cardinality(Awaited(m)')
    BY <1>1, <1>3, <1>7
  <1>9. Counted'
    BY <1>8 DEF Counted
  <1>10. told[l] = "no" /\ calls[l] = 0
    BY <1>3 DEF Inv, CalledOnce
  <1>11. /\ calls' \in [Loaders -> Nat]
         /\ \A m \in Loaders : m # l => calls'[m] = calls[m]
         /\ count[l] = 1 => calls'[l] = 1
         /\ count[l] # 1 => calls' = calls
    BY <1>2, <1>10 DEF CountDown
  <1>12. QED
    BY <1>3, <1>6, <1>7, <1>9, <1>10, <1>11

\* A loader that awaits something has not called onFinished.
LEMMA AwaitsNotTold ==
  ASSUME Inv, NEW l \in Loaders, NEW x \in Awaited(l)
  PROVE  told[l] = "no" /\ made[l] # "none"
  <1>1. count[l] >= 1
    BY AwaitedFinite, TakeOne DEF Inv, Counted
  <1>2. told[l] = "no"
    BY <1>1 DEF Inv, CalledOnce
  <1>3. count[l] # 0
    BY <1>1
  <1>4. made[l] # "none"
    BY <1>3 DEF Inv, Unmade
  <1>5. QED
    BY <1>2, <1>4

\* A loader that counts up has not called onFinished: it is open, or awaits
\* what a callback on the stack is for.
LEMMA UsableNotTold ==
  ASSUME Inv, NEW l \in Loaders, Usable(l)
  PROVE  told[l] = "no" /\ made[l] # "none"
  <1>1. CASE made[l] = "open"
    BY <1>1 DEF Inv, CalledOnce
  <1>2. CASE made[l] = "finished" /\ WithinCallbackOf(l)
    <2>1. PICK n \in DOMAIN stack :
            \/ stack[n] \in Items /\ owner[stack[n]] = l
            \/ stack[n] \in Loaders /\ parent[stack[n]] = l
      BY <1>2 DEF WithinCallbackOf
    <2>2. stack[n] \in Awaited(l)
      BY <2>1 DEF Inv, Stacked, Running, Awaited
    <2>3. QED
      BY <2>2, AwaitsNotTold
  <1>3. QED
    BY <1>1, <1>2 DEF Usable

\* What is counted up was not awaited.
LEMMA CountsUp ==
  ASSUME Inv, NEW l \in Loaders, NEW x, x \notin Awaited(l),
         count'[l] = count[l] + 1, Awaited(l)' = Awaited(l) \cup {x}
  PROVE  count'[l] = Cardinality(Awaited(l)')
  <1>1. count[l] = Cardinality(Awaited(l))
    BY DEF Inv, Counted
  <1>2. IsFiniteSet(Awaited(l))
    BY AwaitedFinite
  <1>3. QED
    BY <1>1, <1>2, AddOne

-----------------------------------------------------------------------------
(* The stack                                                                *)

\* The callback on top runs, and what is below it is the rest of the stack.
LEMMA Popped ==
  ASSUME Inv, stack # <<>>
  PROVE  /\ Top \in Running
         /\ Below \in Seq(Loaders \cup Items)
         /\ \A n \in DOMAIN Below : Below[n] \in Running \ {Top}
         /\ \A m, n \in DOMAIN Below : Below[m] = Below[n] => m = n
  <1> DEFINE U == Loaders \cup Items
  <1>1. stack \in Seq(U)
    BY DEF Inv, TypeOK
  <1>2. Len(stack) \in Nat /\ Len(stack) >= 1 /\ DOMAIN stack = 1..Len(stack)
    BY <1>1
  <1>n. Len(stack) - 1 \in 0..Len(stack)
    BY <1>2
  <1>3. /\ Below \in Seq(U)
        /\ Len(Below) = Len(stack) - 1
        /\ \A n \in 1..(Len(stack) - 1) : Below[n] = stack[n]
    <2> HIDE DEF U
    <2> QED
      BY <1>1, <1>2, <1>n DEF Below
  <1>4. DOMAIN Below = 1..(Len(stack) - 1)
    BY <1>3
  <1>5. Len(stack) \in DOMAIN stack
    BY <1>2
  <1>6. /\ \A n \in DOMAIN stack : stack[n] \in Running
        /\ \A m, n \in DOMAIN stack : stack[m] = stack[n] => m = n
    BY DEF Inv, Stacked
  <1>7. Top \in Running
    BY <1>5, <1>6 DEF Top
  <1>8. ASSUME NEW n \in DOMAIN Below
        PROVE  n \in DOMAIN stack /\ n # Len(stack) /\ Below[n] = stack[n]
    BY <1>2, <1>3, <1>4
  <1>9. ASSUME NEW n \in DOMAIN Below PROVE Below[n] \in Running \ {Top}
    BY <1>5, <1>6, <1>8 DEF Top
  <1>10. ASSUME NEW m \in DOMAIN Below, NEW n \in DOMAIN Below, Below[m] = Below[n]
         PROVE  m = n
    BY <1>6, <1>8, <1>10
  <1>11. QED
    BY <1>3, <1>7, <1>9, <1>10

\* What is put on top of callbacks that run is there once.
LEMMA Pushed ==
  ASSUME NEW U, NEW R, NEW s \in Seq(U), NEW x \in U, x \notin R,
         \A n \in DOMAIN s : s[n] \in R,
         \A m, n \in DOMAIN s : s[m] = s[n] => m = n
  PROVE  /\ Append(s, x) \in Seq(U)
         /\ \A n \in DOMAIN Append(s, x) : Append(s, x)[n] \in R \cup {x}
         /\ \A m, n \in DOMAIN Append(s, x) : Append(s, x)[m] = Append(s, x)[n] => m = n
  <1> DEFINE t == Append(s, x)
  <1>1. /\ t \in Seq(U) /\ Len(s) \in Nat
        /\ DOMAIN s = 1..Len(s) /\ DOMAIN t = 1..(Len(s) + 1)
        /\ \A n \in 1..Len(s) : t[n] = s[n]
        /\ t[Len(s) + 1] = x
    OBVIOUS
  <1>2. ASSUME NEW n \in DOMAIN t PROVE (n \in DOMAIN s /\ t[n] = s[n]) \/ (n = Len(s) + 1 /\ t[n] = x)
    BY <1>1
  <1> HIDE DEF t
  <1>3. ASSUME NEW n \in DOMAIN t PROVE t[n] \in R \cup {x}
    BY <1>2
  <1>4. ASSUME NEW m \in DOMAIN t, NEW n \in DOMAIN t, t[m] = t[n] PROVE m = n
    BY <1>2, <1>4
  <1>5. QED
    BY <1>1, <1>3, <1>4 DEF t

-----------------------------------------------------------------------------
(* The client's calls                                                       *)

LEMMA CreateLoaderInv ==
  ASSUME Inv, NEW l \in Loaders, CreateLoader(l)
  PROVE  Inv'
  <1> USE DEF CreateLoader, NewLoader, itemVars, archiveVars
  <1>1. /\ made' \in [Loaders -> {"none", "open", "finished"}]
        /\ made'[l] = "open"
        /\ \A m \in Loaders : m # l => made'[m] = made[m]
    BY DEF Inv, TypeOK
  <1>2. /\ count' \in [Loaders -> Nat]
        /\ count'[l] = 1
        /\ \A m \in Loaders : m # l => count'[m] = count[m]
    BY DEF Inv, TypeOK
  <1>3. TypeOK'
    BY <1>1, <1>2 DEF Inv, TypeOK
  <1>4. /\ told[l] = "no" /\ calls[l] = 0 /\ parent[l] = NoLoader
        /\ \A i \in Items : owner[i] # l
        /\ \A c \in Loaders : parent[c] # l
    BY DEF Inv, Unmade, CalledOnce
  <1>5. Awaited(l)' = {l}
    BY <1>1, <1>4 DEF Awaited
  <1>6. ASSUME NEW m \in Loaders, m # l PROVE Awaited(m)' = Awaited(m)
    BY <1>1, <1>6 DEF Awaited
  <1>7. Cardinality({l}) = 1
    BY FS_Singleton
  <1>8. ASSUME NEW m \in Loaders PROVE count'[m] = Cardinality(Awaited(m)')
    <2>1. CASE m = l
      BY <2>1, <1>2, <1>5, <1>7
    <2>2. CASE m # l
      BY <2>2, <1>2, <1>6 DEF Inv, Counted
    <2>3. QED
      BY <2>1, <2>2
  <1>9. Counted'
    BY <1>8 DEF Counted
  <1>10. CalledOnce'
    BY <1>1, <1>2, <1>4 DEF Inv, CalledOnce
  <1>11. Unmade'
    BY <1>1, <1>2, <1>4 DEF Inv, Unmade
  <1>12. Owned' /\ Archives'
    BY DEF Inv, Owned, Archives
  <1>13. Stacked'
    BY DEF Inv, Stacked, Running
  <1>14. QED
    BY <1>3, <1>9, <1>10, <1>11, <1>12, <1>13 DEF Inv

LEMMA CreateNestedInv ==
  ASSUME Inv, NEW p \in Loaders, NEW l \in Loaders, CreateNested(p, l)
  PROVE  Inv'
  <1> USE DEF CreateNested, NewLoader, itemVars, archiveVars
  <1>1. told[p] = "no" /\ made[p] # "none" /\ p # l
    BY UsableNotTold
  <1>2. /\ made' \in [Loaders -> {"none", "open", "finished"}]
        /\ made'[l] = "open"
        /\ \A m \in Loaders : m # l => made'[m] = made[m]
    BY DEF Inv, TypeOK
  <1>3. /\ parent' \in [Loaders -> Loaders \cup {NoLoader}]
        /\ parent'[l] = p
        /\ \A m \in Loaders : m # l => parent'[m] = parent[m]
    BY DEF Inv, TypeOK
  <1>4. /\ count' \in [Loaders -> Nat]
        /\ count'[l] = 1 /\ count'[p] = count[p] + 1
        /\ \A m \in Loaders : m # l /\ m # p => count'[m] = count[m]
    BY <1>1 DEF Inv, TypeOK
  <1>5. TypeOK'
    BY <1>2, <1>3, <1>4 DEF Inv, TypeOK
  <1>6. /\ told[l] = "no" /\ calls[l] = 0 /\ parent[l] = NoLoader
        /\ \A i \in Items : owner[i] # l
        /\ \A c \in Loaders : parent[c] # l
    BY DEF Inv, Unmade, CalledOnce
  <1>7. Awaited(l)' = {l}
    BY <1>1, <1>2, <1>3, <1>6 DEF Awaited
  <1>8. l \notin Awaited(p)
    BY <1>1, <1>6 DEF Awaited
  <1>9. Awaited(p)' = Awaited(p) \cup {l}
    BY <1>1, <1>2, <1>3, <1>6 DEF Awaited
  <1>10. ASSUME NEW m \in Loaders, m # l, m # p PROVE Awaited(m)' = Awaited(m)
    BY <1>2, <1>3, <1>6, <1>10 DEF Awaited
  <1>11. Cardinality({l}) = 1
    BY FS_Singleton
  <1>12. count'[p] = Cardinality(Awaited(p)')
    BY <1>4, <1>8, <1>9, CountsUp
  <1>13. ASSUME NEW m \in Loaders PROVE count'[m] = Cardinality(Awaited(m)')
    <2>1. CASE m = l
      BY <2>1, <1>4, <1>7, <1>11
    <2>2. CASE m # l /\ m # p
      BY <2>2, <1>4, <1>10 DEF Inv, Counted
    <2>3. QED
      BY <2>1, <2>2, <1>12
  <1>14. Counted'
    BY <1>13 DEF Counted
  <1>15. CalledOnce'
    BY <1>1, <1>2, <1>4, <1>6 DEF Inv, CalledOnce
  <1>16. Unmade'
    BY <1>1, <1>2, <1>3, <1>4, <1>6 DEF Inv, Unmade
  <1>17. Owned' /\ Archives'
    BY DEF Inv, Owned, Archives
  <1>18. Stacked'
    BY DEF Inv, Stacked, Running
  <1>19. QED
    BY <1>5, <1>14, <1>15, <1>16, <1>17, <1>18 DEF Inv

LEMMA LoadInv ==
  ASSUME Inv, NEW l \in Loaders, NEW i \in Items, NEW k \in Kinds, Load(l, i, k)
  PROVE  Inv'
  <1> USE DEF Load, archiveVars
  <1>1. told[l] = "no" /\ made[l] # "none"
    BY UsableNotTold
  <1>2. /\ owner' \in [Items -> Loaders \cup {NoLoader}]
        /\ owner'[i] = l
        /\ \A j \in Items : j # i => owner'[j] = owner[j]
    BY DEF Inv, TypeOK
  <1>3. /\ kind' \in [Items -> Kinds]
        /\ \A j \in Items : j # i => kind'[j] = kind[j]
    BY DEF Inv, TypeOK
  <1>4. /\ stage' \in [Items -> Stages]
        /\ stage'[i] \in {"requested", "silent"}
        /\ \A j \in Items : j # i => stage'[j] = stage[j]
    BY DEF Inv, TypeOK, Stages
  <1>5. /\ count' \in [Loaders -> Nat]
        /\ count'[l] = count[l] + 1
        /\ \A m \in Loaders : m # l => count'[m] = count[m]
    BY DEF Inv, TypeOK
  <1>6. TypeOK'
    BY <1>2, <1>3, <1>4, <1>5 DEF Inv, TypeOK
  <1>7. l # i
    OBVIOUS
  <1>8. i \notin Awaited(l)
    BY DEF Awaited
  <1>9. Awaited(l)' = Awaited(l) \cup {i}
    BY <1>2, <1>4 DEF Awaited
  <1>10. ASSUME NEW m \in Loaders, m # l PROVE Awaited(m)' = Awaited(m)
    BY <1>2, <1>4, <1>10 DEF Awaited
  <1>11. count'[l] = Cardinality(Awaited(l)')
    BY <1>5, <1>8, <1>9, CountsUp
  <1>12. ASSUME NEW m \in Loaders PROVE count'[m] = Cardinality(Awaited(m)')
    BY <1>5, <1>10, <1>11 DEF Inv, Counted
  <1>13. Counted'
    BY <1>12 DEF Counted
  <1>14. CalledOnce'
    BY <1>1, <1>5 DEF Inv, CalledOnce
  <1>15. Unmade'
    BY <1>1, <1>2, <1>5 DEF Inv, Unmade
  <1>16. Owned'
    BY <1>2, <1>4 DEF Inv, Owned
  <1>17. Running' = Running
    BY <1>4 DEF Running
  <1>18. Stacked'
    BY <1>17 DEF Inv, Stacked
  <1>19. result[i] = "none" /\ success[i] /\ waiting[i] = {} /\ failed[i] = {}
    BY DEF Inv, Archives
  <1>20. Archives'
    BY <1>3, <1>4, <1>19 DEF Inv, Archives
  <1>21. QED
    BY <1>6, <1>13, <1>14, <1>15, <1>16, <1>18, <1>20 DEF Inv

LEMMA FinishInv ==
  ASSUME Inv, NEW l \in Loaders, Finish(l)
  PROVE  Inv'
  <1> DEFINE U == Loaders \cup Items
  <1> USE DEF Finish, itemVars, archiveVars
  <1>1. /\ made' \in [Loaders -> {"none", "open", "finished"}]
        /\ made'[l] = "finished"
        /\ \A m \in Loaders : m # l => made'[m] = made[m]
    BY DEF Inv, TypeOK
  <1>2. l \in Awaited(l) /\ parent[l] # l
    BY DEF Awaited, Inv, Unmade
  <1>3. told[l] = "no"
    BY <1>2, AwaitsNotTold
  <1>4. /\ told' \in [Loaders -> {"no", "calling", "done", "lost"}]
        /\ \A m \in Loaders : m # l => told'[m] = told[m]
        /\ count[l] = 1 => told'[l] = "calling"
        /\ count[l] # 1 => told' = told
    BY DEF Inv, TypeOK, Told
  <1>5. Awaited(l)' = Awaited(l) \ {l}
    BY <1>1, <1>2, <1>3, <1>4 DEF Awaited
  <1>6. ASSUME NEW m \in Loaders, m # l PROVE Awaited(m)' = Awaited(m)
    BY <1>1, <1>3, <1>4, <1>6 DEF Awaited
  <1>7. /\ count' \in [Loaders -> Nat] /\ calls' \in [Loaders -> Nat]
        /\ Counted'
        /\ told[l] = "no" /\ calls[l] = 0
        /\ \A m \in Loaders : m # l => count'[m] = count[m] /\ calls'[m] = calls[m]
        /\ count[l] = 1 => count'[l] = 0 /\ calls'[l] = 1
        /\ count[l] # 1 => calls' = calls
    BY <1>2, <1>5, <1>6, CountsDown
  <1>8. stack \in Seq(U)
    BY DEF Inv, TypeOK
  <1>9. /\ \A n \in DOMAIN stack : stack[n] \in Running
        /\ \A m, n \in DOMAIN stack : stack[m] = stack[n] => m = n
    BY DEF Inv, Stacked
  <1>10. stack' \in Seq(U) /\ Stacked'
    <2>1. CASE count[l] = 1
      <3>1. stack' = Append(stack, l)
        BY <2>1 DEF CountDown
      <3>2. l \notin Running
        BY <1>3 DEF Running
      <3>3. Running' = Running \cup {l}
        BY <2>1, <1>3, <1>4 DEF Running
      <3> HIDE DEF U
      <3>4. l \in U
        BY DEF U
      <3>5. /\ Append(stack, l) \in Seq(U)
            /\ \A n \in DOMAIN Append(stack, l) : Append(stack, l)[n] \in Running \cup {l}
            /\ \A m, n \in DOMAIN Append(stack, l) :
                 Append(stack, l)[m] = Append(stack, l)[n] => m = n
        BY <1>8, <1>9, <3>2, <3>4, Pushed
      <3>6. QED
        BY <3>1, <3>3, <3>5 DEF Stacked
    <2>2. CASE count[l] # 1
      <3>1. stack' = stack
        BY <2>2 DEF CountDown
      <3>2. Running' = Running
        BY <2>2, <1>4 DEF Running
      <3>3. QED
        BY <3>1, <3>2, <1>8, <1>9 DEF Stacked
    <2>3. QED
      BY <2>1, <2>2
  <1>11. TypeOK'
    BY <1>1, <1>4, <1>7, <1>10 DEF Inv, TypeOK
  <1>12. CalledOnce'
    BY <1>1, <1>3, <1>4, <1>7 DEF Inv, CalledOnce
  <1>13. Unmade'
    BY <1>1, <1>4, <1>7 DEF Inv, Unmade
  <1>14. Owned' /\ Archives'
    BY DEF Inv, Owned, Archives
  <1>15. QED
    BY <1>7, <1>10, <1>11, <1>12, <1>13, <1>14 DEF Inv

-----------------------------------------------------------------------------
(* Answers                                                                  *)

\* An item whose answer arrives goes on to another stage or is called back: no
\* loader awaits more or less.
LEMMA Moves ==
  ASSUME Inv, NEW i \in Items, stack = <<>>, stage[i] \notin {"none", "done"},
         NEW s \in Stages \ {"none", "done"}, stage' = [stage EXCEPT ![i] = s],
         stack' = <<>> \/ (stack' = <<i>> /\ s = "calling"),
         UNCHANGED <<loaderVars, owner, kind>>
  PROVE  /\ stage' \in [Items -> Stages] /\ stack' \in Seq(Loaders \cup Items)
         /\ Counted' /\ CalledOnce' /\ Unmade' /\ Owned' /\ Stacked'
  <1> DEFINE U == Loaders \cup Items
  <1>1. /\ stage' \in [Items -> Stages]
        /\ stage'[i] = s
        /\ \A j \in Items : j # i => stage'[j] = stage[j]
    BY DEF Inv, TypeOK
  <1>2. ASSUME NEW l \in Loaders PROVE Awaited(l)' = Awaited(l)
    BY <1>1 DEF Awaited, loaderVars
  <1>3. Counted'
    BY <1>2 DEF Inv, Counted, loaderVars
  <1>4. CalledOnce' /\ Unmade'
    BY DEF Inv, CalledOnce, Unmade, loaderVars
  <1>5. Owned'
    BY <1>1 DEF Inv, Owned
  <1>6. stack' \in Seq(U) /\ Stacked'
    <2>1. CASE stack' = <<>>
      BY <2>1 DEF Stacked
    <2>2. CASE stack' = <<i>> /\ s = "calling"
      <3>1. i \in Running'
        BY <2>2, <1>1 DEF Running
      <3>2. i \in U
        OBVIOUS
      <3> HIDE DEF U
      <3>3. stack' \in Seq(U) /\ DOMAIN stack' = {1} /\ stack'[1] = i
        BY <2>2, <3>2
      <3>4. QED
        BY <3>1, <3>3 DEF Stacked
    <2>3. QED
      BY <2>1, <2>2
  <1>7. QED
    BY <1>1, <1>3, <1>4, <1>5, <1>6

\* An item that is called back, or lost, keeps the invariant: a scene that is
\* said to be loaded has all of its files.
LEMMA Settles ==
  ASSUME Inv, NEW i \in Items, stack = <<>>, stage[i] \notin {"none", "done"},
         \/ \E given \in {"loaded", "exception"} : Call(i, given)
         \/ stage' = [stage EXCEPT ![i] = "deserializing"] /\ UNCHANGED <<result, stack>>
         \/ \E how \in {"silent", "lost"} : Lose(i, how),
         UNCHANGED <<loaderVars, owner, kind>>
  PROVE  /\ stage' \in [Items -> Stages] /\ stack' \in Seq(Loaders \cup Items)
         /\ result' \in [Items -> {"none", "loaded", "exception"}]
         /\ Counted' /\ CalledOnce' /\ Unmade' /\ Owned' /\ Stacked'
         /\ stage'[i] \in {"calling", "deserializing", "silent", "lost"}
         /\ \A j \in Items : j # i => stage'[j] = stage[j] /\ result'[j] = result[j]
         /\ stage'[i] = "calling" \/ result'[i] = result[i]
         /\ stage'[i] = "deserializing" =>
              (\A how \in {"silent", "lost"} : ~ Lose(i, how)) /\ (\A given : ~ Call(i, given))
  <1>1. stage \in [Items -> Stages] /\ result \in [Items -> {"none", "loaded", "exception"}]
    BY DEF Inv, TypeOK
  <1>2. {"calling", "deserializing", "silent", "lost"} \subseteq Stages \ {"none", "done"}
    BY DEF Stages
  <1>3. CASE \E given \in {"loaded", "exception"} : Call(i, given)
    <2>1. PICK given \in {"loaded", "exception"} : Call(i, given)
      BY <1>3
    <2>2. /\ stage' = [stage EXCEPT ![i] = "calling"]
          /\ result' = [result EXCEPT ![i] = given]
          /\ stack' = <<i>>
      BY <2>1 DEF Call
    <2>3. /\ stage' \in [Items -> Stages] /\ stack' \in Seq(Loaders \cup Items)
          /\ Counted' /\ CalledOnce' /\ Unmade' /\ Owned' /\ Stacked'
      BY <2>2, <1>2, Moves
    <2>4. /\ result' \in [Items -> {"none", "loaded", "exception"}]
          /\ stage'[i] = "calling"
          /\ \A j \in Items : j # i => stage'[j] = stage[j] /\ result'[j] = result[j]
      BY <2>2, <1>1
    <2>5. QED
      BY <2>3, <2>4
  <1>4. ASSUME NEW s \in {"deserializing", "silent", "lost"}, stage' = [stage EXCEPT ![i] = s],
               UNCHANGED <<result, stack>>
        PROVE  /\ stage' \in [Items -> Stages] /\ stack' \in Seq(Loaders \cup Items)
               /\ Counted' /\ CalledOnce' /\ Unmade' /\ Owned' /\ Stacked'
               /\ stage'[i] = s
               /\ \A j \in Items : j # i => stage'[j] = stage[j] /\ result'[j] = result[j]
    <2>1. s \in Stages \ {"none", "done"}
      BY <1>2
    <2>2. /\ stage' \in [Items -> Stages] /\ stack' \in Seq(Loaders \cup Items)
          /\ Counted' /\ CalledOnce' /\ Unmade' /\ Owned' /\ Stacked'
      BY <2>1, <1>4, Moves
    <2>3. QED
      BY <2>2, <1>1, <1>4
  <1>5. CASE stage' = [stage EXCEPT ![i] = "deserializing"] /\ UNCHANGED <<result, stack>>
    <2>1. stage'[i] = "deserializing"
      BY <1>5, <1>1
    <2>2. ASSUME NEW how \in {"silent", "lost"} PROVE ~ Lose(i, how)
      BY <2>1, <1>1 DEF Lose
    <2>3. ASSUME NEW given PROVE ~ Call(i, given)
      BY <2>1, <1>1 DEF Call
    <2>4. QED
      BY <2>1, <2>2, <2>3, <1>1, <1>4, <1>5
  <1>6. CASE \E how \in {"silent", "lost"} : Lose(i, how)
    <2>1. PICK how \in {"silent", "lost"} :
            stage' = [stage EXCEPT ![i] = how] /\ UNCHANGED <<result, stack>>
      BY <1>6 DEF Lose
    <2>2. stage'[i] = how
      BY <2>1, <1>1
    <2>3. QED
      BY <2>1, <2>2, <1>1, <1>4
  <1>7. QED
    BY <1>3, <1>5, <1>6

\* The answers of everything but scenes, and of scenes that never come.
LEMMA PlainArrives ==
  ASSUME Inv, NEW i \in Items,
         \/ TextArrives(i)
         \/ ImageArrives(i)
         \/ SceneFails(i)
         \/ Deserialized(i)
  PROVE  Inv'
  <1>1. /\ stack = <<>> /\ stage[i] \in {"requested", "deserializing"}
        /\ stage[i] = "requested" => kind[i] \in {"text", "image"} \/ Lose(i, "silent")
        /\ \/ \E given \in {"loaded", "exception"} : Call(i, given)
           \/ \E how \in {"silent", "lost"} : Lose(i, how)
        /\ UNCHANGED <<loaderVars, owner, kind, archiveVars>>
    BY DEF TextArrives, ImageArrives, SceneFails, Deserialized
  <1>2. /\ stage' \in [Items -> Stages] /\ stack' \in Seq(Loaders \cup Items)
        /\ result' \in [Items -> {"none", "loaded", "exception"}]
        /\ Counted' /\ CalledOnce' /\ Unmade' /\ Owned' /\ Stacked'
        /\ stage'[i] \in {"calling", "deserializing", "silent", "lost"}
        /\ \A j \in Items : j # i => stage'[j] = stage[j] /\ result'[j] = result[j]
        /\ stage'[i] = "calling" \/ result'[i] = result[i]
        /\ stage'[i] = "deserializing" =>
              (\A how \in {"silent", "lost"} : ~ Lose(i, how)) /\ (\A given : ~ Call(i, given))
    BY <1>1, Settles
  <1>3. stage'[i] # "deserializing"
    BY <1>1, <1>2
  <1>4. TypeOK'
    BY <1>1, <1>2 DEF Inv, TypeOK, loaderVars, archiveVars
  <1>5. stage[i] = "requested" /\ Lose(i, "silent") => result'[i] = "none"
    BY DEF Lose, Inv, Archives
  <1>6. kind[i] = "scene" /\ result'[i] = "loaded" => waiting[i] = {} /\ failed[i] = {}
    BY <1>1, <1>5 DEF Inv, Archives
  <1>7. /\ waiting' = waiting /\ pending' = pending /\ success' = success /\ failed' = failed
        /\ kind' = kind
    BY <1>1 DEF archiveVars
  <1>8. result[i] = "none"
    BY <1>1 DEF Inv, Archives
  <1>9. Archives'
    BY <1>2, <1>3, <1>6, <1>7, <1>8 DEF Inv, Archives
  <1>10. QED
    BY <1>2, <1>4, <1>9 DEF Inv

\* An archive that is done settles its item, and a failed one is reported.
LEMMA ArchiveSettles ==
  ASSUME Inv, NEW i \in Items, NEW ok \in BOOLEAN, ArchiveDone(i, ok)
  PROVE  /\ \/ \E given \in {"loaded", "exception"} : Call(i, given)
            \/ stage' = [stage EXCEPT ![i] = "deserializing"] /\ UNCHANGED <<result, stack>>
            \/ \E how \in {"silent", "lost"} : Lose(i, how)
         /\ ~ ok => stage'[i] = "calling" /\ result'[i] = "exception"
  <1>1. stage \in [Items -> Stages] /\ result \in [Items -> {"none", "loaded", "exception"}]
    BY DEF Inv, TypeOK
  <1>2. CASE ok
    BY <1>2 DEF ArchiveDone
  <1>3. CASE ~ ok
    <2>1. Call(i, "exception")
      BY <1>3 DEF ArchiveDone
    <2>2. stage'[i] = "calling" /\ result'[i] = "exception"
      BY <2>1, <1>1 DEF Call
    <2>3. QED
      BY <2>1, <2>2
  <1>4. QED
    BY <1>2, <1>3

LEMMA SceneArrivesInv ==
  ASSUME Inv, NEW i \in Items, NEW files \in SUBSET Files, SceneArrives(i, files)
  PROVE  Inv'
  <1> USE DEF SceneArrives
  <1>1. success[i] /\ failed[i] = {} /\ result[i] = "none"
    BY DEF Inv, Archives
  <1>2. IsFiniteSet(files)
    BY FS_Subset
  <1>3. Cardinality(files) \in Nat
    BY <1>2, FS_CardinalityType
  <1>4. /\ waiting' \in [Items -> SUBSET Files]
        /\ waiting'[i] = files
        /\ \A j \in Items : j # i => waiting'[j] = waiting[j]
    BY DEF Inv, TypeOK
  <1>5. /\ pending' \in [Items -> Nat]
        /\ pending'[i] = Cardinality(files)
        /\ \A j \in Items : j # i => pending'[j] = pending[j]
    BY <1>3 DEF Inv, TypeOK
  <1>6. success' = success /\ failed' = failed /\ kind' = kind
    OBVIOUS
  <1>7. CASE files = {}
    <2>1. ArchiveDone(i, TRUE)
      BY <1>1, <1>7
    <2>2. \/ \E given \in {"loaded", "exception"} : Call(i, given)
          \/ stage' = [stage EXCEPT ![i] = "deserializing"] /\ UNCHANGED <<result, stack>>
          \/ \E how \in {"silent", "lost"} : Lose(i, how)
      BY <2>1, ArchiveSettles
    <2>3. /\ stage' \in [Items -> Stages] /\ stack' \in Seq(Loaders \cup Items)
          /\ result' \in [Items -> {"none", "loaded", "exception"}]
          /\ Counted' /\ CalledOnce' /\ Unmade' /\ Owned' /\ Stacked'
          /\ stage'[i] \in {"calling", "deserializing", "silent", "lost"}
          /\ \A j \in Items : j # i => stage'[j] = stage[j] /\ result'[j] = result[j]
          /\ stage'[i] = "calling" \/ result'[i] = result[i]
      BY <2>2, Settles
    <2>4. TypeOK'
      BY <1>4, <1>5, <1>6, <2>3 DEF Inv, TypeOK, loaderVars
    <2>5. Archives'
      BY <1>1, <1>4, <1>5, <1>6, <1>7, <2>3 DEF Inv, Archives
    <2>6. QED
      BY <2>3, <2>4, <2>5 DEF Inv
  <1>8. CASE files # {}
    <2>1. stage' = [stage EXCEPT ![i] = "files"] /\ UNCHANGED <<result, stack>>
      BY <1>8
    <2>2. "files" \in Stages \ {"none", "done"}
      BY DEF Stages
    <2>3. /\ stage' \in [Items -> Stages] /\ stack' \in Seq(Loaders \cup Items)
          /\ Counted' /\ CalledOnce' /\ Unmade' /\ Owned' /\ Stacked'
      BY <2>1, <2>2, Moves
    <2>4. /\ stage'[i] = "files"
          /\ \A j \in Items : j # i => stage'[j] = stage[j]
          /\ result' = result
      BY <2>1 DEF Inv, TypeOK
    <2>5. TypeOK'
      BY <1>4, <1>5, <1>6, <2>3, <2>4 DEF Inv, TypeOK, loaderVars
    <2>6. Archives'
      BY <1>1, <1>4, <1>5, <1>6, <1>8, <2>4 DEF Inv, Archives
    <2>7. QED
      BY <2>3, <2>5, <2>6 DEF Inv
  <1>9. QED
    BY <1>7, <1>8

LEMMA FileArrivesInv ==
  ASSUME Inv, NEW i \in Items, NEW f \in Files, NEW loaded \in BOOLEAN, FileArrives(i, f, loaded)
  PROVE  Inv'
  <1> USE DEF FileArrives
  <1>1. /\ pending[i] = Cardinality(waiting[i])
        /\ success[i] <=> failed[i] = {}
        /\ result[i] = "none"
    BY DEF Inv, Archives
  <1>2. waiting[i] \in SUBSET Files /\ success[i] \in BOOLEAN /\ failed[i] \in SUBSET Files
    BY DEF Inv, TypeOK
  <1>3. IsFiniteSet(waiting[i])
    BY <1>2, FS_Subset
  <1>a. f \in waiting[i] /\ stage[i] = "files"
    OBVIOUS
  <1>4. /\ pending[i] \in Nat /\ pending[i] >= 1
        /\ Cardinality(waiting[i] \ {f}) = pending[i] - 1
        /\ pending[i] = 1 <=> waiting[i] = {f}
    <2> HIDE DEF FileArrives
    <2> QED
      BY <1>a, <1>1, <1>3, TakeOne
  <1>5. /\ waiting' \in [Items -> SUBSET Files]
        /\ waiting'[i] = waiting[i] \ {f}
        /\ \A j \in Items : j # i => waiting'[j] = waiting[j]
    BY DEF Inv, TypeOK
  <1>6. pending[i] - 1 \in Nat
    BY <1>4
  <1>7. /\ pending' \in [Items -> Nat]
        /\ pending'[i] = Cardinality(waiting'[i])
        /\ \A j \in Items : j # i => pending'[j] = pending[j]
    BY <1>4, <1>5, <1>6 DEF Inv, TypeOK
  <1>8. Resolved(i, loaded) \in BOOLEAN
    BY DEF Resolved
  <1>9. /\ success' \in [Items -> BOOLEAN]
        /\ success'[i] = Resolved(i, loaded)
        /\ \A j \in Items : j # i => success'[j] = success[j]
    BY <1>8 DEF Inv, TypeOK
  <1>f. failed \in [Items -> SUBSET Files]
    BY DEF Inv, TypeOK
  <1>10. /\ failed' \in [Items -> SUBSET Files]
         /\ failed'[i] = IF loaded THEN failed[i] ELSE failed[i] \cup {f}
         /\ \A j \in Items : j # i => failed'[j] = failed[j]
    <2>1. CASE loaded
      BY <2>1, <1>f
    <2>2. CASE ~ loaded
      <3>1. failed' = [failed EXCEPT ![i] = failed[i] \cup {f}]
        BY <2>2
      <3>2. failed[i] \cup {f} \in SUBSET Files
        BY <1>2
      <3>3. QED
        BY <3>1, <3>2, <2>2, <1>f
    <2>3. QED
      BY <2>1, <2>2
  <1>11. success'[i] <=> failed'[i] = {}
    BY <1>1, <1>9, <1>10 DEF Resolved
  <1>12. kind' = kind
    OBVIOUS
  <1>13. CASE pending[i] = 1
    <2>1. ArchiveDone(i, Resolved(i, loaded))
      BY <1>13
    <2>2. /\ \/ \E given \in {"loaded", "exception"} : Call(i, given)
             \/ stage' = [stage EXCEPT ![i] = "deserializing"] /\ UNCHANGED <<result, stack>>
             \/ \E how \in {"silent", "lost"} : Lose(i, how)
          /\ ~ Resolved(i, loaded) => stage'[i] = "calling" /\ result'[i] = "exception"
      BY <2>1, <1>8, ArchiveSettles
    <2>3. /\ stage' \in [Items -> Stages] /\ stack' \in Seq(Loaders \cup Items)
          /\ result' \in [Items -> {"none", "loaded", "exception"}]
          /\ Counted' /\ CalledOnce' /\ Unmade' /\ Owned' /\ Stacked'
          /\ stage'[i] \in {"calling", "deserializing", "silent", "lost"}
          /\ \A j \in Items : j # i => stage'[j] = stage[j] /\ result'[j] = result[j]
          /\ stage'[i] = "calling" \/ result'[i] = result[i]
      BY <2>2, Settles
    <2>4. TypeOK'
      BY <1>5, <1>7, <1>9, <1>10, <1>12, <2>3 DEF Inv, TypeOK, loaderVars
    <2>5. waiting'[i] = {}
      BY <1>4, <1>5, <1>13
    <2>6. failed'[i] = {} \/ (stage'[i] = "calling" /\ result'[i] = "exception")
      BY <1>9, <1>11, <2>2
    <2>7. Archives'
      <3> HIDE DEF FileArrives
      <3>1. ASSUME NEW j \in Items, j # i
            PROVE  /\ stage'[j] = stage[j] /\ result'[j] = result[j] /\ kind'[j] = kind[j]
                   /\ waiting'[j] = waiting[j] /\ pending'[j] = pending[j]
                   /\ success'[j] = success[j] /\ failed'[j] = failed[j]
        BY <3>1, <1>5, <1>7, <1>9, <1>10, <1>12, <2>3
      <3>2. stage'[i] # "calling" => result'[i] = "none"
        BY <1>1, <2>3
      <3>3. QED
        BY <3>1, <3>2, <2>3, <2>5, <2>6 DEF Inv, Archives
    <2>8. QED
      BY <2>3, <2>4, <2>7 DEF Inv
  <1>14. CASE pending[i] # 1
    <2>1. UNCHANGED <<stage, result, stack, kind>>
      BY <1>14
    <2>2. TypeOK'
      BY <1>5, <1>7, <1>9, <1>10, <2>1 DEF Inv, TypeOK, loaderVars
    <2>3. waiting'[i] # {}
      BY <1>4, <1>5, <1>14
    <2>4. Archives'
      <3> HIDE DEF FileArrives
      <3>1. ASSUME NEW j \in Items, j # i
            PROVE  /\ stage'[j] = stage[j] /\ result'[j] = result[j] /\ kind'[j] = kind[j]
                   /\ waiting'[j] = waiting[j] /\ pending'[j] = pending[j]
                   /\ success'[j] = success[j] /\ failed'[j] = failed[j]
        BY <3>1, <1>5, <1>7, <1>9, <1>10, <2>1
      <3>2. stage'[i] = "files" /\ result'[i] = "none"
        BY <1>1, <1>a, <2>1
      <3>3. QED
        BY <3>1, <3>2, <1>7, <1>11, <2>3 DEF Inv, Archives
    <2>5. ASSUME NEW l \in Loaders PROVE Awaited(l)' = Awaited(l)
      BY <2>1 DEF Awaited, loaderVars
    <2>6. Counted'
      BY <2>5 DEF Inv, Counted, loaderVars
    <2>7. CalledOnce' /\ Unmade' /\ Owned'
      BY <2>1 DEF Inv, CalledOnce, Unmade, Owned, loaderVars
    <2>8. Running' = Running
      BY <2>1 DEF Running, loaderVars
    <2>9. Stacked'
      BY <2>1, <2>8 DEF Inv, Stacked
    <2>10. QED
      BY <2>2, <2>4, <2>6, <2>7, <2>9 DEF Inv
  <1>15. QED
    BY <1>13, <1>14

-----------------------------------------------------------------------------
(* Callbacks return                                                         *)

\* When the callback on top returns, and perhaps onFinished of l is called, all
\* that is on the stack runs and is there once.
LEMMA Unwinds ==
  ASSUME Inv, stack # <<>>, NEW l \in Loaders, l \notin Running,
         stack' = IF count[l] = 1 THEN Append(Below, l) ELSE Below,
         Running \ {Top} \subseteq Running', count[l] = 1 => l \in Running'
  PROVE  stack' \in Seq(Loaders \cup Items) /\ Stacked'
  <1> DEFINE U == Loaders \cup Items
  <1>1. /\ Below \in Seq(U)
        /\ \A n \in DOMAIN Below : Below[n] \in Running \ {Top}
        /\ \A m, n \in DOMAIN Below : Below[m] = Below[n] => m = n
    BY Popped
  <1>2. CASE count[l] = 1
    <2> DEFINE R == Running \ {Top}
    <2>1. l \in U /\ l \notin R
      OBVIOUS
    <2>2. R \cup {l} \subseteq Running'
      BY <1>2
    <2>3. \A n \in DOMAIN Below : Below[n] \in R
      BY <1>1
    <2>4. stack' = Append(Below, l)
      BY <1>2
    <2> HIDE DEF U, R
    <2>5. /\ Append(Below, l) \in Seq(U)
          /\ \A n \in DOMAIN Append(Below, l) : Append(Below, l)[n] \in R \cup {l}
          /\ \A m, n \in DOMAIN Append(Below, l) :
               Append(Below, l)[m] = Append(Below, l)[n] => m = n
      BY <1>1, <2>1, <2>3, Pushed
    <2>6. QED
      BY <2>2, <2>4, <2>5 DEF Stacked, U
  <1>3. CASE count[l] # 1
    BY <1>1, <1>3 DEF Stacked
  <1>4. QED
    BY <1>2, <1>3

LEMMA ItemReturnsInv ==
  ASSUME Inv, ItemReturns
  PROVE  Inv'
  <1>1. Top \in Items /\ stack # <<>>
    BY DEF ItemReturns
  <1>i. PICK i \in Items : i = Top
    BY <1>1
  <1>2. stage[i] = "calling"
    BY <1>1, <1>i, Popped DEF Running
  <1>l. PICK l \in Loaders : l = owner[i]
    BY <1>2 DEF Inv, Owned
  <1>3. l \in Loaders
    OBVIOUS
  <1>4. i \in Awaited(l)
    BY <1>2, <1>l DEF Awaited
  <1>5. told[l] = "no" /\ made[l] # "none"
    BY <1>3, <1>4, AwaitsNotTold
  <1>6. /\ stage' = [stage EXCEPT ![i] = "done"]
        /\ CountDown(l, Below)
        /\ told' = Told(l)
        /\ UNCHANGED <<made, parent, owner, kind, result, archiveVars>>
    BY <1>i, <1>l DEF ItemReturns
  <1>7. i \in Items /\ i = Top
    BY <1>i
  <1>8. /\ stage' \in [Items -> Stages]
        /\ stage'[i] = "done"
        /\ \A j \in Items : j # i => stage'[j] = stage[j]
    BY <1>6, <1>7 DEF Inv, TypeOK, Stages
  <1>9. /\ told' \in [Loaders -> {"no", "calling", "done", "lost"}]
        /\ \A m \in Loaders : m # l => told'[m] = told[m]
        /\ count[l] = 1 => told'[l] = "calling"
        /\ count[l] # 1 => told' = told
    BY <1>3, <1>6 DEF Inv, TypeOK, Told
  <1>10. made' = made /\ parent' = parent /\ owner' = owner
    BY <1>6
  <1>11. told'[l] \in {"no", "calling"}
    BY <1>5, <1>9
  <1>12. Awaited(l)' = Awaited(l) \ {i}
    BY <1>5, <1>7, <1>8, <1>9, <1>10, <1>11 DEF Awaited
  <1>13. owner[i] = l
    BY <1>l
  <1>14. ASSUME NEW m \in Loaders, m # l PROVE Awaited(m)' = Awaited(m)
    BY <1>5, <1>7, <1>8, <1>9, <1>10, <1>11, <1>13, <1>14 DEF Awaited
  <1>15. /\ count' \in [Loaders -> Nat] /\ calls' \in [Loaders -> Nat]
         /\ Counted'
         /\ told[l] = "no" /\ calls[l] = 0
         /\ count[l] = 1 => Awaited(l) = {i}
         /\ \A m \in Loaders : m # l => count'[m] = count[m] /\ calls'[m] = calls[m]
         /\ count[l] = 1 => count'[l] = 0 /\ calls'[l] = 1
         /\ count[l] # 1 => calls' = calls
    BY <1>3, <1>4, <1>6, <1>12, <1>14, CountsDown
  <1>16. stack' \in Seq(Loaders \cup Items) /\ Stacked'
    <2>1. l \notin Running
      BY <1>3, <1>5 DEF Running
    <2>2. stack' = IF count[l] = 1 THEN Append(Below, l) ELSE Below
      BY <1>6 DEF CountDown
    <2>3. Running \ {Top} \subseteq Running'
      BY <1>5, <1>7, <1>8, <1>9 DEF Running
    <2>4. count[l] = 1 => l \in Running'
      BY <1>3, <1>9 DEF Running
    <2>5. QED
      BY <1>1, <1>3, <2>1, <2>2, <2>3, <2>4, Unwinds
  <1>17. TypeOK'
    BY <1>6, <1>8, <1>9, <1>15, <1>16 DEF Inv, TypeOK, archiveVars
  <1>18. count[l] = 1 => made[l] = "finished"
    <2>1. l \in Awaited(l) => l # i
      BY <1>3, <1>7
    <2>2. count[l] = 1 => made[l] # "open"
      BY <1>3, <1>15, <2>1 DEF Awaited
    <2>3. made[l] \in {"none", "open", "finished"}
      BY <1>3 DEF Inv, TypeOK
    <2>4. QED
      BY <1>5, <2>2, <2>3
  <1>19. CalledOnce'
    BY <1>3, <1>9, <1>10, <1>15, <1>18 DEF Inv, CalledOnce
  <1>20. Unmade'
    BY <1>3, <1>5, <1>9, <1>10, <1>15 DEF Inv, Unmade
  <1>21. Owned'
    BY <1>2, <1>8, <1>10 DEF Inv, Owned
  <1>22. Archives'
    BY <1>2, <1>6, <1>8 DEF Inv, Archives, archiveVars
  <1>23. QED
    BY <1>15, <1>16, <1>17, <1>19, <1>20, <1>21, <1>22 DEF Inv

LEMMA LoaderReturnsInv ==
  ASSUME Inv, LoaderReturns
  PROVE  Inv'
  <1>1. Top \in Loaders /\ stack # <<>>
    BY DEF LoaderReturns
  <1>5. PICK c \in Loaders : c = Top
    BY <1>1
  <1>2. told[c] = "calling"
    BY <1>1, <1>5, Popped DEF Running
  <1>3. PICK p \in Loaders \cup {NoLoader} : parent[c] = p
    BY DEF Inv, TypeOK
  <1>4. /\ IF p = NoLoader
             THEN /\ stack' = Below
                  /\ told' = [told EXCEPT ![c] = "done"]
                  /\ UNCHANGED <<count, calls>>
             ELSE /\ CountDown(p, Below)
                  /\ told' = [Told(p) EXCEPT ![c] = "done"]
        /\ UNCHANGED <<made, parent, itemVars, archiveVars>>
    BY <1>3, <1>5 DEF LoaderReturns
  <1>6. c \in Loaders
    OBVIOUS
  <1>7. told \in [Loaders -> {"no", "calling", "done", "lost"}]
    BY DEF Inv, TypeOK
  <1>8. /\ made' = made /\ parent' = parent /\ owner' = owner
        /\ stage' = stage
    BY <1>4 DEF itemVars
  <1>9. Owned' /\ Archives'
    BY <1>4 DEF Inv, Owned, Archives, itemVars, archiveVars
  <1>10. CASE p = NoLoader
    <2>1. /\ told' = [told EXCEPT ![c] = "done"]
          /\ stack' = Below /\ UNCHANGED <<count, calls>>
      BY <1>4, <1>10
    <2>2. /\ told' \in [Loaders -> {"no", "calling", "done", "lost"}]
          /\ told'[c] = "done"
          /\ \A m \in Loaders : m # c => told'[m] = told[m]
      BY <2>1, <1>6, <1>7
    <2>3. ASSUME NEW m \in Loaders PROVE Awaited(m)' = Awaited(m)
      BY <1>3, <1>8, <1>10, <2>2 DEF Awaited
    <2>4. Counted'
      BY <2>1, <2>3 DEF Inv, Counted
    <2>5. /\ Below \in Seq(Loaders \cup Items)
          /\ \A n \in DOMAIN Below : Below[n] \in Running \ {Top}
          /\ \A m, n \in DOMAIN Below : Below[m] = Below[n] => m = n
      BY <1>1, Popped
    <2>6. Running \ {Top} \subseteq Running'
      BY <1>5, <1>8, <2>2 DEF Running
    <2>7. Stacked'
      BY <2>1, <2>5, <2>6 DEF Stacked
    <2>8. TypeOK'
      BY <1>4, <2>1, <2>2, <2>5 DEF Inv, TypeOK, itemVars, archiveVars
    <2>9. CalledOnce' /\ Unmade'
      BY <1>2, <1>8, <2>1, <2>2 DEF Inv, CalledOnce, Unmade
    <2>10. QED
      BY <1>9, <2>4, <2>7, <2>8, <2>9 DEF Inv
  <1>11. CASE p # NoLoader
    <2>1. p \in Loaders
      BY <1>3, <1>11
    <2>2. c # p /\ made[p] # "none"
      BY <1>3, <1>6, <2>1 DEF Inv, Unmade
    <2>3. c \in Awaited(p)
      BY <1>2, <1>3, <1>6 DEF Awaited
    <2>4. told[p] = "no"
      BY <2>1, <2>3, AwaitsNotTold
    <2>5. CountDown(p, Below) /\ told' = [Told(p) EXCEPT ![c] = "done"]
      BY <1>4, <1>11
    <2>6. /\ Told(p) \in [Loaders -> {"no", "calling", "done", "lost"}]
          /\ \A m \in Loaders : m # p => Told(p)[m] = told[m]
          /\ count[p] = 1 => Told(p)[p] = "calling"
          /\ count[p] # 1 => Told(p)[p] = told[p]
      BY <1>7, <2>1 DEF Told
    <2>7. /\ told' \in [Loaders -> {"no", "calling", "done", "lost"}]
          /\ told'[c] = "done"
          /\ \A m \in Loaders : m # c /\ m # p => told'[m] = told[m]
          /\ count[p] = 1 => told'[p] = "calling"
          /\ count[p] # 1 => told'[p] = "no"
      BY <1>6, <2>1, <2>2, <2>4, <2>5, <2>6
    <2>8. Awaited(p)' = Awaited(p) \ {c}
      BY <1>3, <1>6, <1>8, <2>1, <2>2, <2>4, <2>7 DEF Awaited
    <2>9. ASSUME NEW m \in Loaders, m # p PROVE Awaited(m)' = Awaited(m)
      BY <1>3, <1>6, <1>8, <2>4, <2>7, <2>9 DEF Awaited
    <2>10. /\ count' \in [Loaders -> Nat] /\ calls' \in [Loaders -> Nat]
           /\ Counted'
           /\ told[p] = "no" /\ calls[p] = 0
           /\ count[p] = 1 => Awaited(p) = {c}
           /\ \A m \in Loaders : m # p => count'[m] = count[m] /\ calls'[m] = calls[m]
           /\ count[p] = 1 => count'[p] = 0 /\ calls'[p] = 1
           /\ count[p] # 1 => calls' = calls
      BY <2>1, <2>3, <2>5, <2>8, <2>9, CountsDown
    <2>11. stack' \in Seq(Loaders \cup Items) /\ Stacked'
      <3>1. p \notin Running
        BY <2>1, <2>4 DEF Running
      <3>2. stack' = IF count[p] = 1 THEN Append(Below, p) ELSE Below
        BY <2>5 DEF CountDown
      <3>3. Running \ {Top} \subseteq Running'
        BY <1>5, <1>8, <2>4, <2>7 DEF Running
      <3>4. count[p] = 1 => p \in Running'
        BY <2>1, <2>7 DEF Running
      <3>5. QED
        BY <1>1, <2>1, <3>1, <3>2, <3>3, <3>4, Unwinds
    <2>12. TypeOK'
      BY <1>4, <2>7, <2>10, <2>11 DEF Inv, TypeOK, itemVars, archiveVars
    <2>13. count[p] = 1 => made[p] = "finished"
      <3>1. count[p] = 1 => made[p] # "open"
        BY <2>1, <2>2, <2>10 DEF Awaited
      <3>2. made[p] \in {"none", "open", "finished"}
        BY <2>1 DEF Inv, TypeOK
      <3>3. QED
        BY <2>2, <3>1, <3>2
    <2>14. ASSUME NEW m \in Loaders
           PROVE  /\ told'[m] = "no" => calls'[m] = 0
                  /\ told'[m] # "no" => calls'[m] = 1 /\ made'[m] = "finished" /\ count'[m] = 0
      <3>1. CASE m = p
        BY <3>1, <1>8, <2>7, <2>10, <2>13, <2>4
      <3>2. CASE m # p
        BY <3>2, <1>2, <1>8, <2>7, <2>10 DEF Inv, CalledOnce
      <3>3. QED
        BY <3>1, <3>2
    <2>15. CalledOnce'
      BY <2>14 DEF CalledOnce
    <2>16. Unmade'
      BY <1>2, <1>8, <2>2, <2>7, <2>10 DEF Inv, Unmade
    <2>17. QED
      BY <1>9, <2>10, <2>11, <2>12, <2>15, <2>16 DEF Inv
  <1>12. QED
    BY <1>10, <1>11

LEMMA ThrowsInv ==
  ASSUME Inv, Throws
  PROVE  Inv'
  <1> DEFINE abandoned == {stack[n] : n \in DOMAIN stack}
  <1>1. /\ stack' = <<>>
        /\ stage' = [i \in Items |-> IF i \in abandoned THEN "lost" ELSE stage[i]]
        /\ told' = [l \in Loaders |-> IF l \in abandoned THEN "lost" ELSE told[l]]
        /\ UNCHANGED <<made, parent, count, calls, owner, kind, result, archiveVars>>
    BY DEF Throws
  <1>2. abandoned \subseteq Running
    BY DEF Inv, Stacked
  <1> HIDE DEF abandoned
  <1>3. ASSUME NEW i \in Items
        PROVE  \/ stage'[i] = stage[i]
               \/ stage[i] = "calling" /\ stage'[i] = "lost"
    BY <1>1, <1>2 DEF Running
  <1>4. ASSUME NEW l \in Loaders
        PROVE  \/ told'[l] = told[l]
               \/ told[l] = "calling" /\ told'[l] = "lost"
    BY <1>1, <1>2 DEF Running
  <1>5. stage' \in [Items -> Stages]
    BY <1>1 DEF Inv, TypeOK, Stages
  <1>6. told' \in [Loaders -> {"no", "calling", "done", "lost"}]
    BY <1>1 DEF Inv, TypeOK
  <1>7. TypeOK'
    BY <1>1, <1>5, <1>6 DEF Inv, TypeOK, archiveVars
  <1>8. ASSUME NEW l \in Loaders PROVE Awaited(l)' = Awaited(l)
    BY <1>1, <1>3, <1>4 DEF Awaited
  <1>9. Counted'
    BY <1>1, <1>8 DEF Inv, Counted
  <1>10. CalledOnce'
    BY <1>1, <1>4 DEF Inv, CalledOnce
  <1>11. Unmade'
    BY <1>1, <1>4 DEF Inv, Unmade
  <1>12. Owned'
    BY <1>1, <1>3 DEF Inv, Owned
  <1>13. Archives'
    BY <1>1, <1>3 DEF Inv, Archives, archiveVars
  <1>14. Stacked'
    BY <1>1 DEF Stacked
  <1>15. QED
    BY <1>7, <1>9, <1>10, <1>11, <1>12, <1>13, <1>14 DEF Inv

-----------------------------------------------------------------------------
(* The theorems                                                             *)

LEMMA InitInv == Init => Inv
  <1> SUFFICES ASSUME Init PROVE Inv
    OBVIOUS
  <1> USE DEF Init
  <1>1. TypeOK
    BY DEF TypeOK, Kinds, Stages
  <1>2. ASSUME NEW l \in Loaders PROVE Awaited(l) = {}
    BY DEF Awaited
  <1>3. Counted
    BY <1>2, FS_EmptySet DEF Counted
  <1>4. CalledOnce /\ Unmade /\ Owned /\ Stacked
    BY DEF CalledOnce, Unmade, Owned, Stacked
  <1>5. Archives
    BY DEF Archives
  <1>6. QED
    BY <1>1, <1>3, <1>4, <1>5 DEF Inv

LEMMA NextInv == Inv /\ [Next]_vars => Inv'
  <1> SUFFICES ASSUME Inv, [Next]_vars PROVE Inv'
    OBVIOUS
  <1>1. CASE Client
    <2>1. PICK l \in Loaders :
            \/ CreateLoader(l)
            \/ \E p \in Loaders : CreateNested(p, l)
            \/ \E i \in Items, k \in Kinds : Load(l, i, k)
            \/ Finish(l)
      BY <1>1 DEF Client
    <2>2. QED
      BY <2>1, CreateLoaderInv, CreateNestedInv, LoadInv, FinishInv
  <1>2. CASE \E i \in Items : Arrives(i)
    <2>1. PICK i \in Items : Arrives(i)
      BY <1>2
    <2>2. CASE TextArrives(i) \/ ImageArrives(i) \/ SceneFails(i) \/ Deserialized(i)
      BY <2>2, PlainArrives
    <2>3. CASE \E files \in SUBSET Files : SceneArrives(i, files)
      BY <2>3, SceneArrivesInv
    <2>4. CASE \E f \in Files, loaded \in BOOLEAN : FileArrives(i, f, loaded)
      BY <2>4, FileArrivesInv
    <2>5. QED
      BY <2>1, <2>2, <2>3, <2>4 DEF Arrives
  <1>3. CASE ItemReturns
    BY <1>3, ItemReturnsInv
  <1>4. CASE LoaderReturns
    BY <1>4, LoaderReturnsInv
  <1>5. CASE Throws
    BY <1>5, ThrowsInv
  <1>6. CASE UNCHANGED vars
    <2> USE <1>6 DEF vars, loaderVars, itemVars, archiveVars
    <2>1. ASSUME NEW l \in Loaders PROVE Awaited(l)' = Awaited(l)
      BY DEF Awaited
    <2>2. Counted'
      BY <2>1 DEF Inv, Counted
    <2>3. TypeOK' /\ CalledOnce' /\ Unmade' /\ Owned'
      BY DEF Inv, TypeOK, CalledOnce, Unmade, Owned
    <2>4. Stacked' /\ Archives'
      BY DEF Inv, Stacked, Running, Archives
    <2>5. QED
      BY <2>2, <2>3, <2>4 DEF Inv
  <1>7. QED
    BY <1>1, <1>2, <1>3, <1>4, <1>5, <1>6 DEF Next

LEMMA Invariance == Spec => []Inv
  BY InitInv, NextInv, PTL DEF Spec

\* The variables of the loaders and of the requests keep their types, and in
\* particular no count goes below zero (countDown_, loader.js:226-231).
THEOREM TypeCorrect == Spec => []TypeOK
  <1>1. Inv => TypeOK
    BY DEF Inv
  <1>2. QED
    BY <1>1, Invariance, PTL

\* onFinished of a loader is called at most once, after the callbacks of all it
\* has loaded and of all loaders made from it have returned, however many there
\* are and wherever they were begun (loader.js:99-239).
THEOREM AfterAll == Spec => []FinishedAfterAll
  <1>1. Inv => FinishedAfterAll
    <2> SUFFICES ASSUME Inv, NEW l \in Loaders
                 PROVE  /\ calls[l] =< 1
                        /\ calls[l] = 1 => made[l] = "finished" /\ Awaited(l) = {}
      BY DEF FinishedAfterAll
    <2>1. /\ told[l] = "no" => calls[l] = 0
          /\ told[l] # "no" => calls[l] = 1 /\ made[l] = "finished" /\ count[l] = 0
      BY DEF Inv, CalledOnce
    <2>2. count[l] = 0 => Awaited(l) = {}
      BY AwaitedFinite, FS_EmptySet DEF Inv, Counted
    <2>3. QED
      BY <2>1, <2>2
  <1>2. QED
    BY <1>1, Invariance, PTL

\* A scene that the client is told was loaded has all of its files, however many
\* it refers to and in whatever order they arrive (archive_request.js:154-275).
THEOREM Scenes == Spec => []WholeScenes
  <1>1. Inv => WholeScenes
    BY DEF Inv, Archives, WholeScenes
  <1>2. QED
    BY <1>1, Invariance, PTL

=============================================================================
