-------------------------- MODULE O3DCounterProofs --------------------------
(***************************************************************************)
(* Proofs about O3DCounter, for any counters, callbacks and amounts.       *)
(*                                                                         *)
(* The argument: the callbacks of a counter are sorted, so that the number *)
(* below a count is a place in the list, and a leg of an advance leaves    *)
(* the place a search from its end would find (UpLeg, DownLeg); by         *)
(* induction so does every leg of a path (GoodAlong), of which every       *)
(* advance has one at least (Advanced).  Every operation that changes the  *)
(* list or the count otherwise forgets the places.  The manager's lists    *)
(* have every attached counter that runs once, and a pass goes through a   *)
(* copy of one in order, so that a counter has its turn once.              *)
(*                                                                         *)
(* That the rate does not matter: in the frame of the move the legs of two *)
(* advances are those of the one that is as far, cut in one leg (Composes, *)
(* for the loops CycleComposes and BounceComposes), also when the first    *)
(* turns the counter and the second sees the range mirrored (SecondRoute,  *)
(* PathsCompose).  What the two parts of a leg call, together, the leg     *)
(* calls (JoinUp, JoinDown), but where a cut at the lowest callback shows  *)
(* the double call that InARow counts once; and from the same places the   *)
(* same legs make the same calls (SameSuffix, CallsCompose).               *)
(***************************************************************************)
EXTENDS O3DCounter, FiniteSetTheorems, SequenceTheorems, TLAPS

-----------------------------------------------------------------------------
(* Numbers                                                                  *)

\* The least-number principle, by which the inductions below are made.
LEMMA Least ==
  ASSUME NEW T, T \subseteq Nat, T # {}
  PROVE  \E m \in T : \A y \in T : ~(y < m)
  <1>1. PICK m \in T : \A y \in T : ~(<<y, m>> \in OpToRel(<, Nat))
    BY WFMin, NatLessThanWellFounded, Zenon
  <1>2. QED
    BY <1>1, Zenon DEF OpToRel

-----------------------------------------------------------------------------
(* The manager's lists, and the lists of callbacks                          *)

\* RemoveFirst takes one occurrence away.
LEMMA FirstPlace ==
  ASSUME NEW S, NEW s \in Seq(S), NEW e, Contains(s, e)
  PROVE  \E j \in 1 .. Len(s) : s[j] = e /\ RemoveFirst(s, e) = RemoveAt(s, j)
  <1> DEFINE I == {i \in 1 .. Len(s) : s[i] = e}
  <1>1. I # {} /\ I \subseteq Nat
    BY LenProperties DEF Contains
  <1>2. PICK m \in I : \A y \in I : ~(y < m)
    BY <1>1, Least
  <1>3. Min(I) \in I
    <2>1. \A y \in I : m =< y
      BY <1>1, <1>2
    <2>2. QED
      BY <2>1 DEF Min
  <1>4. SelectInSeq(s, LAMBDA v : v = e) = Min(I)
    BY <1>1 DEF SelectInSeq
  <1>5. RemoveFirst(s, e) = RemoveAt(s, Min(I))
    BY <1>4 DEF RemoveFirst, Contains
  <1>6. QED
    BY <1>3, <1>5

\* What follows the place taken away moves up by one.
LEMMA RemovedAt ==
  ASSUME NEW S, NEW s \in Seq(S), NEW j \in 1 .. Len(s)
  PROVE  /\ RemoveAt(s, j) \in Seq(S) /\ Len(RemoveAt(s, j)) = Len(s) - 1
         /\ \A i \in 1 .. Len(s) - 1 : RemoveAt(s, j)[i] = IF i < j THEN s[i] ELSE s[i + 1]
  <1>1. Len(s) \in Nat /\ \A i \in 1 .. Len(s) : s[i] \in S
    BY LenProperties
  <1> DEFINE a == SubSeq(s, 1, j - 1)
             b == SubSeq(s, j + 1, Len(s))
  <1>2. a \in Seq(S) /\ Len(a) = j - 1 /\ \A i \in 1 .. j - 1 : a[i] = s[i]
    BY <1>1, SubSeqProperties
  <1>3. b \in Seq(S) /\ Len(b) = Len(s) - j /\ \A i \in 1 .. Len(s) - j : b[i] = s[j + i]
    BY <1>1, SubSeqProperties
  <1>4. RemoveAt(s, j) = a \o b
    BY DEF RemoveAt
  <1> HIDE DEF a, b
  <1>5. /\ a \o b \in Seq(S) /\ Len(a \o b) = Len(a) + Len(b)
        /\ \A i \in 1 .. Len(a) + Len(b) : (a \o b)[i] = IF i <= Len(a) THEN a[i] ELSE b[i - Len(a)]
    BY <1>2, <1>3, ConcatProperties
  <1>6. ASSUME NEW i \in 1 .. Len(s) - 1
        PROVE  (a \o b)[i] = IF i < j THEN s[i] ELSE s[i + 1]
    <2>1. i \in 1 .. Len(a) + Len(b)
      BY <1>1, <1>2, <1>3
    <2>2. CASE i < j
      BY <1>2, <1>5, <2>1, <2>2
    <2>3. CASE ~(i < j)
      <3>1. (a \o b)[i] = b[i - (j - 1)]
        BY <1>2, <1>5, <2>1, <2>3
      <3>2. i - (j - 1) \in 1 .. Len(s) - j /\ j + (i - (j - 1)) = i + 1
        BY <1>1, <2>3
      <3>3. QED
        BY <1>3, <2>3, <3>1, <3>2
    <2>4. QED
      BY <2>2, <2>3
  <1>7. Len(a \o b) = Len(s) - 1
    BY <1>1, <1>2, <1>3, <1>5
  <1>8. QED
    BY <1>4, <1>5, <1>6, <1>7

\* InsertAt moves down what was at the place and follows it.
LEMMA InsertedAt ==
  ASSUME NEW S, NEW s \in Seq(S), NEW j \in 1 .. Len(s) + 1, NEW e \in S
  PROVE  /\ InsertAt(s, j, e) \in Seq(S) /\ Len(InsertAt(s, j, e)) = Len(s) + 1
         /\ \A i \in 1 .. Len(s) + 1 :
               InsertAt(s, j, e)[i] = IF i < j THEN s[i] ELSE IF i = j THEN e ELSE s[i - 1]
  <1>1. Len(s) \in Nat /\ \A i \in 1 .. Len(s) : s[i] \in S
    BY LenProperties
  <1> DEFINE a == SubSeq(s, 1, j - 1)
             b == SubSeq(s, j, Len(s))
  <1>2. a \in Seq(S) /\ Len(a) = j - 1 /\ \A i \in 1 .. j - 1 : a[i] = s[i]
    BY <1>1, SubSeqProperties
  <1>3. b \in Seq(S) /\ Len(b) = Len(s) - j + 1 /\ \A i \in 1 .. Len(s) - j + 1 : b[i] = s[j + i - 1]
    BY <1>1, SubSeqProperties
  <1>4. /\ a \o <<e>> \in Seq(S) /\ Len(a \o <<e>>) = j
        /\ \A i \in 1 .. j : (a \o <<e>>)[i] = IF i < j THEN s[i] ELSE e
    BY <1>2, ConcatProperties
  <1>5. InsertAt(s, j, e) = (a \o <<e>>) \o b
    BY DEF InsertAt
  <1> DEFINE ae == a \o <<e>>
  <1>6. ae \in Seq(S) /\ Len(ae) = j /\ \A i \in 1 .. j : ae[i] = IF i < j THEN s[i] ELSE e
    BY <1>4
  <1>7. InsertAt(s, j, e) = ae \o b
    BY <1>5
  <1> HIDE DEF a, b, ae
  <1>8. /\ ae \o b \in Seq(S) /\ Len(ae \o b) = Len(ae) + Len(b)
        /\ \A i \in 1 .. Len(ae) + Len(b) : (ae \o b)[i] = IF i <= Len(ae) THEN ae[i] ELSE b[i - Len(ae)]
    BY <1>3, <1>6, ConcatProperties
  <1>9. ASSUME NEW i \in 1 .. Len(s) + 1
        PROVE  (ae \o b)[i] = IF i < j THEN s[i] ELSE IF i = j THEN e ELSE s[i - 1]
    <2>1. i \in 1 .. Len(ae) + Len(b)
      BY <1>1, <1>3, <1>6
    <2>2. CASE i =< j
      BY <1>6, <1>8, <2>1, <2>2
    <2>3. CASE ~(i =< j)
      <3>1. (ae \o b)[i] = b[i - j]
        BY <1>6, <1>8, <2>1, <2>3
      <3>2. i - j \in 1 .. Len(s) - j + 1 /\ j + (i - j) - 1 = i - 1
        BY <1>1, <2>3
      <3>3. QED
        BY <1>3, <2>3, <3>1, <3>2
    <2>4. QED
      BY <2>2, <2>3
  <1>10. Len(ae \o b) = Len(s) + 1
    BY <1>1, <1>3, <1>6, <1>8
  <1>11. QED
    BY <1>7, <1>8, <1>9, <1>10

\* A list in which everything is once loses what is removed, and nothing else.
LEMMA Unregistered ==
  ASSUME NEW S, NEW s \in Seq(S), NEW e, Contains(s, e), IsInjective(s)
  PROVE  /\ RemoveFirst(s, e) \in Seq(S) /\ IsInjective(RemoveFirst(s, e))
         /\ \A x : Contains(RemoveFirst(s, e), x) <=> Contains(s, x) /\ x # e
  <1>1. PICK j \in 1 .. Len(s) : s[j] = e /\ RemoveFirst(s, e) = RemoveAt(s, j)
    BY FirstPlace
  <1> DEFINE t == RemoveFirst(s, e)
  <1>2. /\ t \in Seq(S) /\ Len(t) = Len(s) - 1
        /\ \A i \in 1 .. Len(s) - 1 : t[i] = IF i < j THEN s[i] ELSE s[i + 1]
    BY <1>1, RemovedAt
  <1>3. Len(s) \in Nat /\ DOMAIN s = 1 .. Len(s) /\ DOMAIN t = 1 .. Len(s) - 1
    BY <1>2
  <1>4. \A a, b \in 1 .. Len(s) : s[a] = s[b] => a = b
    BY <1>3 DEF IsInjective
  <1> HIDE DEF t
  <1>5. IsInjective(t)
    BY <1>2, <1>3, <1>4 DEF IsInjective
  <1>6. ASSUME NEW x PROVE Contains(t, x) => Contains(s, x) /\ x # e
    BY <1>1, <1>2, <1>3, <1>4 DEF Contains
  <1>7. ASSUME NEW x, Contains(s, x), x # e PROVE Contains(t, x)
    <2>1. PICK i \in 1 .. Len(s) : s[i] = x
      BY <1>7 DEF Contains
    <2>2. CASE i < j
      BY <1>2, <1>3, <2>1, <2>2 DEF Contains
    <2>3. CASE i > j
      <3>1. i - 1 \in 1 .. Len(t) /\ t[i - 1] = x
        BY <1>2, <1>3, <2>1, <2>3
      <3>2. QED
        BY <3>1 DEF Contains
    <2>4. QED
      BY <1>1, <1>3, <1>7, <2>1, <2>2, <2>3
  <1>8. QED
    BY <1>2, <1>5, <1>6, <1>7 DEF t

\* A list in which everything is once may get what it does not have.
LEMMA Registered ==
  ASSUME NEW S, NEW s \in Seq(S), NEW e \in S, ~Contains(s, e), IsInjective(s)
  PROVE  /\ Append(s, e) \in Seq(S) /\ IsInjective(Append(s, e))
         /\ \A x : Contains(Append(s, e), x) <=> Contains(s, x) \/ x = e
  <1> DEFINE t == Append(s, e)
  <1>1. /\ t \in Seq(S) /\ Len(t) = Len(s) + 1 /\ t[Len(s) + 1] = e
        /\ \A i \in 1 .. Len(s) : t[i] = s[i]
    BY AppendProperties
  <1>2. Len(s) \in Nat /\ DOMAIN s = 1 .. Len(s) /\ DOMAIN t = 1 .. Len(s) + 1
    BY <1>1
  <1>3. /\ \A a, b \in 1 .. Len(s) : s[a] = s[b] => a = b
        /\ \A a \in 1 .. Len(s) : s[a] # e
    BY <1>2 DEF IsInjective, Contains
  <1> HIDE DEF t
  <1>4. IsInjective(t)
    BY <1>1, <1>2, <1>3 DEF IsInjective
  <1>5. ASSUME NEW x PROVE Contains(t, x) <=> Contains(s, x) \/ x = e
    BY <1>1, <1>2 DEF Contains
  <1>6. QED
    BY <1>1, <1>4, <1>5 DEF t

-----------------------------------------------------------------------------
(* The search for a count in the callbacks of a counter                     *)

\* What lies below a count is the beginning of the list.
LEMMA Below ==
  ASSUME NEW cb \in Seq(Int), Sorted(cb), NEW n \in Int
  PROVE  /\ NumberBelow(cb, n) \in 0 .. Len(cb)
         /\ \A i \in 1 .. Len(cb) : cb[i] < n <=> i =< NumberBelow(cb, n)
  <1>1. Len(cb) \in Nat /\ DOMAIN cb = 1 .. Len(cb) /\ \A i \in 1 .. Len(cb) : cb[i] \in Int
    OBVIOUS
  <1> DEFINE B == {i \in DOMAIN cb : cb[i] < n}
             T == {i \in 0 .. Len(cb) : i < Len(cb) => ~(cb[i + 1] < n)}
  <1>2. T \subseteq Nat /\ T # {}
    <2>1. Len(cb) \in T
      BY <1>1
    <2>2. QED
      BY <1>1, <2>1
  <1>3. PICK k \in T : \A y \in T : ~(y < k)
    <2> HIDE DEF T
    <2> QED
      BY <1>2, Least
  <1>4. k \in 0 .. Len(cb) /\ (k < Len(cb) => ~(cb[k + 1] < n))
    OBVIOUS
  <1>5. ASSUME NEW i \in 1 .. k PROVE cb[i] < n
    <2>1. i - 1 \in 0 .. Len(cb) /\ i - 1 < k /\ i - 1 < Len(cb) /\ (i - 1) + 1 = i
      BY <1>1, <1>4
    <2>2. i - 1 \notin T
      BY <1>3, <2>1
    <2>3. QED
      BY <2>1, <2>2
  <1> HIDE DEF T
  <1>6. ASSUME NEW i \in k + 1 .. Len(cb) PROVE ~(cb[i] < n)
    <2>1. k < Len(cb) /\ i \in 1 .. Len(cb) /\ k + 1 \in 1 .. Len(cb)
      BY <1>1, <1>4
    <2>2. i = k + 1 \/ cb[k + 1] < cb[i]
      BY <1>1, <1>4, <2>1 DEF Sorted
    <2>3. QED
      BY <1>1, <1>4, <2>1, <2>2
  <1>7. \A i \in 1 .. Len(cb) : cb[i] < n <=> i =< k
    BY <1>1, <1>4, <1>5, <1>6
  <1>8. B = 1 .. k
    BY <1>1, <1>4, <1>7
  <1>9. NumberBelow(cb, n) = k
    <2>1. Cardinality(1 .. k) = k
      BY <1>4, FS_Interval
    <2>2. QED
      BY <1>8, <2>1 DEF NumberBelow
  <1>10. QED
    BY <1>4, <1>7, <1>9

\* A higher count has as many callbacks below it or more.
LEMMA BelowGrows ==
  ASSUME NEW cb \in Seq(Int), Sorted(cb), NEW m \in Int, NEW n \in Int, m =< n
  PROVE  NumberBelow(cb, m) =< NumberBelow(cb, n)
  <1>1. PICK k \in 0 .. Len(cb) : k = NumberBelow(cb, m) /\ \A i \in 1 .. Len(cb) : cb[i] < m <=> i =< k
    BY Below
  <1>2. PICK l \in 0 .. Len(cb) : l = NumberBelow(cb, n) /\ \A i \in 1 .. Len(cb) : cb[i] < n <=> i =< l
    BY Below
  <1>3. Len(cb) \in Nat /\ \A i \in 1 .. Len(cb) : cb[i] \in Int
    OBVIOUS
  <1>4. CASE k = 0
    BY <1>1, <1>2, <1>3, <1>4
  <1>5. CASE k # 0
    <2>1. k \in 1 .. Len(cb) /\ cb[k] < m
      BY <1>1, <1>3, <1>5
    <2>2. cb[k] < n
      BY <1>3, <2>1
    <2>3. QED
      BY <1>1, <1>2, <1>3, <2>1, <2>2
  <1>6. QED
    BY <1>4, <1>5

\* A callback at a count is the first that is not below it; where there is none
\* the next count finds the same place.
LEMMA BelowNext ==
  ASSUME NEW cb \in Seq(Int), Sorted(cb), NEW m \in Int
  PROVE  /\ ~Contains(cb, m) => NumberBelow(cb, m + 1) = NumberBelow(cb, m)
         /\ Contains(cb, m) => /\ NumberBelow(cb, m) < Len(cb)
                               /\ cb[NumberBelow(cb, m) + 1] = m
                               /\ NumberBelow(cb, m + 1) = NumberBelow(cb, m) + 1
  <1>1. PICK k \in 0 .. Len(cb) : k = NumberBelow(cb, m) /\ \A i \in 1 .. Len(cb) : cb[i] < m <=> i =< k
    BY Below
  <1>2. PICK l \in 0 .. Len(cb) : l = NumberBelow(cb, m + 1) /\ \A i \in 1 .. Len(cb) : cb[i] < m + 1 <=> i =< l
    <2>1. m + 1 \in Int
      OBVIOUS
    <2>2. QED
      BY <2>1, Below
  <1>3. Len(cb) \in Nat /\ DOMAIN cb = 1 .. Len(cb) /\ \A i \in 1 .. Len(cb) : cb[i] \in Int
    OBVIOUS
  <1>4. k =< l
    BY <1>1, <1>2, BelowGrows
  <1>5. ASSUME ~Contains(cb, m) PROVE l = k
    <2>1. \A i \in 1 .. Len(cb) : cb[i] # m
      BY <1>5 DEF Contains
    <2>2. l = 0 \/ (l \in 1 .. Len(cb) /\ cb[l] < m)
      BY <1>2, <1>3, <2>1
    <2>3. QED
      BY <1>1, <1>3, <1>4, <2>2
  <1>6. ASSUME Contains(cb, m) PROVE k < Len(cb) /\ cb[k + 1] = m /\ l = k + 1
    <2>1. PICK j \in 1 .. Len(cb) : cb[j] = m
      BY <1>6 DEF Contains
    <2>2. j > k /\ j =< l
      BY <1>1, <1>2, <1>3, <2>1
    <2>3. ASSUME k + 1 # j PROVE FALSE
      <3>1. k + 1 \in 1 .. Len(cb) /\ cb[k + 1] < cb[j]
        BY <1>3, <2>2, <2>3 DEF Sorted
      <3>2. QED
        BY <1>1, <1>3, <2>1, <3>1
    <2>4. ASSUME l # j PROVE FALSE
      <3>1. l \in 1 .. Len(cb) /\ cb[j] < cb[l]
        BY <1>3, <2>2, <2>4 DEF Sorted
      <3>2. cb[l] < m + 1
        BY <1>2, <1>3, <3>1
      <3>3. QED
        BY <1>3, <2>1, <3>1, <3>2
    <2>5. QED
      BY <1>3, <2>1, <2>2, <2>3, <2>4
  <1>7. QED
    BY <1>1, <1>2, <1>5, <1>6

\* A callback goes behind those at lower counts.
LEMMA CallbackAdded ==
  ASSUME NEW S, S \subseteq Int, NEW cb \in Seq(S), Sorted(cb), NEW at \in S, ~Contains(cb, at)
  PROVE  /\ InsertAt(cb, NumberBelow(cb, at) + 1, at) \in Seq(S)
         /\ Sorted(InsertAt(cb, NumberBelow(cb, at) + 1, at))
  <1>1. cb \in Seq(Int)
    BY SeqMonotonic
  <1>2. PICK k \in 0 .. Len(cb) : k = NumberBelow(cb, at) /\ \A i \in 1 .. Len(cb) : cb[i] < at <=> i =< k
    BY <1>1, Below
  <1>0. PICK p \in 1 .. Len(cb) + 1 : p = k + 1
    BY <1>1
  <1> DEFINE t == InsertAt(cb, p, at)
  <1>3. /\ t \in Seq(S) /\ Len(t) = Len(cb) + 1
        /\ \A i \in 1 .. Len(cb) + 1 : t[i] = IF i < k + 1 THEN cb[i] ELSE IF i = k + 1 THEN at ELSE cb[i - 1]
    <2>1. \A i \in 1 .. Len(cb) + 1 : t[i] = IF i < p THEN cb[i] ELSE IF i = p THEN at ELSE cb[i - 1]
      BY InsertedAt
    <2>2. t \in Seq(S) /\ Len(t) = Len(cb) + 1
      BY InsertedAt
    <2> HIDE DEF t
    <2>3. QED
      BY <1>0, <2>1, <2>2
  <1>4. Len(cb) \in Nat /\ DOMAIN cb = 1 .. Len(cb) /\ DOMAIN t = 1 .. Len(cb) + 1
    BY <1>3
  <1>5. \A i \in 1 .. Len(cb) : cb[i] \in Int /\ cb[i] # at
    BY <1>1 DEF Contains
  <1>6. \A i, j \in 1 .. Len(cb) : i < j => cb[i] < cb[j]
    BY <1>4 DEF Sorted
  <1> HIDE DEF t
  <1>7. ASSUME NEW i \in 1 .. Len(cb) + 1, NEW j \in 1 .. Len(cb) + 1, i < j PROVE t[i] < t[j]
    <2>1. CASE j =< k
      BY <1>3, <1>4, <1>6, <1>7, <2>1
    <2>2. CASE j = k + 1
      <3>1. i \in 1 .. Len(cb) /\ i =< k /\ t[i] = cb[i] /\ t[j] = at
        BY <1>3, <1>4, <1>7, <2>2
      <3>2. QED
        BY <1>2, <3>1
    <2>3. CASE i = k + 1
      <3>1. j - 1 \in 1 .. Len(cb) /\ ~(j - 1 =< k) /\ t[j] = cb[j - 1] /\ t[i] = at
        BY <1>3, <1>4, <1>7, <2>3
      <3>2. QED
        BY <1>2, <1>5, <3>1
    <2>4. CASE i =< k /\ j > k + 1
      <3>1. i \in 1 .. Len(cb) /\ j - 1 \in 1 .. Len(cb) /\ i < j - 1 /\ t[j] = cb[j - 1] /\ t[i] = cb[i]
        BY <1>3, <1>4, <1>7, <2>4
      <3>2. QED
        BY <1>6, <3>1
    <2>5. CASE i > k + 1
      <3>1. i - 1 \in 1 .. Len(cb) /\ j - 1 \in 1 .. Len(cb) /\ i - 1 < j - 1 /\ t[j] = cb[j - 1] /\ t[i] = cb[i - 1]
        BY <1>3, <1>4, <1>7, <2>5
      <3>2. QED
        BY <1>6, <3>1
    <2>6. QED
      BY <1>4, <1>7, <2>1, <2>2, <2>3, <2>4, <2>5
  <1>8. Sorted(t)
    BY <1>4, <1>7 DEF Sorted
  <1>9. QED
    BY <1>0, <1>2, <1>3, <1>8 DEF t

\* A callback taken away leaves the others in order, without repetition.
LEMMA CallbackRemoved ==
  ASSUME NEW S, S \subseteq Int, NEW cb \in Seq(S), Sorted(cb), NEW at, Contains(cb, at)
  PROVE  RemoveFirst(cb, at) \in Seq(S) /\ Sorted(RemoveFirst(cb, at))
  <1>1. PICK k \in 1 .. Len(cb) : cb[k] = at /\ RemoveFirst(cb, at) = RemoveAt(cb, k)
    BY FirstPlace
  <1> DEFINE t == RemoveFirst(cb, at)
  <1>2. /\ t \in Seq(S) /\ Len(t) = Len(cb) - 1
        /\ \A i \in 1 .. Len(cb) - 1 : t[i] = IF i < k THEN cb[i] ELSE cb[i + 1]
    BY <1>1, RemovedAt
  <1>3. Len(cb) \in Nat /\ DOMAIN cb = 1 .. Len(cb) /\ DOMAIN t = 1 .. Len(cb) - 1
    BY <1>2
  <1>4. \A i, j \in 1 .. Len(cb) : i < j => cb[i] < cb[j]
    BY <1>3 DEF Sorted
  <1> HIDE DEF t
  <1>5. ASSUME NEW i \in 1 .. Len(cb) - 1, NEW j \in 1 .. Len(cb) - 1, i < j PROVE t[i] < t[j]
    <2>1. PICK a \in 1 .. Len(cb) : t[i] = cb[a] /\ a = IF i < k THEN i ELSE i + 1
      BY <1>2, <1>3
    <2>2. PICK b \in 1 .. Len(cb) : t[j] = cb[b] /\ b = IF j < k THEN j ELSE j + 1
      BY <1>2, <1>3
    <2>3. a < b
      BY <1>5, <2>1, <2>2
    <2>4. QED
      BY <1>4, <2>1, <2>2, <2>3
  <1>6. Sorted(t)
    BY <1>3, <1>5 DEF Sorted
  <1>7. QED
    BY <1>2, <1>6 DEF t

-----------------------------------------------------------------------------
(* The calls of one leg                                                     *)

\* The calls a list of callbacks can give.
CallsOf(cb) == [at : ToSet(cb), up : BOOLEAN]

\* What a counter, or what follows from its calls, remembers is right.
Remembers(cb, r) ==
  /\ r.next \in -1 .. Len(cb) /\ r.prev \in -1 .. Len(cb) - 1 /\ r.lastEnd \in Int
  /\ r.next >= 0 => r.next = NumberBelow(cb, r.lastEnd + 1)
  /\ r.prev >= 0 => r.prev = NumberBelow(cb, r.lastEnd) - 1
  /\ r.next < 0 \/ r.prev < 0

\* What is remembered between two legs, with the calls so far.
Good(cb, r) ==
  /\ r \in [next : Int, prev : Int, lastEnd : Int, called : Seq(CallsOf(cb))]
  /\ Remembers(cb, r)

\* The calls of the callbacks above place lo up to place hi.
Up(cb, lo, hi) == [i \in 1 .. hi - lo |-> [at |-> cb[lo + i], up |-> TRUE]]
\* The calls of the callbacks from place hi down to above lo.
Down(cb, hi, lo) == [i \in 1 .. hi - lo |-> [at |-> cb[hi + 1 - i], up |-> FALSE]]

\* How many callbacks a move up from x has behind it.
FromUp(cb, r, x) == IF r.next < 0 \/ x # r.lastEnd THEN NumberBelow(cb, x) ELSE NumberBelow(cb, x + 1)
\* How many callbacks a move down from x can still come to.
FromDown(cb, r, x) == IF r.prev < 0 \/ x # r.lastEnd THEN NumberBelow(cb, x + 1) ELSE NumberBelow(cb, x)

\* The calls of a leg are calls of the list.
LEMMA UpDownTypes ==
  ASSUME NEW cb \in Seq(Int), NEW lo \in 0 .. Len(cb), NEW hi \in 0 .. Len(cb), lo =< hi
  PROVE  /\ Up(cb, lo, hi) \in Seq(CallsOf(cb)) /\ Len(Up(cb, lo, hi)) = hi - lo
         /\ Down(cb, hi, lo) \in Seq(CallsOf(cb)) /\ Len(Down(cb, hi, lo)) = hi - lo
  <1>1. hi - lo \in Nat /\ Len(cb) \in Nat /\ DOMAIN cb = 1 .. Len(cb)
    OBVIOUS
  <1>2. \A i \in 1 .. Len(cb) : cb[i] \in ToSet(cb)
    BY <1>1 DEF ToSet
  <1>3. \A i \in 1 .. hi - lo : [at |-> cb[lo + i], up |-> TRUE] \in CallsOf(cb)
    <2>1. \A i \in 1 .. hi - lo : lo + i \in 1 .. Len(cb)
      BY <1>1
    <2>2. QED
      BY <1>2, <2>1 DEF CallsOf
  <1>4. \A i \in 1 .. hi - lo : [at |-> cb[hi + 1 - i], up |-> FALSE] \in CallsOf(cb)
    <2>1. \A i \in 1 .. hi - lo : hi + 1 - i \in 1 .. Len(cb)
      BY <1>1
    <2>2. QED
      BY <1>2, <2>1 DEF CallsOf
  <1>5. PICK n \in Nat : n = hi - lo
    BY <1>1
  <1>6. Up(cb, lo, hi) \in [1 .. n -> CallsOf(cb)]
    BY <1>3, <1>5 DEF Up
  <1>7. Down(cb, hi, lo) \in [1 .. n -> CallsOf(cb)]
    BY <1>4, <1>5 DEF Down
  <1>8. \A s \in [1 .. n -> CallsOf(cb)] : s \in Seq(CallsOf(cb)) /\ Len(s) = n
    OBVIOUS
  <1>9. QED
    BY <1>5, <1>6, <1>7, <1>8

\* A leg upwards, and what it makes the counter remember.
LEMMA UpLeg ==
  ASSUME NEW cb \in Seq(Int), Sorted(cb), NEW r, Remembers(cb, r),
         NEW x \in Int, NEW y \in Int, x < y
  PROVE  /\ FromUp(cb, r, x) \in 0 .. Len(cb) /\ NumberBelow(cb, y + 1) \in 0 .. Len(cb)
         /\ FromUp(cb, r, x) =< NumberBelow(cb, y + 1)
         /\ CallCallbacks(cb, r, <<x, y>>) =
              [next |-> NumberBelow(cb, y + 1), prev |-> -1, lastEnd |-> y,
               called |-> r.called \o Up(cb, FromUp(cb, r, x), NumberBelow(cb, y + 1))]
  <1>1. PICK lo \in 0 .. Len(cb) : lo = FromUp(cb, r, x)
    <2>1. x + 1 \in Int
      OBVIOUS
    <2>2. QED
      BY <2>1, Below DEF FromUp
  <1>2. PICK hi \in 0 .. Len(cb) : hi = NumberBelow(cb, y + 1)
    <2>1. y + 1 \in Int
      OBVIOUS
    <2>2. QED
      BY <2>1, Below
  <1>3. lo =< hi
    <2>1. y + 1 \in Int /\ x + 1 \in Int /\ x =< y + 1 /\ x + 1 =< y + 1
      OBVIOUS
    <2>2. NumberBelow(cb, x) =< NumberBelow(cb, y + 1) /\ NumberBelow(cb, x + 1) =< NumberBelow(cb, y + 1)
      BY <2>1, BelowGrows
    <2>3. QED
      BY <1>1, <1>2, <2>2 DEF FromUp
  <1>4. lo = IF r.next < 0 \/ x # r.lastEnd THEN NumberBelow(cb, x) ELSE r.next
    BY <1>1 DEF FromUp, Remembers
  <1>5. CallsUp(cb, r, x, y) = [called |-> Up(cb, lo, hi), next |-> hi]
    <2>1. CallsUp(cb, r, x, y) =
            [called |-> [i \in 1 .. hi - lo |-> [at |-> cb[lo + i], up |-> TRUE]],
             next |-> IF hi > lo THEN hi ELSE lo]
      BY <1>2, <1>4 DEF CallsUp
    <2>2. (IF hi > lo THEN hi ELSE lo) = hi
      BY <1>3
    <2>3. QED
      BY <2>1, <2>2 DEF Up
  <1>6. CallCallbacks(cb, r, <<x, y>>) =
          [next |-> CallsUp(cb, r, x, y).next, prev |-> -1, lastEnd |-> y,
           called |-> r.called \o CallsUp(cb, r, x, y).called]
    BY DEF CallCallbacks
  <1>7. QED
    BY <1>1, <1>2, <1>3, <1>5, <1>6

\* A leg downwards.
LEMMA DownLeg ==
  ASSUME NEW cb \in Seq(Int), Sorted(cb), NEW r, Remembers(cb, r),
         NEW x \in Int, NEW y \in Int, y < x
  PROVE  /\ FromDown(cb, r, x) \in 0 .. Len(cb) /\ NumberBelow(cb, y) \in 0 .. Len(cb)
         /\ NumberBelow(cb, y) =< FromDown(cb, r, x)
         /\ CallCallbacks(cb, r, <<x, y>>) =
              [next |-> -1, prev |-> NumberBelow(cb, y) - 1, lastEnd |-> y,
               called |-> r.called \o Down(cb, FromDown(cb, r, x), NumberBelow(cb, y))]
  <1>1. PICK hi \in 0 .. Len(cb) : hi = FromDown(cb, r, x)
    <2>1. x + 1 \in Int
      OBVIOUS
    <2>2. QED
      BY <2>1, Below DEF FromDown
  <1>2. PICK lo \in 0 .. Len(cb) : lo = NumberBelow(cb, y)
    BY Below
  <1>3. lo =< hi
    <2>1. x + 1 \in Int /\ y =< x /\ y =< x + 1
      OBVIOUS
    <2>2. NumberBelow(cb, y) =< NumberBelow(cb, x) /\ NumberBelow(cb, y) =< NumberBelow(cb, x + 1)
      BY <2>1, BelowGrows
    <2>3. QED
      BY <1>1, <1>2, <2>2 DEF FromDown
  <1>4. hi - 1 = IF r.prev < 0 \/ x # r.lastEnd THEN NumberBelow(cb, x + 1) - 1 ELSE r.prev
    BY <1>1 DEF FromDown, Remembers
  <1>5. CallsDown(cb, r, x, y) = [called |-> Down(cb, hi, lo), prev |-> lo - 1]
    <2>1. PICK p \in -1 .. Len(cb) - 1 : p = hi - 1
      OBVIOUS
    <2>2. CallsDown(cb, r, x, y) =
            [called |-> [i \in 1 .. p - (lo - 1) |-> [at |-> cb[p + 2 - i], up |-> FALSE]],
             prev |-> IF lo - 1 < p THEN lo - 1 ELSE p]
      BY <1>2, <1>4, <2>1 DEF CallsDown
    <2>3. p - (lo - 1) = hi - lo /\ (\A i \in 1 .. hi - lo : p + 2 - i = hi + 1 - i)
      BY <2>1
    <2>4. (IF lo - 1 < p THEN lo - 1 ELSE p) = lo - 1
      BY <1>3, <2>1
    <2>5. QED
      BY <2>2, <2>3, <2>4 DEF Down
  <1>6. CallCallbacks(cb, r, <<x, y>>) =
          [next |-> -1, prev |-> CallsDown(cb, r, x, y).prev, lastEnd |-> y,
           called |-> r.called \o CallsDown(cb, r, x, y).called]
    BY DEF CallCallbacks
  <1>7. QED
    BY <1>1, <1>2, <1>3, <1>5, <1>6

\* A leg of no length calls nothing and changes nothing.
LEMMA ZeroLeg ==
  ASSUME NEW cb, NEW r, NEW x \in Int
  PROVE  CallCallbacks(cb, r, <<x, x>>) = r
  <1>1. ~(x < x)
    OBVIOUS
  <1>2. QED
    BY <1>1 DEF CallCallbacks

\* A leg leaves right what is remembered, and calls callbacks of the counter.
LEMMA GoodLeg ==
  ASSUME NEW cb \in Seq(Int), Sorted(cb), NEW r, Good(cb, r), NEW x \in Int, NEW y \in Int
  PROVE  Good(cb, CallCallbacks(cb, r, <<x, y>>))
  <1>1. CASE x = y
    BY <1>1, ZeroLeg
  <1>2. CASE x < y
    <2>1. PICK lo \in 0 .. Len(cb), hi \in 0 .. Len(cb) :
            /\ lo =< hi /\ hi = NumberBelow(cb, y + 1)
            /\ CallCallbacks(cb, r, <<x, y>>) =
                 [next |-> hi, prev |-> -1, lastEnd |-> y, called |-> r.called \o Up(cb, lo, hi)]
      BY <1>2, UpLeg DEF Good
    <2>2. PICK s \in Seq(CallsOf(cb)) : s = r.called \o Up(cb, lo, hi)
      BY <2>1, UpDownTypes, ConcatProperties DEF Good
    <2>3. PICK q : q = [next |-> hi, prev |-> -1, lastEnd |-> y, called |-> s]
      OBVIOUS
    <2>4. q \in [next : Int, prev : Int, lastEnd : Int, called : Seq(CallsOf(cb))]
      BY <2>3
    <2>5. Remembers(cb, q)
      BY <2>1, <2>3 DEF Remembers
    <2>6. QED
      BY <2>1, <2>2, <2>3, <2>4, <2>5 DEF Good
  <1>3. CASE y < x
    <2>1. PICK lo \in 0 .. Len(cb), hi \in 0 .. Len(cb) :
            /\ lo =< hi /\ lo = NumberBelow(cb, y)
            /\ CallCallbacks(cb, r, <<x, y>>) =
                 [next |-> -1, prev |-> lo - 1, lastEnd |-> y, called |-> r.called \o Down(cb, hi, lo)]
      BY <1>3, DownLeg DEF Good
    <2>2. PICK s \in Seq(CallsOf(cb)) : s = r.called \o Down(cb, hi, lo)
      BY <2>1, UpDownTypes, ConcatProperties DEF Good
    <2>3. PICK q : q = [next |-> -1, prev |-> lo - 1, lastEnd |-> y, called |-> s]
      OBVIOUS
    <2>4. q \in [next : Int, prev : Int, lastEnd : Int, called : Seq(CallsOf(cb))]
      BY <2>3
    <2>5. Remembers(cb, q)
      BY <2>1, <2>3 DEF Remembers
    <2>6. QED
      BY <2>1, <2>2, <2>3, <2>4, <2>5 DEF Good
  <1>4. QED
    BY <1>1, <1>2, <1>3

-----------------------------------------------------------------------------
(* The calls along some legs                                                *)

\* Sequences of legs.
Legs == Seq(Int \X Int)

\* What the first leg finds.
Start(c) == [next |-> c.next, prev |-> c.prev, lastEnd |-> c.lastEnd, called |-> <<>>]

\* A counter as every step leaves it.
Fine(c) == c \in CounterType /\ Sorted(c.callbacks) /\ Remembers(c.callbacks, c)

\* The recursive definition of Along has a solution, so that it holds.
LEMMA AlongLegs ==
  ASSUME NEW c, NEW legs, Len(legs) \in Nat
  PROVE  /\ Along(c, legs)[0] = Start(c)
         /\ \A i \in 1 .. Len(legs) :
               Along(c, legs)[i] = CallCallbacks(c.callbacks, Along(c, legs)[i - 1], legs[i])
  <1> DEFINE Solves(g, n) ==
               g = [i \in 0 .. n |->
                      IF i = 0 THEN [next |-> c.next, prev |-> c.prev, lastEnd |-> c.lastEnd, called |-> <<>>]
                      ELSE CallCallbacks(c.callbacks, g[i - 1], legs[i])]
             T == {n \in Nat : ~ \E g : Solves(g, n)}
  <1>1. T = {}
    <2>1. SUFFICES ASSUME T # {} PROVE FALSE
      OBVIOUS
    <2>2. PICK n \in T : \A y \in T : ~(y < n)
      <3>1. T \subseteq Nat
        OBVIOUS
      <3>2. QED
        <4> HIDE DEF T
        <4> QED
          BY <2>1, <3>1, Least
    <2>3. n \in Nat /\ ~ \E g : Solves(g, n)
      OBVIOUS
    <2>4. CASE n = 0
      <3> DEFINE g == [i \in 0 .. 0 |->
                         [next |-> c.next, prev |-> c.prev, lastEnd |-> c.lastEnd, called |-> <<>>]]
      <3>1. \A i \in 0 .. 0 : i = 0
        OBVIOUS
      <3>2. Solves(g, n)
        BY <2>4, <3>1
      <3>3. QED
        BY <2>3, <3>2
    <2>5. CASE n # 0
      <3>1. n - 1 \in Nat /\ n - 1 < n
        BY <2>3, <2>5
      <3>2. PICK g : Solves(g, n - 1)
        BY <2>2, <3>1
      <3> DEFINE h == [i \in 0 .. n |->
                      IF i = 0 THEN [next |-> c.next, prev |-> c.prev, lastEnd |-> c.lastEnd, called |-> <<>>]
                      ELSE CallCallbacks(c.callbacks, g[i - 1], legs[i])]
      <3>3. \A i \in 0 .. n - 1 : h[i] = g[i]
        <4>1. \A i \in 0 .. n - 1 : i \in 0 .. n
          BY <2>3
        <4>2. QED
          BY <3>2, <4>1
      <3>4. \A i \in 0 .. n : i # 0 => h[i - 1] = g[i - 1]
        <4>1. \A i \in 0 .. n : i # 0 => i - 1 \in 0 .. n - 1
          BY <2>3
        <4> HIDE DEF h
        <4>2. QED
          BY <3>3, <4>1
      <3>5. Solves(h, n)
        BY <3>4
      <3>6. QED
        BY <2>3, <3>5
    <2>6. QED
      BY <2>4, <2>5
  <1>2. PICK g : Solves(g, Len(legs))
    BY <1>1
  <1>3. Solves(Along(c, legs), Len(legs))
    BY <1>2, Zenon DEF Along
  <1> DEFINE a == Along(c, legs)
  <1>4. Solves(a, Len(legs))
    BY <1>3
  <1> HIDE DEF a
  <1>5. 0 \in 0 .. Len(legs) /\ \A i \in 1 .. Len(legs) : i \in 0 .. Len(legs) /\ i # 0
    OBVIOUS
  <1>6. a[0] = Start(c)
    BY <1>4, <1>5 DEF Start
  <1>7. ASSUME NEW i \in 1 .. Len(legs) PROVE a[i] = CallCallbacks(c.callbacks, a[i - 1], legs[i])
    BY <1>4, <1>5
  <1>8. QED
    BY <1>6, <1>7 DEF a

\* A counter begins with places it remembers rightly, and no calls.
LEMMA GoodStart ==
  ASSUME NEW c, Fine(c)
  PROVE  Good(c.callbacks, Start(c)) /\ c.callbacks \in Seq(Int)
  <1>1. /\ c.callbacks \in Seq(Int)
        /\ c.next \in Int /\ c.prev \in Int /\ c.lastEnd \in Int
    BY DEF Fine, CounterType
  <1>2. Remembers(c.callbacks, Start(c))
    BY DEF Fine, Remembers, Start
  <1>3. Start(c) \in [next : Int, prev : Int, lastEnd : Int, called : Seq(CallsOf(c.callbacks))]
    <2>1. <<>> \in Seq(CallsOf(c.callbacks))
      OBVIOUS
    <2>2. QED
      BY <1>1, <2>1 DEF Start
  <1>4. QED
    BY <1>1, <1>2, <1>3 DEF Good

\* After every leg what is remembered is right.
LEMMA GoodAlong ==
  ASSUME NEW c, Fine(c), NEW legs \in Legs, NEW n \in 0 .. Len(legs)
  PROVE  Good(c.callbacks, Along(c, legs)[n])
  <1> DEFINE T == {i \in 0 .. Len(legs) : ~Good(c.callbacks, Along(c, legs)[i])}
  <1>1. Len(legs) \in Nat /\ \A i \in 1 .. Len(legs) : legs[i] \in Int \X Int
    BY DEF Legs
  <1>2. T = {}
    <2>1. SUFFICES ASSUME T # {} PROVE FALSE
      OBVIOUS
    <2>2. PICK m \in T : \A y \in T : ~(y < m)
      <3>1. T \subseteq Nat
        OBVIOUS
      <3>2. QED
        <4> HIDE DEF T
        <4> QED
          BY <2>1, <3>1, Least
    <2>3. m \in 0 .. Len(legs) /\ ~Good(c.callbacks, Along(c, legs)[m])
      OBVIOUS
    <2>4. m # 0
      BY <1>1, <2>3, AlongLegs, GoodStart
    <2>5. m \in 1 .. Len(legs) /\ m - 1 \in 0 .. Len(legs) /\ m - 1 < m
      BY <1>1, <2>3, <2>4
    <2>6. Good(c.callbacks, Along(c, legs)[m - 1])
      BY <2>2, <2>5
    <2>7. Along(c, legs)[m] = CallCallbacks(c.callbacks, Along(c, legs)[m - 1], legs[m])
      BY <1>1, <2>5, AlongLegs
    <2>8. PICK x \in Int, y \in Int : legs[m] = <<x, y>>
      BY <1>1, <2>5
    <2>9. QED
      BY <2>3, <2>6, <2>7, <2>8, GoodLeg, GoodStart DEF Fine
  <1>3. QED
    BY <1>2

-----------------------------------------------------------------------------
(* Where an advance goes                                                    *)

\* The legs of a frame, in the counts of the counter (s is 1 or -1).
Mirrored(s, legs) == [i \in DOMAIN legs |-> <<s * legs[i][1], s * legs[i][2]>>]

\* Mirrored legs are legs again.
LEMMA MirroredType ==
  ASSUME NEW s \in Int, NEW legs \in Legs
  PROVE  Mirrored(s, legs) \in Legs /\ Len(Mirrored(s, legs)) = Len(legs)
  <1>1. PICK n \in Nat : n = Len(legs) /\ DOMAIN legs = 1 .. n /\ \A i \in 1 .. n : legs[i] \in Int \X Int
    BY DEF Legs
  <1>2. \A i \in 1 .. n : <<s * legs[i][1], s * legs[i][2]>> \in Int \X Int
    <2>1. \A x \in Int, y \in Int : s * x \in Int /\ s * y \in Int
      OBVIOUS
    <2>2. QED
      BY <1>1, <2>1
  <1>3. Mirrored(s, legs) \in [1 .. n -> Int \X Int]
    BY <1>1, <1>2 DEF Mirrored
  <1>4. \A t \in [1 .. n -> Int \X Int] : t \in Seq(Int \X Int) /\ Len(t) = n
    OBVIOUS
  <1>5. QED
    BY <1>1, <1>3, <1>4 DEF Legs

\* One leg is a sequence of legs.
LEMMA OneLeg == ASSUME NEW x \in Int, NEW y \in Int PROVE <<<<x, y>>>> \in Legs /\ Len(<<<<x, y>>>>) = 1
  BY DEF Legs

\* Two legs are a sequence of legs.
LEMMA TwoLegs ==
  ASSUME NEW x \in Int, NEW y \in Int, NEW z \in Int, NEW w \in Int
  PROVE  <<<<x, y>>, <<z, w>>>> \in Legs /\ Len(<<<<x, y>>, <<z, w>>>>) = 2
  BY DEF Legs

\* Division by a range.
LEMMA Quotient ==
  ASSUME NEW n \in Int, NEW r \in Nat \ {0}
  PROVE  /\ n \div r \in Int /\ n % r \in 0 .. r - 1 /\ n = (r * (n \div r)) + (n % r)
         /\ n >= 0 => n \div r >= 0
  OBVIOUS

\* The path of a cycle has at least one leg.
LEMMA CycleType ==
  ASSUME NEW from \in Int, NEW to \in Int, NEW behind \in Int, NEW ahead \in Int, behind =< ahead
  PROVE  CyclePath(from, to, behind, ahead) \in Legs /\ Len(CyclePath(from, to, behind, ahead)) \in Nat \ {0}
  <1> DEFINE range == ahead - behind
  <1>1. PICK wraps \in Nat : wraps = IF to < ahead \/ range = 0 THEN 0 ELSE ((to - ahead) \div range) + 1
    <2>1. CASE to < ahead \/ range = 0
      BY <2>1
    <2>2. CASE ~(to < ahead \/ range = 0)
      <3>1. range \in Nat \ {0} /\ to - ahead \in Int /\ to - ahead >= 0
        BY <2>2
      <3>2. (to - ahead) \div range \in Nat
        <4> HIDE DEF range
        <4>1. QED
          BY <3>1, Quotient
      <3>3. QED
        BY <2>2, <3>2
    <2>3. QED
      BY <2>1, <2>2
  <1>2. CASE to >= ahead /\ range = 0
    BY <1>2, TwoLegs DEF CyclePath
  <1>3. CASE ~(to >= ahead /\ range = 0)
    <2> DEFINE p == [i \in 1 .. wraps + 1 |-> <<IF i = 1 THEN from ELSE behind,
                                               IF i =< wraps THEN ahead ELSE to - wraps * range>>]
    <2>1. CyclePath(from, to, behind, ahead) = p
      <3>1. wraps = IF to < ahead THEN 0 ELSE ((to - ahead) \div range) + 1
        BY <1>1, <1>3
      <3> HIDE DEF range
      <3>2. CyclePath(from, to, behind, ahead) =
              IF to >= ahead /\ range = 0 THEN <<<<from, ahead>>, <<from, to>>>> ELSE p
        BY <3>1 DEF CyclePath, range
      <3>3. QED
        BY <1>3, <3>2
    <2>2. range \in Int /\ wraps * range \in Int
      OBVIOUS
    <2>3. to - wraps * range \in Int
      BY <2>2
    <2>4. p \in [1 .. wraps + 1 -> Int \X Int]
      BY <2>3
    <2>5. wraps + 1 \in Nat \ {0}
      OBVIOUS
    <2> HIDE DEF p
    <2>6. QED
      BY <2>1, <2>4, <2>5 DEF Legs
  <1>4. QED
    BY <1>2, <1>3

\* The path of an oscillating counter has at least one leg.
LEMMA BounceType ==
  ASSUME NEW from \in Int, NEW d \in Nat, NEW behind \in Int, NEW ahead \in Int, behind =< ahead
  PROVE  BouncePath(from, d, behind, ahead) \in Legs /\ Len(BouncePath(from, d, behind, ahead)) \in Nat \ {0}
  <1> DEFINE range    == ahead - behind
             rest     == d - (ahead - from)
             crossing == rest \div range
             left     == rest % range
             last     == crossing + 2
             p        == [i \in 1 .. last |->
                            <<IF i = 1 THEN from ELSE Turning(i - 1, behind, ahead),
                              IF i < last THEN Turning(i, behind, ahead)
                              ELSE IF last % 2 = 0 THEN ahead - left ELSE behind + left>>]
  <1>1. BouncePath(from, d, behind, ahead) =
          IF d = 0 \/ rest < 0 THEN <<<<from, from + d>>>>
          ELSE IF range = 0 THEN <<<<from, ahead>>, <<ahead, ahead>>>> ELSE p
    BY DEF BouncePath
  <1>2. range \in Nat /\ rest \in Int
    OBVIOUS
  <1>3. CASE d = 0 \/ rest < 0
    BY <1>1, <1>3, OneLeg
  <1>4. CASE ~(d = 0 \/ rest < 0) /\ range = 0
    BY <1>1, <1>4, TwoLegs
  <1>5. CASE ~(d = 0 \/ rest < 0) /\ range # 0
    <2> HIDE DEF range, rest
    <2>1. crossing \in Nat /\ left \in Int
      BY <1>2, <1>5, Quotient
    <2> HIDE DEF crossing, left
    <2>2. last \in Nat \ {0} /\ ahead - left \in Int /\ behind + left \in Int
      BY <2>1
    <2>3. \A i : Turning(i, behind, ahead) \in Int
      BY DEF Turning
    <2> HIDE DEF last
    <2>4. p \in [1 .. last -> Int \X Int]
      BY <2>2, <2>3
    <2> HIDE DEF p
    <2>5. QED
      BY <1>1, <1>5, <2>2, <2>4 DEF Legs
  <1>6. QED
    BY <1>3, <1>4, <1>5

\* The path of every mode has at least one leg.
LEMMA RouteType ==
  ASSUME NEW mode, NEW from \in Int, NEW d \in Nat, NEW behind \in Int, NEW ahead \in Int, behind =< ahead
  PROVE  Route(mode, from, d, behind, ahead) \in Legs /\ Len(Route(mode, from, d, behind, ahead)) \in Nat \ {0}
  <1>1. from + d \in Int
    OBVIOUS
  <1>2. PICK one, other : one = <<<<from, ahead>>>> /\ other = <<<<from, from + d>>>>
    OBVIOUS
  <1>3. one \in Legs /\ Len(one) \in Nat \ {0} /\ other \in Legs /\ Len(other) \in Nat \ {0}
    BY <1>1, <1>2, OneLeg
  <1>4. PICK cycle, bounce : /\ cycle = CyclePath(from, from + d, behind, ahead)
                             /\ bounce = BouncePath(from, d, behind, ahead)
    OBVIOUS
  <1>5. cycle \in Legs /\ Len(cycle) \in Nat \ {0} /\ bounce \in Legs /\ Len(bounce) \in Nat \ {0}
    BY <1>1, <1>4, CycleType, BounceType
  <1>6. Route(mode, from, d, behind, ahead) \in {one, other, cycle, bounce}
    BY <1>2, <1>4 DEF Route
  <1>7. QED
    BY <1>3, <1>5, <1>6

\* The frame of a move by delta: whether its counts are the counter's or their
\* mirror images, and the bounds towards which and from which it goes.
MirrorOf(c, delta) == IF (c.end >= c.start) = (delta >= 0) THEN 1 ELSE -1
\* The bound the counter moves towards, in the frame.
AheadOf(c, delta) == MirrorOf(c, delta) * (IF delta >= 0 THEN c.end ELSE c.start)
\* The bound behind it.
BehindOf(c, delta) ==
  MirrorOf(c, delta) * (c.start + c.end - (IF delta >= 0 THEN c.end ELSE c.start))
\* Where it begins.
FromOf(c, delta) == MirrorOf(c, delta) * c.count
\* How far it moves.
Size(delta) == IF delta >= 0 THEN delta ELSE -delta

\* An advance by nothing of a counter whose range is upside down.
Still(c, delta) == delta = 0 /\ c.end < c.start

\* The legs of an advance by delta, in the frame.
RouteOf(c, delta) ==
  IF Still(c, delta) THEN <<<<FromOf(c, delta), FromOf(c, delta)>>>>
  ELSE Route(c.mode, FromOf(c, delta), Size(delta), BehindOf(c, delta), AheadOf(c, delta))

\* The frame does what Path does: far and near bound, and count.
LEMMA Frames ==
  ASSUME NEW c \in CounterType, NEW delta \in Int
  PROVE  /\ c.end >= c.start /\ delta >= 0 => /\ MirrorOf(c, delta) = 1 /\ AheadOf(c, delta) = c.end
                                              /\ BehindOf(c, delta) = c.start /\ FromOf(c, delta) = c.count
         /\ c.end >= c.start /\ delta < 0 => /\ MirrorOf(c, delta) = -1 /\ AheadOf(c, delta) = -c.start
                                             /\ BehindOf(c, delta) = -c.end /\ FromOf(c, delta) = -c.count
         /\ c.end < c.start /\ delta >= 0 => /\ MirrorOf(c, delta) = -1 /\ AheadOf(c, delta) = -c.end
                                             /\ BehindOf(c, delta) = -c.start /\ FromOf(c, delta) = -c.count
         /\ c.end < c.start /\ delta < 0 => /\ MirrorOf(c, delta) = 1 /\ AheadOf(c, delta) = c.start
                                            /\ BehindOf(c, delta) = c.end /\ FromOf(c, delta) = c.count
  <1>1. c.start \in Int /\ c.end \in Int /\ c.count \in Int
    BY DEF CounterType
  <1>2. CASE c.end >= c.start /\ delta >= 0
    <2>1. MirrorOf(c, delta) = 1
      BY <1>1, <1>2 DEF MirrorOf
    <2>2. QED
      BY <1>1, <1>2, <2>1 DEF AheadOf, BehindOf, FromOf
  <1>3. CASE c.end >= c.start /\ delta < 0
    <2>1. MirrorOf(c, delta) = -1
      <3>1. ~((c.end >= c.start) = (delta >= 0))
        BY <1>1, <1>3
      <3>2. QED
        BY <3>1 DEF MirrorOf
    <2>2. QED
      BY <1>1, <1>3, <2>1 DEF AheadOf, BehindOf, FromOf
  <1>4. CASE c.end < c.start /\ delta >= 0
    <2>1. MirrorOf(c, delta) = -1
      <3>1. ~((c.end >= c.start) = (delta >= 0))
        BY <1>1, <1>4
      <3>2. QED
        BY <3>1 DEF MirrorOf
    <2>2. QED
      BY <1>1, <1>4, <2>1 DEF AheadOf, BehindOf, FromOf
  <1>5. CASE c.end < c.start /\ delta < 0
    <2>1. MirrorOf(c, delta) = 1
      <3>1. (c.end >= c.start) = (delta >= 0)
        BY <1>1, <1>5
      <3>2. QED
        BY <3>1 DEF MirrorOf
    <2>2. QED
      BY <1>1, <1>5, <2>1 DEF AheadOf, BehindOf, FromOf
  <1>6. QED
    BY <1>1, <1>2, <1>3, <1>4, <1>5

\* The frame has integer bounds, and the one ahead is not below the one behind.
LEMMA FrameType ==
  ASSUME NEW c \in CounterType, NEW delta \in Int
  PROVE  /\ MirrorOf(c, delta) \in {1, -1} /\ AheadOf(c, delta) \in Int /\ BehindOf(c, delta) \in Int
         /\ FromOf(c, delta) \in Int /\ Size(delta) \in Nat
         /\ BehindOf(c, delta) =< AheadOf(c, delta)
         /\ c.start # c.end => BehindOf(c, delta) < AheadOf(c, delta)
         /\ c.count = MirrorOf(c, delta) * FromOf(c, delta)
  <1>1. c.start \in Int /\ c.end \in Int /\ c.count \in Int
    BY DEF CounterType
  <1>2. Size(delta) \in Nat
    BY DEF Size
  <1>3. PICK m, a, b, f : /\ m = MirrorOf(c, delta) /\ a = AheadOf(c, delta)
                          /\ b = BehindOf(c, delta) /\ f = FromOf(c, delta)
    OBVIOUS
  <1>4. \/ m = 1 /\ a = c.end /\ b = c.start /\ f = c.count /\ c.end >= c.start
        \/ m = -1 /\ a = -c.start /\ b = -c.end /\ f = -c.count /\ c.end >= c.start
        \/ m = -1 /\ a = -c.end /\ b = -c.start /\ f = -c.count /\ c.end < c.start
        \/ m = 1 /\ a = c.start /\ b = c.end /\ f = c.count /\ c.end < c.start
    BY <1>1, <1>3, Frames
  <1>5. /\ m \in {1, -1} /\ a \in Int /\ b \in Int /\ f \in Int /\ b =< a
        /\ c.start # c.end => b < a
    BY <1>1, <1>4
  <1>6. c.count = m * f
    BY <1>1, <1>4
  <1>7. QED
    BY <1>2, <1>3, <1>5, <1>6

\* An advance has an integer length.
LEMMA DeltaType ==
  ASSUME NEW c \in CounterType, NEW amount \in Int
  PROVE  Delta(c, amount) \in Int
  BY DEF CounterType, Delta

\* A counter's path has at least one leg.
LEMMA RouteOfType ==
  ASSUME NEW c \in CounterType, NEW delta \in Int
  PROVE  RouteOf(c, delta) \in Legs /\ Len(RouteOf(c, delta)) \in Nat \ {0}
  <1>1. CASE Still(c, delta)
    BY <1>1, OneLeg, FrameType DEF RouteOf
  <1>2. CASE ~Still(c, delta)
    <2>1. RouteOf(c, delta) =
            Route(c.mode, FromOf(c, delta), Size(delta), BehindOf(c, delta), AheadOf(c, delta))
      BY <1>2 DEF RouteOf
    <2>2. QED
      BY <2>1, FrameType, RouteType
  <1>3. QED
    BY <1>1, <1>2

\* Path in its frame.
LEMMA PathIs ==
  ASSUME NEW c \in CounterType, NEW amount \in Int, NEW delta, delta = Delta(c, amount)
  PROVE  Path(c, amount) =
           [legs |-> Mirrored(MirrorOf(c, delta), RouteOf(c, delta)),
            ends |-> /\ c.mode = "ONCE" /\ FromOf(c, delta) + Size(delta) >= AheadOf(c, delta)
                     /\ ~Still(c, delta),
            turned |-> c.mode = "OSCILLATE" /\ Len(RouteOf(c, delta)) % 2 = 0]
  <1> DEFINE e == Delta(c, amount)
  <1>1. Path(c, amount) =
          [legs |-> [i \in DOMAIN RouteOf(c, e) |->
                       <<MirrorOf(c, e) * RouteOf(c, e)[i][1], MirrorOf(c, e) * RouteOf(c, e)[i][2]>>],
           ends |-> c.mode = "ONCE" /\ FromOf(c, e) + Size(e) >= AheadOf(c, e) /\ ~Still(c, e),
           turned |-> c.mode = "OSCILLATE" /\ Len(RouteOf(c, e)) % 2 = 0]
    BY Zenon DEF Path, RouteOf, Still, FromOf, Size, AheadOf, BehindOf, MirrorOf
  <1>2. delta = e
    OBVIOUS
  <1> HIDE DEF e
  <1>3. QED
    BY <1>1, <1>2, Zenon DEF Mirrored

\* Where an advance goes; a counter whose count is bound follows it.
PathOf(c, amount) ==
  IF c.bound THEN [legs |-> <<<<c.oldCount, c.count>>>>, ends |-> FALSE, turned |-> FALSE]
  ELSE Path(c, amount)

\* The path of an advance, bound or not, has at least one leg.
LEMMA PathOfType ==
  ASSUME NEW c \in CounterType, NEW amount \in Int
  PROVE  /\ PathOf(c, amount).legs \in Legs /\ Len(PathOf(c, amount).legs) \in Nat \ {0}
         /\ PathOf(c, amount).ends \in BOOLEAN /\ PathOf(c, amount).turned \in BOOLEAN
  <1>1. CASE c.bound
    <2>1. PathOf(c, amount) = [legs |-> <<<<c.oldCount, c.count>>>>, ends |-> FALSE, turned |-> FALSE]
      BY <1>1 DEF PathOf
    <2>2. c.oldCount \in Int /\ c.count \in Int
      BY DEF CounterType
    <2>3. QED
      BY <2>1, <2>2, OneLeg
  <1>2. CASE ~c.bound
    <2>1. PICK delta \in Int : delta = Delta(c, amount)
      BY DeltaType
    <2>2. PathOf(c, amount) = Path(c, amount)
      BY <1>2 DEF PathOf
    <2>3. PICK m \in {1, -1} : m = MirrorOf(c, delta)
      BY FrameType
    <2>4. PICK legs \in Legs : legs = Mirrored(m, RouteOf(c, delta)) /\ Len(legs) \in Nat \ {0}
      BY RouteOfType, MirroredType
    <2>5. PICK ends, turned \in BOOLEAN : Path(c, amount) = [legs |-> legs, ends |-> ends, turned |-> turned]
      BY <2>1, <2>3, <2>4, PathIs
    <2>6. QED
      BY <2>2, <2>4, <2>5
  <1>3. QED
    BY <1>1, <1>2

\* What an advance makes of a counter: the counter k, where p is where it goes.
IsAdvance(c, amount, p, n, after, k) ==
  /\ p = PathOf(c, amount) /\ n = Len(p.legs) /\ after = Along(c, p.legs)[n]
  /\ k = Advance(c, amount).counter
  /\ n \in Nat \ {0} /\ p.legs \in Legs /\ Good(c.callbacks, after)
  /\ Advance(c, amount).called = after.called
  /\ Advance(c, amount).called \in Seq(CallsOf(c.callbacks))
  /\ Fine(k) /\ k.next = after.next /\ k.prev = after.prev /\ k.lastEnd = after.lastEnd
  /\ k.count = p.legs[n][2] /\ k.forward = (c.forward # p.turned)
  /\ k.running = (c.running /\ ~p.ends)
  /\ k.callbacks = c.callbacks /\ k.attached = c.attached /\ k.bound = c.bound
  /\ k.mode = c.mode /\ k.start = c.start /\ k.end = c.end /\ k.multiplier = c.multiplier

\* Every advance is of that form.
LEMMA Advanced ==
  ASSUME NEW c, Fine(c), NEW amount \in Int
  PROVE  \E p, n, after, k : IsAdvance(c, amount, p, n, after, k)
  <1>0. PICK p, n, after, k : /\ p = PathOf(c, amount) /\ n = Len(p.legs) /\ after = Along(c, p.legs)[n]
                              /\ k = Advance(c, amount).counter
    OBVIOUS
  <1>1. c \in CounterType /\ Sorted(c.callbacks)
    BY DEF Fine
  <1>2. /\ p.legs \in Legs /\ n \in Nat \ {0} /\ p.ends \in BOOLEAN /\ p.turned \in BOOLEAN
    BY <1>0, <1>1, PathOfType
  <1>3. PICK x \in Int, y \in Int : p.legs[n] = <<x, y>>
    <2>1. n \in 1 .. Len(p.legs)
      BY <1>0, <1>2
    <2>2. p.legs[n] \in Int \X Int
      BY <1>2, <2>1, ElementOfSeq DEF Legs
    <2>3. QED
      BY <2>2
  <1>4. Good(c.callbacks, after)
    <2>1. n \in 0 .. Len(p.legs)
      BY <1>0, <1>2
    <2>2. QED
      BY <1>0, <1>2, <2>1, GoodAlong
  <1>5. /\ Advance(c, amount).called = after.called
        /\ k = [c EXCEPT !.next = after.next, !.prev = after.prev, !.lastEnd = after.lastEnd,
                         !.count = y, !.oldCount = IF c.bound THEN y ELSE x,
                         !.forward = (c.forward # p.turned), !.running = c.running /\ ~p.ends]
    <2>1. Advance(c, amount) =
            [counter |-> [c EXCEPT !.next = after.next, !.prev = after.prev, !.lastEnd = after.lastEnd,
                        !.count = p.legs[n][2],
                        !.oldCount = IF c.bound THEN p.legs[n][2] ELSE p.legs[n][1],
                        !.forward = (c.forward # p.turned), !.running = c.running /\ ~p.ends],
             called |-> after.called]
      BY <1>0, Zenon DEF Advance, PathOf, Last
    <2>2. p.legs[n][1] = x /\ p.legs[n][2] = y
      BY <1>3
    <2>3. PICK new : new = [c EXCEPT !.next = after.next, !.prev = after.prev, !.lastEnd = after.lastEnd,
                         !.count = y, !.oldCount = IF c.bound THEN y ELSE x,
                         !.forward = (c.forward # p.turned), !.running = c.running /\ ~p.ends]
      BY Zenon
    <2>4. Advance(c, amount) = [counter |-> new, called |-> after.called]
      BY <2>1, <2>2, <2>3, Zenon
    <2>5. k = new /\ Advance(c, amount).called = after.called
      BY <1>0, <2>4
    <2>6. QED
      BY <2>3, <2>5, Zenon
  <1>6. /\ after.next \in Int /\ after.prev \in Int /\ after.lastEnd \in Int
        /\ after.called \in Seq(CallsOf(c.callbacks)) /\ Remembers(c.callbacks, after)
    BY <1>4 DEF Good
  <1>7. PICK old \in Int : old = IF c.bound THEN y ELSE x
    OBVIOUS
  <1>8. PICK f \in BOOLEAN : f = (c.forward # p.turned)
    OBVIOUS
  <1>9. PICK g \in BOOLEAN : g = (c.running /\ ~p.ends)
    OBVIOUS
  <1>10. k = [c EXCEPT !.next = after.next, !.prev = after.prev, !.lastEnd = after.lastEnd,
                      !.count = y, !.oldCount = old, !.forward = f, !.running = g]
    BY <1>5, <1>7, <1>8, <1>9
  <1>11. /\ k \in CounterType
         /\ k.next = after.next /\ k.prev = after.prev /\ k.lastEnd = after.lastEnd
         /\ k.count = y /\ k.forward = f /\ k.running = g
         /\ k.callbacks = c.callbacks /\ k.attached = c.attached /\ k.bound = c.bound
         /\ k.mode = c.mode /\ k.start = c.start /\ k.end = c.end /\ k.multiplier = c.multiplier
    <2>1. PICK next \in Int, prev \in Int, lastEnd \in Int :
            next = after.next /\ prev = after.prev /\ lastEnd = after.lastEnd
      BY <1>6
    <2>2. k = [c EXCEPT !.next = next, !.prev = prev, !.lastEnd = lastEnd,
                        !.count = y, !.oldCount = old, !.forward = f, !.running = g]
      BY <1>10, <2>1, Zenon
    <2>3. /\ k \in CounterType
          /\ k.next = next /\ k.prev = prev /\ k.lastEnd = lastEnd
          /\ k.count = y /\ k.forward = f /\ k.running = g
          /\ k.callbacks = c.callbacks /\ k.attached = c.attached /\ k.bound = c.bound
          /\ k.mode = c.mode /\ k.start = c.start /\ k.end = c.end /\ k.multiplier = c.multiplier
      BY <1>1, <2>2 DEF CounterType
    <2>4. QED
      BY <2>1, <2>3
  <1>12. Fine(k)
    <2>1. Remembers(c.callbacks, k)
      BY <1>6, <1>11 DEF Remembers
    <2>2. QED
      BY <1>1, <1>11, <2>1 DEF Fine
  <1>13. QED
    <2>1. Advance(c, amount).called = after.called
      BY <1>5
    <2>2. Advance(c, amount).called \in Seq(CallsOf(c.callbacks))
      BY <1>6, <2>1
    <2>3. k.count = p.legs[n][2]
      BY <1>3, <1>11
    <2>4. k.forward = (c.forward # p.turned)
      BY <1>8, <1>11, Zenon
    <2>5. k.running = (c.running /\ ~p.ends)
      BY <1>9, <1>11, Zenon
    <2>6. QED
      BY <1>0, <1>2, <1>4, <1>11, <1>12, <2>1, <2>2, <2>3, <2>4, <2>5, Zenon DEF IsAdvance

-----------------------------------------------------------------------------
(* What the client makes of a counter                                       *)

\* An operation that leaves the callbacks and the places alone.
LEMMA SamePlaces ==
  ASSUME NEW c, Fine(c), NEW k \in CounterType,
         k.callbacks = c.callbacks, k.next = c.next, k.prev = c.prev, k.lastEnd = c.lastEnd
  PROVE  Fine(k)
  BY DEF Fine, Remembers

\* An operation after which nothing is remembered.
LEMMA NoPlaces ==
  ASSUME NEW k \in CounterType, Sorted(k.callbacks), k.next = -1, k.prev = -1
  PROVE  Fine(k)
  <1>1. Len(k.callbacks) \in Nat /\ k.lastEnd \in Int
    BY DEF CounterType
  <1>2. QED
    BY <1>1 DEF Fine, Remembers

\* Forgetting the places does no harm.
LEMMA FreshFine ==
  ASSUME NEW k \in CounterType, Sorted(k.callbacks)
  PROVE  /\ Fine(Fresh(k)) /\ Fresh(k).callbacks = k.callbacks
         /\ Fresh(k).attached = k.attached
  <1>1. PICK unknown \in Int : unknown = -1
    OBVIOUS
  <1>2. PICK f : f = [k EXCEPT !.next = unknown, !.prev = unknown]
    OBVIOUS
  <1>3. /\ f \in CounterType /\ f.next = unknown /\ f.prev = unknown
        /\ f.callbacks = k.callbacks /\ f.attached = k.attached
    BY <1>2 DEF CounterType
  <1>4. Fresh(k) = f
    BY <1>1, <1>2 DEF Fresh
  <1>5. QED
    BY <1>1, <1>3, <1>4, NoPlaces

\* A new counter.
LEMMA NewFine ==
  ASSUME NEW s \in [mode : Modes, start : Int, end : Int, multiplier : Int]
  PROVE  /\ Fine(NewCounter(s)) /\ NewCounter(s).callbacks = <<>>
         /\ NewCounter(s).running /\ ~NewCounter(s).attached
  <1>1. <<>> \in Seq(Int) /\ Sorted(<<>>)
    BY DEF Sorted
  <1>2. /\ NewCounter(s) \in CounterType /\ NewCounter(s).callbacks = <<>>
        /\ NewCounter(s).next = -1 /\ NewCounter(s).prev = -1
        /\ NewCounter(s).running /\ ~NewCounter(s).attached
    BY <1>1 DEF NewCounter, CounterType
  <1>3. QED
    BY <1>1, <1>2, NoPlaces

\* Setting the count.
LEMMA CountSet ==
  ASSUME NEW c, Fine(c), NEW v \in Int
  PROVE  /\ Fine(SetCount(c, v)) /\ SetCount(c, v).callbacks = c.callbacks
         /\ SetCount(c, v).attached = c.attached
  <1>1. c \in CounterType /\ Sorted(c.callbacks)
    BY DEF Fine
  <1>2. PICK k : k = [c EXCEPT !.count = v, !.oldCount = v]
    OBVIOUS
  <1>3. k \in CounterType /\ k.callbacks = c.callbacks /\ k.attached = c.attached
    BY <1>1, <1>2 DEF CounterType
  <1>4. SetCount(c, v) = Fresh(k)
    BY <1>2 DEF SetCount
  <1>5. QED
    BY <1>1, <1>3, <1>4, FreshFine

\* Another list of callbacks.
LEMMA CallbacksSet ==
  ASSUME NEW c, Fine(c), NEW S, S \subseteq Int, NEW cb \in Seq(S), Sorted(cb)
  PROVE  /\ Fine(Fresh([c EXCEPT !.callbacks = cb]))
         /\ Fresh([c EXCEPT !.callbacks = cb]).callbacks = cb
         /\ Fresh([c EXCEPT !.callbacks = cb]).attached = c.attached
  <1>1. c \in CounterType /\ cb \in Seq(Int)
    BY SeqMonotonic DEF Fine
  <1>2. PICK k : k = [c EXCEPT !.callbacks = cb]
    OBVIOUS
  <1>3. k \in CounterType /\ k.callbacks = cb /\ k.attached = c.attached
    BY <1>1, <1>2 DEF CounterType
  <1>4. Fine(Fresh(k)) /\ Fresh(k).callbacks = cb /\ Fresh(k).attached = c.attached
    BY <1>3, FreshFine
  <1>5. QED
    BY <1>2, <1>4

\* Adding a callback.
LEMMA AddedFine ==
  ASSUME NEW c, Fine(c), NEW S, S \subseteq Int, c.callbacks \in Seq(S), NEW at \in S
  PROVE  /\ Fine(AddCallback(c, at)) /\ AddCallback(c, at).callbacks \in Seq(S)
         /\ AddCallback(c, at).attached = c.attached
  <1>1. c \in CounterType /\ Sorted(c.callbacks)
    BY DEF Fine
  <1>2. CASE Contains(c.callbacks, at)
    BY <1>1, <1>2, FreshFine DEF AddCallback
  <1>3. CASE ~Contains(c.callbacks, at)
    <2>1. PICK cb \in Seq(S) : Sorted(cb) /\ cb = InsertAt(c.callbacks, NumberBelow(c.callbacks, at) + 1, at)
      BY <1>1, <1>3, CallbackAdded
    <2>2. AddCallback(c, at) = Fresh([c EXCEPT !.callbacks = cb])
      BY <1>3, <2>1 DEF AddCallback
    <2>3. QED
      BY <2>1, <2>2, CallbacksSet
  <1>4. QED
    BY <1>2, <1>3

\* Removing a callback.
LEMMA RemovedFine ==
  ASSUME NEW c, Fine(c), NEW S, S \subseteq Int, c.callbacks \in Seq(S), NEW at \in S
  PROVE  /\ Fine(RemoveCallback(c, at)) /\ RemoveCallback(c, at).callbacks \in Seq(S)
         /\ RemoveCallback(c, at).attached = c.attached
  <1>1. c \in CounterType /\ Sorted(c.callbacks)
    BY DEF Fine
  <1>2. CASE ~Contains(c.callbacks, at)
    BY <1>2 DEF RemoveCallback
  <1>3. CASE Contains(c.callbacks, at)
    <2>1. PICK cb \in Seq(S) : Sorted(cb) /\ cb = RemoveFirst(c.callbacks, at)
      BY <1>1, <1>3, CallbackRemoved
    <2>2. RemoveCallback(c, at) = Fresh([c EXCEPT !.callbacks = cb])
      BY <1>3, <2>1 DEF RemoveCallback
    <2>3. QED
      BY <2>1, <2>2, CallbacksSet
  <1>4. QED
    BY <1>2, <1>3

\* Removing all callbacks.
LEMMA AllRemovedFine ==
  ASSUME NEW c, Fine(c), NEW S, S \subseteq Int
  PROVE  /\ Fine(RemoveAllCallbacks(c)) /\ RemoveAllCallbacks(c).callbacks \in Seq(S)
         /\ RemoveAllCallbacks(c).attached = c.attached
  <1>1. <<>> \in Seq(S) /\ Sorted(<<>>)
    BY DEF Sorted
  <1>2. QED
    BY <1>1, CallbacksSet DEF RemoveAllCallbacks

-----------------------------------------------------------------------------
(* The parts of the invariant                                               *)

\* The parts of Inv about the counters, one by one.
CounterInv ==
  /\ counter \in [Counters -> CounterType]
  /\ \A c \in Counters : Fine(counter[c]) /\ counter[c].callbacks \in Seq(CallbackCounts[c])

\* What a queue holds.
Item == [counter : Counters, at : Int, up : BOOLEAN] \cup {Resume}

\* The types of the other variables.
OtherTypes ==
  /\ registered \in [Types -> Seq(Counters)]
  /\ rounds \in Seq([type : Types, amount : Nat])
  /\ pass \in [copy : Seq(Counters), next : Nat \ {0}, amount : Nat]
  /\ queue \in Seq(Item)
  /\ calling \in BOOLEAN
  /\ throughout \subseteq Counters /\ advanced \in [Counters -> Nat]

\* Inv is these parts together with those about the manager's lists.
LEMMA Parts == Inv <=> CounterInv /\ OtherTypes /\ RegisteredRun /\ PassInv
  <1>1. ASSUME Inv PROVE CounterInv
    <2>1. counter \in [Counters -> CounterType]
      BY <1>1 DEF Inv, TypeOK
    <2>2. ASSUME NEW c \in Counters PROVE Fine(counter[c]) /\ counter[c].callbacks \in Seq(CallbackCounts[c])
      <3> DEFINE k == counter[c]
      <3>1. /\ k \in CounterType /\ k.callbacks \in Seq(CallbackCounts[c])
            /\ k.next \in -1 .. Len(k.callbacks) /\ k.prev \in -1 .. Len(k.callbacks) - 1
        BY <1>1 DEF Inv, TypeOK
      <3>2. /\ k.next >= 0 => k.next = NumberBelow(k.callbacks, k.lastEnd + 1)
            /\ k.prev >= 0 => k.prev = NumberBelow(k.callbacks, k.lastEnd) - 1
            /\ k.next < 0 \/ k.prev < 0
        BY <1>1 DEF Inv, RememberedPlaces
      <3>3. Sorted(k.callbacks)
        BY <1>1 DEF Inv, SortedCallbacks
      <3> HIDE DEF k
      <3>4. k.lastEnd \in Int
        BY <3>1 DEF CounterType
      <3>5. Fine(k)
        BY <3>1, <3>2, <3>3, <3>4 DEF Fine, Remembers
      <3>6. QED
        BY <3>1, <3>5 DEF k
    <2>3. QED
      BY <2>1, <2>2 DEF CounterInv
  <1>2. ASSUME CounterInv PROVE RememberedPlaces /\ SortedCallbacks
    BY <1>2 DEF CounterInv, Fine, Remembers, RememberedPlaces, SortedCallbacks
  <1>3. ASSUME CounterInv, OtherTypes PROVE TypeOK
    BY <1>3 DEF CounterInv, OtherTypes, Fine, Remembers, TypeOK, Item
  <1>4. Inv => OtherTypes
    BY DEF Inv, TypeOK, OtherTypes, Item
  <1>5. QED
    BY <1>1, <1>2, <1>3, <1>4 DEF Inv

-----------------------------------------------------------------------------
(* Steps                                                                    *)

\* What client code, or an advance, does to the lists of the manager.
LEMMA Became ==
  ASSUME Inv, NEW c \in Counters, counter[c].attached,
         NEW new, Fine(new), new.callbacks \in Seq(CallbackCounts[c]), new.attached,
         Becomes(c, new)
  PROVE  /\ CounterInv' /\ registered' \in [Types -> Seq(Counters)] /\ RegisteredRun'
         /\ throughout' \subseteq throughout /\ \A d \in throughout' : counter'[d].running
         /\ \A d \in Counters : counter[d].attached => counter'[d].attached
  <1> DEFINE k == counter[c]
             T == TypeOf[c]
  <1>1. CounterInv /\ OtherTypes /\ RegisteredRun /\ PassInv
    BY Parts
  <1>2. /\ counter \in [Counters -> CounterType] /\ k \in CounterType /\ new \in CounterType
        /\ registered \in [Types -> Seq(Counters)] /\ T \in Types
        /\ k.running \in BOOLEAN /\ new.running \in BOOLEAN
    BY <1>1, CounterAssumption DEF CounterInv, OtherTypes, Fine, CounterType
  <1>3. counter' = [counter EXCEPT ![c] = new]
    BY DEF Becomes
  <1>4. counter'[c] = new /\ \A d \in Counters : d # c => counter'[d] = counter[d]
    BY <1>2, <1>3
  <1>5. CounterInv'
    <2>1. counter' \in [Counters -> CounterType]
      BY <1>2, <1>3
    <2>2. ASSUME NEW d \in Counters
          PROVE  Fine(counter'[d]) /\ counter'[d].callbacks \in Seq(CallbackCounts[d])
      <3>1. CASE d = c
        BY <1>4, <3>1
      <3>2. CASE d # c
        BY <1>1, <1>4, <3>2 DEF CounterInv
      <3>3. QED
        BY <3>1, <3>2
    <2>3. QED
      BY <2>1, <2>2 DEF CounterInv, Fine, Remembers, NumberBelow, Sorted, CounterType
  <1>6. \A d \in Counters : counter[d].attached => counter'[d].attached
    BY <1>4
  <1>7. throughout' \subseteq throughout /\ \A d \in throughout' : counter'[d].running
    <2>1. throughout' = IF new.running THEN throughout ELSE throughout \ {c}
      BY DEF Becomes
    <2>2. throughout \subseteq Counters /\ \A d \in throughout : counter[d].running
      BY <1>1 DEF PassInv, OtherTypes
    <2>3. CASE new.running
      BY <1>4, <2>1, <2>2, <2>3
    <2>4. CASE ~new.running
      BY <1>4, <2>1, <2>2, <2>4
    <2>5. QED
      BY <2>3, <2>4
  <1>8. /\ \A t \in Types : IsInjective(registered[t])
        /\ \A t \in Types, d \in Counters :
              Contains(registered[t], d) <=> TypeOf[d] = t /\ counter[d].attached /\ counter[d].running
        /\ \A d \in Counters : counter[d].attached \/ counter[d].running
    BY <1>1 DEF RegisteredRun
  <1>9. registered' = IF k.running = new.running THEN registered
                      ELSE [registered EXCEPT ![T] = IF new.running THEN Append(@, c) ELSE RemoveFirst(@, c)]
    BY DEF Becomes, Registering
  <1>10. /\ registered' \in [Types -> Seq(Counters)]
         /\ \A t \in Types : /\ t # T => registered'[t] = registered[t]
                             /\ IsInjective(registered'[t])
         /\ \A d \in Counters :
               Contains(registered'[T], d) <=> IF d = c THEN new.running ELSE Contains(registered[T], d)
    <2>1. CASE k.running = new.running
      <3>1. registered' = registered
        BY <1>9, <2>1, Zenon
      <3>2. Contains(registered[T], c) <=> new.running
        BY <1>2, <1>8, <2>1
      <3>3. QED
        BY <1>2, <1>8, <3>1, <3>2
    <2>2. CASE ~k.running /\ new.running
      <3>1. PICK s \in Seq(Counters) : s = Append(registered[T], c)
        <4>1. registered[T] \in Seq(Counters)
          BY <1>2
        <4>2. Append(registered[T], c) \in Seq(Counters)
          BY <4>1, AppendProperties
        <4>3. QED
          BY <4>2
      <3>2. registered' = [registered EXCEPT ![T] = s]
        BY <1>9, <2>2, <3>1
      <3>3. ~Contains(registered[T], c)
        BY <1>2, <1>8, <2>2
      <3>4. /\ IsInjective(s) /\ \A x : Contains(s, x) <=> Contains(registered[T], x) \/ x = c
        BY <1>2, <1>8, <3>1, <3>3, Registered
      <3>5. registered'[T] = s /\ \A t \in Types : t # T => registered'[t] = registered[t]
        BY <1>2, <3>2
      <3>6. registered' \in [Types -> Seq(Counters)]
        BY <1>2, <3>2
      <3>7. QED
        BY <1>2, <1>8, <2>2, <3>4, <3>5, <3>6
    <2>3. CASE k.running /\ ~new.running
      <3>1. Contains(registered[T], c)
        BY <1>2, <1>8, <2>3
      <3>2. PICK s \in Seq(Counters) : s = RemoveFirst(registered[T], c)
        BY <1>2, <1>8, <3>1, Unregistered
      <3>3. registered' = [registered EXCEPT ![T] = s]
        BY <1>9, <2>3, <3>2
      <3>4. /\ IsInjective(s) /\ \A x : Contains(s, x) <=> Contains(registered[T], x) /\ x # c
        BY <1>2, <1>8, <3>1, <3>2, Unregistered
      <3>5. registered'[T] = s /\ \A t \in Types : t # T => registered'[t] = registered[t]
        BY <1>2, <3>3
      <3>6. registered' \in [Types -> Seq(Counters)]
        BY <1>2, <3>3
      <3>7. QED
        BY <1>2, <1>8, <2>3, <3>4, <3>5, <3>6
    <2>4. QED
      BY <1>2, <2>1, <2>2, <2>3
  <1>11. RegisteredRun'
    <2>1. ASSUME NEW t \in Types, NEW d \in Counters
          PROVE  Contains(registered'[t], d) <=> TypeOf[d] = t /\ counter'[d].attached /\ counter'[d].running
      <3>1. CASE t # T
        <4>1. Contains(registered'[t], d) <=> TypeOf[d] = t /\ counter[d].attached /\ counter[d].running
          BY <1>8, <1>10, <3>1
        <4>2. QED
          BY <1>4, <3>1, <4>1
      <3>2. CASE t = T /\ d # c
        <4>1. Contains(registered'[t], d) <=> TypeOf[d] = t /\ counter[d].attached /\ counter[d].running
          BY <1>8, <1>10, <3>2
        <4>2. QED
          BY <1>4, <3>2, <4>1
      <3>3. CASE t = T /\ d = c
        BY <1>4, <1>10, <3>3
      <3>4. QED
        BY <3>1, <3>2, <3>3
    <2>2. \A d \in Counters : counter'[d].attached \/ counter'[d].running
      BY <1>4, <1>8
    <2>3. QED
      BY <1>10, <2>1, <2>2 DEF RegisteredRun, Contains, IsInjective
  <1>12. QED
    BY <1>5, <1>6, <1>7, <1>10, <1>11

\* Client code does not touch the pass.
LEMMA PassKept ==
  ASSUME Inv, UNCHANGED <<pass, advanced>>, throughout' \subseteq throughout,
         \A d \in throughout' : counter'[d].running,
         \A d \in Counters : counter[d].attached => counter'[d].attached
  PROVE  PassInv'
  <1>1. PassInv /\ OtherTypes
    BY Parts
  <1>2. pass' = pass /\ advanced' = advanced /\ Passed' = Passed
    BY DEF Passed, List
  <1>3. ToSet(pass.copy) \subseteq Counters
    BY <1>1 DEF OtherTypes, ToSet
  <1>4. IsInjective(pass'.copy) /\ pass'.next =< Len(pass'.copy) + 1
    BY <1>1, <1>2 DEF PassInv, IsInjective
  <1>5. \A c \in ToSet(pass'.copy) : counter'[c].attached
    BY <1>1, <1>2, <1>3 DEF PassInv
  <1>6. throughout' \subseteq ToSet(pass'.copy)
    BY <1>1, <1>2 DEF PassInv
  <1>7. \A c \in Counters : advanced'[c] =< 1 /\ (advanced'[c] = 1 => c \in Passed')
    BY <1>1, <1>2 DEF PassInv
  <1>8. \A c \in throughout' \cap Passed' : advanced'[c] = 1
    BY <1>1, <1>2 DEF PassInv
  <1>9. QED
    BY <1>4, <1>5, <1>6, <1>7, <1>8 DEF PassInv, IsInjective, ToSet

\* An advance of a counter by a natural number.
LEMMA AdvancedInv ==
  ASSUME Inv, NEW c \in Counters, NEW amount \in Int
  PROVE  LET result == Advance(counter[c], amount)
         IN  /\ Fine(result.counter) /\ result.counter.callbacks \in Seq(CallbackCounts[c])
             /\ result.counter.attached = counter[c].attached
             /\ Calls(c, result.called) \in Seq(Item)
  <1>1. Fine(counter[c]) /\ counter[c].callbacks \in Seq(CallbackCounts[c])
    BY Parts DEF CounterInv
  <1>2. PICK k : k = counter[c]
    OBVIOUS
  <1>3. Fine(k)
    BY <1>1, <1>2
  <1>4. PICK p, n, after, l : IsAdvance(k, amount, p, n, after, l)
    BY <1>3, Advanced
  <1>5. /\ Fine(l) /\ l.callbacks = k.callbacks /\ l.attached = k.attached
        /\ l = Advance(k, amount).counter
        /\ Advance(k, amount).called \in Seq(CallsOf(k.callbacks))
    BY <1>4, Zenon DEF IsAdvance
  <1>6. PICK called \in Seq(CallsOf(k.callbacks)) : called = Advance(k, amount).called
    BY <1>5
  <1>7. Calls(c, called) \in Seq(Item)
    <2>1. ToSet(k.callbacks) \subseteq Int
      BY <1>3 DEF Fine, CounterType, ToSet
    <2>2. PICK n1 \in Nat : n1 = Len(called) /\ DOMAIN called = 1 .. n1 /\ \A i \in 1 .. n1 : called[i] \in CallsOf(k.callbacks)
      OBVIOUS
    <2>3. \A i \in 1 .. n1 : called[i].at \in Int /\ called[i].up \in BOOLEAN
      BY <2>1, <2>2 DEF CallsOf
    <2>4. \A i \in 1 .. n1 : [counter |-> c, at |-> called[i].at, up |-> called[i].up] \in Item
      BY <2>3 DEF Item
    <2>5. Calls(c, called) \in [1 .. n1 -> Item]
      BY <2>2, <2>4 DEF Calls
    <2>6. QED
      BY <2>5
  <1>8. QED
    BY <1>1, <1>2, <1>4, <1>5, <1>6, <1>7

\* A step of the client that makes counter c new.
LEMMA ChangeStep ==
  ASSUME Inv, NEW c \in Counters, NEW new, Fine(new), new.callbacks \in Seq(CallbackCounts[c]),
         new.attached = counter[c].attached, Change(c, new)
  PROVE  Inv'
  <1>1. /\ counter[c].attached /\ Becomes(c, new)
        /\ UNCHANGED <<rounds, pass, queue, calling, advanced>>
    BY DEF Change
  <1>2. /\ CounterInv' /\ registered' \in [Types -> Seq(Counters)] /\ RegisteredRun'
        /\ throughout' \subseteq throughout /\ \A d \in throughout' : counter'[d].running
        /\ \A d \in Counters : counter[d].attached => counter'[d].attached
    BY <1>1, Became
  <1>3. PassInv'
    BY <1>1, <1>2, PassKept
  <1>4. OtherTypes'
    <2>1. OtherTypes
      BY Parts
    <2>2. QED
      BY <1>1, <1>2, <2>1 DEF OtherTypes, Item
  <1>5. QED
    BY <1>2, <1>3, <1>4, Parts, PTL

\* Inv holds initially.
LEMMA InitInv == Init => Inv
  <1> SUFFICES ASSUME Init PROVE Inv
    OBVIOUS
  <1>1. ASSUME NEW c \in Counters
        PROVE  /\ Fine(counter[c]) /\ counter[c].callbacks = <<>>
               /\ counter[c].running /\ ~counter[c].attached
    <2>1. PICK s \in Setups[c] : counter[c] = NewCounter(s)
      BY DEF Init
    <2>2. s \in [mode : Modes, start : Int, end : Int, multiplier : Int]
      BY CounterAssumption
    <2>3. QED
      BY <2>1, <2>2, NewFine
  <1>2. CounterInv
    <2>1. \A c \in Counters : counter[c] \in CounterType
      BY <1>1 DEF Fine
    <2>2. counter \in [Counters -> CounterType]
      BY <2>1 DEF Init
    <2>3. QED
      <3>1. \A c \in Counters : <<>> \in Seq(CallbackCounts[c])
        OBVIOUS
      <3>2. QED
        BY <1>1, <2>2, <3>1 DEF CounterInv
  <1>3. OtherTypes
    <2>1. registered \in [Types -> Seq(Counters)] /\ rounds \in Seq([type : Types, amount : Nat])
      BY DEF Init
    <2>2. pass \in [copy : Seq(Counters), next : Nat \ {0}, amount : Nat]
      BY DEF Init, NoPass
    <2>3. queue \in Seq(Item) /\ calling \in BOOLEAN /\ throughout \subseteq Counters
      <3>1. <<>> \in Seq(Item)
        BY EmptySeq
      <3>2. QED
        BY <3>1 DEF Init
    <2>4. advanced \in [Counters -> Nat]
      BY DEF Init
    <2>5. QED
      BY <2>1, <2>2, <2>3, <2>4 DEF OtherTypes
  <1>4. RegisteredRun
    <2>1. \A t \in Types : registered[t] = <<>>
      BY DEF Init
    <2>2. IsInjective(<<>>) /\ \A c : ~Contains(<<>>, c)
      BY DEF IsInjective, Contains
    <2>3. QED
      BY <1>1, <2>1, <2>2 DEF RegisteredRun
  <1>5. PassInv
    <2>1. pass.copy = <<>> /\ pass.next = 1 /\ throughout = {} /\ \A c \in Counters : advanced[c] = 0
      BY DEF Init, NoPass
    <2>2. IsInjective(<<>>) /\ Len(<<>>) = 0 /\ ToSet(<<>>) = {}
      BY DEF IsInjective, ToSet
    <2>3. QED
      BY <2>1, <2>2 DEF PassInv
  <1>6. QED
    BY <1>2, <1>3, <1>4, <1>5, Parts

\* Attaching a counter to its manager.
LEMMA AttachStep ==
  ASSUME Inv, NEW c \in Counters, Attach(c)
  PROVE  Inv'
  <1> DEFINE T == TypeOf[c]
  <1>1. CounterInv /\ OtherTypes /\ RegisteredRun /\ PassInv
    BY Parts
  <1>2. PICK new : new = [counter[c] EXCEPT !.attached = TRUE]
    OBVIOUS
  <1>3. /\ ~counter[c].attached /\ counter' = [counter EXCEPT ![c] = new]
        /\ registered' = [registered EXCEPT ![T] = Append(@, c)]
        /\ UNCHANGED <<rounds, pass, queue, calling, throughout, advanced>>
    BY <1>2 DEF Attach
  <1>4. /\ Fine(counter[c]) /\ counter[c].callbacks \in Seq(CallbackCounts[c])
        /\ counter \in [Counters -> CounterType] /\ counter[c] \in CounterType
        /\ registered \in [Types -> Seq(Counters)] /\ T \in Types
    BY <1>1, CounterAssumption DEF CounterInv, OtherTypes
  <1>5. /\ new \in CounterType /\ new.attached /\ new.running = counter[c].running
        /\ new.callbacks = counter[c].callbacks
        /\ new.next = counter[c].next /\ new.prev = counter[c].prev /\ new.lastEnd = counter[c].lastEnd
    BY <1>2, <1>4 DEF CounterType
  <1>6. Fine(new)
    BY <1>4, <1>5, SamePlaces
  <1>7. /\ counter' \in [Counters -> CounterType]
        /\ counter'[c] = new /\ \A d \in Counters : d # c => counter'[d] = counter[d]
    BY <1>3, <1>4, <1>5
  <1>8. CounterInv'
    <2>1. ASSUME NEW d \in Counters
          PROVE  Fine(counter'[d]) /\ counter'[d].callbacks \in Seq(CallbackCounts[d])
      <3>1. CASE d = c
        BY <1>4, <1>5, <1>6, <1>7, <3>1
      <3>2. CASE d # c
        BY <1>1, <1>7, <3>2 DEF CounterInv
      <3>3. QED
        BY <3>1, <3>2
    <2>2. QED
      BY <1>7, <2>1 DEF CounterInv, Fine, Remembers, NumberBelow, Sorted, CounterType
  <1>9. /\ \A t \in Types : IsInjective(registered[t])
        /\ \A t \in Types, d \in Counters :
              Contains(registered[t], d) <=> TypeOf[d] = t /\ counter[d].attached /\ counter[d].running
        /\ \A d \in Counters : counter[d].attached \/ counter[d].running
    BY <1>1 DEF RegisteredRun
  <1>10. PICK s \in Seq(Counters) :
           /\ s = Append(registered[T], c) /\ IsInjective(s)
           /\ \A x : Contains(s, x) <=> Contains(registered[T], x) \/ x = c
    <2>1. ~Contains(registered[T], c) /\ registered[T] \in Seq(Counters) /\ IsInjective(registered[T])
      BY <1>3, <1>4, <1>9
    <2>2. PICK r \in Seq(Counters) : r = registered[T]
      BY <2>1
    <2>3. /\ Append(r, c) \in Seq(Counters) /\ IsInjective(Append(r, c))
          /\ \A x : Contains(Append(r, c), x) <=> Contains(r, x) \/ x = c
      BY <2>1, <2>2, Registered
    <2>4. QED
      BY <2>2, <2>3
  <1>11. /\ registered' \in [Types -> Seq(Counters)]
         /\ registered'[T] = s /\ \A t \in Types : t # T => registered'[t] = registered[t]
    BY <1>3, <1>4, <1>10
  <1>12. RegisteredRun'
    <2>1. ASSUME NEW t \in Types, NEW d \in Counters
          PROVE  Contains(registered'[t], d) <=> TypeOf[d] = t /\ counter'[d].attached /\ counter'[d].running
      <3>1. CASE d # c
        <4>1. Contains(registered'[t], d) <=> Contains(registered[t], d)
          <5>1. CASE t = T
            BY <1>10, <1>11, <3>1, <5>1
          <5>2. CASE t # T
            BY <1>11, <5>2
          <5>3. QED
            BY <5>1, <5>2
        <4>2. QED
          BY <1>7, <1>9, <3>1, <4>1
      <3>2. CASE d = c
        BY <1>3, <1>5, <1>7, <1>9, <1>10, <1>11, <3>2
      <3>3. QED
        BY <3>1, <3>2
    <2>2. \A d \in Counters : counter'[d].attached \/ counter'[d].running
      BY <1>5, <1>7, <1>9
    <2>3. \A t \in Types : IsInjective(registered'[t])
      BY <1>9, <1>10, <1>11
    <2>4. QED
      BY <2>1, <2>2, <2>3 DEF RegisteredRun, Contains, IsInjective
  <1>13. PassInv'
    <2>1. \A d \in throughout' : counter'[d].running
      BY <1>1, <1>3, <1>5, <1>7 DEF PassInv, OtherTypes
    <2>2. \A d \in Counters : counter[d].attached => counter'[d].attached
      BY <1>5, <1>7
    <2>3. QED
      BY <1>3, <2>1, <2>2, PassKept
  <1>14. OtherTypes'
    BY <1>1, <1>3, <1>11 DEF OtherTypes, Item
  <1>15. QED
    BY <1>8, <1>12, <1>13, <1>14, Parts, PTL

\* Steps that leave the counters, the lists and the pass alone.
LEMMA QuietStep ==
  ASSUME Inv, UNCHANGED <<counter, registered, pass, throughout, advanced>>,
         rounds' \in Seq([type : Types, amount : Nat]), queue' \in Seq(Item), calling' \in BOOLEAN
  PROVE  Inv'
  <1>1. CounterInv /\ OtherTypes /\ RegisteredRun /\ PassInv
    BY Parts
  <1>2. CounterInv'
    BY <1>1 DEF CounterInv
  <1>3. OtherTypes'
    BY <1>1 DEF OtherTypes, Item
  <1>4. RegisteredRun'
    BY <1>1 DEF RegisteredRun
  <1>5. PassInv'
    BY <1>1 DEF PassInv, Passed, List
  <1>6. QED
    BY <1>2, <1>3, <1>4, <1>5, Parts, PTL

\* The client's operations.
LEMMA SetterStep ==
  ASSUME Inv, NEW c \in Counters,
         \/ SetRunning(c) \/ SetForward(c) \/ Configure(c) \/ SetsCount(c) \/ Reset(c)
         \/ ChangesCallbacks(c) \/ Bind(c)
  PROVE  Inv'
  <1>1. PICK k : k = counter[c]
    OBVIOUS
  <1>2. Fine(k) /\ k \in CounterType /\ k.callbacks \in Seq(CallbackCounts[c])
    BY <1>1, Parts DEF CounterInv
  <1>3. CallbackCounts[c] \subseteq Int /\ Counts[c] \subseteq Int
    BY CounterAssumption
  <1>4. k.running \in BOOLEAN /\ k.forward \in BOOLEAN /\ k.start \in Int /\ k.end \in Int
    BY <1>2 DEF CounterType
  <1>5. SUFFICES \E new : /\ Fine(new) /\ new.callbacks \in Seq(CallbackCounts[c])
                          /\ new.attached = k.attached /\ Change(c, new)
    BY <1>1, ChangeStep
  <1>6. CASE SetRunning(c)
    <2>1. PICK r \in BOOLEAN : r = ~k.running
      BY <1>4
    <2>2. PICK new : new = [k EXCEPT !.running = r]
      OBVIOUS
    <2>3. Change(c, new)
      BY <1>1, <1>6, <2>1, <2>2 DEF SetRunning
    <2>4. /\ new \in CounterType /\ new.callbacks = k.callbacks /\ new.attached = k.attached
          /\ new.next = k.next /\ new.prev = k.prev /\ new.lastEnd = k.lastEnd
      BY <1>2, <2>2 DEF CounterType
    <2>5. Fine(new)
      BY <1>2, <2>4, SamePlaces
    <2>6. QED
      BY <1>2, <2>3, <2>4, <2>5
  <1>7. CASE SetForward(c)
    <2>1. PICK r \in BOOLEAN : r = ~k.forward
      BY <1>4
    <2>2. PICK new : new = [k EXCEPT !.forward = r]
      OBVIOUS
    <2>3. Change(c, new)
      BY <1>1, <1>7, <2>1, <2>2 DEF SetForward
    <2>4. /\ new \in CounterType /\ new.callbacks = k.callbacks /\ new.attached = k.attached
          /\ new.next = k.next /\ new.prev = k.prev /\ new.lastEnd = k.lastEnd
      BY <1>2, <2>2 DEF CounterType
    <2>5. Fine(new)
      BY <1>2, <2>4, SamePlaces
    <2>6. QED
      BY <1>2, <2>3, <2>4, <2>5
  <1>8. CASE Configure(c)
    <2>1. PICK s \in Setups[c] :
            Change(c, [k EXCEPT !.mode = s.mode, !.start = s.start, !.end = s.end, !.multiplier = s.multiplier])
      BY <1>1, <1>8 DEF Configure
    <2>2. s \in [mode : Modes, start : Int, end : Int, multiplier : Int]
      BY CounterAssumption
    <2>3. PICK mode \in Modes, start \in Int, end \in Int, multiplier \in Int :
            mode = s.mode /\ start = s.start /\ end = s.end /\ multiplier = s.multiplier
      BY <2>2
    <2>4. PICK new : new = [k EXCEPT !.mode = mode, !.start = start, !.end = end, !.multiplier = multiplier]
      OBVIOUS
    <2>5. Change(c, new)
      BY <2>1, <2>3, <2>4
    <2>6. /\ new \in CounterType /\ new.callbacks = k.callbacks /\ new.attached = k.attached
          /\ new.next = k.next /\ new.prev = k.prev /\ new.lastEnd = k.lastEnd
      BY <1>2, <2>4 DEF CounterType
    <2>7. Fine(new)
      BY <1>2, <2>6, SamePlaces
    <2>8. QED
      BY <1>2, <2>5, <2>6, <2>7
  <1>9. CASE SetsCount(c)
    <2>1. PICK value \in Counts[c] : Change(c, SetCount(k, value))
      BY <1>1, <1>9 DEF SetsCount
    <2>2. value \in Int
      BY <1>3
    <2>3. /\ Fine(SetCount(k, value)) /\ SetCount(k, value).callbacks = k.callbacks
          /\ SetCount(k, value).attached = k.attached
      BY <1>2, <2>2, CountSet
    <2>4. QED
      BY <1>2, <2>1, <2>3
  <1>10. CASE Reset(c)
    <2>1. PICK value \in Int : value = IF k.forward THEN k.start ELSE k.end
      BY <1>4
    <2>2. Change(c, SetCount(k, value))
      BY <1>1, <1>10, <2>1 DEF Reset
    <2>3. /\ Fine(SetCount(k, value)) /\ SetCount(k, value).callbacks = k.callbacks
          /\ SetCount(k, value).attached = k.attached
      BY <1>2, CountSet
    <2>4. QED
      BY <1>2, <2>2, <2>3
  <1>11. CASE ChangesCallbacks(c)
    <2>1. ASSUME NEW at \in CallbackCounts[c]
          PROVE  /\ Fine(AddCallback(k, at)) /\ AddCallback(k, at).callbacks \in Seq(CallbackCounts[c])
                 /\ AddCallback(k, at).attached = k.attached
                 /\ Fine(RemoveCallback(k, at)) /\ RemoveCallback(k, at).callbacks \in Seq(CallbackCounts[c])
                 /\ RemoveCallback(k, at).attached = k.attached
      BY <1>2, <1>3, AddedFine, RemovedFine
    <2>2. /\ Fine(RemoveAllCallbacks(k)) /\ RemoveAllCallbacks(k).callbacks \in Seq(CallbackCounts[c])
          /\ RemoveAllCallbacks(k).attached = k.attached
      BY <1>2, <1>3, AllRemovedFine
    <2>3. \/ \E at \in CallbackCounts[c] : Change(c, AddCallback(k, at))
          \/ \E at \in CallbackCounts[c] : Change(c, RemoveCallback(k, at))
          \/ Change(c, RemoveAllCallbacks(k))
      BY <1>1, <1>11 DEF ChangesCallbacks
    <2>4. QED
      BY <2>1, <2>2, <2>3
  <1>12. CASE Bind(c)
    <2>1. PICK value \in Counts[c] : Change(c, [k EXCEPT !.bound = TRUE, !.count = value])
      BY <1>1, <1>12 DEF Bind
    <2>2. value \in Int
      BY <1>3
    <2>3. PICK new : new = [k EXCEPT !.bound = TRUE, !.count = value]
      OBVIOUS
    <2>4. /\ new \in CounterType /\ new.callbacks = k.callbacks /\ new.attached = k.attached
          /\ new.next = k.next /\ new.prev = k.prev /\ new.lastEnd = k.lastEnd
      BY <1>2, <2>2, <2>3 DEF CounterType
    <2>5. Fine(new)
      BY <1>2, <2>4, SamePlaces
    <2>6. QED
      BY <1>2, <2>1, <2>3, <2>4, <2>5
  <1>13. QED
    BY <1>6, <1>7, <1>8, <1>9, <1>10, <1>11, <1>12

\* The parameter a count is bound to changes: nothing remembered depends on it.
LEMMA SourceStep ==
  ASSUME Inv, NEW c \in Counters, SourceMoves(c)
  PROVE  Inv'
  <1>1. CounterInv /\ OtherTypes /\ RegisteredRun /\ PassInv
    BY Parts
  <1>2. PICK value \in Counts[c] : counter' = [counter EXCEPT ![c].count = value]
    BY DEF SourceMoves
  <1>3. UNCHANGED <<registered, rounds, pass, queue, calling, throughout, advanced>>
    BY DEF SourceMoves
  <1>4. value \in Int
    BY CounterAssumption
  <1>5. PICK k : k = counter[c]
    OBVIOUS
  <1>6. Fine(k) /\ k \in CounterType /\ counter \in [Counters -> CounterType]
    BY <1>1, <1>5 DEF CounterInv
  <1>7. PICK new : new = [k EXCEPT !.count = value]
    OBVIOUS
  <1>8. /\ new \in CounterType /\ new.callbacks = k.callbacks /\ new.attached = k.attached
        /\ new.next = k.next /\ new.prev = k.prev /\ new.lastEnd = k.lastEnd /\ new.running = k.running
    BY <1>4, <1>6, <1>7 DEF CounterType
  <1>9. Fine(new)
    BY <1>6, <1>8, SamePlaces
  <1>10. counter' = [counter EXCEPT ![c] = new]
    BY <1>2, <1>5, <1>7
  <1>11. /\ counter' \in [Counters -> CounterType]
         /\ counter'[c] = new /\ \A d \in Counters : d # c => counter'[d] = counter[d]
    BY <1>6, <1>8, <1>10
  <1>12. CounterInv'
    <2>1. ASSUME NEW d \in Counters
          PROVE  Fine(counter'[d]) /\ counter'[d].callbacks \in Seq(CallbackCounts[d])
      <3>1. CASE d = c
        BY <1>1, <1>5, <1>8, <1>9, <1>11, <3>1 DEF CounterInv
      <3>2. CASE d # c
        BY <1>1, <1>11, <3>2 DEF CounterInv
      <3>3. QED
        BY <3>1, <3>2
    <2>2. QED
      BY <1>11, <2>1 DEF CounterInv, Fine, Remembers, NumberBelow, Sorted, CounterType
  <1>13. \A d \in Counters : /\ counter'[d].attached = counter[d].attached
                             /\ counter'[d].running = counter[d].running
    BY <1>5, <1>8, <1>11
  <1>14. RegisteredRun'
    BY <1>1, <1>3, <1>13 DEF RegisteredRun, Contains, IsInjective
  <1>15. PassInv'
    <2>1. \A d \in throughout' : counter'[d].running
      BY <1>1, <1>3, <1>13 DEF PassInv, OtherTypes
    <2>2. \A d \in Counters : counter[d].attached => counter'[d].attached
      BY <1>13
    <2>3. QED
      BY <1>3, <2>1, <2>2, PassKept
  <1>16. OtherTypes'
    BY <1>1, <1>3 DEF OtherTypes, Item
  <1>17. QED
    BY <1>12, <1>14, <1>15, <1>16, Parts, PTL

\* The client advances a counter by hand.
LEMMA ByHandStep ==
  ASSUME Inv, NEW c \in Counters, NEW amount \in Amounts, AdvanceByHand(c, amount)
  PROVE  Inv'
  <1>1. CounterInv /\ OtherTypes /\ RegisteredRun /\ PassInv
    BY Parts
  <1>2. amount \in Int
    BY CounterAssumption
  <1>3. PICK new, called : new = Advance(counter[c], amount).counter /\ called = Advance(counter[c], amount).called
    OBVIOUS
  <1>4. /\ counter[c].attached /\ Becomes(c, new)
        /\ queue' = Calls(c, called) \o (IF calling THEN <<Resume>> ELSE <<>>) \o queue
        /\ calling' = FALSE
        /\ UNCHANGED <<rounds, pass, advanced>>
    BY <1>3 DEF AdvanceByHand
  <1>5. /\ Fine(new) /\ new.callbacks \in Seq(CallbackCounts[c])
        /\ new.attached = counter[c].attached /\ Calls(c, called) \in Seq(Item)
    BY <1>2, <1>3, AdvancedInv
  <1>6. /\ CounterInv' /\ registered' \in [Types -> Seq(Counters)] /\ RegisteredRun'
        /\ throughout' \subseteq throughout /\ \A d \in throughout' : counter'[d].running
        /\ \A d \in Counters : counter[d].attached => counter'[d].attached
    BY <1>4, <1>5, Became
  <1>7. PassInv'
    BY <1>4, <1>6, PassKept
  <1>8. queue' \in Seq(Item)
    <2>1. Resume \in Item
      BY DEF Item
    <2>2. (IF calling THEN <<Resume>> ELSE <<>>) \in Seq(Item)
      BY <2>1
    <2>3. queue \in Seq(Item)
      BY <1>1 DEF OtherTypes
    <2>4. QED
      BY <1>4, <1>5, <2>2, <2>3, ConcatProperties
  <1>9. OtherTypes'
    BY <1>1, <1>4, <1>6, <1>8 DEF OtherTypes, Item
  <1>10. QED
    BY <1>6, <1>7, <1>9, Parts, PTL

\* A pass begins with every counter that runs.
LEMMA BeginStep ==
  ASSUME Inv, BeginPass
  PROVE  Inv'
  <1>1. CounterInv /\ OtherTypes /\ RegisteredRun /\ PassInv
    BY Parts
  <1>2. PICK round \in [type : Types, amount : Nat] : round = Head(rounds)
    <2>1. rounds \in Seq([type : Types, amount : Nat]) /\ rounds # <<>>
      BY <1>1 DEF OtherTypes, BeginPass
    <2>2. Head(rounds) \in [type : Types, amount : Nat]
      BY <2>1, HeadTailProperties
    <2>3. QED
      BY <2>2
  <1>3. PICK copy \in Seq(Counters) : copy = registered[round.type]
    BY <1>1, <1>2 DEF OtherTypes
  <1>4. /\ pass' = [copy |-> copy, next |-> 1, amount |-> round.amount]
        /\ rounds' = Tail(rounds) /\ throughout' = ToSet(copy)
        /\ advanced' = [c \in Counters |-> 0]
        /\ UNCHANGED <<counter, registered, queue, calling>>
    BY <1>2, <1>3 DEF BeginPass
  <1>5. /\ IsInjective(copy) /\ Len(copy) \in Nat
        /\ \A c \in ToSet(copy) : c \in Counters /\ counter[c].attached /\ counter[c].running
    <2>1. IsInjective(copy)
      BY <1>1, <1>2, <1>3 DEF RegisteredRun
    <2>2. ASSUME NEW c \in ToSet(copy) PROVE c \in Counters /\ counter[c].attached /\ counter[c].running
      <3>1. c \in Counters /\ Contains(copy, c)
        BY DEF ToSet, Contains
      <3>2. QED
        BY <1>1, <1>2, <1>3, <3>1 DEF RegisteredRun
    <2>3. QED
      BY <2>1, <2>2
  <1>6. CounterInv' /\ RegisteredRun'
    BY <1>1, <1>4 DEF CounterInv, RegisteredRun
  <1>7. OtherTypes'
    <2>1. rounds' \in Seq([type : Types, amount : Nat])
      BY <1>1, <1>4 DEF OtherTypes, BeginPass
    <2>2. pass' \in [copy : Seq(Counters), next : Nat \ {0}, amount : Nat]
      BY <1>4
    <2>3. throughout' \subseteq Counters /\ advanced' \in [Counters -> Nat]
      BY <1>4, <1>5
    <2>4. QED
      BY <1>1, <1>4, <2>1, <2>2, <2>3 DEF OtherTypes, Item
  <1>8. PassInv'
    <2>1. pass'.copy = copy /\ pass'.next = 1 /\ counter' = counter
      BY <1>4
    <2>2. Passed' = {}
      BY <2>1 DEF Passed
    <2>3. 1 =< Len(copy) + 1
      BY <1>5
    <2>4. \A c \in Counters : advanced'[c] =< 1 /\ (advanced'[c] = 1 => c \in Passed')
      BY <1>4
    <2>5. throughout' \subseteq ToSet(pass'.copy) /\ \A c \in throughout' : counter'[c].running
      BY <1>4, <1>5, <2>1
    <2>6. IsInjective(pass'.copy) /\ pass'.next =< Len(pass'.copy) + 1
      BY <1>5, <2>1, <2>3
    <2>7. \A c \in ToSet(pass'.copy) : counter'[c].attached
      BY <1>5, <2>1
    <2>8. QED
      BY <2>2, <2>4, <2>5, <2>6, <2>7 DEF PassInv, IsInjective, ToSet
  <1>9. QED
    BY <1>6, <1>7, <1>8, Parts, PTL

\* A pass ends.
LEMMA EndStep ==
  ASSUME Inv, EndPass
  PROVE  Inv'
  <1>1. CounterInv /\ OtherTypes /\ RegisteredRun /\ PassInv
    BY Parts
  <1>2. /\ pass' = NoPass /\ throughout' = {} /\ advanced' = [c \in Counters |-> 0]
        /\ UNCHANGED <<counter, registered, rounds, queue, calling>>
    BY DEF EndPass
  <1>3. CounterInv' /\ RegisteredRun'
    BY <1>1, <1>2 DEF CounterInv, RegisteredRun
  <1>4. OtherTypes'
    <2>1. pass' \in [copy : Seq(Counters), next : Nat \ {0}, amount : Nat]
      BY <1>2 DEF NoPass
    <2>2. QED
      BY <1>1, <1>2, <2>1 DEF OtherTypes, Item
  <1>5. PassInv'
    <2>1. pass'.copy = <<>> /\ pass'.next = 1 /\ \A c \in Counters : advanced'[c] = 0
      BY <1>2 DEF NoPass
    <2>2. IsInjective(<<>>) /\ Len(<<>>) = 0 /\ ToSet(<<>>) = {}
      BY DEF IsInjective, ToSet
    <2>3. QED
      BY <1>2, <2>1, <2>2 DEF PassInv, IsInjective, ToSet
  <1>6. QED
    BY <1>3, <1>4, <1>5, Parts, PTL

\* A callback throws, which ends the pass.
LEMMA ThrowStep ==
  ASSUME Inv, Throws
  PROVE  Inv'
  <1>1. CounterInv /\ OtherTypes /\ RegisteredRun
    BY Parts
  <1>2. /\ pass' = NoPass /\ throughout' = {} /\ advanced' = [c \in Counters |-> 0]
        /\ rounds' = <<>> /\ queue' = <<>> /\ calling' = FALSE
        /\ UNCHANGED <<counter, registered>>
    BY DEF Throws
  <1>3. CounterInv' /\ RegisteredRun'
    BY <1>1, <1>2 DEF CounterInv, RegisteredRun
  <1>4. OtherTypes'
    <2>1. pass' \in [copy : Seq(Counters), next : Nat \ {0}, amount : Nat]
      BY <1>2 DEF NoPass
    <2>2. rounds' \in Seq([type : Types, amount : Nat]) /\ queue' \in Seq(Item)
      BY <1>2
    <2>3. QED
      BY <1>1, <1>2, <2>1, <2>2 DEF OtherTypes, Item
  <1>5. PassInv'
    <2>1. pass'.copy = <<>> /\ pass'.next = 1 /\ \A c \in Counters : advanced'[c] = 0
      BY <1>2 DEF NoPass
    <2>2. IsInjective(<<>>) /\ Len(<<>>) = 0 /\ ToSet(<<>>) = {}
      BY DEF IsInjective, ToSet
    <2>3. QED
      BY <1>2, <2>1, <2>2 DEF PassInv, IsInjective, ToSet
  <1>6. QED
    BY <1>3, <1>4, <1>5, Parts, PTL

\* A counter's turn: it is the first, since no counter is in the pass twice.
LEMMA TurnStep ==
  ASSUME Inv, Turn
  PROVE  Inv'
  <1>1. CounterInv /\ OtherTypes /\ RegisteredRun /\ PassInv
    BY Parts
  <1>2. PICK copy \in Seq(Counters), n \in Nat \ {0}, amount \in Nat :
          pass = [copy |-> copy, next |-> n, amount |-> amount]
    <2>1. pass \in [copy : Seq(Counters), next : Nat \ {0}, amount : Nat]
      BY <1>1 DEF OtherTypes
    <2>2. QED
      BY <2>1
  <1>3. pass.copy = copy /\ pass.next = n /\ pass.amount = amount
    BY <1>2
  <1>4. n \in 1 .. Len(copy) /\ Len(copy) \in Nat /\ DOMAIN copy = 1 .. Len(copy)
    BY <1>3 DEF Turn
  <1>5. /\ pass' = [copy |-> copy, next |-> n + 1, amount |-> amount]
        /\ pass'.copy = copy /\ pass'.next = n + 1
    BY <1>2 DEF Turn
  <1>6. PICK c \in Counters : c = copy[n]
    BY <1>4
  <1>7. /\ counter[c].attached /\ IsInjective(copy)
        /\ throughout \subseteq ToSet(copy) /\ \A d \in throughout : counter[d].running
        /\ \A d \in Counters : advanced[d] =< 1 /\ (advanced[d] = 1 => d \in Passed)
        /\ \A d \in throughout \cap Passed : advanced[d] = 1
        /\ \A d \in ToSet(copy) : counter[d].attached
    <2>1. c \in ToSet(copy)
      BY <1>4, <1>6 DEF ToSet
    <2>2. QED
      BY <1>1, <1>3, <2>1 DEF PassInv
  <1>8. advanced \in [Counters -> Nat] /\ throughout \subseteq Counters
    BY <1>1 DEF OtherTypes
  <1>9. Passed' = Passed \cup {c} /\ c \notin Passed
    <2>1. Passed = {copy[i] : i \in 1 .. n - 1} /\ Passed' = {copy[i] : i \in 1 .. (n + 1) - 1}
      BY <1>3, <1>5 DEF Passed, List
    <2>2. \A i \in 1 .. Len(copy), j \in 1 .. Len(copy) : copy[i] = copy[j] => i = j
      BY <1>4, <1>7 DEF IsInjective
    <2>3. c \notin Passed
      BY <1>4, <1>6, <2>1, <2>2
    <2>4. \A i : i \in 1 .. (n + 1) - 1 <=> i \in 1 .. n - 1 \/ i = n
      BY <1>4
    <2>5. QED
      BY <1>6, <2>1, <2>3, <2>4
  <1>10. advanced[c] = 0
    BY <1>7, <1>8, <1>9
  <1>11. /\ pass' \in [copy : Seq(Counters), next : Nat \ {0}, amount : Nat]
         /\ UNCHANGED <<rounds, calling>>
    <2>1. n + 1 \in Nat \ {0}
      BY <1>4
    <2>2. pass' \in [copy : Seq(Counters), next : Nat \ {0}, amount : Nat]
      BY <1>5, <2>1
    <2>3. QED
      BY <2>2 DEF Turn
  <1>12. IsInjective(pass'.copy) /\ pass'.next =< Len(pass'.copy) + 1
    BY <1>4, <1>5, <1>7
  <1>13. CASE counter[c].running
    <2>1. PICK new, called : new = Advance(counter[c], amount).counter /\ called = Advance(counter[c], amount).called
      OBVIOUS
    <2>2. /\ Becomes(c, new) /\ queue' = Calls(c, called) /\ advanced' = [advanced EXCEPT ![c] = @ + 1]
      BY <1>3, <1>4, <1>6, <1>13, <2>1 DEF Turn, List
    <2>3. /\ Fine(new) /\ new.callbacks \in Seq(CallbackCounts[c])
          /\ new.attached = counter[c].attached /\ Calls(c, called) \in Seq(Item)
      BY <2>1, AdvancedInv
    <2>4. /\ CounterInv' /\ registered' \in [Types -> Seq(Counters)] /\ RegisteredRun'
          /\ throughout' \subseteq throughout /\ \A d \in throughout' : counter'[d].running
          /\ \A d \in Counters : counter[d].attached => counter'[d].attached
      BY <1>7, <2>2, <2>3, Became
    <2>5. /\ advanced' \in [Counters -> Nat] /\ advanced'[c] = 1
          /\ \A d \in Counters : d # c => advanced'[d] = advanced[d]
      BY <1>8, <1>10, <2>2
    <2>6. OtherTypes'
      BY <1>1, <1>11, <2>2, <2>3, <2>4, <2>5 DEF OtherTypes, Item
    <2>7. \A d \in Counters : advanced'[d] =< 1 /\ (advanced'[d] = 1 => d \in Passed')
      BY <1>7, <1>9, <2>5
    <2>8. \A d \in throughout' \cap Passed' : advanced'[d] = 1
      BY <1>7, <1>8, <1>9, <2>4, <2>5
    <2>9. \A d \in ToSet(pass'.copy) : counter'[d].attached
      <3>1. ToSet(copy) \subseteq Counters
        BY DEF ToSet
      <3>2. QED
        BY <1>5, <1>7, <2>4, <3>1
    <2>10. throughout' \subseteq ToSet(pass'.copy)
      BY <1>5, <1>7, <2>4
    <2>11. PassInv'
      BY <1>12, <2>4, <2>7, <2>8, <2>9, <2>10 DEF PassInv, IsInjective, ToSet
    <2>12. QED
      BY <2>4, <2>6, <2>11, Parts, PTL
  <1>14. CASE ~counter[c].running
    <2>1. UNCHANGED <<counter, registered, queue, throughout, advanced>>
      BY <1>3, <1>4, <1>6, <1>14 DEF Turn, List
    <2>2. CounterInv' /\ RegisteredRun'
      BY <1>1, <2>1 DEF CounterInv, RegisteredRun
    <2>3. OtherTypes'
      BY <1>1, <1>11, <2>1 DEF OtherTypes, Item
    <2>4. c \notin throughout
      BY <1>7, <1>14
    <2>5. \A d \in Counters : advanced'[d] =< 1 /\ (advanced'[d] = 1 => d \in Passed')
      BY <1>7, <1>9, <2>1
    <2>6. \A d \in throughout' \cap Passed' : advanced'[d] = 1
      BY <1>7, <1>9, <2>1, <2>4
    <2>7. \A d \in ToSet(pass'.copy) : counter'[d].attached
      BY <1>5, <1>7, <2>1
    <2>8. throughout' \subseteq ToSet(pass'.copy) /\ \A d \in throughout' : counter'[d].running
      BY <1>5, <1>7, <2>1
    <2>9. PassInv'
      BY <1>12, <2>5, <2>6, <2>7, <2>8 DEF PassInv, IsInjective, ToSet
    <2>10. QED
      BY <2>2, <2>3, <2>9, Parts, PTL
  <1>15. QED
    BY <1>13, <1>14

\* Every step preserves Inv.
LEMMA NextInv ==
  ASSUME Inv, [Next]_vars
  PROVE  Inv'
  <1>1. OtherTypes
    BY Parts
  <1>2. rounds \in Seq([type : Types, amount : Nat]) /\ queue \in Seq(Item) /\ calling \in BOOLEAN
    BY <1>1 DEF OtherTypes
  <1>3. CASE Tick
    <2>1. PICK seconds \in Amounts :
            rounds' = <<[type |-> "TickCounter", amount |-> 1], [type |-> "SecondCounter", amount |-> seconds]>>
      BY <1>3 DEF Tick
    <2>2. seconds \in Nat
      BY CounterAssumption
    <2>3. rounds' \in Seq([type : Types, amount : Nat])
      BY <2>1, <2>2 DEF Types
    <2>4. UNCHANGED <<counter, registered, pass, throughout, advanced, queue, calling>>
      BY <1>3 DEF Tick
    <2>5. QED
      BY <1>2, <2>3, <2>4, QuietStep
  <1>4. CASE RenderFrame
    <2>1. rounds' = <<[type |-> "RenderFrameCounter", amount |-> 1]>>
      BY <1>4 DEF RenderFrame
    <2>2. rounds' \in Seq([type : Types, amount : Nat])
      BY <2>1 DEF Types
    <2>3. UNCHANGED <<counter, registered, pass, throughout, advanced, queue, calling>>
      BY <1>4 DEF RenderFrame
    <2>4. QED
      BY <1>2, <2>2, <2>3, QuietStep
  <1>5. CASE CallNext
    <2>1. queue # <<>> /\ calling' = TRUE /\ queue' = Tail(queue)
          /\ UNCHANGED <<counter, registered, rounds, pass, throughout, advanced>>
      BY <1>5 DEF CallNext
    <2>2. queue' \in Seq(Item)
      BY <1>2, <2>1, HeadTailProperties
    <2>3. QED
      BY <1>2, <2>1, <2>2, QuietStep
  <1>6. CASE Return
    <2>1. calling' = FALSE /\ UNCHANGED <<counter, registered, rounds, pass, queue, throughout, advanced>>
      BY <1>6 DEF Return
    <2>2. QED
      BY <1>2, <2>1, QuietStep
  <1>7. CASE UNCHANGED vars
    BY <1>2, <1>7, QuietStep DEF vars
  <1>8. CASE BeginPass
    BY <1>8, BeginStep
  <1>9. CASE EndPass
    BY <1>9, EndStep
  <1>10. CASE Turn
    BY <1>10, TurnStep
  <1>11. ASSUME NEW c \in Counters, Attach(c) PROVE Inv'
    BY <1>11, AttachStep
  <1>12. ASSUME NEW c \in Counters, SetRunning(c) PROVE Inv'
    BY <1>12, SetterStep
  <1>13. ASSUME NEW c \in Settable PROVE c \in Counters
    BY CounterAssumption
  <1>14. ASSUME NEW c \in Settable,
                SetForward(c) \/ Configure(c) \/ SetsCount(c) \/ Reset(c) \/ ChangesCallbacks(c) \/ Bind(c)
         PROVE  Inv'
    BY <1>13, <1>14, SetterStep
  <1>15. ASSUME NEW c \in Settable, SourceMoves(c) PROVE Inv'
    BY <1>13, <1>15, SourceStep
  <1>16. ASSUME NEW c \in Settable, NEW amount \in Amounts, AdvanceByHand(c, amount) PROVE Inv'
    BY <1>13, <1>16, ByHandStep
  <1>17. CASE Throws
    BY <1>17, ThrowStep
  <1>18. QED
    BY <1>3, <1>4, <1>5, <1>6, <1>7, <1>8, <1>9, <1>10, <1>11, <1>12, <1>14, <1>15, <1>16, <1>17
       DEF Next

\* The inductive invariant.
LEMMA Invariance == Spec => []Inv
  BY InitInv, NextInv, PTL DEF Spec

-----------------------------------------------------------------------------
(* The calls of one path and of two that follow each other                  *)

\* Legs that two paths have in common lead to the same.
LEMMA SamePrefix ==
  ASSUME NEW c, NEW A, Len(A) \in Nat, NEW B, Len(B) \in Nat,
         NEW n \in Nat, n =< Len(A), n =< Len(B), \A i \in 1 .. n : A[i] = B[i]
  PROVE  Along(c, A)[n] = Along(c, B)[n]
  <1> DEFINE T == {i \in 0 .. n : Along(c, A)[i] # Along(c, B)[i]}
  <1>1. T = {}
    <2>1. SUFFICES ASSUME T # {} PROVE FALSE
      OBVIOUS
    <2>2. PICK m \in T : \A y \in T : ~(y < m)
      <3>1. T \subseteq Nat
        OBVIOUS
      <3>2. QED
        <4> HIDE DEF T
        <4> QED
          BY <2>1, <3>1, Least
    <2>3. m \in 0 .. n /\ Along(c, A)[m] # Along(c, B)[m]
      OBVIOUS
    <2>4. m # 0
      BY <2>3, AlongLegs
    <2>5. m \in 1 .. n /\ m \in 1 .. Len(A) /\ m \in 1 .. Len(B) /\ m - 1 \in 0 .. n /\ m - 1 < m
      BY <2>3, <2>4
    <2>6. Along(c, A)[m - 1] = Along(c, B)[m - 1]
      BY <2>2, <2>5
    <2>7. /\ Along(c, A)[m] = CallCallbacks(c.callbacks, Along(c, A)[m - 1], A[m])
          /\ Along(c, B)[m] = CallCallbacks(c.callbacks, Along(c, B)[m - 1], B[m])
      BY <2>5, AlongLegs
    <2>8. QED
      BY <2>3, <2>5, <2>6, <2>7
  <1>2. n \in 0 .. n
    OBVIOUS
  <1>3. QED
    BY <1>1, <1>2

\* The same places are remembered.
SameAs(r, s) == r.next = s.next /\ r.prev = s.prev /\ r.lastEnd = s.lastEnd

\* What is remembered and called after a leg upwards, field by field.
IsUpLeg(cb, r, x, y, lo, hi, k) ==
  /\ lo \in 0 .. Len(cb) /\ hi \in 0 .. Len(cb) /\ lo =< hi
  /\ lo = FromUp(cb, r, x) /\ hi = NumberBelow(cb, y + 1)
  /\ k = CallCallbacks(cb, r, <<x, y>>)
  /\ k.next = hi /\ k.prev = -1 /\ k.lastEnd = y
  /\ k.called = r.called \o Up(cb, lo, hi)

\* After a leg downwards.
IsDownLeg(cb, r, x, y, hi, lo, k) ==
  /\ hi \in 0 .. Len(cb) /\ lo \in 0 .. Len(cb) /\ lo =< hi
  /\ hi = FromDown(cb, r, x) /\ lo = NumberBelow(cb, y)
  /\ k = CallCallbacks(cb, r, <<x, y>>)
  /\ k.next = -1 /\ k.prev = lo - 1 /\ k.lastEnd = y
  /\ k.called = r.called \o Down(cb, hi, lo)

\* Every leg upwards is of that form.
LEMMA UpCalls ==
  ASSUME NEW cb \in Seq(Int), Sorted(cb), NEW r, Remembers(cb, r),
         NEW x \in Int, NEW y \in Int, x < y
  PROVE  \E lo, hi, k : IsUpLeg(cb, r, x, y, lo, hi, k)
  <1>1. PICK lo \in 0 .. Len(cb), hi \in 0 .. Len(cb) :
          /\ lo = FromUp(cb, r, x) /\ hi = NumberBelow(cb, y + 1) /\ lo =< hi
          /\ CallCallbacks(cb, r, <<x, y>>) =
               [next |-> hi, prev |-> -1, lastEnd |-> y, called |-> r.called \o Up(cb, lo, hi)]
    BY UpLeg
  <1>2. PICK calls : calls = r.called \o Up(cb, lo, hi)
    OBVIOUS
  <1>3. PICK k : k = [next |-> hi, prev |-> -1, lastEnd |-> y, called |-> calls]
    OBVIOUS
  <1>4. k.next = hi /\ k.prev = -1 /\ k.lastEnd = y /\ k.called = calls
    BY <1>3
  <1>5. k = CallCallbacks(cb, r, <<x, y>>)
    BY <1>1, <1>2, <1>3
  <1>6. IsUpLeg(cb, r, x, y, lo, hi, k)
    BY <1>1, <1>2, <1>4, <1>5, Zenon DEF IsUpLeg
  <1>7. QED
    BY <1>6

\* Every leg downwards is of that form.
LEMMA DownCalls ==
  ASSUME NEW cb \in Seq(Int), Sorted(cb), NEW r, Remembers(cb, r),
         NEW x \in Int, NEW y \in Int, y < x
  PROVE  \E hi, lo, k : IsDownLeg(cb, r, x, y, hi, lo, k)
  <1>1. PICK hi \in 0 .. Len(cb), lo \in 0 .. Len(cb) :
          /\ hi = FromDown(cb, r, x) /\ lo = NumberBelow(cb, y) /\ lo =< hi
          /\ CallCallbacks(cb, r, <<x, y>>) =
               [next |-> -1, prev |-> lo - 1, lastEnd |-> y, called |-> r.called \o Down(cb, hi, lo)]
    BY DownLeg
  <1>2. PICK calls : calls = r.called \o Down(cb, hi, lo)
    OBVIOUS
  <1>3. PICK k : k = [next |-> -1, prev |-> lo - 1, lastEnd |-> y, called |-> calls]
    OBVIOUS
  <1>4. k.next = -1 /\ k.prev = lo - 1 /\ k.lastEnd = y /\ k.called = calls
    BY <1>3
  <1>5. k = CallCallbacks(cb, r, <<x, y>>)
    BY <1>1, <1>2, <1>3
  <1>6. IsDownLeg(cb, r, x, y, hi, lo, k)
    BY <1>1, <1>2, <1>4, <1>5, Zenon DEF IsDownLeg
  <1>7. QED
    BY <1>6

\* What a leg calls depends on the places only.
LEMMA LegAfter ==
  ASSUME NEW cb \in Seq(Int), Sorted(cb), NEW r, Good(cb, r), NEW s, Good(cb, s), SameAs(r, s),
         NEW x \in Int, NEW y \in Int
  PROVE  \E q \in Seq(CallsOf(cb)) :
            /\ CallCallbacks(cb, r, <<x, y>>).called = r.called \o q
            /\ CallCallbacks(cb, s, <<x, y>>).called = s.called \o q
            /\ SameAs(CallCallbacks(cb, r, <<x, y>>), CallCallbacks(cb, s, <<x, y>>))
  <1>1. /\ Remembers(cb, r) /\ Remembers(cb, s)
        /\ r.called \in Seq(CallsOf(cb)) /\ s.called \in Seq(CallsOf(cb))
    BY DEF Good
  <1>2. FromUp(cb, r, x) = FromUp(cb, s, x) /\ FromDown(cb, r, x) = FromDown(cb, s, x)
    BY DEF SameAs, FromUp, FromDown
  <1>3. CASE x < y
    <2>1. PICK lo, hi, k : IsUpLeg(cb, r, x, y, lo, hi, k)
      BY <1>1, <1>3, UpCalls
    <2>2. PICK lo2, hi2, m : IsUpLeg(cb, s, x, y, lo2, hi2, m)
      BY <1>1, <1>3, UpCalls
    <2>3. lo2 = lo /\ hi2 = hi /\ SameAs(k, m)
      BY <1>2, <2>1, <2>2 DEF SameAs, IsUpLeg
    <2>4. Up(cb, lo, hi) \in Seq(CallsOf(cb))
      BY <2>1, UpDownTypes DEF IsUpLeg
    <2>5. QED
      BY <2>1, <2>2, <2>3, <2>4, Zenon DEF IsUpLeg
  <1>4. CASE y < x
    <2>1. PICK hi, lo, k : IsDownLeg(cb, r, x, y, hi, lo, k)
      BY <1>1, <1>4, DownCalls
    <2>2. PICK hi2, lo2, m : IsDownLeg(cb, s, x, y, hi2, lo2, m)
      BY <1>1, <1>4, DownCalls
    <2>3. lo2 = lo /\ hi2 = hi /\ SameAs(k, m)
      BY <1>2, <2>1, <2>2 DEF SameAs, IsDownLeg
    <2>4. Down(cb, hi, lo) \in Seq(CallsOf(cb))
      BY <2>1, UpDownTypes DEF IsDownLeg
    <2>5. QED
      BY <2>1, <2>2, <2>3, <2>4, Zenon DEF IsDownLeg
  <1>5. CASE x = y
    <2>1. CallCallbacks(cb, r, <<x, y>>) = r /\ CallCallbacks(cb, s, <<x, y>>) = s
      BY <1>5, ZeroLeg
    <2>2. r.called \o <<>> = r.called /\ s.called \o <<>> = s.called /\ <<>> \in Seq(CallsOf(cb))
      BY <1>1, ConcatEmptySeq, EmptySeq
    <2>3. QED
      BY <2>1, <2>2
  <1>6. x < y \/ y < x \/ x = y
    OBVIOUS
  <1>7. QED
    BY <1>3, <1>4, <1>5, <1>6, Zenon

\* From its j-th leg on, W goes on as S does from its first.
GoesOn(W, j, S) ==
  /\ j \in 1 .. Len(W) /\ Len(S) >= 1 /\ Len(W) = j + Len(S) - 1
  /\ \A i \in 2 .. Len(S) : W[j + i - 1] = S[i]

\* From w1 to w the same callbacks are called as from s1 to s.
CallTheSame(cb, w1, w, s1, s) ==
  \E q \in Seq(CallsOf(cb)) : w.called = w1.called \o q /\ s.called = s1.called \o q

\* Legs that two paths end with call the same, if the same is remembered before.
LEMMA SameSuffix ==
  ASSUME NEW c, Fine(c), NEW f, Fine(f), f.callbacks = c.callbacks,
         NEW W \in Legs, NEW S \in Legs, NEW j, GoesOn(W, j, S),
         SameAs(Along(c, W)[j], Along(f, S)[1])
  PROVE  CallTheSame(c.callbacks, Along(c, W)[j], Along(c, W)[Len(W)], Along(f, S)[1], Along(f, S)[Len(S)])
  <1> DEFINE cb == c.callbacks
             Agree(i) ==
               \E q \in Seq(CallsOf(cb)) :
                  /\ Along(c, W)[j + i - 1].called = Along(c, W)[j].called \o q
                  /\ Along(f, S)[i].called = Along(f, S)[1].called \o q
                  /\ SameAs(Along(c, W)[j + i - 1], Along(f, S)[i])
             T == {i \in 1 .. Len(S) : ~Agree(i)}
  <1>0. /\ j \in 1 .. Len(W) /\ Len(S) >= 1 /\ Len(W) = j + Len(S) - 1
        /\ \A i \in 2 .. Len(S) : W[j + i - 1] = S[i]
    BY DEF GoesOn
  <1>1. /\ Len(S) \in Nat /\ Len(W) \in Nat /\ j \in Nat
        /\ \A i \in 1 .. Len(S) : S[i] \in Int \X Int
    BY <1>0 DEF Legs
  <1>2. cb \in Seq(Int) /\ Sorted(cb)
    BY GoodStart DEF Fine
  <1>3. /\ \A i \in 0 .. Len(W) : Good(cb, Along(c, W)[i])
        /\ \A i \in 0 .. Len(S) : Good(cb, Along(f, S)[i])
    BY GoodAlong
  <1>4. /\ Along(c, W)[j].called \in Seq(CallsOf(cb))
        /\ Along(f, S)[1].called \in Seq(CallsOf(cb))
    <2>1. j \in 0 .. Len(W) /\ 1 \in 0 .. Len(S)
      BY <1>0, <1>1
    <2>2. QED
      BY <1>3, <2>1 DEF Good
  <1>9. \A i \in 1 .. Len(W) : Along(c, W)[i] = CallCallbacks(c.callbacks, Along(c, W)[i - 1], W[i])
    BY <1>1, AlongLegs
  <1>5. Agree(1)
    <2>1. j + 1 - 1 = j
      BY <1>0, <1>1
    <2>2. /\ Along(c, W)[j].called \o <<>> = Along(c, W)[j].called
          /\ Along(f, S)[1].called \o <<>> = Along(f, S)[1].called /\ <<>> \in Seq(CallsOf(cb))
      BY <1>4, ConcatEmptySeq, EmptySeq
    <2>3. QED
      BY <2>1, <2>2
  <1>6. T = {}
    <2>1. SUFFICES ASSUME T # {} PROVE FALSE
      OBVIOUS
    <2>2. PICK m \in T : \A y \in T : ~(y < m)
      <3>1. T \subseteq Nat
        OBVIOUS
      <3>2. QED
        <4> HIDE DEF T
        <4> QED
          BY <2>1, <3>1, Least
    <2>3. m \in 1 .. Len(S)
      OBVIOUS
    <2>0. ~Agree(m)
      OBVIOUS
    <2> HIDE DEF T, Agree
    <2>4. m # 1
      BY <1>5, <2>0
    <2>5. PICK k \in 1 .. Len(S) : k + 1 = m /\ k < m
      <3>1. m - 1 \in 1 .. Len(S) /\ (m - 1) + 1 = m /\ m - 1 < m
        BY <1>1, <2>3, <2>4
      <3>2. QED
        BY <3>1
    <2>6. Agree(k)
      BY <2>2, <2>5 DEF T
    <2>7. PICK w : w = Along(c, W)[j + k - 1]
      OBVIOUS
    <2>8. PICK s : s = Along(f, S)[k]
      OBVIOUS
    <2>9. PICK q \in Seq(CallsOf(cb)) : /\ w.called = Along(c, W)[j].called \o q
                                        /\ s.called = Along(f, S)[1].called \o q /\ SameAs(w, s)
      BY <2>6, <2>7, <2>8 DEF Agree
    <2>10. Good(cb, w) /\ Good(cb, s)
      <3>1. j + k - 1 \in 0 .. Len(W) /\ k \in 0 .. Len(S)
        BY <1>0, <1>1, <2>5
      <3>2. QED
        BY <1>3, <2>7, <2>8, <3>1
    <2>11. PICK x \in Int, y \in Int : S[m] = <<x, y>>
      <3>1. S[m] \in Int \X Int
        BY <1>1, <2>3
      <3>2. QED
        BY <3>1
    <2>12. W[j + m - 1] = <<x, y>>
      <3>1. m \in 2 .. Len(S)
        BY <1>1, <2>3, <2>4
      <3>2. QED
        BY <1>0, <2>11, <3>1
    <2>13. Along(f, S)[m] = CallCallbacks(cb, s, <<x, y>>)
      <3>1. Along(f, S)[m] = CallCallbacks(f.callbacks, Along(f, S)[m - 1], S[m])
        BY <1>1, <2>3, AlongLegs
      <3>2. m - 1 = k
        BY <2>5
      <3>3. QED
        BY <2>8, <2>11, <3>1, <3>2
    <2>14. Along(c, W)[j + m - 1] = CallCallbacks(cb, w, <<x, y>>)
      <3>1. PICK i : i = j + m - 1
        OBVIOUS
      <3>2. i \in 1 .. Len(W) /\ i - 1 = j + k - 1
        BY <1>0, <1>1, <2>3, <2>5, <3>1
      <3>3. Along(c, W)[i] = CallCallbacks(c.callbacks, Along(c, W)[i - 1], W[i])
        BY <1>1, <3>2, <1>9
      <3>4. QED
        BY <2>7, <2>12, <3>1, <3>2, <3>3
    <2>15. PICK p \in Seq(CallsOf(cb)) :
              /\ CallCallbacks(cb, w, <<x, y>>).called = w.called \o p
              /\ CallCallbacks(cb, s, <<x, y>>).called = s.called \o p
              /\ SameAs(CallCallbacks(cb, w, <<x, y>>), CallCallbacks(cb, s, <<x, y>>))
      BY <1>2, <2>9, <2>10, LegAfter
    <2>16. /\ (Along(c, W)[j].called \o q) \o p = Along(c, W)[j].called \o (q \o p)
           /\ (Along(f, S)[1].called \o q) \o p = Along(f, S)[1].called \o (q \o p)
           /\ q \o p \in Seq(CallsOf(cb))
      <3>1. q \o p \in Seq(CallsOf(cb))
        BY ConcatProperties
      <3>0. ASSUME NEW u \in Seq(CallsOf(cb)) PROVE (u \o q) \o p = u \o (q \o p)
        <4>1. PICK D : D = CallsOf(cb)
          OBVIOUS
        <4>2. u \in Seq(D) /\ q \in Seq(D) /\ p \in Seq(D)
          BY <4>1
        <4>3. QED
          BY <4>2, ConcatAssociative
      <3>2. (Along(c, W)[j].called \o q) \o p = Along(c, W)[j].called \o (q \o p)
        BY <1>4, <3>0, Zenon
      <3>3. (Along(f, S)[1].called \o q) \o p = Along(f, S)[1].called \o (q \o p)
        BY <1>4, <3>0, Zenon
      <3>4. QED
        BY <3>1, <3>2, <3>3
    <2>17. Agree(m)
      BY <2>9, <2>13, <2>14, <2>15, <2>16, Zenon DEF Agree
    <2>18. QED
      BY <2>0, <2>17
  <1>7. Agree(Len(S)) /\ j + Len(S) - 1 = Len(W)
    <2> HIDE DEF Agree
    <2>1. Len(S) \in 1 .. Len(S)
      BY <1>0, <1>1
    <2> QED
      BY <1>0, <1>6, <2>1
  <1>8. QED
    BY <1>7 DEF CallTheSame

-----------------------------------------------------------------------------
(* The leg in which an advance ends, and the one in which the next goes on  *)

\* Calls upwards in two parts.
LEMMA UpSplit ==
  ASSUME NEW cb \in Seq(Int), NEW lo \in 0 .. Len(cb), NEW mid \in 0 .. Len(cb), NEW hi \in 0 .. Len(cb),
         lo =< mid, mid =< hi
  PROVE  Up(cb, lo, mid) \o Up(cb, mid, hi) = Up(cb, lo, hi)
  <1>1. PICK C : C = CallsOf(cb)
    OBVIOUS
  <1>2. PICK a \in Seq(C), b \in Seq(C), u \in Seq(C) :
          /\ a = Up(cb, lo, mid) /\ b = Up(cb, mid, hi) /\ u = Up(cb, lo, hi)
          /\ Len(a) = mid - lo /\ Len(b) = hi - mid /\ Len(u) = hi - lo
    <2>1. lo =< hi
      OBVIOUS
    <2>2. QED
      BY <1>1, <2>1, UpDownTypes
  <1>3. /\ \A i \in 1 .. mid - lo : a[i] = [at |-> cb[lo + i], up |-> TRUE]
        /\ \A i \in 1 .. hi - mid : b[i] = [at |-> cb[mid + i], up |-> TRUE]
        /\ \A i \in 1 .. hi - lo : u[i] = [at |-> cb[lo + i], up |-> TRUE]
    BY <1>2 DEF Up
  <1>4. a \o b \in Seq(C) /\ Len(a \o b) = hi - lo
        /\ \A i \in 1 .. hi - lo : (a \o b)[i] = IF i <= mid - lo THEN a[i] ELSE b[i - (mid - lo)]
    <2>1. /\ a \o b \in Seq(C) /\ Len(a \o b) = Len(a) + Len(b)
          /\ \A i \in 1 .. Len(a) + Len(b) : (a \o b)[i] = IF i <= Len(a) THEN a[i] ELSE b[i - Len(a)]
      BY ConcatProperties
    <2>2. Len(a) + Len(b) = hi - lo
      BY <1>2
    <2>3. QED
      BY <1>2, <2>1, <2>2
  <1>5. ASSUME NEW i \in 1 .. hi - lo PROVE (a \o b)[i] = u[i]
    <2>1. CASE i <= mid - lo
      <3>1. i \in 1 .. mid - lo
        BY <2>1
      <3>2. QED
        BY <1>3, <1>4, <2>1, <3>1
    <2>2. CASE ~(i <= mid - lo)
      <3>1. i - (mid - lo) \in 1 .. hi - mid /\ mid + (i - (mid - lo)) = lo + i
        BY <2>2
      <3>2. QED
        BY <1>3, <1>4, <2>2, <3>1
    <2>3. QED
      BY <2>1, <2>2
  <1>6. a \o b = u
    BY <1>2, <1>4, <1>5, SeqEqual
  <1>7. QED
    BY <1>2, <1>6

\* Calls downwards in two parts.
LEMMA DownSplit ==
  ASSUME NEW cb \in Seq(Int), NEW lo \in 0 .. Len(cb), NEW mid \in 0 .. Len(cb), NEW hi \in 0 .. Len(cb),
         lo =< mid, mid =< hi
  PROVE  Down(cb, hi, mid) \o Down(cb, mid, lo) = Down(cb, hi, lo)
  <1>1. PICK C : C = CallsOf(cb)
    OBVIOUS
  <1>2. PICK a \in Seq(C), b \in Seq(C), u \in Seq(C) :
          /\ a = Down(cb, hi, mid) /\ b = Down(cb, mid, lo) /\ u = Down(cb, hi, lo)
          /\ Len(a) = hi - mid /\ Len(b) = mid - lo /\ Len(u) = hi - lo
    <2>1. lo =< hi
      OBVIOUS
    <2>2. QED
      BY <1>1, <2>1, UpDownTypes
  <1>3. /\ \A i \in 1 .. hi - mid : a[i] = [at |-> cb[hi + 1 - i], up |-> FALSE]
        /\ \A i \in 1 .. mid - lo : b[i] = [at |-> cb[mid + 1 - i], up |-> FALSE]
        /\ \A i \in 1 .. hi - lo : u[i] = [at |-> cb[hi + 1 - i], up |-> FALSE]
    BY <1>2 DEF Down
  <1>4. a \o b \in Seq(C) /\ Len(a \o b) = hi - lo
        /\ \A i \in 1 .. hi - lo : (a \o b)[i] = IF i <= hi - mid THEN a[i] ELSE b[i - (hi - mid)]
    <2>1. /\ a \o b \in Seq(C) /\ Len(a \o b) = Len(a) + Len(b)
          /\ \A i \in 1 .. Len(a) + Len(b) : (a \o b)[i] = IF i <= Len(a) THEN a[i] ELSE b[i - Len(a)]
      BY ConcatProperties
    <2>2. Len(a) + Len(b) = hi - lo
      BY <1>2
    <2>3. QED
      BY <1>2, <2>1, <2>2
  <1>5. ASSUME NEW i \in 1 .. hi - lo PROVE (a \o b)[i] = u[i]
    <2>1. CASE i <= hi - mid
      <3>1. i \in 1 .. hi - mid
        BY <2>1
      <3>2. QED
        BY <1>3, <1>4, <2>1, <3>1
    <2>2. CASE ~(i <= hi - mid)
      <3>1. i - (hi - mid) \in 1 .. mid - lo /\ mid + 1 - (i - (hi - mid)) = hi + 1 - i
        BY <2>2
      <3>2. QED
        BY <1>3, <1>4, <2>2, <3>1
    <2>3. QED
      BY <2>1, <2>2
  <1>6. a \o b = u
    BY <1>2, <1>4, <1>5, SeqEqual
  <1>7. QED
    BY <1>2, <1>6

\* The call downwards of a callback.
Lowest(m) == [at |-> m, up |-> FALSE]

\* After r, a call downwards at m would not be the one at which a search begins again.
Quiet(r, m) == ~(r.prev = -1 /\ r.called # <<>> /\ Last(r.called) = Lowest(m))

\* Where no callback is at the count, none was called there.
LEMMA NoneThere ==
  ASSUME NEW cb \in Seq(Int), NEW m, ~Contains(cb, m), NEW r, r.called \in Seq(CallsOf(cb))
  PROVE  Quiet(r, m)
  <1>1. SUFFICES ASSUME r.called # <<>>, Last(r.called) = Lowest(m) PROVE FALSE
    BY DEF Quiet
  <1>2. PICK C, calls : C = CallsOf(cb) /\ calls = r.called /\ calls \in Seq(C)
    OBVIOUS
  <1>3. Len(calls) \in 1 .. Len(calls)
    BY <1>1, <1>2, EmptySeq
  <1>4. calls[Len(calls)] \in C
    BY <1>2, <1>3, ElementOfSeq
  <1>5. Lowest(m) \in CallsOf(cb)
    BY <1>1, <1>2, <1>4 DEF Last
  <1>6. m \in ToSet(cb)
    BY <1>5 DEF Lowest, CallsOf
  <1>7. QED
    BY <1>6 DEF ToSet, Contains

\* After a leg upwards the last call, if it is at the end, is upwards.
LEMMA UpIsQuiet ==
  ASSUME NEW cb \in Seq(Int), Sorted(cb), NEW r, Good(cb, r), NEW x \in Int, NEW m \in Int, x < m,
         NEW lo, NEW hi, NEW k, IsUpLeg(cb, r, x, m, lo, hi, k)
  PROVE  Quiet(k, m)
  <1>1. /\ lo \in 0 .. Len(cb) /\ hi \in 0 .. Len(cb) /\ lo =< hi
        /\ lo = FromUp(cb, r, x) /\ hi = NumberBelow(cb, m + 1)
        /\ k.called = r.called \o Up(cb, lo, hi)
    BY DEF IsUpLeg
  <1>2. PICK C, u, v : C = CallsOf(cb) /\ u = r.called /\ v = Up(cb, lo, hi) /\ u \in Seq(C) /\ v \in Seq(C)
    BY <1>1, UpDownTypes DEF Good
  <1>3. Len(v) = hi - lo
    BY <1>1, <1>2, UpDownTypes
  <1>0. lo \in Int /\ hi \in Int
    BY <1>1
  <1>4. k.called = u \o v
    BY <1>1, <1>2
  <1>5. CASE lo = hi
    <2>1. SUFFICES ASSUME Contains(cb, m) PROVE FALSE
      <3>1. v = <<>>
        <4>1. hi - lo = 0
          BY <1>0, <1>5
        <4>2. QED
          BY <1>2, <1>3, <4>1, EmptySeq
      <3>2. k.called = u
        BY <1>2, <1>4, <3>1, ConcatEmptySeq
      <3>3. QED
        BY <1>2, <3>2, NoneThere
    <2>2. NumberBelow(cb, m) < NumberBelow(cb, m + 1)
      BY <2>1, BelowNext, Below
    <2>3. NumberBelow(cb, x) =< NumberBelow(cb, m) /\ NumberBelow(cb, x + 1) =< NumberBelow(cb, m)
      <3>1. x + 1 \in Int /\ x =< m /\ x + 1 =< m
        OBVIOUS
      <3>2. QED
        BY <3>1, BelowGrows
    <2>4. /\ NumberBelow(cb, m) \in Int /\ NumberBelow(cb, m + 1) \in Int
          /\ NumberBelow(cb, x) \in Int /\ NumberBelow(cb, x + 1) \in Int
      <3>1. x + 1 \in Int /\ m + 1 \in Int
        OBVIOUS
      <3>2. \A n \in Int : NumberBelow(cb, n) \in Int
        BY Below
      <3>3. QED
        BY <3>1, <3>2
    <2>5. QED
      BY <1>1, <1>5, <2>2, <2>3, <2>4 DEF FromUp
  <1>6. CASE lo < hi
    <2>1. hi - lo \in 1 .. hi - lo
      BY <1>1, <1>6
    <2>2. v[hi - lo] = [at |-> cb[lo + (hi - lo)], up |-> TRUE]
      BY <1>2, <2>1 DEF Up
    <2>3. Len(u \o v) = Len(u) + (hi - lo) /\ Len(u) \in Nat
      BY <1>2, <1>3, ConcatProperties
    <2>4. (u \o v)[Len(u) + (hi - lo)] = v[hi - lo]
      <3>1. PICK i : i = Len(u) + (hi - lo)
        OBVIOUS
      <3>2. i \in 1 .. Len(u) + Len(v) /\ ~(i <= Len(u)) /\ i - Len(u) = hi - lo
        BY <1>0, <1>3, <1>6, <2>3, <3>1
      <3>3. (u \o v)[i] = IF i <= Len(u) THEN u[i] ELSE v[i - Len(u)]
        BY <1>2, <3>2, ConcatProperties
      <3>4. QED
        BY <3>1, <3>2, <3>3
    <2>5. Last(k.called) = [at |-> cb[lo + (hi - lo)], up |-> TRUE]
      BY <1>4, <2>2, <2>3, <2>4 DEF Last
    <2>6. QED
      BY <2>5 DEF Quiet, Lowest
  <1>7. QED
    BY <1>1, <1>5, <1>6

\* A leg downwards that ends at the lowest callback calls it last.
LEMMA DownToLowest ==
  ASSUME NEW cb \in Seq(Int), Sorted(cb), NEW r, Good(cb, r), NEW x \in Int, NEW m \in Int, m < x,
         NEW hi, NEW lo, NEW k, IsDownLeg(cb, r, x, m, hi, lo, k), Contains(cb, m), lo = 0
  PROVE  k.called # <<>> /\ Last(k.called) = Lowest(m)
  <1>1. /\ hi \in 0 .. Len(cb) /\ hi = FromDown(cb, r, x) /\ lo = NumberBelow(cb, m)
        /\ k.called = r.called \o Down(cb, hi, 0)
    BY DEF IsDownLeg
  <1>2. NumberBelow(cb, m + 1) = 1 /\ cb[1] = m /\ 0 < Len(cb)
    <2>1. NumberBelow(cb, m) < Len(cb) /\ cb[NumberBelow(cb, m) + 1] = m
          /\ NumberBelow(cb, m + 1) = NumberBelow(cb, m) + 1
      BY BelowNext
    <2>2. QED
      BY <1>1, <2>1
  <1>3. 0 < hi
    <2>1. m + 1 \in Int /\ x + 1 \in Int /\ m + 1 =< x /\ m + 1 =< x + 1
      OBVIOUS
    <2>2. NumberBelow(cb, m + 1) =< NumberBelow(cb, x) /\ NumberBelow(cb, m + 1) =< NumberBelow(cb, x + 1)
      BY <2>1, BelowGrows
    <2>3. NumberBelow(cb, x) \in Int /\ NumberBelow(cb, x + 1) \in Int
      BY <2>1, Below
    <2>4. QED
      BY <1>1, <1>2, <2>2, <2>3 DEF FromDown
  <1>4. PICK C, u, v : C = CallsOf(cb) /\ u = r.called /\ v = Down(cb, hi, 0) /\ u \in Seq(C) /\ v \in Seq(C)
    <2>1. 0 \in 0 .. Len(cb) /\ 0 =< hi
      BY <1>1
    <2>2. QED
      BY <1>1, <2>1, UpDownTypes DEF Good
  <1>5. Len(v) = hi
    <2>1. 0 \in 0 .. Len(cb) /\ 0 =< hi /\ hi - 0 = hi
      BY <1>1
    <2>2. QED
      BY <1>1, <1>4, <2>1, UpDownTypes
  <1>6. v[hi] = Lowest(m)
    <2>1. hi \in 1 .. hi - 0 /\ hi + 1 - hi = 1
      BY <1>1, <1>3
    <2>2. v[hi] = [at |-> cb[hi + 1 - hi], up |-> FALSE]
      BY <1>4, <2>1 DEF Down
    <2>3. QED
      BY <1>2, <2>1, <2>2 DEF Lowest
  <1>7. Len(u \o v) = Len(u) + hi /\ Len(u) \in Nat
    BY <1>4, <1>5, ConcatProperties
  <1>8. (u \o v)[Len(u) + hi] = v[hi]
    <2>1. PICK i : i = Len(u) + hi
      OBVIOUS
    <2>2. i \in 1 .. Len(u) + Len(v) /\ ~(i <= Len(u)) /\ i - Len(u) = hi
      BY <1>1, <1>3, <1>5, <1>7, <2>1
    <2>3. (u \o v)[i] = IF i <= Len(u) THEN u[i] ELSE v[i - Len(u)]
      BY <1>4, <2>2, ConcatProperties
    <2>4. QED
      BY <2>1, <2>2, <2>3
  <1>9. k.called = u \o v /\ Last(k.called) = Lowest(m)
    BY <1>1, <1>4, <1>6, <1>7, <1>8 DEF Last
  <1>10. u \o v # <<>>
    BY <1>1, <1>3, <1>7
  <1>11. QED
    BY <1>9, <1>10

\* The calls of w are those of r and then those of s, none of which is counted once.
JoinedApart(r, s, w, m) ==
  /\ w.called = r.called \o s.called
  /\ r.lastEnd # m \/ Quiet(r, m) \/ (s.called # <<>> /\ Head(s.called) # Lowest(m))

\* The lowest callback, which r has called, is all that s calls.
JoinedTwice(r, s, w, m) ==
  /\ r.prev = -1 /\ r.lastEnd = m /\ r.called # <<>> /\ Last(r.called) = Lowest(m)
  /\ s.called = <<Lowest(m)>> /\ w.called = r.called

\* A leg upwards, and the same leg in two parts.
LEMMA JoinUp ==
  ASSUME NEW cb \in Seq(Int), Sorted(cb), NEW x \in Int, NEW m \in Int, NEW y \in Int, x < m, m < y,
         NEW r0, Good(cb, r0), NEW r, r = CallCallbacks(cb, r0, <<x, m>>),
         NEW s0, Good(cb, s0), SameAs(r, s0), s0.called = <<>>
  PROVE  /\ SameAs(CallCallbacks(cb, r0, <<x, y>>), CallCallbacks(cb, s0, <<m, y>>))
         /\ JoinedApart(r, CallCallbacks(cb, s0, <<m, y>>), CallCallbacks(cb, r0, <<x, y>>), m)
  <1>0. Remembers(cb, r0) /\ Remembers(cb, s0) /\ r0.called \in Seq(CallsOf(cb)) /\ x < y
    BY DEF Good
  <1>1. PICK lo, mid, k : IsUpLeg(cb, r0, x, m, lo, mid, k)
    BY <1>0, UpCalls
  <1>2. PICK lo2, hi, w : IsUpLeg(cb, r0, x, y, lo2, hi, w)
    BY <1>0, UpCalls
  <1>3. PICK mid2, hi2, s : IsUpLeg(cb, s0, m, y, mid2, hi2, s)
    BY <1>0, UpCalls
  <1>4. k = r /\ w = CallCallbacks(cb, r0, <<x, y>>) /\ s = CallCallbacks(cb, s0, <<m, y>>)
    BY <1>1, <1>2, <1>3 DEF IsUpLeg
  <1>5. lo2 = lo /\ hi2 = hi /\ SameAs(w, s)
    BY <1>1, <1>2, <1>3 DEF IsUpLeg, SameAs
  <1>6. mid2 = mid
    <2>1. s0.next = mid /\ s0.lastEnd = m /\ mid \in Nat
      BY <1>1, <1>4 DEF IsUpLeg, SameAs
    <2>2. mid2 = FromUp(cb, s0, m) /\ mid = NumberBelow(cb, m + 1)
      BY <1>1, <1>3 DEF IsUpLeg
    <2>3. QED
      BY <2>1, <2>2 DEF FromUp
  <1>7. PICK C, p, u, v : /\ C = CallsOf(cb) /\ p = r0.called /\ u = Up(cb, lo, mid) /\ v = Up(cb, mid, hi)
                          /\ p \in Seq(C) /\ u \in Seq(C) /\ v \in Seq(C) /\ u \o v = Up(cb, lo, hi)
    <2>1. /\ lo \in 0 .. Len(cb) /\ mid \in 0 .. Len(cb) /\ hi \in 0 .. Len(cb) /\ lo =< mid /\ mid =< hi
      BY <1>1, <1>2, <1>3, <1>5, <1>6 DEF IsUpLeg
    <2>2. Up(cb, lo, mid) \in Seq(CallsOf(cb)) /\ Up(cb, mid, hi) \in Seq(CallsOf(cb))
      BY <2>1, UpDownTypes
    <2>3. Up(cb, lo, mid) \o Up(cb, mid, hi) = Up(cb, lo, hi)
      BY <2>1, UpSplit
    <2>4. QED
      BY <1>0, <2>2, <2>3
  <1>8. w.called = p \o (u \o v) /\ r.called = p \o u /\ s.called = <<>> \o v
    BY <1>1, <1>2, <1>3, <1>4, <1>5, <1>6, <1>7, Zenon DEF IsUpLeg
  <1>9. p \o (u \o v) = (p \o u) \o v /\ <<>> \o v = v
    <2>1. p \in Seq(C) /\ u \in Seq(C) /\ v \in Seq(C)
      BY <1>7
    <2>2. p \o (u \o v) = (p \o u) \o v
      BY <2>1, ConcatAssociative
    <2>3. <<>> \o v = v
      BY <2>1, ConcatEmptySeq
    <2>4. QED
      BY <2>2, <2>3
  <1>10. Quiet(r, m)
    BY <1>1, <1>4, UpIsQuiet
  <1>11. w.called = r.called \o s.called
    BY <1>8, <1>9, Zenon
  <1>12. QED
    BY <1>4, <1>5, <1>10, <1>11, Zenon DEF JoinedApart

\* A leg downwards, and the same leg in two parts, the second of which calls the
\* lowest callback again if the first ends there.
LEMMA JoinDown ==
  ASSUME NEW cb \in Seq(Int), Sorted(cb), NEW x \in Int, NEW m \in Int, NEW y \in Int, m < x, y < m,
         NEW r0, Good(cb, r0), NEW r, r = CallCallbacks(cb, r0, <<x, m>>), Good(cb, r),
         NEW s0, Good(cb, s0), SameAs(r, s0), s0.called = <<>>
  PROVE  /\ SameAs(CallCallbacks(cb, r0, <<x, y>>), CallCallbacks(cb, s0, <<m, y>>))
         /\ \/ JoinedApart(r, CallCallbacks(cb, s0, <<m, y>>), CallCallbacks(cb, r0, <<x, y>>), m)
            \/ JoinedTwice(r, CallCallbacks(cb, s0, <<m, y>>), CallCallbacks(cb, r0, <<x, y>>), m)
  <1>0. Remembers(cb, r0) /\ Remembers(cb, s0) /\ r0.called \in Seq(CallsOf(cb)) /\ y < x
    BY DEF Good
  <1>1. PICK hi, mid, k : IsDownLeg(cb, r0, x, m, hi, mid, k)
    BY <1>0, DownCalls
  <1>2. PICK hi2, lo, w : IsDownLeg(cb, r0, x, y, hi2, lo, w)
    BY <1>0, DownCalls
  <1>3. PICK mid2, lo2, s : IsDownLeg(cb, s0, m, y, mid2, lo2, s)
    BY <1>0, DownCalls
  <1>4. k = r /\ w = CallCallbacks(cb, r0, <<x, y>>) /\ s = CallCallbacks(cb, s0, <<m, y>>)
    BY <1>1, <1>2, <1>3 DEF IsDownLeg
  <1>5. hi2 = hi /\ lo2 = lo /\ SameAs(w, s)
    BY <1>1, <1>2, <1>3 DEF IsDownLeg, SameAs
  <1>6. /\ hi \in 0 .. Len(cb) /\ mid \in 0 .. Len(cb) /\ lo \in 0 .. Len(cb) /\ mid =< hi /\ lo =< mid
        /\ mid = NumberBelow(cb, m) /\ r.prev = mid - 1 /\ r.lastEnd = m
        /\ s0.prev = mid - 1 /\ s0.lastEnd = m
        /\ mid2 = FromDown(cb, s0, m)
    <2>1. lo =< mid
      <3>1. NumberBelow(cb, y) =< NumberBelow(cb, m)
        BY BelowGrows
      <3>2. QED
        BY <1>1, <1>2, <3>1 DEF IsDownLeg
    <2>2. QED
      BY <1>1, <1>2, <1>3, <1>4, <2>1 DEF IsDownLeg, SameAs
  <1>7. PICK C, p, u, v : /\ C = CallsOf(cb) /\ p = r0.called /\ u = Down(cb, hi, mid) /\ v = Down(cb, mid, lo)
                          /\ p \in Seq(C) /\ u \in Seq(C) /\ v \in Seq(C) /\ u \o v = Down(cb, hi, lo)
    <2>1. Down(cb, hi, mid) \in Seq(CallsOf(cb)) /\ Down(cb, mid, lo) \in Seq(CallsOf(cb))
      BY <1>6, UpDownTypes
    <2>2. Down(cb, hi, mid) \o Down(cb, mid, lo) = Down(cb, hi, lo)
      BY <1>6, DownSplit
    <2>3. QED
      BY <1>0, <2>1, <2>2
  <1>8. w.called = p \o (u \o v) /\ r.called = p \o u /\ s.called = <<>> \o Down(cb, mid2, lo)
    BY <1>1, <1>2, <1>3, <1>4, <1>5, <1>7, Zenon DEF IsDownLeg
  <1>9. p \o (u \o v) = (p \o u) \o v /\ <<>> \o v = v /\ p \o u \in Seq(C)
    <2>0. p \in Seq(C) /\ u \in Seq(C) /\ v \in Seq(C)
      BY <1>7
    <2>1. p \o (u \o v) = (p \o u) \o v
      BY <2>0, ConcatAssociative
    <2>2. <<>> \o v = v /\ p \o u \in Seq(C)
      BY <1>7, ConcatEmptySeq, ConcatProperties
    <2>3. QED
      BY <2>1, <2>2
  <1>10. CASE mid2 = mid /\ (mid # 0 \/ ~Contains(cb, m))
    <2>1. s.called = v
      BY <1>7, <1>8, <1>9, <1>10
    <2>2. w.called = r.called \o s.called
      BY <1>8, <1>9, <2>1, Zenon
    <2>3. Quiet(r, m)
      <3>1. CASE mid # 0
        BY <1>6, <3>1 DEF Quiet
      <3>2. CASE ~Contains(cb, m)
        BY <3>2, NoneThere DEF Good
      <3>3. QED
        BY <1>10, <3>1, <3>2
    <2>4. QED
      BY <1>4, <1>5, <2>2, <2>3, Zenon DEF JoinedApart
  <1>11. CASE mid2 # mid \/ (mid = 0 /\ Contains(cb, m))
    <2>1. mid = 0 /\ Contains(cb, m) /\ mid2 = 1 /\ cb[1] = m
      <3>1. NumberBelow(cb, m + 1) = mid \/ (NumberBelow(cb, m + 1) = mid + 1 /\ Contains(cb, m))
        BY <1>6, BelowNext
      <3>2. mid = 0 => mid2 = NumberBelow(cb, m + 1)
        BY <1>6 DEF FromDown
      <3>3. mid # 0 => mid2 = mid
        BY <1>6 DEF FromDown
      <3>4. mid = 0 /\ Contains(cb, m)
        BY <1>11, <3>1, <3>2, <3>3
      <3>5. /\ NumberBelow(cb, m + 1) = NumberBelow(cb, m) + 1
            /\ cb[NumberBelow(cb, m) + 1] = m
        BY <3>4, BelowNext
      <3>6. QED
        BY <1>6, <3>2, <3>4, <3>5
    <2>2. lo = 0
      BY <1>6, <2>1
    <2>3. s.called = <<Lowest(m)>>
      <3>1. Down(cb, mid2, lo) = Down(cb, 1, 0)
        BY <2>1, <2>2
      <3>2. Down(cb, 1, 0) = [i \in 1 .. 1 |-> [at |-> cb[1 + 1 - i], up |-> FALSE]]
        BY DEF Down
      <3>3. \A i \in 1 .. 1 : [at |-> cb[1 + 1 - i], up |-> FALSE] = Lowest(m)
        <4>1. \A i \in 1 .. 1 : 1 + 1 - i = 1
          OBVIOUS
        <4>2. QED
          BY <2>1, <4>1 DEF Lowest
      <3>4. Down(cb, 1, 0) = [i \in 1 .. 1 |-> Lowest(m)]
        BY <3>2, <3>3
      <3>5. Down(cb, 1, 0) = <<Lowest(m)>>
        BY <3>4
      <3>6. <<>> \o <<Lowest(m)>> = <<Lowest(m)>>
        OBVIOUS
      <3>7. QED
        BY <1>8, <3>1, <3>5, <3>6
    <2>4. w.called = r.called
      <3>1. v = <<>>
        <4>1. Len(Down(cb, mid, lo)) = 0
          BY <1>6, <2>1, <2>2, UpDownTypes
        <4>2. QED
          BY <1>7, <4>1, EmptySeq
      <3>2. (p \o u) \o <<>> = p \o u
        BY <1>9, ConcatEmptySeq
      <3>3. QED
        BY <1>8, <1>9, <3>1, <3>2
    <2>5. r.called # <<>> /\ Last(r.called) = Lowest(m)
      BY <1>1, <1>4, <2>1, DownToLowest
    <2>6. r.prev = -1
      BY <1>6, <2>1
    <2>7. JoinedTwice(r, s, w, m)
      BY <1>6, <2>3, <2>4, <2>5, <2>6 DEF JoinedTwice
    <2>8. QED
      BY <1>4, <1>5, <2>7, Zenon
  <1>12. QED
    BY <1>10, <1>11

\* A leg of no length, and a leg on from there.
LEMMA JoinZero ==
  ASSUME NEW cb \in Seq(Int), Sorted(cb), NEW m \in Int, NEW y \in Int,
         NEW r, Good(cb, r), NEW s0, Good(cb, s0), SameAs(r, s0), s0.called = <<>>,
         r.lastEnd # m \/ Quiet(r, m) \/ (r.next = -1 /\ m < y)
  PROVE  /\ SameAs(CallCallbacks(cb, r, <<m, y>>), CallCallbacks(cb, s0, <<m, y>>))
         /\ JoinedApart(r, CallCallbacks(cb, s0, <<m, y>>), CallCallbacks(cb, r, <<m, y>>), m)
  <1>1. PICK w, s : w = CallCallbacks(cb, r, <<m, y>>) /\ s = CallCallbacks(cb, s0, <<m, y>>)
    OBVIOUS
  <1>2. PICK q \in Seq(CallsOf(cb)) : w.called = r.called \o q /\ s.called = s0.called \o q /\ SameAs(w, s)
    <2>1. \E q \in Seq(CallsOf(cb)) :
             /\ CallCallbacks(cb, r, <<m, y>>).called = r.called \o q
             /\ CallCallbacks(cb, s0, <<m, y>>).called = s0.called \o q
             /\ SameAs(CallCallbacks(cb, r, <<m, y>>), CallCallbacks(cb, s0, <<m, y>>))
      BY LegAfter
    <2>2. QED
      BY <1>1, <2>1, Zenon
  <1>3. s.called = q
    BY <1>2, ConcatEmptySeq
  <1>4. CASE r.lastEnd # m \/ Quiet(r, m)
    BY <1>1, <1>2, <1>3, <1>4, Zenon DEF JoinedApart
  <1>5. CASE r.next = -1 /\ m < y /\ ~Contains(cb, m)
    <2>1. Quiet(r, m)
      BY <1>5, NoneThere DEF Good
    <2>2. QED
      BY <1>4, <2>1
  <1>6. CASE r.next = -1 /\ m < y /\ Contains(cb, m)
    <2>1. Remembers(cb, s0) /\ s0.next = -1
      BY <1>6 DEF Good, SameAs
    <2>2. PICK lo, hi, k : IsUpLeg(cb, s0, m, y, lo, hi, k)
      BY <1>6, <2>1, UpCalls
    <2>3. /\ lo \in 0 .. Len(cb) /\ hi \in 0 .. Len(cb) /\ lo =< hi /\ hi = NumberBelow(cb, y + 1)
          /\ lo = FromUp(cb, s0, m) /\ k = s /\ k.called = s0.called \o Up(cb, lo, hi)
      BY <1>1, <2>2 DEF IsUpLeg
    <2>4. lo = NumberBelow(cb, m)
      BY <2>1, <2>3 DEF FromUp
    <2>5. lo < hi
      <3>1. NumberBelow(cb, m + 1) = lo + 1
        BY <1>6, <2>4, BelowNext
      <3>2. m + 1 \in Int /\ y + 1 \in Int /\ m + 1 =< y + 1
        BY <1>6
      <3>3. NumberBelow(cb, m + 1) =< NumberBelow(cb, y + 1)
        BY <3>2, BelowGrows
      <3>4. QED
        BY <2>3, <3>1, <3>3
    <2>6. PICK C, v : C = CallsOf(cb) /\ v = Up(cb, lo, hi) /\ v \in Seq(C) /\ Len(v) = hi - lo
      BY <2>3, UpDownTypes
    <2>7. s.called = v
      <3>1. <<>> \o v = v
        BY <2>6, ConcatEmptySeq
      <3>2. QED
        BY <2>3, <2>6, <3>1
    <2>8. v[1] = [at |-> cb[lo + 1], up |-> TRUE] /\ v # <<>>
      <3>1. 1 \in 1 .. hi - lo
        BY <2>3, <2>5
      <3>2. QED
        BY <2>6, <3>1 DEF Up
    <2>9. Head(v) # Lowest(m)
      BY <2>6, <2>8 DEF Lowest
    <2>10. QED
      BY <1>1, <1>2, <1>3, <2>7, <2>8, <2>9, Zenon DEF JoinedApart
  <1>7. QED
    BY <1>4, <1>5, <1>6

\* Where an advance ends and the next goes on: in the middle of a leg; nowhere,
\* since that one is over at once; or at the end of one leg and the beginning of
\* another, which does not go on in the direction of the one before.
MeetsAt(F, S, x, m, y) ==
  \/ x < m /\ m < y
  \/ m < x /\ y < m
  \/ m = y /\ Len(S) = 1
  \/ /\ x = m /\ Len(F) >= 2
     /\ \E u \in Int, v \in Int :
           /\ F[Len(F) - 1] = <<u, v>> /\ u # v
           /\ v # m \/ (u < m /\ y < m) \/ (m < u /\ m < y)

\* W is F and then S, with the last leg of F and the first of S as one.
Composes(F, S, W) ==
  /\ Len(F) >= 1 /\ Len(S) >= 1 /\ Len(W) = Len(F) + Len(S) - 1
  /\ \A i \in 1 .. Len(F) - 1 : W[i] = F[i]
  /\ \A i \in 2 .. Len(S) : W[Len(F) + i - 1] = S[i]
  /\ \E x \in Int, m \in Int, y \in Int :
        /\ F[Len(F)] = <<x, m>> /\ S[1] = <<m, y>> /\ W[Len(F)] = <<x, y>>
        /\ MeetsAt(F, S, x, m, y)

\* Calls are put together in any grouping.
LEMMA Associative == \A C : \A a, b, d \in Seq(C) : (a \o b) \o d = a \o (b \o d)
  BY ConcatAssociative

\* The calls of w are those of r and then of s, as RateIndependent counts them.
CalledInARow(r, s, w, m) ==
  w.called = IF /\ r.prev = -1 /\ r.lastEnd = m /\ r.called # <<>> /\ s.called # <<>>
                /\ Last(r.called) = Lowest(m) /\ Head(s.called) = Lowest(m)
               THEN r.called \o Tail(s.called) ELSE r.called \o s.called

\* The calls at the join and those after it.
LEMMA JoinedCalls ==
  ASSUME NEW cb, NEW m, NEW r, Good(cb, r), NEW s1, Good(cb, s1), NEW w1, NEW s, NEW w,
         CallTheSame(cb, w1, w, s1, s),
         \/ JoinedApart(r, s1, w1, m) \/ JoinedTwice(r, s1, w1, m)
         \/ (w1 = r /\ s1.called = <<>> /\ s = s1)
  PROVE  CalledInARow(r, s, w, m)
  <1>1. PICK q \in Seq(CallsOf(cb)) : w.called = w1.called \o q /\ s.called = s1.called \o q
    BY DEF CallTheSame
  <1>2. PICK C : C = CallsOf(cb)
    OBVIOUS
  <1> DEFINE Once == /\ r.prev = -1 /\ r.lastEnd = m /\ r.called # <<>> /\ s.called # <<>>
                     /\ Last(r.called) = Lowest(m) /\ Head(s.called) = Lowest(m)
  <1>14. PICK a, b, d : /\ a = r.called /\ b = s1.called /\ d = w1.called
                        /\ a \in Seq(C) /\ b \in Seq(C) /\ q \in Seq(C)
    BY <1>2 DEF Good
  <1>15. CASE JoinedApart(r, s1, w1, m)
    <2>1. d = a \o b
      BY <1>14, <1>15, Zenon DEF JoinedApart
    <2>2. (a \o b) \o q = a \o (b \o q)
      <3>1. \A x, y, z \in Seq(C) : (x \o y) \o z = x \o (y \o z)
        BY Associative
      <3>2. a \in Seq(C) /\ b \in Seq(C) /\ q \in Seq(C)
        BY <1>14, Zenon
      <3>3. QED
        BY <3>1, <3>2, Zenon
    <2>3. w.called = r.called \o s.called
      BY <1>1, <1>14, <2>1, <2>2, Zenon
    <2>4. b # <<>> => Head(b \o q) = Head(b)
      <3>1. SUFFICES ASSUME b # <<>> PROVE Head(b \o q) = Head(b)
        OBVIOUS
      <3>2. Len(b) \in Nat \ {0} /\ Len(q) \in Nat
        BY <1>14, <3>1, EmptySeq, LenProperties
      <3>3. (b \o q)[1] = b[1]
        BY <1>14, <3>2, ConcatProperties
      <3>4. Head(b \o q) = (b \o q)[1] /\ Head(b) = b[1]
        <4>1. PICK e \in Seq(C) : e = b \o q
          BY <1>14, ConcatProperties
        <4>2. Len(e) = Len(b) + Len(q)
          BY <1>14, <4>1, ConcatProperties
        <4>3. e # <<>>
          BY <3>2, <4>2
        <4>4. Head(e) = e[1] /\ Head(b) = b[1]
          BY <1>14, <3>1, <4>3
        <4>5. QED
          BY <4>1, <4>4
      <3>5. QED
        BY <3>3, <3>4
    <2>5. ~Once
      BY <1>1, <1>14, <1>15, <2>4, Zenon DEF JoinedApart, Quiet
    <2>6. QED
      BY <2>3, <2>5, Zenon DEF CalledInARow
  <1>16. CASE JoinedTwice(r, s1, w1, m)
    <2>1. PICK L : L = Lowest(m)
      OBVIOUS
    <2>2. b = <<L>> /\ d = a
      BY <1>14, <1>16, <2>1 DEF JoinedTwice
    <2>3. <<L>> \o q # <<>> /\ Head(<<L>> \o q) = L /\ Tail(<<L>> \o q) = q
      BY <1>14
    <2>4. Once
      BY <1>1, <1>14, <1>16, <2>1, <2>2, <2>3, Zenon DEF JoinedTwice
    <2>5. w.called = r.called \o Tail(s.called)
      BY <1>1, <1>14, <2>2, <2>3, Zenon
    <2>6. QED
      BY <2>4, <2>5, Zenon DEF CalledInARow
  <1>17. CASE w1 = r /\ s1.called = <<>> /\ s = s1
    <2>1. q = <<>>
      BY <1>1, <1>14, <1>17, ConcatEmptySeq
    <2>2. a \o <<>> = a
      BY <1>14, ConcatEmptySeq
    <2>3. w.called = r.called \o s.called /\ ~Once
      BY <1>1, <1>14, <1>17, <2>1, <2>2, Zenon
    <2>4. QED
      BY <2>3, Zenon DEF CalledInARow
  <1>18. QED
    BY <1>15, <1>16, <1>17

\* The calls of two advances, and of the one that is as far.
LEMMA CallsCompose ==
  ASSUME NEW c, Fine(c), NEW f, Fine(f), f.callbacks = c.callbacks,
         NEW F \in Legs, NEW S \in Legs, NEW W \in Legs, Composes(F, S, W),
         NEW r, r = Along(c, F)[Len(F)], SameAs(r, Start(f)),
         NEW s, s = Along(f, S)[Len(S)], NEW w, w = Along(c, W)[Len(W)],
         NEW m, m = F[Len(F)][2]
  PROVE  CalledInARow(r, s, w, m)
  <1>0. PICK cb \in Seq(Int) : cb = c.callbacks /\ Sorted(cb)
    BY GoodStart DEF Fine
  <1>1. PICK j \in Nat : j = Len(F)
    BY DEF Legs
  <1>2. PICK n \in Nat : n = Len(S)
    BY DEF Legs
  <1>3. j >= 1 /\ n >= 1 /\ Len(W) = j + n - 1
    BY <1>1, <1>2 DEF Composes
  <1>4. PICK x \in Int, y \in Int : /\ F[j] = <<x, m>> /\ S[1] = <<m, y>> /\ W[j] = <<x, y>> /\ m \in Int
                                    /\ MeetsAt(F, S, x, m, y)
    BY <1>1 DEF Composes
  <1>5. /\ j \in 1 .. Len(F) /\ j \in 1 .. Len(W) /\ 1 \in 1 .. Len(S)
        /\ j - 1 \in 0 .. Len(F) /\ j - 1 \in 0 .. Len(W) /\ j \in 0 .. Len(F) /\ 1 \in 0 .. Len(S)
        /\ j - 1 \in Nat /\ Len(F) \in Nat /\ Len(S) \in Nat /\ Len(W) \in Nat
    BY <1>1, <1>2, <1>3
  <1>6. PICK r0 : r0 = Along(c, F)[j - 1] /\ Good(cb, r0)
    BY <1>0, <1>5, GoodAlong
  <1>7. Along(c, W)[j - 1] = r0
    <2>1. \A i \in 1 .. j - 1 : W[i] = F[i]
      BY <1>1 DEF Composes
    <2>2. j - 1 =< Len(W) /\ j - 1 =< Len(F)
      BY <1>5
    <2>3. QED
      BY <1>5, <1>6, <2>1, <2>2, SamePrefix
  <1>8. r = CallCallbacks(cb, r0, <<x, m>>) /\ Good(cb, r)
    <2>1. Along(c, F)[j] = CallCallbacks(c.callbacks, Along(c, F)[j - 1], F[j])
      BY <1>5, AlongLegs
    <2>2. QED
      BY <1>0, <1>1, <1>4, <1>5, <1>6, <2>1, GoodAlong
  <1>9. PICK w1 : w1 = CallCallbacks(cb, r0, <<x, y>>) /\ w1 = Along(c, W)[j]
    <2>1. Along(c, W)[j] = CallCallbacks(c.callbacks, Along(c, W)[j - 1], W[j])
      BY <1>5, AlongLegs
    <2>2. QED
      BY <1>0, <1>4, <1>7, <2>1
  <1>10. PICK s0 : s0 = Start(f) /\ Good(cb, s0) /\ SameAs(r, s0) /\ s0.called = <<>>
    <2>1. Start(f).called = <<>>
      BY DEF Start
    <2>2. QED
      BY <1>0, <2>1, GoodStart
  <1>11. PICK s1 : s1 = CallCallbacks(cb, s0, <<m, y>>) /\ s1 = Along(f, S)[1]
    <2>1. Along(f, S)[0] = Start(f) /\ Along(f, S)[1] = CallCallbacks(f.callbacks, Along(f, S)[1 - 1], S[1])
      BY <1>5, AlongLegs
    <2>2. QED
      BY <1>0, <1>4, <1>10, <2>1
  <1>12. /\ SameAs(w1, s1)
         /\ JoinedApart(r, s1, w1, m) \/ JoinedTwice(r, s1, w1, m) \/ (w1 = r /\ s1.called = <<>> /\ n = 1)
    <2>1. CASE x < m /\ m < y
      <3>1. m \in Int /\ Sorted(cb) /\ Good(cb, r0) /\ Good(cb, r) /\ Good(cb, s0)
            /\ r = CallCallbacks(cb, r0, <<x, m>>) /\ SameAs(r, s0) /\ s0.called = <<>>
        BY <1>0, <1>4, <1>6, <1>8, <1>10
      <3>2. /\ SameAs(CallCallbacks(cb, r0, <<x, y>>), CallCallbacks(cb, s0, <<m, y>>))
            /\ JoinedApart(r, CallCallbacks(cb, s0, <<m, y>>), CallCallbacks(cb, r0, <<x, y>>), m)
        BY <2>1, <3>1, JoinUp
      <3>3. QED
        BY <1>9, <1>11, <3>2, Zenon
    <2>2. CASE m < x /\ y < m
      <3>1. m \in Int /\ Sorted(cb) /\ Good(cb, r0) /\ Good(cb, r) /\ Good(cb, s0)
            /\ r = CallCallbacks(cb, r0, <<x, m>>) /\ SameAs(r, s0) /\ s0.called = <<>>
        BY <1>0, <1>4, <1>6, <1>8, <1>10
      <3>2. /\ SameAs(CallCallbacks(cb, r0, <<x, y>>), CallCallbacks(cb, s0, <<m, y>>))
            /\ (JoinedApart(r, CallCallbacks(cb, s0, <<m, y>>), CallCallbacks(cb, r0, <<x, y>>), m)
                 \/ JoinedTwice(r, CallCallbacks(cb, s0, <<m, y>>), CallCallbacks(cb, r0, <<x, y>>), m))
        BY <2>2, <3>1, JoinDown
      <3>3. QED
        BY <1>9, <1>11, <3>2, Zenon
    <2>3. CASE m = y /\ Len(S) = 1
      <3>1. w1 = r /\ s1 = s0
        BY <1>4, <1>8, <1>9, <1>11, <2>3, ZeroLeg
      <3>2. QED
        BY <1>2, <1>10, <2>3, <3>1
    <2>4. ASSUME x = m, Len(F) >= 2, NEW u \in Int, NEW v \in Int, F[Len(F) - 1] = <<u, v>>, u # v,
                 v # m \/ (u < m /\ y < m) \/ (m < u /\ m < y)
          PROVE  SameAs(w1, s1) /\ JoinedApart(r, s1, w1, m)
      <3>1. r = r0
        BY <1>4, <1>8, <2>4, ZeroLeg
      <3>2. PICK p : p = Along(c, F)[j - 2] /\ Good(cb, p) /\ r = CallCallbacks(cb, p, <<u, v>>)
        <4>1. j - 1 \in 1 .. Len(F) /\ j - 2 \in 0 .. Len(F) /\ (j - 1) - 1 = j - 2
          BY <1>1, <2>4
        <4>2. Along(c, F)[j - 1] = CallCallbacks(c.callbacks, Along(c, F)[(j - 1) - 1], F[j - 1])
          BY <1>5, <4>1, AlongLegs
        <4>3. Good(cb, Along(c, F)[j - 2])
          BY <1>0, <4>1, GoodAlong
        <4>4. F[j - 1] = <<u, v>>
          BY <1>1, <2>4
        <4>5. QED
          BY <1>0, <1>6, <3>1, <4>1, <4>2, <4>3, <4>4
      <3>3. Remembers(cb, p)
        BY <3>2 DEF Good
      <3>4. r.lastEnd # m \/ Quiet(r, m) \/ (r.next = -1 /\ m < y)
        <4>1. CASE u < v
          <5>1. PICK lo, hi, k : IsUpLeg(cb, p, u, v, lo, hi, k)
            BY <1>0, <3>3, <4>1, UpCalls
          <5>2. k = r /\ r.lastEnd = v
            BY <3>2, <5>1 DEF IsUpLeg
          <5>3. CASE v # m
            BY <5>2, <5>3
          <5>4. CASE v = m
            BY <1>0, <1>4, <3>2, <4>1, <5>1, <5>2, <5>4, UpIsQuiet
          <5>5. QED
            BY <5>3, <5>4
        <4>2. CASE v < u
          <5>1. PICK hi, lo, k : IsDownLeg(cb, p, u, v, hi, lo, k)
            BY <1>0, <3>3, <4>2, DownCalls
          <5>2. k = r /\ r.lastEnd = v /\ r.next = -1
            BY <3>2, <5>1 DEF IsDownLeg
          <5>3. QED
            BY <1>4, <2>4, <4>2, <5>2
        <4>3. QED
          BY <2>4, <4>1, <4>2
      <3>5. w1 = CallCallbacks(cb, r, <<m, y>>)
        BY <1>9, <2>4, <3>1
      <3>6. QED
        BY <1>0, <1>4, <1>8, <1>10, <1>11, <3>4, <3>5, JoinZero
    <2>5. QED
      BY <1>4, <2>1, <2>2, <2>3, <2>4 DEF MeetsAt
  <1>13. CallTheSame(cb, w1, w, s1, s)
    <2>1. GoesOn(W, j, S)
      BY <1>1, <1>5 DEF Composes, GoesOn
    <2>2. SameAs(Along(c, W)[j], Along(f, S)[1])
      BY <1>9, <1>11, <1>12
    <2>3. CallTheSame(c.callbacks, Along(c, W)[j], Along(c, W)[Len(W)], Along(f, S)[1], Along(f, S)[Len(S)])
      BY <2>1, <2>2, SameSuffix
    <2>4. QED
      BY <1>0, <1>9, <1>11, <2>3
  <1>14. Good(cb, s1)
    BY <1>0, <1>5, <1>11, GoodAlong
  <1>15. JoinedApart(r, s1, w1, m) \/ JoinedTwice(r, s1, w1, m) \/ (w1 = r /\ s1.called = <<>> /\ s = s1)
    <2>1. n = 1 => s = s1
      BY <1>2, <1>11
    <2>2. QED
      BY <1>12, <2>1
  <1>16. QED
    BY <1>8, <1>13, <1>14, <1>15, JoinedCalls

-----------------------------------------------------------------------------
(* Mirror images and divisions                                              *)

\* The i-th leg of a path.
HasLeg(legs, i, x, y) ==
  legs \in Legs /\ i \in 1 .. Len(legs) /\ x \in Int /\ y \in Int /\ legs[i] = <<x, y>>

\* The i-th leg of the mirrored path.
LEMMA MirroredLeg ==
  \A legs, i, x, y : HasLeg(legs, i, x, y) =>
    HasLeg(Mirrored(1, legs), i, x, y) /\ HasLeg(Mirrored(-1, legs), i, -x, -y)
  <1>1. SUFFICES ASSUME NEW legs, NEW i, NEW x, NEW y, HasLeg(legs, i, x, y)
                 PROVE  HasLeg(Mirrored(1, legs), i, x, y) /\ HasLeg(Mirrored(-1, legs), i, -x, -y)
    OBVIOUS
  <1>2. legs \in Legs /\ i \in DOMAIN legs /\ i \in 1 .. Len(legs) /\ x \in Int /\ y \in Int /\ legs[i] = <<x, y>>
    BY <1>1 DEF HasLeg, Legs
  <1>3. \A s : Mirrored(s, legs)[i] = <<s * legs[i][1], s * legs[i][2]>>
    BY <1>2 DEF Mirrored
  <1>4. legs[i][1] = x /\ legs[i][2] = y
    BY <1>2
  <1>5. 1 * x = x /\ 1 * y = y /\ (-1) * x = -x /\ (-1) * y = -y /\ -x \in Int /\ -y \in Int
    BY <1>2
  <1>6. Mirrored(1, legs)[i] = <<x, y>> /\ Mirrored(-1, legs)[i] = <<-x, -y>>
    <2>1. Mirrored(1, legs)[i] = <<1 * x, 1 * y>> /\ Mirrored(-1, legs)[i] = <<(-1) * x, (-1) * y>>
      BY <1>3, <1>4, Zenon
    <2>2. QED
      BY <1>5, <2>1, Zenon
  <1>7. /\ Mirrored(1, legs) \in Legs /\ Len(Mirrored(1, legs)) = Len(legs)
        /\ Mirrored(-1, legs) \in Legs /\ Len(Mirrored(-1, legs)) = Len(legs)
    BY <1>2, MirroredType
  <1>8. QED
    BY <1>2, <1>5, <1>6, <1>7 DEF HasLeg

\* Legs that are the same are so mirrored.
LEMMA MirroredSame ==
  \A A, B, i, j, x, y : HasLeg(A, i, x, y) /\ HasLeg(B, j, x, y) =>
    Mirrored(1, A)[i] = Mirrored(1, B)[j] /\ Mirrored(-1, A)[i] = Mirrored(-1, B)[j]
  <1>1. SUFFICES ASSUME NEW A, NEW B, NEW i, NEW j, NEW x, NEW y, HasLeg(A, i, x, y), HasLeg(B, j, x, y)
                 PROVE  /\ Mirrored(1, A)[i] = Mirrored(1, B)[j]
                        /\ Mirrored(-1, A)[i] = Mirrored(-1, B)[j]
    OBVIOUS
  <1>2. /\ HasLeg(Mirrored(1, A), i, x, y) /\ HasLeg(Mirrored(-1, A), i, -x, -y)
        /\ HasLeg(Mirrored(1, B), j, x, y) /\ HasLeg(Mirrored(-1, B), j, -x, -y)
    BY <1>1, MirroredLeg, Zenon
  <1>3. QED
    BY <1>2, Zenon DEF HasLeg

\* Every leg is one.
LEMMA AnyLeg ==
  \A legs, i : legs \in Legs /\ i \in 1 .. Len(legs) => \E x, y : HasLeg(legs, i, x, y)
  <1>1. SUFFICES ASSUME NEW legs, NEW i, legs \in Legs, i \in 1 .. Len(legs)
                 PROVE  \E x, y : HasLeg(legs, i, x, y)
    OBVIOUS
  <1>2. legs[i] \in Int \X Int
    BY <1>1, ElementOfSeq DEF Legs
  <1>3. PICK x \in Int, y \in Int : legs[i] = <<x, y>>
    BY <1>2
  <1>4. QED
    BY <1>1, <1>3 DEF HasLeg

\* Paths that compose do so mirrored.
LEMMA MirrorComposes ==
  ASSUME NEW s \in {1, -1}, NEW F \in Legs, NEW S \in Legs, NEW W \in Legs, Composes(F, S, W)
  PROVE  Composes(Mirrored(s, F), Mirrored(s, S), Mirrored(s, W))
  <1>1. PICK A \in Legs, B \in Legs, D \in Legs :
          /\ A = Mirrored(s, F) /\ Len(A) = Len(F) /\ B = Mirrored(s, S) /\ Len(B) = Len(S)
          /\ D = Mirrored(s, W) /\ Len(D) = Len(W)
    BY MirroredType
  <1>2. PICK j \in Nat, n \in Nat : /\ j = Len(F) /\ n = Len(S) /\ j >= 1 /\ n >= 1 /\ Len(W) = j + n - 1
    BY DEF Legs, Composes
  <1>3. \A i \in 1 .. j - 1 : D[i] = A[i]
    <2>1. TAKE i \in 1 .. j - 1
    <2>2. i \in 1 .. Len(W) /\ i \in 1 .. Len(F) /\ W[i] = F[i]
      BY <1>2 DEF Composes
    <2>3. PICK x, y : HasLeg(F, i, x, y)
      BY <2>2, AnyLeg, Zenon
    <2>4. HasLeg(W, i, x, y)
      BY <2>2, <2>3 DEF HasLeg
    <2>5. /\ Mirrored(1, W)[i] = Mirrored(1, F)[i]
          /\ Mirrored(-1, W)[i] = Mirrored(-1, F)[i]
      BY <2>3, <2>4, MirroredSame
    <2>6. s = 1 \/ s = -1
      OBVIOUS
    <2>7. QED
      BY <1>1, <2>5, <2>6
  <1>4. \A i \in 2 .. n : D[j + i - 1] = B[i]
    <2>1. TAKE i \in 2 .. n
    <2>2. PICK k : k = j + i - 1 /\ k \in 1 .. Len(W) /\ i \in 1 .. Len(S) /\ W[k] = S[i]
      BY <1>2 DEF Composes
    <2>3. PICK x, y : HasLeg(S, i, x, y)
      BY <2>2, AnyLeg, Zenon
    <2>4. HasLeg(W, k, x, y)
      BY <2>2, <2>3 DEF HasLeg
    <2>5. /\ Mirrored(1, W)[k] = Mirrored(1, S)[i]
          /\ Mirrored(-1, W)[k] = Mirrored(-1, S)[i]
      BY <2>3, <2>4, MirroredSame
    <2>6. s = 1 \/ s = -1
      OBVIOUS
    <2>7. QED
      BY <1>1, <2>5, <2>2, <2>6
  <1>5. PICK x \in Int, m \in Int, y \in Int :
          F[j] = <<x, m>> /\ S[1] = <<m, y>> /\ W[j] = <<x, y>> /\ MeetsAt(F, S, x, m, y)
    BY <1>2 DEF Composes
  <1>6. j \in 1 .. Len(F) /\ 1 \in 1 .. Len(S) /\ j \in 1 .. Len(W)
    BY <1>2
  <1>10. HasLeg(F, j, x, m) /\ HasLeg(S, 1, m, y) /\ HasLeg(W, j, x, y)
    BY <1>5, <1>6 DEF HasLeg
  <1>7. \E xx \in Int, mm \in Int, yy \in Int :
          A[j] = <<xx, mm>> /\ B[1] = <<mm, yy>> /\ D[j] = <<xx, yy>> /\ MeetsAt(A, B, xx, mm, yy)
    <2>1. CASE s = 1
      <3>1. A[j] = <<x, m>> /\ B[1] = <<m, y>> /\ D[j] = <<x, y>>
        <4>1. /\ HasLeg(Mirrored(1, F), j, x, m) /\ HasLeg(Mirrored(1, S), 1, m, y)
              /\ HasLeg(Mirrored(1, W), j, x, y)
          BY <1>10, MirroredLeg, Zenon
        <4>2. QED
          BY <1>1, <2>1, <4>1 DEF HasLeg
      <3>2. MeetsAt(A, B, x, m, y)
        <4>1. CASE (x < m /\ m < y) \/ (m < x /\ y < m) \/ (m = y /\ Len(S) = 1)
          BY <1>1, <4>1 DEF MeetsAt
        <4>2. ASSUME x = m, j >= 2, NEW u \in Int, NEW v \in Int, F[j - 1] = <<u, v>>, u # v,
                     v # m \/ (u < m /\ y < m) \/ (m < u /\ m < y)
              PROVE  MeetsAt(A, B, x, m, y)
          <5>1. j - 1 \in 1 .. Len(F)
            BY <1>2, <4>2
          <5>2. A[j - 1] = <<u, v>>
            <6>1. HasLeg(F, j - 1, u, v)
              BY <4>2, <5>1 DEF HasLeg
            <6>2. HasLeg(Mirrored(1, F), j - 1, u, v)
              BY <6>1, MirroredLeg, Zenon
            <6>3. QED
              BY <1>1, <2>1, <6>2 DEF HasLeg
          <5>3. QED
            BY <1>1, <1>2, <4>2, <5>2 DEF MeetsAt
        <4>3. QED
          BY <1>2, <1>5, <4>1, <4>2 DEF MeetsAt
      <3>3. QED
        BY <3>1, <3>2
    <2>2. CASE s = -1
      <3>1. A[j] = <<-x, -m>> /\ B[1] = <<-m, -y>> /\ D[j] = <<-x, -y>>
        <4>1. /\ HasLeg(Mirrored(-1, F), j, -x, -m) /\ HasLeg(Mirrored(-1, S), 1, -m, -y)
              /\ HasLeg(Mirrored(-1, W), j, -x, -y)
          BY <1>10, MirroredLeg, Zenon
        <4>2. QED
          BY <1>1, <2>2, <4>1 DEF HasLeg
      <3>2. MeetsAt(A, B, -x, -m, -y)
        <4>1. CASE (x < m /\ m < y) \/ (m < x /\ y < m) \/ (m = y /\ Len(S) = 1)
          BY <1>1, <4>1 DEF MeetsAt
        <4>2. ASSUME x = m, j >= 2, NEW u \in Int, NEW v \in Int, F[j - 1] = <<u, v>>, u # v,
                     v # m \/ (u < m /\ y < m) \/ (m < u /\ m < y)
              PROVE  MeetsAt(A, B, -x, -m, -y)
          <5>1. j - 1 \in 1 .. Len(F)
            BY <1>2, <4>2
          <5>2. A[j - 1] = <<-u, -v>>
            <6>1. HasLeg(F, j - 1, u, v)
              BY <4>2, <5>1 DEF HasLeg
            <6>2. HasLeg(Mirrored(-1, F), j - 1, -u, -v)
              BY <6>1, MirroredLeg, Zenon
            <6>3. QED
              BY <1>1, <2>2, <6>2 DEF HasLeg
          <5>3. -u \in Int /\ -v \in Int /\ -u # -v /\ -x = -m
                /\ (-v # -m \/ (-u < -m /\ -y < -m) \/ (-m < -u /\ -m < -y))
            BY <4>2
          <5>4. QED
            BY <1>1, <1>2, <4>2, <5>2, <5>3 DEF MeetsAt
        <4>3. QED
          BY <1>2, <1>5, <4>1, <4>2 DEF MeetsAt
      <3>3. -x \in Int /\ -m \in Int /\ -y \in Int
        OBVIOUS
      <3>4. QED
        BY <3>1, <3>2, <3>3
    <2>3. QED
      BY <2>1, <2>2
  <1>8. Composes(A, B, D)
    BY <1>1, <1>2, <1>3, <1>4, <1>7 DEF Composes
  <1>9. QED
    BY <1>1, <1>8

\* A number that is q times r, and l less than r.
MadeUp(n, r, q, l) ==
  n \in Int /\ r \in Nat \ {0} /\ q \in Int /\ l \in 0 .. r - 1 /\ n = (r * q) + l

\* The quotient and the remainder are determined by what they make up.
LEMMA QuotientIs ==
  \A n, r, q, l : MadeUp(n, r, q, l) => n \div r = q /\ n % r = l
  <1>0. SUFFICES ASSUME NEW n \in Int, NEW r \in Nat \ {0}, NEW q \in Int, NEW l \in 0 .. r - 1,
                        n = (r * q) + l
                 PROVE  n \div r = q /\ n % r = l
    BY DEF MadeUp
  <1>1. PICK p \in Int, k \in 0 .. r - 1 : p = n \div r /\ k = n % r /\ n = (r * p) + k
    BY Quotient
  <1>2. \A i, j \in Int : i < j => r * i + r =< r * j
    <2>1. TAKE i, j \in Int
    <2>2. SUFFICES ASSUME i < j PROVE r * i + r =< r * j
      OBVIOUS
    <2>3. PICK h \in Nat : j = i + 1 + h
      <3>1. j - i - 1 \in Nat
        BY <2>2
      <3>2. QED
        BY <3>1
    <2>4. r * j = r * i + r + r * h /\ r * h >= 0
      BY <2>3
    <2>5. QED
      BY <2>4
  <1>3. PICK a \in Int, b \in Int : a = r * p /\ b = r * q
    OBVIOUS
  <1>4. n = a + k /\ n = b + l /\ (p < q => a + r =< b) /\ (q < p => b + r =< a)
    <2>1. n = (r * q) + l /\ n = (r * p) + k
      BY <1>0, <1>1
    <2>2. (p < q => r * p + r =< r * q) /\ (q < p => r * q + r =< r * p)
      BY <1>2
    <2>3. QED
      BY <1>3, <2>1, <2>2
  <1>5. ~(p < q) /\ ~(q < p)
    BY <1>1, <1>4
  <1>6. p = q
    BY <1>5
  <1>7. QED
    BY <1>1, <1>3, <1>4, <1>6

\* Odd and even.
LEMMA Parity ==
  ASSUME NEW i \in Nat
  PROVE  /\ i % 2 \in {0, 1} /\ (i + 1) % 2 = 1 - (i % 2)
         /\ \A j \in Nat : (i + j) % 2 = IF j % 2 = 0 THEN i % 2 ELSE 1 - (i % 2)
  OBVIOUS

-----------------------------------------------------------------------------
(* Paths that go on where others end                                        *)

\* A path that is one leg.
IsLeg(P, x, y) == P = <<<<x, y>>>> /\ x \in Int /\ y \in Int

\* The fields of such a path.
LEMMA LegIs == \A P, x, y : IsLeg(P, x, y) => P \in Legs /\ Len(P) = 1 /\ P[1] = <<x, y>>
  BY OneLeg DEF IsLeg

\* Nothing more is gone.
LEMMA NothingComposes ==
  ASSUME NEW F \in Legs, Len(F) >= 1, NEW x \in Int, NEW m \in Int, F[Len(F)] = <<x, m>>,
         NEW S \in Legs, Len(S) = 1, S[1] = <<m, m>>
  PROVE  Composes(F, S, F)
  <1>1. S \in Legs /\ Len(S) = 1 /\ S[1] = <<m, m>>
    OBVIOUS
  <1>2. Len(F) \in Nat
    BY DEF Legs
  <1>3. MeetsAt(F, S, x, m, m)
    BY <1>1 DEF MeetsAt
  <1>4. QED
    BY <1>1, <1>2, <1>3 DEF Composes

\* An advance ends in the middle of a leg, and the next goes on there.
Through(F, S, W, x, m, y, n) ==
  /\ x \in Int /\ m \in Int /\ y \in Int /\ x < m /\ m < y
  /\ IsLeg(F, x, m) /\ S \in Legs /\ W \in Legs /\ n \in Nat \ {0}
  /\ Len(S) = n /\ Len(W) = n /\ S[1] = <<m, y>> /\ W[1] = <<x, y>>
  /\ \A i \in 2 .. n : W[i] = S[i]

\* Then the paths compose.
LEMMA ThroughComposes == \A F, S, W, x, m, y, n : Through(F, S, W, x, m, y, n) => Composes(F, S, W)
  <1>1. SUFFICES ASSUME NEW F, NEW S, NEW W, NEW x, NEW m, NEW y, NEW n, Through(F, S, W, x, m, y, n)
                 PROVE  Composes(F, S, W)
    OBVIOUS
  <1>2. /\ x \in Int /\ m \in Int /\ y \in Int /\ x < m /\ m < y
        /\ IsLeg(F, x, m) /\ n \in Nat \ {0}
        /\ Len(S) = n /\ Len(W) = n /\ S[1] = <<m, y>> /\ W[1] = <<x, y>>
        /\ \A i \in 2 .. n : W[i] = S[i]
    BY <1>1 DEF Through
  <1>3. Len(F) = 1 /\ F[1] = <<x, m>>
    BY <1>2, LegIs
  <1>4. MeetsAt(F, S, x, m, y)
    BY <1>2 DEF MeetsAt
  <1>5. \A i \in 2 .. n : 1 + i - 1 = i
    OBVIOUS
  <1>6. QED
    BY <1>2, <1>3, <1>4, <1>5 DEF Composes

-----------------------------------------------------------------------------
(* Cycles                                                                   *)

\* The path of a cycle that wraps k times and ends at m.
IsCycle(P, x, k, m, behind, ahead) ==
  /\ P \in Legs /\ Len(P) = k + 1
  /\ \A i \in 1 .. k + 1 : P[i] = <<IF i = 1 THEN x ELSE behind, IF i =< k THEN ahead ELSE m>>

\* A count beyond the range wraps k times and comes to m.
WrapsTo(to, behind, ahead, k, m) ==
  /\ k \in Nat /\ m \in Int /\ to = ((ahead - behind) * k) + m
  /\ m < ahead /\ (k = 0 \/ behind =< m)

\* Every count does.
LEMMA Wraps ==
  ASSUME NEW to \in Int, NEW behind \in Int, NEW ahead \in Int, behind < ahead
  PROVE  \E k, m : WrapsTo(to, behind, ahead, k, m)
  <1>1. CASE to < ahead
    <2>1. WrapsTo(to, behind, ahead, 0, to)
      BY <1>1 DEF WrapsTo
    <2>2. QED
      BY <2>1
  <1>2. CASE to >= ahead
    <2>1. PICK r \in Nat \ {0} : r = ahead - behind
      OBVIOUS
    <2>2. PICK n \in Nat : n = to - ahead
      BY <1>2
    <2>3. PICK q \in Nat, l \in 0 .. r - 1 : n = (r * q) + l
      <3>1. n \in Int /\ n >= 0
        BY <2>2
      <3>2. PICK q, l : q = n \div r /\ l = n % r
        OBVIOUS
      <3>3. q \in Int /\ q >= 0 /\ l \in 0 .. r - 1 /\ n = (r * q) + l
        BY <2>1, <3>1, <3>2, Quotient
      <3>4. QED
        BY <3>3
    <2>4. PICK k \in Nat, m \in Int : k = q + 1 /\ m = behind + l
      OBVIOUS
    <2>5. r * k = r * q + r
      BY <2>4
    <2>6. to = (r * k) + m
      BY <2>1, <2>2, <2>3, <2>4, <2>5
    <2>7. WrapsTo(to, behind, ahead, k, m)
      BY <2>1, <2>3, <2>4, <2>6 DEF WrapsTo
    <2>8. QED
      BY <2>7
  <1>3. QED
    BY <1>1, <1>2

\* The path follows them.
LEMMA CycleIs ==
  ASSUME NEW x \in Int, NEW to \in Int, NEW behind \in Int, NEW ahead \in Int, behind < ahead,
         NEW k, NEW m, WrapsTo(to, behind, ahead, k, m)
  PROVE  IsCycle(CyclePath(x, to, behind, ahead), x, k, m, behind, ahead)
  <1> DEFINE wraps == IF to < ahead THEN 0 ELSE ((to - ahead) \div (ahead - behind)) + 1
             p == [i \in 1 .. wraps + 1 |-> <<IF i = 1 THEN x ELSE behind,
                                              IF i =< wraps THEN ahead ELSE to - wraps * (ahead - behind)>>]
  <1>1. PICK r \in Nat \ {0} : r = ahead - behind
    OBVIOUS
  <1>2. /\ k \in Nat /\ m \in Int /\ to = (r * k) + m
        /\ m < ahead /\ (k = 0 \/ behind =< m)
    BY <1>1 DEF WrapsTo
  <1>3. wraps = k
    <2>1. CASE k = 0
      BY <1>2, <2>1
    <2>2. CASE k >= 1
      <3>1. PICK q \in Nat : q + 1 = k
        <4>1. k - 1 \in Nat /\ (k - 1) + 1 = k
          BY <1>2, <2>2
        <4>2. QED
          BY <4>1
      <3>2. r * k = r * q + r /\ r * q \in Nat
        BY <1>2, <3>1
      <3>3. m - behind \in 0 .. r - 1
        BY <1>1, <1>2, <2>2
      <3>4. to - ahead = (r * q) + (m - behind) /\ to - ahead \in Nat
        BY <1>1, <1>2, <3>2, <3>3
      <3>5. (to - ahead) \div r = q
        <4>1. PICK n \in Int, l \in 0 .. r - 1 : n = to - ahead /\ l = m - behind
          BY <3>3
        <4>2. MadeUp(n, r, q, l)
          BY <3>4, <4>1 DEF MadeUp
        <4>3. n \div r = q
          BY <4>2, QuotientIs, Zenon
        <4>4. QED
          BY <4>1, <4>3
      <3>6. ~(to < ahead)
        BY <3>4
      <3>7. QED
        BY <1>1, <3>1, <3>5, <3>6
    <2>3. QED
      BY <1>2, <2>1, <2>2
  <1>4. CyclePath(x, to, behind, ahead) = p
    <2>1. CyclePath(x, to, behind, ahead) =
            IF to >= ahead /\ ahead - behind = 0 THEN <<<<x, ahead>>, <<x, to>>>> ELSE p
      BY DEF CyclePath
    <2>2. ahead - behind # 0
      BY <1>1
    <2>3. QED
      BY <2>1, <2>2
  <1>5. to - wraps * (ahead - behind) = m
    <2>1. k * r = r * k
      BY <1>2
    <2>2. QED
      BY <1>1, <1>2, <1>3, <2>1
  <1> HIDE DEF wraps
  <1>6. CyclePath(x, to, behind, ahead) \in Legs
    BY CycleType
  <1>7. /\ \A i \in 1 .. k + 1 : p[i] = <<IF i = 1 THEN x ELSE behind, IF i =< k THEN ahead ELSE m>>
        /\ Len(p) = k + 1
    BY <1>2, <1>3, <1>5
  <1> HIDE DEF p
  <1>8. QED
    BY <1>4, <1>6, <1>7 DEF IsCycle

\* An advance after another wraps the rest of the times.
LEMMA WrapsOn ==
  ASSUME NEW to \in Int, NEW e \in Nat, NEW behind \in Int, NEW ahead \in Int, behind < ahead,
         NEW k, NEW m, WrapsTo(to, behind, ahead, k, m),
         NEW h, NEW y, WrapsTo(m + e, behind, ahead, h, y)
  PROVE  WrapsTo(to + e, behind, ahead, k + h, y)
  <1>1. PICK r \in Nat \ {0} : r = ahead - behind
    OBVIOUS
  <1>2. /\ k \in Nat /\ m \in Int /\ to = (r * k) + m /\ m < ahead /\ (k = 0 \/ behind =< m)
        /\ h \in Nat /\ y \in Int /\ m + e = (r * h) + y /\ y < ahead /\ (h = 0 \/ behind =< y)
    BY <1>1 DEF WrapsTo
  <1>3. r * (k + h) = (r * k) + (r * h) /\ r * k \in Int /\ r * h \in Int
    BY <1>2
  <1>4. to + e = (r * (k + h)) + y
    BY <1>2, <1>3
  <1>5. h = 0 => y = m + e
    BY <1>2
  <1>6. QED
    BY <1>1, <1>2, <1>4, <1>5 DEF WrapsTo

\* The paths of a cycle compose.
LEMMA CycleComposes ==
  ASSUME NEW x \in Int, NEW d \in Nat, d > 0, NEW e \in Nat, e > 0,
         NEW behind \in Int, NEW ahead \in Int, behind < ahead,
         NEW F, F = CyclePath(x, x + d, behind, ahead), NEW m, m = F[Len(F)][2],
         NEW S, S = CyclePath(m, m + e, behind, ahead),
         NEW W, W = CyclePath(x, (x + d) + e, behind, ahead)
  PROVE  Composes(F, S, W)
  <1>1. PICK k, t : WrapsTo(x + d, behind, ahead, k, t)
    BY Wraps
  <1>2. k \in Nat /\ t \in Int /\ t < ahead /\ (k = 0 \/ behind =< t)
    BY <1>1 DEF WrapsTo
  <1>3. IsCycle(F, x, k, t, behind, ahead)
    BY <1>1, CycleIs
  <1>4. m = t
    BY <1>2, <1>3 DEF IsCycle
  <1>5. PICK h, y : WrapsTo(m + e, behind, ahead, h, y)
    BY <1>2, <1>4, Wraps
  <1>6. h \in Nat /\ y \in Int /\ y < ahead
    BY <1>5 DEF WrapsTo
  <1>7. IsCycle(S, m, h, y, behind, ahead)
    BY <1>2, <1>4, <1>5, CycleIs
  <1>8. WrapsTo((x + d) + e, behind, ahead, k + h, y)
    BY <1>1, <1>4, <1>5, WrapsOn
  <1>9. IsCycle(W, x, k + h, y, behind, ahead)
    BY <1>8, CycleIs
  <1>10. /\ Len(F) = k + 1 /\ Len(S) = h + 1 /\ Len(W) = k + h + 1
         /\ \A i \in 1 .. k + 1 : F[i] = <<IF i = 1 THEN x ELSE behind, IF i =< k THEN ahead ELSE m>>
         /\ \A i \in 1 .. h + 1 : S[i] = <<IF i = 1 THEN m ELSE behind, IF i =< h THEN ahead ELSE y>>
         /\ \A i \in 1 .. k + h + 1 : W[i] = <<IF i = 1 THEN x ELSE behind, IF i =< k + h THEN ahead ELSE y>>
    BY <1>2, <1>3, <1>4, <1>6, <1>7, <1>9 DEF IsCycle
  <1>11. \A i \in 1 .. Len(F) - 1 : W[i] = F[i]
    <2>1. TAKE i \in 1 .. Len(F) - 1
    <2>2. i \in 1 .. k + 1 /\ i \in 1 .. k + h + 1 /\ i =< k /\ i =< k + h
      BY <1>2, <1>6, <1>10
    <2>3. QED
      BY <1>10, <2>2
  <1>12. \A i \in 2 .. Len(S) : W[Len(F) + i - 1] = S[i]
    <2>1. TAKE i \in 2 .. Len(S)
    <2>2. PICK j : j = Len(F) + i - 1
      OBVIOUS
    <2>3. /\ i \in 1 .. h + 1 /\ j \in 1 .. k + h + 1 /\ i # 1 /\ j # 1
          /\ (j =< k + h) = (i =< h)
      BY <1>2, <1>6, <1>10, <2>2
    <2>4. W[j] = <<behind, IF i =< h THEN ahead ELSE y>> /\ S[i] = <<behind, IF i =< h THEN ahead ELSE y>>
      BY <1>10, <2>3
    <2>5. QED
      BY <2>2, <2>4
  <1>13. PICK u \in Int, v \in Int : u = (IF k = 0 THEN x ELSE behind) /\ v = (IF h = 0 THEN y ELSE ahead)
    BY <1>6
  <1>14. F[Len(F)] = <<u, m>> /\ S[1] = <<m, v>> /\ W[Len(F)] = <<u, v>>
    <2>1. k + 1 \in 1 .. k + 1 /\ 1 \in 1 .. h + 1 /\ k + 1 \in 1 .. k + h + 1
          /\ (k + 1 = 1) = (k = 0) /\ (1 =< h) = (h # 0) /\ (k + 1 =< k + h) = (h # 0) /\ ~(k + 1 =< k)
      BY <1>2, <1>6
    <2>2. F[k + 1] = <<u, m>> /\ S[1] = <<m, v>> /\ W[k + 1] = <<u, v>>
      BY <1>10, <1>13, <2>1
    <2>3. QED
      BY <1>10, <2>2
  <1>15. m < v
    <2>1. h = 0 => y = m + e
      BY <1>2, <1>4, <1>5 DEF WrapsTo
    <2>2. QED
      BY <1>2, <1>4, <1>13, <2>1
  <1>16. MeetsAt(F, S, u, m, v)
    <2>1. CASE k = 0
      <3>1. x + d = m
        BY <1>1, <1>4, <2>1 DEF WrapsTo
      <3>2. u < m
        BY <1>13, <2>1, <3>1
      <3>3. QED
        BY <1>15, <3>2 DEF MeetsAt
    <2>2. CASE k # 0 /\ behind < m
      BY <1>13, <1>15, <2>2 DEF MeetsAt
    <2>3. CASE k # 0 /\ behind = m
      <3>1. PICK w \in Int : w = IF k = 1 THEN x ELSE behind
        OBVIOUS
      <3>2. F[k] = <<w, ahead>>
        <4>1. k \in 1 .. k + 1 /\ k =< k
          BY <1>2, <2>3
        <4>2. QED
          BY <1>10, <3>1, <4>1
      <3>3. w # ahead
        <4>1. CASE k = 1
          <5>1. x + d = (ahead - behind) + m
            BY <1>1, <1>4, <4>1 DEF WrapsTo
          <5>2. QED
            BY <2>3, <3>1, <4>1, <5>1
        <4>2. QED
          BY <3>1, <4>1
      <3>4. u = m /\ Len(F) >= 2 /\ Len(F) - 1 = k
        <4>1. Len(F) = k + 1
          BY <1>10
        <4>2. QED
          BY <1>2, <1>13, <2>3, <4>1
      <3>5. F[Len(F) - 1] = <<w, ahead>> /\ ahead # m
        BY <1>2, <1>4, <3>2, <3>4
      <3>6. QED
        BY <3>3, <3>4, <3>5 DEF MeetsAt
    <2>4. QED
      BY <1>2, <1>4, <2>1, <2>2, <2>3
  <1>17. Len(F) >= 1 /\ Len(S) >= 1 /\ Len(W) = Len(F) + Len(S) - 1
    BY <1>2, <1>6, <1>10
  <1>18. QED
    BY <1>2, <1>4, <1>11, <1>12, <1>14, <1>16, <1>17 DEF Composes

-----------------------------------------------------------------------------
(* Turning back                                                             *)

\* Where a counter is that has gone l since its last turn, the t-th turn being
\* at the end of leg t.
EndAt(t, l, behind, ahead) == IF t % 2 = 0 THEN ahead - l ELSE behind + l

\* n legs from x between the ends of the range, beginning after h of them.
IsZigzag(P, x, n, h, l, behind, ahead) ==
  /\ P \in Legs /\ Len(P) = n
  /\ \A i \in 1 .. n : P[i] = <<IF i = 1 THEN x ELSE Turning(h + i - 1, behind, ahead),
                                IF i < n THEN Turning(h + i, behind, ahead)
                                ELSE EndAt(h + n, l, behind, ahead)>>

\* An oscillating counter that reaches the bound ahead.
LEMMA BounceIs ==
  ASSUME NEW x \in Int, NEW d \in Nat, d > 0, NEW behind \in Int, NEW ahead \in Int, behind < ahead,
         NEW q \in Nat, NEW l, MadeUp(d - (ahead - x), ahead - behind, q, l)
  PROVE  IsZigzag(BouncePath(x, d, behind, ahead), x, q + 2, 0, l, behind, ahead)
  <1> DEFINE rest == d - (ahead - x)
             p == [i \in 1 .. q + 2 |->
                     <<IF i = 1 THEN x ELSE Turning(i - 1, behind, ahead),
                       IF i < q + 2 THEN Turning(i, behind, ahead)
                       ELSE IF (q + 2) % 2 = 0 THEN ahead - l ELSE behind + l>>]
  <1>1. rest \div (ahead - behind) = q /\ rest % (ahead - behind) = l
    BY QuotientIs, Zenon
  <1>2. rest >= 0 /\ ahead - behind # 0 /\ d # 0
    <2>1. PICK r \in Nat : r = ahead - behind
      OBVIOUS
    <2>2. PICK a \in Nat : a = r * q
      BY <2>1
    <2>3. l \in Nat /\ rest = a + l
      BY <2>1, <2>2 DEF MadeUp
    <2>4. QED
      BY <2>3
  <1>3. BouncePath(x, d, behind, ahead) = p
    <2>1. BouncePath(x, d, behind, ahead) =
            IF d = 0 \/ rest < 0 THEN <<<<x, x + d>>>>
            ELSE IF ahead - behind = 0 THEN <<<<x, ahead>>, <<ahead, ahead>>>>
            ELSE [i \in 1 .. (rest \div (ahead - behind)) + 2 |->
                     <<IF i = 1 THEN x ELSE Turning(i - 1, behind, ahead),
                       IF i < (rest \div (ahead - behind)) + 2 THEN Turning(i, behind, ahead)
                       ELSE IF ((rest \div (ahead - behind)) + 2) % 2 = 0
                              THEN ahead - (rest % (ahead - behind)) ELSE behind + (rest % (ahead - behind))>>]
      BY DEF BouncePath
    <2> HIDE DEF rest
    <2>2. rest \in Int /\ ~(d = 0 \/ rest < 0) /\ ~(ahead - behind = 0)
      BY <1>2 DEF rest
    <2>3. QED
      BY <1>1, <2>1, <2>2, Zenon
  <1>4. BouncePath(x, d, behind, ahead) \in Legs
    <2>1. behind =< ahead
      OBVIOUS
    <2>2. QED
      BY <2>1, BounceType
  <1>5. Len(p) = q + 2
    OBVIOUS
  <1>6. \A i \in 1 .. q + 2 : p[i] = <<IF i = 1 THEN x ELSE Turning(0 + i - 1, behind, ahead),
                                       IF i < q + 2 THEN Turning(0 + i, behind, ahead)
                                       ELSE EndAt(0 + (q + 2), l, behind, ahead)>>
    <2>1. 0 + (q + 2) = q + 2 /\ \A i \in 1 .. q + 2 : 0 + i = i /\ 0 + i - 1 = i - 1
      OBVIOUS
    <2>2. QED
      BY <2>1 DEF EndAt
  <1> HIDE DEF p
  <1>7. QED
    BY <1>3, <1>4, <1>5, <1>6 DEF IsZigzag

\* The same in the mirrored frame: the counter comes down and turns at the
\* bound behind first.
LEMMA MirroredZigzag ==
  ASSUME NEW x \in Int, NEW n \in Nat \ {0}, NEW l \in Int, NEW behind \in Int, NEW ahead \in Int,
         NEW P, IsZigzag(P, -x, n, 0, l, -ahead, -behind)
  PROVE  IsZigzag(Mirrored(-1, P), x, n, 1, l, behind, ahead)
  <1>1. /\ P \in Legs /\ Len(P) = n
        /\ \A i \in 1 .. n : P[i] = <<IF i = 1 THEN -x ELSE Turning(0 + i - 1, -ahead, -behind),
                                      IF i < n THEN Turning(0 + i, -ahead, -behind)
                                      ELSE EndAt(0 + n, l, -ahead, -behind)>>
    BY DEF IsZigzag
  <1>2. Mirrored(-1, P) \in Legs /\ Len(Mirrored(-1, P)) = n
    <2>1. -1 \in Int
      OBVIOUS
    <2>2. QED
      BY <1>1, <2>1, MirroredType
  <1>3. \A t \in Nat : /\ Turning(1 + t, behind, ahead) = -Turning(0 + t, -ahead, -behind)
                       /\ Turning(0 + t, -ahead, -behind) \in Int
                       /\ EndAt(1 + t, l, behind, ahead) = -EndAt(0 + t, l, -ahead, -behind)
                       /\ EndAt(0 + t, l, -ahead, -behind) \in Int
    <2>1. TAKE t \in Nat
    <2>2. 1 + t = t + 1 /\ 0 + t = t /\ (t + 1) % 2 = 1 - (t % 2) /\ t % 2 \in {0, 1}
      BY Parity
    <2>3. CASE t % 2 = 0
      BY <2>2, <2>3 DEF Turning, EndAt
    <2>4. CASE t % 2 = 1
      BY <2>2, <2>4 DEF Turning, EndAt
    <2>5. QED
      BY <2>2, <2>3, <2>4
  <1>4. \A i \in 1 .. n : Mirrored(-1, P)[i] = <<IF i = 1 THEN x ELSE Turning(1 + i - 1, behind, ahead),
                                                 IF i < n THEN Turning(1 + i, behind, ahead)
                                                 ELSE EndAt(1 + n, l, behind, ahead)>>
    <2>1. TAKE i \in 1 .. n
    <2>2. PICK u \in Int : u = IF i = 1 THEN -x ELSE Turning(0 + i - 1, -ahead, -behind)
      <3>1. i - 1 \in Nat /\ 0 + i - 1 = 0 + (i - 1)
        OBVIOUS
      <3>2. QED
        BY <1>3, <3>1
    <2>3. PICK v \in Int : v = IF i < n THEN Turning(0 + i, -ahead, -behind)
                                        ELSE EndAt(0 + n, l, -ahead, -behind)
      <3>1. i \in Nat /\ n \in Nat
        OBVIOUS
      <3>2. QED
        BY <1>3, <3>1
    <2>4. HasLeg(P, i, u, v)
      <3>1. P[i] = <<u, v>>
        BY <1>1, <2>2, <2>3
      <3>2. QED
        BY <1>1, <3>1 DEF HasLeg
    <2>5. HasLeg(Mirrored(-1, P), i, -u, -v)
      BY <2>4, MirroredLeg, Zenon
    <2>6. -u = IF i = 1 THEN x ELSE Turning(1 + i - 1, behind, ahead)
      <3>1. i - 1 \in Nat /\ 0 + i - 1 = 0 + (i - 1) /\ 1 + i - 1 = 1 + (i - 1)
        OBVIOUS
      <3>2. QED
        BY <1>3, <2>2, <3>1
    <2>7. -v = IF i < n THEN Turning(1 + i, behind, ahead) ELSE EndAt(1 + n, l, behind, ahead)
      <3>1. i \in Nat /\ n \in Nat
        OBVIOUS
      <3>2. QED
        BY <1>3, <2>3, <3>1
    <2>8. QED
      BY <2>5, <2>6, <2>7 DEF HasLeg
  <1>5. QED
    BY <1>2, <1>4 DEF IsZigzag

\* Only whether the legs before are odd or even matters.
LEMMA ZigzagShift ==
  ASSUME NEW behind, NEW ahead, NEW l, NEW x, NEW n \in Nat \ {0}, NEW h \in Nat, NEW j \in Nat,
         h % 2 = j % 2, NEW P, IsZigzag(P, x, n, h, l, behind, ahead)
  PROVE  IsZigzag(P, x, n, j, l, behind, ahead)
  <1>1. \A t \in Nat : (h + t) % 2 = (j + t) % 2
    BY Parity
  <1>2. \A t \in Nat : Turning(h + t, behind, ahead) = Turning(j + t, behind, ahead)
    BY <1>1 DEF Turning
  <1>3. EndAt(h + n, l, behind, ahead) = EndAt(j + n, l, behind, ahead)
    BY <1>1 DEF EndAt
  <1>4. \A i \in 1 .. n : h + i - 1 = h + (i - 1) /\ j + i - 1 = j + (i - 1) /\ i - 1 \in Nat /\ i \in Nat
    OBVIOUS
  <1>5. QED
    BY <1>2, <1>3, <1>4 DEF IsZigzag

\* A counter that turned goes on from where it is, for n legs more.
LEMMA ZigzagComposes ==
  ASSUME NEW x \in Int, NEW behind \in Int, NEW ahead \in Int, behind < ahead,
         NEW J \in Nat, J >= 2, NEW l \in 0 .. (ahead - behind) - 1, J = 2 /\ l = 0 => x < ahead,
         NEW F, IsZigzag(F, x, J, 0, l, behind, ahead),
         NEW m, m = EndAt(J, l, behind, ahead),
         NEW n \in Nat \ {0}, NEW k \in 0 .. (ahead - behind) - 1, n = 1 => l < k,
         NEW S, IsZigzag(S, m, n, J - 1, k, behind, ahead),
         NEW W, IsZigzag(W, x, J + n - 1, 0, k, behind, ahead)
  PROVE  Composes(F, S, W)
  <1> DEFINE T(t) == Turning(t, behind, ahead)
             E(t, z) == EndAt(t, z, behind, ahead)
  <1>1. /\ F \in Legs /\ Len(F) = J /\ S \in Legs /\ Len(S) = n /\ W \in Legs /\ Len(W) = J + n - 1
        /\ \A i \in 1 .. J : F[i] = <<IF i = 1 THEN x ELSE T(0 + i - 1), IF i < J THEN T(0 + i) ELSE E(0 + J, l)>>
        /\ \A i \in 1 .. n : S[i] = <<IF i = 1 THEN m ELSE T((J - 1) + i - 1),
                                      IF i < n THEN T((J - 1) + i) ELSE E((J - 1) + n, k)>>
        /\ \A i \in 1 .. J + n - 1 : W[i] = <<IF i = 1 THEN x ELSE T(0 + i - 1),
                                              IF i < J + n - 1 THEN T(0 + i) ELSE E(0 + (J + n - 1), k)>>
    BY DEF IsZigzag
  <1>2. /\ \A t \in Nat : T(t) \in Int
        /\ E(J, l) \in Int /\ m = E(J, l) /\ E(J, k) \in Int /\ m \in Int
    BY DEF Turning, EndAt
  <1>3. \A t \in Nat : /\ t % 2 = 0 => T(t) = behind /\ T(t + 1) = ahead
                       /\ t % 2 # 0 => T(t) = ahead /\ T(t + 1) = behind
    <2>1. TAKE t \in Nat
    <2>2. (t + 1) % 2 = 1 - (t % 2) /\ t % 2 \in {0, 1}
      BY Parity
    <2>3. QED
      BY <2>2 DEF Turning
  <1>4. /\ J % 2 = 0 => m = ahead - l /\ E(J, k) = ahead - k
        /\ J % 2 # 0 => m = behind + l /\ E(J, k) = behind + k
    BY DEF EndAt
  <1> HIDE DEF T, E
  <1>5. \A i \in 1 .. J - 1 : W[i] = F[i]
    <2>1. TAKE i \in 1 .. J - 1
    <2>2. i \in 1 .. J /\ i \in 1 .. J + n - 1 /\ i < J /\ i < J + n - 1
      OBVIOUS
    <2>3. F[i] = <<IF i = 1 THEN x ELSE T(0 + i - 1), T(0 + i)>>
      BY <1>1, <2>2
    <2>4. W[i] = <<IF i = 1 THEN x ELSE T(0 + i - 1), T(0 + i)>>
      BY <1>1, <2>2
    <2>5. QED
      BY <2>3, <2>4
  <1>6. \A i \in 2 .. n : W[J + i - 1] = S[i]
    <2>1. TAKE i \in 2 .. n
    <2>2. PICK j : j = J + i - 1
      OBVIOUS
    <2>3. /\ i \in 1 .. n /\ j \in 1 .. J + n - 1 /\ i # 1 /\ j # 1 /\ (i < n) = (j < J + n - 1)
          /\ (J - 1) + i - 1 = 0 + j - 1 /\ (J - 1) + i = 0 + j /\ (J - 1) + n = 0 + (J + n - 1)
      BY <2>2
    <2>4. W[j] = <<T(0 + j - 1), IF j < J + n - 1 THEN T(0 + j) ELSE E(0 + (J + n - 1), k)>>
      BY <1>1, <2>3
    <2>5. S[i] = <<T((J - 1) + i - 1), IF i < n THEN T((J - 1) + i) ELSE E((J - 1) + n, k)>>
      BY <1>1, <2>3
    <2>6. QED
      BY <2>2, <2>3, <2>4, <2>5
  <1>7. PICK u \in Int, y \in Int : u = T(J - 1) /\ y = IF 1 < n THEN T(J) ELSE E(J, k)
    <2>1. J - 1 \in Nat /\ J \in Nat
      OBVIOUS
    <2>2. QED
      BY <1>2, <2>1
  <1>8. F[J] = <<u, m>>
    <2>1. J \in 1 .. J /\ J # 1 /\ ~(J < J) /\ 0 + J - 1 = J - 1 /\ 0 + J = J
      OBVIOUS
    <2>2. F[J] = <<T(0 + J - 1), E(0 + J, l)>>
      BY <1>1, <2>1
    <2>3. QED
      BY <1>2, <1>7, <2>1, <2>2
  <1>9. S[1] = <<m, y>>
    <2>1. 1 \in 1 .. n /\ (J - 1) + 1 = J /\ (n = 1 => (J - 1) + n = J) /\ (~(1 < n) => n = 1)
      OBVIOUS
    <2>2. S[1] = <<m, IF 1 < n THEN T((J - 1) + 1) ELSE E((J - 1) + n, k)>>
      BY <1>1, <2>1
    <2>3. QED
      BY <1>7, <2>1, <2>2
  <1>10. W[J] = <<u, y>>
    <2>1. /\ J \in 1 .. J + n - 1 /\ J # 1 /\ (J < J + n - 1) = (1 < n) /\ 0 + J - 1 = J - 1 /\ 0 + J = J
          /\ (~(1 < n) => 0 + (J + n - 1) = J)
      OBVIOUS
    <2>2. W[J] = <<T(0 + J - 1), IF J < J + n - 1 THEN T(0 + J) ELSE E(0 + (J + n - 1), k)>>
      BY <1>1, <2>1
    <2>3. QED
      BY <1>7, <2>1, <2>2
  <1>11. MeetsAt(F, S, u, m, y)
    <2>1. PICK v \in Int, z \in Int : /\ F[J - 1] = <<z, v>> /\ v = T(J - 1)
                                      /\ z = IF J = 2 THEN x ELSE T(J - 2)
      <3>1. J - 1 \in 1 .. J /\ J - 1 < J /\ 0 + (J - 1) = J - 1 /\ 0 + (J - 1) - 1 = J - 2
            /\ (J - 1 = 1) = (J = 2) /\ J - 1 \in Nat /\ J - 2 \in Nat
        OBVIOUS
      <3>2. F[J - 1] = <<IF J - 1 = 1 THEN x ELSE T(0 + (J - 1) - 1), T(0 + (J - 1))>>
        BY <1>1, <3>1
      <3>3. QED
        BY <1>2, <3>1, <3>2
    <2>2. /\ J - 2 \in Nat /\ J - 1 \in Nat /\ (J - 2) + 1 = J - 1 /\ (J - 1) + 1 = J
          /\ (J - 2) % 2 = J % 2 /\ (J - 1) % 2 = 1 - (J % 2) /\ J % 2 \in {0, 1}
      <3>1. J - 2 \in Nat /\ J - 1 \in Nat /\ (J - 2) + 1 = J - 1 /\ (J - 1) + 1 = J
        OBVIOUS
      <3>2. ((J - 2) + 1) % 2 = 1 - ((J - 2) % 2) /\ ((J - 1) + 1) % 2 = 1 - ((J - 1) % 2)
            /\ J % 2 \in {0, 1} /\ (J - 2) % 2 \in {0, 1} /\ (J - 1) % 2 \in {0, 1}
        BY <3>1, Parity
      <3>3. QED
        BY <3>1, <3>2
    <2>3. CASE J % 2 = 0
      <3>1. T(J - 2) = behind /\ T(J - 1) = ahead /\ T(J) = behind
        BY <1>3, <2>2, <2>3
      <3>2. u = ahead /\ m = ahead - l /\ y < m
        BY <1>4, <1>7, <2>3, <3>1
      <3>3. CASE l # 0
        BY <3>2, <3>3 DEF MeetsAt
      <3>4. CASE l = 0
        <4>1. z < ahead /\ v = ahead /\ u = m
          BY <2>1, <3>1, <3>2, <3>4
        <4>2. F[Len(F) - 1] = <<z, v>> /\ Len(F) >= 2
          BY <1>1, <2>1
        <4>3. z # v /\ z < m /\ y < m
          BY <3>2, <4>1
        <4>4. QED
          BY <4>1, <4>2, <4>3 DEF MeetsAt
      <3>5. QED
        BY <3>3, <3>4
    <2>4. CASE J % 2 # 0
      <3>1. T(J - 2) = ahead /\ T(J - 1) = behind /\ T(J) = ahead
        BY <1>3, <2>2, <2>4
      <3>2. u = behind /\ m = behind + l /\ m < y
        BY <1>4, <1>7, <2>4, <3>1
      <3>3. CASE l # 0
        BY <3>2, <3>3 DEF MeetsAt
      <3>4. CASE l = 0
        <4>1. J # 2
          BY <2>4
        <4>2. z = ahead /\ v = behind /\ u = m
          BY <2>1, <3>1, <3>2, <3>4, <4>1
        <4>3. QED
          BY <1>1, <2>1, <3>2, <4>2 DEF MeetsAt
      <3>5. QED
        BY <3>3, <3>4
    <2>5. QED
      BY <2>3, <2>4
  <1>12. QED
    BY <1>1, <1>2, <1>5, <1>6, <1>8, <1>9, <1>10, <1>11 DEF Composes

\* A path of one leg is a zigzag of one.
LEMMA OneZigzag ==
  ASSUME NEW x \in Int, NEW y \in Int, NEW behind, NEW ahead, NEW k, NEW h \in Nat,
         EndAt(h + 1, k, behind, ahead) = y, NEW P, IsLeg(P, x, y)
  PROVE  IsZigzag(P, x, 1, h, k, behind, ahead)
  <1>1. P \in Legs /\ Len(P) = 1 /\ P[1] = <<x, y>>
    BY LegIs
  <1>2. \A i \in 1 .. 1 : i = 1
    OBVIOUS
  <1>3. QED
    BY <1>1, <1>2 DEF IsZigzag

\* An oscillating counter that is l beyond its last turn.
LEMMA BounceFrom ==
  ASSUME NEW behind \in Int, NEW ahead \in Int, behind < ahead, NEW l \in 0 .. (ahead - behind) - 1,
         NEW m \in Int, m = behind + l, NEW e \in Nat, e > 0,
         NEW h \in Nat, NEW k, MadeUp(l + e, ahead - behind, h, k)
  PROVE  IsZigzag(BouncePath(m, e, behind, ahead), m, h + 1, 0, k, behind, ahead)
  <1>1. PICK r \in Nat \ {0} : r = ahead - behind
    OBVIOUS
  <1>2. l + e = (r * h) + k /\ k \in 0 .. r - 1
    BY <1>1 DEF MadeUp
  <1>3. e - (ahead - m) = (l + e) - r
    BY <1>1
  <1>4. CASE h = 0
    <2>1. r * h = 0
      BY <1>4
    <2>2. k = l + e /\ e - (ahead - m) < 0
      BY <1>1, <1>2, <1>3, <2>1
    <2>3. BouncePath(m, e, behind, ahead) = <<<<m, m + e>>>>
      BY <2>2 DEF BouncePath
    <2>4. IsLeg(BouncePath(m, e, behind, ahead), m, m + e)
      BY <2>3 DEF IsLeg
    <2>5. EndAt(0 + 1, k, behind, ahead) = m + e
      <3>1. (0 + 1) % 2 # 0
        OBVIOUS
      <3>2. behind + k = m + e
        BY <2>2
      <3>3. QED
        BY <3>1, <3>2 DEF EndAt
    <2>6. IsZigzag(BouncePath(m, e, behind, ahead), m, 1, 0, k, behind, ahead)
      <3>1. m + e \in Int /\ 0 \in Nat
        OBVIOUS
      <3>2. QED
        BY <2>4, <2>5, <3>1, OneZigzag
    <2>7. h + 1 = 1
      BY <1>4
    <2>8. QED
      BY <2>6, <2>7
  <1>5. CASE h # 0
    <2>1. PICK q \in Nat : q + 1 = h
      <3>1. h - 1 \in Nat /\ (h - 1) + 1 = h
        BY <1>5
      <3>2. QED
        BY <3>1
    <2>2. r * h = r * q + r /\ r * q \in Nat
      BY <1>1, <2>1
    <2>3. e - (ahead - m) = (r * q) + k
      BY <1>2, <1>3, <2>2
    <2>4. MadeUp(e - (ahead - m), ahead - behind, q, k)
      BY <1>1, <1>2, <2>3 DEF MadeUp
    <2>5. IsZigzag(BouncePath(m, e, behind, ahead), m, q + 2, 0, k, behind, ahead)
      BY <2>4, BounceIs
    <2>6. q + 2 = h + 1
      BY <2>1
    <2>7. QED
      BY <2>5, <2>6
  <1>6. QED
    BY <1>4, <1>5

\* Every natural number is made up.
LEMMA Divided ==
  ASSUME NEW n \in Nat, NEW r \in Nat \ {0}
  PROVE  \E q, l : MadeUp(n, r, q, l) /\ q \in Nat
  <1>1. n \in Int /\ n >= 0
    OBVIOUS
  <1>2. PICK q, l : q = n \div r /\ l = n % r
    OBVIOUS
  <1>3. q \in Int /\ q >= 0 /\ l \in 0 .. r - 1 /\ n = (r * q) + l
    BY <1>1, <1>2, Quotient
  <1>4. MadeUp(n, r, q, l) /\ q \in Nat
    BY <1>3 DEF MadeUp
  <1>5. QED
    BY <1>4

\* A number more than one that is made up.
LEMMA MadeUpOn ==
  ASSUME NEW n \in Int, NEW e \in Nat, NEW r \in Nat \ {0}, NEW q \in Nat, NEW l, MadeUp(n, r, q, l),
         NEW h \in Nat, NEW k, MadeUp(l + e, r, h, k)
  PROVE  MadeUp(n + e, r, q + h, k)
  <1>1. /\ l \in Nat /\ n = (r * q) + l /\ k \in 0 .. r - 1 /\ l + e = (r * h) + k
    BY DEF MadeUp
  <1>2. r * (q + h) = (r * q) + (r * h) /\ r * q \in Nat /\ r * h \in Nat
    OBVIOUS
  <1>3. n + e = (r * (q + h)) + k
    BY <1>1, <1>2
  <1>4. QED
    BY <1>1, <1>3 DEF MadeUp

\* Where the counter goes on from m, in the counts of the first frame.
BounceOn(F, m, e, behind, ahead) ==
  IF Len(F) % 2 = 0 THEN Mirrored(-1, BouncePath(-m, e, -ahead, -behind)) ELSE BouncePath(m, e, behind, ahead)

\* The paths of an oscillating counter compose.
LEMMA BounceComposes ==
  ASSUME NEW x \in Int, NEW d \in Nat, d > 0, NEW e \in Nat, e > 0,
         NEW behind \in Int, NEW ahead \in Int, behind < ahead,
         NEW F, F = BouncePath(x, d, behind, ahead), NEW m, m = F[Len(F)][2],
         NEW S, S = BounceOn(F, m, e, behind, ahead),
         NEW W, W = BouncePath(x, d + e, behind, ahead)
  PROVE  Composes(F, S, W)
  <1>1. PICK r \in Nat \ {0} : r = ahead - behind
    OBVIOUS
  <1>2. CASE d - (ahead - x) < 0
    <2>1. F = <<<<x, x + d>>>>
      BY <1>2 DEF BouncePath
    <2>2. IsLeg(F, x, x + d) /\ x + d \in Int
      BY <2>1 DEF IsLeg
    <2>3. Len(F) = 1 /\ F[1] = <<x, x + d>>
      BY <2>2, LegIs
    <2>4. m = x + d /\ m \in Int /\ x < m /\ m < ahead
      BY <1>2, <2>3
    <2>5. S = BouncePath(m, e, behind, ahead)
      BY <2>3 DEF BounceOn
    <2>6. e - (ahead - m) = (d + e) - (ahead - x) /\ d + e \in Nat /\ d + e > 0
      BY <2>4
    <2>7. IsLeg(F, x, m)
      BY <2>2, <2>4
    <2>8. CASE e - (ahead - m) < 0
      <3>1. S = <<<<m, m + e>>>> /\ W = <<<<x, x + (d + e)>>>>
        BY <2>5, <2>6, <2>8 DEF BouncePath
      <3>2. IsLeg(S, m, m + e) /\ IsLeg(W, x, m + e)
        BY <2>4, <3>1 DEF IsLeg
      <3>3. /\ S \in Legs /\ Len(S) = 1 /\ S[1] = <<m, m + e>>
            /\ W \in Legs /\ Len(W) = 1 /\ W[1] = <<x, m + e>>
        BY <3>2, LegIs
      <3>4. m + e \in Int /\ m < m + e /\ 1 \in Nat \ {0} /\ \A i \in 2 .. 1 : W[i] = S[i]
        BY <2>4
      <3>5. Through(F, S, W, x, m, m + e, 1)
        BY <2>4, <2>7, <3>3, <3>4 DEF Through
      <3>6. QED
        BY <3>5, ThroughComposes, Zenon
    <2>9. CASE e - (ahead - m) >= 0
      <3>1. PICK q, l : MadeUp(e - (ahead - m), ahead - behind, q, l) /\ q \in Nat
        <4>1. e - (ahead - m) \in Nat /\ ahead - behind \in Nat \ {0}
          BY <1>1, <2>4, <2>9
        <4>2. QED
          BY <4>1, Divided
      <3>2. IsZigzag(S, m, q + 2, 0, l, behind, ahead)
        BY <2>4, <2>5, <3>1, BounceIs
      <3>3. IsZigzag(W, x, q + 2, 0, l, behind, ahead)
        <4>1. MadeUp((d + e) - (ahead - x), ahead - behind, q, l)
          BY <2>6, <3>1
        <4>2. QED
          BY <2>6, <3>1, <4>1, BounceIs
      <3>4. PICK n \in Nat \ {0} : n = q + 2
        BY <3>1
      <3>5. 1 \in 1 .. n /\ 1 < n /\ Turning(0 + 1, behind, ahead) = ahead
        BY <3>1, <3>4 DEF Turning
      <3>6. S[1] = <<m, ahead>> /\ W[1] = <<x, ahead>>
        BY <3>2, <3>3, <3>4, <3>5 DEF IsZigzag
      <3>7. S \in Legs /\ Len(S) = n /\ W \in Legs /\ Len(W) = n
        BY <3>2, <3>3, <3>4 DEF IsZigzag
      <3>8. \A i \in 2 .. n : W[i] = S[i]
        <4>1. TAKE i \in 2 .. n
        <4>2. i \in 1 .. n /\ i # 1
          OBVIOUS
        <4>3. S[i] = <<Turning(0 + i - 1, behind, ahead), IF i < n THEN Turning(0 + i, behind, ahead)
                                                          ELSE EndAt(0 + n, l, behind, ahead)>>
          BY <3>2, <3>4, <4>2 DEF IsZigzag
        <4>4. W[i] = <<Turning(0 + i - 1, behind, ahead), IF i < n THEN Turning(0 + i, behind, ahead)
                                                          ELSE EndAt(0 + n, l, behind, ahead)>>
          BY <3>3, <3>4, <4>2 DEF IsZigzag
        <4>5. QED
          BY <4>3, <4>4
      <3>9. Through(F, S, W, x, m, ahead, n)
        BY <2>4, <2>7, <3>4, <3>6, <3>7, <3>8 DEF Through
      <3>10. QED
        BY <3>9, ThroughComposes, Zenon
    <2>10. QED
      BY <2>4, <2>8, <2>9
  <1>3. CASE d - (ahead - x) >= 0
    <2>1. PICK q, l : MadeUp(d - (ahead - x), ahead - behind, q, l) /\ q \in Nat
      <3>1. d - (ahead - x) \in Nat /\ ahead - behind \in Nat \ {0}
        BY <1>1, <1>3
      <3>2. QED
        BY <3>1, Divided
    <2>2. l \in 0 .. (ahead - behind) - 1 /\ d - (ahead - x) = ((ahead - behind) * q) + l /\ l \in Nat
      BY <1>1, <2>1 DEF MadeUp
    <2>3. PICK J \in Nat : J = q + 2
      BY <2>1
    <2>4. IsZigzag(F, x, J, 0, l, behind, ahead)
      BY <2>1, <2>3, BounceIs
    <2>5. Len(F) = J /\ m = EndAt(J, l, behind, ahead)
      <3>1. J \in 1 .. J /\ ~(J < J) /\ 0 + J = J
        BY <2>1, <2>3
      <3>2. Len(F) = J /\ F[J][2] = EndAt(J, l, behind, ahead)
        BY <2>4, <3>1 DEF IsZigzag
      <3>3. QED
        BY <3>2
    <2>6. PICK h, k : MadeUp(l + e, ahead - behind, h, k) /\ h \in Nat
      <3>1. l + e \in Nat /\ ahead - behind \in Nat \ {0}
        BY <1>1, <2>2
      <3>2. QED
        BY <3>1, Divided
    <2>7. k \in 0 .. (ahead - behind) - 1 /\ l + e = ((ahead - behind) * h) + k
      BY <2>6 DEF MadeUp
    <2>8. PICK n \in Nat \ {0} : n = h + 1
      BY <2>6
    <2>9. n = 1 => l < k
      <3>1. SUFFICES ASSUME n = 1 PROVE l < k
        OBVIOUS
      <3>2. h = 0
        BY <2>6, <2>8, <3>1
      <3>3. l + e = k
        BY <1>1, <2>7, <3>2
      <3>4. QED
        BY <2>2, <2>7, <3>3
    <2>10. J = 2 /\ l = 0 => x < ahead
      <3>1. SUFFICES ASSUME J = 2, l = 0 PROVE x < ahead
        OBVIOUS
      <3>2. q = 0
        BY <2>1, <2>3, <3>1
      <3>3. d - (ahead - x) = 0
        BY <1>1, <2>2, <3>1, <3>2
      <3>4. QED
        BY <3>3
    <2>11. IsZigzag(W, x, J + n - 1, 0, k, behind, ahead)
      <3>1. MadeUp((d - (ahead - x)) + e, ahead - behind, q + h, k)
        <4>1. ahead - behind \in Nat \ {0} /\ d - (ahead - x) \in Int
          BY <1>1
        <4>2. QED
          BY <2>1, <2>6, <4>1, MadeUpOn
      <3>2. (d - (ahead - x)) + e = (d + e) - (ahead - x) /\ d + e \in Nat /\ d + e > 0
        OBVIOUS
      <3>3. q + h \in Nat /\ (q + h) + 2 = J + n - 1
        <4>1. q \in Nat /\ h \in Nat
          BY <2>1, <2>6
        <4>2. QED
          BY <2>3, <2>8, <4>1
      <3>4. MadeUp((d + e) - (ahead - x), ahead - behind, q + h, k)
        BY <3>1, <3>2
      <3>5. IsZigzag(W, x, (q + h) + 2, 0, k, behind, ahead)
        BY <3>2, <3>3, <3>4, BounceIs
      <3>6. QED
        BY <3>3, <3>5
    <2>12. IsZigzag(S, m, n, J - 1, k, behind, ahead)
      <3>1. J - 1 \in Nat /\ (J - 1) + 1 = J /\ J % 2 \in {0, 1} /\ J % 2 = 1 - ((J - 1) % 2)
        <4>1. J - 1 \in Nat /\ (J - 1) + 1 = J
          BY <2>1, <2>3
        <4>2. ((J - 1) + 1) % 2 = 1 - ((J - 1) % 2) /\ J % 2 \in {0, 1}
          BY <4>1, Parity
        <4>3. QED
          BY <4>1, <4>2
      <3>2. CASE J % 2 = 1
        <4>1. S = BouncePath(m, e, behind, ahead) /\ m = behind + l /\ m \in Int
          BY <2>2, <2>5, <3>2 DEF BounceOn, EndAt
        <4>2. IsZigzag(S, m, n, 0, k, behind, ahead)
          <5>1. IsZigzag(BouncePath(m, e, behind, ahead), m, h + 1, 0, k, behind, ahead)
            BY <2>2, <2>6, <4>1, BounceFrom
          <5>2. QED
            BY <2>8, <4>1, <5>1
        <4>3. 0 % 2 = (J - 1) % 2 /\ 0 \in Nat
          BY <3>1, <3>2
        <4>4. QED
          BY <3>1, <4>2, <4>3, ZigzagShift
      <3>3. CASE J % 2 = 0
        <4>1. /\ S = Mirrored(-1, BouncePath(-m, e, -ahead, -behind))
              /\ m = ahead - l /\ m \in Int
          <5>1. m = ahead - l
            BY <2>5, <3>3 DEF EndAt
          <5>2. S = Mirrored(-1, BouncePath(-m, e, -ahead, -behind))
            BY <2>5, <3>3 DEF BounceOn
          <5>3. m \in Int
            BY <2>2, <5>1
          <5>4. QED
            BY <5>1, <5>2, <5>3
        <4>9. PICK a \in Int, b \in Int, z \in Int : a = -behind /\ b = -ahead /\ z = -m
          BY <4>1
        <4>2. PICK P : P = BouncePath(z, e, b, a) /\ a = -behind /\ b = -ahead /\ z = -m
          BY <4>9
        <4>3. b < a /\ z = b + l /\ a - b = ahead - behind
          BY <2>2, <4>1, <4>2
        <4>4. IsZigzag(P, z, n, 0, k, b, a)
          <5>1. l \in 0 .. (a - b) - 1 /\ MadeUp(l + e, a - b, h, k)
            BY <2>2, <2>6, <4>3
          <5>2. QED
            <6>1. IsZigzag(BouncePath(z, e, b, a), z, h + 1, 0, k, b, a)
              BY <2>6, <4>3, <5>1, BounceFrom
            <6>2. QED
              BY <2>8, <4>2, <6>1
        <4>5. IsZigzag(P, -m, n, 0, k, -ahead, -behind)
          BY <4>2, <4>4
        <4>6. IsZigzag(S, m, n, 1, k, behind, ahead)
          <5>1. S = Mirrored(-1, P) /\ k \in Int
            BY <2>7, <4>1, <4>2
          <5>2. QED
            BY <4>1, <4>5, <5>1, MirroredZigzag
        <4>7. 1 % 2 = (J - 1) % 2 /\ 1 \in Nat
          BY <3>1, <3>3
        <4>8. QED
          BY <3>1, <4>6, <4>7, ZigzagShift
      <3>4. QED
        BY <3>1, <3>2, <3>3
    <2>13. J >= 2
      BY <2>1, <2>3
    <2>14. QED
      BY <2>2, <2>4, <2>5, <2>7, <2>9, <2>10, <2>11, <2>12, <2>13, ZigzagComposes
  <1>4. QED
    BY <1>2, <1>3

-----------------------------------------------------------------------------
(* All modes                                                                *)

\* The route from where another ended, in the frame of that one.
RouteOn(mode, F, m, e, behind, ahead) ==
  IF mode = "OSCILLATE" /\ Len(F) % 2 = 0 THEN Mirrored(-1, Route(mode, -m, e, -ahead, -behind))
  ELSE Route(mode, m, e, behind, ahead)

\* An advance by nothing stays where it is.
LEMMA RouteOfNothing ==
  ASSUME NEW mode, NEW m \in Int, NEW behind \in Int, NEW ahead \in Int, behind < ahead,
         mode \in {"ONCE", "CYCLE"} => m =< ahead, mode = "CYCLE" => m < ahead
  PROVE  /\ Route(mode, m, 0, behind, ahead) \in Legs /\ Len(Route(mode, m, 0, behind, ahead)) = 1
         /\ Route(mode, m, 0, behind, ahead)[1] = <<m, m>>
  <1>1. PICK P : P = Route(mode, m, 0, behind, ahead)
    OBVIOUS
  <1>2. m + 0 = m /\ behind =< ahead
    OBVIOUS
  <1>3. CASE mode = "CYCLE"
    <2>1. P = CyclePath(m, m, behind, ahead)
      BY <1>1, <1>2, <1>3 DEF Route
    <2>2. WrapsTo(m, behind, ahead, 0, m)
      BY <1>3 DEF WrapsTo
    <2>3. IsCycle(P, m, 0, m, behind, ahead)
      BY <2>1, <2>2, CycleIs
    <2>4. QED
      BY <1>1, <2>3 DEF IsCycle
  <1>4. CASE mode # "CYCLE"
    <2>1. P = <<<<m, m>>>>
      <3>1. CASE mode = "ONCE" /\ m >= ahead
        <4>1. m = ahead
          BY <3>1
        <4>2. P = <<<<m, ahead>>>>
          BY <1>1, <1>2, <3>1 DEF Route
        <4>3. QED
          BY <4>1, <4>2
      <3>2. CASE ~(mode = "ONCE" /\ m >= ahead)
        BY <1>1, <1>2, <1>4, <3>2 DEF Route, BouncePath
      <3>3. QED
        BY <3>1, <3>2
    <2>2. IsLeg(P, m, m)
      BY <2>1 DEF IsLeg
    <2>3. QED
      BY <1>1, <2>2, LegIs
  <1>5. QED
    BY <1>3, <1>4

\* The routes of two advances, which compose to that of the one that is as far.
TwoRoutes(mode, x, d, e, behind, ahead, F, m, S, W) ==
  /\ mode \in Modes /\ x \in Int /\ d \in Nat /\ e \in Nat /\ (d = 0) = (e = 0)
  /\ behind \in Int /\ ahead \in Int /\ behind < ahead
  /\ F = Route(mode, x, d, behind, ahead) /\ m = F[Len(F)][2]
  /\ S = RouteOn(mode, F, m, e, behind, ahead)
  /\ W = Route(mode, x, d + e, behind, ahead)

\* They do, and stop the counter together.
LEMMA RoutesCompose ==
  \A mode, x, d, e, behind, ahead, F, m, S, W :
    TwoRoutes(mode, x, d, e, behind, ahead, F, m, S, W) =>
      /\ Composes(F, S, W)
      /\ mode = "ONCE" => (x + (d + e) >= ahead) = (x + d >= ahead \/ m + e >= ahead)
  <1> SUFFICES
        ASSUME NEW mode, NEW x, NEW d, NEW e, NEW behind, NEW ahead, NEW F, NEW m, NEW S, NEW W,
               TwoRoutes(mode, x, d, e, behind, ahead, F, m, S, W)
        PROVE  /\ Composes(F, S, W)
               /\ mode = "ONCE" => (x + (d + e) >= ahead) = (x + d >= ahead \/ m + e >= ahead)
    BY Zenon
  <1>z. /\ mode \in Modes /\ x \in Int /\ d \in Nat /\ e \in Nat /\ (d = 0) = (e = 0)
        /\ behind \in Int /\ ahead \in Int /\ behind < ahead
        /\ F = Route(mode, x, d, behind, ahead) /\ m = F[Len(F)][2]
        /\ S = RouteOn(mode, F, m, e, behind, ahead)
        /\ W = Route(mode, x, d + e, behind, ahead)
    BY Zenon DEF TwoRoutes
  <1> USE <1>z
  <1>0. mode \in {"CONTINUOUS", "ONCE", "CYCLE", "OSCILLATE"}
    BY DEF Modes
  <1>1. CASE mode = "CONTINUOUS"
    <2>1. F = <<<<x, x + d>>>> /\ W = <<<<x, x + (d + e)>>>>
      BY <1>1 DEF Route
    <2>2. IsLeg(F, x, x + d) /\ IsLeg(W, x, x + (d + e))
      BY <2>1 DEF IsLeg
    <2>3. /\ F \in Legs /\ Len(F) = 1 /\ F[1] = <<x, x + d>>
          /\ W \in Legs /\ Len(W) = 1 /\ W[1] = <<x, x + (d + e)>>
      BY <2>2, LegIs
    <2>4. m = x + d
      BY <2>3
    <2>5. S = <<<<m, m + e>>>>
      BY <1>1 DEF RouteOn, Route
    <2>6. IsLeg(S, m, m + e)
      BY <2>4, <2>5 DEF IsLeg
    <2>7. S \in Legs /\ Len(S) = 1 /\ S[1] = <<m, m + e>>
      BY <2>6, LegIs
    <2>8. CASE d = 0
      <3>1. W = F /\ m + e = m /\ m \in Int
        BY <2>1, <2>4, <2>8
      <3>2. Len(F) >= 1 /\ F[Len(F)] = <<x, m>>
        BY <2>3, <2>4
      <3>3. S[1] = <<m, m>>
        BY <2>7, <3>1
      <3>4. Composes(F, S, F)
        BY <2>3, <2>7, <3>1, <3>2, <3>3, NothingComposes
      <3>5. QED
        BY <1>1, <3>1, <3>4
    <2>9. CASE d # 0
      <3>1. /\ m \in Int /\ m + e \in Int /\ x < m /\ m < m + e /\ x + (d + e) = m + e
            /\ 1 \in Nat \ {0} /\ \A i \in 2 .. 1 : W[i] = S[i]
        BY <2>4, <2>9
      <3>2. Through(F, S, W, x, m, m + e, 1)
        BY <2>2, <2>3, <2>4, <2>7, <3>1 DEF Through
      <3>3. Composes(F, S, W)
        BY <3>2, ThroughComposes, Zenon
      <3>4. QED
        BY <1>1, <3>3
    <2>10. QED
      BY <2>8, <2>9
  <1>2. CASE mode = "ONCE"
    <2>1. CASE x + d >= ahead
      <3>1. F = <<<<x, ahead>>>> /\ W = F
        BY <1>2, <2>1 DEF Route
      <3>2. IsLeg(F, x, ahead)
        BY <3>1 DEF IsLeg
      <3>3. F \in Legs /\ Len(F) = 1 /\ F[1] = <<x, ahead>>
        BY <3>2, LegIs
      <3>4. m = ahead
        BY <3>3
      <3>5. S = <<<<m, m>>>>
        BY <1>2, <3>4 DEF RouteOn, Route
      <3>6. IsLeg(S, m, m)
        BY <3>4, <3>5 DEF IsLeg
      <3>7. S \in Legs /\ Len(S) = 1 /\ S[1] = <<m, m>>
        BY <3>6, LegIs
      <3>8. Composes(F, S, W)
        <4>1. Len(F) >= 1 /\ F[Len(F)] = <<x, m>> /\ m \in Int
          BY <3>3, <3>4
        <4>2. Composes(F, S, F)
          BY <3>3, <3>7, <4>1, NothingComposes
        <4>3. QED
          BY <3>1, <4>2
      <3>9. QED
        BY <2>1, <3>8
    <2>2. CASE x + d < ahead
      <3>1. PICK y \in Int : y = IF x + (d + e) >= ahead THEN ahead ELSE x + (d + e)
        OBVIOUS
      <3>2. F = <<<<x, x + d>>>> /\ W = <<<<x, y>>>>
        BY <1>2, <2>2, <3>1 DEF Route
      <3>3. IsLeg(F, x, x + d) /\ IsLeg(W, x, y)
        BY <3>2 DEF IsLeg
      <3>4. /\ F \in Legs /\ Len(F) = 1 /\ F[1] = <<x, x + d>>
            /\ W \in Legs /\ Len(W) = 1 /\ W[1] = <<x, y>>
        BY <3>3, LegIs
      <3>5. m = x + d /\ m + e = x + (d + e)
        BY <3>4
      <3>6. S = <<<<m, y>>>>
        BY <1>2, <3>1, <3>5 DEF RouteOn, Route
      <3>7. IsLeg(S, m, y)
        BY <3>5, <3>6 DEF IsLeg
      <3>8. S \in Legs /\ Len(S) = 1 /\ S[1] = <<m, y>>
        BY <3>7, LegIs
      <3>9. CASE d = 0
        <4>1. W = F /\ y = m /\ m \in Int
          BY <2>2, <3>1, <3>2, <3>5, <3>9
        <4>4. Len(F) >= 1 /\ F[Len(F)] = <<x, m>> /\ S[1] = <<m, m>>
          BY <3>4, <3>5, <3>8, <4>1
        <4>5. Composes(F, S, F)
          BY <3>4, <3>8, <4>1, <4>4, NothingComposes
        <4>2. Composes(F, S, W)
          BY <4>1, <4>5
        <4>3. QED
          BY <2>2, <3>5, <4>2
      <3>10. CASE d # 0
        <4>1. m \in Int /\ x < m /\ m < y /\ 1 \in Nat \ {0} /\ \A i \in 2 .. 1 : W[i] = S[i]
          BY <2>2, <3>1, <3>5, <3>10
        <4>2. Through(F, S, W, x, m, y, 1)
          BY <3>3, <3>4, <3>5, <3>8, <4>1 DEF Through
        <4>3. Composes(F, S, W)
          BY <4>2, ThroughComposes, Zenon
        <4>4. QED
          BY <2>2, <3>5, <4>3
      <3>11. QED
        BY <3>9, <3>10
    <2>3. QED
      BY <2>1, <2>2
  <1>3. CASE mode = "CYCLE"
    <2>1. F = CyclePath(x, x + d, behind, ahead)
      BY <1>3 DEF Route
    <2>2. PICK k, t : WrapsTo(x + d, behind, ahead, k, t)
      <3>1. x + d \in Int
        OBVIOUS
      <3>2. QED
        BY <3>1, Wraps
    <2>3. k \in Nat /\ t \in Int /\ t < ahead
      BY <2>2 DEF WrapsTo
    <2>4. IsCycle(F, x, k, t, behind, ahead)
      BY <2>1, <2>2, CycleIs
    <2>5. PICK u \in Int : F \in Legs /\ Len(F) = k + 1 /\ F[Len(F)] = <<u, t>>
      <3>1. k + 1 \in 1 .. k + 1 /\ ~(k + 1 =< k)
        BY <2>3
      <3>2. F \in Legs /\ Len(F) = k + 1 /\ F[Len(F)] = <<IF k + 1 = 1 THEN x ELSE behind, t>>
        BY <2>4, <3>1 DEF IsCycle
      <3>3. QED
        BY <3>2
    <2>6. m = t /\ m \in Int /\ m < ahead
      BY <2>3, <2>5
    <2>7. S = Route(mode, m, e, behind, ahead)
      BY <1>3 DEF RouteOn
    <2>8. CASE d = 0
      <3>1. e = 0 /\ d + e = d
        BY <2>8
      <3>2. W = F /\ S = Route(mode, m, 0, behind, ahead)
        BY <2>7, <3>1
      <3>3. S \in Legs /\ Len(S) = 1 /\ S[1] = <<m, m>>
        BY <2>6, <3>2, RouteOfNothing
      <3>4. Len(F) >= 1
        BY <2>3, <2>5
      <3>5. Composes(F, S, F)
        BY <2>5, <2>6, <3>3, <3>4, NothingComposes
      <3>6. QED
        BY <1>3, <3>2, <3>5
    <2>9. CASE d # 0
      <3>1. d > 0 /\ e > 0 /\ x + (d + e) = (x + d) + e
        BY <2>9
      <3>2. S = CyclePath(m, m + e, behind, ahead) /\ W = CyclePath(x, (x + d) + e, behind, ahead)
        BY <1>3, <2>7, <3>1 DEF Route
      <3>3. Composes(F, S, W)
        BY <2>1, <3>1, <3>2, CycleComposes
      <3>4. QED
        BY <1>3, <3>3
    <2>10. QED
      BY <2>8, <2>9
  <1>4. CASE mode = "OSCILLATE"
    <2>1. F = BouncePath(x, d, behind, ahead) /\ W = BouncePath(x, d + e, behind, ahead)
      BY <1>4 DEF Route
    <2>2. S = BounceOn(F, m, e, behind, ahead)
      BY <1>4 DEF RouteOn, BounceOn, Route
    <2>3. CASE d = 0
      <3>1. F = <<<<x, x>>>> /\ d + e = d /\ e = 0
        BY <2>1, <2>3 DEF BouncePath
      <3>2. IsLeg(F, x, x)
        BY <3>1 DEF IsLeg
      <3>3. F \in Legs /\ Len(F) = 1 /\ F[1] = <<x, x>>
        BY <3>2, LegIs
      <3>4. m = x /\ W = F
        <4>1. F[Len(F)] = <<x, x>>
          BY <3>3
        <4>2. m = x
          BY <4>1
        <4>3. W = F
          BY <2>1, <3>1
        <4>4. QED
          BY <4>2, <4>3
      <3>5. S = Route(mode, m, 0, behind, ahead)
        BY <1>4, <3>1, <3>3 DEF RouteOn
      <3>6. S \in Legs /\ Len(S) = 1 /\ S[1] = <<m, m>>
        BY <1>4, <3>4, <3>5, RouteOfNothing
      <3>7. Composes(F, S, F)
        <4>1. Len(F) >= 1 /\ F[Len(F)] = <<x, m>> /\ m \in Int
          BY <3>3, <3>4
        <4>2. QED
          BY <3>3, <3>6, <4>1, NothingComposes
      <3>8. QED
        BY <1>4, <3>4, <3>7
    <2>4. CASE d # 0
      <3>1. d > 0 /\ e > 0
        BY <2>4
      <3>2. Composes(F, S, W)
        BY <2>1, <2>2, <3>1, BounceComposes
      <3>3. QED
        BY <1>4, <3>2
    <2>5. QED
      BY <2>3, <2>4
  <1>5. QED
    BY <1>0, <1>1, <1>2, <1>3, <1>4

-----------------------------------------------------------------------------
(* Two advances of a counter, and one by as much                            *)

\* Two moves in the same direction, or none at all.
Alike(p, z) == (p = 0 /\ z = 0) \/ (p > 0 /\ z > 0) \/ (p < 0 /\ z < 0)

\* Products with the same factor are.
LEMMA ProductsAlike ==
  ASSUME NEW a \in Nat \ {0}, NEW b \in Nat \ {0}, NEW t \in Int
  PROVE  Alike(a * t, b * t) /\ (a + b) * t = a * t + b * t
  <1>1. (a + b) * t = a * t + b * t
    OBVIOUS
  <1>2. CASE t = 0
    BY <1>2, <1>1 DEF Alike
  <1>3. CASE t > 0
    <2>1. a * t > 0 /\ b * t > 0
      BY <1>3
    <2>2. QED
      BY <1>1, <2>1 DEF Alike
  <1>4. CASE t < 0
    <2>1. a * t < 0 /\ b * t < 0
      BY <1>4
    <2>2. QED
      BY <1>1, <2>1 DEF Alike
  <1>5. QED
    BY <1>2, <1>3, <1>4

\* How far the two advances and the whole one go; the second goes the other
\* way if the first turned the counter.
LEMMA DeltasAlike ==
  ASSUME NEW c \in CounterType, NEW a \in Nat \ {0}, NEW b \in Nat \ {0},
         NEW f \in CounterType, f.multiplier = c.multiplier
  PROVE  \E p \in Int, z \in Int :
            /\ p = Delta(c, a) /\ Delta(c, a + b) = p + z /\ Alike(p, z)
            /\ f.forward = c.forward => Delta(f, b) = z
            /\ f.forward # c.forward => Delta(f, b) = -z
  <1>1. PICK t \in Int : t = c.multiplier
    BY DEF CounterType
  <1>2. PICK u \in Int, v \in Int : u = a * t /\ v = b * t
    OBVIOUS
  <1>3. Alike(u, v) /\ (a + b) * t = u + v
    BY <1>2, ProductsAlike
  <1>4. (-a) * t = -u /\ (-b) * t = -v /\ (-(a + b)) * t = -(u + v)
    BY <1>2, <1>3
  <1>5. c.forward \in BOOLEAN /\ f.forward \in BOOLEAN
    BY DEF CounterType
  <1>6. CASE c.forward
    <2>1. Delta(c, a) = u /\ Delta(c, a + b) = u + v
      BY <1>1, <1>2, <1>3, <1>6 DEF Delta
    <2>2. (f.forward => Delta(f, b) = v) /\ (~f.forward => Delta(f, b) = -v)
      BY <1>1, <1>2, <1>4 DEF Delta
    <2>3. QED
      BY <1>3, <1>5, <1>6, <2>1, <2>2
  <1>7. CASE ~c.forward
    <2>1. Delta(c, a) = -u /\ Delta(c, a + b) = -u + -v
      BY <1>1, <1>2, <1>4, <1>7 DEF Delta
    <2>2. (f.forward => Delta(f, b) = v) /\ (~f.forward => Delta(f, b) = -v)
      BY <1>1, <1>2, <1>4 DEF Delta
    <2>3. Alike(-u, -v) /\ -u \in Int /\ -v \in Int /\ v = -(-v)
      BY <1>3 DEF Alike
    <2>4. QED
      BY <1>5, <1>7, <2>1, <2>2, <2>3
  <1>8. QED
    BY <1>6, <1>7

\* The counter after the first advance has the same range.
SameRange(c, f) == f.mode = c.mode /\ f.start = c.start /\ f.end = c.end /\ f.multiplier = c.multiplier

\* Moves in the same direction have the same frame.
LEMMA SameFrame ==
  ASSUME NEW c \in CounterType, NEW f \in CounterType, SameRange(c, f),
         NEW p \in Int, NEW z \in Int, (p >= 0) = (z >= 0)
  PROVE  /\ MirrorOf(f, z) = MirrorOf(c, p) /\ AheadOf(f, z) = AheadOf(c, p)
         /\ BehindOf(f, z) = BehindOf(c, p) /\ FromOf(f, z) = MirrorOf(c, p) * f.count
  <1>1. f.start = c.start /\ f.end = c.end
    BY DEF SameRange
  <1>2. MirrorOf(f, z) = MirrorOf(c, p)
    BY <1>1 DEF MirrorOf
  <1>3. QED
    BY <1>1, <1>2 DEF AheadOf, BehindOf, FromOf

\* Moves in opposite directions have mirrored frames.
LEMMA OppositeFrame ==
  ASSUME NEW c \in CounterType, NEW f \in CounterType, SameRange(c, f),
         NEW p \in Int, NEW z \in Int, (p > 0 /\ z < 0) \/ (p < 0 /\ z > 0)
  PROVE  /\ \/ MirrorOf(c, p) = 1 /\ MirrorOf(f, z) = -1 /\ FromOf(f, z) = -f.count
            \/ MirrorOf(c, p) = -1 /\ MirrorOf(f, z) = 1 /\ FromOf(f, z) = f.count
         /\ AheadOf(f, z) = -BehindOf(c, p) /\ BehindOf(f, z) = -AheadOf(c, p)
  <1>1. /\ f.start = c.start /\ f.end = c.end /\ c.start \in Int /\ c.end \in Int /\ f.count \in Int
    BY DEF SameRange, CounterType
  <1>2. CASE c.end >= c.start /\ p > 0 /\ z < 0
    <2>1. MirrorOf(c, p) = 1 /\ AheadOf(c, p) = c.end /\ BehindOf(c, p) = c.start
      BY <1>1, <1>2, Frames
    <2>2. /\ MirrorOf(f, z) = -1 /\ AheadOf(f, z) = -c.start /\ BehindOf(f, z) = -c.end
          /\ FromOf(f, z) = -f.count
      BY <1>1, <1>2, Frames
    <2>3. QED
      BY <1>1, <2>1, <2>2
  <1>3. CASE c.end >= c.start /\ p < 0 /\ z > 0
    <2>1. MirrorOf(c, p) = -1 /\ AheadOf(c, p) = -c.start /\ BehindOf(c, p) = -c.end
      BY <1>1, <1>3, Frames
    <2>2. /\ MirrorOf(f, z) = 1 /\ AheadOf(f, z) = c.end /\ BehindOf(f, z) = c.start
          /\ FromOf(f, z) = f.count
      BY <1>1, <1>3, Frames
    <2>3. QED
      BY <1>1, <2>1, <2>2
  <1>4. CASE c.end < c.start /\ p > 0 /\ z < 0
    <2>1. MirrorOf(c, p) = -1 /\ AheadOf(c, p) = -c.end /\ BehindOf(c, p) = -c.start
      BY <1>1, <1>4, Frames
    <2>2. /\ MirrorOf(f, z) = 1 /\ AheadOf(f, z) = c.start /\ BehindOf(f, z) = c.end
          /\ FromOf(f, z) = f.count
      BY <1>1, <1>4, Frames
    <2>3. QED
      BY <1>1, <2>1, <2>2
  <1>5. CASE c.end < c.start /\ p < 0 /\ z > 0
    <2>1. MirrorOf(c, p) = 1 /\ AheadOf(c, p) = c.start /\ BehindOf(c, p) = c.end
      BY <1>1, <1>5, Frames
    <2>2. /\ MirrorOf(f, z) = -1 /\ AheadOf(f, z) = -c.end /\ BehindOf(f, z) = -c.start
          /\ FromOf(f, z) = -f.count
      BY <1>1, <1>5, Frames
    <2>3. QED
      BY <1>1, <2>1, <2>2
  <1>6. QED
    BY <1>1, <1>2, <1>3, <1>4, <1>5

\* Mirrored twice.
LEMMA MirroredTwice ==
  ASSUME NEW legs \in Legs
  PROVE  /\ Mirrored(1, Mirrored(-1, legs)) = Mirrored(-1, legs)
         /\ Mirrored(-1, Mirrored(-1, legs)) = Mirrored(1, legs)
  <1>1. PICK n \in Nat : n = Len(legs) /\ DOMAIN legs = 1 .. n
    BY DEF Legs
  <1>2. PICK P : P = Mirrored(-1, legs)
    OBVIOUS
  <1>3. P = [i \in 1 .. n |-> <<(-1) * legs[i][1], (-1) * legs[i][2]>>]
    BY <1>1, <1>2 DEF Mirrored
  <1>4. \A i \in 1 .. n : legs[i][1] \in Int /\ legs[i][2] \in Int
    <2>1. TAKE i \in 1 .. n
    <2>2. legs[i] \in Int \X Int
      BY <1>1, ElementOfSeq DEF Legs
    <2>3. QED
      BY <2>2
  <1>5. DOMAIN P = 1 .. n /\ \A i \in 1 .. n : P[i][1] = -legs[i][1] /\ P[i][2] = -legs[i][2]
    BY <1>3, <1>4
  <1>6. Mirrored(1, P) = P
    <2>1. Mirrored(1, P) = [i \in 1 .. n |-> <<1 * P[i][1], 1 * P[i][2]>>]
      BY <1>5 DEF Mirrored
    <2>2. \A i \in 1 .. n : <<1 * P[i][1], 1 * P[i][2]>> = <<(-1) * legs[i][1], (-1) * legs[i][2]>>
      BY <1>4, <1>5
    <2>3. QED
      BY <1>3, <2>1, <2>2
  <1>7. Mirrored(-1, P) = Mirrored(1, legs)
    <2>1. Mirrored(-1, P) = [i \in 1 .. n |-> <<(-1) * P[i][1], (-1) * P[i][2]>>]
      BY <1>5 DEF Mirrored
    <2>2. Mirrored(1, legs) = [i \in 1 .. n |-> <<1 * legs[i][1], 1 * legs[i][2]>>]
      BY <1>1 DEF Mirrored
    <2>3. \A i \in 1 .. n : <<(-1) * P[i][1], (-1) * P[i][2]>> = <<1 * legs[i][1], 1 * legs[i][2]>>
      BY <1>4, <1>5
    <2>4. QED
      BY <2>1, <2>2, <2>3
  <1>8. QED
    BY <1>2, <1>6, <1>7

\* Where an advance by delta goes, field by field.
IsPath(c, delta, P) ==
  /\ P.legs = Mirrored(MirrorOf(c, delta), RouteOf(c, delta))
  /\ P.ends \in BOOLEAN /\ P.turned \in BOOLEAN
  /\ P.ends <=> /\ c.mode = "ONCE" /\ FromOf(c, delta) + Size(delta) >= AheadOf(c, delta)
                /\ ~Still(c, delta)
  /\ P.turned <=> c.mode = "OSCILLATE" /\ Len(RouteOf(c, delta)) % 2 = 0

\* Every path is of that form.
LEMMA PathFields ==
  ASSUME NEW c \in CounterType, NEW amount \in Int, NEW delta, delta = Delta(c, amount)
  PROVE  IsPath(c, delta, Path(c, amount))
  <1>1. PICK legs : legs = Mirrored(MirrorOf(c, delta), RouteOf(c, delta))
    OBVIOUS
  <1>2. PICK ends \in BOOLEAN : ends <=> /\ c.mode = "ONCE" /\ ~Still(c, delta)
                                         /\ FromOf(c, delta) + Size(delta) >= AheadOf(c, delta)
    OBVIOUS
  <1>3. PICK turned \in BOOLEAN : turned <=> c.mode = "OSCILLATE" /\ Len(RouteOf(c, delta)) % 2 = 0
    OBVIOUS
  <1>4. Path(c, amount) = [legs |-> legs, ends |-> ends, turned |-> turned]
    <2>1. Path(c, amount) =
           [legs |-> Mirrored(MirrorOf(c, delta), RouteOf(c, delta)),
            ends |-> /\ c.mode = "ONCE" /\ FromOf(c, delta) + Size(delta) >= AheadOf(c, delta)
                     /\ ~Still(c, delta),
            turned |-> c.mode = "OSCILLATE" /\ Len(RouteOf(c, delta)) % 2 = 0]
      BY PathIs
    <2>2. ends = (/\ c.mode = "ONCE" /\ FromOf(c, delta) + Size(delta) >= AheadOf(c, delta)
                  /\ ~Still(c, delta))
      BY <1>2
    <2>3. turned = (c.mode = "OSCILLATE" /\ Len(RouteOf(c, delta)) % 2 = 0)
      BY <1>3
    <2>4. QED
      BY <1>1, <2>1, <2>2, <2>3, Zenon
  <1>5. PICK P : P = Path(c, amount)
    OBVIOUS
  <1>6. P.legs = legs /\ P.ends = ends /\ P.turned = turned
    BY <1>4, <1>5
  <1>7. QED
    BY <1>1, <1>2, <1>3, <1>5, <1>6, Zenon DEF IsPath

\* The sizes of moves in the same direction add up.
LEMMA SizesAdd ==
  ASSUME NEW p \in Int, NEW z \in Int, Alike(p, z)
  PROVE  /\ Size(p) \in Nat /\ Size(z) \in Nat /\ Size(p + z) = Size(p) + Size(z)
         /\ Size(-z) = Size(z) /\ (Size(p) = 0) = (Size(z) = 0)
         /\ (p >= 0) = (z >= 0) /\ (p >= 0) = (p + z >= 0) /\ (p = 0) = (p + z = 0)
         /\ (p = 0) = (z = 0) /\ (p = 0) = (Size(p) = 0)
         /\ p # 0 => (p > 0 /\ -z < 0) \/ (p < 0 /\ -z > 0)
  BY DEF Alike, Size

\* Where the first advance comes to, in the counts of the frame and of the counter.
LEMMA EndOf ==
  ASSUME NEW s \in {1, -1}, NEW F \in Legs, Len(F) \in Nat \ {0}
  PROVE  LET m == F[Len(F)][2]
             t == Mirrored(s, F)[Len(Mirrored(s, F))][2]
         IN  m \in Int /\ t \in Int /\ s * t = m /\ (s = 1 => t = m) /\ (s = -1 => t = -m)
  <1>1. Len(Mirrored(1, F)) = Len(F) /\ Len(Mirrored(-1, F)) = Len(F)
    <2>1. 1 \in Int /\ -1 \in Int
      OBVIOUS
    <2>2. QED
      BY <2>1, MirroredType
  <1>2. PICK u, m : HasLeg(F, Len(F), u, m)
    <2>1. Len(F) \in 1 .. Len(F)
      OBVIOUS
    <2>2. QED
      BY <2>1, AnyLeg
  <1>3. HasLeg(Mirrored(1, F), Len(F), u, m) /\ HasLeg(Mirrored(-1, F), Len(F), -u, -m)
    BY <1>2, MirroredLeg, Zenon
  <1>4. m \in Int /\ F[Len(F)][2] = m
    BY <1>2 DEF HasLeg
  <1>5. PICK t : t = Mirrored(s, F)[Len(Mirrored(s, F))][2]
    OBVIOUS
  <1>6. CASE s = 1
    <2>1. t = m
      BY <1>1, <1>3, <1>5, <1>6 DEF HasLeg
    <2>2. 1 * m = m
      BY <1>4
    <2>3. QED
      BY <1>4, <1>5, <1>6, <2>1, <2>2
  <1>7. CASE s = -1
    <2>1. t = -m
      BY <1>1, <1>3, <1>5, <1>7 DEF HasLeg
    <2>2. (-1) * t = m /\ t \in Int
      BY <1>4, <2>1
    <2>3. QED
      BY <1>4, <1>5, <1>7, <2>1, <2>2
  <1>8. QED
    BY <1>6, <1>7

\* The paths of two advances, the second of the counter after the first, and
\* the path of the one that is as far.
Follows(c, a, f) ==
  /\ f \in CounterType /\ SameRange(c, f)
  /\ f.forward = (c.forward # Path(c, a).turned)
  /\ f.count = Path(c, a).legs[Len(Path(c, a).legs)][2]

\* The second route in the frame of the first.
Second(c, f, p, z, m, F, turned, w) ==
  /\ c \in CounterType /\ f \in CounterType /\ SameRange(c, f) /\ c.start # c.end
  /\ p \in Int /\ z \in Int /\ Alike(p, z) /\ ~Still(c, p) /\ m \in Int
  /\ MirrorOf(c, p) * f.count = m
  /\ MirrorOf(c, p) = 1 => f.count = m
  /\ MirrorOf(c, p) = -1 => f.count = -m
  /\ turned \in BOOLEAN /\ (turned <=> c.mode = "OSCILLATE" /\ Len(F) % 2 = 0)
  /\ turned => p # 0
  /\ w = (IF turned THEN -z ELSE z)

\* It goes on in that frame, whether the counter turned or not.
LEMMA SecondRoute ==
  \A c, f, p, z, m, F, turned, w : Second(c, f, p, z, m, F, turned, w) =>
    LET S == RouteOn(c.mode, F, m, Size(z), BehindOf(c, p), AheadOf(c, p)) IN
    /\ Mirrored(MirrorOf(f, w), RouteOf(f, w)) = Mirrored(MirrorOf(c, p), S)
    /\ S \in Legs /\ Len(RouteOf(f, w)) = Len(S)
    /\ ~turned => FromOf(f, w) = m /\ AheadOf(f, w) = AheadOf(c, p) /\ Size(w) = Size(z)
    /\ ~Still(f, w)
  <1> SUFFICES
        ASSUME NEW c \in CounterType, NEW f \in CounterType, SameRange(c, f), c.start # c.end,
               NEW p \in Int, NEW z \in Int, Alike(p, z), ~Still(c, p),
               NEW m \in Int, MirrorOf(c, p) * f.count = m,
               MirrorOf(c, p) = 1 => f.count = m, MirrorOf(c, p) = -1 => f.count = -m,
               NEW F, NEW turned \in BOOLEAN, turned <=> c.mode = "OSCILLATE" /\ Len(F) % 2 = 0,
               turned => p # 0, NEW w, w = (IF turned THEN -z ELSE z)
        PROVE  LET S == RouteOn(c.mode, F, m, Size(z), BehindOf(c, p), AheadOf(c, p)) IN
               /\ Mirrored(MirrorOf(f, w), RouteOf(f, w)) = Mirrored(MirrorOf(c, p), S)
               /\ S \in Legs /\ Len(RouteOf(f, w)) = Len(S)
               /\ ~turned => FromOf(f, w) = m /\ AheadOf(f, w) = AheadOf(c, p) /\ Size(w) = Size(z)
               /\ ~Still(f, w)
    BY DEF Second
  <1>1. f.mode = c.mode /\ f.start = c.start /\ f.end = c.end
    BY DEF SameRange
  <1>2. PICK ahead \in Int, behind \in Int : ahead = AheadOf(c, p) /\ behind = BehindOf(c, p)
    BY FrameType
  <1>3. PICK e \in Nat : e = Size(z)
    BY SizesAdd
  <1>4. PICK S : S = RouteOn(c.mode, F, m, e, behind, ahead)
    OBVIOUS
  <1>5. CASE ~turned
    <2>1. w = z
      BY <1>5
    <2>2. (p >= 0) = (z >= 0) /\ (p = 0) = (z = 0)
      BY SizesAdd
    <2>3. /\ MirrorOf(f, z) = MirrorOf(c, p) /\ AheadOf(f, z) = ahead /\ BehindOf(f, z) = behind
          /\ FromOf(f, z) = m
      BY <1>2, <2>2, SameFrame
    <2>4. ~Still(f, z)
      BY <1>1, <2>2 DEF Still
    <2>5. S = Route(c.mode, m, e, behind, ahead)
      BY <1>4, <1>5 DEF RouteOn
    <2>6. RouteOf(f, z) = S
      BY <1>1, <1>3, <2>3, <2>4, <2>5 DEF RouteOf
    <2>7. S \in Legs
      BY <2>6, RouteOfType
    <2>8. QED
      BY <1>2, <1>3, <1>4, <1>5, <2>1, <2>3, <2>4, <2>6, <2>7
  <1>6. CASE turned
    <2>1. w = -z /\ w \in Int
      BY <1>6
    <2>2. /\ (p > 0 /\ w < 0) \/ (p < 0 /\ w > 0)
          /\ Size(w) = e /\ w # 0
      BY <1>3, <1>6, <2>1, SizesAdd
    <2>3. /\ \/ MirrorOf(c, p) = 1 /\ MirrorOf(f, w) = -1 /\ FromOf(f, w) = -f.count
             \/ MirrorOf(c, p) = -1 /\ MirrorOf(f, w) = 1 /\ FromOf(f, w) = f.count
          /\ AheadOf(f, w) = -behind /\ BehindOf(f, w) = -ahead
      BY <1>2, <2>1, <2>2, OppositeFrame
    <2>4. FromOf(f, w) = -m
      BY <2>3
    <2>5. ~Still(f, w)
      BY <2>2 DEF Still
    <2>6. PICK P : P = Route(c.mode, -m, e, -ahead, -behind)
      OBVIOUS
    <2>7. RouteOf(f, w) = P
      BY <1>1, <2>2, <2>3, <2>4, <2>5, <2>6 DEF RouteOf
    <2>8. P \in Legs
      BY <2>1, <2>7, RouteOfType
    <2>9. S = Mirrored(-1, P)
      BY <1>4, <1>6, <2>6 DEF RouteOn
    <2>10. S \in Legs /\ Len(S) = Len(P)
      <3>1. -1 \in Int
        OBVIOUS
      <3>2. QED
        BY <2>8, <2>9, <3>1, MirroredType
    <2>11. Mirrored(1, S) = Mirrored(-1, P) /\ Mirrored(-1, S) = Mirrored(1, P)
      BY <2>8, <2>9, MirroredTwice
    <2>12. Mirrored(MirrorOf(f, w), P) = Mirrored(MirrorOf(c, p), S)
      BY <2>3, <2>11
    <2>13. QED
      BY <1>2, <1>3, <1>4, <1>6, <2>5, <2>7, <2>10, <2>12
  <1>7. QED
    BY <1>5, <1>6

\* The lengths of paths that compose, by parity.
LEMMA ComposedParity ==
  ASSUME NEW F \in Legs, NEW S \in Legs, NEW W \in Legs, Composes(F, S, W)
  PROVE  Len(W) % 2 = 0 <=> ~(Len(F) % 2 = 0 <=> Len(S) % 2 = 0)
  <1>1. PICK i \in Nat, j \in Nat, k \in Nat : i = Len(F) /\ j = Len(S) /\ k = Len(W)
    BY DEF Legs
  <1>2. k + 1 = i + j
    BY <1>1 DEF Composes
  <1>3. /\ (i + j) % 2 = IF j % 2 = 0 THEN i % 2 ELSE 1 - (i % 2)
        /\ i % 2 \in {0, 1} /\ j % 2 \in {0, 1} /\ k % 2 \in {0, 1} /\ (k + 1) % 2 = 1 - (k % 2)
    BY Parity
  <1>4. (i + j) % 2 = 1 - (k % 2)
    BY <1>2, <1>3
  <1>5. k % 2 = 0 <=> ~(i % 2 = 0 <=> j % 2 = 0)
    BY <1>3, <1>4
  <1>6. QED
    BY <1>1, <1>5

\* What two advances in a row and the whole one come to.
PathsAgree(P, Q, R) ==
  /\ Composes(P.legs, Q.legs, R.legs)
  /\ R.ends <=> P.ends \/ Q.ends
  /\ R.turned <=> ~(P.turned <=> Q.turned)

\* They do.
LEMMA PathsCompose ==
  ASSUME NEW c \in CounterType, c.start # c.end, NEW a \in Nat \ {0}, NEW b \in Nat \ {0},
         NEW f, Follows(c, a, f)
  PROVE  PathsAgree(Path(c, a), Path(f, b), Path(c, a + b))
  <1>1. PICK P, Q, R : P = Path(c, a) /\ Q = Path(f, b) /\ R = Path(c, a + b)
    OBVIOUS
  <1>2. /\ f \in CounterType /\ SameRange(c, f) /\ f.multiplier = c.multiplier /\ f.mode = c.mode
        /\ f.forward = (c.forward # P.turned) /\ f.count = P.legs[Len(P.legs)][2]
    BY <1>1 DEF Follows, SameRange
  <1>3. PICK p \in Int, z \in Int : /\ p = Delta(c, a) /\ Delta(c, a + b) = p + z /\ Alike(p, z)
                                    /\ f.forward = c.forward => Delta(f, b) = z
                                    /\ f.forward # c.forward => Delta(f, b) = -z
    BY <1>2, DeltasAlike
  <1>4. IsPath(c, p, P) /\ IsPath(c, p + z, R)
    <2>1. a \in Int /\ a + b \in Int
      OBVIOUS
    <2>2. IsPath(c, p, Path(c, a))
      BY <1>3, <2>1, PathFields
    <2>3. IsPath(c, p + z, Path(c, a + b))
      BY <1>3, <2>1, PathFields
    <2>4. QED
      BY <1>1, <2>2, <2>3
  <1>5. PICK s \in {1, -1} : s = MirrorOf(c, p)
    BY FrameType
  <1>6. PICK ahead \in Int, behind \in Int, x \in Int :
          /\ ahead = AheadOf(c, p) /\ behind = BehindOf(c, p) /\ x = FromOf(c, p) /\ behind < ahead
    BY FrameType
  <1>7. PICK d \in Nat, e \in Nat : /\ d = Size(p) /\ e = Size(z) /\ Size(p + z) = d + e
                                    /\ (d = 0) = (e = 0) /\ (p = 0) = (d = 0)
    BY <1>3, SizesAdd
  <1>8. /\ MirrorOf(c, p + z) = s /\ AheadOf(c, p + z) = ahead
        /\ BehindOf(c, p + z) = behind /\ FromOf(c, p + z) = x
    <2>1. (p >= 0) = (p + z >= 0) /\ p + z \in Int
      BY <1>3, SizesAdd
    <2>2. SameRange(c, c)
      BY DEF SameRange
    <2>3. c.count = MirrorOf(c, p) * x
      BY <1>6, FrameType
    <2>4. FromOf(c, p) = MirrorOf(c, p) * c.count
      BY DEF FromOf
    <2>5. QED
      BY <1>5, <1>6, <2>1, <2>2, <2>4, SameFrame
  <1>9. PICK F \in Legs, W \in Legs : /\ F = RouteOf(c, p) /\ W = RouteOf(c, p + z) /\ Len(F) \in Nat \ {0}
    <2>1. p + z \in Int
      OBVIOUS
    <2>2. QED
      BY <2>1, RouteOfType
  <1>10. PICK m \in Int : /\ m = F[Len(F)][2] /\ s * f.count = m
                          /\ s = 1 => f.count = m
                          /\ s = -1 => f.count = -m
    <2>1. P.legs = Mirrored(s, F)
      BY <1>4, <1>5, <1>9 DEF IsPath
    <2>2. f.count = Mirrored(s, F)[Len(Mirrored(s, F))][2]
      BY <1>2, <2>1
    <2>3. PICK t : t = f.count
      OBVIOUS
    <2>4. PICK n : n = F[Len(F)][2]
      OBVIOUS
    <2>5. n \in Int /\ t \in Int /\ s * t = n /\ (s = 1 => t = n) /\ (s = -1 => t = -n)
      BY <1>9, <2>2, <2>3, <2>4, EndOf
    <2>6. (s = -1 => t = -n)
      BY <2>5
    <2>7. QED
      BY <2>3, <2>4, <2>5, <2>6
  <1>11. CASE Still(c, p)
    <2>1. p = 0 /\ z = 0 /\ p + z = 0 /\ c.end < c.start
      BY <1>3, <1>11 DEF Still, Alike
    <2>2. F = <<<<x, x>>>> /\ W = F
      BY <1>6, <1>9, <1>11, <2>1 DEF RouteOf
    <2>3. IsLeg(F, x, x)
      BY <2>2 DEF IsLeg
    <2>4. Len(F) = 1 /\ F[1] = <<x, x>> /\ m = x
      BY <1>10, <2>3, LegIs
    <2>5. Delta(f, b) = 0
      BY <1>3, <2>1
    <2>6. /\ MirrorOf(f, 0) = s /\ FromOf(f, 0) = m
      <3>1. (p >= 0) = (z >= 0)
        BY <2>1
      <3>4. MirrorOf(f, z) = MirrorOf(c, p) /\ FromOf(f, z) = MirrorOf(c, p) * f.count
        BY <1>2, <3>1, SameFrame
      <3>2. MirrorOf(f, 0) = MirrorOf(c, p) /\ FromOf(f, 0) = MirrorOf(c, p) * f.count
        BY <2>1, <3>4
      <3>3. QED
        BY <1>5, <1>10, <3>2
    <2>7. Still(f, 0)
      BY <1>2, <2>1 DEF Still, SameRange
    <2>8. PICK S : S = RouteOf(f, 0) /\ S = <<<<m, m>>>>
      BY <2>6, <2>7 DEF RouteOf
    <2>9. IsLeg(S, m, m)
      BY <2>8 DEF IsLeg
    <2>10. S \in Legs /\ Len(S) = 1 /\ S[1] = <<m, m>>
      BY <2>9, LegIs
    <2>11. Composes(F, S, F)
      <3>1. Len(F) >= 1 /\ F[Len(F)] = <<x, m>>
        BY <2>4
      <3>2. QED
        BY <2>10, <3>1, NothingComposes
    <2>12. IsPath(f, 0, Q)
      <3>1. b \in Int
        OBVIOUS
      <3>2. IsPath(f, 0, Path(f, b))
        BY <1>2, <2>5, <3>1, PathFields
      <3>3. QED
        BY <1>1, <3>2
    <2>13. /\ P.legs = Mirrored(s, F) /\ Q.legs = Mirrored(s, S) /\ R.legs = Mirrored(s, F)
           /\ ~P.ends /\ ~Q.ends /\ ~R.ends
      BY <1>4, <1>5, <1>8, <1>9, <1>11, <2>1, <2>2, <2>6, <2>7, <2>8, <2>12 DEF IsPath
    <2>14. ~P.turned /\ ~Q.turned /\ ~R.turned
      <3>1. 1 % 2 # 0
        OBVIOUS
      <3>2. QED
        BY <1>4, <1>9, <2>2, <2>4, <2>8, <2>10, <2>12, <3>1 DEF IsPath
    <2>15. Composes(Mirrored(s, F), Mirrored(s, S), Mirrored(s, F))
      BY <2>10, <2>11, MirrorComposes
    <2>16. QED
      BY <1>1, <2>13, <2>14, <2>15 DEF PathsAgree
  <1>12. CASE ~Still(c, p)
    <2>1. ~Still(c, p + z)
      <3>1. (p = 0) = (p + z = 0)
        BY <1>3, SizesAdd
      <3>2. QED
        BY <1>12, <3>1 DEF Still
    <2>2. F = Route(c.mode, x, d, behind, ahead) /\ W = Route(c.mode, x, d + e, behind, ahead)
      BY <1>6, <1>7, <1>8, <1>9, <1>12, <2>1 DEF RouteOf
    <2>3. PICK S : S = RouteOn(c.mode, F, m, e, behind, ahead)
      OBVIOUS
    <2>4. c.mode \in Modes
      BY DEF CounterType
    <2>5. /\ Composes(F, S, W)
          /\ c.mode = "ONCE" => (x + (d + e) >= ahead) = (x + d >= ahead \/ m + e >= ahead)
      <3>1. TwoRoutes(c.mode, x, d, e, behind, ahead, F, m, S, W)
        BY <1>6, <1>7, <1>10, <2>2, <2>3, <2>4 DEF TwoRoutes
      <3>2. QED
        BY <3>1, RoutesCompose, Zenon
    <2>6. PICK turned \in BOOLEAN : turned = P.turned /\ (turned <=> c.mode = "OSCILLATE" /\ Len(F) % 2 = 0)
      BY <1>4, <1>9 DEF IsPath
    <2>7. turned => p # 0
      <3>1. SUFFICES ASSUME c.mode = "OSCILLATE", p = 0 PROVE Len(F) % 2 # 0
        BY <2>6
      <3>2. d = 0
        BY <1>7, <3>1
      <3>3. F = <<<<x, x + 0>>>>
        BY <2>2, <3>1, <3>2 DEF Route, BouncePath
      <3>4. IsLeg(F, x, x + 0)
        BY <3>3 DEF IsLeg
      <3>5. Len(F) = 1 /\ 1 % 2 # 0
        BY <3>4, LegIs
      <3>6. QED
        BY <3>5
    <2>8. PICK w \in Int : w = IF turned THEN -z ELSE z
      OBVIOUS
    <2>9. Delta(f, b) = w
      <3>1. f.forward \in BOOLEAN /\ c.forward \in BOOLEAN
        BY <1>2 DEF CounterType
      <3>2. f.forward = (c.forward # turned)
        BY <1>2, <2>6
      <3>3. (f.forward = c.forward) <=> ~turned
        BY <3>1, <3>2
      <3>4. QED
        BY <1>3, <2>8, <3>3
    <2>10. /\ Mirrored(MirrorOf(f, w), RouteOf(f, w)) = Mirrored(s, S)
           /\ S \in Legs /\ Len(RouteOf(f, w)) = Len(S) /\ ~Still(f, w)
           /\ ~turned => FromOf(f, w) = m /\ AheadOf(f, w) = ahead /\ Size(w) = e
      <3>1. /\ MirrorOf(c, p) * f.count = m
            /\ MirrorOf(c, p) = 1 => f.count = m
            /\ MirrorOf(c, p) = -1 => f.count = -m
        BY <1>5, <1>10
      <3>2. S = RouteOn(c.mode, F, m, Size(z), BehindOf(c, p), AheadOf(c, p))
        BY <1>6, <1>7, <2>3
      <3>3. Second(c, f, p, z, m, F, turned, w)
        BY <1>2, <1>3, <1>12, <2>6, <2>7, <2>8, <3>1 DEF Second
      <3>4. PICK k : k = Size(z)
        OBVIOUS
      <3>5. /\ Mirrored(MirrorOf(f, w), RouteOf(f, w)) = Mirrored(MirrorOf(c, p), S)
            /\ S \in Legs /\ Len(RouteOf(f, w)) = Len(S)
            /\ ~turned => FromOf(f, w) = m /\ AheadOf(f, w) = AheadOf(c, p) /\ Size(w) = Size(z)
            /\ ~Still(f, w)
        <4>1. LET T == RouteOn(c.mode, F, m, Size(z), BehindOf(c, p), AheadOf(c, p)) IN
              /\ Mirrored(MirrorOf(f, w), RouteOf(f, w)) = Mirrored(MirrorOf(c, p), T)
              /\ T \in Legs /\ Len(RouteOf(f, w)) = Len(T)
              /\ ~turned => FromOf(f, w) = m /\ AheadOf(f, w) = AheadOf(c, p) /\ Size(w) = Size(z)
              /\ ~Still(f, w)
          BY <3>3, SecondRoute
        <4>2. QED
          BY <3>2, <4>1
      <3>6. QED
        BY <1>5, <1>6, <1>7, <3>5
    <2>11. IsPath(f, w, Q)
      <3>1. b \in Int
        OBVIOUS
      <3>2. IsPath(f, w, Path(f, b))
        BY <1>2, <2>9, <3>1, PathFields
      <3>3. QED
        BY <1>1, <3>2
    <2>12. P.legs = Mirrored(s, F) /\ Q.legs = Mirrored(s, S) /\ R.legs = Mirrored(s, W)
      BY <1>4, <1>5, <1>8, <1>9, <2>10, <2>11 DEF IsPath
    <2>13. Composes(Mirrored(s, F), Mirrored(s, S), Mirrored(s, W))
      BY <1>9, <2>5, <2>10, MirrorComposes
    <2>14. R.ends <=> P.ends \/ Q.ends
      <3>1. CASE c.mode # "ONCE"
        BY <1>2, <1>4, <2>11, <3>1 DEF IsPath
      <3>2. CASE c.mode = "ONCE"
        <4>1. ~turned
          BY <2>6, <3>2
        <4>2. P.ends <=> x + d >= ahead
          BY <1>4, <1>6, <1>7, <1>12, <3>2 DEF IsPath
        <4>3. R.ends <=> x + (d + e) >= ahead
          BY <1>4, <1>7, <1>8, <2>1, <3>2 DEF IsPath
        <4>4. Q.ends <=> m + e >= ahead
          BY <1>2, <2>10, <2>11, <3>2, <4>1 DEF IsPath
        <4>5. QED
          BY <2>5, <3>2, <4>2, <4>3, <4>4
      <3>3. QED
        BY <3>1, <3>2
    <2>15. R.turned <=> ~(P.turned <=> Q.turned)
      <3>1. P.turned <=> c.mode = "OSCILLATE" /\ Len(F) % 2 = 0
        BY <1>4, <1>9 DEF IsPath
      <3>2. R.turned <=> c.mode = "OSCILLATE" /\ Len(W) % 2 = 0
        BY <1>4, <1>9 DEF IsPath
      <3>3. Q.turned <=> c.mode = "OSCILLATE" /\ Len(S) % 2 = 0
        BY <1>2, <2>10, <2>11 DEF IsPath
      <3>4. Len(W) % 2 = 0 <=> ~(Len(F) % 2 = 0 <=> Len(S) % 2 = 0)
        BY <1>9, <2>5, <2>10, ComposedParity
      <3>5. QED
        BY <3>1, <3>2, <3>3, <3>4, Zenon
    <2>16. QED
      BY <1>1, <2>12, <2>13, <2>14, <2>15, Zenon DEF PathsAgree
  <1>13. QED
    BY <1>11, <1>12

\* Paths that compose end at the same count, where the first ends the second begins.
LEMMA ComposedEnds ==
  ASSUME NEW F \in Legs, NEW S \in Legs, NEW W \in Legs, Composes(F, S, W)
  PROVE  S[Len(S)][2] = W[Len(W)][2]
  <1>1. PICK j \in Nat, n \in Nat : j = Len(F) /\ n = Len(S) /\ j >= 1 /\ n >= 1 /\ Len(W) = j + n - 1
    BY DEF Legs, Composes
  <1>2. CASE n = 1
    <2>1. PICK x \in Int, m \in Int, y \in Int : S[1] = <<m, y>> /\ W[j] = <<x, y>>
      BY <1>1 DEF Composes
    <2>2. Len(W) = j
      BY <1>1, <1>2
    <2>3. S[Len(S)] = <<m, y>> /\ W[Len(W)] = <<x, y>>
      BY <1>1, <1>2, <2>1, <2>2
    <2>4. QED
      BY <2>3
  <1>3. CASE n # 1
    <2>1. n \in 2 .. n
      BY <1>1, <1>3
    <2>2. W[j + n - 1] = S[n]
      BY <1>1, <2>1 DEF Composes
    <2>3. QED
      BY <1>1, <2>2
  <1>4. QED
    BY <1>2, <1>3

\* Two advances in a row show and call what the whole one does.
RateFree(c, a, b) ==
  LET whole  == Advance(c, a + b)
      first  == Advance(c, a)
      second == Advance(first.counter, b)
      Shown(k) == <<k.count, k.forward, k.running>>
  IN  /\ Shown(second.counter) = Shown(whole.counter)
      /\ InARow(first, second) = whole.called

\* They do.
LEMMA SameRate ==
  ASSUME NEW c, Fine(c), ~c.bound, c.start # c.end, NEW a \in Nat \ {0}, NEW b \in Nat \ {0}
  PROVE  RateFree(c, a, b)
  <1> DEFINE whole  == Advance(c, a + b)
             first  == Advance(c, a)
             second == Advance(first.counter, b)
  <1> HIDE DEF whole, first, second
  <1>1. a \in Int /\ b \in Int /\ a + b \in Int
    OBVIOUS
  <1>2. PICK P, nf, r, f : IsAdvance(c, a, P, nf, r, f)
    BY <1>1, Advanced
  <1>3. Fine(f)
    BY <1>2 DEF IsAdvance
  <1>4. PICK Q, ns, s, g : IsAdvance(f, b, Q, ns, s, g)
    BY <1>1, <1>3, Advanced
  <1>5. PICK R, nw, w, k : IsAdvance(c, a + b, R, nw, w, k)
    BY <1>1, Advanced
  <1>6. first.counter = f /\ second.counter = g /\ whole.counter = k
    <2>1. first.counter = f
      BY <1>2 DEF IsAdvance, first
    <2>2. QED
      BY <1>4, <1>5, <2>1 DEF IsAdvance, second, whole
  <1>7. first.called = r.called /\ second.called = s.called /\ whole.called = w.called
    <2>1. second = Advance(f, b)
      BY <1>6 DEF second
    <2>2. QED
      BY <1>2, <1>4, <1>5, <2>1 DEF IsAdvance, first, whole
  <1>8. P = Path(c, a) /\ Q = Path(f, b) /\ R = Path(c, a + b)
    <2>1. ~f.bound
      BY <1>2 DEF IsAdvance
    <2>2. QED
      BY <1>2, <1>4, <1>5, <2>1 DEF IsAdvance, PathOf
  <1>9. c \in CounterType /\ f \in CounterType
    BY <1>3 DEF Fine
  <1>10. Follows(c, a, f)
    BY <1>2, <1>8, <1>9 DEF IsAdvance, Follows, SameRange
  <1>11. PathsAgree(P, Q, R)
    BY <1>8, <1>9, <1>10, PathsCompose
  <1>12. /\ P.legs \in Legs /\ Q.legs \in Legs /\ R.legs \in Legs /\ Composes(P.legs, Q.legs, R.legs)
         /\ nf = Len(P.legs) /\ ns = Len(Q.legs) /\ nw = Len(R.legs)
    BY <1>2, <1>4, <1>5, <1>11 DEF IsAdvance, PathsAgree
  <1>13. g.count = k.count
    <2>1. g.count = Q.legs[ns][2] /\ k.count = R.legs[nw][2]
      BY <1>4, <1>5 DEF IsAdvance
    <2>2. QED
      BY <1>12, <2>1, ComposedEnds
  <1>14. /\ c.forward \in BOOLEAN /\ c.running \in BOOLEAN
         /\ P.ends \in BOOLEAN /\ P.turned \in BOOLEAN /\ Q.ends \in BOOLEAN /\ Q.turned \in BOOLEAN
         /\ R.ends \in BOOLEAN /\ R.turned \in BOOLEAN
    <2>1. c.forward \in BOOLEAN /\ c.running \in BOOLEAN
      BY <1>9 DEF CounterType
    <2>2. PathOf(c, a) = P /\ PathOf(f, b) = Q /\ PathOf(c, a + b) = R
      BY <1>2, <1>4, <1>5 DEF IsAdvance
    <2>3. P.ends \in BOOLEAN /\ P.turned \in BOOLEAN
      BY <1>1, <1>9, <2>2, PathOfType
    <2>4. Q.ends \in BOOLEAN /\ Q.turned \in BOOLEAN
      BY <1>1, <1>9, <2>2, PathOfType
    <2>5. R.ends \in BOOLEAN /\ R.turned \in BOOLEAN
      BY <1>1, <1>9, <2>2, PathOfType
    <2>6. QED
      BY <2>1, <2>3, <2>4, <2>5
  <1>15. g.forward = k.forward
    <2>1. /\ f.forward = (c.forward # P.turned) /\ g.forward = (f.forward # Q.turned)
          /\ k.forward = (c.forward # R.turned)
      BY <1>2, <1>4, <1>5 DEF IsAdvance
    <2>2. R.turned <=> ~(P.turned <=> Q.turned)
      BY <1>11 DEF PathsAgree
    <2>3. QED
      BY <1>14, <2>1, <2>2
  <1>16. g.running = k.running
    <2>1. /\ f.running = (c.running /\ ~P.ends) /\ g.running = (f.running /\ ~Q.ends)
          /\ k.running = (c.running /\ ~R.ends)
      BY <1>2, <1>4, <1>5 DEF IsAdvance
    <2>2. R.ends <=> P.ends \/ Q.ends
      BY <1>11 DEF PathsAgree
    <2>3. QED
      BY <1>14, <2>1, <2>2
  <1>17. PICK m : m = P.legs[Len(P.legs)][2] /\ f.count = m
    BY <1>2 DEF IsAdvance
  <1>18. CalledInARow(r, s, w, m)
    <2>1. f.callbacks = c.callbacks /\ r = Along(c, P.legs)[Len(P.legs)]
      BY <1>2 DEF IsAdvance
    <2>2. SameAs(r, Start(f))
      BY <1>2 DEF IsAdvance, SameAs, Start
    <2>3. s = Along(f, Q.legs)[Len(Q.legs)] /\ w = Along(c, R.legs)[Len(R.legs)]
      BY <1>4, <1>5 DEF IsAdvance
    <2>4. QED
      BY <1>3, <1>12, <1>17, <2>1, <2>2, <2>3, CallsCompose
  <1>19. InARow(first, second) = whole.called
    <2>1. f.prev = r.prev /\ f.lastEnd = r.lastEnd
      BY <1>2 DEF IsAdvance
    <2>2. InARow(first, second) =
            IF /\ f.prev = -1 /\ f.lastEnd = m /\ r.called # <<>> /\ s.called # <<>>
               /\ Last(r.called) = Lowest(m) /\ Head(s.called) = Lowest(m)
              THEN r.called \o Tail(s.called) ELSE r.called \o s.called
      BY <1>6, <1>7, <1>17, Zenon DEF InARow, Lowest
    <2>3. QED
      BY <1>7, <1>18, <2>1, <2>2, Zenon DEF CalledInARow
  <1>20. QED
    BY <1>6, <1>13, <1>15, <1>16, <1>19, Zenon DEF RateFree, whole, first, second

-----------------------------------------------------------------------------
(* What follows                                                             *)

\* Every variable has its type, and a remembered place is one of the list of
\* callbacks (counter.js:630 and 651 index the list with it).
THEOREM TypeCorrect == Spec => []TypeOK
  <1>1. Inv => TypeOK
    BY DEF Inv
  <1>2. QED
    BY <1>1, Invariance, PTL

\* Whatever the client does, what a counter remembers of its last advance is
\* the place past which that has called every callback (counter.js:630, 651).
THEOREM Remembered == Spec => []RememberedPlaces
  <1>1. Inv => RememberedPlaces
    BY DEF Inv
  <1>2. QED
    BY <1>1, Invariance, PTL

\* A pass advances no counter twice and leaves none out that runs throughout,
\* whatever callbacks do in between (counter.js:57-71).
THEOREM EachOnce == Spec => []AdvancedOnce
  <1>1. ASSUME Inv PROVE AdvancedOnce
    <2>1. PassInv /\ OtherTypes
      BY <1>1, Parts
    <2>2. ASSUME NEW c \in Counters, PassOver, c \in throughout PROVE advanced[c] = 1
      <3>1. PICK copy \in Seq(Counters), n \in Nat : pass.copy = copy /\ pass.next = n
        BY <2>1 DEF OtherTypes
      <3>2. Len(copy) \in Nat /\ n = Len(copy) + 1
        BY <2>1, <2>2, <3>1 DEF PassInv, PassOver
      <3>3. Passed = ToSet(copy)
        <4>1. n - 1 = Len(copy) /\ DOMAIN copy = 1 .. Len(copy)
          BY <3>2
        <4>2. QED
          BY <3>1, <4>1 DEF Passed, List, ToSet
      <3>4. QED
        BY <2>1, <2>2, <3>1, <3>3 DEF PassInv
    <2>3. QED
      BY <2>1, <2>2 DEF AdvancedOnce, PassInv
  <1>2. QED
    BY <1>1, Invariance, PTL

\* One advance comes to the same count, direction and running state, and makes
\* the same calls, as two that are as far together, in every mode, for either
\* order of the range and either direction (the loops of counter.js:381-610).
THEOREM Rate == Spec => []RateIndependent
  <1>1. ASSUME Inv PROVE RateIndependent
    <2>1. SUFFICES ASSUME NEW c \in Counters, NEW a \in 1 .. MaxAmount, NEW b \in 1 .. MaxAmount,
                          ~counter[c].bound, counter[c].start # counter[c].end
                   PROVE  RateFree(counter[c], a, b)
      BY Zenon DEF RateIndependent, RateFree
    <2>2. Fine(counter[c])
      BY <1>1, Parts DEF CounterInv
    <2>3. a \in Nat \ {0} /\ b \in Nat \ {0}
      BY CounterAssumption
    <2>4. QED
      BY <2>1, <2>2, <2>3, SameRate
  <1>2. QED
    BY <1>1, Invariance, PTL

=============================================================================
