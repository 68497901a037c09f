------------------------------ MODULE IngestProofs ------------------------------
(* Proofs about Ingest, for any records, customers, shards, hash, timestamps    *)
(* and bounds.                                                                  *)
EXTENDS Ingest, Enumeration, LeastElement, FunctionTheorems, SequenceTheorems

-----------------------------------------------------------------------------
(* Enumeration.                                                             *)

\* R is a strict total order on K.
Orders(R, K) ==
    /\ \A i \in K : <<i, i>> \notin R
    /\ \A i, j, k \in K : <<i, j>> \in R /\ <<j, k>> \in R => <<i, k>> \in R
    /\ \A i, j \in K : i = j \/ <<i, j>> \in R \/ <<j, i>> \in R

\* The elements of K that come before i.
Behind(i, K, R) == {j \in K : <<j, i>> \in R}

\* The ranks of a finite set's elements are those of a list of as many.
LEMMA Ranks ==
    ASSUME NEW K, NEW R, IsFiniteSet(K), Orders(R, K)
    PROVE  /\ Cardinality(K) \in Nat
           /\ \A i \in K : Cardinality(Behind(i, K, R)) \in 0 .. Cardinality(K) - 1
           /\ \A i, j \in K : <<i, j>> \in R =>
                  Cardinality(Behind(i, K, R)) < Cardinality(Behind(j, K, R))
           /\ \A n \in 0 .. Cardinality(K) - 1 : \E i \in K : Cardinality(Behind(i, K, R)) = n
<1> DEFINE rank(i) == Cardinality(Behind(i, K, R))
<1>1. Cardinality(K) \in Nat
  BY FS_CardinalityType
<1>2. ASSUME NEW i \in K
      PROVE  rank(i) \in 0 .. Cardinality(K) - 1
  <2>1. Behind(i, K, R) \in SUBSET K /\ Behind(i, K, R) # K
    BY DEF Behind, Orders
  <2>2. /\ IsFiniteSet(Behind(i, K, R))
        /\ rank(i) <= Cardinality(K)
        /\ Cardinality(K) = rank(i) => K = Behind(i, K, R)
    BY <2>1, FS_Subset
  <2>3. rank(i) \in Nat
    BY <2>2, FS_CardinalityType
  <2> QED
    BY <1>1, <2>1, <2>2, <2>3
<1>3. ASSUME NEW i \in K, NEW j \in K, <<i, j>> \in R
      PROVE  rank(i) < rank(j)
  <2>1. Behind(i, K, R) \in SUBSET Behind(j, K, R)
    BY <1>3 DEF Behind, Orders
  <2>2. Behind(i, K, R) # Behind(j, K, R)
    BY <1>3 DEF Behind, Orders
  <2>3. IsFiniteSet(Behind(j, K, R))
    <3>1. Behind(j, K, R) \in SUBSET K
      BY DEF Behind
    <3> QED
      BY <3>1, FS_Subset
  <2>4. /\ rank(i) <= rank(j)
        /\ rank(j) = rank(i) => Behind(j, K, R) = Behind(i, K, R)
    BY <2>1, <2>3, FS_Subset
  <2> HIDE DEF rank
  <2> QED
    BY <1>2, <2>2, <2>4
<1>4. ASSUME NEW n \in 0 .. Cardinality(K) - 1
      PROVE  \E i \in K : rank(i) = n
  <2> DEFINE T == 0 .. Cardinality(K) - 1
             f == [i \in K |-> rank(i)]
  <2>1. f \in [K -> T]
    BY <1>2
  <2>2. \A i, j \in K : f[i] = f[j] => i = j
    <3>1. ASSUME NEW i \in K, NEW j \in K, rank(i) = rank(j)
          PROVE  i = j
      <4>1. rank(i) \in Int /\ ~ (rank(i) < rank(j)) /\ ~ (rank(j) < rank(i))
        BY <1>2, <3>1
      <4>2. ~ (<<i, j>> \in R) /\ ~ (<<j, i>> \in R)
        BY <1>3, <4>1
      <4> QED
        BY <4>2 DEF Orders
    <3> HIDE DEF rank
    <3> QED
      BY <3>1
  <2>3. f \in Injection(K, T)
    BY <2>1, <2>2, Fun_IsInj
  <2>4. IsFiniteSet(T) /\ Cardinality(T) = Cardinality(K)
    <3>1. 0 \in Int /\ Cardinality(K) - 1 \in Int
      BY <1>1
    <3>2. IsFiniteSet(T)
          /\ Cardinality(T) = IF 0 > Cardinality(K) - 1 THEN 0 ELSE Cardinality(K) - 1 - 0 + 1
      BY <3>1, FS_Interval
    <3> QED
      BY <1>1, <3>2
  <2>5. f \in Surjection(K, T)
    <3> HIDE DEF f, T
    <3> QED
      BY <2>3, <2>4, FS_Injection
  <2>6. \E i \in K : f[i] = n
    <3>1. n \in T
      OBVIOUS
    <3> HIDE DEF f, T
    <3> QED
      BY <2>5, <3>1 DEF Surjection
  <2> QED
    BY <2>6
<1> QED
  BY <1>1, <1>2, <1>3, <1>4

\* An enumeration of a finite set lists every element once, in order.
LEMMA Enumerates ==
    ASSUME NEW K, NEW R, IsFiniteSet(K), Orders(R, K)
    PROVE  /\ Cardinality(K) \in Nat
           /\ Enumerate(K, R) \in [1 .. Cardinality(K) -> K]
           /\ \A k, l \in 1 .. Cardinality(K) :
                  k < l => <<Enumerate(K, R)[k], Enumerate(K, R)[l]>> \in R
           /\ \A i \in K : \E k \in 1 .. Cardinality(K) : Enumerate(K, R)[k] = i
<1> DEFINE N == Cardinality(K)
           E == Enumerate(K, R)
<1>1. /\ N \in Nat
      /\ \A i \in K : Cardinality(Behind(i, K, R)) \in 0 .. N - 1
      /\ \A i, j \in K : <<i, j>> \in R =>
             Cardinality(Behind(i, K, R)) < Cardinality(Behind(j, K, R))
      /\ \A n \in 0 .. N - 1 : \E i \in K : Cardinality(Behind(i, K, R)) = n
  BY Ranks
<1>2. E = [k \in 1 .. N |-> CHOOSE i \in K : Cardinality(Behind(i, K, R)) = k - 1]
  BY DEF Enumerate, Behind
<1>3. \A k \in 1 .. N : E[k] \in K /\ Cardinality(Behind(E[k], K, R)) = k - 1
  <2> SUFFICES ASSUME NEW k \in 1 .. N
               PROVE  E[k] \in K /\ Cardinality(Behind(E[k], K, R)) = k - 1
    OBVIOUS
  <2>1. k - 1 \in 0 .. N - 1
    BY <1>1
  <2>2. \E i \in K : Cardinality(Behind(i, K, R)) = k - 1
    BY <1>1, <2>1
  <2>3. E[k] = CHOOSE i \in K : Cardinality(Behind(i, K, R)) = k - 1
    BY <1>2, Zenon
  <2> QED
    BY <2>2, <2>3
<1>4. ASSUME NEW i \in K, NEW j \in K,
             Cardinality(Behind(i, K, R)) = Cardinality(Behind(j, K, R))
      PROVE  i = j
  <2>1. /\ Cardinality(Behind(i, K, R)) \in Int
        /\ ~ (Cardinality(Behind(i, K, R)) < Cardinality(Behind(j, K, R)))
        /\ ~ (Cardinality(Behind(j, K, R)) < Cardinality(Behind(i, K, R)))
    BY <1>1, <1>4
  <2>2. ~ (<<i, j>> \in R) /\ ~ (<<j, i>> \in R)
    BY <1>1, <2>1
  <2> QED
    BY <2>2 DEF Orders
<1>5. E \in [1 .. N -> K]
  BY <1>2, <1>3
<1>6. ASSUME NEW k \in 1 .. N, NEW l \in 1 .. N, k < l
      PROVE  <<E[k], E[l]>> \in R
  <2>1. E[k] # E[l] /\ ~ (<<E[l], E[k]>> \in R)
    <3> HIDE DEF E
    <3> QED
      BY <1>1, <1>3, <1>6
  <2> QED
    BY <1>3, <2>1 DEF Orders
<1>7. ASSUME NEW i \in K
      PROVE  \E k \in 1 .. N : E[k] = i
  <2> DEFINE k == Cardinality(Behind(i, K, R)) + 1
  <2>1. k \in 1 .. N /\ k - 1 = Cardinality(Behind(i, K, R))
    BY <1>1
  <2>2. Cardinality(Behind(E[k], K, R)) = Cardinality(Behind(i, K, R))
    BY <2>1, <1>3
  <2> QED
    BY <1>3, <1>4, <2>1, <2>2
<1> QED
  BY <1>1, <1>5, <1>6, <1>7

\* A set of indices of a sequence is finite, and ordered by <.
LEMMA Indices ==
    ASSUME NEW A, NEW s \in Seq(A), NEW K \in SUBSET DOMAIN s
    PROVE  /\ IsFiniteSet(K) /\ Cardinality(K) \in Nat /\ Cardinality(K) <= Len(s)
           /\ Orders(Ascending(K), K)
<1>1. DOMAIN s = 1 .. Len(s) /\ Len(s) \in Nat
  OBVIOUS
<1>2. IsFiniteSet(DOMAIN s) /\ Cardinality(DOMAIN s) = Len(s)
  <2>1. /\ IsFiniteSet(1 .. Len(s))
        /\ Cardinality(1 .. Len(s)) = IF 1 > Len(s) THEN 0 ELSE Len(s) - 1 + 1
    BY <1>1, FS_Interval
  <2> QED
    BY <1>1, <2>1
<1>3. IsFiniteSet(K) /\ Cardinality(K) <= Len(s) /\ Cardinality(K) \in Nat
  BY <1>2, FS_Subset, FS_CardinalityType
<1>4. \A i \in K : i \in Nat
  BY <1>1
<1>5. \A i, j \in K : <<i, j>> \in Ascending(K) <=> i < j
  BY DEF Ascending
<1>6. Orders(Ascending(K), K)
  BY <1>4, <1>5 DEF Orders
<1> QED
  BY <1>3, <1>6

\* The elements picked at the indices in K are as many as K has, in the order's order.
LEMMA Picks ==
    ASSUME NEW A, NEW s \in Seq(A), NEW K \in SUBSET DOMAIN s, NEW R, Orders(R, K)
    PROVE  /\ Enumerate(K, R) \in [1 .. Cardinality(K) -> K]
           /\ \A k, l \in 1 .. Cardinality(K) :
                  k < l => <<Enumerate(K, R)[k], Enumerate(K, R)[l]>> \in R
           /\ \A i \in K : \E k \in 1 .. Cardinality(K) : Enumerate(K, R)[k] = i
           /\ Pick(s, K, R) \in Seq(A)
           /\ Len(Pick(s, K, R)) = Cardinality(K)
           /\ \A k \in 1 .. Cardinality(K) : Pick(s, K, R)[k] = s[Enumerate(K, R)[k]]
<1> DEFINE N == Cardinality(K)
           E == Enumerate(K, R)
<1>1. /\ N \in Nat
      /\ E \in [1 .. N -> K]
      /\ \A k, l \in 1 .. N : k < l => <<E[k], E[l]>> \in R
      /\ \A i \in K : \E k \in 1 .. N : E[k] = i
  <2>1. IsFiniteSet(K)
    BY Indices
  <2> QED
    BY <2>1, Enumerates
<1>2. Pick(s, K, R) = [k \in 1 .. N |-> s[E[k]]]
  <2>1. DOMAIN E = 1 .. N
    BY <1>1
  <2>2. Pick(s, K, R) = [k \in DOMAIN E |-> s[E[k]]]
    BY DEF Pick
  <2> QED
    BY <2>1, <2>2
<1>3. \A k \in 1 .. N : s[E[k]] \in A
  BY <1>1
<1> HIDE DEF N, E
<1>4. Pick(s, K, R) \in Seq(A) /\ Len(Pick(s, K, R)) = N
  BY <1>1, <1>2, <1>3, IsASeq
<1>5. \A k \in 1 .. N : Pick(s, K, R)[k] = s[E[k]]
  BY <1>2
<1> QED
  BY <1>1, <1>4, <1>5 DEF N, E

\* What a list comprehension with a condition keeps of a list.
LEMMA OnlyKeeps ==
    ASSUME NEW A, NEW s \in Seq(A), NEW S
    PROVE  /\ Only(s, S) \in Seq(A)
           /\ Len(Only(s, S)) <= Len(s)
           /\ ToSet(Only(s, S)) = ToSet(s) \cap S
<1> DEFINE K == {i \in DOMAIN s : s[i] \in S}
           R == Ascending(K)
           E == Enumerate(K, R)
           N == Cardinality(K)
           p == Pick(s, K, R)
<1>1. K \in SUBSET DOMAIN s
  OBVIOUS
<1>2. N \in Nat /\ N <= Len(s) /\ Orders(R, K)
  <2> HIDE DEF K
  <2> QED
    BY <1>1, Indices
<1>3. /\ E \in [1 .. N -> K]
      /\ \A i \in K : \E k \in 1 .. N : E[k] = i
      /\ p \in Seq(A) /\ Len(p) = N
      /\ \A k \in 1 .. N : p[k] = s[E[k]]
  <2> HIDE DEF K, R
  <2> QED
    BY <1>1, <1>2, Picks
<1>4. Only(s, S) = p
  BY DEF Only
<1>5. ToSet(p) = ToSet(s) \cap S
  <2>1. ToSet(p) = {p[k] : k \in 1 .. N}
    <3> HIDE DEF p, N
    <3> QED
      BY <1>3 DEF ToSet
  <2>2. \A x : x \in ToSet(s) \cap S <=> \E i \in K : x = s[i]
    BY DEF ToSet
  <2>3. \A x : x \in ToSet(p) <=> \E i \in K : x = s[i]
    <3> HIDE DEF p, N, E, K
    <3> QED
      BY <1>3, <2>1
  <2> QED
    BY <2>2, <2>3
<1> QED
  <2> HIDE DEF p, N
  <2> QED
    BY <1>2, <1>3, <1>4, <1>5

\* The operators that the sink and the updater use are these.
LEMMA SameCardinality ==
    \A S : Sink!Cardinality(S) = Cardinality(S) /\ Updater!Cardinality(S) = Cardinality(S)
BY DEF Sink!Cardinality, Updater!Cardinality, Cardinality

LEMMA SameOnly == \A s, S : Sink!Only(s, S) = Only(s, S) /\ Updater!Only(s, S) = Only(s, S)
BY DEF Only, Pick, Enumerate, Ascending, Cardinality,
   Sink!Only, Sink!Pick, Sink!Enumerate, Sink!Ascending, Sink!Cardinality,
   Updater!Only, Updater!Pick, Updater!Enumerate, Updater!Ascending, Updater!Cardinality

LEMMA SamePick == \A s, K, R : Updater!Pick(s, K, R) = Pick(s, K, R)
BY DEF Pick, Enumerate, Cardinality, Updater!Pick, Updater!Enumerate, Updater!Cardinality

\* What is assumed of the constants, spelled out.
LEMMA Constants ==
    /\ Total \in Nat /\ MaxLostAnswers \in Nat
    /\ MaxRecords \in Nat /\ MaxRecords > 0 /\ MaxAttempts \in Nat /\ MaxAttempts > 0
    /\ CustomerOf \in [1 .. Total -> Customer \cup {Unknown}]
    /\ ShardOf \in [Customer \cup {Unknown} -> Shard]
    /\ Usable \subseteq 1 .. Total
    /\ \A r \in Usable : CustomerOf[r] \in Customer
    /\ Stamp \in [1 .. Total -> 0 .. MaxClock]
    /\ MaxClock \in Nat /\ MaxClock > 0 /\ BatchSize \in Nat
    /\ MaxEvents \in Nat /\ MaxEvents > 0
    /\ Horizon \in Nat /\ Retention \in Nat /\ MaxFailures \in Nat
    /\ Retention > Horizon
<1>1. Sink!SinkAssumption /\ Updater!UpdaterAssumption
  BY IngestAssumption
<1>2. /\ Total \in Nat /\ MaxLostAnswers \in Nat
      /\ MaxRecords \in Nat \ {0} /\ MaxAttempts \in Nat \ {0}
      /\ CustomerOf \in [1 .. Total -> Customer \cup {Unknown}]
      /\ ShardOf \in [Customer \cup {Unknown} -> Shard]
  BY <1>1 DEF Sink!SinkAssumption, Sink!Record
<1>3. /\ \A r \in Usable : CustomerOf[r] \in Customer
      /\ Stamp \in [1 .. Total -> 0 .. MaxClock]
      /\ MaxClock \in Nat \ {0} /\ BatchSize \in Nat /\ MaxEvents \in Nat \ {0}
      /\ Horizon \in Nat /\ Retention \in Nat /\ MaxFailures \in Nat
      /\ Retention > Horizon
  BY <1>1 DEF Updater!UpdaterAssumption
<1>4. Usable \subseteq 1 .. Total
  BY DEF Usable
<1> QED
  BY <1>2, <1>3, <1>4

-----------------------------------------------------------------------------
(* Compaction, by what it keeps: the newest fresh events, as many as fit.    *)

LEMMA Horizons ==
    /\ MaxEvents \in Nat /\ MaxEvents > 0
    /\ Horizon \in Nat /\ Retention \in Nat /\ Retention > Horizon
BY Constants

Event == Updater!Entry

LEMMA EventTime == \A e \in Event : e.t \in Nat
BY DEF Event, Updater!Entry, Updater!Time

\* Event i of x is sorted before event j.
Older(x, i, j) ==
    \/ x[i].t < x[j].t
    \/ x[i].t = x[j].t /\ i < j

\* The events of x at p[1], ..., p[n] are what compaction keeps of x at a moment: fresh
\* ones in order, and any other fresh one is older than all of as many as fit.
Keeps(p, n, x, at) ==
    /\ n \in 0 .. MaxEvents
    /\ p \in [1 .. n -> DOMAIN x]
    /\ \A k \in 1 .. n : at <= x[p[k]].t + Horizon
    /\ \A k, l \in 1 .. n : k < l => Older(x, p[k], p[l])
    /\ \A i \in DOMAIN x : at <= x[i].t + Horizon =>
           \/ \E k \in 1 .. n : p[k] = i
           \/ n = MaxEvents /\ \A k \in 1 .. n : Older(x, i, p[k])

\* The list c is what they are.
Compacts(c, p, x, at) ==
    /\ c \in Seq(Event)
    /\ Keeps(p, Len(c), x, at)
    /\ \A k \in 1 .. Len(c) : c[k] = x[p[k]]

LEMMA OlderOrders ==
    ASSUME NEW x \in Seq(Event)
    PROVE  /\ \A i \in DOMAIN x : ~ Older(x, i, i)
           /\ \A i, j, k \in DOMAIN x : Older(x, i, j) /\ Older(x, j, k) => Older(x, i, k)
           /\ \A i, j \in DOMAIN x : i = j \/ Older(x, i, j) \/ Older(x, j, i)
<1>1. \A i \in DOMAIN x : i \in Nat /\ x[i] \in Event /\ x[i].t \in Nat
  BY EventTime
<1> QED
  BY <1>1 DEF Older

\* compact_events returns what it is to keep.
LEMMA CompactKeeps ==
    ASSUME NEW x \in Seq(Event), NEW at \in Nat
    PROVE  /\ Updater!compact_events(x, at) \in Seq(Event)
           /\ \E p : Compacts(Updater!compact_events(x, at), p, x, at)
<1> DEFINE K == {i \in DOMAIN x : at <= x[i].t + Horizon}
           R == Updater!Sooner(x)
           N == Cardinality(K)
           E == Enumerate(K, R)
           s == Pick(x, K, R)
           c == Updater!compact_events(x, at)
           d == IF N <= MaxEvents THEN 0 ELSE N - MaxEvents
           p == [k \in 1 .. N - d |-> E[d + k]]
<1>1. K \in SUBSET DOMAIN x
  OBVIOUS
<1>2. \A i, j \in DOMAIN x : <<i, j>> \in R <=> Older(x, i, j)
  BY DEF Updater!Sooner, Older
<1>3. Orders(R, K)
  <2> HIDE DEF R
  <2> QED
    BY <1>1, <1>2, OlderOrders DEF Orders
<1>4. /\ N \in Nat
      /\ E \in [1 .. N -> K]
      /\ \A k, l \in 1 .. N : k < l => <<E[k], E[l]>> \in R
      /\ \A i \in K : \E k \in 1 .. N : E[k] = i
      /\ s \in Seq(Event) /\ Len(s) = N
      /\ \A k \in 1 .. N : s[k] = x[E[k]]
  <2> HIDE DEF K, R
  <2>1. N \in Nat
    BY <1>1, Indices
  <2> QED
    BY <1>1, <1>3, <2>1, Picks
<1>5. c = IF N <= MaxEvents THEN s ELSE SubSeq(s, N - MaxEvents + 1, N)
  <2>1. c = Updater!Newest(MaxEvents, s)
    BY SamePick DEF Updater!compact_events
  <2> HIDE DEF c, s, N
  <2> QED
    BY <1>4, <2>1 DEF Updater!Newest
<1> HIDE DEF c, s, E, N, R, K
<1>6. /\ d \in Nat /\ N - d \in 0 .. MaxEvents
      /\ d > 0 => N - d = MaxEvents
      /\ \A k \in 1 .. N - d : d + k \in 1 .. N
  <2>1. /\ d \in Nat /\ N - d \in 0 .. MaxEvents
        /\ d > 0 => N - d = MaxEvents
    BY <1>4, Horizons
  <2> QED
    BY <1>4, <2>1
<1>7. /\ c \in Seq(Event) /\ Len(c) = N - d
      /\ \A k \in 1 .. N - d : c[k] = s[d + k]
  <2>1. CASE N <= MaxEvents
    BY <1>4, <1>5, <2>1
  <2>2. CASE N > MaxEvents
    <3>1. N - MaxEvents + 1 \in 1 .. N /\ d = N - MaxEvents
      BY <1>4, <2>2, Constants
    <3>2. c = SubSeq(s, N - MaxEvents + 1, N)
      BY <1>4, <1>5, <2>2, Constants
    <3> QED
      BY <1>4, <3>1, <3>2, Constants
  <2> QED
    BY <1>4, <2>1, <2>2, Constants
<1>8. \A k \in 1 .. N - d : p[k] = E[d + k] /\ p[k] \in K
  BY <1>4, <1>6
<1>9. /\ p \in [1 .. N - d -> DOMAIN x]
      /\ \A k \in 1 .. N - d : c[k] = x[p[k]] /\ at <= x[p[k]].t + Horizon
  <2>1. \A i \in K : i \in DOMAIN x /\ at <= x[i].t + Horizon
    BY DEF K
  <2>2. ASSUME NEW k \in 1 .. N - d
        PROVE  c[k] = x[p[k]]
    <3>1. d + k \in 1 .. N /\ c[k] = s[d + k]
      BY <1>6, <1>7
    <3>2. s[d + k] = x[E[d + k]]
      BY <1>4, <3>1
    <3> QED
      BY <1>8, <3>1, <3>2
  <2>3. \A k \in 1 .. N - d : p[k] \in DOMAIN x
    BY <1>8, <2>1
  <2> QED
    BY <1>8, <2>1, <2>2, <2>3
<1> HIDE DEF d, p
<1>10. ASSUME NEW k \in 1 .. N - d, NEW l \in 1 .. N - d, k < l
       PROVE  Older(x, p[k], p[l])
  <2>1. <<E[d + k], E[d + l]>> \in R
    BY <1>4, <1>6, <1>10
  <2> QED
    BY <1>2, <1>8, <1>9, <2>1
<1>11. ASSUME NEW i \in DOMAIN x, at <= x[i].t + Horizon,
              ~ \E k \in 1 .. N - d : p[k] = i
       PROVE  N - d = MaxEvents /\ \A k \in 1 .. N - d : Older(x, i, p[k])
  <2>1. PICK m \in 1 .. N : E[m] = i
    BY <1>4, <1>11 DEF K
  <2>2. m <= d
    <3> SUFFICES ASSUME m > d
                 PROVE  FALSE
      BY <1>4, <1>6
    <3>1. m - d \in 1 .. N - d /\ d + (m - d) = m
      BY <1>4, <1>6
    <3>2. p[m - d] = i
      BY <1>8, <2>1, <3>1
    <3> QED
      BY <1>11, <3>1, <3>2
  <2>3. N - d = MaxEvents
    BY <1>6, <2>2
  <2>4. ASSUME NEW k \in 1 .. N - d
        PROVE  Older(x, i, p[k])
    <3>1. <<E[m], E[d + k]>> \in R
      BY <1>4, <1>6, <2>2
    <3> QED
      BY <1>2, <1>8, <1>9, <2>1, <3>1
  <2> QED
    BY <2>3, <2>4
<1>12. Keeps(p, Len(c), x, at)
  BY <1>6, <1>7, <1>9, <1>10, <1>11 DEF Keeps
<1> QED
  <2>1. Compacts(c, p, x, at)
    BY <1>7, <1>9, <1>12 DEF Compacts
  <2> QED
    BY <1>7, <2>1 DEF c

\* What compaction keeps is settled, from the newest event on: where a list of kept
\* events first departed from another, it would leave out one newer than one it keeps.
LEMMA KeepsTail ==
    ASSUME NEW x \in Seq(Event), NEW at \in Nat,
           NEW n, NEW p, Keeps(p, n, x, at),
           NEW m, NEW q, Keeps(q, m, x, at)
    PROVE  \A j \in 0 .. n - 1 : j < m /\ p[n - j] = q[m - j]
<1> DEFINE Odd == {j \in 0 .. n - 1 : ~ (j < m /\ p[n - j] = q[m - j])}
<1>1. /\ n \in Nat /\ m \in Nat /\ n <= MaxEvents
      /\ \A k \in 1 .. n : p[k] \in DOMAIN x /\ at <= x[p[k]].t + Horizon
      /\ \A k \in 1 .. m : q[k] \in DOMAIN x /\ at <= x[q[k]].t + Horizon
  <2>1. n \in 0 .. MaxEvents /\ m \in 0 .. MaxEvents
    BY DEF Keeps
  <2>2. n \in Nat /\ m \in Nat /\ n <= MaxEvents
    BY <2>1, Horizons
  <2> QED
    BY <2>2 DEF Keeps
<1> SUFFICES ASSUME Odd # {}
             PROVE  FALSE
  OBVIOUS
<1>2. PICK j \in Odd : \A i \in Odd : j <= i
  <2>1. Odd \in SUBSET Nat
    OBVIOUS
  <2> HIDE DEF Odd
  <2> QED
    BY <2>1, Least
<1>3. /\ j \in 0 .. n - 1
      /\ j < m => p[n - j] # q[m - j]
      /\ \A i \in 0 .. n - 1 : i < j => i < m /\ p[n - i] = q[m - i]
  BY <1>1, <1>2
<1> HIDE DEF Odd
<1> DEFINE i == p[n - j]
<1>4. n - j \in 1 .. n /\ i \in DOMAIN x /\ at <= x[i].t + Horizon
  BY <1>1, <1>3
<1>5. /\ m - j \in 1 .. m
      /\ Older(x, i, q[m - j])
  <2>1. CASE \E k \in 1 .. m : q[k] = i
    <3>1. PICK k \in 1 .. m : q[k] = i
      BY <2>1
    <3>2. k <= m - j
      <4> SUFFICES ASSUME k > m - j
                   PROVE  FALSE
        BY <1>1, <1>3
      <4>1. m - k \in 0 .. n - 1 /\ m - k < j /\ m - (m - k) = k
        BY <1>1, <1>3
      <4>2. n - (m - k) \in 1 .. n /\ n - (m - k) > n - j
        BY <1>1, <1>3, <4>1
      <4>3. p[n - (m - k)] = i
        BY <1>3, <3>1, <4>1
      <4>4. Older(x, p[n - j], p[n - (m - k)])
        BY <1>4, <4>2 DEF Keeps
      <4> QED
        BY <1>4, <4>3, <4>4, OlderOrders
    <3>3. j < m /\ k # m - j
      BY <1>1, <1>3, <3>1, <3>2
    <3>4. m - j \in 1 .. m /\ k < m - j
      BY <1>1, <1>3, <3>2, <3>3
    <3> QED
      BY <3>1, <3>4 DEF Keeps
  <2>2. CASE ~ \E k \in 1 .. m : q[k] = i
    <3>1. m = MaxEvents /\ \A k \in 1 .. m : Older(x, i, q[k])
      BY <1>4, <2>2 DEF Keeps
    <3> QED
      BY <1>1, <1>3, <3>1
  <2> QED
    BY <2>1, <2>2
<1> DEFINE o == q[m - j]
<1>6. o \in DOMAIN x /\ at <= x[o].t + Horizon
  BY <1>1, <1>5
<1>7. CASE \E k \in 1 .. n : p[k] = o
  <2>1. PICK k \in 1 .. n : p[k] = o
    BY <1>7
  <2>2. k > n - j
    <3> SUFFICES ASSUME ~ (k > n - j)
                 PROVE  FALSE
      OBVIOUS
    <3>1. k = n - j \/ k < n - j
      BY <1>1, <1>3
    <3>2. o = i \/ Older(x, o, i)
      BY <1>4, <2>1, <3>1 DEF Keeps
    <3> QED
      BY <1>4, <1>5, <1>6, <3>2, OlderOrders
  <2>3. n - k \in 0 .. n - 1 /\ n - k < j /\ n - (n - k) = k
    BY <1>1, <1>3, <2>2
  <2>4. n - k < m /\ q[m - (n - k)] = o
    BY <1>3, <2>1, <2>3
  <2>5. m - (n - k) \in 1 .. m /\ m - j < m - (n - k)
    BY <1>1, <1>3, <2>3, <2>4
  <2>6. Older(x, o, q[m - (n - k)])
    BY <1>5, <2>5 DEF Keeps
  <2> QED
    BY <1>6, <2>4, <2>6, OlderOrders
<1>8. CASE ~ \E k \in 1 .. n : p[k] = o
  <2>1. Older(x, o, i)
    BY <1>4, <1>6, <1>8 DEF Keeps
  <2> QED
    BY <1>4, <1>5, <1>6, <2>1, OlderOrders
<1> QED
  BY <1>7, <1>8

\* So a list compacts to one list only.
LEMMA KeepsUnique ==
    ASSUME NEW x \in Seq(Event), NEW at \in Nat,
           NEW c, NEW p, Compacts(c, p, x, at)
    PROVE  c = Updater!compact_events(x, at)
<1> DEFINE b == Updater!compact_events(x, at)
<1>1. b \in Seq(Event)
  BY CompactKeeps
<1>2. PICK q : Compacts(b, q, x, at)
  BY CompactKeeps
<1> HIDE DEF b
<1> DEFINE n == Len(c)
           m == Len(b)
<1>3. /\ \A j \in 0 .. n - 1 : j < m /\ p[n - j] = q[m - j]
      /\ \A j \in 0 .. m - 1 : j < n
  <2>1. Keeps(p, n, x, at) /\ Keeps(q, m, x, at)
    BY <1>2 DEF Compacts
  <2> HIDE DEF n, m
  <2>2. \A j \in 0 .. n - 1 : j < m /\ p[n - j] = q[m - j]
    BY <2>1, KeepsTail
  <2>3. \A j \in 0 .. m - 1 : j < n /\ q[m - j] = p[n - j]
    BY <2>1, KeepsTail
  <2> QED
    BY <2>2, <2>3
<1>4. n \in Nat /\ m \in Nat
  BY <1>1 DEF Compacts
<1>5. n = m
  <2>1. n > 0 => n - 1 \in 0 .. n - 1
    BY <1>4
  <2>2. m > 0 => m - 1 \in 0 .. m - 1
    BY <1>4
  <2> HIDE DEF n, m
  <2>3. n > 0 => n - 1 < m
    BY <1>3, <2>1
  <2>4. m > 0 => m - 1 < n
    BY <1>3, <2>2
  <2> QED
    BY <1>4, <2>3, <2>4
<1>6. ASSUME NEW k \in 1 .. n
      PROVE  c[k] = b[k]
  <2>1. n - k \in 0 .. n - 1 /\ n - (n - k) = k
    BY <1>4
  <2>2. p[k] = q[k]
    BY <1>3, <1>5, <2>1
  <2> QED
    BY <1>2, <1>5, <1>6, <2>2 DEF Compacts
<1>7. c = b
  BY <1>1, <1>4, <1>5, <1>6, SeqEqual DEF Compacts
<1> QED
  BY <1>7 DEF b

\* A list that names as many events as fit, and each of the first of them, names no other.
LEMMA NoRoomLeft ==
    ASSUME NEW n \in 0 .. MaxEvents, NEW r, NEW D, r \in [1 .. n -> D],
           \A k \in 1 .. MaxEvents : \E l \in 1 .. n : r[l] = k
    PROVE  n = MaxEvents /\ \A l \in 1 .. n : r[l] \in 1 .. MaxEvents
<1> DEFINE S == 1 .. MaxEvents
           T == 1 .. n
           g == [k \in S |-> CHOOSE l \in T : r[l] = k]
<1>1. \A k \in S : g[k] \in T /\ r[g[k]] = k
  OBVIOUS
<1>2. g \in Injection(S, T)
  <2>1. g \in [S -> T]
    BY <1>1
  <2>2. \A k, l \in S : g[k] = g[l] => k = l
    <3> HIDE DEF g, S, T
    <3> QED
      BY <1>1
  <2> QED
    BY <2>1, <2>2, Fun_IsInj
<1>3. /\ IsFiniteSet(S) /\ Cardinality(S) = MaxEvents
      /\ IsFiniteSet(T) /\ Cardinality(T) = n
      /\ n \in Nat /\ MaxEvents \in Nat /\ n <= MaxEvents
  <2>1. n \in Nat /\ MaxEvents \in Nat /\ n <= MaxEvents
    BY Constants
  <2>2. /\ IsFiniteSet(S)
        /\ Cardinality(S) = IF 1 > MaxEvents THEN 0 ELSE MaxEvents - 1 + 1
    BY <2>1, FS_Interval
  <2>3. /\ IsFiniteSet(T)
        /\ Cardinality(T) = IF 1 > n THEN 0 ELSE n - 1 + 1
    BY <2>1, FS_Interval
  <2> QED
    BY <2>1, <2>2, <2>3
<1>4. /\ Cardinality(S) <= Cardinality(T)
      /\ Cardinality(S) = Cardinality(T) => g \in Surjection(S, T)
  <2> HIDE DEF g, S, T
  <2> QED
    BY <1>2, <1>3, FS_Injection
<1>5. n = MaxEvents
  BY <1>3, <1>4
<1>6. ASSUME NEW l \in T
      PROVE  r[l] \in S
  <2>1. \E k \in S : g[k] = l
    <3> HIDE DEF g, S, T
    <3> QED
      BY <1>3, <1>4, <1>5 DEF Surjection
  <2> QED
    BY <1>1, <2>1
<1> QED
  BY <1>5, <1>6

\* Compacting a list that starts with what compaction kept keeps what it would of the
\* whole list.
LEMMA KeepsAbsorb ==
    ASSUME NEW x \in Seq(Event), NEW y \in Seq(Event),
           NEW at \in Nat, NEW later \in Nat, at <= later,
           NEW z, NEW p, Compacts(z, p, x, at),
           NEW c, NEW r, Compacts(c, r, z \o y, later)
    PROVE  \E q : Compacts(c, q, x \o y, later)
<1>0. /\ z \in Seq(Event)
      /\ Keeps(p, Len(z), x, at)
      /\ \A k \in 1 .. Len(z) : z[k] = x[p[k]]
      /\ c \in Seq(Event)
      /\ Keeps(r, Len(c), z \o y, later)
      /\ \A k \in 1 .. Len(c) : c[k] = (z \o y)[r[k]]
  BY DEF Compacts
<1> DEFINE X == x \o y
           Z == z \o y
           n == Len(c)
           f(i) == IF i <= Len(z) THEN p[i] ELSE i - Len(z) + Len(x)
           q == [k \in 1 .. n |-> f(r[k])]
           M == MaxEvents
<1>1. /\ X \in Seq(Event) /\ Len(X) = Len(x) + Len(y) /\ DOMAIN X = 1 .. Len(X)
      /\ Z \in Seq(Event) /\ Len(Z) = Len(z) + Len(y) /\ DOMAIN Z = 1 .. Len(Z)
      /\ \A i \in 1 .. Len(x) : X[i] = x[i]
      /\ \A i \in 1 .. Len(y) : X[Len(x) + i] = y[i]
      /\ \A i \in 1 .. Len(z) : Z[i] = z[i]
      /\ \A i \in 1 .. Len(y) : Z[Len(z) + i] = y[i]
  BY <1>0
<1>2. /\ DOMAIN x = 1 .. Len(x)
      /\ Len(x) \in Nat /\ Len(y) \in Nat /\ Len(z) \in Nat /\ Len(z) <= M /\ M \in Nat
      /\ \A k \in 1 .. Len(z) : p[k] \in 1 .. Len(x)
      /\ n \in 0 .. M /\ n \in Nat /\ n <= M
  <2>1. DOMAIN x = 1 .. Len(x) /\ Len(x) \in Nat /\ Len(y) \in Nat /\ Len(z) \in Nat
    BY <1>0
  <2>2. Len(z) \in 0 .. M /\ p \in [1 .. Len(z) -> DOMAIN x] /\ n \in 0 .. M
    BY <1>0 DEF Keeps
  <2>3. \A k \in 1 .. Len(z) : p[k] \in 1 .. Len(x)
    BY <2>1, <2>2
  <2>4. M \in Nat
    BY Constants
  <2>5. Len(z) <= M /\ n \in Nat /\ n <= M
    BY <2>2, <2>4
  <2> QED
    BY <2>1, <2>2, <2>3, <2>4, <2>5
<1> HIDE DEF X, Z, n
<1>3. ASSUME NEW i \in DOMAIN Z
      PROVE  f(i) \in DOMAIN X /\ X[f(i)] = Z[i]
  <2>1. CASE i <= Len(z)
    BY <1>0, <1>1, <1>2, <2>1
  <2>2. CASE i > Len(z)
    <3> DEFINE j == i - Len(z)
    <3>1. j \in 1 .. Len(y) /\ Len(z) + j = i
      BY <1>1, <1>2, <2>2
    <3>2. f(i) = Len(x) + j
      BY <1>1, <1>2, <2>2
    <3> HIDE DEF f, j
    <3>3. f(i) \in DOMAIN X
      BY <1>1, <1>2, <3>1, <3>2
    <3> QED
      BY <1>1, <3>1, <3>2, <3>3
  <2> QED
    BY <1>1, <1>2, <2>1, <2>2
<1>4. ASSUME NEW i \in DOMAIN Z, NEW j \in DOMAIN Z, Older(Z, i, j)
      PROVE  Older(X, f(i), f(j))
  <2>1. CASE Z[i].t < Z[j].t
    BY <1>3, <2>1 DEF Older
  <2>2. CASE Z[i].t = Z[j].t /\ i < j
    <3>1. f(i) < f(j)
      <4>1. CASE j <= Len(z)
        <5>1. i \in 1 .. Len(z) /\ j \in 1 .. Len(z) /\ i < j
          BY <1>1, <1>2, <2>2, <4>1
        <5>2. Older(x, p[i], p[j])
          BY <1>0, <5>1 DEF Keeps
        <5>3. x[p[i]].t = x[p[j]].t /\ x[p[i]].t \in Nat
          <6>1. Z[i] = x[p[i]] /\ Z[j] = x[p[j]] /\ x[p[i]] \in Event
            BY <1>0, <1>1, <1>2, <5>1
          <6> QED
            BY <2>2, <6>1, EventTime
        <5>4. p[i] < p[j]
          BY <5>2, <5>3 DEF Older
        <5> QED
          BY <5>1, <5>4
      <4>2. CASE i <= Len(z) /\ j > Len(z)
        <5>1. p[i] \in 1 .. Len(x)
          BY <1>1, <1>2, <4>2
        <5> QED
          BY <1>1, <1>2, <4>2, <5>1
      <4>3. CASE i > Len(z)
        BY <1>1, <1>2, <2>2, <4>3
      <4> QED
        BY <1>1, <1>2, <2>2, <4>1, <4>2, <4>3
    <3> QED
      BY <1>3, <2>2, <3>1 DEF Older
  <2> QED
    BY <1>4, <2>1, <2>2 DEF Older
<1> HIDE DEF f
<1>5. \A k \in 1 .. n : r[k] \in DOMAIN Z /\ q[k] = f(r[k])
  BY <1>0 DEF Keeps, Z, n
<1>6. /\ \A k \in 1 .. n : later <= Z[r[k]].t + Horizon
      /\ \A k, l \in 1 .. n : k < l => Older(Z, r[k], r[l])
      /\ \A i \in DOMAIN Z : later <= Z[i].t + Horizon =>
             \/ \E k \in 1 .. n : r[k] = i
             \/ n = M /\ \A k \in 1 .. n : Older(Z, i, r[k])
  BY <1>0 DEF Keeps, Z, n
<1>7. q \in [1 .. n -> DOMAIN X] /\ \A k \in 1 .. n : X[q[k]] = Z[r[k]]
  BY <1>3, <1>5
<1> HIDE DEF q
<1>8. \A k, l \in 1 .. n : k < l => Older(X, q[k], q[l])
  BY <1>4, <1>5, <1>6
\* An event that the compacted list holds.
<1>9. ASSUME NEW i \in DOMAIN Z, later <= Z[i].t + Horizon
      PROVE  \/ \E k \in 1 .. n : q[k] = f(i)
             \/ n = M /\ \A k \in 1 .. n : Older(X, f(i), q[k])
  <2>1. \/ \E k \in 1 .. n : r[k] = i
        \/ n = M /\ \A k \in 1 .. n : Older(Z, i, r[k])
    BY <1>6, <1>9
  <2> QED
    BY <1>4, <1>5, <2>1
\* An event that compaction has left out before.
<1>10. ASSUME NEW i \in 1 .. Len(x), later <= X[i].t + Horizon,
              ~ \E k \in 1 .. Len(z) : p[k] = i
       PROVE  n = M /\ \A k \in 1 .. n : Older(X, i, q[k])
  <2>1. /\ X[i] = x[i] /\ x[i].t \in Nat /\ at <= x[i].t + Horizon
        /\ i \in DOMAIN X /\ i \in DOMAIN x
    <3>1. X[i] = x[i] /\ x[i] \in Event /\ i \in DOMAIN X /\ i \in DOMAIN x
      BY <1>1, <1>2
    <3> QED
      BY <1>10, <3>1, EventTime, Constants
  <2>2. Len(z) = M /\ \A k \in 1 .. Len(z) : Older(x, i, p[k])
    BY <1>0, <1>10, <2>1 DEF Keeps
  <2>3. ASSUME NEW k \in 1 .. M
        PROVE  /\ k \in DOMAIN Z /\ f(k) = p[k] /\ Z[k] = x[p[k]]
               /\ Older(X, i, f(k)) /\ later <= Z[k].t + Horizon
    <3>1. k \in DOMAIN Z /\ f(k) = p[k] /\ Z[k] = x[p[k]] /\ p[k] \in 1 .. Len(x)
      BY <1>0, <1>1, <1>2, <2>2 DEF f
    <3>2. Older(x, i, p[k]) /\ X[p[k]] = x[p[k]] /\ x[p[k]].t \in Nat
      <4>1. x[p[k]] \in Event /\ X[p[k]] = x[p[k]] /\ k \in 1 .. Len(z)
        BY <1>1, <1>2, <2>2, <3>1
      <4> QED
        BY <2>2, <4>1, EventTime
    <3>3. x[i].t <= x[p[k]].t
      BY <2>1, <3>2 DEF Older
    <3>4. later <= x[p[k]].t + Horizon
      <4>1. later <= x[i].t + Horizon
        BY <1>10, <2>1
      <4> QED
        BY <2>1, <3>2, <3>3, <4>1, Horizons
    <3>5. Older(X, i, p[k])
      BY <2>1, <3>2 DEF Older
    <3> QED
      BY <3>1, <3>4, <3>5
  <2>4. CASE \A k \in 1 .. M : \E l \in 1 .. n : r[l] = k
    <3>1. r \in [1 .. n -> DOMAIN Z]
      BY <1>0 DEF Keeps, Z, n
    <3>2. n \in 0 .. MaxEvents /\ \A k \in 1 .. MaxEvents : \E l \in 1 .. n : r[l] = k
      BY <1>2, <2>4
    <3>3. n = MaxEvents /\ \A l \in 1 .. n : r[l] \in 1 .. MaxEvents
      BY <3>1, <3>2, NoRoomLeft
    <3> QED
      BY <1>5, <2>3, <3>3
  <2>5. CASE \E k \in 1 .. M : ~ \E l \in 1 .. n : r[l] = k
    <3>1. PICK k \in 1 .. M : ~ \E l \in 1 .. n : r[l] = k
      BY <2>5
    <3>2. n = M /\ \A l \in 1 .. n : Older(Z, k, r[l])
      BY <1>6, <2>3, <3>1
    <3>3. ASSUME NEW l \in 1 .. n
          PROVE  Older(X, i, q[l])
      <4>1. Older(X, f(k), q[l]) /\ Older(X, i, f(k))
        BY <1>4, <1>5, <2>3, <3>2
      <4>2. i \in DOMAIN X /\ f(k) \in DOMAIN X /\ q[l] \in DOMAIN X
        BY <1>3, <1>7, <2>1, <2>3
      <4> QED
        BY <1>1, <4>1, <4>2, OlderOrders
    <3> QED
      BY <3>2, <3>3
  <2> QED
    BY <2>4, <2>5
<1>11. ASSUME NEW i \in DOMAIN X, later <= X[i].t + Horizon
       PROVE  \/ \E k \in 1 .. n : q[k] = i
              \/ n = M /\ \A k \in 1 .. n : Older(X, i, q[k])
  <2>1. CASE i > Len(x)
    <3> DEFINE j == i - Len(x) + Len(z)
    <3>1. j \in DOMAIN Z /\ f(j) = i
      <4>1. i \in Nat /\ j \in Nat /\ j > Len(z) /\ j <= Len(Z)
        BY <1>1, <1>2, <2>1
      <4> QED
        BY <1>1, <1>2, <4>1 DEF f
    <3> HIDE DEF j
    <3> QED
      BY <1>3, <1>9, <1>11, <3>1
  <2>2. CASE i <= Len(x) /\ \E k \in 1 .. Len(z) : p[k] = i
    <3>1. PICK j \in 1 .. Len(z) : p[j] = i
      BY <2>2
    <3>2. j \in DOMAIN Z /\ f(j) = i
      BY <1>1, <1>2, <3>1 DEF f
    <3> QED
      BY <1>3, <1>9, <1>11, <3>2
  <2>3. CASE i <= Len(x) /\ ~ \E k \in 1 .. Len(z) : p[k] = i
    <3>1. i \in 1 .. Len(x)
      BY <1>1, <1>2, <2>3
    <3> QED
      BY <1>10, <1>11, <2>3, <3>1
  <2> QED
    BY <1>1, <1>2, <2>1, <2>2, <2>3
<1>12. \A k \in 1 .. n : later <= X[q[k]].t + Horizon
  BY <1>6, <1>7
<1>13. Keeps(q, n, X, later)
  BY <1>2, <1>7, <1>8, <1>11, <1>12 DEF Keeps
<1>14. Compacts(c, q, X, later)
  BY <1>0, <1>7, <1>13 DEF Compacts, Z, n
<1> QED
  BY <1>14 DEF X

\* Compaction may be done as events come in: what it dropped it would drop later too.
LEMMA CompactAbsorbs ==
    ASSUME NEW x \in Seq(Event), NEW y \in Seq(Event),
           NEW at \in Nat, NEW later \in Nat, at <= later
    PROVE  Updater!compact_events(Updater!compact_events(x, at) \o y, later)
               = Updater!compact_events(x \o y, later)
<1> DEFINE z == Updater!compact_events(x, at)
           c == Updater!compact_events(z \o y, later)
<1>1. z \in Seq(Event)
  BY CompactKeeps
<1>2. PICK p : Compacts(z, p, x, at)
  BY CompactKeeps
<1> HIDE DEF z
<1>3. z \o y \in Seq(Event) /\ x \o y \in Seq(Event)
  BY <1>1
<1>4. PICK r : Compacts(c, r, z \o y, later)
  BY <1>3, CompactKeeps
<1> HIDE DEF c
<1>5. PICK q : Compacts(c, q, x \o y, later)
  BY <1>2, <1>4, KeepsAbsorb
<1>6. c = Updater!compact_events(x \o y, later)
  BY <1>3, <1>5, KeepsUnique
<1> QED
  BY <1>6 DEF c, z

\* Events that are all past the horizon may be forgotten.
LEMMA CompactForgets ==
    ASSUME NEW x \in Seq(Event), NEW y \in Seq(Event), NEW at \in Nat,
           \A i \in DOMAIN x : x[i].t + Horizon < at
    PROVE  Updater!compact_events(y, at) = Updater!compact_events(x \o y, at)
<1> DEFINE z == <<>>
<1>1. Updater!compact_events(x, at) = z
  <2>1. z \in Seq(Event) /\ Len(z) = 0
    OBVIOUS
  <2>2. Keeps(z, 0, x, at)
    <3>1. \A i \in DOMAIN x : ~ (at <= x[i].t + Horizon)
      <4>1. \A i \in DOMAIN x : x[i] \in Event /\ x[i].t \in Nat
        BY EventTime
      <4> QED
        BY <4>1, Constants
    <3>2. z \in [1 .. 0 -> DOMAIN x] /\ 0 \in 0 .. MaxEvents
      BY Constants
    <3> QED
      BY <3>1, <3>2 DEF Keeps
  <2>3. Compacts(z, z, x, at)
    BY <2>1, <2>2 DEF Compacts
  <2> HIDE DEF z
  <2> QED
    BY <2>3, KeepsUnique
<1>2. Updater!compact_events(z \o y, at) = Updater!compact_events(x \o y, at)
  <2>1. at <= at
    OBVIOUS
  <2>2. Updater!compact_events(Updater!compact_events(x, at) \o y, at)
            = Updater!compact_events(x \o y, at)
    BY <2>1, CompactAbsorbs
  <2> QED
    BY <1>1, <2>2
<1>3. z \o y = y
  OBVIOUS
<1> QED
  BY <1>2, <1>3

-----------------------------------------------------------------------------
(* The inductive invariant.                                                 *)

\* The records that are neither in the stream nor on their way to it.
Missing == (1 .. emitted) \ (Sink!InStream \cup ToSet(buffer) \cup ToSet(batch))

ProducerInv ==
    /\ Sink!TypeOK
    /\ phase \in {"emitting", "done", "crashed"} => batch = <<>>
    /\ phase \in {"flushing", "closing", "done"} => buffer = <<>>
    /\ phase \in {"flushing", "closing"} => attempt < MaxAttempts
    /\ Sink!InStream \cup ToSet(buffer) \cup ToSet(batch) \subseteq 1 .. emitted
    /\ sent + failed + Len(buffer) + Len(batch) <= emitted
    /\ phase # "crashed" =>
         /\ sent + failed + Len(buffer) + Len(batch) = emitted
         /\ Cardinality(Missing) <= failed

\* A customer's records are on one shard, and none comes before its time.
StreamInv ==
    /\ \A r \in 1 .. emitted : Stamp[r] <= clock
    /\ \A s \in Shard : \A r \in ToSet(stream[s]) : ShardOf[CustomerOf[r]] = s

Item == [customer : Customer, events : Seq(Event), current : BOOLEAN]

UpdaterType ==
    /\ clock \in 1 .. MaxClock
    /\ stream \in [Shard -> Seq(1 .. Total)]
    /\ position \in [Shard -> Nat] /\ \A s \in Shard : position[s] <= Len(stream[s])
    /\ invoked \in [Shard -> Seq(1 .. Total)]
    /\ pending \in [Shard -> SUBSET Customer]
    /\ reading \in [Shard -> SUBSET Item]
    /\ \A s \in Shard : \A item \in reading[s] : item.customer \in pending[s]
    /\ failures \in 0 .. MaxFailures
    /\ store \in [Customer -> Seq(Event)]
    /\ older \in [Customer -> Seq(Event)]
    /\ updated \in [Customer -> 1 .. MaxClock]
    /\ delivered \in [Customer -> Seq(Event)]
    /\ mended \in [Customer -> Nat]

\* The invocation of a shard, if one runs.
InvocationInv(s) ==
    /\ invoked[s] = <<>> => pending[s] = {} /\ reading[s] = {}
    /\ invoked[s] # <<>> =>
         /\ position[s] + Len(invoked[s]) <= Len(stream[s])
         /\ \A i \in 1 .. Len(invoked[s]) : invoked[s][i] = stream[s][position[s] + i]
    /\ \A c \in pending[s] : ShardOf[c] = s
    /\ \A r \in ToSet(invoked[s]) \cap Usable :
         CustomerOf[r] \in pending[s] \/ Delivered(r)

DeliveredInv ==
    /\ \A c \in Customer : updated[c] <= clock
    /\ \A c \in Customer : \A e \in ToSet(delivered[c]) : e.t <= updated[c]
    /\ NothingSkipped

\* What two lists will compact to, from a moment on and whatever events come in, is the
\* same.
Same(x, y, from) ==
    \A w \in Seq(Event), at \in Nat :
        clock <= at /\ from <= at =>
            Updater!compact_events(x \o w, at) = Updater!compact_events(y \o w, at)

\* No event of a list is ahead of the clock.
Past(x) == \A e \in ToSet(x) : e.t <= clock

CurrentInv ==
    /\ \A c \in Customer : /\ Same(store[c], delivered[c], mended[c])
                          /\ Past(store[c]) /\ Past(older[c])
    /\ \A s \in Shard : \A item \in reading[s] :
         /\ item.current => Same(item.events, delivered[item.customer], mended[item.customer])
         /\ Past(item.events)

IInv ==
    /\ ProducerInv
    /\ StreamInv
    /\ UpdaterType
    /\ \A s \in Shard : InvocationInv(s)
    /\ DeliveredInv
    /\ CurrentInv

-----------------------------------------------------------------------------
(* The producer.                                                            *)

LEMMA SameToSet == \A s : Sink!ToSet(s) = ToSet(s) /\ Updater!ToSet(s) = ToSet(s)
BY DEF ToSet, Sink!ToSet, Updater!ToSet

LEMMA Elements ==
    ASSUME NEW A, NEW s \in Seq(A)
    PROVE  DOMAIN s = 1 .. Len(s) /\ Len(s) \in Nat /\ \A i \in 1 .. Len(s) : s[i] \in A
OBVIOUS

LEMMA ToSetSize ==
    ASSUME NEW A, NEW s \in Seq(A)
    PROVE  /\ ToSet(s) \subseteq A
           /\ IsFiniteSet(ToSet(s)) /\ Cardinality(ToSet(s)) <= Len(s)
<1> DEFINE D == 1 .. Len(s)
<1>1. D = DOMAIN s /\ Len(s) \in Nat
  OBVIOUS
<1>2. IsFiniteSet(D) /\ Cardinality(D) = Len(s)
  <2>1. IsFiniteSet(D) /\ Cardinality(D) = IF 1 > Len(s) THEN 0 ELSE Len(s) - 1 + 1
    BY <1>1, FS_Interval
  <2> QED
    BY <1>1, <2>1
<1>3. s \in Surjection(D, ToSet(s))
  <2>1. s \in [D -> ToSet(s)]
    BY <1>1 DEF ToSet
  <2>2. \A e \in ToSet(s) : \E i \in D : s[i] = e
    BY <1>1 DEF ToSet
  <2> QED
    BY <2>1, <2>2 DEF Surjection
<1> HIDE DEF D
<1>4. IsFiniteSet(ToSet(s)) /\ Cardinality(ToSet(s)) <= Cardinality(D)
  BY <1>2, <1>3, FS_Surjection
<1>5. ToSet(s) \subseteq A
  <2>1. \A i \in DOMAIN s : s[i] \in A
    OBVIOUS
  <2> QED
    BY <2>1 DEF ToSet
<1> QED
  BY <1>2, <1>4, <1>5

LEMMA ToSetConcat ==
    ASSUME NEW A, NEW a \in Seq(A), NEW b \in Seq(A)
    PROVE  ToSet(a \o b) = ToSet(a) \cup ToSet(b)
<1> DEFINE c == a \o b
<1>1. /\ Len(a) \in Nat /\ Len(b) \in Nat
      /\ DOMAIN a = 1 .. Len(a) /\ DOMAIN b = 1 .. Len(b)
      /\ DOMAIN c = 1 .. Len(a) + Len(b)
      /\ \A i \in 1 .. Len(a) : c[i] = a[i]
      /\ \A i \in 1 .. Len(b) : c[Len(a) + i] = b[i]
  OBVIOUS
<1> HIDE DEF c
<1>2. ASSUME NEW i \in DOMAIN c
      PROVE  c[i] \in ToSet(a) \cup ToSet(b)
  <2>1. CASE i <= Len(a)
    BY <1>1, <2>1 DEF ToSet
  <2>2. CASE i > Len(a)
    <3>1. i - Len(a) \in 1 .. Len(b) /\ Len(a) + (i - Len(a)) = i
      BY <1>1, <2>2
    <3> QED
      BY <1>1, <3>1 DEF ToSet
  <2> QED
    BY <1>1, <2>1, <2>2
<1>3. \A i \in DOMAIN a : i \in DOMAIN c /\ c[i] = a[i]
  BY <1>1
<1>4. \A i \in DOMAIN b : Len(a) + i \in DOMAIN c /\ c[Len(a) + i] = b[i]
  BY <1>1
<1>5. ToSet(c) = ToSet(a) \cup ToSet(b)
  BY <1>2, <1>3, <1>4 DEF ToSet
<1> QED
  BY <1>5 DEF c

\* Every shard keeps what it has; records only come in behind, on their customer's shard.
Grown ==
    \A s \in Shard :
        /\ Len(stream[s]) <= Len(stream'[s])
        /\ \A i \in 1 .. Len(stream[s]) : stream'[s][i] = stream[s][i]
        /\ \A r \in ToSet(stream'[s]) \ ToSet(stream[s]) : ShardOf[CustomerOf[r]] = s

\* Stored records are all in the stream, each on its customer's shard.
LEMMA StoredStream ==
    ASSUME Sink!TypeOK, NEW stored \in SUBSET ToSet(batch), stream' = Sink!Stored(stored)
    PROVE  /\ stream' \in [Shard -> Seq(1 .. Total)]
           /\ Grown
           /\ Sink!InStream' = Sink!InStream \cup stored
<1> DEFINE mine(s) == {r \in stored : ShardOf[CustomerOf[r]] = s}
           new(s) == Only(batch, mine(s))
<1>1. /\ batch \in Seq(1 .. Total)
      /\ stream \in [Shard -> Seq(1 .. Total)]
  BY DEF Sink!TypeOK, Sink!Record
<1>2. stream' = [s \in Shard |-> stream[s] \o new(s)]
  BY SameOnly DEF Sink!Stored, Sink!PartitionKey
<1>3. ASSUME NEW s \in Shard
      PROVE  new(s) \in Seq(1 .. Total) /\ ToSet(new(s)) = mine(s)
  <2>1. new(s) \in Seq(1 .. Total) /\ ToSet(new(s)) = ToSet(batch) \cap mine(s)
    BY <1>1, OnlyKeeps
  <2> QED
    BY <2>1
<1> HIDE DEF new
<1>4. ASSUME NEW s \in Shard
      PROVE  /\ stream'[s] \in Seq(1 .. Total)
             /\ Len(stream[s]) <= Len(stream'[s])
             /\ \A i \in 1 .. Len(stream[s]) : stream'[s][i] = stream[s][i]
             /\ ToSet(stream'[s]) = ToSet(stream[s]) \cup ToSet(new(s))
  <2>1. stream[s] \in Seq(1 .. Total) /\ stream'[s] = stream[s] \o new(s)
    BY <1>1, <1>2
  <2> DEFINE a == stream[s]
             b == new(s)
  <2>2. /\ a \o b \in Seq(1 .. Total) /\ Len(a) <= Len(a \o b)
        /\ \A i \in 1 .. Len(a) : (a \o b)[i] = a[i]
    BY <1>3, <2>1
  <2>3. ToSet(a \o b) = ToSet(a) \cup ToSet(b)
    BY <1>3, <2>1, ToSetConcat
  <2> QED
    BY <2>1, <2>2, <2>3
<1>5. stream' \in [Shard -> Seq(1 .. Total)]
  BY <1>2, <1>4
<1>6. ASSUME NEW s \in Shard
      PROVE  ToSet(stream'[s]) = ToSet(stream[s]) \cup mine(s)
  BY <1>3, <1>4
<1>7. Sink!InStream' = Sink!InStream \cup stored
  <2>1. \A r \in stored : ShardOf[CustomerOf[r]] \in Shard
    <3>1. ToSet(batch) \subseteq 1 .. Total
      BY <1>1, ToSetSize
    <3> QED
      BY <3>1, Constants
  <2>2. /\ Sink!InStream = UNION {ToSet(stream[s]) : s \in Shard}
        /\ Sink!InStream' = UNION {ToSet(stream'[s]) : s \in Shard}
    BY SameToSet DEF Sink!InStream
  <2> QED
    BY <1>6, <2>1, <2>2
<1> QED
  BY <1>4, <1>5, <1>6, <1>7 DEF Grown

LEMMA ToSetAppend ==
    ASSUME NEW A, NEW s \in Seq(A), NEW e \in A
    PROVE  ToSet(Append(s, e)) = ToSet(s) \cup {e}
<1> DEFINE a == Append(s, e)
<1>1. /\ DOMAIN s = 1 .. Len(s) /\ Len(s) \in Nat
      /\ DOMAIN a = 1 .. Len(s) + 1
      /\ \A i \in 1 .. Len(s) : a[i] = s[i]
      /\ a[Len(s) + 1] = e
  OBVIOUS
<1> HIDE DEF a
<1>2. \A i \in DOMAIN s : i \in DOMAIN a /\ a[i] = s[i]
  BY <1>1
<1>3. Len(s) + 1 \in DOMAIN a
  BY <1>1
<1>4. \A i \in DOMAIN a : i \in DOMAIN s \/ a[i] = e
  BY <1>1
<1>5. ToSet(a) = ToSet(s) \cup {e}
  BY <1>1, <1>2, <1>3, <1>4 DEF ToSet
<1> QED
  BY <1>5 DEF a

LEMMA ToSetEmpty == ToSet(<<>>) = {}
BY DEF ToSet

\* Records that go missing are counted.
LEMMA MissingCounted ==
    ASSUME emitted \in Nat, NEW gone, IsFiniteSet(gone), NEW n \in Nat, Cardinality(gone) <= n,
           Missing' \subseteq Missing \cup gone,
           failed \in Nat, Cardinality(Missing) <= failed
    PROVE  Cardinality(Missing') <= failed + n
<1>1. IsFiniteSet(Missing) /\ Cardinality(Missing) \in Nat
  <2>1. IsFiniteSet(1 .. emitted)
    BY FS_Interval
  <2>2. Missing \in SUBSET (1 .. emitted)
    BY DEF Missing
  <2> QED
    BY <2>1, <2>2, FS_Subset, FS_CardinalityType
<1>2. /\ IsFiniteSet(Missing \cup gone)
      /\ Cardinality(Missing \cup gone)
           = Cardinality(Missing) + Cardinality(gone) - Cardinality(Missing \cap gone)
  BY <1>1, FS_Union
<1>3. Cardinality(Missing \cap gone) \in Nat /\ Cardinality(gone) \in Nat
  BY <1>1, FS_Intersection, FS_CardinalityType
<1>4. Missing' \in SUBSET (Missing \cup gone)
  OBVIOUS
<1>5. /\ IsFiniteSet(Missing')
      /\ Cardinality(Missing') <= Cardinality(Missing \cup gone)
  BY <1>2, <1>4, FS_Subset
<1>6. Cardinality(Missing') \in Nat
  BY <1>5, FS_CardinalityType
<1> QED
  BY <1>1, <1>2, <1>3, <1>5, <1>6

LEMMA NothingMissed ==
    ASSUME emitted \in Nat, Missing' \subseteq Missing, failed \in Nat,
           Cardinality(Missing) <= failed
    PROVE  Cardinality(Missing') <= failed
<1>1. IsFiniteSet({}) /\ Cardinality({}) <= 0
  BY FS_EmptySet
<1>2. Cardinality(Missing') <= failed + 0
  BY <1>1, MissingCounted
<1> QED
  BY <1>2

\* What the sink holds.
LEMMA SinkTypes ==
    ASSUME ProducerInv
    PROVE  /\ emitted \in Nat /\ sent \in Nat /\ failed \in Nat /\ emitted <= Total
           /\ buffer \in Seq(1 .. Total) /\ Len(buffer) \in Nat /\ Len(buffer) <= MaxRecords
           /\ batch \in Seq(1 .. Total) /\ Len(batch) \in Nat /\ Len(batch) <= MaxRecords
           /\ attempt \in Nat /\ lost \in 0 .. MaxLostAnswers
           /\ stream \in [Shard -> Seq(1 .. Total)]
           /\ phase \in {"emitting", "flushing", "closing", "done", "crashed"}
<1>1. Sink!TypeOK
  BY DEF ProducerInv
<1>2. /\ emitted \in 0 .. Total /\ sent \in 0 .. Total /\ failed \in 0 .. Total
      /\ attempt \in 0 .. MaxAttempts
  BY <1>1 DEF Sink!TypeOK
<1>3. /\ buffer \in Seq(1 .. Total) /\ Len(buffer) <= MaxRecords
      /\ batch \in Seq(1 .. Total) /\ Len(batch) <= MaxRecords
      /\ lost \in 0 .. MaxLostAnswers
      /\ stream \in [Shard -> Seq(1 .. Total)]
      /\ phase \in {"emitting", "flushing", "closing", "done", "crashed"}
  BY <1>1 DEF Sink!TypeOK, Sink!Record, Sink!Phases
<1>4. Len(buffer) \in Nat /\ Len(batch) \in Nat
  BY <1>3
<1>5. emitted \in Nat /\ sent \in Nat /\ failed \in Nat /\ emitted <= Total /\ attempt \in Nat
  BY <1>2, Constants
<1> QED
  BY <1>3, <1>4, <1>5

\* One lemma per action of the producer, the updater and the clock: each keeps IInv.
LEMMA WriteKeeps ==
    ASSUME ProducerInv, Sink!Write
    PROVE  ProducerInv'
<1> USE DEF Sink!Write
<1>1. /\ emitted' = emitted + 1 /\ emitted' \in Nat /\ emitted' <= Total
      /\ emitted + 1 \in 1 .. Total /\ phase = "emitting"
      /\ 1 .. emitted' = (1 .. emitted) \cup {emitted + 1}
  BY SinkTypes, Constants
<1>2. /\ buffer' \in Seq(1 .. Total) /\ Len(buffer') = Len(buffer) + 1
      /\ ToSet(buffer') = ToSet(buffer) \cup {emitted + 1}
  <2>1. buffer \in Seq(1 .. Total) /\ buffer' = Append(buffer, emitted + 1)
    BY SinkTypes
  <2>2. ToSet(Append(buffer, emitted + 1)) = ToSet(buffer) \cup {emitted + 1}
    <3> DEFINE e == emitted + 1
               A == 1 .. Total
    <3>1. e \in A /\ buffer \in Seq(A)
      BY <1>1, <2>1
    <3> HIDE DEF e, A
    <3>2. ToSet(Append(buffer, e)) = ToSet(buffer) \cup {e}
      BY <3>1, ToSetAppend
    <3> QED
      BY <3>2 DEF e
  <2>3. buffer' \in Seq(1 .. Total) /\ Len(buffer') = Len(buffer) + 1
    BY <1>1, <2>1
  <2> QED
    BY <2>1, <2>2, <2>3
<1>3. Sink!InStream' = Sink!InStream
  BY DEF Sink!InStream
<1>4. Sink!TypeOK'
  <2>1. Len(buffer') <= MaxRecords
    BY <1>2, SinkTypes, Constants
  <2>2. emitted' \in 0 .. Total
    BY <1>1, Constants
  <2> QED
    BY <1>2, <2>1, <2>2 DEF ProducerInv, Sink!TypeOK, Sink!Record
<1>5. (Sink!InStream \cup ToSet(buffer) \cup ToSet(batch))' \subseteq 1 .. emitted'
  BY <1>1, <1>2, <1>3 DEF ProducerInv
<1>6. Missing' \subseteq Missing
  BY <1>1, <1>2, <1>3 DEF Missing
<1>7. /\ (sent + failed + Len(buffer) + Len(batch))' = emitted'
      /\ Cardinality(Missing') <= failed'
  <2>1. Cardinality(Missing) <= failed /\ sent + failed + Len(buffer) + Len(batch) = emitted
    BY <1>1 DEF ProducerInv
  <2>2. Cardinality(Missing') <= failed
    BY <1>6, <2>1, NothingMissed, SinkTypes
  <2> QED
    BY <1>1, <1>2, <2>1, <2>2, SinkTypes
<1>8. (sent + failed + Len(buffer) + Len(batch))' <= emitted'
  BY <1>1, <1>7
<1> QED
  BY <1>1, <1>4, <1>5, <1>7, <1>8 DEF ProducerInv

\* The buffer becomes the batch.
LEMMA FlushKeeps ==
    ASSUME ProducerInv, Sink!Flush \/ Sink!Close
    PROVE  ProducerInv'
<1> USE DEF Sink!Flush, Sink!Close
<1>1. /\ emitted' = emitted /\ sent' = sent /\ failed' = failed /\ lost' = lost
      /\ stream' = stream /\ Sink!InStream' = Sink!InStream
  BY DEF Sink!BeginFlush, Sink!InStream
<1>2. phase = "emitting" /\ batch = <<>> /\ ToSet(batch) = {} /\ Len(batch) = 0
  BY ToSetEmpty DEF ProducerInv
<1>3. \/ /\ batch' = buffer /\ buffer' = <<>> /\ attempt' = 0
         /\ phase' \in {"flushing", "closing"}
      \/ /\ batch' = batch /\ buffer' = buffer /\ attempt' = attempt
         /\ buffer = <<>> /\ phase' = "done"
  BY DEF Sink!BeginFlush
<1>4. /\ Sink!TypeOK'
      /\ ToSet(buffer') \cup ToSet(batch') = ToSet(buffer) \cup ToSet(batch)
      /\ Len(buffer') + Len(batch') = Len(buffer) + Len(batch)
      /\ Len(buffer') \in Nat /\ Len(batch') \in Nat
  <2>1. ProducerInv /\ <<>> \in Seq(1 .. Total) /\ Len(<<>>) = 0
    OBVIOUS
  <2>2. /\ batch' \in Seq(1 .. Total) /\ Len(batch') <= MaxRecords
        /\ buffer' \in Seq(1 .. Total) /\ Len(buffer') <= MaxRecords
        /\ ToSet(buffer') \cup ToSet(batch') = ToSet(buffer) \cup ToSet(batch)
        /\ Len(buffer') + Len(batch') = Len(buffer) + Len(batch)
        /\ Len(buffer') \in Nat /\ Len(batch') \in Nat
    <3>1. /\ buffer \in Seq(1 .. Total) /\ Len(buffer) <= MaxRecords /\ Len(buffer) \in Nat
          /\ 0 <= MaxRecords /\ ToSet(<<>>) = {}
      BY SinkTypes, ToSetEmpty, Constants
    <3>2. CASE batch' = buffer /\ buffer' = <<>>
      BY <1>2, <2>1, <3>1, <3>2
    <3>3. CASE batch' = batch /\ buffer' = buffer
      BY <1>2, <2>1, <3>1, <3>3
    <3> QED
      BY <1>3, <3>2, <3>3
  <2>3. attempt' \in 0 .. MaxAttempts /\ phase' \in Sink!Phases
    BY <1>3, Constants DEF ProducerInv, Sink!TypeOK, Sink!Phases
  <2> QED
    BY <1>1, <2>2, <2>3 DEF ProducerInv, Sink!TypeOK, Sink!Record
<1>5. Missing' \subseteq Missing
  BY <1>1, <1>4 DEF Missing
<1>6. /\ (sent + failed + Len(buffer) + Len(batch))' = emitted'
      /\ Cardinality(Missing') <= failed'
  <2>1. Cardinality(Missing) <= failed /\ sent + failed + Len(buffer) + Len(batch) = emitted
    BY <1>2 DEF ProducerInv
  <2>2. Cardinality(Missing') <= failed
    BY <1>5, <2>1, NothingMissed, SinkTypes
  <2>3. sent + failed + (Len(buffer') + Len(batch')) = emitted
    BY <1>4, <2>1, SinkTypes
  <2> QED
    BY <1>1, <1>4, <2>2, <2>3, SinkTypes
<1>7. (sent + failed + Len(buffer) + Len(batch))' <= emitted'
  BY <1>1, <1>6, SinkTypes
<1>8. (Sink!InStream \cup ToSet(buffer) \cup ToSet(batch))' \subseteq 1 .. emitted'
  BY <1>1, <1>4 DEF ProducerInv
<1>9. /\ phase' \in {"emitting", "done", "crashed"} => batch' = <<>>
      /\ phase' \in {"flushing", "closing", "done"} => buffer' = <<>>
      /\ phase' \in {"flushing", "closing"} => attempt' < MaxAttempts
  BY <1>2, <1>3, Constants
<1> QED
  BY <1>4, <1>6, <1>7, <1>8, <1>9 DEF ProducerInv

\* One put_records call: what it stored is in the stream, and what it refused is
\* retried or counted.
LEMMA PutRecordsKeeps ==
    ASSUME ProducerInv, Sink!PutRecords
    PROVE  ProducerInv' /\ Grown /\ emitted' = emitted
           /\ Sink!InStream' \subseteq Sink!InStream \cup ToSet(batch)
<1>1. /\ phase \in {"flushing", "closing"}
      /\ emitted' = emitted /\ buffer' = buffer /\ lost' = lost /\ buffer = <<>>
  BY DEF Sink!PutRecords, ProducerInv
<1>2. PICK refused \in SUBSET ToSet(batch) :
        LET retry == Sink!Retry(refused) IN
        /\ stream' = Sink!Stored(ToSet(batch) \ refused)
        /\ sent' = sent + Len(batch) - Len(retry)
        /\ \/ /\ retry = <<>>
              /\ Sink!FlushReturns
              /\ UNCHANGED failed
           \/ /\ retry # <<>> /\ attempt + 1 < MaxAttempts
              /\ batch' = retry /\ attempt' = attempt + 1
              /\ UNCHANGED <<phase, failed>>
           \/ /\ retry # <<>> /\ attempt + 1 >= MaxAttempts
              /\ failed' = failed + Len(retry)
              /\ Sink!FlushReturns
  BY SameToSet DEF Sink!PutRecords
<1> DEFINE retry == Sink!Retry(refused)
<1>3. /\ retry \in Seq(1 .. Total) /\ Len(retry) <= Len(batch) /\ Len(retry) \in Nat
      /\ ToSet(retry) = refused
  <2>1. retry = Only(batch, refused)
    BY SameOnly DEF Sink!Retry
  <2>2. batch \in Seq(1 .. Total)
    BY SinkTypes
  <2>3. /\ Only(batch, refused) \in Seq(1 .. Total)
        /\ Len(Only(batch, refused)) <= Len(batch)
        /\ ToSet(Only(batch, refused)) = ToSet(batch) \cap refused
    BY <2>2, OnlyKeeps
  <2> QED
    BY <2>1, <2>3
<1>4. IsFiniteSet(refused) /\ Cardinality(refused) <= Len(retry)
  BY <1>3, ToSetSize
<1> HIDE DEF retry
<1>5. /\ stream' \in [Shard -> Seq(1 .. Total)]
      /\ Grown
      /\ Sink!InStream' = Sink!InStream \cup (ToSet(batch) \ refused)
  <2>1. Sink!TypeOK /\ stream' = Sink!Stored(ToSet(batch) \ refused)
    BY <1>2 DEF ProducerInv
  <2> QED
    BY <2>1, StoredStream
<1>6. /\ attempt < MaxAttempts
      /\ sent + failed + Len(buffer) + Len(batch) = emitted
      /\ Cardinality(Missing) <= failed
      /\ Sink!InStream \cup ToSet(buffer) \cup ToSet(batch) \subseteq 1 .. emitted
  BY <1>1 DEF ProducerInv
\* What the three answers of put_records come to.
<1>7. PICK gone \in SUBSET refused, n \in Nat :
        /\ IsFiniteSet(gone) /\ Cardinality(gone) <= n
        /\ failed' = failed + n
        /\ batch' \in Seq(1 .. Total) /\ Len(batch') <= MaxRecords
        /\ Len(batch') + n = Len(retry)
        /\ refused \subseteq ToSet(batch') \cup gone
        /\ ToSet(batch') \subseteq refused
        /\ \/ phase' = phase /\ attempt + 1 < MaxAttempts /\ attempt' = attempt + 1
           \/ phase' \in {"done", "emitting"} /\ batch' = <<>> /\ attempt' = 0
  <2>0. /\ Len(batch) <= MaxRecords /\ Len(batch) \in Nat /\ failed \in Nat
        /\ IsFiniteSet({}) /\ Cardinality({}) <= 0
        /\ <<>> \in Seq(1 .. Total) /\ Len(<<>>) = 0 /\ ToSet(<<>>) = {}
    BY SinkTypes, FS_EmptySet, ToSetEmpty
  <2>1. CASE retry = <<>> /\ Sink!FlushReturns /\ UNCHANGED failed
    <3>1. {} \in SUBSET refused /\ 0 \in Nat
      OBVIOUS
    <3>2. refused = {} /\ batch' = <<>> /\ phase' \in {"done", "emitting"} /\ attempt' = 0
      BY <1>3, <2>0, <2>1 DEF Sink!FlushReturns
    <3>3. failed' = failed + 0 /\ Len(batch') + 0 = Len(retry) /\ Len(batch') <= MaxRecords
      BY <2>0, <2>1, <3>2, Constants
    <3> QED
      BY <2>0, <3>1, <3>2, <3>3
  <2>2. CASE /\ attempt + 1 < MaxAttempts /\ batch' = retry /\ attempt' = attempt + 1
            /\ UNCHANGED <<phase, failed>>
    <3>1. {} \in SUBSET refused /\ 0 \in Nat
      OBVIOUS
    <3>2. /\ failed' = failed + 0 /\ Len(batch') + 0 = Len(retry)
          /\ Len(batch') <= MaxRecords
      BY <1>3, <2>0, <2>2, Constants
    <3> QED
      BY <1>3, <2>0, <2>2, <3>1, <3>2
  <2>3. CASE failed' = failed + Len(retry) /\ Sink!FlushReturns
    <3>1. batch' = <<>> /\ phase' \in {"done", "emitting"} /\ attempt' = 0
      BY <2>3 DEF Sink!FlushReturns
    <3>2. Len(batch') + Len(retry) = Len(retry) /\ Len(batch') <= MaxRecords
      BY <1>3, <2>0, <3>1, Constants
    <3> QED
      BY <1>3, <1>4, <2>0, <2>3, <3>1, <3>2
  <2> QED
    BY <1>2, <2>1, <2>2, <2>3 DEF retry
<1>8. /\ sent' \in Nat /\ failed' \in Nat /\ Len(batch') \in Nat
      /\ sent' + failed' + Len(buffer') + Len(batch') = emitted'
  <2>1. Len(batch') \in Nat
    BY <1>7
  <2>2. sent' = sent + Len(batch) - Len(retry)
    BY <1>2 DEF retry
  <2>3. /\ sent \in Nat /\ failed \in Nat /\ emitted \in Nat
        /\ Len(batch) \in Nat /\ Len(buffer) \in Nat
    BY SinkTypes
  <2>4. /\ Len(retry) \in Nat /\ Len(retry) <= Len(batch)
        /\ failed' = failed + n /\ Len(batch') + n = Len(retry)
    BY <1>3, <1>7
  <2>5. sent' \in Nat /\ failed' \in Nat
    BY <2>2, <2>3, <2>4
  <2>6. sent' + failed' + Len(buffer) + Len(batch') = emitted
    BY <1>6, <2>1, <2>2, <2>3, <2>4
  <2> QED
    BY <1>1, <2>1, <2>5, <2>6
<1>9. Sink!TypeOK'
  <2>1. sent' \in 0 .. Total /\ failed' \in 0 .. Total /\ emitted' \in 0 .. Total
    <3>1. Len(buffer') \in Nat /\ emitted \in Nat /\ emitted <= Total /\ Total \in Nat
      BY <1>1, SinkTypes, Constants
    <3> QED
      BY <1>1, <1>8, <3>1
  <2>2. attempt' \in 0 .. MaxAttempts
    <3>1. attempt \in 0 .. MaxAttempts /\ MaxAttempts \in Nat
      BY Constants DEF ProducerInv, Sink!TypeOK
    <3>2. attempt' = 0 \/ (attempt' = attempt + 1 /\ attempt + 1 < MaxAttempts)
      BY <1>7
    <3> QED
      BY <3>1, <3>2
  <2>3. phase' \in Sink!Phases
    BY <1>1, <1>7 DEF Sink!Phases
  <2> QED
    BY <1>1, <1>5, <1>7, <2>1, <2>2, <2>3, SinkTypes DEF Sink!TypeOK, Sink!Record
<1>10. Cardinality(Missing') <= failed'
  <2>1. Missing' \subseteq Missing \cup gone
    BY <1>1, <1>5, <1>7 DEF Missing
  <2> QED
    BY <1>6, <1>7, <2>1, MissingCounted, SinkTypes
<1>11. (Sink!InStream \cup ToSet(buffer) \cup ToSet(batch))' \subseteq 1 .. emitted'
  BY <1>1, <1>5, <1>6, <1>7
<1>12. /\ phase' \in {"emitting", "done", "crashed"} => batch' = <<>>
       /\ phase' \in {"flushing", "closing", "done"} => buffer' = <<>>
       /\ phase' \in {"flushing", "closing"} => attempt' < MaxAttempts
  BY <1>1, <1>7
<1>13. (sent + failed + Len(buffer) + Len(batch))' <= emitted'
  BY <1>1, <1>8, SinkTypes
<1>14. ProducerInv'
  BY <1>8, <1>9, <1>10, <1>11, <1>12, <1>13 DEF ProducerInv
<1> QED
  BY <1>1, <1>5, <1>14

\* A call that stored some of the batch, and said nothing of it.
LEMMA UnheardKeeps ==
    ASSUME ProducerInv, Sink!AnswerLost \/ Sink!PutRaises
    PROVE  ProducerInv' /\ Grown /\ emitted' = emitted
           /\ Sink!InStream' \subseteq Sink!InStream \cup ToSet(batch)
<1>1. /\ emitted' = emitted /\ buffer' = buffer /\ sent' = sent /\ failed' = failed
      /\ attempt' = attempt /\ phase \in {"flushing", "closing"}
      /\ lost' = lost \/ (lost < MaxLostAnswers /\ lost' = lost + 1)
      /\ \/ phase' = phase /\ batch' = batch
         \/ phase' = "crashed" /\ batch' = <<>>
  <2>1. CASE Sink!AnswerLost
    BY <2>1 DEF Sink!AnswerLost
  <2>2. CASE Sink!PutRaises
    BY <2>2 DEF Sink!PutRaises
  <2> QED
    BY <2>1, <2>2
<1>2. PICK stored \in SUBSET ToSet(batch) : stream' = Sink!Stored(stored)
  BY SameToSet DEF Sink!AnswerLost, Sink!PutRaises
<1>3. /\ stream' \in [Shard -> Seq(1 .. Total)]
      /\ Grown
      /\ Sink!InStream' = Sink!InStream \cup stored
  BY <1>2, StoredStream DEF ProducerInv
<1>4. /\ batch' \in Seq(1 .. Total) /\ Len(batch') \in Nat /\ Len(batch') <= Len(batch)
      /\ ToSet(batch') \subseteq ToSet(batch)
  <2>1. <<>> \in Seq(1 .. Total) /\ Len(<<>>) = 0
    OBVIOUS
  <2>2. CASE batch' = batch
    BY <2>2, SinkTypes
  <2>3. CASE batch' = <<>>
    BY <2>1, <2>3, ToSetEmpty, SinkTypes
  <2> QED
    BY <1>1, <2>2, <2>3
<1>5. Sink!TypeOK'
  <2>1. lost' \in 0 .. MaxLostAnswers
    BY <1>1, SinkTypes, Constants
  <2>2. phase' \in Sink!Phases
    BY <1>1 DEF Sink!Phases
  <2>3. Len(batch') <= MaxRecords
    BY <1>4, SinkTypes, Constants
  <2> QED
    BY <1>1, <1>3, <1>4, <2>1, <2>2, <2>3 DEF ProducerInv, Sink!TypeOK, Sink!Record
<1>6. (Sink!InStream \cup ToSet(buffer) \cup ToSet(batch))' \subseteq 1 .. emitted'
  BY <1>1, <1>3, <1>4 DEF ProducerInv
<1>7. (sent + failed + Len(buffer) + Len(batch))' <= emitted'
  <2>1. sent + failed + Len(buffer) + Len(batch) <= emitted
    BY DEF ProducerInv
  <2> QED
    BY <1>1, <1>4, <2>1, SinkTypes
<1>8. ASSUME phase' # "crashed"
      PROVE  /\ (sent + failed + Len(buffer) + Len(batch))' = emitted'
             /\ Cardinality(Missing') <= failed'
  <2>1. batch' = batch /\ phase # "crashed"
    BY <1>1, <1>8
  <2>2. Missing' \subseteq Missing
    BY <1>1, <1>3, <2>1 DEF Missing
  <2>3. Cardinality(Missing) <= failed /\ sent + failed + Len(buffer) + Len(batch) = emitted
    BY <2>1 DEF ProducerInv
  <2>4. Cardinality(Missing') <= failed
    BY <2>2, <2>3, NothingMissed, SinkTypes
  <2> QED
    BY <1>1, <2>1, <2>3, <2>4
<1>9. /\ phase' \in {"emitting", "done", "crashed"} => batch' = <<>>
      /\ phase' \in {"flushing", "closing", "done"} => buffer' = <<>>
      /\ phase' \in {"flushing", "closing"} => attempt' < MaxAttempts
  BY <1>1 DEF ProducerInv
<1>10. ProducerInv'
  BY <1>5, <1>6, <1>7, <1>8, <1>9 DEF ProducerInv
<1> QED
  BY <1>1, <1>3, <1>10

\* A step of the producer keeps what it promises, and the stream only grows.
LEMMA ProducerMoves ==
    ASSUME ProducerInv, Sink!Next
    PROVE  /\ ProducerInv'
           /\ Grown /\ stream' \in [Shard -> Seq(1 .. Total)]
           /\ emitted' = emitted \/ emitted' = emitted + 1
<1>1. CASE Sink!PutRecords \/ Sink!AnswerLost \/ Sink!PutRaises
  <2>1. ProducerInv' /\ Grown /\ emitted' = emitted
    BY <1>1, PutRecordsKeeps, UnheardKeeps
  <2>2. stream' \in [Shard -> Seq(1 .. Total)]
    BY <2>1 DEF ProducerInv, Sink!TypeOK, Sink!Record
  <2> QED
    BY <2>1, <2>2
<1>2. CASE Sink!Write \/ Sink!Flush \/ Sink!Close
  <2>1. ProducerInv'
    BY <1>2, WriteKeeps, FlushKeeps
  <2>2. stream' = stream /\ (emitted' = emitted \/ emitted' = emitted + 1)
    BY <1>2 DEF Sink!Write, Sink!Flush, Sink!Close, Sink!BeginFlush
  <2>3. Grown
    <3>1. \A s \in Shard : Len(stream[s]) \in Nat
      BY SinkTypes
    <3> QED
      BY <2>2, <3>1 DEF Grown
  <2> QED
    BY <2>1, <2>2, <2>3, SinkTypes
<1> QED
  BY <1>1, <1>2 DEF Sink!Next

\* What the producer holds looks the same after a step that leaves its variables alone.
LEMMA ProducerIdle ==
    ASSUME ProducerInv, UNCHANGED <<producer, stream>>
    PROVE  ProducerInv'
<1>1. Sink!TypeOK' /\ Sink!InStream' = Sink!InStream
  BY DEF ProducerInv, producer, Sink!TypeOK, Sink!InStream
<1>2. Missing' = Missing
  BY <1>1 DEF Missing, producer
<1> QED
  BY <1>1, <1>2 DEF ProducerInv, producer

\* The updater's invariants outlast a step of the producer.
LEMMA ProducerStepKeeps ==
    ASSUME IInv, ProducerStep
    PROVE  IInv'
<1>1. /\ ProducerInv'
      /\ Grown /\ stream' \in [Shard -> Seq(1 .. Total)]
      /\ emitted' = emitted \/ emitted' = emitted + 1
  BY ProducerMoves DEF IInv, ProducerStep
<1>2. UNCHANGED updater
  BY DEF ProducerStep
<1> USE DEF updater
<1>3. /\ stream \in [Shard -> Seq(1 .. Total)] /\ position \in [Shard -> Nat]
      /\ \A s \in Shard : position[s] <= Len(stream[s])
      /\ \A s \in Shard : Len(stream[s]) \in Nat /\ Len(stream'[s]) \in Nat
      /\ \A s \in Shard : Len(invoked[s]) \in Nat
  BY <1>1 DEF IInv, UpdaterType
<1>4. StreamInv'
  <2>1. ASSUME NEW r \in 1 .. emitted'
        PROVE  Stamp[r] <= clock'
    <3>1. emitted \in Nat /\ (emitted' > emitted => Stamp[emitted'] <= clock)
      BY SinkTypes DEF IInv, ProducerStep
    <3>2. r \in 1 .. emitted \/ (emitted' > emitted /\ r = emitted')
      BY <1>1, <3>1
    <3> QED
      BY <1>2, <3>1, <3>2 DEF IInv, StreamInv
  <2>2. \A s \in Shard : \A r \in ToSet(stream'[s]) : ShardOf[CustomerOf[r]] = s
    BY <1>1 DEF Grown, IInv, StreamInv
  <2> QED
    BY <2>1, <2>2 DEF StreamInv
<1>5. UpdaterType'
  <2>1. \A s \in Shard : position[s] <= Len(stream'[s])
    BY <1>1, <1>3 DEF Grown
  <2> QED
    BY <1>1, <1>2, <2>1 DEF IInv, UpdaterType
<1>6. ASSUME NEW s \in Shard
      PROVE  InvocationInv(s)'
  <2>1. InvocationInv(s)
    BY DEF IInv
  <2>2. ASSUME invoked[s] # <<>>
        PROVE  /\ position[s] + Len(invoked[s]) <= Len(stream'[s])
               /\ \A i \in 1 .. Len(invoked[s]) : invoked[s][i] = stream'[s][position[s] + i]
    <3>1. /\ position[s] + Len(invoked[s]) <= Len(stream[s])
          /\ \A i \in 1 .. Len(invoked[s]) : invoked[s][i] = stream[s][position[s] + i]
      BY <2>1, <2>2 DEF InvocationInv
    <3>2. \A i \in 1 .. Len(invoked[s]) : position[s] + i \in 1 .. Len(stream[s])
      BY <1>3, <3>1
    <3> QED
      BY <1>1, <1>3, <3>1, <3>2 DEF Grown
  <2> QED
    BY <1>2, <2>1, <2>2 DEF InvocationInv, Delivered
<1>7. DeliveredInv'
  <2>1. \A s \in Shard : \A i \in 1 .. position[s] : stream'[s][i] = stream[s][i]
    BY <1>1, <1>3 DEF Grown
  <2>2. NothingSkipped'
    BY <1>2, <2>1 DEF IInv, DeliveredInv, NothingSkipped, Updater!NothingSkipped
  <2> QED
    BY <1>2, <2>2 DEF IInv, DeliveredInv
<1>8. CurrentInv'
  BY <1>2 DEF IInv, CurrentInv, Same, Past
<1> QED
  BY <1>1, <1>4, <1>5, <1>6, <1>7, <1>8 DEF IInv

-----------------------------------------------------------------------------
(* The feature updater.                                                     *)

\* The events that a batch has for a customer: one of each of its usable records,
\* none later than the handler's time and the records'.
LEMMA NewEventsAre ==
    ASSUME NEW records \in Seq(1 .. Total), NEW c \in Customer, NEW at \in 1 .. MaxClock
    PROVE  LET new == Updater!NewEvents(records, c, at)
           IN  /\ new \in Seq(Event)
               /\ \A r \in ToSet(records) \cap Usable :
                      CustomerOf[r] = c => \E e \in ToSet(new) : e.record = r
               /\ \A e \in ToSet(new) :
                      /\ e.record \in ToSet(records)
                      /\ e.t = at \/ e.t = Stamp[e.record]
<1> DEFINE mine == Only(records, {r \in Usable : CustomerOf[r] = c})
           time(r) == IF Stamp[r] = 0 THEN at ELSE Stamp[r]
           new == Updater!NewEvents(records, c, at)
<1>1. /\ mine \in Seq(1 .. Total)
      /\ ToSet(mine) = ToSet(records) \cap {r \in Usable : CustomerOf[r] = c}
  BY OnlyKeeps
<1>2. new = [i \in DOMAIN mine |-> [record |-> mine[i], t |-> time(mine[i])]]
  BY SameOnly DEF Updater!NewEvents
<1> HIDE DEF new, mine
<1>3. ASSUME NEW r \in 1 .. Total
      PROVE  time(r) \in 1 .. MaxClock
  <2>1. Stamp[r] \in 0 .. MaxClock /\ MaxClock \in Nat
    BY Constants
  <2> QED
    BY <2>1
<1>4. /\ DOMAIN mine = 1 .. Len(mine) /\ Len(mine) \in Nat
      /\ \A i \in 1 .. Len(mine) : mine[i] \in 1 .. Total
  <2>1. mine \in Seq(1 .. Total)
    BY <1>1
  <2> QED
    BY <2>1, Elements
<1>5. \A i \in 1 .. Len(mine) : /\ new[i].record = mine[i] /\ new[i].t = time(mine[i])
                                /\ new[i] \in Event
  BY <1>2, <1>3, <1>4 DEF Event, Updater!Entry, Updater!Time
<1>6. new \in Seq(Event) /\ DOMAIN new = DOMAIN mine
  BY <1>2, <1>4, <1>5, IsASeq
<1>7. ASSUME NEW r \in ToSet(records) \cap Usable, CustomerOf[r] = c
      PROVE  \E e \in ToSet(new) : e.record = r
  <2>1. PICK i \in DOMAIN mine : mine[i] = r
    BY <1>1, <1>7 DEF ToSet
  <2> QED
    BY <1>4, <1>5, <1>6, <2>1 DEF ToSet
<1>8. ASSUME NEW e \in ToSet(new)
      PROVE  e.record \in ToSet(records) /\ (e.t = at \/ e.t = Stamp[e.record])
  <2>1. PICK i \in DOMAIN mine : e = new[i]
    BY <1>6 DEF ToSet
  <2>2. mine[i] \in ToSet(mine)
    BY <2>1 DEF ToSet
  <2> QED
    BY <1>1, <1>4, <1>5, <2>1, <2>2
<1> QED
  BY <1>6, <1>7, <1>8 DEF new

\* What an invocation holds is in the stream.
LEMMA InvokedInStream ==
    ASSUME IInv, NEW s \in Shard, NEW r \in ToSet(invoked[s])
    PROVE  r \in ToSet(stream[s]) /\ r \in 1 .. emitted /\ Stamp[r] <= clock
<1>1. /\ invoked[s] \in Seq(1 .. Total) /\ stream[s] \in Seq(1 .. Total)
      /\ position[s] \in Nat
  BY DEF IInv, UpdaterType
<1>2. PICK i \in 1 .. Len(invoked[s]) : invoked[s][i] = r
  BY <1>1 DEF ToSet
<1>3. invoked[s] # <<>>
  BY <1>1, <1>2
<1>4. /\ position[s] + Len(invoked[s]) <= Len(stream[s])
      /\ invoked[s][i] = stream[s][position[s] + i]
  BY <1>2, <1>3 DEF IInv, InvocationInv
<1>5. position[s] + i \in DOMAIN stream[s]
  BY <1>1, <1>2, <1>4
<1>6. r \in ToSet(stream[s])
  BY <1>2, <1>4, <1>5 DEF ToSet
<1>7. r \in Sink!InStream
  BY <1>6, SameToSet DEF Sink!InStream
<1>8. r \in 1 .. emitted
  BY <1>7 DEF IInv, ProducerInv
<1> QED
  BY <1>6, <1>8 DEF IInv, StreamInv

\* What is delivered stays so.
LEMMA DeliveredStays ==
    ASSUME UpdaterType, UNCHANGED delivered
    PROVE  /\ \A r : Delivered(r) => Delivered(r)'
           /\ UNCHANGED stream /\ UNCHANGED position /\ NothingSkipped => NothingSkipped'
<1>1. \A r : Delivered(r) => Delivered(r)'
  BY DEF Delivered
<1>2. UNCHANGED stream /\ UNCHANGED position /\ NothingSkipped => NothingSkipped'
  BY DEF NothingSkipped, Updater!NothingSkipped
<1> QED
  BY <1>1, <1>2

\* The next n elements of a sequence.
LEMMA NextElements ==
    ASSUME NEW A, NEW q \in Seq(A), NEW p \in Nat, NEW n \in Nat, p + n <= Len(q),
           NEW b, b = SubSeq(q, p + 1, p + n)
    PROVE  /\ b \in Seq(A) /\ Len(b) = n
           /\ \A i \in 1 .. n : b[i] = q[p + i]
<1>1. Len(q) \in Nat /\ p + 1 \in 1 .. Len(q) + 1 /\ p + n \in p .. Len(q)
  OBVIOUS
<1>2. b \in Seq(A) /\ Len(b) = n /\ \A i \in 1 .. n : b[i] = q[p + i]
  <2>1. b = [i \in 1 .. n |-> q[p + i]]
    <3>1. p + n - (p + 1) + 1 = n
      OBVIOUS
    <3>2. \A i \in 1 .. n : p + 1 + i - 1 = p + i
      OBVIOUS
    <3> QED
      BY <1>1, <3>1, <3>2
  <2>2. \A i \in 1 .. n : q[p + i] \in A
    BY <1>1
  <2> QED
    BY <2>1, <2>2, IsASeq
<1> QED
  BY <1>2

\* A shard's next invocation takes the batch behind its checkpoint; all of it is pending.
LEMMA PollKeeps ==
    ASSUME IInv, NEW s \in Shard, Updater!Poll(s)
    PROVE  /\ UpdaterType' /\ DeliveredInv' /\ CurrentInv'
           /\ \A u \in Shard : InvocationInv(u)'
<1>1. /\ UpdaterType /\ InvocationInv(s)
      /\ stream[s] \in Seq(1 .. Total) /\ Len(stream[s]) \in Nat /\ position[s] \in Nat
  BY DEF IInv, UpdaterType
<1>2. PICK n \in 1 .. BatchSize :
        /\ position[s] + n <= Len(stream[s])
        /\ invoked' = [invoked EXCEPT ![s] = SubSeq(stream[s], position[s] + 1, position[s] + n)]
        /\ pending' = [pending EXCEPT
                          ![s] = {CustomerOf[r] : r \in ToSet(invoked'[s]) \cap Usable}]
  BY SameToSet DEF Updater!Poll
<1>3. /\ invoked[s] = <<>>
      /\ UNCHANGED <<stream, clock, position, reading, failures, store, older, updated,
                     delivered, mended>>
  BY DEF Updater!Poll
<1>4. /\ invoked'[s] \in Seq(1 .. Total) /\ Len(invoked'[s]) = n /\ invoked'[s] # <<>>
      /\ \A i \in 1 .. n : invoked'[s][i] = stream[s][position[s] + i]
      /\ ToSet(invoked'[s]) \subseteq ToSet(stream[s])
  <2> DEFINE b == invoked'[s]
             q == stream[s]
             p == position[s]
             A == 1 .. Total
  <2>1. n \in Nat /\ n > 0
    BY Constants
  <2>2. /\ q \in Seq(A) /\ p \in Nat /\ p + n <= Len(q)
        /\ b = SubSeq(q, p + 1, p + n)
    BY <1>1, <1>2 DEF UpdaterType
  <2> HIDE DEF b, q, p, A
  <2>3. /\ b \in Seq(A) /\ Len(b) = n
        /\ \A i \in 1 .. n : p + i \in DOMAIN q /\ b[i] = q[p + i]
    <3>1. b \in Seq(A)
      BY <2>1, <2>2, NextElements
    <3>2. Len(b) = n
      BY <2>1, <2>2, NextElements
    <3>3. \A i \in 1 .. n : b[i] = q[p + i]
      BY <2>1, <2>2, NextElements
    <3>4. \A i \in 1 .. n : p + i \in DOMAIN q
      BY <2>1, <2>2, Elements
    <3> QED
      BY <3>1, <3>2, <3>3, <3>4
  <2>4. b # <<>>
    BY <2>1, <2>3
  <2>5. ToSet(b) \subseteq ToSet(q)
    <3>1. DOMAIN b = 1 .. n
      BY <2>3, Elements
    <3> QED
      BY <2>3, <3>1 DEF ToSet
  <2> QED
    BY <2>3, <2>4, <2>5 DEF b, q, p, A
<1>5. ToSet(invoked'[s]) \subseteq 1 .. Total
  BY <1>4, ToSetSize
<1>6. /\ pending'[s] = {CustomerOf[r] : r \in ToSet(invoked'[s]) \cap Usable}
      /\ pending'[s] \subseteq Customer
      /\ \A c \in pending'[s] : ShardOf[c] = s
  <2>1. pending'[s] = {CustomerOf[r] : r \in ToSet(invoked'[s]) \cap Usable}
    BY <1>1, <1>2 DEF UpdaterType
  <2>2. \A r \in ToSet(invoked'[s]) : ShardOf[CustomerOf[r]] = s
    BY <1>4 DEF IInv, StreamInv
  <2>3. \A r \in Usable : CustomerOf[r] \in Customer
    BY Constants
  <2> QED
    BY <2>1, <2>2, <2>3
<1>7. \A u \in Shard \ {s} : invoked'[u] = invoked[u] /\ pending'[u] = pending[u]
  BY <1>1, <1>2, <1>3 DEF UpdaterType
<1>8. reading[s] = {}
  BY <1>1, <1>3 DEF InvocationInv
<1>9. UpdaterType'
  <2>1. /\ invoked' \in [Shard -> Seq(1 .. Total)]
        /\ pending' \in [Shard -> SUBSET Customer]
    <3>1. /\ clock \in 1 .. MaxClock
          /\ invoked \in [Shard -> Seq(1 .. Total)] /\ pending \in [Shard -> SUBSET Customer]
      BY <1>1 DEF UpdaterType
    <3>3. invoked' \in [Shard -> Seq(1 .. Total)]
      <4>1. DOMAIN invoked' = Shard /\ \A u \in Shard : invoked'[u] \in Seq(1 .. Total)
        BY <1>2, <1>4, <1>7, <3>1
      <4>2. invoked' = [u \in Shard |-> invoked'[u]]
        BY <1>2, <3>1
      <4> QED
        BY <4>1, <4>2
    <3>4. pending' \in [Shard -> SUBSET Customer]
      <4>1. \A u \in Shard : pending'[u] \in SUBSET Customer
        BY <1>6, <1>7, <3>1
      <4>2. pending' = [u \in Shard |-> pending'[u]]
        BY <1>2, <3>1
      <4> QED
        BY <4>1, <4>2
    <3> QED
      BY <3>3, <3>4
  <2>2. \A u \in Shard : \A item \in reading'[u] : item.customer \in pending'[u]
    BY <1>1, <1>3, <1>7, <1>8 DEF UpdaterType
  <2> QED
    BY <1>1, <1>3, <2>1, <2>2 DEF UpdaterType
<1>10. ASSUME NEW u \in Shard
       PROVE  InvocationInv(u)'
  <2>1. CASE u = s
    BY <1>2, <1>3, <1>4, <1>6, <2>1 DEF InvocationInv
  <2>2. CASE u # s
    BY <1>3, <1>7, <2>2 DEF IInv, InvocationInv, Delivered
  <2> QED
    BY <2>1, <2>2
<1>11. DeliveredInv'
  BY <1>1, <1>3, DeliveredStays DEF IInv, DeliveredInv
<1>12. CurrentInv'
  BY <1>3 DEF IInv, CurrentInv, Same, Past
<1> QED
  BY <1>9, <1>10, <1>11, <1>12

\* Reading an item leaves the batch as pending as it was.
LEMMA GetItemKeeps ==
    ASSUME IInv, NEW s \in Shard, NEW c \in Customer, Updater!GetItem(s, c)
    PROVE  /\ UpdaterType' /\ DeliveredInv' /\ CurrentInv'
           /\ \A u \in Shard : InvocationInv(u)'
<1>1. UpdaterType /\ InvocationInv(s) /\ c \in pending[s]
  BY DEF IInv, Updater!GetItem
<1>2. PICK seen \in {store[c], older[c]} :
        reading' = [reading EXCEPT
            ![s] = {[customer |-> c, events |-> seen, current |-> seen = store[c]]}]
  BY DEF Updater!GetItem
<1>3. UNCHANGED <<stream, clock, position, invoked, pending, failures, store, older, updated,
                  delivered, mended>>
  BY DEF Updater!GetItem
<1> DEFINE item == [customer |-> c, events |-> seen, current |-> seen = store[c]]
<1>4. /\ item \in Item /\ item.customer = c /\ item.events = seen
      /\ item.current = (seen = store[c])
  BY <1>1 DEF UpdaterType, Item
<1> HIDE DEF item
<1>5. /\ reading' = [reading EXCEPT ![s] = {item}] /\ reading'[s] = {item}
      /\ \A u \in Shard \ {s} : reading'[u] = reading[u]
  BY <1>1, <1>2 DEF UpdaterType, item
<1>6. UpdaterType'
  <2>1. reading' \in [Shard -> SUBSET Item]
    BY <1>1, <1>4, <1>5 DEF UpdaterType
  <2>2. \A u \in Shard : \A i \in reading'[u] : i.customer \in pending'[u]
    BY <1>1, <1>3, <1>4, <1>5 DEF UpdaterType
  <2> QED
    BY <1>1, <1>3, <2>1, <2>2 DEF UpdaterType
<1>7. ASSUME NEW u \in Shard
      PROVE  InvocationInv(u)'
  <2>1. invoked[s] # <<>>
    BY <1>1 DEF InvocationInv
  <2>2. invoked[u] = <<>> => u # s
    BY <2>1
  <2> QED
    BY <1>3, <1>5, <2>2 DEF IInv, InvocationInv, Delivered
<1>8. DeliveredInv'
  BY <1>1, <1>3, DeliveredStays DEF IInv, DeliveredInv
<1>9. CurrentInv'
  <2>1. /\ Same(store[c], delivered[c], mended[c])
        /\ Past(seen)
    BY DEF IInv, CurrentInv
  <2>2. /\ item.current => Same(item.events, delivered[item.customer], mended[item.customer])
        /\ Past(item.events)
    BY <1>4, <2>1
  <2> QED
    BY <1>3, <1>5, <2>2 DEF IInv, CurrentInv, Same, Past
<1> QED
  BY <1>6, <1>7, <1>8, <1>9

LEMMA ConcatThree ==
    \A a, b, c \in Seq(Event) : (a \o b) \o c = a \o (b \o c)
<1> DEFINE A == Event
<1> HIDE DEF A
<1>1. ASSUME NEW a \in Seq(A), NEW b \in Seq(A), NEW c \in Seq(A)
      PROVE  (a \o b) \o c = a \o (b \o c)
  BY ConcatAssociative
<1> QED
  BY <1>1 DEF A

\* Two lists that compact to the same still do when the same events come in, whether or
\* not one of them has been compacted meanwhile.
LEMMA SameAfter ==
    ASSUME clock \in Nat, NEW x \in Seq(Event), NEW y \in Seq(Event), NEW new \in Seq(Event),
           NEW from, Same(x, y, from)
    PROVE  Same(Updater!compact_events(x \o new, clock), y \o new, from)
<1> SUFFICES ASSUME NEW w \in Seq(Event), NEW at \in Nat, clock <= at, from <= at
             PROVE  Updater!compact_events(Updater!compact_events(x \o new, clock) \o w, at)
                        = Updater!compact_events((y \o new) \o w, at)
  BY DEF Same
<1>1. x \o new \in Seq(Event) /\ new \o w \in Seq(Event)
  OBVIOUS
<1>2. Updater!compact_events(Updater!compact_events(x \o new, clock) \o w, at)
          = Updater!compact_events((x \o new) \o w, at)
  <2> DEFINE z == x \o new
  <2>1. z \in Seq(Event)
    BY <1>1
  <2> HIDE DEF z
  <2>2. Updater!compact_events(Updater!compact_events(z, clock) \o w, at)
            = Updater!compact_events(z \o w, at)
    BY <2>1, CompactAbsorbs
  <2> QED
    BY <2>2 DEF z
<1>3. (x \o new) \o w = x \o (new \o w) /\ (y \o new) \o w = y \o (new \o w)
  BY ConcatThree
<1>4. Updater!compact_events(x \o (new \o w), at) = Updater!compact_events(y \o (new \o w), at)
  BY <1>1 DEF Same
<1> QED
  BY <1>2, <1>3, <1>4

\* Once every event of a list is past the horizon, it may be forgotten.
LEMMA PastForgotten ==
    ASSUME clock \in Nat, NEW x \in Seq(Event), Past(x), NEW w \in Seq(Event), NEW at \in Nat,
           clock + Horizon + 1 <= at
    PROVE  Updater!compact_events(w, at) = Updater!compact_events(x \o w, at)
<1>1. ASSUME NEW i \in DOMAIN x
      PROVE  x[i].t + Horizon < at
  <2>1. x[i] \in ToSet(x) /\ x[i] \in Event
    BY Elements DEF ToSet
  <2>2. x[i].t <= clock /\ x[i].t \in Nat
    BY <2>1, EventTime DEF Past
  <2> QED
    BY <2>2, Horizons
<1> QED
  BY <1>1, CompactForgets

\* Any two lists of the past do, beyond the horizon.
LEMMA SameBeyond ==
    ASSUME clock \in Nat, NEW x \in Seq(Event), Past(x), NEW y \in Seq(Event), Past(y)
    PROVE  Same(x, y, clock + Horizon + 1)
<1> SUFFICES ASSUME NEW w \in Seq(Event), NEW at \in Nat, clock + Horizon + 1 <= at
             PROVE  Updater!compact_events(x \o w, at) = Updater!compact_events(y \o w, at)
  BY DEF Same
<1>1. Updater!compact_events(w, at) = Updater!compact_events(x \o w, at)
  BY PastForgotten
<1>2. Updater!compact_events(w, at) = Updater!compact_events(y \o w, at)
  BY PastForgotten
<1> QED
  BY <1>1, <1>2

\* Compaction invents no event.
LEMMA CompactPast ==
    ASSUME clock \in Nat, NEW x \in Seq(Event), Past(x)
    PROVE  Past(Updater!compact_events(x, clock))
<1> DEFINE z == Updater!compact_events(x, clock)
<1>1. PICK p : Compacts(z, p, x, clock)
  BY CompactKeeps
<1>2. z \in Seq(Event)
  BY <1>1 DEF Compacts
<1> HIDE DEF z
<1>3. ASSUME NEW e \in ToSet(z)
      PROVE  e.t <= clock
  <2>1. PICK k \in 1 .. Len(z) : z[k] = e
    BY <1>2 DEF ToSet
  <2>2. p[k] \in DOMAIN x /\ z[k] = x[p[k]]
    BY <1>1, <2>1 DEF Compacts, Keeps
  <2>3. e \in ToSet(x)
    BY <2>1, <2>2 DEF ToSet
  <2> QED
    BY <2>3 DEF Past
<1> QED
  BY <1>3 DEF Past, z

\* What reads may return after a write is a version of the item before it.
LEMMA OlderKept ==
    ASSUME UpdaterType, NEW c \in Customer, Updater!LeavesOlder(c)
    PROVE  /\ older' \in [Customer -> Seq(Event)]
           /\ \A d \in Customer : older'[d] \in {older[d], store[d]}
BY DEF UpdaterType, Updater!LeavesOlder

\* Writing an item delivers the customer's records of the batch, and the new item compacts
\* to what everything delivered so far compacts to.
LEMMA PutItemKeeps ==
    ASSUME IInv, NEW s \in Shard, Updater!PutItem(s)
    PROVE  /\ UpdaterType' /\ DeliveredInv' /\ CurrentInv'
           /\ \A u \in Shard : InvocationInv(u)'
<1>0. PICK item \in reading[s] : \E new \in {Updater!NewEvents(invoked[s], item.customer, clock)} :
        /\ store' = [store EXCEPT ![item.customer] =
                        Updater!compact_events(item.events \o new, clock)]
        /\ Updater!LeavesOlder(item.customer)
        /\ updated' = [updated EXCEPT ![item.customer] = clock]
        /\ delivered' = [delivered EXCEPT ![item.customer] = @ \o new]
        /\ mended' = [mended EXCEPT
                ![item.customer] = IF item.current THEN @ ELSE clock + Horizon + 1]
        /\ pending' = [pending EXCEPT ![s] = @ \ {item.customer}]
  BY DEF Updater!PutItem
<1>1. PICK new \in {Updater!NewEvents(invoked[s], item.customer, clock)} :
        /\ store' = [store EXCEPT ![item.customer] =
                        Updater!compact_events(item.events \o new, clock)]
        /\ Updater!LeavesOlder(item.customer)
        /\ updated' = [updated EXCEPT ![item.customer] = clock]
        /\ delivered' = [delivered EXCEPT ![item.customer] = @ \o new]
        /\ mended' = [mended EXCEPT
                ![item.customer] = IF item.current THEN @ ELSE clock + Horizon + 1]
        /\ pending' = [pending EXCEPT ![s] = @ \ {item.customer}]
  BY <1>0
<1>2. /\ reading' = [reading EXCEPT ![s] = {}]
      /\ UNCHANGED <<stream, clock, position, invoked, failures>>
  BY DEF Updater!PutItem
<1>3. UpdaterType /\ InvocationInv(s)
  BY DEF IInv
<1> DEFINE c == item.customer
<1>4. /\ c \in Customer /\ c \in pending[s] /\ item.events \in Seq(Event)
      /\ item.current \in BOOLEAN
      /\ invoked[s] \in Seq(1 .. Total) /\ clock \in 1 .. MaxClock
      /\ ShardOf[c] = s
  <2>1. item \in Item
    BY <1>3 DEF UpdaterType
  <2> QED
    BY <1>3, <2>1 DEF UpdaterType, InvocationInv, Item
<1>5. /\ new \in Seq(Event)
      /\ \A r \in ToSet(invoked[s]) \cap Usable :
             CustomerOf[r] = c => \E e \in ToSet(new) : e.record = r
      /\ \A e \in ToSet(new) : e.t <= clock
  <2>1. /\ new \in Seq(Event)
        /\ \A r \in ToSet(invoked[s]) \cap Usable :
               CustomerOf[r] = c => \E e \in ToSet(new) : e.record = r
        /\ \A e \in ToSet(new) : e.record \in ToSet(invoked[s])
                                 /\ (e.t = clock \/ e.t = Stamp[e.record])
    BY <1>4, NewEventsAre
  <2>2. \A r \in ToSet(invoked[s]) : Stamp[r] <= clock
    BY InvokedInStream
  <2>3. clock <= clock
    BY <1>4, Constants
  <2> QED
    BY <1>4, <2>1, <2>2, <2>3
<1> DEFINE kept == Updater!compact_events(item.events \o new, clock)
           from == IF item.current THEN mended[c] ELSE clock + Horizon + 1
<1> HIDE DEF c, kept, from
<1>6. /\ store' = [store EXCEPT ![c] = kept]
      /\ updated' = [updated EXCEPT ![c] = clock]
      /\ delivered' = [delivered EXCEPT ![c] = delivered[c] \o new]
      /\ pending' = [pending EXCEPT ![s] = pending[s] \ {c}]
      /\ mended' = [mended EXCEPT ![c] = from]
      /\ Updater!LeavesOlder(c)
  BY <1>1, <1>4 DEF c, kept, from
<1>7. kept \in Seq(Event) /\ clock \in Nat
  <2>1. item.events \o new \in Seq(Event) /\ clock \in Nat
    BY <1>4, <1>5, Constants
  <2> QED
    BY <2>1, CompactKeeps DEF kept
<1>8. /\ delivered[c] \in Seq(Event)
      /\ store'[c] = kept /\ updated'[c] = clock
      /\ delivered'[c] = delivered[c] \o new /\ delivered'[c] \in Seq(Event)
      /\ ToSet(delivered'[c]) = ToSet(delivered[c]) \cup ToSet(new)
      /\ pending'[s] = pending[s] \ {c} /\ reading'[s] = {}
      /\ mended'[c] = from /\ from \in Nat
  <2>0. from \in Nat /\ mended'[c] = from
    BY <1>3, <1>4, <1>6, <1>7, Constants DEF UpdaterType, from
  <2>1. /\ delivered[c] \in Seq(Event) /\ store'[c] = kept /\ updated'[c] = clock
        /\ delivered'[c] = delivered[c] \o new
        /\ pending'[s] = pending[s] \ {c} /\ reading'[s] = {}
    BY <1>2, <1>3, <1>4, <1>6 DEF UpdaterType
  <2>2. delivered[c] \o new \in Seq(Event)
    BY <1>5, <2>1
  <2> QED
    BY <1>5, <2>0, <2>1, <2>2, ToSetConcat
<1>9. /\ \A d \in Customer \ {c} :
             /\ store'[d] = store[d] /\ updated'[d] = updated[d]
             /\ delivered'[d] = delivered[d] /\ mended'[d] = mended[d]
      /\ \A u \in Shard \ {s} : pending'[u] = pending[u] /\ reading'[u] = reading[u]
  BY <1>2, <1>3, <1>6 DEF UpdaterType
\* Nobody else has the item in hand: its customer's records are on this shard only.
<1>10. \A u \in Shard \ {s} : \A i \in reading[u] : i.customer \in Customer \ {c}
  BY <1>3, <1>4 DEF IInv, InvocationInv, UpdaterType
<1>11. UpdaterType'
  <2>1. /\ store' \in [Customer -> Seq(Event)]
        /\ updated' \in [Customer -> 1 .. MaxClock]
        /\ delivered' \in [Customer -> Seq(Event)]
        /\ mended' \in [Customer -> Nat] /\ older' \in [Customer -> Seq(Event)]
    BY <1>3, <1>4, <1>6, <1>7, <1>8, OlderKept DEF UpdaterType
  <2>2. /\ pending' \in [Shard -> SUBSET Customer]
        /\ reading' \in [Shard -> SUBSET Item]
    BY <1>2, <1>3, <1>6 DEF UpdaterType
  <2>3. \A u \in Shard : \A i \in reading'[u] : i.customer \in pending'[u]
    BY <1>3, <1>8, <1>9 DEF UpdaterType
  <2> QED
    BY <1>2, <1>3, <2>1, <2>2, <2>3 DEF UpdaterType
<1>12. \A r : Delivered(r) /\ CustomerOf[r] \in Customer => Delivered(r)'
  BY <1>8, <1>9 DEF Delivered
<1>13. ASSUME NEW u \in Shard
       PROVE  InvocationInv(u)'
  <2>1. ASSUME NEW r \in ToSet(invoked[u]) \cap Usable
        PROVE  CustomerOf[r] \in pending'[u] \/ Delivered(r)'
    <3>1. CustomerOf[r] \in Customer
      BY Constants
    <3>2. CustomerOf[r] \in pending[u] \/ Delivered(r)
      BY DEF IInv, InvocationInv
    <3>3. CASE u = s /\ CustomerOf[r] = c
      <4>1. \E e \in ToSet(new) : e.record = r
        BY <1>5, <3>3
      <4> QED
        BY <1>8, <3>3, <4>1 DEF Delivered
    <3> QED
      BY <1>8, <1>9, <1>12, <3>1, <3>2, <3>3
  <2>2. invoked[s] # <<>>
    BY <1>3, <1>4 DEF InvocationInv
  <2>3. pending'[u] \subseteq pending[u]
    BY <1>8, <1>9
  <2>4. invoked[u] = <<>> => pending'[u] = {} /\ reading'[u] = {}
    BY <1>9, <2>2 DEF IInv, InvocationInv
  <2> QED
    BY <1>2, <2>1, <2>3, <2>4 DEF IInv, InvocationInv
<1>14. DeliveredInv'
  <2>1. \A d \in Customer : updated'[d] <= clock'
    <3>1. clock <= clock
      BY <1>7
    <3> QED
      BY <1>2, <1>8, <1>9, <3>1 DEF IInv, DeliveredInv
  <2>2. ASSUME NEW d \in Customer, NEW e \in ToSet(delivered'[d])
        PROVE  e.t <= updated'[d]
    <3>1. CASE d = c /\ e \in ToSet(new)
      BY <1>5, <1>8, <3>1
    <3>2. CASE d = c /\ e \in ToSet(delivered[d])
      <4>1. e.t <= updated[d] /\ updated[d] <= clock
        BY <3>2 DEF IInv, DeliveredInv
      <4>2. e \in Event /\ e.t \in Nat /\ updated[d] \in Nat
        BY <1>3, <1>8, <3>2, ToSetSize, EventTime, Constants DEF UpdaterType
      <4> QED
        BY <1>7, <1>8, <3>2, <4>1, <4>2
    <3>3. CASE d # c
      BY <1>9, <3>3 DEF IInv, DeliveredInv
    <3> QED
      BY <1>8, <3>1, <3>2, <3>3
  <2>3. NothingSkipped'
    <3>1. \A r \in Usable : CustomerOf[r] \in Customer
      BY Constants
    <3>2. \A u \in Shard : \A i \in 1 .. position[u] :
              stream[u][i] \in Usable => Delivered(stream[u][i])
      BY SameToSet DEF IInv, DeliveredInv, NothingSkipped, Updater!NothingSkipped, Delivered
    <3>3. \A u \in Shard : \A i \in 1 .. position[u] :
              stream[u][i] \in Usable => Delivered(stream[u][i])'
      BY <1>2, <1>12, <3>1, <3>2 DEF Delivered
    <3> QED
      BY <1>2, <3>3, SameToSet DEF NothingSkipped, Updater!NothingSkipped, Delivered
  <2> QED
    BY <2>1, <2>2, <2>3 DEF DeliveredInv
<1>15. CurrentInv'
  <2>0. /\ Past(item.events) /\ Past(delivered[c]) /\ Past(new)
        /\ \A d \in Customer : Past(store[d]) /\ Past(older[d])
    <3>1. ASSUME NEW e \in ToSet(delivered[c])
          PROVE  e.t <= clock
      <4>1. e \in Event /\ e.t \in Nat
        BY <1>8, ToSetSize, EventTime
      <4>2. e.t <= updated[c] /\ updated[c] <= clock /\ updated[c] \in Nat
        BY <1>3, <1>4, Constants DEF IInv, DeliveredInv, UpdaterType
      <4> QED
        BY <1>7, <4>1, <4>2
    <3> QED
      BY <1>4, <1>5, <3>1 DEF IInv, CurrentInv, Past
  <2>1. Same(kept, delivered[c] \o new, from)
    <3>1. CASE item.current
      <4>1. Same(item.events, delivered[c], from)
        BY <3>1 DEF IInv, CurrentInv, c, from
      <4> QED
        BY <1>4, <1>5, <1>7, <1>8, <4>1, SameAfter DEF kept
    <3>2. CASE ~ item.current
      <4>1. Same(item.events, delivered[c], from)
        BY <1>4, <1>7, <1>8, <2>0, <3>2, SameBeyond DEF from
      <4> QED
        BY <1>4, <1>5, <1>7, <1>8, <4>1, SameAfter DEF kept
    <3> QED
      BY <3>1, <3>2
  <2>2. Past(kept)
    <3>1. item.events \o new \in Seq(Event)
      BY <1>4, <1>5
    <3>2. Past(item.events \o new)
      BY <1>4, <1>5, <2>0, ToSetConcat DEF Past
    <3> DEFINE x == item.events \o new
    <3> HIDE DEF x
    <3>3. Past(Updater!compact_events(x, clock))
      BY <1>7, <3>1, <3>2, CompactPast DEF x
    <3> QED
      BY <3>3 DEF kept, x
  <2>3. ASSUME NEW d \in Customer
        PROVE  /\ Same(store'[d], delivered'[d], mended'[d])
               /\ Past(store'[d]) /\ Past(older'[d])
    <3>1. Past(older'[d])
      BY <1>3, <1>4, <1>6, <2>0, OlderKept
    <3>2. CASE d = c
      BY <1>8, <2>1, <2>2, <3>1, <3>2
    <3>3. CASE d # c
      <4>1. /\ store'[d] = store[d] /\ delivered'[d] = delivered[d] /\ mended'[d] = mended[d]
        BY <1>9, <3>3
      <4>2. Same(store[d], delivered[d], mended[d])
        BY DEF IInv, CurrentInv
      <4> QED
        BY <2>0, <3>1, <4>1, <4>2
    <3> QED
      BY <3>2, <3>3
  <2>4. ASSUME NEW u \in Shard, NEW i \in reading'[u]
        PROVE  /\ i.current => Same(i.events, delivered'[i.customer], mended'[i.customer])
               /\ Past(i.events)
    <3>1. u # s /\ i \in reading[u]
      BY <1>8, <1>9
    <3>2. i.customer \in Customer \ {c}
      BY <1>10, <3>1
    <3>3. /\ i.current => Same(i.events, delivered[i.customer], mended[i.customer])
          /\ Past(i.events)
      BY <3>1 DEF IInv, CurrentInv
    <3> QED
      BY <1>9, <3>2, <3>3
  <2> QED
    BY <1>2, <2>3, <2>4 DEF CurrentInv, Same, Past
<1> QED
  BY <1>11, <1>13, <1>14, <1>15

\* An invocation returns when nothing usable of its batch is pending: the checkpoint may
\* pass over it.
LEMMA ReturnKeeps ==
    ASSUME IInv, NEW s \in Shard, Updater!Return(s)
    PROVE  /\ UpdaterType' /\ DeliveredInv' /\ CurrentInv'
           /\ \A u \in Shard : InvocationInv(u)'
<1>1. /\ UpdaterType /\ InvocationInv(s)
      /\ invoked[s] # <<>> /\ pending[s] = {} /\ reading[s] = {}
      /\ position' = [position EXCEPT ![s] = position[s] + Len(invoked[s])]
      /\ invoked' = [invoked EXCEPT ![s] = <<>>]
      /\ UNCHANGED <<stream, clock, pending, reading, failures, store, older, updated,
                     delivered, mended>>
  BY DEF IInv, Updater!Return, Updater!InvocationEnds
<1>2. /\ position[s] \in Nat /\ Len(invoked[s]) \in Nat /\ invoked[s] \in Seq(1 .. Total)
      /\ position[s] + Len(invoked[s]) <= Len(stream[s])
      /\ \A i \in 1 .. Len(invoked[s]) : invoked[s][i] = stream[s][position[s] + i]
  BY <1>1 DEF UpdaterType, InvocationInv
<1>3. /\ position'[s] = position[s] + Len(invoked[s]) /\ invoked'[s] = <<>>
      /\ \A u \in Shard \ {s} : position'[u] = position[u] /\ invoked'[u] = invoked[u]
      /\ position' \in [Shard -> Nat] /\ invoked' \in [Shard -> Seq(1 .. Total)]
  BY <1>1, <1>2 DEF UpdaterType
<1>4. UpdaterType'
  <2>1. \A u \in Shard : position'[u] <= Len(stream'[u])
    BY <1>1, <1>2, <1>3 DEF UpdaterType
  <2> QED
    BY <1>1, <1>3, <2>1 DEF UpdaterType
<1>5. \A r : Delivered(r)' = Delivered(r)
  BY <1>1 DEF Delivered
<1>6. ASSUME NEW u \in Shard
      PROVE  InvocationInv(u)'
  <2>1. CASE u = s
    <3>1. ToSet(invoked'[u]) = {}
      BY <1>3, <2>1, ToSetEmpty
    <3> QED
      BY <1>1, <1>3, <2>1, <3>1 DEF InvocationInv
  <2>2. CASE u # s
    <3>1. InvocationInv(u)
      BY DEF IInv
    <3> QED
      BY <1>1, <1>3, <1>5, <2>2, <3>1 DEF InvocationInv
  <2> QED
    BY <2>1, <2>2
\* The records the checkpoint passes have all been written.
<1>7. NothingSkipped'
  <2>1. \A u \in Shard : \A i \in 1 .. position[u] :
            stream[u][i] \in Usable => Delivered(stream[u][i])
    BY SameToSet DEF IInv, DeliveredInv, NothingSkipped, Updater!NothingSkipped, Delivered
  <2>2. ASSUME NEW i \in 1 .. position'[s], i \notin 1 .. position[s],
               stream[s][i] \in Usable
        PROVE  Delivered(stream[s][i])
    <3>1. i - position[s] \in 1 .. Len(invoked[s]) /\ position[s] + (i - position[s]) = i
      BY <1>2, <1>3, <2>2
    <3>2. invoked[s][i - position[s]] = stream[s][i]
      BY <1>2, <3>1
    <3>3. stream[s][i] \in ToSet(invoked[s])
      BY <1>2, <3>1, <3>2, Elements DEF ToSet
    <3> QED
      BY <1>1, <2>2, <3>3 DEF InvocationInv
  <2>3. \A u \in Shard : \A i \in 1 .. position'[u] :
            stream[u][i] \in Usable => Delivered(stream[u][i])'
    BY <1>1, <1>3, <2>1, <2>2 DEF Delivered
  <2> QED
    BY <1>1, <2>3, SameToSet DEF NothingSkipped, Updater!NothingSkipped, Delivered
<1>8. DeliveredInv'
  BY <1>1, <1>7 DEF IInv, DeliveredInv
<1>9. CurrentInv'
  BY <1>1 DEF IInv, CurrentInv, Same, Past
<1> QED
  BY <1>4, <1>6, <1>8, <1>9

\* A failed invocation keeps the checkpoint, so its batch comes again.
LEMMA InvocationFailsKeeps ==
    ASSUME IInv, NEW s \in Shard, Updater!InvocationFails(s)
    PROVE  /\ UpdaterType' /\ DeliveredInv' /\ CurrentInv'
           /\ \A u \in Shard : InvocationInv(u)'
<1>1. /\ UpdaterType /\ InvocationInv(s)
      /\ failures < MaxFailures /\ failures' = failures + 1
      /\ pending' = [pending EXCEPT ![s] = {}]
      /\ reading' = [reading EXCEPT ![s] = {}]
      /\ invoked' = [invoked EXCEPT ![s] = <<>>]
      /\ UNCHANGED <<stream, clock, position, store, older, updated, delivered, mended>>
  BY DEF IInv, Updater!InvocationFails, Updater!InvocationEnds
<1>2. /\ invoked'[s] = <<>> /\ pending'[s] = {} /\ reading'[s] = {}
      /\ \A u \in Shard \ {s} : /\ invoked'[u] = invoked[u]
                                /\ pending'[u] = pending[u] /\ reading'[u] = reading[u]
  BY <1>1 DEF UpdaterType
<1>3. UpdaterType'
  <2>1. failures' \in 0 .. MaxFailures
    BY <1>1, Constants DEF UpdaterType
  <2>2. /\ invoked' \in [Shard -> Seq(1 .. Total)]
        /\ pending' \in [Shard -> SUBSET Customer]
        /\ reading' \in [Shard -> SUBSET Item]
    BY <1>1 DEF UpdaterType
  <2>3. \A u \in Shard : \A i \in reading'[u] : i.customer \in pending'[u]
    BY <1>1, <1>2 DEF UpdaterType
  <2> QED
    BY <1>1, <2>1, <2>2, <2>3 DEF UpdaterType
<1>4. /\ \A r : Delivered(r) => Delivered(r)'
      /\ NothingSkipped'
  BY <1>1, DeliveredStays DEF IInv, DeliveredInv
<1>5. ASSUME NEW u \in Shard
      PROVE  InvocationInv(u)'
  <2>1. CASE u = s
    <3>1. ToSet(invoked'[u]) = {}
      BY <1>2, <2>1, ToSetEmpty
    <3> QED
      BY <1>2, <2>1, <3>1 DEF InvocationInv
  <2>2. CASE u # s
    <3>1. InvocationInv(u)
      BY DEF IInv
    <3> QED
      BY <1>1, <1>2, <1>4, <2>2, <3>1 DEF InvocationInv
  <2> QED
    BY <2>1, <2>2
<1>6. DeliveredInv'
  BY <1>1, <1>4 DEF IInv, DeliveredInv
<1>7. CurrentInv'
  <2>1. \A u \in Shard : \A i \in reading'[u] : i \in reading[u]
    BY <1>2
  <2> QED
    BY <1>1, <2>1 DEF IInv, CurrentInv, Same, Past
<1> QED
  BY <1>3, <1>5, <1>6, <1>7

\* An item that expires only held events past the horizon.
LEMMA ExpireKeeps ==
    ASSUME IInv, NEW c \in Customer, Updater!Expire(c)
    PROVE  /\ UpdaterType' /\ DeliveredInv' /\ CurrentInv'
           /\ \A u \in Shard : InvocationInv(u)'
<1>1. /\ UpdaterType
      /\ clock > updated[c] + Retention
      /\ store' = [store EXCEPT ![c] = <<>>]
      /\ Updater!LeavesOlder(c)
      /\ UNCHANGED <<stream, clock, position, invoked, pending, reading, failures, updated,
                     delivered, mended>>
  BY DEF IInv, Updater!Expire
<1>2. /\ delivered[c] \in Seq(Event) /\ clock \in Nat /\ updated[c] \in Nat
      /\ store' \in [Customer -> Seq(Event)] /\ store'[c] = <<>>
      /\ \A d \in Customer \ {c} : store'[d] = store[d]
  BY <1>1, Constants DEF UpdaterType
<1>3. UpdaterType'
  BY <1>1, <1>2, OlderKept DEF UpdaterType
<1>4. /\ \A r : Delivered(r) => Delivered(r)'
      /\ NothingSkipped'
  BY <1>1, DeliveredStays DEF IInv, DeliveredInv
<1>5. \A u \in Shard : InvocationInv(u)'
  BY <1>1, <1>4 DEF IInv, InvocationInv
<1>6. DeliveredInv'
  BY <1>1, <1>4 DEF IInv, DeliveredInv
<1>7. Same(<<>>, delivered[c], mended[c])
  <2> SUFFICES ASSUME NEW w \in Seq(Event), NEW at \in Nat, clock <= at
               PROVE  Updater!compact_events(<<>> \o w, at)
                          = Updater!compact_events(delivered[c] \o w, at)
    BY DEF Same
  <2>1. ASSUME NEW i \in DOMAIN delivered[c]
        PROVE  delivered[c][i].t + Horizon < at
    <3>1. delivered[c][i] \in ToSet(delivered[c]) /\ delivered[c][i] \in Event
      BY <1>2, Elements DEF ToSet
    <3>2. delivered[c][i].t <= updated[c] /\ delivered[c][i].t \in Nat
      BY <3>1, EventTime DEF IInv, DeliveredInv
    <3>3. clock > updated[c] + Retention
      BY <1>1
    <3> QED
      BY <1>2, <3>2, <3>3, Horizons
  <2>2. <<>> \o w = w
    BY ConcatEmptySeq
  <2> DEFINE x == delivered[c]
  <2>3. x \in Seq(Event) /\ \A i \in DOMAIN x : x[i].t + Horizon < at
    BY <1>2, <2>1
  <2> HIDE DEF x
  <2>4. Updater!compact_events(w, at) = Updater!compact_events(x \o w, at)
    BY <2>3, CompactForgets
  <2> QED
    BY <2>2, <2>4 DEF x
<1>8. CurrentInv'
  <2>1. ASSUME NEW d \in Customer
        PROVE  /\ Same(store'[d], delivered[d], mended[d])
               /\ Past(store'[d]) /\ Past(older'[d])
    <3>1. /\ Same(store[d], delivered[d], mended[d])
          /\ Past(store[d]) /\ Past(older'[d])
      BY <1>1, OlderKept DEF IInv, CurrentInv
    <3>2. CASE d = c
      <4>1. Past(<<>>)
        BY ToSetEmpty DEF Past
      <4> QED
        BY <1>2, <1>7, <3>1, <3>2, <4>1
    <3>3. CASE d # c
      BY <1>2, <3>1, <3>3
    <3> QED
      BY <3>2, <3>3
  <2> QED
    BY <1>1, <2>1 DEF IInv, CurrentInv, Same, Past
<1> QED
  BY <1>3, <1>5, <1>6, <1>8

\* Time passes: what compaction had to forget stays forgotten.
LEMMA TickKeeps ==
    ASSUME IInv, Updater!Tick
    PROVE  /\ UpdaterType' /\ DeliveredInv' /\ CurrentInv'
           /\ \A u \in Shard : InvocationInv(u)'
<1>1. /\ UpdaterType
      /\ clock < MaxClock /\ clock' = clock + 1
      /\ \A u \in Shard : invoked[u] = <<>>
      /\ UNCHANGED <<stream, position, invoked, pending, reading, failures, store, older, updated,
                     delivered, mended>>
  BY DEF IInv, Updater!Tick
<1>2. clock \in Nat /\ clock' \in 1 .. MaxClock
  BY <1>1, Constants DEF UpdaterType
<1>3. UpdaterType'
  BY <1>1, <1>2 DEF UpdaterType
<1>4. /\ \A r : Delivered(r) => Delivered(r)'
      /\ NothingSkipped'
  BY <1>1, DeliveredStays DEF IInv, DeliveredInv
<1>5. \A u \in Shard : InvocationInv(u)'
  BY <1>1, <1>4 DEF IInv, InvocationInv
<1>6. DeliveredInv'
  <2>1. \A c \in Customer : updated[c] <= clock'
    <3>1. \A c \in Customer : updated[c] \in Nat /\ updated[c] <= clock
      BY <1>1, Constants DEF IInv, DeliveredInv, UpdaterType
    <3> QED
      BY <1>1, <1>2, <3>1
  <2> QED
    BY <1>1, <1>4, <2>1 DEF IInv, DeliveredInv
<1>7. CurrentInv'
  <2>1. \A at \in Nat : clock' <= at => clock <= at
    BY <1>1, <1>2
  <2>2. \A x, y, from : Same(x, y, from) => Same(x, y, from)'
    BY <2>1 DEF Same
  <2>3. ASSUME NEW x \in Seq(Event), Past(x)
        PROVE  Past(x)'
    <3>1. \A e \in ToSet(x) : e.t \in Nat /\ e.t <= clock
      BY <2>3, ToSetSize, EventTime DEF Past
    <3> QED
      BY <1>1, <1>2, <3>1 DEF Past
  <2>4. ASSUME NEW c \in Customer
        PROVE  (Same(store[c], delivered[c], mended[c]) /\ Past(store[c]) /\ Past(older[c]))'
    <3>1. store[c] \in Seq(Event) /\ older[c] \in Seq(Event)
      BY <1>1 DEF UpdaterType
    <3>2. Same(store[c], delivered[c], mended[c]) /\ Past(store[c]) /\ Past(older[c])
      BY DEF IInv, CurrentInv
    <3>3. Past(store[c])' /\ Past(older[c])'
      BY <1>1, <2>3, <3>1, <3>2 DEF Past
    <3>4. Same(store[c], delivered[c], mended[c])'
      BY <1>1, <2>2, <3>2 DEF Same
    <3> QED
      BY <3>3, <3>4
  <2>5. \A u \in Shard : reading'[u] = {}
    BY <1>1 DEF IInv, InvocationInv
  <2> QED
    BY <2>4, <2>5 DEF CurrentInv
<1> QED
  BY <1>3, <1>5, <1>6, <1>7

-----------------------------------------------------------------------------
(* The theorems.                                                            *)

LEMMA InitIInv == Init => IInv
<1> SUFFICES ASSUME Init
             PROVE  IInv
  OBVIOUS
<1>1. /\ phase = "emitting" /\ emitted = 0 /\ buffer = <<>> /\ batch = <<>> /\ attempt = 0
      /\ sent = 0 /\ failed = 0 /\ lost = 0
      /\ stream = [s \in Shard |-> <<>>]
  BY DEF Init, Sink!Init
<1>2. /\ clock = 1
      /\ position = [s \in Shard |-> 0] /\ invoked = [s \in Shard |-> <<>>]
      /\ pending = [s \in Shard |-> {}]
      /\ reading = [s \in Shard |-> {}] /\ failures = 0
      /\ store = [c \in Customer |-> <<>>] /\ older = [c \in Customer |-> <<>>]
      /\ updated = [c \in Customer |-> 1] /\ delivered = [c \in Customer |-> <<>>]
      /\ mended = [c \in Customer |-> 1]
  BY DEF Init, Updater!Init
<1>3. \A s \in Shard : stream[s] = <<>> /\ ToSet(stream[s]) = {} /\ ToSet(invoked[s]) = {}
  BY <1>1, <1>2, ToSetEmpty
<1>4. ProducerInv
  <2>1. Sink!TypeOK
    BY <1>1, Constants DEF Sink!TypeOK, Sink!Phases, Sink!Record
  <2>2. Sink!InStream = {}
    BY <1>3, SameToSet DEF Sink!InStream
  <2>3. Missing = {}
    BY <1>1 DEF Missing
  <2>4. Cardinality(Missing) = 0
    BY <2>3, FS_EmptySet
  <2>5. ToSet(buffer) = {} /\ ToSet(batch) = {} /\ Len(buffer) = 0 /\ Len(batch) = 0
    BY <1>1, ToSetEmpty
  <2> QED
    BY <1>1, <2>1, <2>2, <2>4, <2>5, Constants DEF ProducerInv
<1>5. StreamInv
  BY <1>1, <1>3 DEF StreamInv
<1>6. UpdaterType
  BY <1>1, <1>2, Constants DEF UpdaterType
<1>7. \A s \in Shard : InvocationInv(s)
  BY <1>2, <1>3 DEF InvocationInv
<1>8. DeliveredInv
  <2>1. \A c \in Customer : ToSet(delivered[c]) = {}
    BY <1>2, ToSetEmpty
  <2> QED
    BY <1>2, <2>1 DEF DeliveredInv, NothingSkipped, Updater!NothingSkipped
<1>9. CurrentInv
  BY <1>2, ToSetEmpty DEF CurrentInv, Same, Past
<1> QED
  BY <1>4, <1>5, <1>6, <1>7, <1>8, <1>9 DEF IInv

\* Every step of the updater, expiry of items included, keeps IInv.
LEMMA UpdaterStepKeeps ==
    ASSUME IInv, UpdaterStep
    PROVE  IInv'
<1> DEFINE Kept == /\ UpdaterType' /\ DeliveredInv' /\ CurrentInv'
                   /\ \A u \in Shard : InvocationInv(u)'
                   /\ UNCHANGED stream /\ (clock' = clock \/ clock' = clock + 1)
<1>1. Kept
  <2>1. ASSUME NEW s \in Shard, Updater!ShardStep(s) \/ Updater!InvocationFails(s)
        PROVE  Kept
    <3>1. CASE Updater!Poll(s)
      BY <3>1, PollKeeps DEF Updater!Poll
    <3>2. ASSUME NEW c \in Customer, Updater!GetItem(s, c)
          PROVE  Kept
      BY <3>2, GetItemKeeps DEF Updater!GetItem
    <3>3. CASE Updater!PutItem(s)
      BY <3>3, PutItemKeeps DEF Updater!PutItem
    <3>4. CASE Updater!Return(s)
      BY <3>4, ReturnKeeps DEF Updater!Return
    <3>5. CASE Updater!InvocationFails(s)
      BY <3>5, InvocationFailsKeeps DEF Updater!InvocationFails
    <3> QED
      BY <2>1, <3>1, <3>2, <3>3, <3>4, <3>5 DEF Updater!ShardStep
  <2>2. ASSUME NEW c \in Customer, Updater!Expire(c)
        PROVE  Kept
    BY <2>2, ExpireKeeps DEF Updater!Expire
  <2>3. CASE Updater!Tick
    BY <2>3, TickKeeps DEF Updater!Tick
  <2> QED
    <3>1. \/ \E s \in Shard : Updater!ShardStep(s) \/ Updater!InvocationFails(s)
          \/ \E c \in Customer : Updater!Expire(c)
          \/ Updater!Tick
      BY DEF UpdaterStep, Updater!Next
    <3>2. CASE \E s \in Shard : Updater!ShardStep(s) \/ Updater!InvocationFails(s)
      BY <2>1, <3>2
    <3>3. CASE \E c \in Customer : Updater!Expire(c)
      BY <2>2, <3>3
    <3> QED
      BY <2>3, <3>1, <3>2, <3>3
<1>2. UNCHANGED producer
  BY DEF UpdaterStep
<1>3. ProducerInv'
  BY <1>1, <1>2, ProducerIdle DEF IInv
<1>4. StreamInv'
  <2>1. \A r \in 1 .. emitted : Stamp[r] \in Nat /\ Stamp[r] <= clock
    BY SinkTypes, Constants DEF IInv, StreamInv
  <2>2. clock \in Nat /\ clock <= clock'
    BY <1>1, Constants DEF IInv, UpdaterType
  <2>3. emitted' = emitted
    BY <1>2 DEF producer
  <2> QED
    BY <1>1, <2>1, <2>2, <2>3 DEF IInv, StreamInv
<1> QED
  BY <1>1, <1>3, <1>4 DEF IInv

\* A step that changes nothing.
LEMMA IdleKeeps ==
    ASSUME IInv, UNCHANGED vars
    PROVE  IInv'
<1>1. UNCHANGED producer /\ UNCHANGED stream /\ UNCHANGED updater
  BY DEF vars
<1>2. ProducerInv'
  BY <1>1, ProducerIdle DEF IInv
<1>3. StreamInv' /\ UpdaterType'
  BY <1>1 DEF IInv, StreamInv, UpdaterType, producer, updater
<1>4. \A r : Delivered(r)' = Delivered(r)
  BY <1>1 DEF Delivered, updater
<1>5. \A s \in Shard : InvocationInv(s)'
  BY <1>1, <1>4 DEF IInv, InvocationInv, updater
<1>6. DeliveredInv'
  BY <1>1 DEF IInv, DeliveredInv, NothingSkipped, Updater!NothingSkipped, updater
<1>7. CurrentInv'
  BY <1>1 DEF IInv, CurrentInv, Same, Past, updater
<1> QED
  BY <1>2, <1>3, <1>5, <1>6, <1>7 DEF IInv

\* The inductive invariant holds throughout every behaviour, whatever is lost, retried,
\* redelivered or expires.
THEOREM InductiveInvariant == Spec => []IInv
<1>1. IInv /\ [Next]_vars => IInv'
  BY ProducerStepKeeps, UpdaterStepKeeps, IdleKeeps DEF Next
<1> QED
  BY InitIInv, <1>1, PTL DEF Spec

\* The producer and the updater keep their types, and an invocation's item in hand is one
\* it has yet to write.
THEOREM TypeCorrect == Spec => []TypeOK
<1>1. IInv => TypeOK
  <2> SUFFICES ASSUME IInv
               PROVE  TypeOK
    OBVIOUS
  <2>1. Sink!TypeOK
    BY DEF IInv, ProducerInv
  <2>2. Updater!TypeOK
    <3>1. /\ clock \in 1 .. MaxClock /\ invoked \in [Shard -> Seq(1 .. Total)]
          /\ pending \in [Shard -> SUBSET Customer]
          /\ failures \in 0 .. MaxFailures /\ updated \in [Customer -> 1 .. MaxClock]
          /\ store \in [Customer -> Seq(Event)] /\ older \in [Customer -> Seq(Event)]
          /\ delivered \in [Customer -> Seq(Event)] /\ mended \in [Customer -> Nat]
      BY DEF IInv, UpdaterType
    <3>2. \A s \in Shard : position[s] \in 0 .. Len(stream[s])
      BY DEF IInv, UpdaterType
    <3>3. \A s \in Shard : \A item \in reading[s] :
              /\ item.customer \in pending[s] /\ item.events \in Seq(Event)
              /\ item.current \in BOOLEAN
      BY DEF IInv, UpdaterType, Item
    <3> QED
      BY <3>1, <3>2, <3>3 DEF Updater!TypeOK, Updater!Time, Event
  <2> QED
    BY <2>1, <2>2 DEF TypeOK
<1> QED
  BY InductiveInvariant, <1>1, PTL

\* The summary of a producer that ends normally counts every record it emitted once, and
\* no fewer as failed than are missing from the stream, whatever Kinesis refused or stored
\* unheard.
THEOREM Honest == Spec => []SummaryHonest
<1>1. IInv => SummaryHonest
  <2> SUFFICES ASSUME IInv, phase = "done"
               PROVE  /\ sent + failed = emitted
                      /\ Cardinality((1 .. emitted) \ Sink!InStream) <= failed
    BY SameCardinality DEF SummaryHonest, Sink!SummaryHonest
  <2>1. /\ buffer = <<>> /\ batch = <<>>
        /\ sent + failed + Len(buffer) + Len(batch) = emitted
        /\ Cardinality(Missing) <= failed
    BY DEF IInv, ProducerInv
  <2>2. Missing = (1 .. emitted) \ Sink!InStream
    BY <2>1, ToSetEmpty DEF Missing
  <2>3. sent \in Nat /\ failed \in Nat
    BY SinkTypes DEF IInv
  <2> QED
    BY <2>1, <2>2, <2>3
<1> QED
  BY InductiveInvariant, <1>1, PTL

\* What the store shows of a customer is what compacting everything ever delivered to it
\* would show, through retries, side-by-side shards, expired items and stale reads, except
\* for a horizon after a stale read that was written back.
THEOREM Current == Spec => []StoreIsCurrent
<1>1. IInv => StoreIsCurrent
  <2> SUFFICES ASSUME IInv, NEW c \in Customer, clock >= mended[c]
               PROVE  Updater!compact_events(store[c], clock)
                          = Updater!compact_events(delivered[c], clock)
    BY DEF StoreIsCurrent, Updater!StoreIsCurrent
  <2>1. Same(store[c], delivered[c], mended[c])
    BY DEF IInv, CurrentInv
  <2>2. clock \in Nat /\ mended[c] \in Nat /\ mended[c] <= clock /\ clock <= clock
        /\ store[c] \in Seq(Event) /\ delivered[c] \in Seq(Event)
    BY Constants DEF IInv, UpdaterType
  <2>3. <<>> \in Seq(Event)
    OBVIOUS
  <2>4. store[c] \o <<>> = store[c] /\ delivered[c] \o <<>> = delivered[c]
    BY <2>2, ConcatEmptySeq
  <2>5. Updater!compact_events(store[c] \o <<>>, clock)
            = Updater!compact_events(delivered[c] \o <<>>, clock)
    BY <2>1, <2>2, <2>3 DEF Same
  <2> QED
    BY <2>4, <2>5
<1> QED
  BY InductiveInvariant, <1>1, PTL

\* The checkpoint of a shard passes no usable record that has not been delivered to its
\* customer's item, however often invocations fail.
THEOREM NoneSkipped == Spec => []NothingSkipped
<1>1. IInv => NothingSkipped
  BY DEF IInv, DeliveredInv
<1> QED
  BY InductiveInvariant, <1>1, PTL
-----------------------------------------------------------------------------
(* What ExitZeroDelivers rests on. Once the producer is over, how far a shard  *)
(* still has to go is four naturals, compared from the left: records behind    *)
(* the checkpoint, failures left, the next invocation, items left in this one. *)

Unread(s) == Len(stream[s]) - position[s]
FailuresLeft == MaxFailures - failures
Waiting(s) == IF invoked[s] = <<>> THEN 1 ELSE 0
ItemsLeft(s) == 2 * Cardinality(pending[s]) - (IF reading[s] = {} THEN 0 ELSE 1)

Closer(s) ==
    \/ Unread(s)' < Unread(s)
    \/ Unread(s)' = Unread(s) /\ FailuresLeft' < FailuresLeft
    \/ Unread(s)' = Unread(s) /\ FailuresLeft' = FailuresLeft /\ Waiting(s)' < Waiting(s)
    \/ /\ Unread(s)' = Unread(s) /\ FailuresLeft' = FailuresLeft /\ Waiting(s)' = Waiting(s)
       /\ ItemsLeft(s)' < ItemsLeft(s)

AsFar(s) ==
    /\ Unread(s)' = Unread(s) /\ FailuresLeft' = FailuresLeft
    /\ Waiting(s)' = Waiting(s) /\ ItemsLeft(s)' = ItemsLeft(s)

OwnStep(s) == (Updater!ShardStep(s) \/ Updater!InvocationFails(s)) /\ UNCHANGED producer

PendingFinite == \A s \in Shard : IsFiniteSet(pending[s])

\* All of it is measured in naturals.
Measured(s) ==
    Unread(s) \in Nat /\ FailuresLeft \in Nat /\ Waiting(s) \in {0, 1} /\ ItemsLeft(s) \in Nat

\* Once the producer is over, every step of a shard, failed invocations included, brings
\* it closer to the end of its stream, and no other step sets it back.
ShardsRunOut ==
    [][\A s \in Shard : phase \in {"done", "crashed"} =>
           /\ OwnStep(s) => Closer(s)
           /\ AsFar(s) \/ Closer(s)]_vars

\* After exit code 0, a shard read to its end has delivered every usable record emitted.
ReadIsDelivered ==
    phase = "done" /\ failed = 0 =>
        \A r \in Usable : LET s == ShardOf[CustomerOf[r]] IN
            r <= emitted /\ Unread(s) = 0 => Delivered(r)

\* The steps of a shard, with what each does to its measure.
LEMMA ShardStepDoes ==
    ASSUME IInv, PendingFinite, NEW s \in Shard,
           Updater!ShardStep(s) \/ Updater!InvocationFails(s)
    PROVE  /\ \A u \in Shard \ {s} : /\ position'[u] = position[u] /\ invoked'[u] = invoked[u]
                                     /\ pending'[u] = pending[u] /\ reading'[u] = reading[u]
           /\ stream' = stream
           /\ IsFiniteSet(pending'[s])
           /\ \/ position'[s] > position[s] /\ failures' = failures
              \/ position'[s] = position[s] /\ failures' = failures + 1
              \/ /\ position'[s] = position[s] /\ failures' = failures
                 /\ invoked[s] = <<>> /\ invoked'[s] # <<>>
              \/ /\ position'[s] = position[s] /\ failures' = failures
                 /\ invoked'[s] = invoked[s]
                 /\ ItemsLeft(s)' < ItemsLeft(s)
<1>1. /\ UpdaterType /\ InvocationInv(s) /\ IsFiniteSet(pending[s])
      /\ position[s] \in Nat /\ Cardinality(pending[s]) \in Nat
  BY FS_CardinalityType DEF IInv, UpdaterType, PendingFinite
<1>2. CASE Updater!Poll(s)
  <2>1. PICK n \in 1 .. BatchSize :
          /\ position[s] + n <= Len(stream[s])
          /\ invoked' = [invoked EXCEPT ![s] = SubSeq(stream[s], position[s] + 1, position[s] + n)]
          /\ pending' = [pending EXCEPT
                            ![s] = {CustomerOf[r] : r \in ToSet(invoked'[s]) \cap Usable}]
    BY <1>2, SameToSet DEF Updater!Poll
  <2>2. /\ invoked[s] = <<>>
        /\ UNCHANGED <<stream, position, reading, failures>>
    BY <1>2 DEF Updater!Poll
  <2>3. invoked'[s] \in Seq(1 .. Total) /\ invoked'[s] # <<>>
    <3>1. UpdaterType'
      BY <1>2, PollKeeps
    <3>2. invoked'[s] \in Seq(1 .. Total)
      BY <3>1 DEF UpdaterType
    <3> DEFINE b == invoked'[s]
               q == stream[s]
               p == position[s]
    <3>0. n \in Nat /\ n > 0
      BY Constants
    <3>3. q \in Seq(1 .. Total) /\ p \in Nat /\ p + n <= Len(q)
      BY <1>1, <2>1 DEF UpdaterType
    <3>4. b = SubSeq(q, p + 1, p + n)
      BY <1>1, <2>1 DEF UpdaterType
    <3> HIDE DEF b, q, p
    <3>5. Len(b) = n
      BY <3>0, <3>3, <3>4, NextElements
    <3>6. b # <<>>
      BY <3>0, <3>5
    <3> QED
      BY <3>2, <3>6 DEF b
  <2>4. IsFiniteSet(pending'[s])
    <3> DEFINE X == ToSet(invoked'[s]) \cap Usable
               Y == {CustomerOf[r] : r \in X}
               f == [r \in X |-> CustomerOf[r]]
    <3>1. IsFiniteSet(ToSet(invoked'[s]))
      BY <2>3, ToSetSize
    <3>2. IsFiniteSet(X)
      BY <3>1, FS_Intersection
    <3>3. f \in Surjection(X, Y)
      BY DEF Surjection
    <3>4. IsFiniteSet(Y)
      BY <3>2, <3>3, FS_Surjection
    <3> QED
      BY <1>1, <2>1, <3>4 DEF UpdaterType
  <2> QED
    BY <1>1, <2>1, <2>2, <2>3, <2>4 DEF UpdaterType
<1>3. CASE \E c \in Customer : Updater!GetItem(s, c)
  <2>1. PICK c \in Customer : Updater!GetItem(s, c)
    BY <1>3
  <2>2. /\ reading[s] = {} /\ \E seen : reading' = [reading EXCEPT ![s] =
            {[customer |-> c, events |-> seen, current |-> seen = store[c]]}]
        /\ UNCHANGED <<stream, position, invoked, pending, failures>>
    BY <2>1 DEF Updater!GetItem
  <2>3. reading'[s] # {} /\ \A u \in Shard \ {s} : reading'[u] = reading[u]
    BY <1>1, <2>2 DEF UpdaterType
  <2>4. ItemsLeft(s)' < ItemsLeft(s)
    BY <1>1, <2>2, <2>3 DEF ItemsLeft
  <2> QED
    BY <1>1, <2>2, <2>3, <2>4
<1>4. CASE Updater!PutItem(s)
  <2>1. PICK item \in reading[s] : pending' = [pending EXCEPT ![s] = @ \ {item.customer}]
    BY <1>4 DEF Updater!PutItem
  <2>2. /\ reading' = [reading EXCEPT ![s] = {}]
        /\ UNCHANGED <<stream, position, invoked, failures>>
    BY <1>4 DEF Updater!PutItem
  <2>3. /\ pending'[s] = pending[s] \ {item.customer} /\ item.customer \in pending[s]
        /\ reading'[s] = {} /\ reading[s] # {}
        /\ \A u \in Shard \ {s} : pending'[u] = pending[u] /\ reading'[u] = reading[u]
    <3>1. item.customer \in pending[s]
      BY <1>1, <2>1 DEF UpdaterType
    <3>2. pending'[s] = pending[s] \ {item.customer} /\ \A u \in Shard \ {s} : pending'[u] = pending[u]
      BY <1>1, <2>1 DEF UpdaterType
    <3>3. reading'[s] = {} /\ \A u \in Shard \ {s} : reading'[u] = reading[u]
      BY <1>1, <2>2 DEF UpdaterType
    <3> QED
      BY <2>1, <3>1, <3>2, <3>3
  <2>4. IsFiniteSet(pending'[s]) /\ Cardinality(pending'[s]) = Cardinality(pending[s]) - 1
    <3>1. IsFiniteSet(pending[s])
      BY <1>1
    <3>2. /\ IsFiniteSet(pending[s] \ {item.customer})
          /\ Cardinality(pending[s] \ {item.customer}) =
                IF item.customer \in pending[s] THEN Cardinality(pending[s]) - 1 ELSE Cardinality(pending[s])
      BY ONLY <3>1, FS_RemoveElement
    <3> QED
      BY ONLY <2>3, <3>2
  <2>5. ItemsLeft(s)' < ItemsLeft(s)
    BY <1>1, <2>3, <2>4 DEF ItemsLeft
  <2> QED
    BY <1>1, <2>2, <2>3, <2>4, <2>5
<1>5. CASE Updater!Return(s)
  <2>1. /\ invoked[s] # <<>> /\ invoked[s] \in Seq(1 .. Total)
        /\ position' = [position EXCEPT ![s] = position[s] + Len(invoked[s])]
        /\ invoked' = [invoked EXCEPT ![s] = <<>>]
        /\ UNCHANGED <<stream, pending, reading, failures>>
    BY <1>1, <1>5 DEF Updater!Return, Updater!InvocationEnds, UpdaterType
  <2>2. Len(invoked[s]) \in Nat /\ Len(invoked[s]) > 0
    BY <2>1, EmptySeq
  <2> QED
    BY <1>1, <2>1, <2>2 DEF UpdaterType
<1>6. CASE Updater!InvocationFails(s)
  <2>1. IsFiniteSet({})
    BY FS_EmptySet
  <2> QED
    BY <1>1, <1>6, <2>1 DEF Updater!InvocationFails, Updater!InvocationEnds, UpdaterType
<1> QED
  BY <1>2, <1>3, <1>4, <1>5, <1>6 DEF Updater!ShardStep

\* An invocation has finitely many customers to write.
LEMMA PendingStep ==
    ASSUME IInv, PendingFinite, [Next]_vars
    PROVE  PendingFinite'
<1>1. CASE pending' = pending
  BY <1>1 DEF PendingFinite
<1>2. CASE \E s \in Shard : Updater!ShardStep(s) \/ Updater!InvocationFails(s)
  <2>1. PICK s \in Shard : Updater!ShardStep(s) \/ Updater!InvocationFails(s)
    BY <1>2
  <2>2. \A u \in Shard : u = s \/ pending'[u] = pending[u]
    BY <2>1, ShardStepDoes
  <2> QED
    BY <2>1, <2>2, ShardStepDoes DEF PendingFinite
<1> QED
  BY <1>1, <1>2 DEF Next, ProducerStep, UpdaterStep, Updater!Next, Updater!Expire, Updater!Tick,
     vars, updater

\* What a shard's invocations have left to do is counted in natural numbers.
LEMMA LeftNatural ==
    ASSUME IInv, PendingFinite, NEW s \in Shard
    PROVE  Measured(s)
<1>1. /\ UpdaterType /\ InvocationInv(s)
      /\ position[s] \in Nat /\ position[s] <= Len(stream[s]) /\ stream[s] \in Seq(1 .. Total)
      /\ failures \in 0 .. MaxFailures /\ MaxFailures \in Nat
  BY Constants DEF IInv, UpdaterType
<1>2. Len(stream[s]) \in Nat
  BY <1>1
<1>3. Cardinality(pending[s]) \in Nat /\ (reading[s] # {} => Cardinality(pending[s]) > 0)
  <2>1. IsFiniteSet(pending[s])
    BY DEF PendingFinite
  <2>2. Cardinality(pending[s]) \in Nat /\ (Cardinality(pending[s]) = 0 => pending[s] = {})
    BY <2>1, FS_CardinalityType, FS_EmptySet
  <2>3. reading[s] # {} => pending[s] # {}
    BY <1>1 DEF UpdaterType
  <2> QED
    BY <2>2, <2>3
<1>4. ItemsLeft(s) \in Nat
  BY <1>3 DEF ItemsLeft
<1> QED
  BY <1>1, <1>2, <1>4 DEF Measured, Unread, FailuresLeft, Waiting

\* Steps of a shard that bring it, and by their failures others, closer.
LEMMA ShardCloser ==
    ASSUME IInv, PendingFinite, NEW s \in Shard,
           Updater!ShardStep(s) \/ Updater!InvocationFails(s)
    PROVE  Closer(s) /\ \A u \in Shard \ {s} : AsFar(u) \/ Closer(u)
<1>1. /\ Len(stream[s]) \in Nat /\ position[s] \in Nat /\ position'[s] \in Nat
      /\ failures \in Nat /\ MaxFailures \in Nat /\ stream' = stream
  <2>1. UpdaterType /\ UpdaterType'
    BY PollKeeps, GetItemKeeps, PutItemKeeps, ReturnKeeps, InvocationFailsKeeps DEF IInv, Updater!ShardStep
  <2> QED
    BY <2>1, ShardStepDoes, Constants DEF UpdaterType
<1>2. \/ Unread(s)' < Unread(s)
      \/ Unread(s)' = Unread(s) /\ FailuresLeft' < FailuresLeft
      \/ Unread(s)' = Unread(s) /\ FailuresLeft' = FailuresLeft /\ Waiting(s)' < Waiting(s)
      \/ /\ Unread(s)' = Unread(s) /\ FailuresLeft' = FailuresLeft /\ Waiting(s)' = Waiting(s)
         /\ ItemsLeft(s)' < ItemsLeft(s)
  <2>1. CASE position'[s] > position[s]
    BY <1>1, <2>1 DEF Unread
  <2>2. CASE position'[s] = position[s] /\ failures' = failures + 1
    BY <1>1, <2>2 DEF Unread, FailuresLeft
  <2>3. CASE /\ position'[s] = position[s] /\ failures' = failures
             /\ invoked[s] = <<>> /\ invoked'[s] # <<>>
    BY <1>1, <2>3 DEF Unread, FailuresLeft, Waiting
  <2>4. CASE /\ position'[s] = position[s] /\ failures' = failures
             /\ invoked'[s] = invoked[s] /\ ItemsLeft(s)' < ItemsLeft(s)
    BY <1>1, <2>4 DEF Unread, FailuresLeft, Waiting
  <2> QED
    BY <2>1, <2>2, <2>3, <2>4, ShardStepDoes
<1>3. ASSUME NEW u \in Shard \ {s}
      PROVE  AsFar(u) \/ Closer(u)
  <2>1. Unread(u)' = Unread(u) /\ Waiting(u)' = Waiting(u) /\ ItemsLeft(u)' = ItemsLeft(u)
    BY ShardStepDoes DEF Unread, Waiting, ItemsLeft
  <2>2. FailuresLeft' = FailuresLeft \/ FailuresLeft' < FailuresLeft
    <3>1. failures' = failures \/ failures' = failures + 1
      BY ShardStepDoes
    <3> QED
      BY <1>1, <3>1 DEF FailuresLeft
  <2> QED
    BY <2>1, <2>2 DEF AsFar, Closer
<1> QED
  BY <1>2, <1>3 DEF Closer

\* The producer over, a shard has finitely many steps to take, failed invocations
\* included: each lowers four naturals, compared from the left, and no step of the other
\* shards, of expiry or of the clock raises them.
THEOREM ShardStepsRunOut ==
    Spec => [](\A s \in Shard : Measured(s)) /\ ShardsRunOut
<1>1. Init => PendingFinite
  BY FS_EmptySet DEF Init, Updater!Init, PendingFinite
<1>2. IInv /\ PendingFinite /\ [Next]_vars => PendingFinite'
  BY PendingStep
<1>3. IInv /\ PendingFinite => \A s \in Shard : Measured(s)
  BY LeftNatural
<1>4. IInv /\ PendingFinite /\ [Next]_vars =>
        [\A s \in Shard : phase \in {"done", "crashed"} =>
             /\ OwnStep(s) => Closer(s)
             /\ AsFar(s) \/ Closer(s)]_vars
  <2> SUFFICES ASSUME IInv, PendingFinite, Next, NEW s \in Shard, phase \in {"done", "crashed"}
               PROVE  (OwnStep(s) => Closer(s)) /\ (AsFar(s) \/ Closer(s))
    OBVIOUS
  <2>1. OwnStep(s) => Closer(s)
    BY ShardCloser DEF OwnStep
  <2>2. CASE \E u \in Shard : Updater!ShardStep(u) \/ Updater!InvocationFails(u)
    <3>1. PICK u \in Shard : Updater!ShardStep(u) \/ Updater!InvocationFails(u)
      BY <2>2
    <3>2. Closer(u) /\ \A v \in Shard \ {u} : AsFar(v) \/ Closer(v)
      BY <3>1, ShardCloser
    <3> QED
      BY <2>1, <3>2
  <2>3. CASE UNCHANGED <<stream, position, invoked, pending, reading, failures>>
    <3>1. Unread(s)' = Unread(s) /\ FailuresLeft' = FailuresLeft
      BY <2>3 DEF Unread, FailuresLeft
    <3>2. Waiting(s)' = Waiting(s)
      BY <2>3 DEF Waiting
    <3>3. ItemsLeft(s)' = ItemsLeft(s)
      BY <2>3 DEF ItemsLeft
    <3> QED
      BY <2>1, <3>1, <3>2, <3>3 DEF AsFar
  <2>4. ~ProducerStep
    BY DEF ProducerStep, Sink!Next, Sink!Write, Sink!Flush, Sink!Close, Sink!PutRecords,
       Sink!AnswerLost, Sink!PutRaises
  <2> QED
    BY <2>1, <2>2, <2>3, <2>4 DEF Next, UpdaterStep, Updater!Next, Updater!Expire, Updater!Tick
<1> QED
  BY <1>1, <1>2, <1>3, <1>4, InductiveInvariant, PTL DEF Spec, ShardsRunOut

\* A usable record emitted by a producer that exited with code 0 is in its customer's
\* item once its shard is read to the end.
THEOREM ReadMeansDelivered == Spec => []ReadIsDelivered
<1>1. IInv => ReadIsDelivered
  <2> SUFFICES ASSUME IInv, phase = "done", failed = 0, NEW r \in Usable,
                      NEW s, s = ShardOf[CustomerOf[r]], r <= emitted, Unread(s) = 0
               PROVE  Delivered(r)
    BY DEF ReadIsDelivered
  <2>1. /\ r \in 1 .. Total /\ CustomerOf[r] \in Customer /\ s \in Shard
        /\ emitted \in Nat
    BY Constants, SinkTypes DEF IInv
  <2>2. Missing = {}
    <3>1. Missing \in SUBSET (1 .. emitted)
      BY DEF Missing
    <3>2. IsFiniteSet(Missing) /\ Cardinality(Missing) \in Nat
      <4>1. IsFiniteSet(1 .. emitted)
        BY <2>1, FS_Interval
      <4> QED
        BY <3>1, <4>1, FS_Subset, FS_CardinalityType
    <3>3. Cardinality(Missing) <= 0
      BY DEF IInv, ProducerInv
    <3>4. Cardinality(Missing) = 0
      BY <3>2, <3>3
    <3> QED
      BY <3>2, <3>4, FS_EmptySet
  <2>3. buffer = <<>> /\ batch = <<>>
    BY DEF IInv, ProducerInv
  <2>4. r \in Sink!InStream
    BY <2>1, <2>2, <2>3, ToSetEmpty DEF Missing
  <2>5. PICK u \in Shard : r \in ToSet(stream[u])
    BY <2>4, SameToSet DEF Sink!InStream
  <2>6. u = s
    BY <2>5 DEF IInv, StreamInv
  <2>7. PICK i \in DOMAIN stream[s] : stream[s][i] = r
    BY <2>5, <2>6 DEF ToSet
  <2>8. /\ stream[s] \in Seq(1 .. Total) /\ position[s] \in Nat
        /\ position[s] = Len(stream[s])
    <3>1. stream[s] \in Seq(1 .. Total) /\ position[s] \in Nat
      BY <2>1 DEF IInv, UpdaterType
    <3>2. Len(stream[s]) \in Nat
      BY <3>1
    <3> QED
      BY <3>1, <3>2 DEF Unread
  <2>9. i \in 1 .. position[s]
    BY <2>7, <2>8, Elements
  <2>10. \A v \in Shard : \A j \in 1 .. position[v] :
            stream[v][j] \in Usable => Delivered(stream[v][j])
    BY SameToSet DEF IInv, DeliveredInv, NothingSkipped, Updater!NothingSkipped, Delivered
  <2> QED
    BY <2>1, <2>7, <2>9, <2>10
<1> QED
  BY InductiveInvariant, <1>1, PTL
=============================================================================
