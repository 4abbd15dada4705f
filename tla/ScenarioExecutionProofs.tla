---------------------- MODULE ScenarioExecutionProofs -----------------------
(***************************************************************************)
(* For any requests, scenarios, zones and plant: requests commit tick by   *)
(* tick and in order, assess from the reading of the tick, lose no reading *)
(* and thread a tier state of their own.                                   *)
(***************************************************************************)
EXTENDS ScenarioExecution, FiniteSetTheorems, SequenceTheorems, WellFoundedInduction, TLAPS

-----------------------------------------------------------------------------
(* What a scenario becomes, for any scenario: sorting permutes and orders, *)
(* every reading generated is a sample of an event of the scenario, and    *)
(* every tick of the schedule is one of its readings, zone after zone.     *)

\* Every non-empty set of naturals has a least element: induction over data is
\* done by its smallest counterexample.
LEMMA LeastNat ==
  ASSUME NEW T, T \subseteq Nat, T # {}
  PROVE  \E m \in T : \A k \in T : m <= k
<1>1. \E m \in T : \A k \in T : ~(<<k, m>> \in OpToRel(<, Nat))
  BY WFMin, NatLessThanWellFounded
<1>2. PICK m \in T : \A k \in T : ~(<<k, m>> \in OpToRel(<, Nat))
  BY <1>1
<1>3. \A k \in T : ~(k < m)
  BY <1>2 DEF OpToRel
<1>4. QED
  BY <1>3

-----------------------------------------------------------------------------
(* Sorting. *)

\* The order of the sorted sequence, as a relation between places of the input.
precedes(key, j, i) == key[j] < key[i] \/ (key[j] = key[i] /\ j <= i)

upto(key, i) == {j \in DOMAIN key : precedes(key, j, i)}

\* An element's place in the stable order counts the elements up to it.
LEMMA PlaceIsCount ==
  ASSUME NEW n \in Nat, NEW key \in [1..n -> Int], NEW i \in 1..n
  PROVE  /\ place(key, i) = Cardinality(upto(key, i))
         /\ IsFiniteSet(upto(key, i))
         /\ place(key, i) \in 1..n
<1>1. place(key, i) = Cardinality(upto(key, i))
  BY DEF place, upto, precedes
<1>2. upto(key, i) \in SUBSET (1..n) /\ i \in upto(key, i)
  BY DEF upto, precedes
<1>3. IsFiniteSet(1..n) /\ Cardinality(1..n) = n
  BY FS_Interval
<1>4. IsFiniteSet(upto(key, i)) /\ Cardinality(upto(key, i)) <= n
  BY <1>2, <1>3, FS_Subset
<1>5. Cardinality(upto(key, i)) \in Nat
  BY <1>4, FS_CardinalityType
<1>6. Cardinality(upto(key, i)) # 0
  BY <1>2, <1>4, FS_EmptySet
<1>7. QED
  BY <1>1, <1>4, <1>5, <1>6

\* An element that strictly precedes another gets a smaller place.
LEMMA PlaceIsMonotone ==
  ASSUME NEW n \in Nat, NEW key \in [1..n -> Int], NEW i \in 1..n, NEW j \in 1..n,
         precedes(key, i, j), i # j
  PROVE  place(key, i) < place(key, j)
<1>1. upto(key, i) \in SUBSET upto(key, j)
  BY DEF upto, precedes
<1>2. j \in upto(key, j) /\ j \notin upto(key, i)
  BY DEF upto, precedes
<1>3. /\ IsFiniteSet(upto(key, j)) /\ place(key, j) = Cardinality(upto(key, j))
      /\ place(key, i) = Cardinality(upto(key, i))
      /\ place(key, i) \in 1..n /\ place(key, j) \in 1..n
  BY PlaceIsCount
<1>4. /\ Cardinality(upto(key, i)) <= Cardinality(upto(key, j))
      /\ Cardinality(upto(key, j)) = Cardinality(upto(key, i)) => upto(key, j) = upto(key, i)
  BY <1>1, <1>3, FS_Subset
<1>5. QED
  BY <1>2, <1>3, <1>4

\* Every place is taken: the places permute the input.
LEMMA PlacesAreTaken ==
  ASSUME NEW n \in Nat, NEW key \in [1..n -> Int], NEW m \in 1..n
  PROVE  \E i \in 1..n : place(key, i) = m
<1> DEFINE f == [i \in 1..n |-> place(key, i)]
<1>1. f \in [1..n -> 1..n]
  BY PlaceIsCount
<1>2. \A i, j \in 1..n : i # j => f[i] # f[j]
  <2> SUFFICES ASSUME NEW i \in 1..n, NEW j \in 1..n, i # j
               PROVE  place(key, i) # place(key, j)
    OBVIOUS
  <2>1. precedes(key, i, j) \/ precedes(key, j, i)
    BY DEF precedes
  <2>2. place(key, i) \in 1..n /\ place(key, j) \in 1..n
    BY PlaceIsCount
  <2>3. place(key, i) < place(key, j) \/ place(key, j) < place(key, i)
    BY <2>1, PlaceIsMonotone
  <2>4. QED
    BY <2>2, <2>3
<1>3. f \in Injection(1..n, 1..n)
  BY <1>1, <1>2 DEF Injection, IsInjective
<1>4. f \in Surjection(1..n, 1..n)
  BY <1>3, FS_Interval, FS_Injection
<1>5. QED
  BY <1>4 DEF Surjection

\* Where the element at place m of the sorted sequence comes from.
origin(key, m) == CHOOSE i \in DOMAIN key : place(key, i) = m

\* sorted permutes its input and leaves it in order: a later element never
\* precedes an earlier one.
LEMMA SortedProperties ==
  ASSUME NEW S, NEW seq \in Seq(S), NEW key \in [1..Len(seq) -> Int]
  PROVE  /\ sorted(seq, key) \in Seq(S)
         /\ Len(sorted(seq, key)) = Len(seq)
         /\ \A m \in 1..Len(seq) :
               /\ origin(key, m) \in 1..Len(seq)
               /\ sorted(seq, key)[m] = seq[origin(key, m)]
         /\ \A k, m \in 1..Len(seq) : k < m => precedes(key, origin(key, k), origin(key, m))
         /\ \A m \in 1..Len(seq) : place(key, origin(key, m)) = m
         /\ \A i \in 1..Len(seq) : place(key, i) \in 1..Len(seq) /\ origin(key, place(key, i)) = i
<1> DEFINE n == Len(seq)
<1>1. n \in Nat /\ DOMAIN seq = 1..n /\ DOMAIN key = 1..n /\ \A i \in 1..n : seq[i] \in S
  OBVIOUS
<1>2. \A m \in 1..n : origin(key, m) \in 1..n /\ place(key, origin(key, m)) = m
  <2> TAKE m \in 1..n
  <2>1. \E i \in 1..n : place(key, i) = m
    BY PlacesAreTaken, <1>1
  <2>2. QED
    BY <2>1, <1>1 DEF origin
<1>3. sorted(seq, key) = [m \in 1..n |-> seq[origin(key, m)]]
  BY <1>1 DEF sorted, origin
<1>4. /\ sorted(seq, key) \in Seq(S) /\ Len(sorted(seq, key)) = n
  BY <1>1, <1>2, <1>3
<1>5. ASSUME NEW k \in 1..n, NEW m \in 1..n, k < m
      PROVE  precedes(key, origin(key, k), origin(key, m))
  <2> DEFINE i == origin(key, k)
             j == origin(key, m)
  <2>1. i \in 1..n /\ j \in 1..n /\ place(key, i) = k /\ place(key, j) = m
    BY <1>2
  <2>2. i # j
    BY <2>1, <1>5
  <2> HIDE DEF i, j
  <2>3. precedes(key, i, j) \/ precedes(key, j, i)
    BY <2>1, <1>1 DEF precedes
  <2>4. CASE precedes(key, j, i)
    <3>1. place(key, j) < place(key, i)
      BY <2>1, <2>2, <2>4, <1>1, PlaceIsMonotone
    <3>2. QED
      BY <3>1, <2>1, <1>5
  <2>5. QED
    BY <2>3, <2>4 DEF i, j
<1>6. ASSUME NEW i \in 1..n PROVE place(key, i) \in 1..n /\ origin(key, place(key, i)) = i
  <2> DEFINE j == origin(key, place(key, i))
  <2>1. place(key, i) \in 1..n
    BY <1>1, PlaceIsCount
  <2>2. j \in 1..n /\ place(key, j) = place(key, i)
    BY <1>2, <2>1
  <2> HIDE DEF j
  <2>3. i # j => place(key, i) < place(key, j) \/ place(key, j) < place(key, i)
    <3>1. precedes(key, i, j) \/ precedes(key, j, i)
      BY <2>2, <1>1 DEF precedes
    <3>2. QED
      BY <3>1, <2>2, <1>1, PlaceIsMonotone
  <2>4. QED
    BY <2>1, <2>2, <2>3 DEF j
<1>7. QED
  BY <1>2, <1>3, <1>4, <1>5, <1>6

-----------------------------------------------------------------------------
(* Flattening. *)

\* A function that satisfies the recursion of FlattenSeq up to n.
flattens(g, seqs, n) ==
    g = [i \in 1..n |-> IF i = 1 THEN seqs[i] ELSE g[i - 1] \o seqs[i]]

\* Any number of sequences can be flattened into one.
LEMMA FlatteningExists ==
  ASSUME NEW seqs, NEW n \in Nat
  PROVE  \E g : flattens(g, seqs, n)
<1> DEFINE Bad == {m \in Nat : ~ \E g : flattens(g, seqs, m)}
<1>1. SUFFICES Bad = {}
  OBVIOUS
<1>2. SUFFICES ASSUME Bad # {} PROVE FALSE
  OBVIOUS
<1>3. PICK m \in Bad : \A k \in Bad : m <= k
  BY <1>2, LeastNat, Bad \subseteq Nat
<1>4. m # 0
  <2>1. flattens([i \in 1..0 |-> 0], seqs, 0)
    BY DEF flattens
  <2>2. QED
    BY <2>1, <1>3
<1>5. m - 1 \in Nat /\ m - 1 \notin Bad
  BY <1>3, <1>4
<1>6. PICK g : flattens(g, seqs, m - 1)
  BY <1>5
<1> DEFINE h == [i \in 1..m |-> IF i = 1 THEN seqs[i] ELSE g[i - 1] \o seqs[i]]
<1>7. \A i \in 1..m - 1 : g[i] = h[i]
  <2> TAKE i \in 1..m - 1
  <2>1. i \in 1..m
    BY <1>3
  <2>2. h[i] = IF i = 1 THEN seqs[i] ELSE g[i - 1] \o seqs[i]
    BY <2>1
  <2>3. g = [j \in 1..m - 1 |-> IF j = 1 THEN seqs[j] ELSE g[j - 1] \o seqs[j]]
    BY <1>6 DEF flattens
  <2>4. g[i] = IF i = 1 THEN seqs[i] ELSE g[i - 1] \o seqs[i]
    BY <2>3, Zenon
  <2>5. QED
    BY <2>2, <2>4
<1>8. \A i \in 1..m : i # 1 => g[i - 1] = h[i - 1]
  <2> TAKE i \in 1..m
  <2>1. i # 1 => i - 1 \in 1..m - 1
    BY <1>3
  <2> HIDE DEF h
  <2>2. QED
    BY <2>1, <1>7
<1>9. h = [i \in 1..m |-> IF i = 1 THEN seqs[i] ELSE h[i - 1] \o seqs[i]]
  BY <1>8
<1>10. QED
  BY <1>9, <1>3 DEF flattens

\* Flattening sequences over a set gives a sequence over it.
LEMMA FlattenSeqType ==
  ASSUME NEW S, NEW seqs \in Seq(Seq(S))
  PROVE  FlattenSeq(seqs) \in Seq(S)
<1> DEFINE N == Len(seqs)
           g == CHOOSE f : flattens(f, seqs, N)
<1>1. N \in Nat /\ \A i \in 1..N : seqs[i] \in Seq(S)
  OBVIOUS
<1>2. CASE N = 0
  <2>1. seqs = <<>>
    BY <1>2
  <2>2. QED
    BY <2>1, <1>2 DEF FlattenSeq
<1>3. CASE N # 0
  <2>1. flattens(g, seqs, N)
    BY <1>1, FlatteningExists
  <2>2. FlattenSeq(seqs) = g[N]
    BY <1>3 DEF FlattenSeq, flattens
  <2> DEFINE Bad == {i \in 1..N : g[i] \notin Seq(S)}
  <2>3. Bad = {}
    <3> HIDE DEF g
    <3>1. SUFFICES ASSUME Bad # {} PROVE FALSE
      OBVIOUS
    <3>2. PICK m \in Bad : \A k \in Bad : m <= k
      BY <3>1, LeastNat, Bad \subseteq Nat
    <3>3. g[m] = IF m = 1 THEN seqs[m] ELSE g[m - 1] \o seqs[m]
      BY <2>1, <3>2 DEF flattens
    <3>4. CASE m = 1
      BY <3>2, <3>3, <3>4, <1>1
    <3>5. CASE m # 1
      <4>1. m - 1 \in 1..N /\ m - 1 \notin Bad
        BY <3>2, <3>5, <1>1
      <4>2. g[m - 1] \in Seq(S) /\ seqs[m] \in Seq(S)
        BY <4>1, <3>2, <1>1
      <4>3. g[m] \in Seq(S)
        BY <4>2, <3>3, <3>5, ConcatProperties
      <4>4. QED
        BY <4>3, <3>2
    <3>6. QED
      BY <3>4, <3>5
  <2>4. QED
    BY <2>2, <2>3, <1>3, <1>1
<1>4. QED
  BY <1>2, <1>3

-----------------------------------------------------------------------------
(* The readings of a scenario. *)

Samples(s) ==
    UNION {{sample(s, e, i) : i \in DOMAIN e.values} : e \in ToSet(s.sensor_events)}

\* Every reading generated is a sample of an event of the scenario.
LEMMA ReadingsAreSamples ==
  ASSUME NEW s, IsScenario(s)
  PROVE  generate_sensor_readings(s) \in Seq(Samples(s))
<1> DEFINE E == ToSet(s.sensor_events)
           events == sorted(s.sensor_events, sim_times(s.sensor_events))
           seqs == [k \in DOMAIN events |->
                      [i \in DOMAIN events[k].values |-> sample(s, events[k], i)]]
<1>1. s.sensor_events \in Seq(E) /\ \A e \in E : e.sim_time \in Int /\ e.values \in Seq(Int)
  BY DEF IsScenario
<1> HIDE DEF E
<1>2. sim_times(s.sensor_events) \in [1..Len(s.sensor_events) -> Int]
  <2>1. DOMAIN s.sensor_events = 1..Len(s.sensor_events)
    BY <1>1
  <2>2. \A k \in 1..Len(s.sensor_events) : s.sensor_events[k] \in E
    BY <1>1
  <2>3. QED
    BY <1>1, <2>1, <2>2 DEF sim_times
<1>3. events \in Seq(E)
  BY <1>1, <1>2, SortedProperties
<1> HIDE DEF events
<1>4. ASSUME NEW k \in DOMAIN events
      PROVE  seqs[k] \in Seq(Samples(s))
  <2>1. events[k] \in E /\ events[k].values \in Seq(Int)
    BY <1>1, <1>3
  <2>2. DOMAIN events[k].values = 1..Len(events[k].values) /\ Len(events[k].values) \in Nat
    BY <2>1
  <2>3. \A i \in DOMAIN events[k].values : sample(s, events[k], i) \in Samples(s)
    BY <2>1 DEF Samples, E
  <2>4. [i \in 1..Len(events[k].values) |-> sample(s, events[k], i)] \in Seq(Samples(s))
    BY <2>2, <2>3
  <2>5. QED
    BY <2>2, <2>4
<1>5. DOMAIN events = 1..Len(events) /\ Len(events) \in Nat
  BY <1>3
<1>6. seqs \in Seq(Seq(Samples(s)))
  <2> SUFFICES \A k \in 1..Len(events) : seqs[k] \in Seq(Samples(s))
    BY <1>5
  <2>1. QED
    BY <1>4, <1>5
<1>7. generate_sensor_readings(s) = FlattenSeq(seqs)
  BY DEF generate_sensor_readings, events
<1> HIDE DEF seqs
<1>8. QED
  BY <1>6, <1>7, FlattenSeqType

\* In a scenario whose names are distinct an id is of one reading.
LEMMA IdsAreUnique ==
  ASSUME NEW s, IsScenario(s), IsInjective(names(s)),
         NEW x \in Samples(s), NEW y \in Samples(s), x.id = y.id
  PROVE  x = y
<1> DEFINE n == Len(s.sensor_events)
<1>1. s.sensor_events \in Seq(ToSet(s.sensor_events)) /\ s.permit_events \in Seq(ToSet(s.permit_events))
  BY DEF IsScenario
<1>2. n \in Nat /\ DOMAIN s.sensor_events = 1..n
  BY <1>1
<1>3. PICK j \in 1..n : \E i : x = sample(s, s.sensor_events[j], i)
  BY <1>2 DEF Samples, ToSet
<1>4. PICK k \in 1..n : \E m : y = sample(s, s.sensor_events[k], m)
  BY <1>2 DEF Samples, ToSet
<1>5. PICK i : x = sample(s, s.sensor_events[j], i)
  BY <1>3
<1>6. PICK m : y = sample(s, s.sensor_events[k], m)
  BY <1>4
<1>7. i = m /\ s.sensor_events[j].name = s.sensor_events[k].name
  BY <1>5, <1>6 DEF sample, reading_id
<1>8. j = k
  <2> DEFINE own == [q \in 1..n |-> s.sensor_events[q].name]
             other == [q \in DOMAIN s.permit_events |-> s.permit_events[q].name]
             All == {own[q] : q \in 1..n} \cup {other[q] : q \in DOMAIN s.permit_events}
  <2>1. DOMAIN s.permit_events = 1..Len(s.permit_events) /\ Len(s.permit_events) \in Nat
    BY <1>1
  <2>2. own \in Seq(All) /\ Len(own) = n
    BY <1>2
  <2>3. other \in Seq(All)
    BY <2>1
  <2>4. names(s) = own \o other
    BY <1>2 DEF names
  <2>5. /\ DOMAIN names(s) = 1..n + Len(other)
        /\ \A q \in 1..n : names(s)[q] = own[q]
    <3> HIDE DEF own, other, All
    <3>1. /\ own \o other \in Seq(All)
          /\ Len(own \o other) = Len(own) + Len(other)
          /\ \A q \in 1..Len(own) + Len(other) : (own \o other)[q] =
                IF q <= Len(own) THEN own[q] ELSE other[q - Len(own)]
      BY <2>2, <2>3, ConcatProperties
    <3>2. Len(other) \in Nat
      BY <2>3
    <3>3. DOMAIN (own \o other) = 1..Len(own) + Len(other)
      BY <3>1
    <3>4. QED
      BY <3>1, <3>2, <3>3, <2>2, <2>4, <1>2
  <2>6. j \in DOMAIN names(s) /\ k \in DOMAIN names(s)
    BY <2>5, <2>3, <1>2
  <2>7. names(s)[j] = names(s)[k]
    BY <2>5, <1>7
  <2>8. QED
    BY <2>6, <2>7 DEF IsInjective
<1>9. QED
  BY <1>5, <1>6, <1>7, <1>8

-----------------------------------------------------------------------------
(* The ticks of a scenario. *)

\* The first place where a zone that occurs does occur.
LEMMA FirstOccurs ==
  ASSUME NEW S, NEW rows \in Seq(S), NEW j \in DOMAIN rows
  PROVE  LET i == Min({q \in DOMAIN rows : rows[q].zone = rows[j].zone})
         IN  i \in DOMAIN rows /\ i \in Nat /\ rows[i].zone = rows[j].zone
<1> DEFINE T == {q \in DOMAIN rows : rows[q].zone = rows[j].zone}
<1>1. T \subseteq Nat /\ T # {}
  OBVIOUS
<1>2. \E i \in T : \A k \in T : i <= k
  BY <1>1, LeastNat
<1>3. Min(T) \in T
  BY <1>2 DEF Min
<1>4. QED
  BY <1>1, <1>3

(***************************************************************************)
(* The schedule permutes the readings of the scenario; the ticks of a zone *)
(* follow one another without a tick of another zone between, and their    *)
(* timestamps never go back.                                               *)
(***************************************************************************)
THEOREM ScheduleProperties ==
  ASSUME NEW s, IsScenario(s)
  PROVE  /\ schedule(s) \in Seq(ToSet(generate_sensor_readings(s)))
         /\ Len(schedule(s)) = Len(generate_sensor_readings(s))
         /\ \E o \in Bijection(1..Len(schedule(s)), 1..Len(schedule(s))) :
               \A m \in 1..Len(schedule(s)) : schedule(s)[m] = generate_sensor_readings(s)[o[m]]
         /\ \A i, j, k \in 1..Len(schedule(s)) :
               i < j /\ j < k /\ schedule(s)[i].zone = schedule(s)[k].zone
                 => schedule(s)[j].zone = schedule(s)[i].zone
         /\ \A i, k \in 1..Len(schedule(s)) :
               i < k /\ schedule(s)[i].zone = schedule(s)[k].zone
                 => schedule(s)[i].ts <= schedule(s)[k].ts
<1> DEFINE R == generate_sensor_readings(s)
           n == Len(R)
           T == ToSet(R)
           ts == timestamps(R)
           timed == sorted(R, ts)
           G == groups(R, timed)
           F(z) == Min({q \in DOMAIN R : R[q].zone = z})
<1>1. R \in Seq(Samples(s))
  BY ReadingsAreSamples
<1>2. R \in Seq(T) /\ n \in Nat /\ DOMAIN R = 1..n
  BY <1>1 DEF ToSet
<1>3. \A x \in T : x.ts \in Int
  <2>1. \A x \in Samples(s) : x.ts \in Int
    BY DEF Samples, sample, IsScenario
  <2>2. QED
    BY <2>1, <1>1 DEF ToSet
<1>4. \A x \in T : F(x.zone) \in DOMAIN R /\ R[F(x.zone)].zone = x.zone
  <2> SUFFICES ASSUME NEW q \in DOMAIN R
               PROVE  F(R[q].zone) \in DOMAIN R /\ R[F(R[q].zone)].zone = R[q].zone
    BY DEF ToSet
  <2>1. QED
    BY <1>1, FirstOccurs
<1>5. schedule(s) = sorted(timed, G)
  BY DEF schedule
<1> HIDE DEF R, T, F
<1>6. ts \in [1..n -> Int] /\ \A q \in 1..n : ts[q] = R[q].ts
  BY <1>2, <1>3 DEF timestamps
<1>7. /\ timed \in Seq(T) /\ Len(timed) = n
      /\ \A m \in 1..n : origin(ts, m) \in 1..n /\ timed[m] = R[origin(ts, m)]
      /\ \A k, m \in 1..n : k < m => precedes(ts, origin(ts, k), origin(ts, m))
      /\ \A m \in 1..n : place(ts, origin(ts, m)) = m
      /\ \A i \in 1..n : place(ts, i) \in 1..n /\ origin(ts, place(ts, i)) = i
  BY <1>2, <1>6, SortedProperties
<1> HIDE DEF ts, timed
<1>8. ASSUME NEW k \in 1..n, NEW m \in 1..n, k < m
      PROVE  timed[k].ts <= timed[m].ts
  <2>1. /\ origin(ts, k) \in 1..n /\ timed[k] = R[origin(ts, k)]
        /\ origin(ts, m) \in 1..n /\ timed[m] = R[origin(ts, m)]
        /\ precedes(ts, origin(ts, k), origin(ts, m))
    BY <1>7, <1>8
  <2>2. ts[origin(ts, k)] \in Int /\ ts[origin(ts, m)] \in Int
    BY <2>1, <1>6
  <2>3. ts[origin(ts, k)] <= ts[origin(ts, m)]
    BY <2>1, <2>2 DEF precedes
  <2>4. QED
    BY <2>1, <2>3, <1>6
<1>9. /\ G \in [1..n -> Int]
      /\ \A m \in 1..n : G[m] = F(timed[m].zone) /\ timed[m] \in T
  <2>1. DOMAIN timed = 1..n /\ \A m \in 1..n : timed[m] \in T
    BY <1>7
  <2>2. G = [m \in 1..n |-> F(timed[m].zone)]
    BY <2>1 DEF groups, F
  <2>3. QED
    BY <2>1, <2>2, <1>2, <1>4
<1> HIDE DEF G
<1>10. /\ sorted(timed, G) \in Seq(T) /\ Len(sorted(timed, G)) = n
       /\ \A m \in 1..n : origin(G, m) \in 1..n /\ sorted(timed, G)[m] = timed[origin(G, m)]
       /\ \A k, m \in 1..n : k < m => precedes(G, origin(G, k), origin(G, m))
       /\ \A m \in 1..n : place(G, origin(G, m)) = m
       /\ \A i \in 1..n : place(G, i) \in 1..n /\ origin(G, place(G, i)) = i
  <2>1. timed \in Seq(T) /\ Len(timed) = n
    BY <1>7
  <2>2. G \in [1..Len(timed) -> Int]
    BY <2>1, <1>9
  <2> HIDE DEF n
  <2>3. /\ sorted(timed, G) \in Seq(T) /\ Len(sorted(timed, G)) = Len(timed)
        /\ \A m \in 1..Len(timed) :
              origin(G, m) \in 1..Len(timed) /\ sorted(timed, G)[m] = timed[origin(G, m)]
        /\ \A k, m \in 1..Len(timed) : k < m => precedes(G, origin(G, k), origin(G, m))
        /\ \A m \in 1..Len(timed) : place(G, origin(G, m)) = m
        /\ \A i \in 1..Len(timed) : place(G, i) \in 1..Len(timed) /\ origin(G, place(G, i)) = i
    BY <2>1, <2>2, SortedProperties, Zenon
  <2>4. QED
    BY <2>1, <2>3, Zenon
<1> DEFINE sch == sorted(timed, G)
<1>11. \A m \in 1..n : sch[m] \in T /\ G[origin(G, m)] = F(sch[m].zone)
  BY <1>9, <1>10
<1>12. ASSUME NEW k \in 1..n, NEW m \in 1..n, k < m
       PROVE  F(sch[k].zone) <= F(sch[m].zone)
  <2>1. /\ origin(G, k) \in 1..n /\ origin(G, m) \in 1..n
        /\ precedes(G, origin(G, k), origin(G, m))
    BY <1>10, <1>12
  <2>2. G[origin(G, k)] \in Int /\ G[origin(G, m)] \in Int
    BY <2>1, <1>9
  <2>3. G[origin(G, k)] <= G[origin(G, m)]
    BY <2>1, <2>2 DEF precedes
  <2>4. QED
    BY <2>3, <1>11
<1>13. \A k, m \in 1..n : F(sch[k].zone) = F(sch[m].zone) => sch[k].zone = sch[m].zone
  BY <1>4, <1>11
<1>14. ASSUME NEW i \in 1..n, NEW j \in 1..n, NEW k \in 1..n,
              i < j, j < k, sch[i].zone = sch[k].zone
       PROVE  sch[j].zone = sch[i].zone
  <2>1. F(sch[i].zone) <= F(sch[j].zone) /\ F(sch[j].zone) <= F(sch[k].zone)
    BY <1>12, <1>14
  <2>2. F(sch[i].zone) \in Int /\ F(sch[j].zone) \in Int /\ F(sch[k].zone) = F(sch[i].zone)
    BY <1>2, <1>4, <1>11, <1>14
  <2>3. F(sch[i].zone) = F(sch[j].zone)
    BY <2>1, <2>2
  <2>4. QED
    BY <2>3, <1>13
<1>15. ASSUME NEW i \in 1..n, NEW k \in 1..n, i < k, sch[i].zone = sch[k].zone
       PROVE  sch[i].ts <= sch[k].ts
  <2>1. G[origin(G, i)] = G[origin(G, k)]
    BY <1>11, <1>15
  <2>2. precedes(G, origin(G, i), origin(G, k)) /\ origin(G, i) \in 1..n /\ origin(G, k) \in 1..n
    BY <1>10, <1>15
  <2>3. origin(G, i) <= origin(G, k)
    BY <2>1, <2>2, <1>9 DEF precedes
  <2>4. timed[origin(G, i)].ts <= timed[origin(G, k)].ts
    <3>1. CASE origin(G, i) < origin(G, k)
      BY <3>1, <2>2, <1>8
    <3>2. CASE origin(G, i) = origin(G, k)
      BY <3>2, <2>2, <1>3, <1>9
    <3>3. QED
      BY <3>1, <3>2, <2>2, <2>3
  <2>5. QED
    BY <2>4, <1>10
<1> DEFINE o == [m \in 1..n |-> origin(ts, origin(G, m))]
<1>16. o \in Bijection(1..n, 1..n)
  <2>1. o \in [1..n -> 1..n]
    BY <1>7, <1>10
  <2>2. \A m \in 1..n : place(G, place(ts, o[m])) = m
    BY <1>7, <1>10
  <2>3. \A i \in 1..n : place(G, place(ts, i)) \in 1..n /\ o[place(G, place(ts, i))] = i
    BY <1>7, <1>10
  <2> HIDE DEF o
  <2>4. \A k, m \in 1..n : o[k] = o[m] => k = m
    BY <2>2
  <2>5. o \in Injection(1..n, 1..n)
    BY <2>1, <2>4 DEF Injection, IsInjective
  <2>6. o \in Surjection(1..n, 1..n)
    BY <2>1, <2>3 DEF Surjection
  <2>7. QED
    BY <2>5, <2>6 DEF Bijection
<1>17. \A m \in 1..n : sch[m] = R[o[m]]
  BY <1>7, <1>10
<1> HIDE DEF o
<1>18. QED
  BY <1>5, <1>10, <1>14, <1>15, <1>16, <1>17 DEF R, T

-----------------------------------------------------------------------------
(* The execution of scenarios. *)

Fields == {"pc", "scenario", "ticks", "pos", "poisoned", "tier_state",
           "gas", "evidence", "permit", "worker", "sources"}

Working == {"gas", "permit", "worker", "write"}

\* Request r runs an accepted scenario, and its ticks are those of the schedule.
Accepted(r) ==
    /\ run[r].scenario \in Scenarios
    /\ validate_builder_scenario(run[r].scenario)
    /\ run[r].ticks = schedule(run[r].scenario)

\* Where a request can be, and what its frame then holds.
FrameOK(r) ==
    /\ DOMAIN run[r] = Fields
    /\ run[r].pos \in Nat \ {0}
    /\ \/ run[r] = Idle
       \/ run[r].pc \in {"rejected", "failed"} /\ run[r].ticks = <<>> /\ run[r].pos = 1
       \/ run[r].pc \in Working /\ Accepted(r) /\ run[r].pos <= Len(run[r].ticks)
       \/ run[r].pc = "failed" /\ Accepted(r) /\ run[r].pos <= Len(run[r].ticks) + 1
       \/ run[r].pc = "finished" /\ Accepted(r) /\ run[r].pos = Len(run[r].ticks) + 1

\* The ticks before a request's position have their rows, and it has their scores.
PrefixOK(r) ==
    /\ \E S : scores[r] \in Seq(S)
    /\ Len(scores[r]) = run[r].pos - 1
    /\ \A i \in 1..run[r].pos - 1 :
          assessments[<<run[r].ticks[i].zone, run[r].ticks[i].ts>>] # NoRow

FInv ==
    /\ DOMAIN run = Runs /\ DOMAIN scores = Runs
    /\ DOMAIN assessments = Zones \X Times
    /\ \A r \in Runs : FrameOK(r) /\ PrefixOK(r)

\* The ticks of an accepted scenario are readings of zones and times there are.
LEMMA TicksAreReadings ==
  ASSUME NEW s \in Scenarios, validate_builder_scenario(s)
  PROVE  /\ Len(schedule(s)) \in Nat
         /\ schedule(s) = <<>> <=> Len(schedule(s)) = 0
         /\ \A i \in 1..Len(schedule(s)) :
               /\ schedule(s)[i] \in ToSet(generate_sensor_readings(s))
               /\ schedule(s)[i].zone \in Zones
               /\ schedule(s)[i].ts \in Times
<1>1. IsScenario(s) /\ \A x \in ToSet(generate_sensor_readings(s)) : x.ts \in Times
  BY ScenariosAssumption
<1>2. schedule(s) \in Seq(ToSet(generate_sensor_readings(s)))
  BY <1>1, ScheduleProperties
<1>3. generate_sensor_readings(s) \in Seq(Samples(s))
  BY <1>1, ReadingsAreSamples
<1>4. \A x \in ToSet(generate_sensor_readings(s)) : x \in Samples(s)
  BY <1>3 DEF ToSet
<1>5. \A x \in Samples(s) : x.zone \in Zones
  BY DEF Samples, sample, validate_builder_scenario
<1>6. QED
  BY <1>1, <1>2, <1>4, <1>5

\* Before any request the frame invariant holds.
LEMMA InitFInv == Init => FInv
<1> SUFFICES ASSUME Init PROVE FInv
  OBVIOUS
<1>1. DOMAIN run = Runs /\ DOMAIN scores = Runs /\ DOMAIN assessments = Zones \X Times
  BY DEF Init
<1>2. ASSUME NEW r \in Runs PROVE FrameOK(r) /\ PrefixOK(r)
  <2>1. run[r] = Idle /\ scores[r] = <<>>
    BY DEF Init
  <2>2. DOMAIN run[r] = Fields /\ run[r].pos = 1
    BY <2>1 DEF Idle, Fields
  <2>3. <<>> \in Seq({})
    OBVIOUS
  <2>4. QED
    BY <2>1, <2>2, <2>3 DEF FrameOK, PrefixOK
<1>3. QED
  BY <1>1, <1>2 DEF FInv

-----------------------------------------------------------------------------
(* What each action does to the frames, field by field.                    *)

\* A step of request r leaves the frames of the others alone.
OthersKept(r) ==
    /\ DOMAIN run' = Runs
    /\ \A q \in Runs : q # r => run'[q] = run[q]

\* A step within a tick keeps the tick and what was threaded to it.
TickKept(r) ==
    /\ OthersKept(r)
    /\ DOMAIN run'[r] = Fields
    /\ run'[r].scenario = run[r].scenario
    /\ run'[r].ticks = run[r].ticks
    /\ run'[r].pos = run[r].pos
    /\ run'[r].tier_state = run[r].tier_state

\* The gas level takes its evidence from the recent readings of the zone.
LEMMA GasEffect ==
  ASSUME FInv, NEW r \in Runs, EvaluateGas(r)
  PROVE  /\ run[r].pc = "gas" /\ TickKept(r)
         /\ run'[r].pc = "permit"
         /\ \/ recent(tick(r).zone, tick(r).ts) = {} /\ run'[r].evidence = NoRow
            \/ \E x \in recent(tick(r).zone, tick(r).ts) : run'[r].evidence = x
<1>1. DOMAIN run = Runs /\ DOMAIN run[r] = Fields
  BY DEF FInv, FrameOK
<1>2. CASE /\ recent(tick(r).zone, tick(r).ts) = {}
           /\ run' = [run EXCEPT ![r].pc = "permit",
                           ![r].gas = gas_calculate_risk(FALSE, 0, 0),
                           ![r].evidence = NoRow, ![r].sources = {}]
  <2>1. TickKept(r) /\ run'[r].pc = "permit" /\ run'[r].evidence = NoRow
    BY <1>1, <1>2, Zenon DEF TickKept, OthersKept, Fields
  <2>2. QED
    BY <1>2, <2>1 DEF EvaluateGas
<1>3. ASSUME NEW x \in recent(tick(r).zone, tick(r).ts),
             run' = [run EXCEPT ![r].pc = "permit",
                           ![r].gas = gas_calculate_risk(TRUE, x.value, tick(r).ts - x.ts),
                           ![r].evidence = x, ![r].sources = {x.by}]
      PROVE  TickKept(r) /\ run'[r].pc = "permit" /\ run'[r].evidence = x
  BY <1>1, <1>3, Zenon DEF TickKept, OthersKept, Fields
<1>4. QED
  BY <1>2, <1>3, Zenon DEF EvaluateGas

\* The permit level leaves tick and evidence alone.
LEMMA PermitEffect ==
  ASSUME FInv, NEW r \in Runs, EvaluatePermit(r)
  PROVE  /\ run[r].pc = "permit" /\ run[r].poisoned # TRUE /\ TickKept(r)
         /\ run'[r].pc = "worker" /\ run'[r].evidence = run[r].evidence
<1>1. DOMAIN run = Runs /\ DOMAIN run[r] = Fields
  BY DEF FInv, FrameOK
<1>2. QED
  BY <1>1, Zenon DEF EvaluatePermit, TickKept, OthersKept, Fields

\* The worker level leaves tick and evidence alone.
LEMMA WorkerEffect ==
  ASSUME FInv, NEW r \in Runs, EvaluateWorker(r)
  PROVE  /\ run[r].pc = "worker" /\ run[r].poisoned # TRUE /\ TickKept(r)
         /\ run'[r].pc = "write" /\ run'[r].evidence = run[r].evidence
<1>1. DOMAIN run = Runs /\ DOMAIN run[r] = Fields
  BY DEF FInv, FrameOK
<1>2. QED
  BY <1>1, Zenon DEF EvaluateWorker, TickKept, OthersKept, Fields

\* What Between keeps, and what it clears.
LEMMA BetweenFrame ==
  ASSUME NEW r, NEW pc
  PROVE  LET f == Between(r, pc)
         IN  /\ DOMAIN f = Fields /\ f.pc = pc
             /\ f.scenario = run[r].scenario /\ f.ticks = run[r].ticks
             /\ f.pos = run[r].pos /\ f.tier_state = run[r].tier_state
  BY Zenon DEF Between, Idle, ticks, Fields

\* A failed query ends the request or poisons its transaction.
LEMMA QueryFailsEffect ==
  ASSUME FInv, NEW r \in Runs, QueryFails(r)
  PROVE  /\ run[r].pc \in {"gas", "permit", "worker"} /\ TickKept(r)
         /\ \/ run'[r].pc = "failed"
            \/ run'[r].pc \in Working /\ run'[r].poisoned = TRUE
<1>0. run[r].pc \in {"gas", "permit", "worker"}
  BY Zenon DEF QueryFails
<1>1. DOMAIN run = Runs /\ DOMAIN run[r] = Fields
  BY DEF FInv, FrameOK
<1>2. CASE run' = [run EXCEPT ![r] = Between(r, "failed")]
  <2>1. run'[r] = Between(r, "failed") /\ OthersKept(r)
    BY <1>1, <1>2 DEF OthersKept
  <2>2. QED
    BY <1>0, <2>1, BetweenFrame DEF TickKept
<1>3. CASE run' = [run EXCEPT ![r].pc = next_level(@), ![r].poisoned = TRUE]
  <2>1. TickKept(r) /\ run'[r].pc = next_level(run[r].pc) /\ run'[r].poisoned = TRUE
    BY <1>1, <1>3, Zenon DEF TickKept, OthersKept, Fields
  <2>2. next_level(run[r].pc) \in Working
    BY <1>0 DEF next_level, Working
  <2>3. QED
    BY <1>0, <2>1, <2>2
<1>4. QED
  BY <1>2, <1>3 DEF QueryFails

\* A failed write ends the request on the tick it was at.
LEMMA WriteFailsEffect ==
  ASSUME FInv, NEW r \in Runs, WriteFails(r)
  PROVE  /\ run[r].pc = "write" /\ TickKept(r)
         /\ run'[r].pc = "failed"
<1>1. DOMAIN run = Runs
  BY DEF FInv
<1>2. run'[r] = Between(r, "failed") /\ OthersKept(r)
  BY <1>1 DEF OthersKept, WriteFails
<1>3. QED
  BY <1>2, BetweenFrame DEF TickKept, WriteFails

\* A commit moves the request to its next tick and threads the tier state.
LEMMA CommitEffect ==
  ASSUME FInv, NEW r \in Runs, NEW outcome, Commit(r, outcome)
  PROVE  /\ run[r].pc = "write" /\ run[r].poisoned # TRUE /\ OthersKept(r)
         /\ DOMAIN run'[r] = Fields
         /\ run'[r].pc = outcome
         /\ run'[r].scenario = run[r].scenario
         /\ run'[r].ticks = run[r].ticks
         /\ run'[r].pos = run[r].pos + 1
         /\ run'[r].tier_state = transition(threaded(r), fuse(agent_risks(r)))
         /\ scores' = [scores EXCEPT ![r] = Append(@, fuse(agent_risks(r)))]
         /\ \E alert :
              assessments' = [assessments EXCEPT ![<<tick(r).zone, tick(r).ts>>] =
                assessment(r, transition(threaded(r), fuse(agent_risks(r))), alert)]
         /\ UNCHANGED <<readings, permits, ingested>>
<1> DEFINE state == transition(threaded(r), fuse(agent_risks(r)))
           f == Between(r, outcome)
<1>1. DOMAIN run = Runs
  BY DEF FInv
<1>2. run' = [run EXCEPT ![r] = [f EXCEPT !.tier_state = state, !.pos = after_tick(r)]]
  BY DEF Commit
<1>3. run'[r] = [f EXCEPT !.tier_state = state, !.pos = after_tick(r)] /\ OthersKept(r)
  BY <1>1, <1>2, Zenon DEF OthersKept
<1>4. /\ DOMAIN f = Fields /\ f.pc = outcome
      /\ f.scenario = run[r].scenario /\ f.ticks = run[r].ticks
  BY BetweenFrame
<1> HIDE DEF f, state
<1>5. /\ DOMAIN run'[r] = Fields /\ run'[r].pc = f.pc
      /\ run'[r].scenario = f.scenario /\ run'[r].ticks = f.ticks
      /\ run'[r].pos = after_tick(r) /\ run'[r].tier_state = state
  BY <1>3, <1>4, Zenon DEF Fields
<1>6. QED
  BY <1>3, <1>4, <1>5, Zenon DEF Commit, after_tick, state

\* An accepted request starts at the first tick of its schedule.
LEMMA ExecuteEffect ==
  ASSUME FInv, NEW r \in Runs, NEW s \in Scenarios, Execute(r, s)
  PROVE  /\ run[r] = Idle /\ OthersKept(r)
         /\ validate_builder_scenario(s)
         /\ DOMAIN run'[r] = Fields
         /\ run'[r].pc = (IF schedule(s) = <<>> THEN "finished" ELSE "gas")
         /\ run'[r].scenario = s /\ run'[r].ticks = schedule(s)
         /\ run'[r].pos = 1
<1>1. DOMAIN run = Runs /\ run[r] = Idle
  BY DEF FInv, FrameOK, Execute, Working
<1>2. run'[r] = [Idle EXCEPT !.scenario = s, !.ticks = schedule(s),
                    !.pc = IF schedule(s) = <<>> THEN "finished" ELSE "gas"] /\ OthersKept(r)
  BY <1>1, Zenon DEF Execute, OthersKept
<1>3. DOMAIN Idle = Fields /\ Idle.pos = 1
  BY DEF Idle, Fields
<1>4. /\ DOMAIN run'[r] = Fields /\ run'[r].scenario = s /\ run'[r].ticks = schedule(s)
      /\ run'[r].pos = 1
      /\ run'[r].pc = (IF schedule(s) = <<>> THEN "finished" ELSE "gas")
  BY <1>2, <1>3, Zenon DEF Fields
<1>5. QED
  BY <1>1, <1>2, <1>4 DEF Execute

\* A request refused, or whose transaction is rolled back, has run nothing.
LEMMA RefusedEffect ==
  ASSUME FInv, NEW r \in Runs, NEW s \in Scenarios, Reject(r, s) \/ PersistFails(r, s)
  PROVE  /\ run[r] = Idle /\ OthersKept(r)
         /\ DOMAIN run'[r] = Fields
         /\ run'[r].pc \in {"rejected", "failed"}
         /\ run'[r].ticks = <<>>
         /\ run'[r].pos = 1
         /\ UNCHANGED <<readings, permits, assessments, scores>>
<1>1. DOMAIN run = Runs /\ run[r] = Idle
  BY DEF FInv, FrameOK, Reject, PersistFails, Working
<1>2. DOMAIN run[r] = Fields /\ run[r].ticks = <<>> /\ run[r].pos = 1
  BY <1>1 DEF Idle, Fields
<1>3. /\ OthersKept(r) /\ DOMAIN run'[r] = Fields
      /\ run'[r].pc \in {"rejected", "failed"}
      /\ run'[r].ticks = run[r].ticks /\ run'[r].pos = run[r].pos
  BY <1>1, <1>2, Zenon DEF Reject, PersistFails, OthersKept, Fields
<1>4. QED
  BY <1>1, <1>2, <1>3 DEF Reject, PersistFails, db

-----------------------------------------------------------------------------
(* FInv is inductive.                                                      *)

key(x) == <<x.zone, x.ts>>

\* The ticks up to a request's position have keys of the assessment table.
LEMMA KeysOfTicks ==
  ASSUME FInv, NEW r \in Runs
  PROVE  /\ Accepted(r) => Len(run[r].ticks) \in Nat
         /\ \A i \in 1..run[r].pos - 1 : key(run[r].ticks[i]) \in Zones \X Times
         /\ run[r].pc \in Working => key(tick(r)) \in Zones \X Times
<1>1. FrameOK(r)
  BY DEF FInv
<1>2. run[r].pos \in Nat \ {0}
  BY <1>1 DEF FrameOK
<1>3. ASSUME Accepted(r)
      PROVE  /\ Len(run[r].ticks) \in Nat
             /\ \A i \in 1..Len(run[r].ticks) : key(run[r].ticks[i]) \in Zones \X Times
  BY <1>3, TicksAreReadings DEF Accepted, key
<1>4. run[r].pos = 1 \/ (Accepted(r) /\ run[r].pos <= Len(run[r].ticks) + 1)
  <2>1. run[r] = Idle => run[r].pos = 1
    BY DEF Idle
  <2>2. QED
    BY <1>1, <1>2, <1>3, <2>1 DEF FrameOK
<1>5. \A i \in 1..run[r].pos - 1 : key(run[r].ticks[i]) \in Zones \X Times
  BY <1>2, <1>3, <1>4
<1>6. ASSUME run[r].pc \in Working PROVE key(tick(r)) \in Zones \X Times
  <2>1. Accepted(r) /\ run[r].pos <= Len(run[r].ticks)
    <3>1. run[r] # Idle
      BY <1>6 DEF Idle, Working
    <3>2. QED
      BY <1>1, <1>6, <3>1 DEF FrameOK, Working
  <2>2. QED
    BY <1>2, <1>3, <2>1 DEF tick, ticks
<1>7. QED
  BY <1>3, <1>5, <1>6

\* Rows are never taken out of the table again.
RowsStay ==
    /\ DOMAIN assessments' = Zones \X Times
    /\ \A k \in Zones \X Times : assessments[k] # NoRow => assessments'[k] # NoRow

\* The requests that do not step keep their part of the invariant.
LEMMA OthersFInv ==
  ASSUME FInv, NEW r \in Runs, NEW q \in Runs, run'[q] = run[q],
         scores'[q] = scores[q], RowsStay
  PROVE  FrameOK(q)' /\ PrefixOK(q)'
<1>1. FrameOK(q)'
  BY DEF FInv, FrameOK, Accepted
<1>2. \A i \in 1..run[q].pos - 1 : key(run[q].ticks[i]) \in Zones \X Times
  BY KeysOfTicks
<1>3. PrefixOK(q)
  BY DEF FInv
<1>4. PrefixOK(q)'
  BY <1>2, <1>3 DEF PrefixOK, RowsStay, key
<1>5. QED
  BY <1>1, <1>4

\* A step within a tick.
LEMMA TickFInv ==
  ASSUME FInv, NEW r \in Runs, run[r].pc \in Working, TickKept(r),
         run'[r].pc \in Working \cup {"failed"}, UNCHANGED <<assessments, scores>>
  PROVE  FInv'
<1>1. /\ run[r] # Idle /\ FrameOK(r) /\ PrefixOK(r)
  BY DEF FInv, Idle, Working
<1>2. /\ Accepted(r) /\ run[r].pos <= Len(run[r].ticks) /\ run[r].pos \in Nat \ {0}
      /\ Len(run[r].ticks) \in Nat
  BY <1>1, KeysOfTicks DEF FrameOK, Working
<1>3. FrameOK(r)'
  BY <1>2 DEF FrameOK, TickKept, Accepted
<1>4. PrefixOK(r)'
  BY <1>1 DEF PrefixOK, TickKept
<1>5. RowsStay
  BY DEF RowsStay, FInv
<1>6. ASSUME NEW q \in Runs PROVE FrameOK(q)' /\ PrefixOK(q)'
  BY <1>3, <1>4, <1>5, OthersFInv DEF TickKept, OthersKept
<1>7. QED
  BY <1>6 DEF FInv, TickKept, OthersKept

\* The write: the row of the tick is new, and the position moves past it.
LEMMA CommitFInv ==
  ASSUME FInv, NEW r \in Runs, NEW outcome, Commit(r, outcome),
         outcome = "failed"
           \/ outcome = IF after_tick(r) > Len(ticks(r)) THEN "finished" ELSE "gas"
  PROVE  FInv'
<1> DEFINE k == <<tick(r).zone, tick(r).ts>>
           state == transition(threaded(r), fuse(agent_risks(r)))
<1>1. /\ run[r].pc = "write" /\ OthersKept(r)
      /\ DOMAIN run'[r] = Fields
      /\ run'[r].pc = outcome
      /\ run'[r].scenario = run[r].scenario
      /\ run'[r].ticks = run[r].ticks
      /\ run'[r].pos = run[r].pos + 1
      /\ scores' = [scores EXCEPT ![r] = Append(@, fuse(agent_risks(r)))]
      /\ \E alert : assessments' = [assessments EXCEPT ![k] = assessment(r, state, alert)]
  BY CommitEffect, Zenon
<1>2. PICK alert : assessments' = [assessments EXCEPT ![k] = assessment(r, state, alert)]
  BY <1>1
<1>3. /\ run[r] # Idle /\ FrameOK(r) /\ PrefixOK(r)
  BY <1>1 DEF FInv, Idle, Working
<1>4. /\ Accepted(r) /\ run[r].pos <= Len(run[r].ticks) /\ run[r].pos \in Nat \ {0}
      /\ Len(run[r].ticks) \in Nat
  BY <1>1, <1>3, KeysOfTicks DEF FrameOK, Working
<1>5. k \in Zones \X Times
  BY <1>1, KeysOfTicks DEF Working, key
<1>6. assessment(r, state, alert) # NoRow
  BY DEF assessment, NoRow
<1> HIDE DEF state
<1>7. RowsStay /\ assessments'[k] # NoRow
  BY <1>2, <1>5, <1>6 DEF RowsStay, FInv
<1>8. FrameOK(r)'
  <2>1. Accepted(r)'
    BY <1>1, <1>4 DEF Accepted
  <2>2. \/ outcome = "failed"
        \/ outcome = "finished" /\ run[r].pos + 1 = Len(run[r].ticks) + 1
        \/ outcome = "gas" /\ run[r].pos + 1 <= Len(run[r].ticks)
    BY <1>4 DEF after_tick, ticks
  <2>3. QED
    BY <1>1, <1>4, <2>1, <2>2 DEF FrameOK, Working
<1>9. PrefixOK(r)'
  <2>1. PICK S : scores[r] \in Seq(S)
    BY <1>3 DEF PrefixOK
  <2>2. scores'[r] = Append(scores[r], fuse(agent_risks(r)))
    BY <1>1 DEF FInv
  <2>3. scores[r] \in Seq(S \cup {fuse(agent_risks(r))})
    BY <2>1
  <2>4. /\ scores'[r] \in Seq(S \cup {fuse(agent_risks(r))})
        /\ Len(scores'[r]) = Len(scores[r]) + 1
    BY <2>2, <2>3
  <2>5. ASSUME NEW i \in 1..run'[r].pos - 1
        PROVE  assessments'[<<run'[r].ticks[i].zone, run'[r].ticks[i].ts>>] # NoRow
    <3>1. CASE i = run[r].pos
      BY <1>1, <1>7, <3>1 DEF tick, ticks
    <3>2. CASE i \in 1..run[r].pos - 1
      BY <1>1, <1>3, <1>7, <3>2, KeysOfTicks DEF PrefixOK, RowsStay, key
    <3>3. QED
      BY <1>1, <1>4, <3>1, <3>2
  <2>6. QED
    BY <1>1, <1>3, <1>4, <2>4, <2>5 DEF PrefixOK
<1>10. ASSUME NEW q \in Runs PROVE FrameOK(q)' /\ PrefixOK(q)'
  <2>1. CASE q = r
    BY <1>8, <1>9, <2>1
  <2>2. CASE q # r
    BY <1>1, <1>7, <2>2, OthersFInv DEF OthersKept, FInv
  <2>3. QED
    BY <2>1, <2>2
<1>11. QED
  BY <1>1, <1>7, <1>10 DEF FInv, OthersKept, RowsStay

\* A request that starts, or is refused, has no tick behind it.
LEMMA StartFInv ==
  ASSUME FInv, NEW r \in Runs, NEW s \in Scenarios,
         Execute(r, s) \/ Reject(r, s) \/ PersistFails(r, s)
  PROVE  FInv'
<1>1. run[r] = Idle /\ OthersKept(r) /\ UNCHANGED <<assessments, scores>>
      /\ run'[r].pos = 1 /\ DOMAIN run'[r] = Fields
  BY ExecuteEffect, RefusedEffect DEF Execute
<1>2. FrameOK(r)'
  <2>1. CASE Execute(r, s)
    <3>1. /\ validate_builder_scenario(s)
          /\ run'[r].pc = (IF schedule(s) = <<>> THEN "finished" ELSE "gas")
          /\ run'[r].scenario = s /\ run'[r].ticks = schedule(s)
      BY <2>1, ExecuteEffect
    <3>2. Len(schedule(s)) \in Nat /\ (schedule(s) = <<>> <=> Len(schedule(s)) = 0)
      BY <3>1, TicksAreReadings
    <3>3. Accepted(r)'
      BY <3>1 DEF Accepted
    <3>4. QED
      BY <1>1, <3>1, <3>2, <3>3 DEF FrameOK, Working
  <2>2. CASE Reject(r, s) \/ PersistFails(r, s)
    BY <1>1, <2>2, RefusedEffect DEF FrameOK
  <2>3. QED
    BY <2>1, <2>2
<1>3. PrefixOK(r)'
  <2>1. PrefixOK(r) /\ run[r].pos = 1
    BY <1>1 DEF FInv, Idle
  <2>2. QED
    BY <1>1, <2>1 DEF PrefixOK
<1>4. RowsStay
  BY <1>1 DEF RowsStay, FInv
<1>5. ASSUME NEW q \in Runs PROVE FrameOK(q)' /\ PrefixOK(q)'
  BY <1>1, <1>2, <1>3, <1>4, OthersFInv DEF OthersKept
<1>6. QED
  BY <1>1, <1>5 DEF FInv, OthersKept

\* A step that leaves requests, assessments and scores alone.
LEMMA AsideFInv ==
  ASSUME FInv, UNCHANGED <<assessments, run, scores>>
  PROVE  FInv'
  BY DEF FInv, FrameOK, PrefixOK, Accepted

\* Every step keeps the frame invariant.
LEMMA NextFInv == FInv /\ [Next]_vars => FInv'
<1> SUFFICES ASSUME FInv, [Next]_vars PROVE FInv'
  OBVIOUS
<1>1. ASSUME NEW r \in Runs, NEW s \in Scenarios,
             Execute(r, s) \/ Reject(r, s) \/ PersistFails(r, s)
      PROVE  FInv'
  BY <1>1, StartFInv
<1>2. ASSUME NEW r \in Runs, Step(r) PROVE FInv'
  <2>1. CASE QueryFails(r)
    BY <2>1, QueryFailsEffect, TickFInv DEF QueryFails, Working, db
  <2>2. CASE WriteFails(r)
    BY <2>2, WriteFailsEffect, TickFInv DEF WriteFails, Working, db
  <2>3. CASE EvaluateGas(r)
    BY <2>3, GasEffect, TickFInv DEF EvaluateGas, Working, db
  <2>4. CASE EvaluatePermit(r)
    BY <2>4, PermitEffect, TickFInv DEF EvaluatePermit, Working, db
  <2>5. CASE EvaluateWorker(r)
    BY <2>5, WorkerEffect, TickFInv DEF EvaluateWorker, Working, db
  <2>6. CASE WriteAssessment(r)
    BY <2>6, CommitFInv DEF WriteAssessment
  <2>7. CASE CounterfactualFails(r)
    BY <2>7, CommitFInv DEF CounterfactualFails
  <2>8. QED
    BY <1>2, <2>1, <2>2, <2>3, <2>4, <2>5, <2>6, <2>7 DEF Step
<1>3. ASSUME NEW z \in Zones, NEW v \in IngestValues, NEW t \in Times, Ingest(z, v, t)
      PROVE  FInv'
  BY <1>3, AsideFInv DEF Ingest
<1>4. CASE UNCHANGED vars
  BY <1>4, AsideFInv DEF vars
<1>5. QED
  BY <1>1, <1>2, <1>3, <1>4 DEF Next

\* The frame invariant holds throughout.
LEMMA SpecFInv == Spec => []FInv
  BY InitFInv, NextFInv, PTL DEF Spec

(***************************************************************************)
(* Requests commit tick by tick and in order, whatever fails and whoever   *)
(* runs beside them, for any number of requests and scenarios of any size. *)
(***************************************************************************)
THEOREM RunsCommitInOrder == Spec => []CommittedPrefix
<1>1. FInv => CommittedPrefix
  <2> SUFFICES ASSUME FInv, NEW r \in Runs, run[r].pc \notin {"new", "rejected"}
               PROVE  /\ \A i \in 1..run[r].pos - 1 :
                            assessments[<<ticks(r)[i].zone, ticks(r)[i].ts>>] # NoRow
                      /\ Len(scores[r]) = run[r].pos - 1
                      /\ run[r].pc = "finished" => Len(scores[r]) = Len(ticks(r))
    BY DEF CommittedPrefix
  <2>1. FrameOK(r) /\ PrefixOK(r)
    BY DEF FInv
  <2>2. run[r].pc = "finished" => Accepted(r) /\ run[r].pos = Len(run[r].ticks) + 1
    BY <2>1 DEF FrameOK, Idle, Working
  <2>3. QED
    BY <2>1, <2>2, KeysOfTicks DEF PrefixOK, ticks
<1>2. QED
  BY <1>1, SpecFInv, PTL

-----------------------------------------------------------------------------
(* No reading of an accepted scenario is lost.                             *)

\* A stored row that holds reading x.
Holds(y, x) == y.id = x.id /\ y.ts = x.ts /\ y.zone = x.zone /\ y.value = x.value

\* A stored row that holds reading x, or has its place.
Keeps(y, x, r) ==
    /\ y.id = x.id /\ y.ts = x.ts
    /\ \/ y.zone = x.zone /\ y.value = x.value
       \/ y.by \in Runs /\ Displaces(y.by, r)

\* Another scenario displaces readings of request r.
Displaced(r) == \E q \in Runs : Displaces(q, r)

\* Place m is the last of the first n keys with the key of place i.
LastWith(keys, n, i, m) ==
    /\ m \in 1..n /\ keys[m] = keys[i]
    /\ \A j \in 1..n : keys[j] = keys[i] => j <= m

\* Among rows of one key there is a last one.
LEMMA LastOfAKey ==
  ASSUME NEW n \in Nat, NEW keys, NEW i \in 1..n
  PROVE  \E m : LastWith(keys, n, i, m)
<1> DEFINE T == {k \in Nat : k <= n /\ keys[n - k] = keys[i] /\ k < n}
<1>1. n - i \in T
  <2>1. n - (n - i) = i
    OBVIOUS
  <2>2. QED
    BY <2>1
<1>2. PICK k \in T : \A l \in T : k <= l
  BY <1>1, LeastNat
<1>3. ASSUME NEW j \in 1..n, keys[j] = keys[i] PROVE j <= n - k
  <2>1. n - (n - j) = j
    OBVIOUS
  <2>2. n - j \in T
    BY <1>3, <2>1
  <2>3. k <= n - j
    BY <1>2, <2>2
  <2>4. QED
    BY <1>2, <2>3
<1>4. n - k \in 1..n
  BY <1>2
<1>5. LastWith(keys, n, i, n - k)
  BY <1>2, <1>3, <1>4 DEF LastWith
<1>6. QED
  BY <1>5

\* The rows a request stores of its scenario: one for each reading, in their order.
LEMMA RowsOfReadings ==
  ASSUME NEW r, NEW s \in Scenarios
  PROVE  LET R == generate_sensor_readings(s)
             rows == reading_rows(r, s)
             keys == reading_keys(rows)
         IN  /\ R \in Seq(Samples(s)) /\ Len(R) \in Nat /\ DOMAIN R = 1..Len(R)
             /\ DOMAIN rows = 1..Len(R)
             /\ \A j \in 1..Len(R) : Holds(rows[j], R[j]) /\ rows[j].by = r
             /\ DOMAIN keys = 1..Len(R)
             /\ \A j \in 1..Len(R) : keys[j] = <<R[j].id, R[j].ts>>
<1> DEFINE R == generate_sensor_readings(s)
<1>1. R \in Seq(Samples(s)) /\ Len(R) \in Nat /\ DOMAIN R = 1..Len(R)
  BY ScenariosAssumption, ReadingsAreSamples
<1>2. QED
  BY <1>1 DEF reading_rows, reading_keys, Holds

\* A scenario just persisted has all its readings in the table: rows of one
\* key are copies of one reading, so the last of them will do.
LEMMA MergedRowsHold ==
  ASSUME NEW r, NEW s \in Scenarios, validate_builder_scenario(s),
         NEW x \in ToSet(generate_sensor_readings(s))
  PROVE  \E y \in merge_readings(readings, reading_rows(r, s)) : Holds(y, x)
<1> DEFINE R == generate_sensor_readings(s)
           rows == reading_rows(r, s)
           keys == reading_keys(rows)
<1>1. IsScenario(s) /\ IsInjective(names(s))
  BY ScenariosAssumption DEF validate_builder_scenario
<1>2. /\ R \in Seq(Samples(s)) /\ Len(R) \in Nat /\ DOMAIN R = 1..Len(R)
      /\ DOMAIN rows = 1..Len(R)
      /\ \A j \in 1..Len(R) : Holds(rows[j], R[j])
      /\ DOMAIN keys = 1..Len(R)
      /\ \A j \in 1..Len(R) : keys[j] = <<R[j].id, R[j].ts>>
  BY RowsOfReadings
<1> HIDE DEF R, rows, keys
<1>3. PICK i \in 1..Len(R) : x = R[i]
  BY <1>2 DEF ToSet, R
<1>4. PICK m : LastWith(keys, Len(R), i, m)
  BY <1>2, <1>3, LastOfAKey
<1>5. m \in 1..Len(R) /\ keys[m] = keys[i] /\ \A j \in 1..Len(R) : keys[j] = keys[i] => j <= m
  BY <1>4 DEF LastWith
<1>6. R[m].id = R[i].id
  BY <1>2, <1>5
<1>7. R[m] = R[i]
  BY <1>1, <1>2, <1>5, <1>6, IdsAreUnique
<1>8. rows[m] \in Lasting(rows, keys)
  BY <1>2, <1>5 DEF Lasting
<1>9. rows[m] \in merge_readings(readings, rows)
  BY <1>8 DEF merge_readings, keys
<1>10. Holds(rows[m], x)
  BY <1>2, <1>3, <1>5, <1>7
<1>11. QED
  BY <1>9, <1>10 DEF rows

\* Persisting a scenario leaves a row in its place, or puts its own row of the same key
\* there, with its writer.
LEMMA RowsStayOrAreReplaced ==
  ASSUME NEW r, NEW s \in Scenarios, NEW y \in readings,
         y \notin merge_readings(readings, reading_rows(r, s))
  PROVE  \E z \in merge_readings(readings, reading_rows(r, s)) :
            /\ z.id = y.id /\ z.ts = y.ts /\ z.by = r
            /\ \E w \in ToSet(generate_sensor_readings(s)) : w.id = y.id /\ w.ts = y.ts
<1> DEFINE R == generate_sensor_readings(s)
           rows == reading_rows(r, s)
           keys == reading_keys(rows)
<1>1. /\ Len(R) \in Nat /\ DOMAIN R = 1..Len(R)
      /\ DOMAIN rows = 1..Len(R)
      /\ \A j \in 1..Len(R) : Holds(rows[j], R[j]) /\ rows[j].by = r
      /\ DOMAIN keys = 1..Len(R)
      /\ \A j \in 1..Len(R) : keys[j] = <<R[j].id, R[j].ts>>
  BY RowsOfReadings
<1> HIDE DEF R, rows, keys
<1>2. PICK i \in 1..Len(R) : keys[i] = <<y.id, y.ts>>
  BY <1>1 DEF merge_readings, rows, keys
<1>3. PICK m : LastWith(keys, Len(R), i, m)
  BY <1>1, <1>2, LastOfAKey
<1>4. m \in 1..Len(R) /\ keys[m] = keys[i] /\ \A j \in 1..Len(R) : keys[j] = keys[i] => j <= m
  BY <1>3 DEF LastWith
<1>5. rows[m] \in Lasting(rows, keys)
  BY <1>1, <1>4 DEF Lasting
<1>6. rows[m] \in merge_readings(readings, rows)
  BY <1>5 DEF merge_readings, keys
<1>7. R[m].id = y.id /\ R[m].ts = y.ts
  BY <1>1, <1>2, <1>4
<1>8. rows[m].id = y.id /\ rows[m].ts = y.ts /\ rows[m].by = r
  BY <1>1, <1>4, <1>7 DEF Holds
<1>9. R[m] \in ToSet(R)
  BY <1>1, <1>4 DEF ToSet
<1>10. QED
  BY <1>6, <1>7, <1>8, <1>9 DEF rows, R

\* The rows added are readings of the scenario, with their writer.
LEMMA RowsAddedAreReadings ==
  ASSUME NEW r, NEW s \in Scenarios, NEW y \in merge_readings(readings, reading_rows(r, s)),
         y \notin readings
  PROVE  y # NoRow /\ y.ts \in Times
<1> DEFINE R == generate_sensor_readings(s)
           rows == reading_rows(r, s)
<1>1. y \in Lasting(rows, reading_keys(rows))
  BY DEF merge_readings
<1>2. PICK i \in DOMAIN rows : y = rows[i]
  BY <1>1 DEF Lasting
<1>3. /\ i \in DOMAIN R
      /\ y = [id |-> R[i].id, ts |-> R[i].ts, zone |-> R[i].zone, value |-> R[i].value, by |-> r]
  BY <1>2 DEF reading_rows
<1>4. R[i] \in ToSet(R)
  BY <1>3 DEF ToSet
<1> HIDE DEF R
<1>5. R[i].ts \in Times
  BY <1>4, ScenariosAssumption DEF R
<1>6. QED
  BY <1>3, <1>5 DEF NoRow

\* Once it is sent, a request keeps its scenario and its ticks.
ScenariosStay ==
    \A q \in Runs : run[q].pc # "new" =>
        run'[q].pc # "new" /\ run'[q].scenario = run[q].scenario /\ run'[q].ticks = run[q].ticks

\* So what is displaced remains so.
LEMMA DisplacedStays ==
  ASSUME FInv, ScenariosStay, NEW q \in Runs, NEW r \in Runs, Displaces(q, r)
  PROVE  Displaces(q, r)'
<1>1. run[r].pc # "new" /\ run[q].ticks # <<>>
  BY DEF Displaces, ticks
<1>2. run[q].pc # "new"
  BY <1>1 DEF FInv, FrameOK, Idle, Working
<1>3. /\ run'[r].pc # "new" /\ run'[r].scenario = run[r].scenario
      /\ run'[q].scenario = run[q].scenario /\ run'[q].ticks = run[q].ticks
  BY <1>1, <1>2 DEF ScenariosStay
<1>4. QED
  BY <1>3 DEF Displaces, ticks

\* Where one request steps, what it keeps of its scenario is all there is to show.
LEMMA OneSteps ==
  ASSUME FInv, NEW r \in Runs, OthersKept(r),
         run[r] = Idle \/ (/\ run'[r].pc # "new" /\ run'[r].scenario = run[r].scenario
                           /\ run'[r].ticks = run[r].ticks)
  PROVE  ScenariosStay
BY DEF OthersKept, ScenariosStay, Idle

\* The readings of the scenario r runs are stored, or displaced.
Stored(r) ==
    run[r].pc \in Working \cup {"finished"} =>
        \A x \in ToSet(generate_sensor_readings(run[r].scenario)) :
            \E y \in readings : Keeps(y, x, r)

\* What request r may have read at zone z and time t.
Evident(row, z, t, r) ==
    /\ row # NoRow => row.zone = z /\ row.ts <= t
    /\ (row # NoRow /\ row.ts = t) \/ Displaced(r)

\* What a request read of the tick it is at: a reading of its zone, of its time.
EvidenceOK(r) ==
    run[r].pc \in {"permit", "worker", "write"} /\ run[r].poisoned # TRUE =>
        Evident(run[r].evidence, tick(r).zone, tick(r).ts, r)

\* What the rows were assessed from.
RowsOK ==
    \A k \in Zones \X Times : assessments[k] # NoRow =>
        assessments[k].by \in Runs /\ Evident(assessments[k].evidence, k[1], k[2], assessments[k].by)

EInv ==
    /\ \A x \in readings : x # NoRow /\ x.ts \in Times
    /\ \A r \in Runs : Stored(r) /\ EvidenceOK(r)
    /\ RowsOK

\* The reading to assess from is of the tick: the tick's own row is stored,
\* and nothing later is read.
LEMMA RecentIsOfTheTick ==
  ASSUME FInv, EInv, NEW r \in Runs, run[r].pc = "gas"
  PROVE  /\ recent(tick(r).zone, tick(r).ts) # {} \/ Displaced(r)
         /\ \A x \in recent(tick(r).zone, tick(r).ts) :
               x # NoRow /\ Evident(x, tick(r).zone, tick(r).ts, r)
<1> DEFINE s == run[r].scenario
           z == tick(r).zone
           t == tick(r).ts
           rows == {x \in readings : x.zone = z /\ x.ts <= t}
<1>1. FrameOK(r) /\ run[r] # Idle
  BY DEF FInv, Idle
<1>2. /\ s \in Scenarios /\ validate_builder_scenario(s)
      /\ run[r].ticks = schedule(s) /\ run[r].pos \in 1..Len(schedule(s))
  BY <1>1, KeysOfTicks DEF FrameOK, Accepted, Working
<1>3. tick(r) \in ToSet(generate_sensor_readings(s)) /\ t \in Times
  BY <1>2, TicksAreReadings DEF tick, ticks
<1>4. Stored(r)
  BY DEF EInv
<1>5. PICK y \in readings : Keeps(y, tick(r), r)
  BY <1>3, <1>4 DEF Stored, Working
<1>6. Times \subseteq Int
  BY ScenariosAssumption
<1>7. \A x \in readings : x # NoRow /\ x.ts \in Int
  BY <1>6 DEF EInv
<1>8. \A x \in recent(z, t) : x \in rows /\ \A w \in rows : w.ts <= x.ts
  BY DEF recent
<1>9. CASE Displaced(r)
  BY <1>7, <1>8, <1>9 DEF Evident
<1>10. CASE ~Displaced(r)
  <2>0. y.zone = z /\ y.ts = t
    BY <1>5, <1>10 DEF Keeps, Displaced
  <2>1. y \in rows /\ y.ts = t /\ t \in Int
    <3>0. \A u \in Int : u <= u
      OBVIOUS
    <3>1. t \in Times
      BY <1>3
    <3>2. t \in Int /\ t <= t
      <4> HIDE DEF t
      <4>1. QED
        BY <3>0, <3>1, <1>6
    <3>3. QED
      BY <2>0, <3>2
  <2>2. y \in recent(z, t)
    BY <2>1, <1>7 DEF recent
  <2>3. ASSUME NEW x \in recent(z, t) PROVE x # NoRow /\ x.ts = t /\ x.zone = z
    <3>1. x \in rows /\ y.ts <= x.ts
      BY <1>8, <2>1
    <3>2. QED
      BY <3>1, <1>7, <2>1
  <2>4. QED
    BY <2>1, <2>2, <2>3 DEF Evident
<1>11. QED
  BY <1>9, <1>10

\* What is evident remains so.
LEMMA EvidentStays ==
  ASSUME FInv, ScenariosStay, NEW r \in Runs, NEW row, NEW z, NEW t, Evident(row, z, t, r)
  PROVE  /\ row # NoRow => row.zone = z /\ row.ts <= t
         /\ (row # NoRow /\ row.ts = t) \/ Displaced(r)'
BY DisplacedStays DEF Evident, Displaced

\* And a reading that is kept is kept while its row stays.
LEMMA KeepsStays ==
  ASSUME FInv, ScenariosStay, NEW r \in Runs, NEW y, NEW x, Keeps(y, x, r)
  PROVE  /\ y.id = x.id /\ y.ts = x.ts
         /\ \/ y.zone = x.zone /\ y.value = x.value
            \/ y.by \in Runs /\ Displaces(y.by, r)'
BY DisplacedStays DEF Keeps

\* A request that does not step keeps its evidence, and its readings if no
\* row is replaced.
LEMMA OthersEvidence ==
  ASSUME FInv, EInv, ScenariosStay, NEW q \in Runs, run'[q] = run[q]
  PROVE  /\ EvidenceOK(q)'
         /\ readings \subseteq readings' => Stored(q)'
<1>1. EvidenceOK(q)'
  <2> SUFFICES ASSUME run[q].pc \in {"permit", "worker", "write"}, run[q].poisoned # TRUE
               PROVE  Evident(run[q].evidence, tick(q).zone, tick(q).ts, q)'
    BY DEF EvidenceOK
  <2>1. Evident(run[q].evidence, tick(q).zone, tick(q).ts, q)
    BY DEF EInv, EvidenceOK
  <2>2. tick(q)' = tick(q)
    BY DEF tick, ticks
  <2>3. QED
    BY <2>1, <2>2, EvidentStays DEF Evident
<1>2. ASSUME readings \subseteq readings' PROVE Stored(q)'
  <2> SUFFICES ASSUME run[q].pc \in Working \cup {"finished"},
                      NEW x \in ToSet(generate_sensor_readings(run[q].scenario))
               PROVE  \E y \in readings' : Keeps(y, x, q)'
    BY DEF Stored
  <2>1. PICK y \in readings : Keeps(y, x, q)
    BY DEF EInv, Stored
  <2>2. Keeps(y, x, q)'
    BY <2>1, KeepsStays DEF Keeps
  <2>3. QED
    BY <1>2, <2>1, <2>2
<1>3. QED
  BY <1>1, <1>2

\* Rows that are not rewritten are still right.
LEMMA RowsOKStay ==
  ASSUME FInv, EInv, ScenariosStay, UNCHANGED assessments
  PROVE  RowsOK'
<1> SUFFICES ASSUME NEW k \in Zones \X Times, assessments[k] # NoRow
             PROVE  /\ assessments[k].by \in Runs
                    /\ Evident(assessments[k].evidence, k[1], k[2], assessments[k].by)'
  BY DEF RowsOK
<1>1. /\ assessments[k].by \in Runs
      /\ Evident(assessments[k].evidence, k[1], k[2], assessments[k].by)
  BY DEF EInv, RowsOK
<1>2. QED
  BY <1>1, EvidentStays DEF Evident

\* A level of a tick keeps the evidence invariant, if its own evidence is right.
LEMMA TickEInv ==
  ASSUME FInv, EInv, NEW r \in Runs, run[r].pc \in Working, TickKept(r),
         run'[r].pc \in Working \cup {"failed"}, EvidenceOK(r)',
         UNCHANGED <<readings, assessments>>
  PROVE  EInv'
<1>0. ScenariosStay
  BY OneSteps DEF TickKept, Working
<1>1. Stored(r)'
  <2> SUFFICES ASSUME run'[r].pc \in Working \cup {"finished"},
                      NEW x \in ToSet(generate_sensor_readings(run[r].scenario))
               PROVE  \E y \in readings : Keeps(y, x, r)'
    BY DEF Stored, TickKept
  <2>1. PICK y \in readings : Keeps(y, x, r)
    BY DEF EInv, Stored
  <2>2. QED
    BY <1>0, <2>1, KeepsStays DEF Keeps
<1>2. \A q \in Runs : Stored(q)' /\ EvidenceOK(q)'
  BY <1>0, <1>1, OthersEvidence DEF TickKept, OthersKept
<1>3. QED
  BY <1>0, <1>2, RowsOKStay DEF EInv

\* A commit keeps the evidence invariant.
LEMMA CommitEInv ==
  ASSUME FInv, EInv, NEW r \in Runs, NEW outcome, Commit(r, outcome),
         outcome \in {"failed", "finished", "gas"}
  PROVE  EInv'
<1> DEFINE k == <<tick(r).zone, tick(r).ts>>
           state == transition(threaded(r), fuse(agent_risks(r)))
<1>1. /\ run[r].pc = "write" /\ run[r].poisoned # TRUE /\ OthersKept(r)
      /\ run'[r].pc = outcome /\ run'[r].scenario = run[r].scenario
      /\ run'[r].ticks = run[r].ticks
      /\ UNCHANGED readings
      /\ \E alert : assessments' = [assessments EXCEPT ![k] = assessment(r, state, alert)]
  BY CommitEffect, Zenon
<1>2. PICK alert : assessments' = [assessments EXCEPT ![k] = assessment(r, state, alert)]
  BY <1>1
<1>3. ScenariosStay
  BY <1>1, OneSteps
<1>4. Stored(r)' /\ EvidenceOK(r)'
  <2>1. EvidenceOK(r)'
    BY <1>1 DEF EvidenceOK
  <2> SUFFICES ASSUME NEW x \in ToSet(generate_sensor_readings(run[r].scenario))
               PROVE  \E y \in readings : Keeps(y, x, r)'
    BY <1>1, <2>1 DEF Stored
  <2>2. PICK y \in readings : Keeps(y, x, r)
    BY <1>1 DEF EInv, Stored, Working
  <2>3. QED
    BY <1>3, <2>2, KeepsStays DEF Keeps
<1>5. \A q \in Runs : Stored(q)' /\ EvidenceOK(q)'
  BY <1>1, <1>3, <1>4, OthersEvidence DEF OthersKept
<1>6. assessment(r, state, alert).evidence = run[r].evidence /\ assessment(r, state, alert).by = r
  BY DEF assessment
<1> HIDE DEF state
<1>7. RowsOK'
  <2> SUFFICES ASSUME NEW i \in Zones \X Times, assessments'[i] # NoRow
               PROVE  /\ assessments'[i].by \in Runs
                      /\ Evident(assessments[i].evidence, i[1], i[2], assessments[i].by)'
    BY DEF RowsOK
  <2>1. CASE i = k
    <3>1. assessments'[i] = assessment(r, state, alert)
      BY <1>2, <2>1 DEF FInv
    <3>2. i[1] = tick(r).zone /\ i[2] = tick(r).ts
      BY <2>1
    <3>3. Evident(run[r].evidence, i[1], i[2], r)
      BY <1>1, <3>2 DEF EInv, EvidenceOK
    <3>4. QED
      BY <1>3, <1>6, <3>1, <3>3, EvidentStays DEF Evident
  <2>2. CASE i # k
    <3>1. assessments'[i] = assessments[i]
      BY <1>2, <2>2 DEF FInv
    <3>2. /\ assessments[i].by \in Runs
          /\ Evident(assessments[i].evidence, i[1], i[2], assessments[i].by)
      BY <3>1 DEF EInv, RowsOK
    <3>3. QED
      BY <1>3, <3>1, <3>2, EvidentStays DEF Evident
  <2>3. QED
    BY <2>1, <2>2
<1>8. QED
  BY <1>1, <1>5, <1>7 DEF EInv

\* A request that displaces readings of another.
LEMMA ExecuteDisplaces ==
  ASSUME FInv, NEW r \in Runs, NEW s \in Scenarios, Execute(r, s),
         NEW q \in Runs, q # r, run[q].pc # "new", run[q].scenario # s,
         NEW x \in ToSet(generate_sensor_readings(run[q].scenario)),
         NEW w \in ToSet(generate_sensor_readings(s)), w.id = x.id, w.ts = x.ts
  PROVE  Displaces(r, q)'
<1>1. /\ run'[q] = run[q] /\ run'[r].scenario = s /\ run'[r].ticks = schedule(s)
  BY ExecuteEffect DEF OthersKept
<1>2. schedule(s) # <<>>
  <2>1. generate_sensor_readings(s) \in Seq(Samples(s))
    BY ScenariosAssumption, ReadingsAreSamples
  <2>2. Len(generate_sensor_readings(s)) # 0
    BY <2>1 DEF ToSet
  <2>3. Len(schedule(s)) = Len(generate_sensor_readings(s))
    BY ScenariosAssumption, ScheduleProperties
  <2>4. QED
    BY <2>2, <2>3
<1>3. QED
  BY <1>1, <1>2 DEF Displaces, ticks

\* Persisting a scenario keeps the evidence invariant.
LEMMA ExecuteEInv ==
  ASSUME FInv, EInv, NEW r \in Runs, NEW s \in Scenarios, Execute(r, s)
  PROVE  EInv'
<1>1. /\ validate_builder_scenario(s) /\ OthersKept(r) /\ run[r] = Idle
      /\ run'[r].pc \in {"finished", "gas"} /\ run'[r].scenario = s
      /\ readings' = merge_readings(readings, reading_rows(r, s))
      /\ UNCHANGED assessments
  BY ExecuteEffect DEF Execute
<1>2. ScenariosStay
  BY <1>1, OneSteps
<1>3. Stored(r)' /\ EvidenceOK(r)'
  <2>1. ASSUME NEW x \in ToSet(generate_sensor_readings(s))
        PROVE  \E y \in readings' : Keeps(y, x, r)'
    <3>1. PICK y \in readings' : Holds(y, x)
      BY <1>1, MergedRowsHold
    <3>2. QED
      BY <3>1 DEF Holds, Keeps
  <2>2. Stored(r)'
    BY <1>1, <2>1 DEF Stored
  <2>3. EvidenceOK(r)'
    BY <1>1 DEF EvidenceOK
  <2>4. QED
    BY <2>2, <2>3
<1>4. ASSUME NEW q \in Runs, q # r PROVE Stored(q)'
  <2> SUFFICES ASSUME run[q].pc \in Working \cup {"finished"},
                      NEW x \in ToSet(generate_sensor_readings(run[q].scenario))
               PROVE  \E y \in readings' : Keeps(y, x, q)'
    BY <1>1, <1>4 DEF Stored, OthersKept
  <2>1. PICK y \in readings : Keeps(y, x, q)
    BY DEF EInv, Stored
  <2>2. CASE run[q].scenario = s
    <3>1. PICK z \in readings' : Holds(z, x)
      BY <1>1, <2>2, MergedRowsHold
    <3>2. QED
      BY <3>1 DEF Holds, Keeps
  <2>3. CASE y \in readings'
    BY <1>2, <2>1, <2>3, KeepsStays DEF Keeps
  <2>4. CASE run[q].scenario # s /\ y \notin readings'
    <3>1. PICK z \in readings' :
             /\ z.id = y.id /\ z.ts = y.ts /\ z.by = r
             /\ \E w \in ToSet(generate_sensor_readings(s)) : w.id = y.id /\ w.ts = y.ts
      BY <1>1, <2>4, RowsStayOrAreReplaced
    <3>2. y.id = x.id /\ y.ts = x.ts
      BY <2>1 DEF Keeps
    <3>3. run[q].pc # "new"
      BY DEF Working
    <3>4. Displaces(r, q)'
      BY <1>4, <2>4, <3>1, <3>2, <3>3, ExecuteDisplaces
    <3>5. QED
      BY <3>1, <3>2, <3>4 DEF Keeps
  <2>5. QED
    BY <2>2, <2>3, <2>4
<1>5. \A q \in Runs : Stored(q)' /\ EvidenceOK(q)'
  BY <1>1, <1>2, <1>3, <1>4, OthersEvidence DEF OthersKept
<1>6. \A x \in readings' : x # NoRow /\ x.ts \in Times
  BY <1>1, RowsAddedAreReadings DEF EInv
<1>7. QED
  BY <1>1, <1>2, <1>5, <1>6, RowsOKStay DEF EInv

\* A request that is refused, or cannot be persisted, keeps it.
LEMMA RefusedEInv ==
  ASSUME FInv, EInv, NEW r \in Runs, NEW s \in Scenarios, Reject(r, s) \/ PersistFails(r, s)
  PROVE  EInv'
<1>1. /\ OthersKept(r) /\ run[r] = Idle /\ run'[r].pc \in {"rejected", "failed"}
      /\ UNCHANGED <<readings, assessments>>
  BY RefusedEffect
<1>2. ScenariosStay
  BY <1>1, OneSteps
<1>3. Stored(r)' /\ EvidenceOK(r)'
  BY <1>1 DEF Stored, EvidenceOK, Working
<1>4. \A q \in Runs : Stored(q)' /\ EvidenceOK(q)'
  BY <1>1, <1>2, <1>3, OthersEvidence DEF OthersKept
<1>5. QED
  BY <1>1, <1>2, <1>4, RowsOKStay DEF EInv

\* An ingested reading keeps it.
LEMMA IngestEInv ==
  ASSUME FInv, EInv, NEW z \in Zones, NEW v \in IngestValues, NEW t \in Times, Ingest(z, v, t)
  PROVE  EInv'
<1> DEFINE x == [id |-> <<Ingested, ingested>>, ts |-> t, zone |-> z, value |-> v, by |-> Ingested]
<1>1. readings' = readings \cup {x} /\ UNCHANGED <<assessments, run>>
  BY DEF Ingest
<1>2. x # NoRow /\ x.ts \in Times
  BY DEF NoRow
<1> HIDE DEF x
<1>3. ScenariosStay
  BY <1>1 DEF ScenariosStay
<1>4. \A q \in Runs : Stored(q)' /\ EvidenceOK(q)'
  BY <1>1, <1>3, OthersEvidence
<1>5. QED
  BY <1>1, <1>2, <1>3, <1>4, RowsOKStay DEF EInv

\* It holds before any request.
LEMMA InitEInv == Init => EInv
<1> SUFFICES ASSUME Init PROVE EInv
  OBVIOUS
<1>1. ASSUME NEW r \in Runs PROVE Stored(r) /\ EvidenceOK(r)
  <2>1. run[r].pc = "new"
    BY DEF Init, Idle
  <2>2. QED
    BY <2>1 DEF Stored, EvidenceOK, Working
<1>2. QED
  BY <1>1 DEF Init, EInv, RowsOK

\* Every step keeps the evidence invariant.
LEMMA NextEInv ==
  FInv /\ EInv /\ [Next]_vars => EInv'
<1> SUFFICES ASSUME FInv, EInv, [Next]_vars PROVE EInv'
  OBVIOUS
<1>1. ASSUME NEW r \in Runs, NEW s \in Scenarios,
             Execute(r, s) \/ Reject(r, s) \/ PersistFails(r, s)
      PROVE  EInv'
  BY <1>1, ExecuteEInv, RefusedEInv
<1>2. ASSUME NEW r \in Runs, Step(r) PROVE EInv'
  <2>0. EvidenceOK(r)
    BY DEF EInv
  <2>1. CASE QueryFails(r)
    <3>1. /\ run[r].pc \in Working /\ TickKept(r) /\ run'[r].pc \in Working \cup {"failed"}
          /\ run'[r].pc = "failed" \/ run'[r].poisoned = TRUE
      BY <2>1, QueryFailsEffect DEF Working
    <3>2. EvidenceOK(r)'
      BY <3>1 DEF EvidenceOK
    <3>3. QED
      BY <2>1, <3>1, <3>2, TickEInv DEF QueryFails, db
  <2>2. CASE WriteFails(r)
    <3>1. /\ run[r].pc \in Working /\ TickKept(r) /\ run'[r].pc = "failed"
      BY <2>2, WriteFailsEffect DEF Working
    <3>2. EvidenceOK(r)'
      BY <3>1 DEF EvidenceOK
    <3>3. QED
      BY <2>2, <3>1, <3>2, TickEInv DEF WriteFails, db
  <2>3. CASE EvaluateGas(r)
    <3>1. /\ run[r].pc = "gas" /\ TickKept(r) /\ run'[r].pc = "permit"
          /\ \/ recent(tick(r).zone, tick(r).ts) = {} /\ run'[r].evidence = NoRow
             \/ \E x \in recent(tick(r).zone, tick(r).ts) : run'[r].evidence = x
      BY <2>3, GasEffect
    <3>2. ScenariosStay /\ tick(r)' = tick(r)
      BY <3>1, OneSteps DEF TickKept, tick, ticks
    <3>3. Evident(run'[r].evidence, tick(r).zone, tick(r).ts, r)
      BY <3>1, RecentIsOfTheTick DEF Evident
    <3>4. EvidenceOK(r)'
      BY <3>2, <3>3, EvidentStays DEF EvidenceOK, Evident
    <3>5. QED
      BY <2>3, <3>1, <3>4, TickEInv DEF EvaluateGas, Working, db
  <2>4. CASE EvaluatePermit(r)
    <3>1. /\ run[r].pc = "permit" /\ run[r].poisoned # TRUE /\ TickKept(r)
          /\ run'[r].pc = "worker" /\ run'[r].evidence = run[r].evidence
      BY <2>4, PermitEffect
    <3>2. ScenariosStay /\ tick(r)' = tick(r)
      BY <3>1, OneSteps DEF TickKept, tick, ticks
    <3>3. Evident(run'[r].evidence, tick(r).zone, tick(r).ts, r)
      BY <2>0, <3>1 DEF EvidenceOK
    <3>4. EvidenceOK(r)'
      BY <3>2, <3>3, EvidentStays DEF EvidenceOK, Evident
    <3>5. QED
      BY <2>4, <3>1, <3>4, TickEInv DEF EvaluatePermit, Working, db
  <2>5. CASE EvaluateWorker(r)
    <3>1. /\ run[r].pc = "worker" /\ run[r].poisoned # TRUE /\ TickKept(r)
          /\ run'[r].pc = "write" /\ run'[r].evidence = run[r].evidence
      BY <2>5, WorkerEffect
    <3>2. ScenariosStay /\ tick(r)' = tick(r)
      BY <3>1, OneSteps DEF TickKept, tick, ticks
    <3>3. Evident(run'[r].evidence, tick(r).zone, tick(r).ts, r)
      BY <2>0, <3>1 DEF EvidenceOK
    <3>4. EvidenceOK(r)'
      BY <3>2, <3>3, EvidentStays DEF EvidenceOK, Evident
    <3>5. QED
      BY <2>5, <3>1, <3>4, TickEInv DEF EvaluateWorker, Working, db
  <2>6. CASE WriteAssessment(r)
    BY <2>6, CommitEInv DEF WriteAssessment
  <2>7. CASE CounterfactualFails(r)
    BY <2>7, CommitEInv DEF CounterfactualFails
  <2>8. QED
    BY <1>2, <2>1, <2>2, <2>3, <2>4, <2>5, <2>6, <2>7 DEF Step
<1>3. ASSUME NEW z \in Zones, NEW v \in IngestValues, NEW t \in Times, Ingest(z, v, t)
      PROVE  EInv'
  BY <1>3, IngestEInv
<1>4. CASE UNCHANGED vars
  <2>1. ScenariosStay /\ UNCHANGED <<readings, assessments>> /\ \A q \in Runs : run'[q] = run[q]
    BY <1>4 DEF vars, ScenariosStay
  <2>2. \A q \in Runs : Stored(q)' /\ EvidenceOK(q)'
    BY <2>1, OthersEvidence
  <2>3. QED
    BY <2>1, <2>2, RowsOKStay DEF EInv
<1>5. QED
  BY <1>1, <1>2, <1>3, <1>4 DEF Next

(***************************************************************************)
(* No stored reading of an accepted scenario is lost or moved, however     *)
(* many requests carry it or others beside it and whatever is ingested     *)
(* meanwhile, unless another scenario has a reading of its id and time     *)
(* (which takes the same seed and an event of the same name).              *)
(***************************************************************************)
THEOREM NoReadingIsLost == Spec => []ReadingsAreKept
<1>1. EInv => ReadingsAreKept
  BY DEF EInv, Stored, ReadingsAreKept, Working, Keeps
<1>2. Spec => [](FInv /\ EInv)
  BY InitFInv, NextFInv, InitEInv, NextEInv, PTL DEF Spec
<1>3. QED
  BY <1>1, <1>2, PTL

(***************************************************************************)
(* Every assessment is computed from a reading of its zone, never a later  *)
(* one, for any scenarios and any interleaving; and from one taken at its  *)
(* own time, unless another scenario displaces readings of its request.    *)
(***************************************************************************)
THEOREM EvidenceIsNeverLate == Spec => []EvidenceIsOfTheTick
<1>1. Spec => [](FInv /\ EInv)
  BY InitFInv, NextFInv, InitEInv, NextEInv, PTL DEF Spec
<1>2. EInv => EvidenceIsOfTheTick
  BY DEF EInv, RowsOK, Evident, Displaced, EvidenceIsOfTheTick
<1>3. QED
  BY <1>1, <1>2, PTL

-----------------------------------------------------------------------------
(* The tier state is the request's own.                                    *)

\* A function that satisfies the recursion of replayed up to n.
replays(f, zs, n) ==
    f = [i \in 0..n |-> IF i = 0 THEN InitialTierState ELSE transition(f[i - 1], zs[i])]

\* Any number of scores can be replayed.
LEMMA ReplayExists ==
  ASSUME NEW zs, NEW n \in Nat
  PROVE  \E f : replays(f, zs, n)
<1> DEFINE Bad == {m \in Nat : ~ \E f : replays(f, zs, m)}
<1>1. SUFFICES ASSUME Bad # {} PROVE FALSE
  OBVIOUS
<1>2. PICK m \in Bad : \A k \in Bad : m <= k
  BY <1>1, LeastNat, Bad \subseteq Nat
<1>3. m # 0
  <2>1. replays([i \in 0..0 |-> InitialTierState], zs, 0)
    BY DEF replays
  <2>2. QED
    BY <2>1, <1>2
<1>4. m - 1 \in Nat /\ m - 1 \notin Bad
  BY <1>2, <1>3
<1>5. PICK g : replays(g, zs, m - 1)
  BY <1>4
<1> DEFINE h == [i \in 0..m |-> IF i = 0 THEN InitialTierState ELSE transition(g[i - 1], zs[i])]
<1>6. \A i \in 0..m - 1 : g[i] = h[i]
  <2> TAKE i \in 0..m - 1
  <2>1. i \in 0..m
    BY <1>2
  <2>2. h[i] = IF i = 0 THEN InitialTierState ELSE transition(g[i - 1], zs[i])
    BY <2>1
  <2>3. g = [j \in 0..m - 1 |-> IF j = 0 THEN InitialTierState ELSE transition(g[j - 1], zs[j])]
    BY <1>5 DEF replays
  <2>4. g[i] = IF i = 0 THEN InitialTierState ELSE transition(g[i - 1], zs[i])
    BY <2>3, Zenon
  <2>5. QED
    BY <2>2, <2>4
<1>7. \A i \in 0..m : i # 0 => g[i - 1] = h[i - 1]
  <2> TAKE i \in 0..m
  <2>1. i # 0 => i - 1 \in 0..m - 1
    BY <1>2
  <2> HIDE DEF h
  <2>2. QED
    BY <2>1, <1>6
<1>8. h = [i \in 0..m |-> IF i = 0 THEN InitialTierState ELSE transition(h[i - 1], zs[i])]
  BY <1>7
<1>9. QED
  BY <1>8, <1>2 DEF replays

\* Replays of two sequences agree for as long as the sequences do.
LEMMA ReplaysAgree ==
  ASSUME NEW n \in Nat, NEW m \in Nat, n <= m, NEW zs, NEW ys, NEW f, NEW g,
         replays(f, zs, n), replays(g, ys, m), \A i \in 1..n : zs[i] = ys[i]
  PROVE  f[n] = g[n]
<1> DEFINE Bad == {i \in 0..n : f[i] # g[i]}
<1>1. SUFFICES ASSUME Bad # {} PROVE FALSE
  OBVIOUS
<1>2. PICK i \in Bad : \A k \in Bad : i <= k
  BY <1>1, LeastNat, Bad \subseteq Nat
<1>3. f[i] = IF i = 0 THEN InitialTierState ELSE transition(f[i - 1], zs[i])
  BY <1>2, Zenon DEF replays
<1>4. i \in 0..m
  BY <1>2
<1>5. g[i] = IF i = 0 THEN InitialTierState ELSE transition(g[i - 1], ys[i])
  BY <1>4, Zenon DEF replays
<1>6. i # 0 => i - 1 \in 0..n /\ i - 1 \notin Bad /\ i \in 1..n
  BY <1>2
<1>7. i # 0 => f[i - 1] = g[i - 1] /\ zs[i] = ys[i]
  BY <1>6
<1>8. f[i] = g[i]
  BY <1>3, <1>5, <1>7
<1>9. QED
  BY <1>2, <1>8

\* Replaying one score more is one transition more.
LEMMA ReplayedAppend ==
  ASSUME NEW zs, NEW ys, NEW n \in Nat, Len(zs) = n, Len(ys) = n + 1,
         \A i \in 1..n : ys[i] = zs[i]
  PROVE  replayed(ys) = transition(replayed(zs), ys[n + 1])
<1> DEFINE f == CHOOSE g : replays(g, zs, n)
           h == CHOOSE g : replays(g, ys, n + 1)
<1>1. replays(f, zs, n) /\ replays(h, ys, n + 1)
  <2>1. (\E g : replays(g, zs, n)) /\ (\E g : replays(g, ys, n + 1))
    BY ReplayExists, n + 1 \in Nat
  <2>2. QED
    BY <2>1, Zenon
<1>2. replayed(zs) = f[n] /\ replayed(ys) = h[n + 1]
  BY DEF replayed, replays
<1> HIDE DEF f, h
<1>3. f[n] = h[n]
  BY <1>1, ReplaysAgree
<1>4. n + 1 \in 0..n + 1 /\ n + 1 # 0 /\ (n + 1) - 1 = n
  OBVIOUS
<1>5. h[n + 1] = transition(h[(n + 1) - 1], ys[n + 1])
  <2>1. \A i \in 0..n + 1 : h[i] = IF i = 0 THEN InitialTierState ELSE transition(h[i - 1], ys[i])
    BY <1>1, Zenon DEF replays
  <2>2. QED
    BY <1>4, <2>1, Zenon
<1>6. QED
  BY <1>2, <1>3, <1>4, <1>5

\* Replaying one score is one transition from the initial tier.
LEMMA ReplayedOne ==
  ASSUME NEW ys, Len(ys) = 1
  PROVE  replayed(ys) = transition(InitialTierState, ys[1])
<1> DEFINE h == CHOOSE g : replays(g, ys, 1)
<1>1. replays(h, ys, 1)
  <2>1. \E g : replays(g, ys, 1)
    BY ReplayExists
  <2>2. QED
    BY <2>1, Zenon
<1>2. replayed(ys) = h[1]
  BY DEF replayed, replays
<1> HIDE DEF h
<1>3. \A i \in 0..1 : h[i] = IF i = 0 THEN InitialTierState ELSE transition(h[i - 1], ys[i])
  BY <1>1, Zenon DEF replays
<1>4. h[0] = InitialTierState
  BY <1>3
<1>5. h[1] = transition(h[1 - 1], ys[1])
  <2>1. 1 \in 0..1 /\ 1 # 0
    OBVIOUS
  <2>2. QED
    BY <1>3, <2>1, Zenon
<1>6. QED
  BY <1>2, <1>4, <1>5, 1 - 1 = 0

\* The first n ticks that are of zone z, and those that are not.
OfZone(tk, z, n) == {j \in 1..n : tk[j].zone = z}

NotOfZone(tk, z, n) == {j \in 1..n : tk[j].zone # z}

\* A tick is of the zone or it is not, and one more of the zone counts one more.
LEMMA ZoneCounts ==
  ASSUME NEW tk, NEW z, NEW n \in Nat
  PROVE  /\ Cardinality(OfZone(tk, z, n)) \in Nat
         /\ Cardinality(NotOfZone(tk, z, n)) \in Nat
         /\ Cardinality(OfZone(tk, z, n)) + Cardinality(NotOfZone(tk, z, n)) = n
         /\ tk[n + 1].zone = z =>
              /\ Cardinality(OfZone(tk, z, n + 1)) = Cardinality(OfZone(tk, z, n)) + 1
              /\ NotOfZone(tk, z, n + 1) = NotOfZone(tk, z, n)
<1> DEFINE A == OfZone(tk, z, n)
           B == NotOfZone(tk, z, n)
<1>1. IsFiniteSet(1..n) /\ Cardinality(1..n) = n
  BY FS_Interval
<1>2. A \cup B = 1..n /\ A \cap B = {} /\ A \subseteq 1..n /\ B \subseteq 1..n
  BY DEF OfZone, NotOfZone
<1>3. IsFiniteSet(A) /\ IsFiniteSet(B)
  BY <1>1, <1>2, FS_Subset
<1>4. Cardinality(A) \in Nat /\ Cardinality(B) \in Nat
  BY <1>3, FS_CardinalityType
<1>5. Cardinality(A \cup B) = Cardinality(A) + Cardinality(B) - Cardinality(A \cap B)
  BY <1>3, FS_Union
<1>6. Cardinality(A) + Cardinality(B) = n
  <2>1. Cardinality(A \cap B) = 0 /\ Cardinality(A \cup B) = n
    BY <1>1, <1>2, FS_EmptySet
  <2> HIDE DEF A, B
  <2>2. QED
    BY <1>4, <1>5, <2>1
<1>7. ASSUME tk[n + 1].zone = z
      PROVE  /\ Cardinality(OfZone(tk, z, n + 1)) = Cardinality(A) + 1
             /\ NotOfZone(tk, z, n + 1) = B
  <2>1. OfZone(tk, z, n + 1) = A \cup {n + 1} /\ n + 1 \notin A
    BY <1>7 DEF OfZone
  <2>2. NotOfZone(tk, z, n + 1) = B
    BY <1>7 DEF NotOfZone
  <2>3. Cardinality(A \cup {n + 1}) = Cardinality(A) + 1
    BY <1>3, <2>1, FS_AddElement
  <2>4. QED
    BY <2>1, <2>2, <2>3
<1>8. QED
  BY <1>4, <1>6, <1>7

\* ZoneScores, when n scores are committed.
LEMMA ZoneScoresAre ==
  ASSUME NEW r, NEW n \in Nat, NEW tk, Len(scores[r]) = n, ticks(r) = tk
  PROVE  LET z == tk[n].zone
             c == Cardinality(OfZone(tk, z, n))
             o == Cardinality(NotOfZone(tk, z, n))
         IN  /\ ZoneScores(r) = [i \in 1..c |-> scores[r][i + o]]
             /\ Len(ZoneScores(r)) = c
<1> DEFINE z == tk[n].zone
           c == Cardinality(OfZone(tk, z, n))
           o == Cardinality(NotOfZone(tk, z, n))
<1>1. ZoneScores(r) = [i \in 1..c |-> scores[r][i + o]]
  BY DEF ZoneScores, OfZone, NotOfZone
<1>2. c \in Nat
  BY ZoneCounts
<1> HIDE DEF z, c, o
<1>3. Len(ZoneScores(r)) = c
  BY <1>1, <1>2
<1>4. QED
  BY <1>1, <1>3 DEF z, c, o

\* The write threads one transition more, or starts over with the zone.
LEMMA CommitTier ==
  ASSUME FInv, TierFollowsOwnScores, NEW r \in Runs, NEW outcome, Commit(r, outcome)
  PROVE  run'[r].tier_state = replayed(ZoneScores(r))'
<1> DEFINE n == Len(scores[r])
           tk == ticks(r)
           z == tick(r).zone
           c == Cardinality(OfZone(tk, z, n))
           o == Cardinality(NotOfZone(tk, z, n))
           score == fuse(agent_risks(r))
           zs == ZoneScores(r)
           ys == ZoneScores(r)'
<1>1. /\ run[r].pc = "write" /\ run'[r].ticks = run[r].ticks
      /\ run'[r].tier_state = transition(threaded(r), score)
      /\ scores'[r] = Append(scores[r], score)
  BY CommitEffect DEF FInv
<1>2. FrameOK(r) /\ PrefixOK(r) /\ run[r] # Idle
  BY <1>1 DEF FInv, Idle
<1>3. /\ Accepted(r) /\ run[r].pos \in 1..Len(tk) /\ Len(tk) \in Nat
      /\ tk = schedule(run[r].scenario)
  BY <1>1, <1>2, KeysOfTicks DEF FrameOK, Accepted, Working, ticks
<1>4. n \in Nat /\ n = run[r].pos - 1 /\ run[r].pos = n + 1 /\ z = tk[n + 1].zone
  BY <1>2, <1>3 DEF PrefixOK, tick
<1>5. /\ scores'[r][n + 1] = score /\ Len(scores'[r]) = n + 1
      /\ \A i \in 1..n : scores'[r][i] = scores[r][i]
  <2>1. PICK S : scores[r] \in Seq(S)
    BY <1>2 DEF PrefixOK
  <2>2. scores[r] \in Seq(S \cup {score})
    BY <2>1
  <2> HIDE DEF score
  <2>3. QED
    BY <1>1, <2>2
<1>6. ticks(r)' = tk
  BY <1>1 DEF ticks
<1>7. c \in Nat /\ o \in Nat /\ c + o = n
  BY <1>4, ZoneCounts
<1>8. /\ Cardinality(OfZone(tk, z, n + 1)) = c + 1
      /\ NotOfZone(tk, z, n + 1) = NotOfZone(tk, z, n)
  BY <1>4, ZoneCounts
<1>9. /\ ys = [i \in 1..c + 1 |-> scores'[r][i + o]]
      /\ Len(ys) = c + 1
  <2>1. /\ ZoneScores(r)' = [i \in 1..Cardinality(OfZone(tk, tk[n + 1].zone, n + 1)) |->
                         scores'[r][i + Cardinality(NotOfZone(tk, tk[n + 1].zone, n + 1))]]
    BY <1>5, <1>6 DEF ZoneScores, OfZone, NotOfZone
  <2>2. ys = [i \in 1..c + 1 |-> scores'[r][i + o]]
    BY <2>1, <1>4, <1>8
  <2> HIDE DEF ys, c
  <2>3. QED
    BY <2>2, <1>7
<1> HIDE DEF ys, zs, c, o, n, score, tk, z
<1>10. ys[c + 1] = score
  <2>1. c + 1 \in 1..c + 1 /\ (c + 1) + o = n + 1
    BY <1>4, <1>7
  <2>2. QED
    BY <1>5, <1>9, <2>1
<1>11. CASE FirstOfZone(r)
  <2>1. c = 0
    <3>1. n = 0 \/ tk[n].zone # z
      BY <1>4, <1>11 DEF FirstOfZone, tk, z
    <3>2. \A j \in 1..n : tk[j].zone # z
      <4> SUFFICES ASSUME NEW j \in 1..n, tk[j].zone = z PROVE FALSE
        OBVIOUS
      <4>1. /\ j \in 1..Len(tk) /\ n \in 1..Len(tk) /\ n + 1 \in 1..Len(tk)
            /\ j < n => n < n + 1
        BY <1>3, <1>4
      <4>2. j < n => tk[n].zone = tk[j].zone
        <5>1. IsScenario(run[r].scenario)
          BY <1>3, ScenariosAssumption DEF Accepted
        <5>2. \A i, k, l \in 1..Len(tk) :
                 i < k /\ k < l /\ tk[i].zone = tk[l].zone => tk[k].zone = tk[i].zone
          BY <1>3, <5>1, ScheduleProperties
        <5>3. QED
          BY <1>4, <4>1, <5>2
      <4>3. QED
        BY <3>1, <4>1, <4>2, <1>4
    <3>3. OfZone(tk, z, n) = {}
      BY <3>2 DEF OfZone
    <3>4. QED
      BY <3>3, FS_EmptySet DEF c
  <2>2. Len(ys) = 1 /\ ys[1] = score
    BY <2>1, <1>9, <1>10
  <2>3. replayed(ys) = transition(InitialTierState, score)
    BY <2>2, ReplayedOne
  <2>4. QED
    BY <1>1, <1>11, <2>3 DEF threaded, ys, score
<1>12. CASE ~FirstOfZone(r)
  <2>1. n # 0 /\ tk[n].zone = z
    BY <1>4, <1>12 DEF FirstOfZone, tk, z
  <2>2. zs = [i \in 1..c |-> scores[r][i + o]] /\ Len(zs) = c
    <3>1. ticks(r) = tk /\ Len(scores[r]) = n
      BY DEF tk, n
    <3>2. QED
      BY <1>4, <2>1, <3>1, ZoneScoresAre DEF c, o, zs
  <2>3. \A i \in 1..c : ys[i] = zs[i]
    <3> TAKE i \in 1..c
    <3>1. i \in 1..c + 1 /\ i + o \in 1..n
      BY <1>4, <1>7
    <3>2. QED
      BY <1>5, <1>9, <2>2, <3>1
  <2>4. replayed(ys) = transition(replayed(zs), ys[c + 1])
    <3>1. PICK k \in Nat, a \in {zs}, b \in {ys} : k = c
      BY <1>7
    <3>2. Len(a) = k /\ Len(b) = k + 1 /\ \A i \in 1..k : b[i] = a[i]
      BY <1>9, <2>2, <2>3, <3>1
    <3>3. replayed(b) = transition(replayed(a), b[k + 1])
      BY <3>2, ReplayedAppend
    <3>4. QED
      BY <3>1, <3>3
  <2>5. scores[r] # <<>>
    BY <2>1 DEF n
  <2>6. run[r].tier_state = replayed(zs)
    BY <2>5 DEF TierFollowsOwnScores, zs
  <2>7. QED
    BY <1>1, <1>10, <1>12, <2>4, <2>6 DEF threaded, ys, score
<1>13. QED
  BY <1>11, <1>12

TierOK(r) == scores[r] # <<>> => run[r].tier_state = replayed(ZoneScores(r))

\* A request whose ticks, scores and tier state stay keeps what they say.
LEMMA TierKept ==
  ASSUME TierFollowsOwnScores, NEW q \in Runs, scores'[q] = scores[q],
         run'[q].ticks = run[q].ticks, run'[q].tier_state = run[q].tier_state
  PROVE  TierOK(q)'
<1>1. ZoneScores(q)' = ZoneScores(q)
  BY DEF ZoneScores, ticks
<1>2. TierOK(q)
  BY DEF TierOK, TierFollowsOwnScores
<1> HIDE DEF ZoneScores
<1>3. QED
  BY <1>1, <1>2 DEF TierOK

\* Every step keeps the tier state that of the request's own scores.
LEMMA NextTier == FInv /\ TierFollowsOwnScores /\ [Next]_vars => TierFollowsOwnScores'
<1> SUFFICES ASSUME FInv, TierFollowsOwnScores, [Next]_vars, NEW q \in Runs
             PROVE  TierOK(q)'
  BY DEF TierFollowsOwnScores, TierOK
<1>1. ASSUME NEW r \in Runs, NEW s \in Scenarios,
             Execute(r, s) \/ Reject(r, s) \/ PersistFails(r, s)
      PROVE  TierOK(q)'
  <2>1. run[r] = Idle /\ OthersKept(r) /\ UNCHANGED scores
    BY <1>1, ExecuteEffect, RefusedEffect DEF Execute
  <2>2. CASE q = r
    <3>1. PrefixOK(r) /\ run[r].pos = 1
      BY <2>1 DEF FInv, Idle
    <3>2. scores[r] = <<>>
      BY <3>1 DEF PrefixOK
    <3>3. QED
      BY <2>1, <2>2, <3>2 DEF TierOK
  <2>3. CASE q # r
    BY <2>1, <2>3, TierKept DEF OthersKept
  <2>4. QED
    BY <2>2, <2>3
<1>2. ASSUME NEW r \in Runs, Step(r) PROVE TierOK(q)'
  <2>1. CASE \E outcome : Commit(r, outcome)
    <3>1. PICK outcome : Commit(r, outcome)
      BY <2>1
    <3>2. CASE q = r
      BY <3>1, <3>2, CommitTier DEF TierOK
    <3>3. CASE q # r
      BY <3>1, <3>3, CommitEffect, TierKept DEF OthersKept, FInv
    <3>4. QED
      BY <3>2, <3>3
  <2>2. CASE TickKept(r) /\ UNCHANGED scores
    BY <2>2, TierKept DEF TickKept, OthersKept
  <2>3. (\E outcome : Commit(r, outcome)) \/ (TickKept(r) /\ UNCHANGED scores)
    <3>1. QueryFails(r) => TickKept(r) /\ UNCHANGED scores
      BY QueryFailsEffect DEF QueryFails
    <3>2. WriteFails(r) => TickKept(r) /\ UNCHANGED scores
      BY WriteFailsEffect DEF WriteFails
    <3>3. EvaluateGas(r) => TickKept(r) /\ UNCHANGED scores
      BY GasEffect DEF EvaluateGas
    <3>4. EvaluatePermit(r) => TickKept(r) /\ UNCHANGED scores
      BY PermitEffect DEF EvaluatePermit
    <3>5. EvaluateWorker(r) => TickKept(r) /\ UNCHANGED scores
      BY WorkerEffect DEF EvaluateWorker
    <3>6. WriteAssessment(r) \/ CounterfactualFails(r) => \E outcome : Commit(r, outcome)
      BY DEF WriteAssessment, CounterfactualFails
    <3>7. QED
      BY <1>2, <3>1, <3>2, <3>3, <3>4, <3>5, <3>6 DEF Step
  <2>4. QED
    BY <2>1, <2>2, <2>3
<1>3. ASSUME NEW z \in Zones, NEW v \in IngestValues, NEW t \in Times, Ingest(z, v, t)
      PROVE  TierOK(q)'
  BY <1>3, TierKept DEF Ingest
<1>4. CASE UNCHANGED vars
  BY <1>4, TierKept DEF vars
<1>5. QED
  BY <1>1, <1>2, <1>3, <1>4 DEF Next

(***************************************************************************)
(* Tier state is a request's own: it is what transition makes of the       *)
(* scores the request committed for the zone, for any number of requests   *)
(* on the same zones and any scenario, whatever fails.                     *)
(***************************************************************************)
THEOREM TierStateIsOwn == Spec => []TierFollowsOwnScores
<1>1. Init => TierFollowsOwnScores
  BY DEF Init, TierFollowsOwnScores
<1>2. QED
  BY <1>1, InitFInv, NextFInv, NextTier, PTL DEF Spec
=============================================================================
