-------------------------- MODULE DataPagesProofs ---------------------------
(***************************************************************************)
(* The pages that show what their queries have answered, for any page      *)
(* size, log, keys, assessments, zones and limits: the walk down the log   *)
(* leaves out what comes late or ties with the edge of a page, and nothing *)
(* else; the query cache never goes back; the workspace shows what is      *)
(* stored; and the moment a comparison shows is final.                     *)
(***************************************************************************)
EXTENDS AuditPaging, ZoneQueries, DecisionWorkspace, DecisionComparison, FiniteSetTheorems,
        WellFoundedInduction, TLAPS

-----------------------------------------------------------------------------
(* The walk down the log. *)

\* A set of natural numbers has a least element.
LEMMA LeastOf ==
  ASSUME NEW T, T \subseteq Nat, T # {}
  PROVE  \E m \in T : \A k \in T : m <= k
<1>1. \E m \in T : \A k \in T : ~(<<k, m>> \in OpToRel(<, Nat))
  BY WFMin, NatLessThanWellFounded
<1>2. PICK m \in T : \A k \in T : ~(<<k, m>> \in OpToRel(<, Nat))
  BY <1>1
<1>3. \A k \in T : ~(k < m)
  BY <1>2 DEF OpToRel
<1>4. QED
  BY <1>3

\* Natural numbers below a bound have a least and a greatest.
LEMMA LeastAndGreatest ==
  ASSUME NEW T, T # {}, NEW b \in Nat, T \subseteq 0 .. b
  PROVE  /\ \E m \in T : \A k \in T : m <= k
         /\ \E m \in T : \A k \in T : k <= m
<1>2. \E m \in T : \A k \in T : m <= k
  BY LeastOf, T \subseteq Nat
<1> DEFINE U == {n \in 0 .. b : b - n \in T}
<1>3. U \subseteq Nat
  OBVIOUS
<1>4. U # {}
  <2>1. PICK t : t \in T
    OBVIOUS
  <2>2. b - t \in 0 .. b /\ b - (b - t) = t
    BY <2>1
  <2>3. QED
    BY <2>1, <2>2
<1>5. PICK u \in U : \A k \in U : u <= k
  BY <1>3, <1>4, LeastOf
<1>6. b - u \in T /\ \A k \in T : k <= b - u
  <2> SUFFICES ASSUME NEW k \in T PROVE k <= b - u
    BY <1>5
  <2>1. b - k \in 0 .. b /\ b - (b - k) = k
    OBVIOUS
  <2>2. b - k \in U
    BY <2>1
  <2>3. u <= b - k
    BY <1>5, <2>2
  <2>4. QED
    BY <1>5, <2>1, <2>3
<1>7. QED
  BY <1>2, <1>6

-----------------------------------------------------------------------------
(* The invariant. *)

\* The entries of the log that pass the filter.
InScope == Matching([type |-> eventType, before |-> Top])

\* Those of them that came in order.
Prompt == {e \in InScope : ~Late(e)}

\* What of F lies strictly between c and the newest of S, and not at an edge, is in S.
Covers(F, S, c, E) ==
    \A e \in F, s \in S :
       c < e.timestamp /\ e.timestamp < s.timestamp /\ e.timestamp \notin E => e \in S

\* The log: its entries are numbered as they come.
LogOK ==
    /\ IsFiniteSet(log)
    /\ \A e \in log : e.id \in 1 .. Cardinality(log) /\ e.timestamp \in 1 .. Latest

\* The cursors: each but the first is an edge, and no newer than an entry there is.
StackOK ==
    /\ eventType \in Filters
    /\ cursorStack \in Seq(0 .. Top) /\ Len(cursorStack) >= 1 /\ cursorStack[1] = Top
    /\ \A i \in 2 .. Len(cursorStack) :
          cursorStack[i] \in edges /\ \E e \in log : cursorStack[i] <= e.timestamp
    /\ \A i, j \in 1 .. Len(cursorStack) : i <= j => cursorStack[j] <= cursorStack[i]

\* Of what comes in order, an answer below a cursor has no gap up to it, and never
\* will have; one of the first page has no gap up to its newest entry.
AnswerOK(q) ==
    /\ pageCache[q] \subseteq Matching(q)
    /\ q.before # Top => \E e \in log : q.before <= e.timestamp
    /\ \A e \in Matching(q), a \in pageCache[q] :
          /\ ~Late(e) /\ a.timestamp < e.timestamp
          /\ q.before = Top => \E g \in pageCache[q] : e.timestamp < g.timestamp
          => e \in pageCache[q]

AnswersOK ==
    /\ DOMAIN pageCache = Queries
    /\ \A q \in Queries : pageCache[q] # NoAnswer => AnswerOK(q)

\* What is on screen is remembered, and begins no later than its cursor.
ShownOK ==
    /\ placeholder = items /\ placeholder \subseteq log
    /\ placeholder # {} => \E p \in placeholder : p.timestamp <= before(cursorStack)
    /\ seen \subseteq InScope
    /\ pageCache[query] # NoAnswer => pageCache[query] \subseteq seen

First == QueryOf(eventType, <<Top>>)

\* The answer of the first page has e, or ends above it.
FirstHolds(e) == \A a \in pageCache[First] : a.timestamp < e.timestamp => e \in pageCache[First]

\* The answer of the first page has what is older than something seen, or than a
\* cursor, down to its own oldest entry.
TopOK ==
    pageCache[First] # NoAnswer =>
        /\ \A s \in seen, e \in Prompt : e.timestamp < s.timestamp => FirstHolds(e)
        /\ \A i \in 2 .. Len(cursorStack) : \A e \in Prompt :
              e.timestamp < cursorStack[i] => FirstHolds(e)

\* The walk has left nothing out above the page shown and above each cursor.
WalkOK ==
    /\ placeholder # {} => Covers(Prompt, seen, Min({p.timestamp : p \in placeholder}), edges)
    /\ \A i \in 2 .. Len(cursorStack) : Covers(Prompt, seen, cursorStack[i], edges)

PagingInv == LogOK /\ StackOK /\ AnswersOK /\ ShownOK /\ TopOK /\ WalkOK

-----------------------------------------------------------------------------
(* Facts about pages and walks. *)

\* The oldest of a page of entries.
LEMMA OldestOf ==
  ASSUME Latest \in Nat, NEW P, P # {}, \A p \in P : p.timestamp \in 1 .. Latest
  PROVE  LET m == Min({p.timestamp : p \in P})
         IN  /\ m \in 1 .. Latest
             /\ \A p \in P : m <= p.timestamp
             /\ \E p \in P : p.timestamp = m
<1> DEFINE T == {p.timestamp : p \in P}
<1>1. T # {} /\ T \subseteq 0 .. Latest /\ T \subseteq 1 .. Latest
  OBVIOUS
<1>2. PICK m \in T : \A k \in T : m <= k
  BY <1>1, LeastAndGreatest
<1>3. Min(T) \in T /\ \A k \in T : Min(T) <= k
  BY <1>2 DEF Min
<1>4. QED
  BY <1>1, <1>3

\* Showing a page below a cursor above which nothing was left out.
LEMMA DeepPage ==
  ASSUME NEW F, NEW S, NEW A, NEW E, NEW c \in E, c \in Int,
         \A e \in F \cup S \cup A : e.timestamp \in Int,
         \A a \in A : a.timestamp < c,
         \A e \in F, a \in A : a.timestamp < e.timestamp /\ e.timestamp < c => e \in A,
         Covers(F, S, c, E)
  PROVE  /\ \A a \in A : Covers(F, S \cup A, a.timestamp, E)
         /\ \A d \in Int : c <= d /\ Covers(F, S, d, E) => Covers(F, S \cup A, d, E)
<1>1. ASSUME NEW a \in A, NEW e \in F, NEW s \in S \cup A, e.timestamp \notin E,
             a.timestamp < e.timestamp, e.timestamp < s.timestamp
      PROVE  e \in S \cup A
  <2>1. CASE e.timestamp < c
    BY <1>1, <2>1
  <2>2. CASE ~(e.timestamp < c)
    <3>1. e.timestamp \in Int /\ s.timestamp \in Int /\ e.timestamp # c
      BY <1>1
    <3>2. c < e.timestamp /\ c < s.timestamp
      BY <1>1, <2>2, <3>1
    <3>3. s \in S
      BY <3>1, <3>2
    <3>4. e \in S
      BY <1>1, <3>2, <3>3 DEF Covers
    <3>5. QED
      BY <3>4
  <2>3. QED
    BY <2>1, <2>2
<1>2. ASSUME NEW d \in Int, c <= d, Covers(F, S, d, E), NEW e \in F, NEW s \in S \cup A,
             d < e.timestamp, e.timestamp < s.timestamp, e.timestamp \notin E
      PROVE  e \in S \cup A
  <2>1. s \in S
    BY <1>2
  <2>2. QED
    BY <1>2, <2>1 DEF Covers
<1>3. QED
  BY <1>1, <1>2 DEF Covers

\* Showing the first page, which has what is older than something seen.
LEMMA TopPage ==
  ASSUME NEW F, NEW S, NEW A, NEW E,
         \A e \in F, a \in A, g \in A :
            a.timestamp < e.timestamp /\ e.timestamp < g.timestamp => e \in A,
         \A s \in S, e \in F : e.timestamp < s.timestamp =>
            \A a \in A : a.timestamp < e.timestamp => e \in A
  PROVE  \A a \in A : Covers(F, S \cup A, a.timestamp, E)
BY DEF Covers

\* What a sequence of members of a set is.
LEMMA SequenceFacts ==
  ASSUME NEW S, NEW s \in Seq(S)
  PROVE  Len(s) \in Nat /\ \A i \in 1 .. Len(s) : s[i] \in S
OBVIOUS

\* The query of a stack of cursors.
LEMMA QueryFacts ==
  ASSUME PagingAssumption, NEW type \in Filters, NEW stack \in Seq(0 .. Top), Len(stack) >= 1
  PROVE  /\ Latest \in Nat /\ PAGE_SIZE \in Nat \ {0} /\ Top \in Nat /\ Top = Latest + 1
         /\ Len(stack) \in Nat
         /\ \A i \in 1 .. Len(stack) : stack[i] \in 0 .. Top
         /\ before(stack) = stack[Len(stack)]
         /\ QueryOf(type, stack) = [type |-> type, before |-> stack[Len(stack)]]
         /\ QueryOf(type, stack) \in Queries
<1>1. Latest \in Nat /\ PAGE_SIZE \in Nat \ {0} /\ Top \in Nat /\ Top = Latest + 1
  BY DEF PagingAssumption, Top
<1>2. Len(stack) \in Nat /\ \A i \in 1 .. Len(stack) : stack[i] \in 0 .. Top
  BY SequenceFacts
<1>3. QueryOf(type, stack) = [type |-> type, before |-> stack[Len(stack)]]
  BY DEF QueryOf, before
<1>4. QueryOf(type, stack) \in Queries
  BY <1>2, <1>3 DEF Queries
<1>5. QED
  BY <1>1, <1>2, <1>3, <1>4 DEF before

\* The query of the first page.
LEMMA FirstFacts ==
  ASSUME PagingAssumption, NEW type \in Filters
  PROVE  /\ QueryOf(type, <<Top>>) = [type |-> type, before |-> Top]
         /\ QueryOf(type, <<Top>>) \in Queries
<1>1. Top \in 0 .. Top
  BY DEF PagingAssumption, Top
<1>2. QueryOf(type, <<Top>>) = [type |-> type, before |-> Top]
  BY DEF QueryOf, before
<1>3. QED
  BY <1>1, <1>2 DEF Queries

-----------------------------------------------------------------------------
(* Showing what the page's query has answered. *)

\* After any handler the page shows an answer, or still the items of before;
\* `walk` is what the walk had seen until then.
LEMMA ShowsKeeps ==
  ASSUME PagingAssumption, LogOK', StackOK', AnswersOK', NEW walk,
         Shows(eventType', cursorStack', pageCache', walk),
         walk \subseteq InScope', placeholder \subseteq log',
         placeholder # {} => \E p \in placeholder : p.timestamp <= before(cursorStack'),
         pageCache'[First'] # NoAnswer =>
            /\ \A s \in walk, e \in Prompt' : e.timestamp < s.timestamp => FirstHolds(e)'
            /\ \A i \in 2 .. Len(cursorStack') : \A e \in Prompt' :
                  e.timestamp < cursorStack'[i] => FirstHolds(e)',
         \A i \in 2 .. Len(cursorStack') : Covers(Prompt', walk, cursorStack'[i], edges'),
         placeholder # {} => Covers(Prompt', walk, Min({p.timestamp : p \in placeholder}), edges')
  PROVE  ShownOK' /\ TopOK' /\ WalkOK'
<1> DEFINE F == InScope'
           P == Prompt'
           E == edges'
           A == pageCache'[query']
           n == Len(cursorStack')
           c == cursorStack'[n]
<1>1. query' = QueryOf(eventType', cursorStack') /\ First' = QueryOf(eventType', <<Top>>)
  BY DEF query, First
<1>2. /\ placeholder' = IF A = NoAnswer THEN placeholder ELSE A
      /\ seen' = walk \cup (IF A = NoAnswer THEN {} ELSE A)
  BY <1>1 DEF Shows, Items
<1>3. items' = placeholder'
  BY <1>1, <1>2 DEF items, Items
<1>4. eventType' \in Filters /\ cursorStack' \in Seq(0 .. Top) /\ n >= 1 /\ cursorStack'[1] = Top
  BY DEF StackOK
<1>5. /\ Latest \in Nat /\ Top \in Nat /\ Top = Latest + 1 /\ n \in Nat
      /\ \A i \in 1 .. n : cursorStack'[i] \in 0 .. Top
      /\ before(cursorStack') = c
      /\ query' \in Queries /\ query' = [type |-> eventType', before |-> c]
      /\ First' \in Queries /\ First' = [type |-> eventType', before |-> Top]
  BY <1>1, <1>4, QueryFacts, FirstFacts
<1>6. c \in 0 .. Top /\ (n = 1 => query' = First')
  BY <1>4, <1>5
<1>7. F = {e \in log' : eventType' = AllEvents \/ e.type = eventType'}
  <2>1. \A e \in log' : e.timestamp < Top
    BY <1>5 DEF LogOK
  <2>2. F = {e \in log' : (eventType' = AllEvents \/ e.type = eventType') /\ e.timestamp < Top}
    BY DEF InScope, Matching
  <2>3. QED
    BY <2>1, <2>2
<1>8. \A e \in log' : e.timestamp \in 1 .. Latest
  BY DEF LogOK
<1>9. Matching(query)' = {e \in F : e.timestamp < c}
  BY <1>5, <1>7 DEF Matching
<1>10. walk \subseteq F /\ P \subseteq F /\ \A e \in P : ~Late(e)'
  BY DEF Prompt
<1>11. CASE A = NoAnswer
  <2>1. placeholder' = placeholder /\ seen' = walk
    BY <1>2, <1>11
  <2>2. ShownOK'
    BY <1>3, <1>11, <2>1 DEF ShownOK
  <2>3. TopOK'
    BY <2>1 DEF TopOK
  <2>4. WalkOK'
    BY <2>1 DEF WalkOK
  <2>5. QED
    BY <2>2, <2>3, <2>4
<1>12. CASE A # NoAnswer
  <2>1. placeholder' = A /\ seen' = walk \cup A
    BY <1>2, <1>12
  <2>2. AnswerOK(query)'
    BY <1>5, <1>12 DEF AnswersOK
  <2>3. A \subseteq F /\ A \subseteq log' /\ \A a \in A : a.timestamp < c /\ a.timestamp \in 1 .. Latest
    BY <1>7, <1>8, <1>9, <2>2 DEF AnswerOK
  <2>4. \A e \in P, a \in A : a.timestamp < e.timestamp /\ e.timestamp < c
            /\ (c = Top => \E g \in A : e.timestamp < g.timestamp) => e \in A
    BY <1>5, <1>9, <1>10, <2>2 DEF AnswerOK
  <2>5. ShownOK'
    <3>1. A # {} => \E p \in A : p.timestamp <= c
      BY <1>6, <2>3
    <3>2. QED
      BY <1>3, <1>5, <2>1, <2>3, <3>1 DEF ShownOK
  <2>6. ASSUME c = Top
        PROVE  \A e \in P, a \in A, g \in A :
                  a.timestamp < e.timestamp /\ e.timestamp < g.timestamp => e \in A
    <3>1. \A e \in F : e.timestamp < Top
      BY <1>5, <1>7, <1>8
    <3>2. QED
      BY <1>10, <2>4, <2>6, <3>1
  <2>7. TopOK'
    <3>1. ASSUME pageCache'[First'] # NoAnswer, NEW s \in A, NEW e \in P, e.timestamp < s.timestamp
          PROVE  FirstHolds(e)'
      <4>1. CASE n = 1
        <5>1. c = Top /\ A = pageCache'[First']
          BY <1>4, <1>6, <4>1
        <5>2. \A a \in A : a.timestamp < e.timestamp => e \in A
          BY <2>6, <3>1, <5>1
        <5>3. QED
          BY <5>1, <5>2 DEF FirstHolds
      <4>2. CASE n # 1
        <5>1. n \in 2 .. n
          <6>1. n >= 1 /\ n \in Nat
            BY <1>4, <1>5
          <6> HIDE DEF n
          <6>2. QED
            BY <4>2, <6>1
        <5>2. e.timestamp < c
          <6>1. e.timestamp \in Int /\ s.timestamp \in Int /\ c \in Int /\ s.timestamp < c
            BY <1>6, <1>7, <1>8, <1>10, <2>3
          <6> HIDE DEF c
          <6>2. QED
            BY <3>1, <6>1
        <5>3. QED
          BY <3>1, <5>1, <5>2
      <4>3. QED
        BY <4>1, <4>2
    <3>2. QED
      BY <2>1, <3>1 DEF TopOK
  <2>8. /\ \A a \in A : Covers(P, walk \cup A, a.timestamp, E)
        /\ \A i \in 2 .. n : Covers(P, walk \cup A, cursorStack'[i], E)
    <3>1. \A e \in P \cup walk \cup A : e.timestamp \in Int
      BY <1>5, <1>7, <1>8, <1>10, <2>3
    <3>2. CASE n = 1
      <4>1. c = Top
        BY <1>4, <3>2
      <4>2. \A e \in P, a \in A, g \in A :
               a.timestamp < e.timestamp /\ e.timestamp < g.timestamp => e \in A
        BY <2>6, <4>1
      <4>3. \A s \in walk, e \in P : e.timestamp < s.timestamp =>
               \A a \in A : a.timestamp < e.timestamp => e \in A
        BY <1>6, <1>12, <3>2 DEF FirstHolds
      <4>4. \A a \in A : Covers(P, walk \cup A, a.timestamp, E)
        <5> HIDE DEF P, A, E
        <5>1. QED
          BY <4>2, <4>3, TopPage
      <4>5. ~ \E i \in 2 .. n : TRUE
        <5> HIDE DEF n
        <5>1. QED
          BY <3>2
      <4>6. QED
        BY <4>4, <4>5
    <3>3. CASE n # 1
      <4>1. n \in 2 .. n
        <5>1. n >= 1 /\ n \in Nat
          BY <1>4, <1>5
        <5> HIDE DEF n
        <5>2. QED
          BY <3>3, <5>1
      <4>2. c # Top /\ c \in E
        <5>1. c \in E
          BY <4>1 DEF StackOK
        <5>2. PICK e \in log' : c <= e.timestamp
          BY <4>1 DEF StackOK
        <5>3. QED
          BY <1>5, <1>6, <1>8, <5>1, <5>2
      <4>3. \A e \in P, a \in A : a.timestamp < e.timestamp /\ e.timestamp < c => e \in A
        BY <2>4, <4>2
      <4>4. Covers(P, walk, c, E)
        BY <4>1
      <4>5. c \in Int
        BY <1>6
      <4>6. /\ \A a \in A : Covers(P, walk \cup A, a.timestamp, E)
            /\ \A d \in Int : c <= d /\ Covers(P, walk, d, E) => Covers(P, walk \cup A, d, E)
        <5> HIDE DEF P, A, c, E
        <5>1. QED
          BY <2>3, <3>1, <4>2, <4>3, <4>4, <4>5, DeepPage
      <4>7. \A i \in 2 .. n : c <= cursorStack'[i] /\ cursorStack'[i] \in Int
        <5>1. \A i \in 1 .. n : c <= cursorStack'[i]
          BY <1>4, <1>5 DEF StackOK
        <5>2. QED
          BY <1>5, <5>1
      <4>8. QED
        BY <4>6, <4>7
    <3>4. QED
      BY <3>2, <3>3
  <2>9. WalkOK'
    <3>1. ASSUME A # {}
          PROVE  Covers(P, walk \cup A, Min({p.timestamp : p \in A}), E)
      <4>1. \E p \in A : p.timestamp = Min({q.timestamp : q \in A})
        BY <1>5, <2>3, <3>1, OldestOf
      <4>2. QED
        BY <2>8, <4>1
    <3>2. QED
      BY <2>1, <2>8, <3>1 DEF WalkOK
  <2>10. QED
    BY <2>5, <2>7, <2>9
<1>13. QED
  BY <1>11, <1>12

-----------------------------------------------------------------------------
(* The handlers. *)

\* What the invariant says of the page shown, in the terms of its handlers.
LEMMA ShownFacts ==
  ASSUME PagingAssumption, PagingInv
  PROVE  /\ Latest \in Nat /\ Top \in Nat /\ Top = Latest + 1
         /\ Len(cursorStack) \in Nat /\ Len(cursorStack) >= 1
         /\ \A i \in 1 .. Len(cursorStack) : cursorStack[i] \in 0 .. Top
         /\ before(cursorStack) = cursorStack[Len(cursorStack)]
         /\ query \in Queries
         /\ query = [type |-> eventType, before |-> cursorStack[Len(cursorStack)]]
         /\ First \in Queries /\ First = [type |-> eventType, before |-> Top]
         /\ items = placeholder /\ placeholder \subseteq log
         /\ \A e \in log : e.timestamp \in 1 .. Latest /\ e.timestamp < Top
         /\ InScope \subseteq log /\ seen \subseteq InScope
<1>1. eventType \in Filters /\ cursorStack \in Seq(0 .. Top) /\ Len(cursorStack) >= 1
  BY DEF PagingInv, StackOK
<1>2. query = QueryOf(eventType, cursorStack) /\ First = QueryOf(eventType, <<Top>>)
  BY DEF query, First
<1>3. /\ Latest \in Nat /\ Top \in Nat /\ Top = Latest + 1
      /\ Len(cursorStack) \in Nat /\ Len(cursorStack) >= 1
      /\ \A i \in 1 .. Len(cursorStack) : cursorStack[i] \in 0 .. Top
      /\ before(cursorStack) = cursorStack[Len(cursorStack)]
      /\ query \in Queries
      /\ query = [type |-> eventType, before |-> cursorStack[Len(cursorStack)]]
      /\ First \in Queries /\ First = [type |-> eventType, before |-> Top]
  BY <1>1, <1>2, QueryFacts, FirstFacts
<1>4. \A e \in log : e.timestamp \in 1 .. Latest /\ e.timestamp < Top
  BY <1>3 DEF PagingInv, LogOK
<1>5. InScope \subseteq log
  BY DEF InScope, Matching
<1>6. QED
  BY <1>3, <1>4, <1>5 DEF PagingInv, ShownOK

\* The initial page.
LEMMA InitPagingInv ==
  ASSUME PagingAssumption, PagingInit
  PROVE  PagingInv
<1>1. log = {} /\ eventType = AllEvents /\ cursorStack = <<Top>> /\ placeholder = {} /\ seen = {}
      /\ edges = {} /\ pageCache = [q \in Queries |-> NoAnswer]
  BY DEF PagingInit
<1>2. Top \in 0 .. Top /\ eventType \in Filters
  BY <1>1 DEF PagingAssumption, Top, Filters
<1>3. LogOK
  BY <1>1, FS_EmptySet DEF LogOK
<1>4. cursorStack \in Seq(0 .. Top) /\ Len(cursorStack) = 1 /\ cursorStack[1] = Top
  BY <1>1, <1>2
<1>5. StackOK
  BY <1>2, <1>4 DEF StackOK
<1>6. AnswersOK
  BY <1>1 DEF AnswersOK
<1>7. query \in Queries /\ First \in Queries
  BY <1>1, <1>2, FirstFacts DEF query, First
<1>8. pageCache[query] = NoAnswer /\ pageCache[First] = NoAnswer
  BY <1>1, <1>7
<1>9. ShownOK
  BY <1>1, <1>8 DEF ShownOK, items, Items
<1>10. TopOK
  BY <1>8 DEF TopOK
<1>11. WalkOK
  BY <1>1, <1>4 DEF WalkOK
<1>12. QED
  BY <1>3, <1>5, <1>6, <1>9, <1>10, <1>11 DEF PagingInv

\* A change of the filter begins a new walk.
LEMMA FilterKeeps ==
  ASSUME PagingAssumption, PagingInv, NEW type \in Filters, setEventType(type)
  PROVE  PagingInv'
<1>1. eventType' = type /\ cursorStack' = <<Top>> /\ log' = log /\ pageCache' = pageCache
      /\ Shows(eventType', cursorStack', pageCache', {})
  BY DEF setEventType
<1>2. LogOK'
  BY <1>1 DEF PagingInv, LogOK
<1>3. Top \in 0 .. Top /\ Top \in Nat
  BY ShownFacts
<1>4. cursorStack' \in Seq(0 .. Top) /\ Len(cursorStack') = 1 /\ cursorStack'[1] = Top
  BY <1>1, <1>3
<1>5. StackOK'
  BY <1>1, <1>3, <1>4 DEF StackOK
<1>6. AnswersOK'
  BY <1>1 DEF PagingInv, AnswersOK, AnswerOK, Matching, Late
<1>7. placeholder \subseteq log' /\ \A p \in placeholder : p.timestamp <= before(cursorStack')
  <2>1. before(cursorStack') = Top
    BY <1>4 DEF before
  <2>2. QED
    BY <1>1, <2>1, ShownFacts
<1>8. ~ \E i \in 2 .. Len(cursorStack') : TRUE
  BY <1>4
<1>9. \A c : Covers(Prompt', {}, c, edges')
  BY DEF Covers
<1>10. ShownOK' /\ TopOK' /\ WalkOK'
  BY <1>1, <1>2, <1>5, <1>6, <1>7, <1>8, <1>9, ShowsKeeps
<1>11. QED
  BY <1>2, <1>5, <1>6, <1>10 DEF PagingInv

\* A step down: the new cursor is the oldest entry shown, above which the walk
\* has left nothing out.
LEMMA OlderKeeps ==
  ASSUME PagingAssumption, PagingInv, Older
  PROVE  PagingInv'
<1> DEFINE n == Len(cursorStack)
           m == Min({p.timestamp : p \in placeholder})
<1>1. /\ placeholder # {} /\ cursorStack' = Append(cursorStack, m)
      /\ edges' = edges \cup {m} /\ eventType' = eventType /\ log' = log /\ pageCache' = pageCache
      /\ Shows(eventType', cursorStack', pageCache', seen)
  BY ShownFacts DEF Older, oldest
<1>2. PICK p \in placeholder : p.timestamp = m /\ m \in 1 .. Latest
                               /\ \A o \in placeholder : m <= o.timestamp
  <2>1. \A o \in placeholder : o.timestamp \in 1 .. Latest
    BY ShownFacts
  <2> HIDE DEF m
  <2>2. QED
    BY <1>1, <2>1, ShownFacts, OldestOf DEF m
<1>3. n \in Nat /\ n >= 1 /\ cursorStack \in Seq(0 .. Top) /\ m \in 0 .. Top /\ p \in log
  BY <1>2, ShownFacts DEF PagingInv, StackOK
<1>4. /\ Len(cursorStack') = n + 1 /\ cursorStack'[n + 1] = m
      /\ \A i \in 1 .. n : cursorStack'[i] = cursorStack[i]
      /\ cursorStack' \in Seq(0 .. Top)
  <2> HIDE DEF m
  <2>1. QED
    BY <1>1, <1>3
<1>5. m <= cursorStack[n]
  <2>1. PICK o \in placeholder : o.timestamp <= cursorStack[n]
    BY <1>1, ShownFacts DEF PagingInv, ShownOK
  <2> HIDE DEF m
  <2>2. m <= o.timestamp /\ o.timestamp \in Int /\ m \in Int
    BY <1>2, <1>3, ShownFacts
  <2>3. cursorStack[n] \in Int
    BY <1>3, ShownFacts
  <2>4. QED
    BY <2>1, <2>2, <2>3
<1>6. \A i \in 2 .. n + 1 : i \in 2 .. n \/ i = n + 1
  BY <1>3
<1> HIDE DEF m, n
<1>7. LogOK'
  BY <1>1 DEF PagingInv, LogOK
<1>8. StackOK'
  <2>1. \A i \in 2 .. n + 1 : cursorStack'[i] \in edges' /\ \E e \in log' : cursorStack'[i] <= e.timestamp
    <3>1. \A i \in 2 .. n : cursorStack[i] \in edges /\ \E e \in log : cursorStack[i] <= e.timestamp
      BY DEF PagingInv, StackOK, n
    <3>2. \A i \in 2 .. n : cursorStack'[i] = cursorStack[i]
      BY <1>3, <1>4
    <3>3. cursorStack'[n + 1] <= p.timestamp /\ p \in log' /\ cursorStack'[n + 1] \in edges'
      BY <1>1, <1>2, <1>3, <1>4
    <3>4. QED
      BY <1>1, <1>6, <3>1, <3>2, <3>3
  <2>2. ASSUME NEW i \in 1 .. n + 1, NEW j \in 1 .. n + 1, i <= j
        PROVE  cursorStack'[j] <= cursorStack'[i]
    <3>1. \A k, l \in 1 .. n : k <= l => cursorStack[l] <= cursorStack[k]
      BY DEF PagingInv, StackOK, n
    <3>2. \A k \in 1 .. n : cursorStack[k] \in 0 .. Top
      BY ShownFacts DEF n
    <3>3. CASE j = n + 1
      <4>1. CASE i = n + 1
        BY <1>2, <1>4, <3>3, <4>1
      <4>2. CASE i # n + 1
        <5>1. i \in 1 .. n /\ n \in 1 .. n /\ i <= n
          BY <1>3, <4>2
        <5>2. cursorStack[n] <= cursorStack[i]
          BY <3>1, <5>1
        <5>3. cursorStack'[i] = cursorStack[i] /\ cursorStack[i] \in Int /\ cursorStack[n] \in Int
          BY <1>4, <3>2, <5>1
        <5>4. QED
          BY <1>2, <1>4, <1>5, <3>3, <5>2, <5>3
      <4>3. QED
        BY <4>1, <4>2
    <3>4. CASE j # n + 1
      <4>1. i \in 1 .. n /\ j \in 1 .. n
        BY <1>3, <2>2, <3>4
      <4>2. QED
        BY <1>4, <2>2, <3>1, <4>1
    <3>5. QED
      BY <3>3, <3>4
  <2>3. cursorStack'[1] = Top /\ Len(cursorStack') >= 1 /\ eventType' \in Filters
    BY <1>1, <1>3, <1>4 DEF PagingInv, StackOK
  <2>4. QED
    BY <1>4, <2>1, <2>2, <2>3 DEF StackOK
<1>9. AnswersOK'
  BY <1>1 DEF PagingInv, AnswersOK, AnswerOK, Matching, Late
<1>10. /\ InScope' = InScope /\ First' = First /\ seen \subseteq InScope'
       /\ Prompt' = Prompt /\ Prompt \subseteq InScope
  BY <1>1, ShownFacts DEF InScope, Prompt, Late, Matching, First, QueryOf
<1>11. placeholder \subseteq log' /\ p.timestamp <= before(cursorStack')
  BY <1>1, <1>2, <1>3, <1>4, ShownFacts DEF before
<1>12. Covers(Prompt', seen, m, edges')
  BY <1>1, <1>10 DEF PagingInv, WalkOK, Covers, m
<1>13. \A i \in 2 .. n + 1 : Covers(Prompt', seen, cursorStack'[i], edges')
  <2>1. \A i \in 2 .. n : Covers(Prompt, seen, cursorStack[i], edges)
    BY DEF PagingInv, WalkOK, n
  <2>2. \A i \in 2 .. n : cursorStack'[i] = cursorStack[i]
    BY <1>3, <1>4
  <2>3. \A i \in 2 .. n : Covers(Prompt', seen, cursorStack'[i], edges')
    BY <1>1, <1>10, <2>1, <2>2 DEF Covers
  <2>4. QED
    BY <1>4, <1>6, <1>12, <2>3
<1>14. ASSUME pageCache'[First'] # NoAnswer
       PROVE  /\ \A s \in seen, e \in Prompt' : e.timestamp < s.timestamp => FirstHolds(e)'
              /\ \A i \in 2 .. n + 1 : \A e \in Prompt' : e.timestamp < cursorStack'[i] => FirstHolds(e)'
  <2>1. pageCache'[First'] = pageCache[First] /\ \A e : FirstHolds(e)' = FirstHolds(e)
    BY <1>1, <1>10 DEF FirstHolds
  <2>2. /\ \A s \in seen, e \in Prompt : e.timestamp < s.timestamp => FirstHolds(e)
        /\ \A i \in 2 .. n : \A e \in Prompt : e.timestamp < cursorStack[i] => FirstHolds(e)
    BY <1>14, <2>1 DEF PagingInv, TopOK, n
  <2>3. \A i \in 2 .. n : cursorStack'[i] = cursorStack[i]
    BY <1>3, <1>4
  <2>4. ASSUME NEW e \in Prompt, e.timestamp < m
        PROVE  FirstHolds(e)
    <3>1. e.timestamp \in Int /\ m \in Int
      BY <1>3, <1>10, ShownFacts
    <3>2. CASE n = 1
      <4>1. query = First
        BY <3>2, ShownFacts DEF PagingInv, StackOK, n
      <4>2. placeholder = pageCache[First]
        BY <1>14, <2>1, <4>1, ShownFacts DEF items, Items
      <4>3. \A a \in pageCache[First] : a.timestamp \in Int /\ m <= a.timestamp
        BY <1>2, <4>2, ShownFacts
      <4>4. \A a \in pageCache[First] : ~(a.timestamp < e.timestamp)
        BY <2>4, <3>1, <4>3
      <4>5. QED
        BY <4>4 DEF FirstHolds
    <3>3. CASE n # 1
      <4>1. n \in 2 .. n /\ n \in 1 .. n
        BY <1>3, <3>3
      <4>2. cursorStack[n] \in Int
        BY <4>1, ShownFacts DEF n
      <4>3. e.timestamp < cursorStack[n]
        BY <1>5, <2>4, <3>1, <4>2
      <4>4. QED
        BY <2>2, <4>1, <4>3
    <3>4. QED
      BY <3>2, <3>3
  <2>5. QED
    BY <1>4, <1>6, <1>10, <2>1, <2>2, <2>3, <2>4
<1>15. placeholder # {} => Covers(Prompt', seen, Min({o.timestamp : o \in placeholder}), edges')
  BY <1>12 DEF m
<1>16. ShownOK' /\ TopOK' /\ WalkOK'
  BY <1>1, <1>4, <1>7, <1>8, <1>9, <1>10, <1>11, <1>13, <1>14, <1>15, ShowsKeeps
<1>17. QED
  BY <1>7, <1>8, <1>9, <1>16 DEF PagingInv

\* A sequence without its last element.
LEMMA ButLast ==
  ASSUME NEW S, NEW s \in Seq(S), Len(s) > 1
  PROVE  LET t == SubSeq(s, 1, Len(s) - 1)
         IN  /\ Len(t) = Len(s) - 1 /\ t \in Seq(S)
             /\ \A i \in 1 .. Len(s) - 1 : t[i] = s[i]
OBVIOUS

\* A step back up.
LEMMA NewerKeeps ==
  ASSUME PagingAssumption, PagingInv, Newer
  PROVE  PagingInv'
<1> DEFINE n == Len(cursorStack)
<1>1. /\ Len(cursorStack) > 1 /\ cursorStack' = SubSeq(cursorStack, 1, Len(cursorStack) - 1)
      /\ edges' = edges /\ eventType' = eventType /\ log' = log /\ pageCache' = pageCache
      /\ Shows(eventType', cursorStack', pageCache', seen)
  BY DEF Newer
<1>2. n \in Nat /\ cursorStack \in Seq(0 .. Top)
  BY ShownFacts DEF PagingInv, StackOK
<1>3. /\ Len(cursorStack') = n - 1 /\ cursorStack' \in Seq(0 .. Top)
      /\ \A i \in 1 .. n - 1 : cursorStack'[i] = cursorStack[i]
  BY <1>1, <1>2, ButLast
<1>4. \A i : (i \in 1 .. n - 1 => i \in 1 .. n) /\ (i \in 2 .. n - 1 => i \in 2 .. n /\ i \in 1 .. n - 1)
  BY <1>2
<1>5. n - 1 \in 1 .. n - 1 /\ n - 1 \in 1 .. n /\ n \in 1 .. n /\ n - 1 <= n /\ 1 \in 1 .. n - 1 /\ n - 1 >= 1
  BY <1>1, <1>2
<1> HIDE DEF n
<1>6. LogOK'
  BY <1>1 DEF PagingInv, LogOK
<1>7. StackOK'
  BY <1>1, <1>3, <1>4, <1>5 DEF PagingInv, StackOK, n
<1>8. AnswersOK'
  BY <1>1 DEF PagingInv, AnswersOK, AnswerOK, Matching, Late
<1>9. /\ InScope' = InScope /\ First' = First /\ seen \subseteq InScope' /\ placeholder \subseteq log'
      /\ Prompt' = Prompt
  BY <1>1, ShownFacts DEF InScope, Prompt, Late, Matching, First, QueryOf
<1>10. placeholder # {} => \E p \in placeholder : p.timestamp <= before(cursorStack')
  <2>1. cursorStack[n] <= cursorStack[n - 1]
    BY <1>5 DEF PagingInv, StackOK, n
  <2>2. before(cursorStack') = cursorStack[n - 1] /\ cursorStack[n - 1] \in Int /\ cursorStack[n] \in Int
    BY <1>3, <1>5, ShownFacts DEF before, n
  <2>3. ASSUME placeholder # {}
        PROVE  \E p \in placeholder : p.timestamp <= before(cursorStack')
    <3>1. PICK p \in placeholder : p.timestamp <= cursorStack[n]
      BY <2>3, ShownFacts DEF PagingInv, ShownOK, n
    <3>2. p.timestamp \in Int
      BY ShownFacts
    <3>3. QED
      BY <2>1, <2>2, <3>1, <3>2
  <2>4. QED
    BY <2>3
<1>11. ASSUME pageCache'[First'] # NoAnswer
       PROVE  /\ \A s \in seen, e \in Prompt' : e.timestamp < s.timestamp => FirstHolds(e)'
              /\ \A i \in 2 .. n - 1 : \A e \in Prompt' :
                    e.timestamp < cursorStack'[i] => FirstHolds(e)'
  <2>1. pageCache'[First'] = pageCache[First] /\ \A e : FirstHolds(e)' = FirstHolds(e)
    BY <1>1, <1>9 DEF FirstHolds
  <2>2. QED
    BY <1>3, <1>4, <1>9, <1>11, <2>1 DEF PagingInv, TopOK, n
<1>12. \A i \in 2 .. n - 1 : Covers(Prompt', seen, cursorStack'[i], edges')
  BY <1>1, <1>3, <1>4, <1>9 DEF PagingInv, WalkOK, n
<1>13. placeholder # {} => Covers(Prompt', seen, Min({p.timestamp : p \in placeholder}), edges')
  BY <1>1, <1>9 DEF PagingInv, WalkOK
<1>14. ShownOK' /\ TopOK' /\ WalkOK'
  BY <1>1, <1>3, <1>6, <1>7, <1>8, <1>9, <1>10, <1>11, <1>12, <1>13, ShowsKeeps
<1>15. QED
  BY <1>6, <1>7, <1>8, <1>14 DEF PagingInv

\* A page is empty only when nothing matches, and whatever it leaves out is no
\* newer than what it holds.
LEMMA PageFacts ==
  ASSUME PagingAssumption, LogOK, NEW q, NEW batch \in list_all(q)
  PROVE  /\ batch \subseteq Matching(q)
         /\ batch = {} => Matching(q) = {}
         /\ \A e \in batch, other \in Matching(q) \ batch : other.timestamp <= e.timestamp
<1>1. /\ batch \subseteq Matching(q)
      /\ Cardinality(batch) = Min({PAGE_SIZE, Cardinality(Matching(q))})
      /\ \A e \in batch, other \in Matching(q) \ batch : other.timestamp <= e.timestamp
  BY DEF list_all
<1>2. IsFiniteSet(Matching(q))
  <2>1. Matching(q) \subseteq log
    BY DEF Matching
  <2>2. QED
    BY <2>1, FS_Subset DEF LogOK
<1>3. ASSUME batch = {} PROVE Matching(q) = {}
  <2>1. Cardinality(batch) = 0
    BY <1>3, FS_EmptySet
  <2>2. PAGE_SIZE \in Nat \ {0} /\ Cardinality(Matching(q)) \in Nat
    BY <1>2, FS_CardinalityType DEF PagingAssumption
  <2> DEFINE d == Cardinality(Matching(q))
  <2>3. \E x \in {PAGE_SIZE, d} : \A y \in {PAGE_SIZE, d} : x <= y
    <3> HIDE DEF d
    <3>1. d \in Nat
      BY <2>2 DEF d
    <3>2. CASE d <= PAGE_SIZE
      BY <2>2, <3>1, <3>2
    <3>3. CASE PAGE_SIZE <= d
      BY <2>2, <3>1, <3>3
    <3>4. QED
      BY <2>2, <3>1, <3>2, <3>3
  <2>4. Min({PAGE_SIZE, d}) \in {PAGE_SIZE, d}
    BY <2>3 DEF Min
  <2>5. d = 0
    BY <1>1, <2>1, <2>2, <2>4
  <2>6. QED
    BY <1>2, <2>5, FS_EmptySet
<1>4. QED
  BY <1>1, <1>3

\* An answer comes, for the page shown or for one above it.
LEMMA AnswerKeeps ==
  ASSUME PagingAssumption, PagingInv, NEW q \in Queries, AuditArrives(q)
  PROVE  PagingInv'
<1> DEFINE n == Len(cursorStack)
<1>1. PICK k \in 1 .. Len(cursorStack) : q = QueryOf(eventType, SubSeq(cursorStack, 1, k))
  BY DEF AuditArrives
<1>2. PICK batch \in list_all(q) : pageCache' = [pageCache EXCEPT ![q] = batch]
  BY DEF AuditArrives
<1>3. /\ cursorStack' = cursorStack /\ eventType' = eventType /\ log' = log /\ edges' = edges
      /\ Shows(eventType', cursorStack', pageCache', seen)
  BY DEF AuditArrives
<1>4. q.type = eventType /\ q.before = cursorStack[k]
  <2>1. cursorStack \in Seq(0 .. Top) /\ k \in 1 .. Len(cursorStack)
    BY DEF PagingInv, StackOK
  <2>2. LET s == SubSeq(cursorStack, 1, k) IN s[Len(s)] = cursorStack[k]
    BY <2>1
  <2>3. QED
    BY <1>1, <2>2 DEF QueryOf, before
<1>5. /\ batch \subseteq Matching(q)
      /\ batch = {} => Matching(q) = {}
      /\ \A e \in batch, other \in Matching(q) \ batch : other.timestamp <= e.timestamp
  BY <1>2, PageFacts DEF PagingInv
<1>6. Matching(q) \subseteq log /\ \A r : Matching(r)' = Matching(r) /\ Late(r)' = Late(r)
  BY <1>3 DEF Matching, Late
<1>7. LogOK' /\ StackOK'
  BY <1>3 DEF PagingInv, LogOK, StackOK
<1>8. \A e \in log : e.timestamp \in Int
  BY ShownFacts
<1>9. AnswersOK'
  <2>1. DOMAIN pageCache' = Queries /\ pageCache'[q] = batch
        /\ \A r \in Queries \ {q} : pageCache'[r] = pageCache[r]
    BY <1>2 DEF PagingInv, AnswersOK
  <2>2. AnswerOK(q)'
    <3>1. q.before # Top => \E e \in log : q.before <= e.timestamp
      <4>1. cursorStack[1] = Top /\ \A i \in 2 .. n : \E e \in log : cursorStack[i] <= e.timestamp
        BY DEF PagingInv, StackOK
      <4>2. k = 1 \/ k \in 2 .. n
        BY ShownFacts
      <4>3. QED
        BY <1>4, <4>1, <4>2
    <3>2. \A e \in Matching(q), a \in batch : a.timestamp < e.timestamp => e \in batch
      BY <1>5, <1>6, <1>8
    <3>3. QED
      BY <1>3, <1>5, <1>6, <2>1, <3>1, <3>2 DEF AnswerOK
  <2>3. ASSUME NEW r \in Queries \ {q}, pageCache'[r] # NoAnswer
        PROVE  AnswerOK(r)'
    <3>1. AnswerOK(r)
      BY <2>1, <2>3 DEF PagingInv, AnswersOK
    <3>2. QED
      BY <1>3, <1>6, <2>1, <3>1 DEF AnswerOK
  <2>4. QED
    BY <2>1, <2>2, <2>3 DEF AnswersOK
<1>10. /\ InScope' = InScope /\ First' = First /\ seen \subseteq InScope' /\ placeholder \subseteq log'
       /\ First \in Queries /\ First = [type |-> eventType, before |-> Top] /\ seen \subseteq InScope
       /\ Prompt' = Prompt /\ Prompt \subseteq InScope
  BY <1>3, ShownFacts DEF InScope, Prompt, Late, Matching, First, QueryOf
<1>11. placeholder # {} => \E p \in placeholder : p.timestamp <= before(cursorStack')
  BY <1>3 DEF PagingInv, ShownOK
<1>12. ASSUME pageCache'[First'] # NoAnswer
       PROVE  /\ \A s \in seen, e \in Prompt' : e.timestamp < s.timestamp => FirstHolds(e)'
              /\ \A i \in 2 .. n : \A e \in Prompt' : e.timestamp < cursorStack'[i] => FirstHolds(e)'
  <2>1. CASE q = First
    <3>1. pageCache'[First'] = batch /\ Matching(q) = InScope
      BY <1>2, <1>10, <2>1 DEF PagingInv, AnswersOK, InScope
    <3>2. ASSUME NEW e \in Prompt, NEW a \in batch, a.timestamp < e.timestamp
          PROVE  e \in batch
      <4>1. e \in Matching(q) /\ e.timestamp \in Int /\ a.timestamp \in Int
        BY <1>5, <1>6, <1>8, <1>10, <3>1
      <4>2. QED
        BY <1>5, <3>2, <4>1
    <3>3. \A e \in Prompt' : FirstHolds(e)'
      BY <1>10, <3>1, <3>2 DEF FirstHolds
    <3>4. QED
      BY <3>3
  <2>2. CASE q # First
    <3>1. pageCache'[First'] = pageCache[First] /\ \A e : FirstHolds(e)' = FirstHolds(e)
      BY <1>2, <1>10, <2>2 DEF PagingInv, AnswersOK, FirstHolds
    <3>2. QED
      BY <1>3, <1>10, <1>12, <3>1 DEF PagingInv, TopOK
  <2>3. QED
    BY <2>1, <2>2
<1>13. \A i \in 2 .. n : Covers(Prompt', seen, cursorStack'[i], edges')
  BY <1>3, <1>10 DEF PagingInv, WalkOK
<1>14. placeholder # {} => Covers(Prompt', seen, Min({p.timestamp : p \in placeholder}), edges')
  BY <1>3, <1>10 DEF PagingInv, WalkOK
<1>15. ShownOK' /\ TopOK' /\ WalkOK'
  BY <1>3, <1>7, <1>9, <1>10, <1>11, <1>12, <1>13, <1>14, ShowsKeeps
<1>16. QED
  BY <1>7, <1>9, <1>15 DEF PagingInv

\* An entry is written: if it does not come late it is no older than all there is.
LEMMA LogEntryKeeps ==
  ASSUME PagingAssumption, PagingInv, NEW type \in EVENT_TYPES, LogEntry(type)
  PROVE  PagingInv'
<1>1. PICK t \in 1 .. Latest :
         log' = log \cup {[id |-> Cardinality(log) + 1, timestamp |-> t, type |-> type]}
  BY DEF LogEntry
<1>2. UNCHANGED <<eventType, cursorStack, pageCache, placeholder, seen, edges>>
  BY DEF LogEntry
<1>3. Latest \in Nat /\ \A e \in log : e.timestamp \in 1 .. Latest /\ e.timestamp < Top
  BY ShownFacts
<1>4. PICK new : log' = log \cup {new} /\ new.timestamp = t /\ new.id = Cardinality(log) + 1
                 /\ t \in 1 .. Latest
  <2> DEFINE entry == [id |-> Cardinality(log) + 1, timestamp |-> t, type |-> type]
  <2>1. /\ log' = log \cup {entry} /\ entry.timestamp = t /\ entry.id = Cardinality(log) + 1
        /\ t \in 1 .. Latest
    BY <1>1
  <2> HIDE DEF entry
  <2>2. QED
    BY <2>1
<1>5. IsFiniteSet(log) /\ Cardinality(log) \in Nat /\ \A e \in log : e.id \in 1 .. Cardinality(log)
  BY FS_CardinalityType DEF PagingInv, LogOK
<1>6. new \notin log /\ \A e \in log : e.id < new.id
  BY <1>4, <1>5
<1>7. LogOK'
  <2>1. IsFiniteSet(log') /\ Cardinality(log') = Cardinality(log) + 1
    BY <1>4, <1>5, <1>6, FS_AddElement
  <2>2. \A e \in log' : e.id \in 1 .. Cardinality(log) + 1 /\ e.timestamp \in 1 .. Latest
    BY <1>3, <1>4, <1>5
  <2>3. QED
    BY <2>1, <2>2 DEF LogOK
<1>8. StackOK'
  BY <1>2, <1>4 DEF PagingInv, StackOK
<1>9. /\ InScope \subseteq InScope' /\ InScope' \subseteq InScope \cup {new}
      /\ \A q : Matching(q) \subseteq Matching(q)' /\ Matching(q)' \subseteq Matching(q) \cup {new}
  BY <1>2, <1>4 DEF InScope, Matching
\* What came late stays late; an entry that comes in order is older than none.
<1>10. /\ \A e : Late(e) => Late(e)'
       /\ ~Late(new)' => \A e \in log : ~(new.timestamp < e.timestamp)
       /\ Prompt' \subseteq Prompt \cup {new}
       /\ new \in Prompt' => ~Late(new)'
  <2>1. \A e : Late(e) => Late(e)'
    BY <1>4 DEF Late
  <2>2. ASSUME NEW e \in log, new.timestamp < e.timestamp
        PROVE  Late(new)'
    <3>1. e \in log' /\ e.id < new.id /\ e.timestamp > new.timestamp
      BY <1>3, <1>4, <1>6, <2>2
    <3>2. QED
      BY <3>1 DEF Late
  <2>3. \A e \in Prompt' : ~Late(e)' /\ e \in InScope'
    BY DEF Prompt
  <2>4. QED
    BY <1>9, <2>1, <2>2, <2>3 DEF Prompt
<1>11. AnswersOK'
  <2>1. ASSUME NEW q \in Queries, pageCache'[q] # NoAnswer
        PROVE  AnswerOK(q)'
    <3>1. AnswerOK(q) /\ pageCache'[q] = pageCache[q]
      BY <1>2, <2>1 DEF PagingInv, AnswersOK
    <3>2. /\ pageCache[q] \subseteq Matching(q)'
          /\ q.before # Top => \E e \in log' : q.before <= e.timestamp
      BY <1>4, <1>9, <3>1 DEF AnswerOK
    <3>3. ASSUME NEW e \in Matching(q)', NEW a \in pageCache[q], ~Late(e)', a.timestamp < e.timestamp,
                 q.before = Top => \E g \in pageCache[q] : e.timestamp < g.timestamp
          PROVE  e \in pageCache[q]
      <4>1. CASE e \in Matching(q)
        <5>1. ~Late(e)
          BY <1>10, <3>3
        <5>2. QED
          BY <3>1, <3>3, <4>1, <5>1 DEF AnswerOK
      <4>2. CASE e = new
        <5>1. \A g \in log : ~(new.timestamp < g.timestamp)
          BY <1>10, <3>3, <4>2
        <5>2. CASE q.before = Top
          <6>1. PICK g \in pageCache[q] : new.timestamp < g.timestamp
            BY <3>3, <4>2, <5>2
          <6>2. g \in log
            BY <3>1 DEF AnswerOK, Matching
          <6>3. QED
            BY <5>1, <6>1, <6>2
        <5>3. CASE q.before # Top
          <6>1. PICK g \in log : q.before <= g.timestamp
            BY <3>1, <5>3 DEF AnswerOK
          <6>2. new.timestamp < q.before
            BY <3>3, <4>2 DEF Matching
          <6>3. q.before \in Int /\ g.timestamp \in Int /\ new.timestamp \in Int
            BY <1>3, <1>4, ShownFacts DEF Queries
          <6>4. QED
            BY <5>1, <6>1, <6>2, <6>3
        <5>4. QED
          BY <5>2, <5>3
      <4>3. QED
        BY <1>9, <4>1, <4>2
    <3>4. QED
      BY <3>1, <3>2, <3>3 DEF AnswerOK
  <2>2. QED
    BY <1>2, <2>1 DEF PagingInv, AnswersOK
<1>12. First' = First /\ query' = query /\ items' = items /\ \A e : FirstHolds(e)' = FirstHolds(e)
  BY <1>2 DEF First, QueryOf, query, items, Items, FirstHolds
<1>13. ShownOK'
  BY <1>2, <1>4, <1>9, <1>12 DEF PagingInv, ShownOK
<1>14. ASSUME new \in Prompt'
       PROVE  /\ \A i \in 2 .. Len(cursorStack) : ~(new.timestamp < cursorStack[i])
              /\ \A s \in seen : ~(new.timestamp < s.timestamp)
  <2>1. \A e \in log : ~(new.timestamp < e.timestamp)
    BY <1>10, <1>14
  <2>2. ASSUME NEW i \in 2 .. Len(cursorStack) PROVE ~(new.timestamp < cursorStack[i])
    <3>1. PICK e \in log : cursorStack[i] <= e.timestamp
      BY DEF PagingInv, StackOK
    <3>2. i \in 1 .. Len(cursorStack)
      BY ShownFacts
    <3>3. cursorStack[i] \in Int
      BY <3>2, ShownFacts
    <3>4. QED
      BY <1>3, <1>4, <2>1, <3>1, <3>3
  <2>3. \A s \in seen : s \in log
    BY ShownFacts
  <2>4. QED
    BY <2>1, <2>2, <2>3
<1>15. TopOK'
  BY <1>2, <1>10, <1>12, <1>14 DEF PagingInv, TopOK
<1>16. \A c : Covers(Prompt, seen, c, edges) => Covers(Prompt', seen, c, edges)
  BY <1>10, <1>14 DEF Covers
<1>17. WalkOK'
  BY <1>2, <1>16 DEF PagingInv, WalkOK
<1>18. QED
  BY <1>7, <1>8, <1>11, <1>13, <1>15, <1>17 DEF PagingInv

-----------------------------------------------------------------------------
\* Every step keeps the invariant.
LEMMA PagingStep ==
  ASSUME PagingAssumption, PagingInv, [PagingNext]_pagingVars
  PROVE  PagingInv'
<1>1. CASE \E type \in Filters : setEventType(type)
  BY <1>1, FilterKeeps
<1>2. CASE Older
  BY <1>2, OlderKeeps
<1>3. CASE Newer
  BY <1>3, NewerKeeps
<1>4. CASE \E q \in Queries : AuditArrives(q)
  BY <1>4, AnswerKeeps
<1>5. CASE \E type \in EVENT_TYPES : LogEntry(type)
  BY <1>5, LogEntryKeeps
<1>6. CASE UNCHANGED pagingVars
  <2>1. UNCHANGED <<log, eventType, cursorStack, pageCache, placeholder, seen, edges>>
    BY <1>6 DEF pagingVars
  <2>2. InScope' = InScope /\ First' = First /\ query' = query /\ items' = items
        /\ \A q : Matching(q)' = Matching(q) /\ Late(q)' = Late(q)
    BY <2>1 DEF InScope, Matching, Late, First, QueryOf, query, items, Items
  <2>3. LogOK' /\ StackOK'
    BY <2>1 DEF PagingInv, LogOK, StackOK
  <2>4. AnswersOK'
    BY <2>1, <2>2 DEF PagingInv, AnswersOK, AnswerOK
  <2>5. Prompt' = Prompt /\ \A e : FirstHolds(e)' = FirstHolds(e)
    BY <2>1, <2>2 DEF Prompt, FirstHolds
  <2>6. ShownOK' /\ TopOK' /\ WalkOK'
    BY <2>1, <2>2, <2>5 DEF PagingInv, ShownOK, TopOK, WalkOK
  <2>7. QED
    BY <2>3, <2>4, <2>6 DEF PagingInv
<1>7. QED
  BY <1>1, <1>2, <1>3, <1>4, <1>5, <1>6 DEF PagingNext

\* The invariant says what the walk promises.
LEMMA WalkIsWhole ==
  ASSUME PagingAssumption, PagingInv
  PROVE  WalkMissesNothing /\ StackDescends
<1>1. ASSUME pageCache[query] # NoAnswer, items # {}, NEW e \in InScope,
             oldest < e.timestamp, e.timestamp < Max({s.timestamp : s \in seen}),
             ~Late(e), e.timestamp \notin edges
      PROVE  e \in seen
  <2> DEFINE T == {s.timestamp : s \in seen}
  <2>1. items = placeholder /\ items = pageCache[query] /\ items \subseteq seen
    BY <1>1, ShownFacts DEF items, Items, PagingInv, ShownOK
  <2>2. T # {} /\ T \subseteq 0 .. Latest /\ Latest \in Nat
    BY <1>1, <2>1, ShownFacts
  <2>3. \E m \in T : \A k \in T : k <= m
    <3> HIDE DEF T
    <3>1. QED
      BY <2>2, LeastAndGreatest
  <2>4. Max(T) \in T
    BY <2>3 DEF Max
  <2>5. PICK s \in seen : s.timestamp = Max(T)
    BY <2>4
  <2>6. Covers(Prompt, seen, oldest, edges)
    BY <1>1, <2>1 DEF PagingInv, WalkOK, oldest
  <2>7. QED
    BY <1>1, <2>5, <2>6 DEF Covers, Prompt
<1>2. StackDescends
  <2>1. \A i \in 1 .. Len(cursorStack) - 1 :
           i \in 1 .. Len(cursorStack) /\ i + 1 \in 1 .. Len(cursorStack) /\ i <= i + 1
    BY ShownFacts
  <2>2. QED
    BY <2>1 DEF PagingInv, StackOK, StackDescends
<1>3. QED
  BY <1>1, <1>2 DEF WalkMissesNothing, InScope

\* ... and what the page keeps is of the log.
LEMMA KeptIsOfTheLog ==
  ASSUME PagingInv
  PROVE  PagingTypeOK
<1>1. ASSUME NEW q \in Queries, pageCache[q] # NoAnswer
      PROVE  pageCache[q] \subseteq log
  BY <1>1 DEF PagingInv, AnswersOK, AnswerOK, Matching
<1>2. eventType \in Filters /\ Len(cursorStack) >= 1 /\ cursorStack[1] = Top
  BY DEF PagingInv, StackOK
<1>3. QED
  BY <1>1, <1>2 DEF PagingTypeOK

\* AuditPage: the walk down the log leaves out what came late or shares its timestamp
\* with the last entry of a page it went down from, and nothing else, for every page
\* size, every writer of the log and every order in which entries, polls and late
\* answers come; the cursors descend, and every cached page is of the log.
THEOREM WalkIsComplete ==
  ASSUME PagingAssumption
  PROVE  PagingSpec => []WalkIsSound
<1>1. PagingInit => PagingInv
  BY InitPagingInv
<1>2. PagingInv /\ [PagingNext]_pagingVars => PagingInv'
  BY PagingStep
<1>3. PagingInv => WalkIsSound
  BY WalkIsWhole, KeptIsOfTheLog DEF WalkIsSound
<1>4. QED
  BY <1>1, <1>2, <1>3, PTL DEF PagingSpec

\* AuditPage: Older never leads to a newer page, nor Newer to an older one.
THEOREM CursorsDescend ==
  ASSUME PagingAssumption
  PROVE  PagingSpec => []StackDescends
<1>1. PagingInit => PagingInv
  BY InitPagingInv
<1>2. PagingInv /\ [PagingNext]_pagingVars => PagingInv'
  BY PagingStep
<1>3. PagingInv => StackDescends
  BY WalkIsWhole
<1>4. QED
  BY <1>1, <1>2, <1>3, PTL DEF PagingSpec

-----------------------------------------------------------------------------
(* ZoneQueries. *)

Entry == [data : Int, status : {"pending", "success", "error"}, error : Codes \cup {NoError}]
Request == [key : Keys, slot : {1, 2}, attempt : {0, 1},
            phase : {"sent", "waiting", "ok", "refused"}, seen : Int]

\* What the cache holds of a key is of the database.
EntriesOK ==
    \A k \in Keys :
        /\ None <= cache[k].data /\ cache[k].data <= db[k]
        /\ cache[k].status = "error" <=> cache[k].error # NoError
        /\ cache[k].status = "success" => cache[k].data # None

\* One request at a time for a key: an answer on its way is no older than what
\* the cache holds.
RequestsOK ==
    /\ \A r, q \in requests : r.key = q.key => r = q
    /\ \A r \in requests : r.phase \in {"ok", "refused"} =>
          0 <= r.seen /\ cache[r.key].data <= r.seen /\ r.seen <= db[r.key]

\* A page that is pending has a request under way.
PageOK == page \in Keys /\ cache[page].status = "pending" => Fetching(page)

QueriesInv ==
    /\ db \in [Keys -> 0 .. MaxTicks] /\ up \in BOOLEAN /\ enabled \in BOOLEAN
    /\ page \in Keys \cup {Nowhere} /\ lastDefined \in Keys \cup {Nowhere}
    /\ cache \in [Keys -> Entry] /\ requests \subseteq Request
    /\ EntriesOK /\ RequestsOK /\ PageOK

\* The invariant is what the properties need.
LEMMA QueriesInvGives ==
  ASSUME QueriesInv
  PROVE  QueriesTypeOK /\ LoadingIsUnderWay
<1>1. QueriesTypeOK
  BY DEF QueriesInv, QueriesTypeOK, EntriesOK, Entry, None
<1>2. LoadingIsUnderWay
  BY DEF QueriesInv, LoadingIsUnderWay, PageOK, View, QueryResult, isLoading
<1>3. QED
  BY <1>1, <1>2

\* Before any page is shown the cache is empty.
LEMMA InitQueriesInv ==
  ASSUME QueriesAssumption
  PROVE  QueriesInit => QueriesInv
BY DEF QueriesAssumption, QueriesInit, QueriesInv, EntriesOK, RequestsOK, PageOK, Entry, None,
       NoError, Codes

\* A fetch: the key that is fetched has a request from now on, one only, and what
\* the cache holds of it stays.
LEMMA FetchStep ==
  ASSUME QueriesInv, NEW k \in Keys, NEW kept \in {requests, requests \ InFlight(k)},
         requests' = Fetch(k, kept),
         \/ cache' = [cache EXCEPT ![k] = Refetched(k)]
         \/ Fetching(k) /\ cache' = cache,
         UNCHANGED <<db, up, enabled>>,
         page' = k, lastDefined' \in Keys \cup {Nowhere}
  PROVE  QueriesInv' /\ \A j \in Keys : cache'[j].data = cache[j].data
<1> USE DEF QueriesInv
<1>1. requests' \subseteq Request
  BY DEF Fetch, Sent, Request, None
<1>2. cache' \in [Keys -> Entry]
  <2>1. cache[k] \in Entry
    OBVIOUS
  <2>2. Refetched(k) \in Entry
    BY <2>1 DEF Refetched, Entry, NoError, Codes
  <2>3. QED
    BY <2>2
<1>3. \A j \in Keys : cache'[j].data = cache[j].data
  BY DEF Refetched, Entry
<1>4. EntriesOK'
  <2> SUFFICES ASSUME NEW j \in Keys
               PROVE  /\ None <= cache'[j].data /\ cache'[j].data <= db'[j]
                      /\ cache'[j].status = "error" <=> cache'[j].error # NoError
                      /\ cache'[j].status = "success" => cache'[j].data # None
    BY DEF EntriesOK
  <2>1. CASE cache'[j] = cache[j]
    BY <2>1 DEF EntriesOK
  <2>2. CASE j = k /\ cache'[k] = [cache[k] EXCEPT !.status = "pending", !.error = NoError] /\ cache[k].data = None
    BY <2>2, <1>3 DEF EntriesOK, Entry, NoError
  <2>3. QED
    BY <2>1, <2>2 DEF Refetched
<1>5. RequestsOK'
  <2>0. kept \subseteq requests
    OBVIOUS
  <2>1. \A r, q \in requests' : r.key = q.key => r = q
    BY <2>0 DEF RequestsOK, Fetch, Sent
  <2>2. \A r \in requests' : r \in requests \/ r.phase = "sent"
    BY <2>0 DEF Fetch, Sent
  <2>3. \A r \in requests : r.key \in Keys
    BY DEF Request
  <2>4. QED
    BY <2>1, <2>2, <2>3, <1>3 DEF RequestsOK
<1>6. Fetching(k)'
  <2>1. \E r \in requests' : r.key = k
    <3>1. CASE \E r \in kept : r.key = k
      BY <3>1 DEF Fetch
    <3>2. CASE ~\E r \in kept : r.key = k
      <4>1. requests' = kept \cup {Sent(k, 1)}
        BY <3>2 DEF Fetch
      <4>2. Sent(k, 1) \in requests' /\ Sent(k, 1).key = k
        BY <4>1 DEF Sent
      <4>3. QED
        BY <4>2
    <3>3. QED
      BY <3>1, <3>2
  <2>2. QED
    BY <2>1 DEF Fetching, InFlight
<1>7. QED
  BY <1>1, <1>2, <1>3, <1>4, <1>5, <1>6 DEF PageOK

\* Request r is replaced by one of the same key, or ends; the entries of the other
\* keys stay.
LEMMA RequestStep ==
  ASSUME QueriesInv, NEW r \in requests,
         UNCHANGED <<db, up, enabled, page>>, lastDefined' \in Keys \cup {Nowhere},
         \/ /\ UNCHANGED cache
            /\ \E q \in Request :
                  /\ q.key = r.key /\ requests' = Without(r) \cup {q}
                  /\ q.phase \in {"ok", "refused"} => q.seen = db[r.key]
         \/ /\ requests' = Without(r)
            /\ \E e \in Entry :
                  /\ cache' = [cache EXCEPT ![r.key] = e]
                  /\ e.status # "pending"
                  /\ e.status = "error" <=> e.error # NoError
                  /\ \/ e.data = cache[r.key].data /\ e.status = "error"
                     \/ e.data = r.seen /\ r.phase = "ok"
  PROVE  QueriesInv' /\ \A j \in Keys : cache'[j].data >= cache[j].data
<1> USE DEF QueriesInv
<1>1. r.key \in Keys /\ r \in Request
  BY DEF Request
<1>2. \A q \in requests : q # r => q.key # r.key
  BY DEF RequestsOK
<1>3. \A j \in Keys : cache[j] \in Entry /\ cache[j].data \in Int /\ db[j] \in Int
  BY DEF Entry
<1>4. ASSUME UNCHANGED cache,
             NEW q \in Request, q.key = r.key, requests' = Without(r) \cup {q},
             q.phase \in {"ok", "refused"} => q.seen = db[r.key]
      PROVE  QueriesInv' /\ \A j \in Keys : cache'[j].data >= cache[j].data
  <2>1. requests' \subseteq Request
    BY <1>4 DEF Without
  <2>2. \A p \in requests' : p = q \/ (p \in requests /\ p.key # r.key)
    BY <1>2, <1>4 DEF Without
  <2>3. RequestsOK'
    <3>1. \A p, t \in requests' : p.key = t.key => p = t
      BY <2>2, <1>4 DEF RequestsOK
    <3>2. ASSUME NEW p \in requests', p.phase \in {"ok", "refused"}
          PROVE  0 <= p.seen /\ cache'[p.key].data <= p.seen /\ p.seen <= db'[p.key]
      <4>1. CASE p = q
        BY <4>1, <3>2, <1>1, <1>3, <1>4 DEF EntriesOK
      <4>2. CASE p \in requests
        BY <4>2, <3>2, <1>4 DEF RequestsOK
      <4>3. QED
        BY <4>1, <4>2, <2>2
    <3>3. QED
      BY <3>1, <3>2 DEF RequestsOK
  <2>4. PageOK'
    <3>1. \A k \in Keys : Fetching(k) => \E p \in requests' : p.key = k
      <4> SUFFICES ASSUME NEW k \in Keys, Fetching(k) PROVE \E p \in requests' : p.key = k
        OBVIOUS
      <4>1. PICK t \in requests : t.key = k
        BY DEF Fetching, InFlight
      <4>2. CASE t = r
        BY <4>1, <4>2, <1>4
      <4>3. CASE t # r
        BY <4>1, <4>3, <1>4 DEF Without
      <4>4. QED
        BY <4>2, <4>3
    <3>2. QED
      BY <3>1, <1>4 DEF PageOK, Fetching, InFlight
  <2>5. EntriesOK'
    BY <1>4 DEF EntriesOK
  <2>6. \A j \in Keys : cache'[j].data >= cache[j].data
    BY <1>3, <1>4
  <2>7. QED
    BY <2>1, <2>3, <2>4, <2>5, <2>6, <1>4
<1>5. ASSUME requests' = Without(r), NEW e \in Entry, cache' = [cache EXCEPT ![r.key] = e],
             e.status # "pending", e.status = "error" <=> e.error # NoError,
             \/ e.data = cache[r.key].data /\ e.status = "error"
             \/ e.data = r.seen /\ r.phase = "ok"
      PROVE  QueriesInv' /\ \A j \in Keys : cache'[j].data >= cache[j].data
  <2>1. requests' \subseteq Request
    BY <1>5 DEF Without
  <2>2. \A p \in requests' : p \in requests /\ p.key # r.key /\ p.key \in Keys
    BY <1>2, <1>5 DEF Without, Request
  <2>3. cache' \in [Keys -> Entry] /\ cache'[r.key] = e /\ \A k \in Keys : k # r.key => cache'[k] = cache[k]
    BY <1>1, <1>5
  <2>4. e.data \in Int /\ cache[r.key].data <= e.data /\ e.data <= db[r.key] /\ None <= e.data
    <3>1. CASE e.data = cache[r.key].data
      BY <3>1, <1>1, <1>3 DEF EntriesOK
    <3>2. CASE e.data = r.seen /\ r.phase = "ok"
      BY <3>2, <1>1, <1>3 DEF RequestsOK, Request, None
    <3>3. QED
      BY <3>1, <3>2, <1>5
  <2>5. e.status = "success" => e.data # None
    BY <1>1, <1>5 DEF RequestsOK, None, Request
  <2>6. EntriesOK'
    <3> SUFFICES ASSUME NEW j \in Keys
                 PROVE  /\ None <= cache'[j].data /\ cache'[j].data <= db'[j]
                        /\ cache'[j].status = "error" <=> cache'[j].error # NoError
                        /\ cache'[j].status = "success" => cache'[j].data # None
      BY DEF EntriesOK
    <3>1. CASE j = r.key
      BY <3>1, <2>3, <2>4, <2>5, <1>5
    <3>2. CASE j # r.key
      BY <3>2, <2>3 DEF EntriesOK
    <3>3. QED
      BY <3>1, <3>2
  <2>7. RequestsOK'
    BY <2>2, <2>3 DEF RequestsOK
  <2>8. PageOK'
    <3> SUFFICES ASSUME page \in Keys, cache'[page].status = "pending"
                 PROVE  \E p \in requests' : p.key = page
      BY DEF PageOK, Fetching, InFlight
    <3>1. page # r.key /\ cache[page].status = "pending"
      BY <2>3, <1>5
    <3>2. PICK t \in requests : t.key = page
      BY <3>1 DEF PageOK, Fetching, InFlight
    <3>3. QED
      BY <3>1, <3>2, <1>5 DEF Without
  <2>9. \A j \in Keys : cache'[j].data >= cache[j].data
    <3> TAKE j \in Keys
    <3>1. CASE j = r.key
      BY <3>1, <2>3, <2>4, <1>3
    <3>2. CASE j # r.key
      BY <3>2, <2>3, <1>3
    <3>3. QED
      BY <3>1, <3>2
  <2>10. QED
    BY <2>1, <2>3, <2>6, <2>7, <2>8, <2>9
<1>6. QED
  BY <1>4, <1>5

\* A request fails: it is tried once more, or its error is the entry's.
LEMMA FailsStep ==
  ASSUME QueriesInv, NEW r \in requests, NEW code, Fails(r, code),
         UNCHANGED <<db, up, enabled, page>>
  PROVE  QueriesInv' /\ \A j \in Keys : cache'[j].data >= cache[j].data
<1>1. r \in Request /\ r.key \in Keys /\ code \in Codes /\ lastDefined' \in Keys \cup {Nowhere}
  BY DEF QueriesInv, Request, Fails
<1>2. CASE r.attempt = 0
  <2> DEFINE q == [r EXCEPT !.attempt = 1, !.phase = "waiting", !.seen = None]
  <2>0. None \in Int
    BY DEF None
  <2>1. q \in Request /\ q.key = r.key /\ q.phase = "waiting"
    BY <1>1, <2>0 DEF Request
  <2>2. requests' = Without(r) \cup {q} /\ UNCHANGED cache
    BY <1>2 DEF Fails
  <2> HIDE DEF q
  <2>3. QED
    BY <1>1, <2>1, <2>2, RequestStep
<1>3. CASE r.attempt # 0
  <2> DEFINE e == [cache[r.key] EXCEPT !.status = "error", !.error = code]
  <2>1. cache[r.key] \in Entry
    BY <1>1 DEF QueriesInv
  <2>2. /\ e \in Entry /\ e.data = cache[r.key].data /\ e.status = "error"
        /\ e.error = code /\ code # NoError
    BY <1>1, <2>1 DEF Entry, Codes, NoError
  <2>3. requests' = Without(r) /\ cache' = [cache EXCEPT ![r.key].status = "error", ![r.key].error = code]
    BY <1>3 DEF Fails
  <2>4. cache' = [cache EXCEPT ![r.key] = e]
    BY <2>3, <1>1 DEF QueriesInv
  <2> HIDE DEF e
  <2>5. QED
    BY <1>1, <2>2, <2>3, <2>4, RequestStep
<1>4. QED
  BY <1>2, <1>3

\* A request succeeds: its answer becomes the entry.
LEMMA SucceedsStep ==
  ASSUME QueriesInv, NEW r \in requests, r.phase = "ok", Succeeds(r),
         UNCHANGED <<db, up, enabled, page>>
  PROVE  QueriesInv' /\ \A j \in Keys : cache'[j].data >= cache[j].data
<1> DEFINE e == [data |-> r.seen, status |-> "success", error |-> NoError]
<1>1. r \in Request /\ r.key \in Keys /\ lastDefined' \in Keys \cup {Nowhere}
  BY DEF QueriesInv, Request, Succeeds
<1>2. e \in Entry /\ e.data = r.seen /\ e.status = "success" /\ e.error = NoError
  BY <1>1 DEF Entry, Request, NoError, Codes
<1>3. requests' = Without(r) /\ cache' = [cache EXCEPT ![r.key] = e]
  BY DEF Succeeds
<1> HIDE DEF e
<1>4. QED
  BY <1>1, <1>2, <1>3, RequestStep

\* Every step keeps the invariant and takes no data back.
LEMMA QueriesStep ==
  ASSUME QueriesAssumption, QueriesInv, [QueriesNext]_queryVars
  PROVE  QueriesInv' /\ \A j \in Keys : cache'[j].data >= cache[j].data
<1>1. \A j \in Keys : cache[j].data \in Int /\ db[j] \in 0 .. MaxTicks
  BY DEF QueriesInv, Entry
<1>2. ASSUME NEW k \in Keys \cup {Nowhere}, Show(k)
      PROVE  QueriesInv' /\ \A j \in Keys : cache'[j].data >= cache[j].data
  <2>1. lastDefined' \in Keys \cup {Nowhere}
    BY <1>2 DEF Show, QueriesInv
  <2>2. CASE k = Nowhere
    <3>1. page' = Nowhere /\ Nowhere \notin Keys /\ UNCHANGED <<requests, cache, db, up, enabled>>
      BY <1>2, <2>2 DEF Show, QueriesAssumption
    <3>2. QED
      BY <1>1, <2>1, <3>1 DEF QueriesInv, EntriesOK, RequestsOK, PageOK
  <2>3. CASE k \in Keys
    <3>1. /\ requests' = Fetch(k, requests) /\ page' = k /\ UNCHANGED <<db, up, enabled>>
          /\ cache' = IF Fetching(k) THEN cache ELSE [cache EXCEPT ![k] = Refetched(k)]
      BY <1>2, <2>3 DEF Show, QueriesAssumption
    <3>2. QueriesInv' /\ \A j \in Keys : cache'[j].data = cache[j].data
      BY <2>1, <2>3, <3>1, FetchStep
    <3>3. QED
      BY <3>2, <1>1
  <2>4. QED
    BY <2>2, <2>3
<1>3. ASSUME Poll \/ onRetry
      PROVE  QueriesInv' /\ \A j \in Keys : cache'[j].data >= cache[j].data
  <2>1. /\ page \in Keys /\ page' = page /\ lastDefined' \in Keys \cup {Nowhere}
        /\ requests' = Fetch(page, requests) \/ requests' = Fetch(page, requests \ InFlight(page))
        /\ cache' = [cache EXCEPT ![page] = Refetched(page)]
        /\ UNCHANGED <<db, up, enabled>>
    BY <1>3 DEF Poll, onRetry, Restart, QueriesInv
  <2>2. \E k \in Keys, kept \in {requests, requests \ InFlight(page)} :
           page = k /\ page' = k /\ requests' = Fetch(k, kept) /\ cache' = [cache EXCEPT ![k] = Refetched(k)]
    BY <2>1
  <2>3. QueriesInv' /\ \A j \in Keys : cache'[j].data = cache[j].data
    BY <2>1, <2>2, FetchStep
  <2>4. QED
    BY <2>3, <1>1
<1>4. ASSUME NEW r \in requests, Backoff(r)
      PROVE  QueriesInv' /\ \A j \in Keys : cache'[j].data >= cache[j].data
  <2> DEFINE q == [r EXCEPT !.phase = "sent"]
  <2>1. q \in Request /\ q.key = r.key /\ q.phase = "sent" /\ lastDefined' \in Keys \cup {Nowhere}
    BY <1>4 DEF QueriesInv, Request, Backoff
  <2>2. requests' = Without(r) \cup {q} /\ UNCHANGED <<cache, db, up, enabled, page>>
    BY <1>4 DEF Backoff
  <2> HIDE DEF q
  <2>3. QED
    BY <2>1, <2>2, RequestStep
<1>5. ASSUME NEW r \in requests, NEW phase \in {"ok", "refused"}, Headers(r, phase)
      PROVE  QueriesInv' /\ \A j \in Keys : cache'[j].data >= cache[j].data
  <2> DEFINE q == [r EXCEPT !.phase = phase, !.seen = db[r.key]]
  <2>1. r \in Request /\ r.key \in Keys /\ db[r.key] \in Int /\ lastDefined' \in Keys \cup {Nowhere}
    BY <1>5, <1>1 DEF QueriesInv, Request, Headers
  <2>2. q \in Request /\ q.key = r.key /\ q.seen = db[r.key]
    BY <2>1 DEF Request
  <2>3. requests' = Without(r) \cup {q} /\ UNCHANGED <<cache, db, up, enabled, page>>
    BY <1>5 DEF Headers
  <2> HIDE DEF q
  <2>4. QED
    BY <2>1, <2>2, <2>3, RequestStep
<1>6. ASSUME NEW r \in requests, handleResponse(r) \/ TimesOut(r) \/ NetworkError(r)
      PROVE  QueriesInv' /\ \A j \in Keys : cache'[j].data >= cache[j].data
  <2>1. UNCHANGED <<db, up, enabled, page>>
    BY <1>6 DEF handleResponse, TimesOut, NetworkError
  <2>2. (r.phase = "ok" /\ Succeeds(r)) \/ \E code : Fails(r, code)
    BY <1>6 DEF handleResponse, TimesOut, NetworkError
  <2>3. QED
    BY <2>1, <2>2, FailsStep, SucceedsStep
<1>7. CASE setEnabled \/ Outage
  <2>1. up' \in BOOLEAN /\ enabled' \in BOOLEAN
    BY <1>7, Zenon DEF setEnabled, Outage, QueriesInv
  <2>2. UNCHANGED <<db, cache, requests, page, lastDefined>>
    BY <1>7 DEF setEnabled, Outage
  <2>3. EntriesOK' /\ RequestsOK' /\ PageOK'
    BY <2>2 DEF QueriesInv, EntriesOK, RequestsOK, PageOK, Fetching, InFlight
  <2>4. QED
    BY <2>1, <2>2, <2>3, <1>1 DEF QueriesInv
<1>8. ASSUME NEW k \in Keys, Persist(k)
      PROVE  QueriesInv' /\ \A j \in Keys : cache'[j].data >= cache[j].data
  <2>1. UNCHANGED <<up, cache, requests, page, lastDefined, enabled>>
    BY <1>8 DEF Persist
  <2>2. db' \in [Keys -> 0 .. MaxTicks] /\ \A j \in Keys : db[j] <= db'[j] /\ db'[j] \in Int
    BY <1>1, <1>8 DEF Persist, QueriesInv, QueriesAssumption
  <2>3. EntriesOK'
    BY <2>1, <2>2, <1>1 DEF QueriesInv, EntriesOK
  <2>4. RequestsOK'
    <3>1. \A r \in requests : r.key \in Keys /\ r.seen \in Int
      BY DEF QueriesInv, Request
    <3>2. QED
      BY <2>1, <2>2, <3>1, <1>1 DEF QueriesInv, RequestsOK
  <2>5. PageOK'
    BY <2>1 DEF QueriesInv, PageOK, Fetching, InFlight
  <2>6. QED
    BY <2>1, <2>2, <2>3, <2>4, <2>5, <1>1 DEF QueriesInv
<1>9. CASE UNCHANGED queryVars
  BY <1>1, <1>9 DEF queryVars, QueriesInv, EntriesOK, RequestsOK, PageOK, Fetching, InFlight
<1>10. QED
  BY <1>2, <1>3, <1>4, <1>5, <1>6, <1>7, <1>8, <1>9 DEF QueriesNext

\* The hooks and the query client, for any keys: what the cache holds is of the
\* database, a page without data has a request under way, and no answer replaces a
\* newer one, whatever polls, retries, remounts and outages overlap.
THEOREM QueriesAreSound ==
  ASSUME QueriesAssumption
  PROVE  QueriesSpec => CacheIsSound
<1>1. QueriesInit => QueriesInv
  BY InitQueriesInv
<1>2. QueriesInv /\ [QueriesNext]_queryVars => QueriesInv'
  BY QueriesStep
<1>3. QueriesInv /\ [QueriesNext]_queryVars => [\A k \in Keys : cache'[k].data >= cache[k].data]_queryVars
  BY QueriesStep
<1>4. QueriesInv => QueriesTypeOK /\ LoadingIsUnderWay
  BY QueriesInvGives
<1>5. QED
  BY <1>1, <1>2, <1>3, <1>4, PTL DEF QueriesSpec, CacheIsSound, NeverBackwards

-----------------------------------------------------------------------------
(* DecisionWorkspace. *)

\* The last render read what is stored now.
WorkspaceInv ==
    /\ DOMAIN storage = Assessments
    /\ ack = getLocalAcknowledgment(storage, entries[pos], fetched)

\* Whatever the address says, the stage shown is one of the eleven, and it has one
\* heading.
LEMMA StageHasOneHeading == OneStageShown
<1> SUFFICES ASSUME Loaded
             PROVE  /\ activeStage \in ToSet(WORKSPACE_STAGES)
                    /\ \E c : c \in Content /\ Content = {c}
  BY DEF OneStageShown
<1> DEFINE names == {"situation", "understand", "evidence", "historical", "forecast", "business_impact",
                     "options", "recommended_action", "approval", "monitoring", "export"}
<1>1. ToSet(WORKSPACE_STAGES) = names
  <2>1. DOMAIN WORKSPACE_STAGES = 1 .. 11
    BY DEF WORKSPACE_STAGES
  <2>2. \A x : x \in names <=> \E i \in 1 .. 11 : WORKSPACE_STAGES[i] = x
    BY DEF WORKSPACE_STAGES
  <2>3. QED
    BY <2>1, <2>2 DEF ToSet
<1>2. activeStage \in names
  BY <1>1 DEF activeStage, isWorkspaceStageId, DEFAULT_WORKSPACE_STAGE
<1>3. ASSUME NEW t \in names
      PROVE  \E c : ReadStages(t) \cup ActStages(t) = {c}
  <2>1. CASE t \in {"situation", "understand", "evidence", "historical", "forecast"}
    <3>1. ActStages(t) = {}
      BY <2>1 DEF ActStages
    <3>2. \E c : ReadStages(t) = {c}
      BY <2>1 DEF ReadStages
    <3>3. QED
      BY <3>1, <3>2
  <2>2. CASE t \in names \ {"situation", "understand", "evidence", "historical", "forecast"}
    <3>1. ReadStages(t) = {}
      BY <2>2 DEF ReadStages
    <3>2. \E c : ActStages(t) = {c}
      BY <2>2 DEF ActStages
    <3>3. QED
      BY <3>1, <3>2
  <2>3. QED
    BY <2>1, <2>2
<1>4. \E c : Content = {c}
  BY <1>2, <1>3 DEF Content
<1>5. QED
  BY <1>1, <1>2, <1>4

\* The workspace, for any assessments, notes and links: the acknowledgment on the
\* screen and in the exported summary is the stored one, an assessment is shown in
\* exactly one stage, and no step writes the acknowledgment of another.
THEOREM WorkspaceShowsWhatIsStored == WorkspaceSpec => WorkspaceIsTrue
<1>1. WorkspaceInit => WorkspaceInv
  BY DEF WorkspaceInit, WorkspaceInv, getLocalAcknowledgment, Elsewhere
<1>2. WorkspaceInv /\ [WorkspaceNext]_workspaceVars => WorkspaceInv'
  <2> SUFFICES ASSUME WorkspaceInv, [WorkspaceNext]_workspaceVars PROVE WorkspaceInv'
    OBVIOUS
  <2>1. CASE WorkspaceNext
    <3>1. Rendered
      BY <2>1 DEF WorkspaceNext, FollowLink, LeavePage, setStage, BackOrForward, Reload, Answers,
                  setAckNote, handleAcknowledge, handleUndoAcknowledge
    <3>2. \/ storage' = storage
          \/ \E k, v : storage' = [storage EXCEPT ![k] = v]
      BY <2>1 DEF WorkspaceNext, FollowLink, LeavePage, setStage, BackOrForward, Reload, Answers,
                  setAckNote, handleAcknowledge, handleUndoAcknowledge
    <3>3. DOMAIN storage' = Assessments
      BY <3>2 DEF WorkspaceInv
    <3>4. QED
      BY <3>1, <3>3 DEF WorkspaceInv, Rendered
  <2>2. CASE UNCHANGED workspaceVars
    BY <2>2 DEF WorkspaceInv, workspaceVars
  <2>3. QED
    BY <2>1, <2>2
<1>3. WorkspaceInv => ScreenIsStored
  <2> SUFFICES ASSUME WorkspaceInv, Loaded
               PROVE  /\ ack = storage[storageKey(assessmentId)]
                      /\ Last(exportedSections).says = Says(ack.acknowledged)
    BY DEF ScreenIsStored
  <2>1. ack = storage[storageKey(assessmentId)]
    BY DEF WorkspaceInv, Loaded, Mounted, assessmentId, getLocalAcknowledgment
  <2>2. Len(exportedSections) = 6 /\ exportedSections[6] = Stage("Approval", Says(ack.acknowledged))
    BY DEF exportedSections
  <2>3. QED
    BY <2>1, <2>2 DEF Last, Stage
<1>4. WorkspaceInv /\ [WorkspaceNext]_workspaceVars
        => [\A a \in Assessments : storage'[a] # storage[a] =>
                Loaded /\ a = assessmentId /\ activeStage = "approval"]_workspaceVars
  <2> SUFFICES ASSUME WorkspaceInv, WorkspaceNext, NEW a \in Assessments, storage'[a] # storage[a]
               PROVE  Loaded /\ a = assessmentId /\ activeStage = "approval"
    OBVIOUS
  <2>1. handleAcknowledge \/ handleUndoAcknowledge
    BY DEF WorkspaceNext, FollowLink, LeavePage, setStage, BackOrForward, Reload, Answers, setAckNote
  <2>2. /\ Loaded /\ activeStage = "approval"
        /\ \E v : storage' = [storage EXCEPT ![assessmentId] = v]
    BY <2>1 DEF handleAcknowledge, handleUndoAcknowledge, FormShown, storageKey
  <2>3. QED
    BY <2>2 DEF WorkspaceInv
<1>5. QED
  BY <1>1, <1>2, <1>3, <1>4, StageHasOneHeading, PTL
     DEF WorkspaceSpec, WorkspaceIsTrue, AckTouchesOneAssessment

-----------------------------------------------------------------------------
(* DecisionComparison. *)

CardZones == {ZoneIds[i] : i \in DOMAIN ZoneIds}
At(z) == CHOOSE i \in DOMAIN ZoneIds : ZoneIds[i] = z

\* The histories are of what was assessed, and a verdict has answered or failed.
CardInv ==
    /\ assessed \in [CardZones -> Seq(Verdicts)]
    /\ hist \in [CardZones -> [status : {"loading", "ok", "error"}, upto : Int, fetching : BOOLEAN]]
    /\ \A z \in CardZones : hist[z].upto <= Len(assessed[z])
    /\ \A m \in DOMAIN cf : cf[m] \in {"ok", "error"}

\* A zone has one place among the zones.
LEMMA ZoneHasPlace ==
  ASSUME CardAssumption, NEW z \in CardZones
  PROVE  /\ At(z) \in 1 .. Len(ZoneIds) /\ Len(ZoneIds) \in Nat
         /\ \A y \in CardZones : At(y) = At(z) => y = z
<1>1. \A y \in CardZones : At(y) \in DOMAIN ZoneIds /\ ZoneIds[At(y)] = y
  <2> TAKE y \in CardZones
  <2>1. \E i \in DOMAIN ZoneIds : ZoneIds[i] = y
    BY DEF CardZones
  <2>2. QED
    BY <2>1 DEF At
<1>2. DOMAIN ZoneIds = 1 .. Len(ZoneIds) /\ Len(ZoneIds) \in Nat
  BY DEF CardAssumption
<1>3. QED
  BY <1>1, <1>2

\* Two instants that differ are one before the other.
LEMMA Below ==
  ASSUME NEW a \in Int, NEW b \in Int, a <= b, a # b
  PROVE  b > a
OBVIOUS

\* Among moments there is a first of the highest scores.
LEMMA FirstHighest ==
  ASSUME CardAssumption, NEW pool, pool # {}, pool \subseteq Moments,
         \A m \in pool : Of(m).score \in 0 .. 100
  PROVE  \E m \in pool : \A n \in pool \ {m} :
            Of(n).score < Of(m).score \/ (Of(n).score = Of(m).score /\ Before(m, n))
<1> DEFINE scores == {Of(m).score : m \in pool}
           highest == {m \in pool : \A n \in pool : Of(n).score <= Of(m).score}
           places == {At(m.zone) : m \in highest}
           first == {m \in highest : \A n \in highest : At(m.zone) <= At(n.zone)}
           instants == {m.tick : m \in first}
<1>0. \A m \in pool : /\ m.zone \in CardZones /\ m.tick \in 1 .. MaxAssessed
                      /\ m = [zone |-> m.zone, tick |-> m.tick]
  BY DEF Moments, CardZones
<1>1. highest # {}
  <2>1. scores # {} /\ scores \subseteq 0 .. 100
    OBVIOUS
  <2> HIDE DEF scores
  <2>2. PICK b \in Nat : b = 100
    OBVIOUS
  <2>3. \E s \in scores : \A k \in scores : k <= s
    BY <2>1, <2>2, LeastAndGreatest
  <2>4. QED
    BY <2>3 DEF scores
<1>2. first # {}
  <2>1. places # {} /\ places \subseteq 0 .. Len(ZoneIds) /\ Len(ZoneIds) \in Nat
    <3>1. \A m \in highest : At(m.zone) \in 1 .. Len(ZoneIds) /\ Len(ZoneIds) \in Nat
      BY <1>0, ZoneHasPlace
    <3>2. QED
      BY <3>1, <1>1
  <2> HIDE DEF places
  <2>2. \E s \in places : \A k \in places : s <= k
    BY <2>1, LeastAndGreatest
  <2>3. QED
    BY <2>2 DEF places
<1>3. \E m \in first : \A n \in first : n.tick <= m.tick
  <2>1. instants # {} /\ instants \subseteq 0 .. MaxAssessed /\ MaxAssessed \in Nat
    BY <1>0, <1>2 DEF CardAssumption
  <2> HIDE DEF instants
  <2>2. \E s \in instants : \A k \in instants : k <= s
    BY <2>1, LeastAndGreatest
  <2>3. QED
    BY <2>2 DEF instants
<1>4. PICK m \in first : \A n \in first : n.tick <= m.tick
  BY <1>3
<1>5. m \in pool /\ m \in highest
  BY <1>4
<1>6. ASSUME NEW n \in pool \ {m}
      PROVE  Of(n).score < Of(m).score \/ (Of(n).score = Of(m).score /\ Before(m, n))
  <2>1. Of(n).score <= Of(m).score /\ Of(n).score \in Int /\ Of(m).score \in Int
    BY <1>5
  <2>2. CASE Of(n).score < Of(m).score
    BY <2>2
  <2>3. CASE Of(n).score = Of(m).score
    <3>1. n \in highest
      BY <2>3, <1>5
    <3>2. /\ At(m.zone) \in Int /\ At(n.zone) \in Int /\ At(m.zone) <= At(n.zone)
          /\ At(m.zone) = At(n.zone) => m.zone = n.zone
      BY <3>1, <1>0, <1>4, <1>5, ZoneHasPlace
    <3>3. CASE At(m.zone) < At(n.zone)
      BY <3>3, <2>3 DEF Before, At
    <3>4. CASE At(m.zone) = At(n.zone)
      <4>1. n \in first /\ m.zone = n.zone
        BY <3>1, <3>2, <3>4, <1>4
      <4>2. n.tick <= m.tick /\ n.tick # m.tick /\ n.tick \in Int /\ m.tick \in Int
        BY <4>1, <1>0, <1>4, <1>5, <1>6
      <4>3. m.tick > n.tick
        BY <4>2, Below
      <4>4. Before(m, n)
        BY <4>1, <4>3, Zenon DEF Before
      <4>5. QED
        BY <4>4, <2>3
    <3>5. QED
      BY <3>2, <3>3, <3>4
  <2>4. QED
    BY <2>1, <2>2, <2>3
<1>7. QED
  BY <1>5, <1>6

\* The moment that is picked is of the misses if there are any, and has the
\* highest score.
LEMMA PickedIsHighest ==
  ASSUME CardAssumption, NEW moments, moments \subseteq Moments,
         \A m \in moments : Of(m).score \in 0 .. 100,
         NEW m \in moments, Of(m).compound, isMiss(Of(m))
  PROVE  LET picked == pickComparisonMoment(moments)
         IN  /\ picked \in moments /\ Of(picked).compound /\ isMiss(Of(picked))
             /\ Of(m).score <= Of(picked).score
<1> DEFINE pool == {n \in {k \in moments : Of(k).compound} : isMiss(Of(n))}
           best(c) == \A n \in pool \ {c} :
                Of(n).score < Of(c).score \/ (Of(n).score = Of(c).score /\ Before(c, n))
           picked == pickComparisonMoment(moments)
<1>1. m \in pool /\ pool # {} /\ pool \subseteq moments
  OBVIOUS
<1>2. picked = CHOOSE c \in pool : best(c)
  BY <1>1 DEF pickComparisonMoment
<1>3. \E c \in pool : best(c)
  <2> HIDE DEF pool
  <2>1. QED
    BY <1>1, FirstHighest
<1>4. picked \in pool /\ best(picked)
  <2> HIDE DEF best, pool, picked
  <2>1. QED
    BY <1>2, <1>3, Zenon
<1>5. Of(m).score <= Of(picked).score
  <2>1. Of(m).score \in Int /\ Of(picked).score \in Int
    BY <1>4
  <2> HIDE DEF pool, picked
  <2>2. QED
    BY <1>1, <1>4, <2>1
<1>6. QED
  BY <1>4, <1>5

\* The type invariant of a card holds at first.
LEMMA InitCardInv ==
  ASSUME CardAssumption
  PROVE  CardInit => CardInv
<1> SUFFICES ASSUME CardInit PROVE CardInv
  OBVIOUS
<1>1. assessed = [z \in CardZones |-> <<>>] /\ cf = << >>
  BY DEF CardInit, CardZones
<1>2. hist = [z \in CardZones |-> [status |-> "loading", upto |-> NoneYet, fetching |-> TRUE]]
  BY DEF CardInit, CardZones
<1>3. QED
  BY <1>1, <1>2 DEF CardInv, NoneYet

\* Every step of a card keeps its type invariant.
LEMMA CardStep ==
  ASSUME CardInv, [CardNext]_cardVars
  PROVE  CardInv'
<1> USE DEF CardInv
<1> DEFINE Hist == [status : {"loading", "ok", "error"}, upto : Int, fetching : BOOLEAN]
<1>1. CASE Assess
  <2>1. PICK z \in CardZones, v \in Verdicts : assessed' = [assessed EXCEPT ![z] = Append(@, v)]
    BY <1>1 DEF Assess
  <2>2. UNCHANGED <<hist, cf>>
    BY <1>1 DEF Assess
  <2>3. assessed' \in [CardZones -> Seq(Verdicts)]
    BY <2>1
  <2>4. \A y \in CardZones : hist'[y].upto <= Len(assessed'[y])
    <3> TAKE y \in CardZones
    <3>1. hist[y] \in Hist /\ assessed[y] \in Seq(Verdicts) /\ hist[y].upto <= Len(assessed[y])
      OBVIOUS
    <3>2. Len(assessed'[y]) = Len(assessed[y]) \/ Len(assessed'[y]) = Len(assessed[y]) + 1
      BY <2>1, <3>1
    <3>3. hist[y].upto \in Int /\ Len(assessed[y]) \in Int
      BY <3>1
    <3>4. QED
      BY <2>2, <3>1, <3>2, <3>3
  <2>5. QED
    BY <2>2, <2>3, <2>4
<1>2. CASE HistoryAnswers
  <2>1. PICK z \in CardZones :
           hist' = [hist EXCEPT ![z] = [status |-> "ok", upto |-> Len(assessed[z]), fetching |-> FALSE]]
    BY <1>2 DEF HistoryAnswers
  <2>2. UNCHANGED <<assessed, cf>>
    BY <1>2 DEF HistoryAnswers
  <2>3. \A y \in CardZones : Len(assessed[y]) \in Int
    OBVIOUS
  <2>4. QED
    BY <2>1, <2>2, <2>3
<1>3. CASE HistoryFails
  <2>1. PICK z \in CardZones : hist' = [hist EXCEPT ![z].status = "error", ![z].fetching = FALSE]
    BY <1>3 DEF HistoryFails
  <2>2. UNCHANGED <<assessed, cf>>
    BY <1>3 DEF HistoryFails
  <2>3. QED
    BY <2>1, <2>2
<1>4. CASE VerdictAnswers \/ VerdictFails
  <2>1. UNCHANGED <<assessed, hist>>
    BY <1>4 DEF VerdictAnswers, VerdictFails
  <2>2. \E m \in tickPairs, a \in {"ok", "error"} : cf' = With(m, a)
    BY <1>4 DEF VerdictAnswers, VerdictFails
  <2>3. \A m \in DOMAIN cf' : cf'[m] \in {"ok", "error"}
    BY <2>2 DEF With
  <2>4. QED
    BY <2>1, <2>3
<1>5. CASE Focus
  <2>1. UNCHANGED assessed /\ cf' = [m \in {n \in DOMAIN cf : cf[n] # "error"} |-> cf[m]]
    BY <1>5 DEF Focus
  <2>2. DOMAIN hist = CardZones
    OBVIOUS
  <2>3. \A z \in CardZones :
           /\ hist'[z] = [hist[z] EXCEPT !.fetching = TRUE,
                                        !.status = IF hist[z].upto = NoneYet THEN "loading" ELSE @]
           /\ hist'[z] \in Hist /\ hist'[z].upto = hist[z].upto
    BY <1>5, <2>2 DEF Focus
  <2>4. hist' \in [CardZones -> Hist]
    BY <1>5, <2>2, <2>3 DEF Focus
  <2>5. QED
    BY <2>1, <2>3, <2>4
<1>6. CASE UNCHANGED cardVars
  BY <1>6 DEF cardVars
<1>7. QED
  BY <1>1, <1>2, <1>3, <1>4, <1>5, <1>6 DEF CardNext

\* A card that shows a moment has every verdict of its ticks, and the moment is
\* the highest miss.
LEMMA ContentIsFinal ==
  ASSUME CardAssumption, CardInv
  PROVE  ShownIsFinal
<1> SUFFICES ASSUME Card = "content", NEW m \in tickPairs, Of(m).compound
             PROVE  /\ Status(m) = "ok"
                    /\ isMiss(Of(m)) => /\ explainComparison(Of(chosen)) # "both agree"
                                       /\ Of(m).score <= Of(chosen).score
  BY DEF ShownIsFinal
<1>1. ~cardIsLoading /\ ~hasError
  BY DEF Card
<1>2. \A n \in tickPairs : Status(n) = "ok"
  BY <1>1 DEF cardIsLoading, hasError, Status, CardInv
<1>3. tickPairs = {n \in tickPairs : Status(n) = "ok"}
  BY <1>2
<1>4. chosen = pickComparisonMoment(tickPairs)
  BY <1>3, Zenon DEF chosen
<1>5. tickPairs \subseteq Moments
  BY DEF tickPairs
<1>6. \A n \in tickPairs : Of(n).score \in 0 .. 100
  <2> TAKE n \in tickPairs
  <2>1. /\ n.zone \in CardZones /\ n.tick \in 1 .. MaxAssessed /\ MaxAssessed \in Nat
        /\ n.tick <= hist[n.zone].upto
    BY DEF tickPairs, Moments, CardZones, CardAssumption
  <2>2. /\ assessed[n.zone] \in Seq(Verdicts) /\ hist[n.zone].upto \in Int
        /\ hist[n.zone].upto <= Len(assessed[n.zone])
    BY <2>1 DEF CardInv
  <2>3. n.tick \in 1 .. Len(assessed[n.zone])
    BY <2>1, <2>2
  <2>4. Of(n) \in Verdicts
    BY <2>2, <2>3 DEF Of
  <2>5. QED
    BY <2>4 DEF CardAssumption
<1>7. ASSUME isMiss(Of(m))
      PROVE  explainComparison(Of(chosen)) # "both agree" /\ Of(m).score <= Of(chosen).score
  <2>1. Of(chosen).compound /\ isMiss(Of(chosen)) /\ Of(m).score <= Of(chosen).score
    BY <1>4, <1>5, <1>6, <1>7, PickedIsHighest
  <2>2. explainComparison(Of(chosen)) # "both agree"
    BY <2>1 DEF explainComparison
  <2>3. QED
    BY <2>1, <2>2
<1>8. QED
  BY <1>2, <1>7

\* The comparison card, for any zones, verdicts and limit: no answer still under way
\* can replace the moment that is shown.
THEOREM ShownMomentIsFinal ==
  ASSUME CardAssumption
  PROVE  CardSpec => []ShownIsFinal
<1>1. CardInit => CardInv
  BY InitCardInv
<1>2. CardInv /\ [CardNext]_cardVars => CardInv'
  BY CardStep
<1>3. CardInv => ShownIsFinal
  BY ContentIsFinal
<1>4. QED
  BY <1>1, <1>2, <1>3, PTL DEF CardSpec
=============================================================================
