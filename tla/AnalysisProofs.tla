--------------------------- MODULE AnalysisProofs ---------------------------
(***************************************************************************)
(* Theorems about the analyses that are run on what was collected: the     *)
(* escalation searches of internal/rbac, for any number of principals and  *)
(* any graph of steps, the benchmark commands of internal/compliance, for  *)
(* every host, cluster and file of waivers, the bundles of internal/harden,*)
(* for every pod, exceptions and trace, the network monitor with the       *)
(* policies made of its captures, for every capture, the vulnerability     *)
(* scan with the merging of its feeds, for every feed and SBOM, the report *)
(* of `dsecrat rbac` on an export, and the file tree of an image.          *)
(***************************************************************************)
EXTENDS EscalationSearch, IdentityRisks, OCILayers, Posture, FiniteSetTheorems, FunctionTheorems,
        WellFoundedInduction, TLAPS

(***************************************************************************)
(* Escalation searches: a path that is reported is one, and a search that  *)
(* ends empty-handed leaves nothing unexplored.                            *)
(***************************************************************************)
waiting == {queue[i] : i \in 1 .. Len(queue)}

\* What every state of a search satisfies.
Walks ==
  /\ start \in visited /\ waiting \subseteq visited
  /\ \A n \in visited : isWalk(trail[n], n)

\* Whoever has left the queue was looked at completely.
Explored ==
  \A n \in visited \ waiting :
    edges[n] \cap Principals \subseteq visited /\ (ends(n) = {} \/ found # None)

\* How the two searches end.
Outcome ==
  /\ done /\ found = None => queue = <<>>
  /\ ~done /\ ~scoring => found = None
  /\ done /\ ~scoring /\ found # None => queue # <<>> /\ found \in edges[Head(queue)]

SearchInv == SearchTypeOK /\ Walks /\ Explored /\ Outcome

(***************************************************************************)
(*                          What a step does                               *)
(***************************************************************************)
\* The sorted order of the principals a step enqueues is a sequence of them all
\* (escalation.go:97-105).
LEMMA OrderIsSequence ==
  ASSUME NEW S \in SUBSET Principals, NEW o \in orders(S)
  PROVE  o \in Seq(S) /\ {o[i] : i \in 1 .. Len(o)} = S
<1>1. Cardinality(S) \in Nat
  BY FS_Subset, FS_CardinalityType, SearchAssumption
<1>2. o \in [1 .. Cardinality(S) -> S] /\ {o[i] : i \in DOMAIN o} = S
  BY DEF orders
<1>3. o \in Seq(S)
  BY <1>1, <1>2
<1>4. DOMAIN o = 1 .. Len(o)
  BY <1>3
<1> QED
  BY <1>2, <1>3, <1>4

\* Expanding the first of the queue takes it off and puts the fresh principals
\* behind it, each with the way by which it was met (escalation.go:162-175).
LEMMA SpreadEffect ==
  ASSUME SearchTypeOK, Walks, queue # <<>>, spread(Head(queue))
  PROVE  /\ Head(queue) \in visited
         /\ fresh(Head(queue)) \subseteq Principals
         /\ queue' \in Seq(Principals)
         /\ waiting' \subseteq waiting \cup fresh(Head(queue))
         /\ waiting \cup fresh(Head(queue)) \subseteq waiting' \cup {Head(queue)}
         /\ visited' = visited \cup fresh(Head(queue))
         /\ trail' = [n \in visited' |->
                        IF n \in visited THEN trail[n] ELSE Append(trail[Head(queue)], n)]
<1> DEFINE cur == Head(queue)
           F == fresh(cur)
<1>1. queue \in Seq(Principals) /\ Len(queue) \in Nat \ {0} /\ cur = queue[1] /\ cur \in Principals
  BY DEF SearchTypeOK
<1>2. cur \in waiting /\ cur \in visited
  BY <1>1 DEF waiting, Walks
<1>3. F \subseteq Principals
  BY <1>1 DEF fresh, SearchTypeOK, Graphs
<1>4. PICK new \in orders(F) : queue' = Tail(queue) \o new
  BY DEF spread
<1>5. new \in Seq(F) /\ {new[i] : i \in 1 .. Len(new)} = F
  BY <1>3, <1>4, OrderIsSequence
<1>6. new \in Seq(Principals)
  BY <1>3, <1>5
<1> DEFINE t == Tail(queue)
<1>7. queue' = t \o new
  BY <1>4
<1>8. /\ t \in Seq(Principals) /\ Len(t) = Len(queue) - 1
      /\ \A i \in 1 .. Len(t) : t[i] = queue[i + 1]
  BY <1>1
<1>9. /\ queue' \in Seq(Principals) /\ Len(queue') = Len(t) + Len(new)
      /\ \A i \in 1 .. Len(queue') : queue'[i] = IF i <= Len(t) THEN t[i] ELSE new[i - Len(t)]
  <2> HIDE DEF t
  <2> QED BY <1>7, <1>6, <1>8
<1>10. waiting' \subseteq waiting \cup F
  <2> SUFFICES ASSUME NEW i \in 1 .. Len(queue')
               PROVE  queue'[i] \in waiting \cup F
    BY DEF waiting
  <2>1. CASE i <= Len(t)
    <3>1. i \in 1 .. Len(t) /\ i + 1 \in 1 .. Len(queue) /\ queue'[i] = queue[i + 1]
      BY <2>1, <1>1, <1>8, <1>9
    <3> QED BY <3>1 DEF waiting
  <2>2. CASE ~(i <= Len(t))
    <3>1. i - Len(t) \in 1 .. Len(new) /\ queue'[i] = new[i - Len(t)]
      BY <2>2, <1>1, <1>5, <1>8, <1>9
    <3> QED BY <3>1, <1>5
  <2> QED BY <2>1, <2>2
<1>11. waiting \subseteq waiting' \cup {cur}
  <2> SUFFICES ASSUME NEW i \in 1 .. Len(queue), i # 1
               PROVE  queue[i] \in waiting'
    BY <1>1 DEF waiting
  <2>1. i - 1 \in 1 .. Len(t) /\ i - 1 \in 1 .. Len(queue') /\ queue'[i - 1] = queue[i]
    BY <1>1, <1>5, <1>8, <1>9
  <2> QED BY <2>1 DEF waiting
<1>12. F \subseteq waiting'
  <2> SUFFICES ASSUME NEW i \in 1 .. Len(new)
               PROVE  new[i] \in waiting'
    BY <1>5
  <2>1. Len(t) \in Nat /\ Len(new) \in Nat
    BY <1>5, <1>8
  <2>2. Len(t) + i \in 1 .. Len(queue') /\ ~(Len(t) + i <= Len(t)) /\ Len(t) + i - Len(t) = i
    BY <2>1, <1>9
  <2>3. queue'[Len(t) + i] = new[i]
    BY <2>2, <1>9
  <2> QED BY <2>2, <2>3 DEF waiting
<1> QED
  BY <1>2, <1>3, <1>9, <1>10, <1>11, <1>12 DEF spread

\* A way continued by an edge is a way.
LEMMA WalkExtends ==
  ASSUME NEW w \in Seq(Principals), NEW m \in Principals, NEW n \in edges[m] \cap Principals, isWalk(w, m)
  PROVE  Append(w, n) \in Seq(Principals) /\ isWalk(Append(w, n), n)
<1> DEFINE v == Append(w, n)
<1>1. w # <<>> /\ w[1] = start /\ w[Len(w)] = m /\ \A i \in 1 .. Len(w) - 1 : w[i + 1] \in edges[w[i]]
  BY DEF isWalk
<1>2. Len(w) \in Nat \ {0}
  BY <1>1
<1>3. v \in Seq(Principals) /\ Len(v) = Len(w) + 1 /\ v[Len(v)] = n /\ \A i \in 1 .. Len(w) : v[i] = w[i]
  BY <1>2
<1>4. ASSUME NEW i \in 1 .. Len(v) - 1
      PROVE  v[i + 1] \in edges[v[i]]
  <2> HIDE DEF v
  <2>1. CASE i = Len(w)
    BY <2>1, <1>1, <1>2, <1>3
  <2>2. CASE i # Len(w)
    <3>1. i \in 1 .. Len(w) - 1 /\ i \in 1 .. Len(w) /\ i + 1 \in 1 .. Len(w)
      BY <2>2, <1>2, <1>3
    <3> QED BY <3>1, <1>1, <1>3
  <2> QED BY <2>1, <2>2
<1>5. v # <<>> /\ v[1] = start
  <2> HIDE DEF v
  <2> QED BY <1>1, <1>2, <1>3
<1> HIDE DEF v
<1>6. isWalk(v, n)
  BY <1>3, <1>4, <1>5 DEF isWalk
<1> QED
  BY <1>3, <1>6 DEF v

\* A step that expands the first of the queue keeps every way real.
LEMMA SpreadKeepsWalks ==
  ASSUME SearchTypeOK, Walks, queue # <<>>, spread(Head(queue)), UNCHANGED <<edges, start>>
  PROVE  /\ visited' \subseteq Principals /\ queue' \in Seq(Principals)
         /\ trail' \in [visited' -> Seq(Principals)] /\ Walks'
<1> DEFINE cur == Head(queue)
           F == fresh(cur)
<1>1. cur \in visited /\ cur \in Principals /\ F \subseteq Principals /\ queue' \in Seq(Principals)
  BY SpreadEffect DEF SearchTypeOK
<1>2. waiting' \subseteq waiting \cup F /\ visited' = visited \cup F
  BY SpreadEffect
<1>3. trail' = [n \in visited' |-> IF n \in visited THEN trail[n] ELSE Append(trail[cur], n)]
  BY SpreadEffect
<1>4. visited' \subseteq Principals
  BY <1>1, <1>2 DEF SearchTypeOK
<1>5. ASSUME NEW n \in visited'
      PROVE  trail'[n] \in Seq(Principals) /\ isWalk(trail'[n], n)
  <2>1. CASE n \in visited
    BY <2>1, <1>3, <1>5 DEF SearchTypeOK, Walks
  <2>2. CASE n \notin visited
    <3>1. n \in edges[cur] \cap Principals
      BY <2>2, <1>1, <1>2 DEF fresh
    <3>2. trail[cur] \in Seq(Principals) /\ isWalk(trail[cur], cur)
      BY <1>1 DEF SearchTypeOK, Walks
    <3>3. trail'[n] = Append(trail[cur], n)
      BY <2>2, <1>3, <1>5
    <3> HIDE DEF cur
    <3> QED BY <3>1, <3>2, <3>3, <1>1, WalkExtends
  <2> QED BY <2>1, <2>2
<1>6. trail' \in [visited' -> Seq(Principals)]
  BY <1>3, <1>5
<1>7. (\A n \in visited : isWalk(trail[n], n))'
  BY <1>5 DEF isWalk
<1>8. Walks'
  BY <1>2, <1>7 DEF Walks
<1> QED
  BY <1>1, <1>4, <1>6, <1>8

\* What is expanded is explored, and what was stays so.
LEMMA SpreadKeepsExplored ==
  ASSUME SearchTypeOK, Walks, Explored, queue # <<>>, spread(Head(queue)), UNCHANGED edges,
         found # None => found' # None, ends(Head(queue)) = {} \/ found' # None
  PROVE  Explored'
<1> DEFINE cur == Head(queue)
           F == fresh(cur)
<1>1. /\ waiting \cup F \subseteq waiting' \cup {cur}
      /\ visited' = visited \cup F
  BY SpreadEffect
<1>2. ASSUME NEW n \in visited' \ waiting'
      PROVE  edges[n] \cap Principals \subseteq visited' /\ (ends(n) = {} \/ found' # None)
  <2>1. CASE n = cur
    <3>1. edges[n] \cap Principals \subseteq visited \cup F
      BY <2>1, SearchAssumption DEF fresh, Targets
    <3> QED BY <2>1, <3>1, <1>1
  <2>2. CASE n # cur
    BY <2>2, <1>1, <1>2 DEF Explored
  <2> QED BY <2>1, <2>2
<1> QED
  BY <1>2 DEF Explored, ends

(***************************************************************************)
(*                            The invariant                                *)
(***************************************************************************)
\* The conjuncts of SearchInv hold when a search begins.
LEMMA SearchInvInit ==
  ASSUME SearchInit
  PROVE  SearchInv
<1>1. PICK s \in Principals, score \in BOOLEAN : Begin(s, score)
  BY DEF SearchInit
<1>2. /\ edges \in Graphs /\ start = s /\ scoring = score
      /\ visited = {s} /\ queue = <<s>> /\ trail = [n \in {s} |-> <<s>>] /\ found = None /\ done = FALSE
  BY <1>1 DEF SearchInit, Begin
<1>3. <<s>> \in Seq(Principals)
  OBVIOUS
<1>4. SearchTypeOK
  BY <1>2, <1>3 DEF SearchTypeOK
<1>5. waiting = {s}
  BY <1>2 DEF waiting
<1>6. isWalk(<<s>>, s)
  BY <1>2 DEF isWalk
<1>7. Walks
  BY <1>2, <1>5, <1>6 DEF Walks
<1> QED
  BY <1>2, <1>4, <1>5, <1>7 DEF SearchInv, Explored, Outcome

\* Every step of a search keeps SearchInv.
LEMMA SearchInvStep ==
  ASSUME SearchInv, [SearchNext]_searchVars
  PROVE  SearchInv'
<1> USE DEF SearchInv
<1>1. ASSUME Arrive
      PROVE  SearchInv'
  <2>1. /\ queue # <<>> /\ ~scoring /\ done' = TRUE /\ found' = foremost(ends(Head(queue)))
        /\ ends(Head(queue)) # {} /\ UNCHANGED <<edges, start, scoring, visited, queue, trail>>
    BY <1>1 DEF Arrive
  <2>2. found' \in Targets /\ found' \in edges[Head(queue)] /\ found' # None
    BY <2>1, SearchAssumption DEF foremost, ends, Targets
  <2>3. SearchTypeOK'
    BY <2>1, <2>2 DEF SearchTypeOK
  <2>4. waiting' = waiting /\ Walks'
    BY <2>1 DEF waiting, Walks, isWalk
  <2> QED BY <2>1, <2>2, <2>3, <2>4 DEF Explored, Outcome, ends
<1>2. ASSUME Spread
      PROVE  SearchInv'
  <2>1. /\ ~done /\ queue # <<>> /\ ~scoring /\ ends(Head(queue)) = {} /\ spread(Head(queue))
        /\ UNCHANGED <<edges, start, scoring, found, done>>
    BY <1>2 DEF Spread
  <2>2. SearchTypeOK' /\ Walks'
    BY <2>1, SpreadKeepsWalks DEF SearchTypeOK
  <2>3. Explored'
    BY <2>1, SpreadKeepsExplored
  <2> QED BY <2>1, <2>2, <2>3 DEF Outcome
<1>3. ASSUME Score
      PROVE  SearchInv'
  <2>1. /\ ~done /\ queue # <<>> /\ scoring /\ spread(Head(queue))
        /\ UNCHANGED <<edges, start, scoring, done>>
    BY <1>3 DEF Score
  <2>2. LET t == ends(Head(queue))
        IN  found' = IF t # {} /\ (found = None \/ Admin \in t) THEN foremost(t) ELSE found
    BY <1>3 DEF Score
  <2>3. /\ found' \in Targets \cup {None} /\ (found # None => found' # None)
        /\ ends(Head(queue)) = {} \/ found' # None
    BY <2>2, SearchAssumption DEF foremost, Targets, SearchTypeOK
  <2>4. SearchTypeOK' /\ Walks'
    BY <2>1, <2>3, SpreadKeepsWalks DEF SearchTypeOK
  <2>5. Explored'
    BY <2>1, <2>3, SpreadKeepsExplored
  <2> QED BY <2>1, <2>4, <2>5 DEF Outcome
<1>4. ASSUME GiveUp
      PROVE  SearchInv'
  <2>1. /\ ~done /\ queue = <<>> /\ done' = TRUE
        /\ UNCHANGED <<edges, start, scoring, visited, queue, trail, found>>
    BY <1>4 DEF GiveUp
  <2>2. SearchTypeOK' /\ waiting' = waiting /\ Walks'
    BY <2>1 DEF SearchTypeOK, waiting, Walks, isWalk
  <2> QED BY <2>1, <2>2 DEF Explored, Outcome, ends
<1>5. ASSUME UNCHANGED searchVars
      PROVE  SearchInv'
  BY <1>5 DEF searchVars, SearchTypeOK, Walks, Explored, Outcome, waiting, isWalk, ends
<1> QED
  BY <1>1, <1>2, <1>3, <1>4, <1>5 DEF SearchNext

\* SearchInv holds throughout every search (escalation.go:155-178, nhi.go:88-111).
THEOREM SearchInvariant == SearchSpec => []SearchInv
<1>1. SearchInit => SearchInv
  BY SearchInvInit
<1>2. SearchInv /\ [SearchNext]_searchVars => SearchInv'
  BY SearchInvStep
<1> QED
  BY <1>1, <1>2, PTL DEF SearchSpec

\* What is searched is always a graph over principals and targets, whatever roles
\* and bindings the cluster has (escalation.go:43-105).
THEOREM ClusterIsSearched == RBACSpec => SearchSpec
<1>1. RBACInit => buildEscalationEdges \in Graphs
  <2> SUFFICES ASSUME RBACInit, NEW s \in Principals
               PROVE  steps(s) \subseteq Principals \cup Targets
    BY DEF buildEscalationEdges, Graphs
  <2>1. \A b \in bindings : b.subjects \subseteq Principals
    BY RosterAssumption DEF RBACInit
  <2>2. serviceAccountSubjectKeys \subseteq Principals
    BY <2>1 DEF serviceAccountSubjectKeys, granted, grants, resolved
  <2>3. steals(s, SubjectPermissions(s)) \subseteq Principals
    BY <2>2 DEF steals
  <2> QED BY <2>3 DEF steps, Targets
<1>2. RBACInit => SearchInit
  BY <1>1 DEF RBACInit, SearchInit, ServiceAccounts
<1>3. [RBACNext]_rbacVars => [SearchNext]_searchVars
  BY DEF RBACNext, rbacVars
<1> QED
  BY <1>2, <1>3, PTL DEF RBACSpec, SearchSpec

\* What the invariant says of a path that is reported, and of none.
LEMMA InvariantTells ==
  ASSUME SearchInv
  PROVE  PathIsReal /\ NoPathIsCertain
<1>1. ASSUME done, found # None, ~scoring
      PROVE  isWalk(trail[Head(queue)], Head(queue)) /\ found \in edges[Head(queue)]
  <2>1. queue # <<>> /\ found \in edges[Head(queue)]
    BY <1>1 DEF SearchInv, Outcome
  <2>2. Head(queue) = queue[1] /\ 1 \in 1 .. Len(queue)
    BY <2>1 DEF SearchInv, SearchTypeOK
  <2>3. Head(queue) \in visited
    BY <2>2 DEF SearchInv, Walks, waiting
  <2> QED BY <2>1, <2>3 DEF SearchInv, Walks
<1>2. ASSUME done, found = None, NEW n \in visited
      PROVE  start \in visited /\ edges[n] \subseteq visited
  <2>1. queue = <<>> /\ waiting = {}
    BY <1>2 DEF SearchInv, Outcome, waiting
  <2>2. edges[n] \cap Principals \subseteq visited /\ edges[n] \cap Targets = {}
    BY <1>2, <2>1 DEF SearchInv, Explored, ends
  <2>3. edges[n] \subseteq Principals \cup Targets
    BY DEF SearchInv, SearchTypeOK, Graphs
  <2> QED BY <2>2, <2>3 DEF SearchInv, Walks
<1> QED
  BY <1>1, <1>2 DEF PathIsReal, NoPathIsCertain, SearchInv, Walks

\* escalation.go:17-19: every hop of a reported path is a step some principal
\* can take, and the last one ends at the target.
THEOREM ReportedPathIsReal == RBACSpec => []PathIsReal
<1>1. SearchInv => PathIsReal
  BY InvariantTells
<1> QED
  BY <1>1, SearchInvariant, ClusterIsSearched, PTL

\* escalation.go:155-178, nhi.go:88-111: both searches are complete.  One that finds
\* nothing leaves a set of principals that holds the start and from which no
\* step leads out, to a target or to anybody else.
THEOREM NothingIsMissed == RBACSpec => []NoPathIsCertain
<1>1. SearchInv => NoPathIsCertain
  BY InvariantTells
<1> QED
  BY <1>1, SearchInvariant, ClusterIsSearched, PTL

(***************************************************************************)
(* The searches are exact: the queue is sorted by the length of the ways,  *)
(* so that whoever is expanded was met by a shortest one.                  *)
(***************************************************************************)
\* A set of numbers has a least one.
LEMMA LeastOf ==
  ASSUME NEW S, S \subseteq Nat, S # {}
  PROVE  \E m \in S : \A k \in S : m <= k
<1>1. PICK m \in S : \A k \in S : ~(<<k, m>> \in OpToRel(<, Nat))
  BY NatLessThanWellFounded, WFMin
<1>2. ASSUME NEW k \in S, ~(m <= k) PROVE FALSE
  <2>1. k < m /\ k \in Nat /\ m \in Nat
    BY <1>2
  <2> QED
    BY <1>1, <2>1 DEF OpToRel
<1> QED
  BY <1>2

\* One step from a set of principals.
spreadOf(S) == S \cup UNION {edges[n] \cap Principals : n \in S}

most == Cardinality(Principals)

\* The recursion by which `within` counts steps defines a function.
LEMMA IterationIsDefined ==
  ASSUME NEW n \in Nat
  PROVE  \E f : f = [k \in 0..n |-> IF k = 0 THEN {start} ELSE spreadOf(f[k - 1])]
<1> DEFINE counts(f, m) == f = [k \in 0..m |-> IF k = 0 THEN {start} ELSE spreadOf(f[k - 1])]
           counted(m) == \E f : counts(f, m)
           bad == {m \in 0..n : ~counted(m)}
<1> HIDE DEF counts, counted
<1>1. ASSUME bad # {} PROVE FALSE
  <2>1. PICK m \in 0..n : m \in bad /\ \A k \in bad : m <= k
    <3>1. bad \subseteq Nat /\ bad \subseteq 0..n
      OBVIOUS
    <3> HIDE DEF bad
    <3> QED
      BY <1>1, <3>1, LeastOf
  <2>2. CASE m = 0
    <3>1. counts([k \in 0..0 |-> {start}], 0)
      BY DEF counts
    <3> QED
      BY <2>1, <2>2, <3>1 DEF counted
  <2>3. CASE m # 0
    <3>1. m - 1 \in 0..n /\ m \in 0..m /\ m - 1 \in 0..m /\ m - 1 \notin bad
      <4>1. m - 1 \in 0..n /\ m \in 0..m /\ m - 1 \in 0..m /\ ~(m <= m - 1)
        BY <2>3
      <4> HIDE DEF bad
      <4> QED
        BY <2>1, <4>1
    <3>2. PICK g : counts(g, m - 1)
      BY <3>1 DEF counted
    <3> DEFINE f == [k \in 0..m |-> IF k = m THEN spreadOf(g[m - 1]) ELSE g[k]]
    <3> HIDE DEF spreadOf
    <3>3. ASSUME NEW k \in 0..m
          PROVE  f[k] = IF k = 0 THEN {start} ELSE spreadOf(f[k - 1])
      <4>1. CASE k = m
        <5>1. m - 1 # m
          OBVIOUS
        <5>2. f[m - 1] = g[m - 1] /\ f[m] = spreadOf(g[m - 1])
          BY <3>1, <5>1
        <5> HIDE DEF f
        <5> QED
          BY <2>3, <4>1, <5>2
      <4>2. CASE k # m
        <5>1. k \in 0..(m - 1) /\ f[k] = g[k] /\ (k # 0 => f[k - 1] = g[k - 1])
          BY <3>1, <4>2
        <5> HIDE DEF f
        <5> QED
          BY <3>2, <5>1 DEF counts
      <4> QED
        BY <4>1, <4>2
    <3>4. f = [k \in 0..m |-> IF k = 0 THEN {start} ELSE spreadOf(f[k - 1])]
      <4>1. f = [k \in 0..m |-> f[k]]
        OBVIOUS
      <4> HIDE DEF f
      <4> QED
        BY <3>3, <4>1
    <3> HIDE DEF f
    <3>5. counts(f, m)
      BY <3>4 DEF counts
    <3> QED
      BY <2>1, <3>5 DEF counted
  <2> QED
    BY <2>2, <2>3
<1>2. counted(n)
  <2>1. n \in 0..n
    OBVIOUS
  <2> QED
    BY <1>1, <2>1
<1> QED
  BY <1>2 DEF counted, counts

LEMMA MostIsNatural == most \in Nat
  BY FS_CardinalityType, SearchAssumption DEF most

\* What `within` is, step by step.
LEMMA WithinIs ==
  within[0] = {start} /\ \A k \in 1..most : within[k] = spreadOf(within[k - 1])
<1>1. \E f : f = [k \in 0..most |-> IF k = 0 THEN {start} ELSE spreadOf(f[k - 1])]
  BY MostIsNatural, IterationIsDefined
<1>2. within = CHOOSE f : f = [k \in 0..most |-> IF k = 0 THEN {start} ELSE spreadOf(f[k - 1])]
  BY DEF within, most, spreadOf
<1>3. within = [k \in 0..most |-> IF k = 0 THEN {start} ELSE spreadOf(within[k - 1])]
  BY <1>1, <1>2
<1>4. 0 \in 0..most /\ \A k \in 1..most : k \in 0..most /\ k # 0
  BY MostIsNatural
<1> QED
  BY <1>3, <1>4

\* Sets that grow with the steps hold what is so many steps away.
LEMMA WithinStays ==
  ASSUME NEW m \in 0..most, NEW B, start \in B[0], \A k \in 1..m : spreadOf(B[k - 1]) \subseteq B[k]
  PROVE  \A k \in 0..m : within[k] \subseteq B[k]
<1> DEFINE bad == {k \in 0..m : ~(within[k] \subseteq B[k])}
<1>1. ASSUME bad # {} PROVE FALSE
  <2>1. PICK k \in 0..m : k \in bad /\ \A j \in bad : k <= j
    <3>1. bad \subseteq Nat /\ bad \subseteq 0..m
      BY MostIsNatural
    <3> HIDE DEF bad
    <3> QED
      BY <1>1, <3>1, LeastOf
  <2>2. k # 0 /\ ~(within[k] \subseteq B[k])
    BY <2>1, WithinIs
  <2>3. k - 1 \in 0..m /\ k \in 1..m /\ k \in 1..most /\ ~(k <= k - 1)
    BY <2>2, MostIsNatural
  <2>4. within[k - 1] \subseteq B[k - 1]
    BY <2>1, <2>3
  <2>5. within[k] = spreadOf(within[k - 1])
    BY <2>3, WithinIs
  <2>6. spreadOf(within[k - 1]) \subseteq spreadOf(B[k - 1])
    BY <2>4 DEF spreadOf
  <2> QED
    BY <2>2, <2>3, <2>5, <2>6
<1> QED
  BY <1>1

\* Fewer steps lead less far.
LEMMA WithinGrows ==
  ASSUME NEW m \in 0..most, NEW j \in 0..m
  PROVE  within[j] \subseteq within[m]
<1> DEFINE bad == {k \in 0..m : j <= k /\ ~(within[j] \subseteq within[k])}
<1>1. ASSUME bad # {} PROVE FALSE
  <2>1. PICK k \in 0..m : k \in bad /\ \A i \in bad : k <= i
    <3>1. bad \subseteq Nat /\ bad \subseteq 0..m
      BY MostIsNatural
    <3> HIDE DEF bad
    <3> QED
      BY <1>1, <3>1, LeastOf
  <2>2. k # j /\ j <= k /\ ~(within[j] \subseteq within[k])
    BY <2>1
  <2>3. k - 1 \in 0..m /\ j <= k - 1 /\ k \in 1..most /\ ~(k <= k - 1)
    BY <2>2, MostIsNatural
  <2>4. within[j] \subseteq within[k - 1]
    BY <2>1, <2>3
  <2>5. within[k] = spreadOf(within[k - 1])
    BY <2>3, WithinIs
  <2> QED
    BY <2>2, <2>4, <2>5 DEF spreadOf
<1>2. m \in 0..m /\ j <= m
  BY MostIsNatural
<1> QED
  BY <1>1, <1>2

\* Whoever ends a walk is as many steps away as it has.
LEMMA WalkIsWithin ==
  ASSUME NEW n, NEW w \in Seq(Principals), isWalk(w, n), Len(w) <= most
  PROVE  Len(w) - 1 \in 0..most /\ n \in within[Len(w) - 1]
<1>1. Len(w) \in Nat \ {0} /\ w[1] = start /\ w[Len(w)] = n /\ \A i \in 1..Len(w) - 1 : w[i + 1] \in edges[w[i]]
  BY DEF isWalk
<1> DEFINE L == Len(w)
           bad == {k \in 0..L - 1 : w[k + 1] \notin within[k]}
<1>0. L \in Nat \ {0} /\ L <= most /\ \A i \in 1..L : w[i] \in Principals
  BY <1>1
<1>3. w[1] = start /\ w[L] = n /\ \A i \in 1..L - 1 : w[i + 1] \in edges[w[i]]
  BY <1>1
<1> HIDE DEF L
<1>2. ASSUME bad # {} PROVE FALSE
  <2>1. PICK k \in 0..L - 1 : k \in bad /\ \A i \in bad : k <= i
    <3>1. bad \subseteq Nat /\ bad \subseteq 0..L - 1
      BY <1>0
    <3> HIDE DEF bad
    <3> QED
      BY <1>2, <3>1, LeastOf
  <2>2. k # 0 /\ w[k + 1] \notin within[k]
    BY <2>1, <1>3, WithinIs
  <2>3. k - 1 \in 0..L - 1 /\ k \in 1..most /\ ~(k <= k - 1) /\ (k - 1) + 1 = k /\ k \in 1..L - 1 /\ k + 1 \in 1..L
    BY <2>2, <1>0, MostIsNatural
  <2>4. w[k] \in within[k - 1]
    BY <2>1, <2>3
  <2>5. within[k] = spreadOf(within[k - 1])
    BY <2>3, WithinIs
  <2>6. w[k + 1] \in edges[w[k]] \cap Principals
    BY <2>3, <1>0, <1>3
  <2> QED
    BY <2>2, <2>4, <2>5, <2>6 DEF spreadOf
<1>4. L - 1 \in 0..L - 1 /\ (L - 1) + 1 = L /\ L - 1 \in 0..most
  BY <1>0, MostIsNatural
<1>5. n \in within[L - 1]
  BY <1>2, <1>3, <1>4
<1> QED
  BY <1>4, <1>5 DEF L

\* How many principals the way to one has.
far(n) == Len(trail[n])
farNow(n) == Len(trail'[n])

\* No way comes by one principal twice.
Simple ==
  \A n \in visited :
    /\ \A i \in 1..far(n) : trail[n][i] \in visited
    /\ \A i, j \in 1..far(n) : trail[n][i] = trail[n][j] => i = j

\* The queue is sorted by the length of the ways, which differ by one at most.
Sorted ==
  \A i, j \in 1..Len(queue) : i <= j =>
    far(queue[i]) <= far(queue[j]) /\ far(queue[j]) <= far(queue[i]) + 1

\* Who was expanded is no farther than anybody in the queue, and has no neighbour
\* more than a step farther.
Near ==
  \A n \in visited \ waiting :
    /\ queue # <<>> => far(n) <= far(queue[1])
    /\ \A m \in edges[n] \cap Principals : m \in visited /\ far(m) <= far(n) + 1

\* What the target that was found says of the principals met.
Tells ==
  /\ found # None => \E n \in visited : found \in edges[n]
  /\ scoring => (done => queue = <<>>) /\ \A n \in visited \ waiting : Admin \in edges[n] => found = Admin
  /\ ~scoring => \A n \in visited \ waiting : ends(n) = {}

ExactInv == SearchInv /\ Simple /\ Sorted /\ Near /\ Tells

\* How far the way to anybody visited is.
LEMMA FarIsCount ==
  ASSUME SearchTypeOK, Walks, NEW n \in visited
  PROVE  far(n) \in Nat \ {0} /\ trail[n] \in Seq(Principals) /\ n \in Principals
<1>1. trail[n] \in Seq(Principals) /\ trail[n] # <<>> /\ n \in Principals
  BY DEF SearchTypeOK, Walks, isWalk
<1> QED
  BY <1>1 DEF far, farNow

\* What the queue holds after its first was expanded, place by place.
LEMMA SpreadPlaces ==
  ASSUME SearchTypeOK, Walks, queue # <<>>, spread(Head(queue))
  PROVE  /\ Head(queue) = queue[1] /\ 1 \in 1..Len(queue)
         /\ \A i \in 1..Len(queue') :
              IF i <= Len(queue) - 1 THEN i + 1 \in 1..Len(queue) /\ queue'[i] = queue[i + 1]
              ELSE queue'[i] \in fresh(Head(queue))
<1> DEFINE cur == Head(queue)
           F == fresh(cur)
           t == Tail(queue)
<1>1. queue \in Seq(Principals) /\ Len(queue) \in Nat \ {0} /\ cur = queue[1] /\ cur \in Principals
  BY DEF SearchTypeOK
<1>2. F \subseteq Principals
  BY <1>1 DEF fresh, SearchTypeOK, Graphs
<1>3. PICK new \in orders(F) : queue' = t \o new
  BY DEF spread
<1>4. new \in Seq(F) /\ {new[i] : i \in 1..Len(new)} = F
  BY <1>2, <1>3, OrderIsSequence
<1>5. /\ t \in Seq(Principals) /\ Len(t) = Len(queue) - 1
      /\ \A i \in 1..Len(t) : t[i] = queue[i + 1]
  BY <1>1
<1>6. new \in Seq(Principals) /\ Len(new) \in Nat
  BY <1>2, <1>4
<1> HIDE DEF t, F
<1>7. /\ Len(queue') = Len(t) + Len(new)
      /\ \A i \in 1..Len(queue') : queue'[i] = IF i <= Len(t) THEN t[i] ELSE new[i - Len(t)]
  BY <1>3, <1>5, <1>6
<1>8. ASSUME NEW i \in 1..Len(queue')
      PROVE  IF i <= Len(queue) - 1 THEN i + 1 \in 1..Len(queue) /\ queue'[i] = queue[i + 1] ELSE queue'[i] \in F
  <2>1. CASE i <= Len(queue) - 1
    <3>1. i \in 1..Len(t) /\ i + 1 \in 1..Len(queue)
      BY <2>1, <1>1, <1>5
    <3> QED
      BY <2>1, <3>1, <1>5, <1>7
  <2>2. CASE ~(i <= Len(queue) - 1)
    <3>1. i - Len(t) \in 1..Len(new) /\ ~(i <= Len(t))
      BY <2>2, <1>1, <1>5, <1>6, <1>7
    <3>2. queue'[i] = new[i - Len(t)]
      BY <3>1, <1>7
    <3> QED
      BY <2>2, <3>1, <3>2, <1>4
  <2> QED
    BY <2>1, <2>2
<1>9. 1 \in 1..Len(queue)
  BY <1>1
<1> QED
  BY <1>1, <1>8, <1>9 DEF F

\* What expanding the first of the queue makes of the ways.
LEMMA SpreadWays ==
  ASSUME SearchTypeOK, Walks, queue # <<>>, spread(Head(queue))
  PROVE  LET cur == Head(queue)
         IN /\ cur \in visited /\ fresh(cur) \cap visited = {} /\ visited' = visited \cup fresh(cur)
            /\ \A n \in visited : trail'[n] = trail[n] /\ farNow(n) = far(n)
            /\ \A n \in fresh(cur) : trail'[n] = Append(trail[cur], n) /\ farNow(n) = far(cur) + 1
<1> DEFINE cur == Head(queue)
<1>1. /\ cur \in visited /\ visited' = visited \cup fresh(cur)
      /\ trail' = [n \in visited' |-> IF n \in visited THEN trail[n] ELSE Append(trail[cur], n)]
  BY SpreadEffect
<1>2. fresh(cur) \cap visited = {}
  BY DEF fresh
<1>3. trail[cur] \in Seq(Principals) /\ fresh(cur) \subseteq Principals
  BY <1>1, SpreadEffect, FarIsCount
<1>4. ASSUME NEW n \in visited PROVE trail'[n] = trail[n] /\ farNow(n) = far(n)
  BY <1>1 DEF far, farNow
<1>5. ASSUME NEW n \in fresh(cur) PROVE trail'[n] = Append(trail[cur], n) /\ farNow(n) = far(cur) + 1
  <2>1. trail'[n] = Append(trail[cur], n)
    BY <1>1, <1>2, <1>5
  <2>2. Len(Append(trail[cur], n)) = Len(trail[cur]) + 1
    BY <1>3
  <2>3. farNow(n) = Len(trail'[n])
    BY DEF farNow
  <2> QED
    BY <2>1, <2>2, <2>3 DEF far
<1> QED
  BY <1>1, <1>2, <1>4, <1>5

\* A new way is one to a principal that no way came by.
LEMMA SpreadKeepsSimple ==
  ASSUME SearchTypeOK, Walks, Simple, queue # <<>>, spread(Head(queue))
  PROVE  Simple'
<1> DEFINE cur == Head(queue)
<1>1. /\ cur \in visited /\ fresh(cur) \cap visited = {} /\ visited' = visited \cup fresh(cur)
      /\ \A n \in visited : trail'[n] = trail[n] /\ farNow(n) = far(n)
      /\ \A n \in fresh(cur) : trail'[n] = Append(trail[cur], n) /\ farNow(n) = far(cur) + 1
  BY SpreadWays
<1>2. far(cur) \in Nat \ {0} /\ trail[cur] \in Seq(Principals)
  BY <1>1, FarIsCount
<1>3. ASSUME NEW n \in visited'
      PROVE  /\ \A i \in 1..farNow(n) : trail'[n][i] \in visited'
             /\ \A i, j \in 1..farNow(n) : trail'[n][i] = trail'[n][j] => i = j
  <2>1. CASE n \in visited
    BY <2>1, <1>1 DEF Simple
  <2>2. CASE n \in fresh(cur)
    <3>1. /\ \A i \in 1..far(cur) : trail[cur][i] \in visited
          /\ \A i, j \in 1..far(cur) : trail[cur][i] = trail[cur][j] => i = j
      BY <1>1 DEF Simple
    <3>2. /\ \A i \in 1..far(cur) : trail'[n][i] = trail[cur][i]
          /\ trail'[n][far(cur) + 1] = n
      <4>1. Append(trail[cur], n)[Len(trail[cur]) + 1] = n
            /\ \A i \in 1..Len(trail[cur]) : Append(trail[cur], n)[i] = trail[cur][i]
        BY <1>2
      <4> QED
        BY <4>1, <2>2, <1>1 DEF far
    <3>3. farNow(n) = far(cur) + 1 /\ n \notin visited /\ n \in visited'
      BY <2>2, <1>1
    <3>4. \A i \in 1..farNow(n) : i \in 1..far(cur) \/ i = far(cur) + 1
      BY <3>3, <1>2
    <3> QED
      BY <3>1, <3>2, <3>3, <3>4, <1>1, SMTT(30)
  <2> QED
    BY <2>1, <2>2, <1>1
<1>4. Simple' = (\A n \in visited' : (/\ \A i \in 1..farNow(n) : trail'[n][i] \in visited'
                                      /\ \A i, j \in 1..farNow(n) : trail'[n][i] = trail'[n][j] => i = j))
  BY DEF Simple, far, farNow
<1> QED
  BY <1>3, <1>4

\* The queue stays sorted.
LEMMA SpreadKeepsSorted ==
  ASSUME SearchTypeOK, Walks, Sorted, queue # <<>>, spread(Head(queue))
  PROVE  /\ Sorted'
         /\ \A i \in 1..Len(queue') : far(queue[1]) <= farNow(queue'[i]) /\ farNow(queue'[i]) \in Nat
<1> DEFINE cur == Head(queue)
<1>1. /\ cur \in visited /\ fresh(cur) \cap visited = {} /\ visited' = visited \cup fresh(cur)
      /\ \A n \in visited : trail'[n] = trail[n] /\ farNow(n) = far(n)
      /\ \A n \in fresh(cur) : trail'[n] = Append(trail[cur], n) /\ farNow(n) = far(cur) + 1
  BY SpreadWays
<1>2. /\ cur = queue[1] /\ 1 \in 1..Len(queue)
      /\ \A i \in 1..Len(queue') :
              IF i <= Len(queue) - 1 THEN i + 1 \in 1..Len(queue) /\ queue'[i] = queue[i + 1]
              ELSE queue'[i] \in fresh(cur)
  BY SpreadPlaces
<1>3. \A i \in 1..Len(queue) : queue[i] \in visited /\ far(queue[i]) \in Nat
  BY FarIsCount DEF Walks, waiting
<1>4. Len(queue) \in Nat /\ Len(queue') \in Nat
  BY SpreadEffect DEF SearchTypeOK
<1> DEFINE L == Len(queue)
<1> HIDE DEF cur, L
<1>5. ASSUME NEW i \in 1..Len(queue')
      PROVE  /\ i <= L - 1 => i + 1 \in 1..L /\ farNow(queue'[i]) = far(queue[i + 1])
             /\ ~(i <= L - 1) => farNow(queue'[i]) = far(cur) + 1
  <2>1. CASE i <= L - 1
    <3>1. i + 1 \in 1..L /\ queue'[i] = queue[i + 1]
      BY <2>1, <1>2 DEF L
    <3>2. queue[i + 1] \in visited
      BY <3>1, <1>3 DEF L
    <3> QED
      BY <2>1, <3>1, <3>2, <1>1
  <2>2. CASE ~(i <= L - 1)
    <3>1. queue'[i] \in fresh(cur)
      BY <2>2, <1>2 DEF L
    <3> QED
      BY <2>2, <3>1, <1>1
  <2> QED
    BY <2>1, <2>2
<1>6. \A i, j \in 1..L : i <= j => far(queue[i]) <= far(queue[j]) /\ far(queue[j]) <= far(queue[i]) + 1
  BY DEF Sorted, L
<1>7. \A i \in 1..L : far(queue[i]) \in Nat /\ far(cur) <= far(queue[i]) /\ far(queue[i]) <= far(cur) + 1
  BY <1>2, <1>3, <1>6, <1>4 DEF L
<1>8. ASSUME NEW i \in 1..Len(queue'), NEW j \in 1..Len(queue'), i <= j
      PROVE  farNow(queue'[i]) <= farNow(queue'[j]) /\ farNow(queue'[j]) <= farNow(queue'[i]) + 1
  <2>1. L \in Nat /\ far(cur) \in Nat
    BY <1>2, <1>3, <1>4 DEF L
  <2>2. CASE j <= L - 1
    <3>1. i <= L - 1 /\ i + 1 <= j + 1
      BY <2>1, <2>2, <1>4, <1>8
    <3> QED
      BY <2>2, <3>1, <1>5, <1>6
  <2>3. CASE ~(j <= L - 1) /\ i <= L - 1
    BY <2>1, <2>3, <1>5, <1>7
  <2>4. CASE ~(j <= L - 1) /\ ~(i <= L - 1)
    BY <2>1, <2>4, <1>5
  <2> QED
    BY <2>2, <2>3, <2>4
<1>9. Sorted' = (\A i, j \in 1..Len(queue') : i <= j =>
    farNow(queue'[i]) <= farNow(queue'[j]) /\ farNow(queue'[j]) <= farNow(queue'[i]) + 1)
  BY DEF Sorted, far, farNow
<1>10. ASSUME NEW i \in 1..Len(queue')
       PROVE  far(queue[1]) <= farNow(queue'[i]) /\ farNow(queue'[i]) \in Nat
  <2>1. far(cur) \in Nat
    BY <1>2, <1>3
  <2>2. far(cur) <= farNow(queue'[i]) /\ farNow(queue'[i]) \in Nat
    BY <2>1, <1>5, <1>7
  <2> QED
    BY <2>2, <1>2
<1> QED
  BY <1>8, <1>9, <1>10

\* Who is expanded stays near.
LEMMA SpreadKeepsNear ==
  ASSUME SearchTypeOK, Walks, Sorted, Near, queue # <<>>, spread(Head(queue)), UNCHANGED edges
  PROVE  Near'
<1> DEFINE cur == Head(queue)
<1>1. /\ cur \in visited /\ fresh(cur) \cap visited = {} /\ visited' = visited \cup fresh(cur)
      /\ \A n \in visited : trail'[n] = trail[n] /\ farNow(n) = far(n)
      /\ \A n \in fresh(cur) : trail'[n] = Append(trail[cur], n) /\ farNow(n) = far(cur) + 1
  BY SpreadWays
<1>2. cur = queue[1] /\ 1 \in 1..Len(queue)
  BY SpreadPlaces
<1>3. waiting \cup fresh(cur) \subseteq waiting' \cup {cur}
  BY SpreadEffect
<1>4. \A n \in visited : far(n) \in Nat
  BY FarIsCount
<1>5. \A n \in waiting : n \in visited /\ far(n) <= far(cur) + 1
  <2>1. \A i \in 1..Len(queue) : 1 <= i
    BY DEF SearchTypeOK
  <2> QED
    BY <1>2, <2>1 DEF Sorted, waiting, Walks
<1>6. \A n \in visited \ waiting : far(n) <= far(cur)
  BY <1>2 DEF Near
<1>7. queue' # <<>> => far(cur) <= farNow(queue'[1]) /\ farNow(queue'[1]) \in Nat
  <2>1. queue' # <<>> => 1 \in 1..Len(queue')
    BY SpreadEffect
  <2> QED
    BY <2>1, <1>2, SpreadKeepsSorted
<1> HIDE DEF cur
<1>8. ASSUME NEW n \in visited' \ waiting'
      PROVE  /\ queue' # <<>> => farNow(n) <= farNow(queue'[1])
             /\ \A m \in edges[n] \cap Principals : m \in visited' /\ farNow(m) <= farNow(n) + 1
  <2>1. n \in visited /\ farNow(n) = far(n) /\ (n = cur \/ n \in visited \ waiting)
    BY <1>1, <1>3
  <2>2. far(n) \in Nat /\ far(cur) \in Nat /\ far(n) <= far(cur)
    BY <2>1, <1>1, <1>4, <1>6
  <2>3. queue' # <<>> => farNow(n) <= farNow(queue'[1])
    BY <2>1, <2>2, <1>7
  <2>4. ASSUME NEW m \in edges[n] \cap Principals PROVE m \in visited' /\ farNow(m) <= farNow(n) + 1
    <3>1. CASE n # cur
      <4>1. m \in visited /\ far(m) <= far(n) + 1
        BY <2>1, <3>1 DEF Near
      <4> QED
        BY <4>1, <2>1, <1>1
    <3>2. CASE n = cur /\ m \notin visited
      <4>1. m \in fresh(cur)
        BY <3>2, SearchAssumption DEF fresh, Targets
      <4> QED
        BY <3>2, <4>1, <1>1, <2>1, <2>2
    <3>3. CASE n = cur /\ m \in visited
      <4>1. far(m) <= far(cur) + 1
        <5>1. CASE m \in waiting
          BY <5>1, <1>5
        <5>2. CASE m \notin waiting
          <6>1. far(m) <= far(cur) /\ far(m) \in Nat /\ far(cur) \in Nat
            BY <5>2, <3>3, <1>1, <1>4, <1>6
          <6> QED
            BY <6>1
        <5> QED
          BY <5>1, <5>2
      <4> QED
        BY <4>1, <3>3, <1>1, <2>1
    <3> QED
      BY <3>1, <3>2, <3>3
  <2> QED
    BY <2>3, <2>4
<1>9. Near' = (\A n \in visited' \ waiting' :
             (/\ queue' # <<>> => farNow(n) <= farNow(queue'[1])
              /\ \A m \in edges'[n] \cap Principals : m \in visited' /\ farNow(m) <= farNow(n) + 1))
  BY DEF Near, far, farNow
<1> QED
  BY <1>8, <1>9

\* An expansion keeps what the target says: the score looks at all targets of whom it
\* expands, the path search expands nobody who has one.
LEMMA SpreadTells ==
  ASSUME SearchTypeOK, Walks, Tells, Spread \/ Score
  PROVE  Tells'
<1> DEFINE cur == Head(queue)
<1>1. /\ ~done /\ ~done' /\ queue # <<>> /\ spread(cur) /\ edges' = edges /\ scoring' = scoring
      /\ ~scoring => Spread
      /\ scoring => Score
  BY DEF Spread, Score
<1>2. /\ cur \in visited /\ visited' = visited \cup fresh(cur)
      /\ waiting \cup fresh(cur) \subseteq waiting' \cup {cur}
  BY <1>1, SpreadEffect
<1> HIDE DEF cur
<1>3. \A n \in visited' \ waiting' : n = cur \/ n \in visited \ waiting
  BY <1>2
<1>4. CASE ~scoring
  <2>1. found' = found /\ ends(cur) = {}
    BY <1>1, <1>4 DEF Spread, cur
  <2> QED
    BY <1>1, <1>2, <1>3, <1>4, <2>1 DEF Tells, ends
<1>5. CASE scoring
  <2>1. found' = IF ends(cur) # {} /\ (found = None \/ Admin \in ends(cur)) THEN foremost(ends(cur)) ELSE found
    BY <1>1, <1>5 DEF Score, cur
  <2>2. found' = found \/ found' \in edges[cur]
    BY <2>1 DEF foremost, ends, Targets
  <2>3. Admin \in edges[cur] => found' = Admin
    BY <2>1 DEF foremost, ends, Targets
  <2>4. found = Admin => found' = Admin
    BY <2>1, SearchAssumption DEF foremost
  <2>5. found' # None => \E n \in visited' : found' \in edges[n]
    BY <1>2, <2>2 DEF Tells
  <2>6. \A n \in visited' \ waiting' : Admin \in edges[n] => found' = Admin
    BY <1>3, <1>5, <2>3, <2>4 DEF Tells
  <2> QED
    BY <1>1, <1>5, <2>5, <2>6 DEF Tells
<1> QED
  BY <1>4, <1>5

LEMMA ExactInit ==
  ASSUME SearchInit
  PROVE  ExactInv
<1>1. SearchInv
  BY SearchInvInit
<1>2. PICK s \in Principals, score \in BOOLEAN : Begin(s, score)
  BY DEF SearchInit
<1>3. visited = {s} /\ queue = <<s>> /\ trail = [n \in {s} |-> <<s>>] /\ found = None /\ done = FALSE
  BY <1>2 DEF Begin
<1>4. waiting = {s} /\ Len(queue) = 1 /\ queue[1] = s
  BY <1>3 DEF waiting
<1>5. trail[s] = <<s>> /\ far(s) = 1 /\ trail[s][1] = s
  BY <1>3 DEF far
<1>6. Simple
  BY <1>3, <1>5 DEF Simple
<1>7. Sorted
  BY <1>4, <1>5 DEF Sorted
<1>8. Near /\ Tells
  BY <1>3, <1>4 DEF Near, Tells
<1> QED
  BY <1>1, <1>6, <1>7, <1>8 DEF ExactInv

\* Every step of a search keeps ExactInv.
LEMMA ExactStep ==
  ASSUME ExactInv, [SearchNext]_searchVars
  PROVE  ExactInv'
<1>0. SearchInv /\ SearchTypeOK /\ Walks /\ Simple /\ Sorted /\ Near /\ Tells
  BY DEF ExactInv, SearchInv
<1>1. SearchInv'
  BY <1>0, SearchInvStep
<1>2. CASE Arrive \/ GiveUp \/ UNCHANGED searchVars
  <2>0. UNCHANGED <<edges, visited, queue, trail>>
    BY <1>2 DEF Arrive, GiveUp, searchVars
  <2>1. Simple' /\ Sorted' /\ Near' /\ waiting' = waiting
    BY <1>0, <2>0 DEF Simple, Sorted, Near, far, waiting
  <2>2. Tells'
    <3>1. CASE Arrive
      <4>1. queue # <<>> /\ ends(Head(queue)) # {} /\ ~scoring /\ scoring' = scoring /\ found' = foremost(ends(Head(queue)))
        BY <3>1 DEF Arrive
      <4>2. Head(queue) \in visited
        <5>1. 1 \in 1..Len(queue) /\ Head(queue) = queue[1]
          BY <4>1, <1>0 DEF SearchTypeOK
        <5> QED
          BY <5>1, <1>0 DEF Walks, waiting
      <4>3. found' \in edges[Head(queue)]
        BY <4>1 DEF foremost, ends, Targets
      <4> QED
        BY <4>1, <4>2, <4>3, <2>1, <1>0, <2>0 DEF Tells, ends
    <3>2. CASE GiveUp
      BY <3>2, <2>1, <1>0, <2>0 DEF GiveUp, Tells, ends
    <3>3. CASE UNCHANGED searchVars
      BY <3>3, <2>1, <1>0 DEF searchVars, Tells, ends
    <3> QED
      BY <1>2, <3>1, <3>2, <3>3
  <2> QED
    BY <1>1, <2>1, <2>2 DEF ExactInv
<1>3. CASE Spread \/ Score
  <2>1. queue # <<>> /\ spread(Head(queue)) /\ UNCHANGED edges
    BY <1>3 DEF Spread, Score
  <2>2. Simple' /\ Sorted' /\ Near'
    BY <2>1, <1>0, SpreadKeepsSimple, SpreadKeepsSorted, SpreadKeepsNear
  <2>3. Tells'
    BY <1>0, <1>3, SpreadTells
  <2> QED
    BY <1>1, <2>2, <2>3 DEF ExactInv
<1> QED
  BY <1>2, <1>3 DEF SearchNext

\* A way without repetition is no longer than there are principals.
LEMMA WaysAreShort ==
  ASSUME SearchTypeOK, Walks, Simple, NEW n \in visited
  PROVE  far(n) <= most
<1> DEFINE w == trail[n]
<1>1. far(n) \in Nat /\ w \in Seq(Principals) /\ far(n) = Len(w)
  BY FarIsCount DEF far
<1>2. w \in [1..far(n) -> Principals]
  BY <1>1
<1>3. \A i, j \in 1..far(n) : w[i] = w[j] => i = j
  BY DEF Simple
<1>4. w \in Injection(1..far(n), Principals)
  BY <1>2, <1>3, Fun_IsInj
<1>5. Cardinality(1..far(n)) <= Cardinality(Principals)
  BY <1>4, FS_Injection, SearchAssumption
<1>6. Cardinality(1..far(n)) = far(n)
  <2>1. 1 \in Int /\ far(n) \in Int
    BY <1>1
  <2>2. Cardinality(1..far(n)) = IF 1 > far(n) THEN 0 ELSE far(n) - 1 + 1
    BY <2>1, FS_Interval
  <2> QED
    BY <1>1, <2>2
<1> QED
  BY <1>5, <1>6 DEF most

walked == within[most - 1]

\* Whoever is visited is reached, by as many steps as the way to it has.
LEMMA VisitedIsReached ==
  ASSUME ExactInv, NEW n \in visited
  PROVE  /\ far(n) - 1 \in 0..most - 1 /\ most - 1 \in 0..most
         /\ n \in within[far(n) - 1] /\ n \in walked
<1>1. far(n) <= most /\ far(n) \in Nat \ {0} /\ trail[n] \in Seq(Principals)
  BY WaysAreShort, FarIsCount DEF ExactInv, SearchInv
<1>2. isWalk(trail[n], n) /\ Len(trail[n]) <= most
  BY <1>1 DEF ExactInv, SearchInv, Walks, far
<1>3. n \in within[far(n) - 1]
  BY <1>1, <1>2, WalkIsWithin DEF far
<1>4. most - 1 \in 0..most /\ far(n) - 1 \in 0..most - 1
  BY <1>1, MostIsNatural
<1>5. within[far(n) - 1] \subseteq within[most - 1]
  BY <1>4, WithinGrows
<1> QED
  BY <1>3, <1>4, <1>5 DEF walked

\* A search whose queue ran empty has visited whoever can be reached.
LEMMA ReachedIsVisited ==
  ASSUME ExactInv, queue = <<>>
  PROVE  walked \subseteq visited
<1>1. waiting = {} /\ start \in visited
  BY DEF waiting, ExactInv, SearchInv, Walks
<1>2. spreadOf(visited) \subseteq visited
  BY <1>1 DEF ExactInv, Near, spreadOf
<1> DEFINE B == [k \in 0..most |-> visited]
<1>3. most - 1 \in 0..most
  BY <1>1, VisitedIsReached
<1>4. start \in B[0] /\ \A k \in 1..most - 1 : spreadOf(B[k - 1]) \subseteq B[k]
  <2>1. 0 \in 0..most /\ \A k \in 1..most - 1 : k \in 0..most /\ k - 1 \in 0..most
    BY MostIsNatural
  <2> QED
    BY <1>1, <1>2, <2>1
<1> HIDE DEF B
<1>5. \A k \in 0..most - 1 : within[k] \subseteq B[k]
  BY <1>3, <1>4, WithinStays
<1>6. most - 1 \in 0..most - 1 /\ B[most - 1] = visited
  BY <1>3, MostIsNatural DEF B
<1> QED
  BY <1>5, <1>6 DEF walked

\* The way to the start is the start.
LEMMA StartIsNear ==
  ASSUME SearchTypeOK, Walks, Simple
  PROVE  start \in visited /\ far(start) = 1
<1>1. start \in visited /\ isWalk(trail[start], start)
  BY DEF Walks
<1>2. far(start) \in Nat \ {0}
  BY <1>1, FarIsCount
<1>3. trail[start][1] = start /\ trail[start][far(start)] = start
  BY <1>1 DEF isWalk, far
<1>4. 1 \in 1..far(start) /\ far(start) \in 1..far(start)
  BY <1>2
<1> QED
  BY <1>1, <1>3, <1>4 DEF Simple

\* Whoever is closer than the first of the queue was expanded.
LEMMA CloserIsExpanded ==
  ASSUME ExactInv, queue # <<>>, far(queue[1]) > 1
  PROVE  /\ far(queue[1]) - 2 \in 0..most
         /\ within[far(queue[1]) - 2] \subseteq visited \ waiting
<1> DEFINE L == far(queue[1])
<1>0. SearchTypeOK /\ Walks /\ Near /\ Sorted /\ Simple
  BY DEF ExactInv, SearchInv
<1>1. 1 \in 1..Len(queue) /\ queue[1] \in visited
  BY <1>0 DEF SearchTypeOK, Walks, waiting
<1>2. L \in Nat /\ L > 1 /\ L <= most
  BY <1>0, <1>1, FarIsCount, WaysAreShort
<1>3. \A n \in visited : far(n) \in Nat
  BY <1>0, FarIsCount
<1>4. \A n \in waiting : L <= far(n)
  <2>1. \A i \in 1..Len(queue) : 1 <= i
    BY <1>0 DEF SearchTypeOK
  <2> QED
    BY <1>0, <1>1, <2>1 DEF Sorted, waiting
<1> HIDE DEF L
<1> DEFINE B == [k \in 0..most |-> {n \in visited : far(n) <= k + 1}]
<1>5. L - 2 \in 0..most /\ \A k \in 1..L - 2 : k \in 0..most /\ k - 1 \in 0..most /\ k < L /\ (k - 1) + 1 = k
  BY <1>2, MostIsNatural
<1>6. start \in B[0]
  <2>1. 0 \in 0..most
    BY MostIsNatural
  <2>2. start \in visited /\ far(start) <= 1
    BY <1>0, StartIsNear
  <2> QED
    BY <2>1, <2>2
<1>7. ASSUME NEW k \in 1..L - 2
      PROVE  spreadOf(B[k - 1]) \subseteq B[k]
  <2>1. /\ B[k - 1] = {n \in visited : far(n) <= k} /\ B[k] = {n \in visited : far(n) <= k + 1}
        /\ k \in Nat /\ k < L
    BY <1>5
  <2> HIDE DEF B
  <2>2. ASSUME NEW n \in visited, far(n) <= k
        PROVE  far(n) <= k + 1 /\ edges[n] \cap Principals \subseteq {m \in visited : far(m) <= k + 1}
    <3>1. n \notin waiting /\ far(n) <= k + 1
      BY <2>1, <2>2, <1>2, <1>3, <1>4
    <3>2. \A m \in edges[n] \cap Principals : m \in visited /\ far(m) <= far(n) + 1
      BY <3>1, <1>0 DEF Near
    <3> QED
      BY <3>1, <3>2, <2>1, <2>2, <1>3
  <2> QED
    BY <2>1, <2>2 DEF spreadOf
<1> HIDE DEF B
<1>8. \A k \in 0..L - 2 : within[k] \subseteq B[k]
  BY <1>5, <1>6, <1>7, WithinStays
<1>9. L - 2 \in 0..L - 2 /\ B[L - 2] = {n \in visited : far(n) <= L - 1}
  <2>1. L - 2 \in 0..L - 2 /\ (L - 2) + 1 = L - 1
    BY <1>2
  <2> QED
    BY <2>1, <1>5 DEF B
<1>10. \A n \in waiting : ~(far(n) <= L - 1)
  BY <1>2, <1>3, <1>4, <1>0 DEF Walks
<1>11. within[L - 2] \subseteq visited \ waiting
  BY <1>8, <1>9, <1>10
<1> QED
  BY <1>5, <1>11 DEF L

\* The invariant is strong enough.
LEMMA ExactIsExact ==
  ASSUME ExactInv
  PROVE  SearchIsExact
<1>0. SearchInv /\ SearchTypeOK /\ Walks /\ Explored /\ Outcome /\ Simple /\ Sorted /\ Near /\ Tells
  BY DEF ExactInv, SearchInv
<1>1. PathIsReal /\ NoPathIsCertain
  BY <1>0, InvariantTells
<1> DEFINE leads(S) == \E n \in S : edges[n] \cap Targets # {}
           way == trail[Head(queue)]
<1> SUFFICES ASSUME done
             PROVE  /\ (found = None) <=> ~leads(walked)
                    /\ scoring => visited = walked /\ ((found = Admin) <=> \E n \in walked : Admin \in edges[n])
                    /\ ~scoring /\ found # None /\ Len(way) > 1 => ~leads(within[Len(way) - 2])
  BY <1>1 DEF SearchIsExact, walked, most
<1>2. visited \subseteq walked
  BY VisitedIsReached
<1>3. found = None \/ found \in Targets
  BY <1>0 DEF SearchTypeOK
<1>4. (found = None) <=> ~leads(walked)
  <2>1. ASSUME found = None, NEW n \in walked PROVE edges[n] \cap Targets = {}
    <3>1. queue = <<>>
      BY <1>0, <2>1 DEF Outcome
    <3>2. n \in visited \ waiting
      BY <2>1, <3>1, ReachedIsVisited DEF waiting
    <3> QED
      BY <3>2, <2>1, <1>0 DEF Explored, ends
  <2>2. ASSUME found # None PROVE leads(walked)
    <3>1. PICK n \in visited : found \in edges[n]
      BY <2>2, <1>0 DEF Tells
    <3> QED
      BY <3>1, <2>2, <1>2, <1>3
  <2> QED
    BY <2>1, <2>2
<1>5. ASSUME scoring
      PROVE  visited = walked /\ ((found = Admin) <=> \E n \in walked : Admin \in edges[n])
  <2>1. queue = <<>> /\ waiting = {}
    <3>1. queue = <<>>
      BY <1>0, <1>5, Zenon DEF Tells
    <3>2. 1 .. Len(<<>>) = {}
      OBVIOUS
    <3> QED
      BY <3>1, <3>2, Zenon DEF waiting
  <2>2. visited = walked
    BY <2>1, <1>2, ReachedIsVisited
  <2>3. found = Admin => \E n \in visited : Admin \in edges[n]
    BY <1>0, SearchAssumption DEF Tells
  <2>4. \A n \in visited : Admin \in edges[n] => found = Admin
    BY <2>1, <1>0, <1>5 DEF Tells
  <2> QED
    BY <2>2, <2>3, <2>4
<1>6. ASSUME ~scoring, found # None, Len(way) > 1
      PROVE  ~leads(within[Len(way) - 2])
  <2>1. queue # <<>> /\ Head(queue) = queue[1]
    BY <1>0, <1>6 DEF Outcome, SearchTypeOK
  <2>2. Len(way) = far(queue[1])
    BY <2>1 DEF far
  <2>3. within[far(queue[1]) - 2] \subseteq visited \ waiting
    BY <2>1, <2>2, <1>6, CloserIsExpanded
  <2> QED
    BY <2>2, <2>3, <1>0, <1>6 DEF Tells, ends
<1> QED
  BY <1>4, <1>5, <1>6

\* escalation.go:16-19, 251: both searches are exact, in every cluster.  A target is
\* found if and only if a walk leads to one; the path that is told is one, and no
\* walk is shorter; the score counts exactly whom walks reach.
THEOREM SearchesAreExact == RBACSpec => []SearchIsExact
<1>1. SearchInit => ExactInv
  BY ExactInit
<1>2. ExactInv /\ [SearchNext]_searchVars => ExactInv'
  BY ExactStep
<1>3. ExactInv => SearchIsExact
  BY ExactIsExact
<1> QED
  BY <1>1, <1>2, <1>3, ClusterIsSearched, PTL DEF SearchSpec

(***************************************************************************)
(* The steps of stealing a token are those that the bindings permit.       *)
(***************************************************************************)
\* A grant is of a binding to one of its subjects (graph.go:74-96).
LEMMA GrantsAre ==
  /\ \A b \in bindings : \A t \in b.subjects : resolveRole(b) \in DOMAIN roles =>
       [subject |-> t, role |-> resolveRole(b), ns |-> grantScope(b)] \in grants
  /\ \A g \in grants : \E b \in bindings :
       g.subject \in b.subjects /\ resolveRole(b) \in DOMAIN roles /\ g.role = resolveRole(b) /\ g.ns = grantScope(b)
  BY DEF grants, resolved

\* A subject's permissions are what the rules of its grants expand to.
LEMMA PermissionIs ==
  ASSUME NEW s, NEW p
  PROVE  p \in SubjectPermissions(s) <=>
           \E b \in bindings : /\ s \in b.subjects /\ resolveRole(b) \in DOMAIN roles
                               /\ \E r \in roles[resolveRole(b)] : p \in expandRule(r, grantScope(b))
<1> DEFINE says(b) == /\ s \in b.subjects /\ resolveRole(b) \in DOMAIN roles
                      /\ \E r \in roles[resolveRole(b)] : p \in expandRule(r, grantScope(b))
<1>1. p \in SubjectPermissions(s) <=> \E g \in grants : g.subject = s /\ \E r \in roles[g.role] : p \in expandRule(r, g.ns)
  BY DEF SubjectPermissions
<1>2. ASSUME NEW g \in grants, g.subject = s, NEW r \in roles[g.role], p \in expandRule(r, g.ns)
      PROVE  \E b \in bindings : says(b)
  <2>1. PICK b \in bindings :
          g.subject \in b.subjects /\ resolveRole(b) \in DOMAIN roles /\ g.role = resolveRole(b) /\ g.ns = grantScope(b)
    BY GrantsAre
  <2>2. says(b)
    BY <1>2, <2>1
  <2> QED
    BY <2>2
<1>3. ASSUME NEW b \in bindings, says(b)
      PROVE  \E g \in grants : g.subject = s /\ \E r \in roles[g.role] : p \in expandRule(r, g.ns)
  <2> DEFINE g == [subject |-> s, role |-> resolveRole(b), ns |-> grantScope(b)]
  <2>1. g \in grants /\ g.subject = s /\ g.role = resolveRole(b) /\ g.ns = grantScope(b)
    BY <1>3, GrantsAre
  <2> HIDE DEF g
  <2> QED
    BY <2>1, <1>3
<1> HIDE DEF says
<1>4. p \in SubjectPermissions(s) <=> \E b \in bindings : says(b)
  BY <1>1, <1>2, <1>3
<1> QED
  BY <1>4 DEF says

\* A permission names the rule's verb, group and resource, or one of its paths.
LEMMA ExpandedIs ==
  ASSUME NEW r, NEW ns, NEW p
  PROVE  p \in expandRule(r, ns) <=>
           \/ \E v \in r.verbs, g \in defaulted(r.groups), x \in defaulted(r.resources) :
                p = [verb |-> v, group |-> g, resource |-> x, ns |-> ns]
           \/ \E v \in r.verbs, u \in r.urls :
                p = [verb |-> v, group |-> "nonResourceURL", resource |-> u, ns |-> ns]
  BY DEF expandRule

\* Whoever the query names is whom the bindings permit (graph.go:191-216).
LEMMA QueryIsPermitted ==
  ASSUME bindings \subseteq Roster, NamesAreKubernetes, NEW s, NEW ns, ns # Everywhere,
         NEW verb, NEW group, NEW resource
  PROVE  s \in WhoCan(verb, group, resource, ns) <=> permitted(s, verb, group, resource, ns)
<1> DEFINE matches(role) == \E r \in roles[role] : ruleMatches(r, verb, group, resource)
           says(b) == /\ s \in b.subjects /\ (b.clusterScoped \/ b.ns = ns)
                      /\ resolveRole(b) \in DOMAIN roles /\ matches(resolveRole(b))
<1>1. s \in WhoCan(verb, group, resource, ns) <=>
        \E g \in grants : g.subject = s /\ (g.ns # Everywhere => g.ns = ns) /\ matches(g.role)
  BY DEF WhoCan
<1>2. permitted(s, verb, group, resource, ns) <=> \E b \in bindings : says(b)
  BY DEF permitted
<1> HIDE DEF matches
<1>3. \A b \in bindings : (b.clusterScoped \/ b.ns = ns) <=> (grantScope(b) # Everywhere => grantScope(b) = ns)
  BY DEF NamesAreKubernetes, grantScope
<1>4. ASSUME NEW g \in grants, g.subject = s, g.ns # Everywhere => g.ns = ns, matches(g.role)
      PROVE  \E b \in bindings : says(b)
  <2>1. PICK b \in bindings :
          g.subject \in b.subjects /\ resolveRole(b) \in DOMAIN roles /\ g.role = resolveRole(b) /\ g.ns = grantScope(b)
    BY GrantsAre
  <2>2. says(b)
    BY <1>3, <1>4, <2>1
  <2> QED
    BY <2>2
<1>5. ASSUME NEW b \in bindings, says(b)
      PROVE  \E g \in grants : g.subject = s /\ (g.ns # Everywhere => g.ns = ns) /\ matches(g.role)
  <2> DEFINE g == [subject |-> s, role |-> resolveRole(b), ns |-> grantScope(b)]
  <2>1. g \in grants /\ g.subject = s /\ g.role = resolveRole(b) /\ g.ns = grantScope(b)
    BY <1>5, GrantsAre
  <2> HIDE DEF g
  <2> QED
    BY <2>1, <1>3, <1>5
<1> HIDE DEF says
<1> QED
  BY <1>1, <1>2, <1>4, <1>5

\* Who may read the Secrets beside an identity can steal it.
LEMMA ReadersSteal ==
  ASSUME NEW s, NEW ns, readsSecrets(s, ns)
  PROVE  {Everywhere, ns} \cap identityTheftScope(SubjectPermissions(s)) # {}
<1>1. PICK v \in {"get", "list", "watch"} : permitted(s, v, "", "secrets", ns)
  BY DEF readsSecrets
<1>2. PICK b \in bindings : /\ s \in b.subjects /\ (b.clusterScoped \/ b.ns = ns) /\ resolveRole(b) \in DOMAIN roles
                            /\ \E r \in roles[resolveRole(b)] : ruleMatches(r, v, "", "secrets")
  BY <1>1 DEF permitted
<1>3. PICK r \in roles[resolveRole(b)] : ruleMatches(r, v, "", "secrets")
  BY <1>2
<1>4. PICK w \in {Star, v}, g \in {Star, ""}, x \in {Star, "secrets"} :
        w \in r.verbs /\ g \in defaulted(r.groups) /\ x \in defaulted(r.resources)
  BY <1>3 DEF ruleMatches, contains
<1> DEFINE p == [verb |-> w, group |-> g, resource |-> x, ns |-> grantScope(b)]
<1>5. p \in expandRule(r, grantScope(b))
  BY <1>4, ExpandedIs
<1>6. isTheft(p)
  BY <1>4 DEF isTheft
<1>7. p \in SubjectPermissions(s)
  BY <1>2, <1>5, PermissionIs
<1>8. p.ns \in {Everywhere, ns}
  BY <1>2 DEF grantScope
<1> QED
  BY <1>6, <1>7, <1>8 DEF identityTheftScope

\* Who can steal an identity may read the Secrets beside it or mint its tokens.
LEMMA StealersMay ==
  ASSUME bindings \subseteq Roster, roles = Rules, NamesAreKubernetes, NEW s, NEW ns,
         ~holdsForeignStar(s), {Everywhere, ns} \cap identityTheftScope(SubjectPermissions(s)) # {}
  PROVE  readsSecrets(s, ns) \/ mintsTokens(s, ns)
<1>1. PICK p \in SubjectPermissions(s) : isTheft(p) /\ p.ns \in {Everywhere, ns}
  BY DEF identityTheftScope
<1>2. PICK b \in bindings : /\ s \in b.subjects /\ resolveRole(b) \in DOMAIN roles
                            /\ \E r \in roles[resolveRole(b)] : p \in expandRule(r, grantScope(b))
  BY <1>1, PermissionIs
<1>3. PICK r \in roles[resolveRole(b)] : p \in expandRule(r, grantScope(b))
  BY <1>2
<1>4. /\ {"secrets", "serviceaccounts/token"} \cap r.resources # {} => contains(defaulted(r.groups), "")
      /\ "tokenrequests" \notin r.resources
      /\ r.urls \cap {"secrets", "serviceaccounts/token", "tokenrequests"} = {}
  BY <1>2, <1>3 DEF NamesAreKubernetes
<1>5. p.group \in {"", Star} \/ p.resource # Star
  BY <1>1 DEF holdsForeignStar
<1>6. PICK v \in r.verbs, g \in defaulted(r.groups), x \in defaulted(r.resources) :
        p = [verb |-> v, group |-> g, resource |-> x, ns |-> grantScope(b)]
  <2>1. ASSUME NEW v \in r.verbs, NEW u \in r.urls,
               p = [verb |-> v, group |-> "nonResourceURL", resource |-> u, ns |-> grantScope(b)]
        PROVE  FALSE
    <3>1. u \notin {"secrets", "serviceaccounts/token", "tokenrequests"}
      BY <1>4
    <3>2. u # Star
      BY <2>1, <1>5 DEF Star
    <3> QED
      BY <2>1, <3>1, <3>2, <1>1 DEF isTheft
  <2> QED
    BY <1>3, <2>1, ExpandedIs
<1>7. b.clusterScoped \/ b.ns = ns
  <2>1. grantScope(b) \in {Everywhere, ns}
    BY <1>1, <1>6
  <2>2. b.clusterScoped \in BOOLEAN /\ (~b.clusterScoped => b.ns # Everywhere)
    BY DEF NamesAreKubernetes
  <2> QED
    BY <2>1, <2>2 DEF grantScope
<1>8. isTheft(p) /\ p.verb = v /\ p.group = g /\ p.resource = x
  BY <1>1, <1>6
<1>9. x # "tokenrequests"
  BY <1>4 DEF defaulted
<1>10. contains(defaulted(r.groups), "")
  <2>1. CASE x = Star
    BY <2>1, <1>5, <1>6, <1>8 DEF contains
  <2>2. CASE x # Star
    <3>1. x \in {"secrets", "serviceaccounts/token"}
      BY <2>2, <1>8, <1>9 DEF isTheft
    <3>2. x \in r.resources
      BY <3>1 DEF defaulted
    <3> QED
      BY <3>1, <3>2, <1>4
  <2> QED
    BY <2>1, <2>2
<1>11. CASE v \in {"get", "list", "watch", Star} /\ x \in {"secrets", Star}
  <2>1. PICK w \in {"get", "list", "watch"} : contains(r.verbs, w)
    BY <1>11 DEF contains
  <2>2. ruleMatches(r, w, "", "secrets")
    BY <2>1, <1>10, <1>11 DEF ruleMatches, contains
  <2>3. permitted(s, w, "", "secrets", ns)
    BY <2>2, <1>2, <1>3, <1>7 DEF permitted
  <2> QED
    BY <2>3 DEF readsSecrets
<1>12. CASE v \in {"create", Star} /\ x = "serviceaccounts/token"
  <2>1. ruleMatches(r, "create", "", "serviceaccounts/token")
    BY <1>10, <1>12 DEF ruleMatches, contains
  <2>2. permitted(s, "create", "", "serviceaccounts/token", ns)
    BY <2>1, <1>2, <1>3, <1>7 DEF permitted
  <2> QED
    BY <2>2 DEF mintsTokens
<1> QED
  BY <1>8, <1>9, <1>11, <1>12 DEF isTheft

\* The graph that is searched is the cluster's.
ClusterInv == roles = Rules /\ bindings \subseteq Roster /\ edges = buildEscalationEdges

LEMMA ClusterIsPermitted ==
  ASSUME ClusterInv, NamesAreKubernetes
  PROVE  TheftIsPermitted
<1> SUFFICES ASSUME NEW s \in Principals, NEW o \in ServiceAccounts \cap granted
             PROVE  /\ s \in WhoCan("get", "", "secrets", o.ns) <=> permitted(s, "get", "", "secrets", o.ns)
                    /\ o \in edges[s] /\ ~holdsForeignStar(s) => readsSecrets(s, o.ns) \/ mintsTokens(s, o.ns)
                    /\ readsSecrets(s, o.ns) /\ o # s => o \in edges[s]
  BY DEF TheftIsPermitted
<1>1. o.ns # Everywhere /\ o \in Principals /\ o.kind = "ServiceAccount"
  BY DEF NamesAreKubernetes, ServiceAccounts
<1>2. s \in WhoCan("get", "", "secrets", o.ns) <=> permitted(s, "get", "", "secrets", o.ns)
  BY <1>1, QueryIsPermitted DEF ClusterInv
<1>3. o \in edges[s] <=> o # s /\ {Everywhere, o.ns} \cap identityTheftScope(SubjectPermissions(s)) # {}
  <2>1. edges[s] = steps(s)
    BY DEF ClusterInv, buildEscalationEdges
  <2>2. o # Admin /\ o # Node
    BY <1>1, SearchAssumption
  <2>3. o \in steps(s) <=> o \in steals(s, SubjectPermissions(s))
    BY <2>2 DEF steps
  <2>4. o \in serviceAccountSubjectKeys
    BY <1>1 DEF serviceAccountSubjectKeys
  <2> QED
    BY <2>1, <2>3, <2>4 DEF steals
<1> QED
  BY <1>2, <1>3, ReadersSteal, StealersMay DEF ClusterInv

\* escalation.go:16-19, 80-96, 251: in a cluster whose names are Kubernetes' the
\* searches are exact, and what they take for stealing a token is what the
\* bindings permit.
THEOREM PathsOfClusterAreExact ==
  ASSUME NamesAreKubernetes
  PROVE  RBACSpec => []PathsAreExact
<1>1. RBACInit => ClusterInv
  BY DEF RBACInit, ClusterInv
<1>2. ClusterInv /\ [RBACNext]_rbacVars => ClusterInv'
  <2> SUFFICES ASSUME ClusterInv, [RBACNext]_rbacVars PROVE ClusterInv'
    OBVIOUS
  <2>1. UNCHANGED <<roles, bindings, edges>>
    BY DEF RBACNext, rbacVars, searchVars, SearchNext, Arrive, Spread, Score, GiveUp
  <2> QED
    BY <2>1 DEF ClusterInv, buildEscalationEdges, steps, SubjectPermissions, steals, serviceAccountSubjectKeys,
                granted, grants, resolved, resolveRole, becomesAdmin, boundToClusterAdmin
<1>3. ClusterInv => TheftIsPermitted
  BY ClusterIsPermitted
<1>4. SearchIsExact /\ TheftIsPermitted => PathsAreExact
  BY DEF PathsAreExact
<1> QED
  BY <1>1, <1>2, <1>3, <1>4, SearchesAreExact, PTL DEF RBACSpec

(***************************************************************************)
(* Benchmarks.  A report is of the estate it was made on; every claim of   *)
(* the gate and of the score rests on the statuses, which no missing       *)
(* evidence improves, and on waivers that still hold.                      *)
(***************************************************************************)
\* The rate of fewer than all is not full (report.go:85-96).
LEMMA FullRate ==
  ASSUME NEW p \in Nat, NEW s \in Nat \ {0}, p < s
  PROVE  (100 * p) \div s # 100
<1>1. (100 * p) \in Nat /\ 100 * p < 100 * s
  OBVIOUS
<1> QED
  BY <1>1

few == 0..31
each(f) == {f[x] : x \in few}

\* The controls of a section are finitely many.
LEMMA EachIsFinite ==
  ASSUME NEW f PROVE IsFiniteSet(each(f))
<1>1. \A m, n \in Int : IsFiniteSet(m..n)
  BY FS_Interval
<1>2. [x \in few |-> f[x]] \in Surjection(few, each(f))
  BY DEF Surjection, each
<1>3. IsFiniteSet(few)
  <2>1. 0 \in Int /\ 31 \in Int
    OBVIOUS
  <2> QED
    BY <1>1, <2>1 DEF few
<1> QED
  BY <1>2, <1>3, FS_Surjection

\* The catalogue of the Docker benchmark is finite.
LEMMA DockerIsFinite == IsFiniteSet(Controls!DockerControls)
<1> DEFINE one(level) == [n \in few |-> Controls!control(<<2, n>>, level, "daemon")]
           two == [n \in few |-> Controls!control(<<3, n>>, 1, "files")]
           run(level) == [n \in few |-> Controls!control(<<5, n>>, level, "runtime")]
           manual == {Controls!control(<<1, 2, 1>>, 1, "host")}
           catalog == manual \cup each(one(1)) \cup each(one(2)) \cup each(two) \cup each(run(1)) \cup each(run(2))
<1>1. IsFiniteSet(catalog)
  <2> HIDE DEF one, two, run
  <2>1. IsFiniteSet(manual)
    BY FS_Singleton
  <2> HIDE DEF manual
  <2> QED
    BY <2>1, EachIsFinite, FS_Union
<1>2. Controls!DockerControls \in SUBSET catalog
  BY DEF Controls!DockerControls, Controls!hostControls, Controls!daemonControls, Controls!fileControls,
         Controls!runtimeControls, each, few
<1> HIDE DEF catalog
<1> QED
  BY <1>1, <1>2, FS_Subset

\* The catalogue of the Kubernetes benchmark is finite.
LEMMA ClusterIsFinite == IsFiniteSet(Controls!ClusterControls)
<1> DEFINE nodeFiles == [n \in few |-> Controls!control(<<1, 1, n>>, 1, "plane")]
           api == [n \in few |-> Controls!control(<<1, 2, n>>, 1, "plane")]
           etcd == [n \in few |-> Controls!control(<<2, n>>, 1, "etcd")]
           node == [n \in few |-> Controls!control(<<4, 1, n>>, 1, "node")]
           kubelet(level) == [n \in few |-> Controls!control(<<4, 2, n>>, level, "node")]
           rbac == [n \in few |-> Controls!control(<<5, 1, n>>, 1, "policy")]
           rest(id, level) == {Controls!control(id, level, "policy")}
           catalog == rest(<<5, 2, 2>>, 1) \cup rest(<<5, 3, 2>>, 2) \cup rest(<<5, 7, 4>>, 2)
                       \cup each(rbac) \cup each(nodeFiles) \cup each(api) \cup each(etcd) \cup each(node)
                       \cup each(kubelet(1)) \cup each(kubelet(2))
<1>1. IsFiniteSet(catalog)
  <2> HIDE DEF nodeFiles, api, etcd, node, kubelet, rbac
  <2>1. \A id, level : IsFiniteSet(rest(id, level))
    BY FS_Singleton
  <2> HIDE DEF rest
  <2> QED
    BY <2>1, EachIsFinite, FS_Union
<1>2. Controls!ClusterControls \in SUBSET catalog
  BY DEF Controls!ClusterControls, Controls!controlPlaneControls, Controls!etcdControls, Controls!nodeControls,
         Controls!policyControls, each, few
<1> HIDE DEF catalog
<1> QED
  BY <1>1, <1>2, FS_Subset

\* What the two collectors collect.
dockerFields == {"daemon", "bool", "str", "list", "info", "files", "containers"}
clusterFields ==
  {"minor", "platform", "api", "etcd", "kubelet", "files", "bindings", "roles", "accounts",
   "psa", "enforce", "namespaces", "policed"}

\* less is e without one part of a host.
lessDocker(e, less, part) ==
  /\ part \in {"daemon", "info", "files", "containers"}
  /\ less.info = IF part = "info" THEN Controls!noInfo ELSE e.info
  /\ part = "daemon" => ~less.daemon /\ less.bool = <<>> /\ less.str = <<>> /\ less.list = <<>>
  /\ part # "daemon" => less.daemon = e.daemon /\ less.bool = e.bool /\ less.str = e.str /\ less.list = e.list
  /\ less.files = IF part = "files" THEN <<>> ELSE e.files
  /\ less.containers = IF part = "containers" THEN {} ELSE e.containers

daemonNumbers == {1, 2, 3, 4, 5, 6, 8, 11, 12, 13, 14, 15, 16, 17}

\* What `docker info` says never fails a control of the daemon but 2.5 and 2.16; the
\* other collectors do not matter to the daemon.
LEMMA DaemonWithheld ==
  ASSUME NEW e, NEW less, NEW part, NEW n \in daemonNumbers, lessDocker(e, less, part),
         part = "info" => n \notin {5, 16}, Controls!daemonCheck(less, n) = "pass"
  PROVE  Controls!daemonCheck(e, n) = "pass"
<1>1. CASE part = "daemon"
  BY <1>1 DEF lessDocker, Controls!daemonCheck
<1>2. CASE part \notin {"daemon", "info"}
  BY <1>2 DEF lessDocker, Controls!daemonCheck, Controls!confinementCheck, Controls!isOn, Controls!isOff,
              Controls!text, Controls!items
<1>3. CASE part = "info"
  <2>1. /\ less.daemon = e.daemon /\ less.bool = e.bool /\ less.str = e.str /\ less.list = e.list
        /\ less.info = Controls!noInfo
    BY <1>3 DEF lessDocker
  <2>2. /\ Controls!noInfo.logging = Controls!noText /\ ~Controls!noInfo.rootless /\ ~Controls!noInfo.liveRestore
    BY DEF Controls!noInfo
  <2>3. CASE n = 8
    BY <2>1, <2>2, <2>3 DEF Controls!daemonCheck, Controls!text, Controls!judge
  <2>4. CASE n = 12
    BY <2>1, <2>2, <2>4 DEF Controls!daemonCheck, Controls!judge
  <2>5. CASE n = 13
    BY <2>1, <2>2, <2>5 DEF Controls!daemonCheck, Controls!isOn, Controls!judge
  <2>6. /\ \A k : Controls!isOn(less, k) <=> Controls!isOn(e, k)
        /\ \A k : Controls!isOff(less, k) <=> Controls!isOff(e, k)
        /\ \A k : Controls!items(less, k) = Controls!items(e, k)
        /\ \A k : Controls!text(less, k) = Controls!text(e, k)
    BY <2>1 DEF Controls!isOn, Controls!isOff, Controls!text, Controls!items
  <2>7. CASE n \in {1, 3, 14}
    BY <2>1, <2>6, <2>7 DEF Controls!daemonCheck, Controls!judge
  <2>8. CASE n \in {2, 4, 6, 11}
    BY <2>1, <2>6, <2>8 DEF Controls!daemonCheck, Controls!judge
  <2>9. CASE n \in {15, 17}
    BY <2>1, <2>6, <2>9 DEF Controls!daemonCheck, Controls!confinementCheck, Controls!judge
  <2> QED
    BY <1>3, <2>3, <2>4, <2>5, <2>7, <2>8, <2>9 DEF daemonNumbers
<1> QED
  BY <1>1, <1>2, <1>3

\* A file that was not statted is "info".
LEMMA FilesWithheld ==
  ASSUME NEW e, NEW less, NEW part, NEW n, n \in {5, 6, 15, 16, 17, 18},
         lessDocker(e, less, part), Controls!fileCheck(less, n) = "pass"
  PROVE  Controls!fileCheck(e, n) = "pass"
<1>1. CASE less.files = e.files
  BY <1>1 DEF Controls!fileCheck
<1>2. CASE less.files = <<>>
  <2>1. \A path : ~Controls!statKnown(less.files, path)
    BY <1>2 DEF Controls!statKnown
  <2>2. Controls!fileCheck(less, n) = "info"
    BY <2>1 DEF Controls!fileCheck, Controls!checkOwnership, Controls!checkPermsAtMost
  <2> QED
    BY <2>2
<1> QED
  BY <1>1, <1>2 DEF lessDocker

runtimeNumbers == {1, 3, 4, 5, 7, 9, 10, 12, 15, 16, 20, 21, 25, 26, 28, 31}

\* Without containers only the daemon's default of 5.25 can still pass.
LEMMA RuntimeWithheld ==
  ASSUME NEW e, NEW less, NEW part, NEW n, n \in runtimeNumbers,
         lessDocker(e, less, part), Controls!runtimeCheck(less, n) = "pass"
  PROVE  Controls!runtimeCheck(e, n) = "pass"
<1>1. ~Controls!isOn(e, "no-new-privileges") => ~Controls!isOn(less, "no-new-privileges")
  BY DEF lessDocker, Controls!isOn
<1>2. CASE less.containers = e.containers
  <2>1. CASE n # 25
    BY <1>2, <2>1 DEF Controls!runtimeCheck, Controls!perContainer, Controls!judge, runtimeNumbers
  <2>2. CASE n = 25
    BY <1>1, <1>2, <2>2 DEF Controls!runtimeCheck, Controls!perContainer, Controls!judge
  <2> QED
    BY <2>1, <2>2
<1>3. CASE less.containers = {} /\ less.bool = e.bool
  <2>1. n = 25 /\ Controls!isOn(less, "no-new-privileges")
    BY <1>3 DEF Controls!runtimeCheck, Controls!perContainer, runtimeNumbers
  <2>2. Controls!isOn(e, "no-new-privileges")
    BY <1>3, <2>1 DEF Controls!isOn
  <2> QED
    BY <2>1, <2>2 DEF Controls!runtimeCheck, Controls!perContainer, Controls!judge
<1> QED
  BY <1>2, <1>3 DEF lessDocker

\* Less evidence of a host makes no control of the Docker benchmark pass but the two.
LEMMA DockerWithheld ==
  ASSUME NEW e, NEW less, NEW part, NEW c \in Controls!DockerControls, lessDocker(e, less, part),
         c.id \notin Controls!passesUnseen(e, part), Controls!dockerCheck(less, c) = "pass"
  PROVE  Controls!dockerCheck(e, c) = "pass"
<1>1. CASE c \in Controls!hostControls
  BY <1>1 DEF Controls!hostControls, Controls!control, Controls!dockerCheck
<1>2. CASE c \in Controls!daemonControls
  <2>1. c.section = "daemon" /\ \E n \in daemonNumbers : c.id = <<2, n>>
    BY <1>2 DEF Controls!daemonControls, Controls!control, daemonNumbers
  <2>2. Controls!daemonCheck(less, c.id[2]) = "pass"
    BY <2>1 DEF Controls!dockerCheck
  <2>3. part = "info" => c.id \notin {<<2, 5>>, <<2, 16>>}
    BY DEF Controls!passesUnseen
  <2>4. c.id[2] \in daemonNumbers /\ (part = "info" => c.id[2] \notin {5, 16})
    BY <2>1, <2>3
  <2> QED
    BY <2>1, <2>2, <2>4, DaemonWithheld DEF Controls!dockerCheck
<1>3. CASE c \in Controls!fileControls
  <2>1. c.section = "files" /\ c.id[2] \in {5, 6, 15, 16, 17, 18}
    BY <1>3 DEF Controls!fileControls, Controls!control
  <2>2. Controls!fileCheck(less, c.id[2]) = "pass"
    BY <2>1 DEF Controls!dockerCheck
  <2> QED
    BY <2>1, <2>2, FilesWithheld DEF Controls!dockerCheck
<1>4. CASE c \in Controls!runtimeControls
  <2>1. c.section = "runtime" /\ c.id[2] \in runtimeNumbers
    BY <1>4 DEF Controls!runtimeControls, Controls!control, runtimeNumbers
  <2>2. Controls!runtimeCheck(less, c.id[2]) = "pass"
    BY <2>1 DEF Controls!dockerCheck
  <2> QED
    BY <2>1, <2>2, RuntimeWithheld DEF Controls!dockerCheck
<1> QED
  BY <1>1, <1>2, <1>3, <1>4 DEF Controls!DockerControls

\* less is e without one part of a cluster.
lessCluster(e, less, part) ==
  /\ part \in clusterFields \ {"minor", "platform"}
  /\ \A f \in clusterFields \ {part} : less[f] = e[f]
  /\ part = "psa" => ~less.psa
  /\ part \in {"api", "etcd", "kubelet", "files", "enforce"} => less[part] = <<>>
  /\ part \in {"bindings", "roles", "accounts", "namespaces", "policed"} => less[part] = {}

\* A component whose flags were not collected is "info".
LEMMA PlaneWithheld ==
  ASSUME NEW e, NEW less, NEW part, NEW n, lessCluster(e, less, part)
  PROVE  /\ Controls!apiServerCheck(less, n) = "pass" => Controls!apiServerCheck(e, n) = "pass"
         /\ Controls!etcdCheck(less, n) = "pass" => Controls!etcdCheck(e, n) = "pass"
         /\ Controls!kubeletCheck(less, n) = "pass" => Controls!kubeletCheck(e, n) = "pass"
         /\ Controls!manifestCheck(less, n) = "pass" => Controls!manifestCheck(e, n) = "pass"
<1>0. /\ less.api \in {<<>>, e.api} /\ less.etcd \in {<<>>, e.etcd} /\ less.kubelet \in {<<>>, e.kubelet}
      /\ less.files \in {<<>>, e.files}
  BY DEF lessCluster, clusterFields
<1>e. DOMAIN <<>> = {}
  OBVIOUS
<1>1. Controls!apiServerCheck(less, n) = "pass" => Controls!apiServerCheck(e, n) = "pass"
  <2>1. CASE less.api = <<>>
    BY <1>e, <2>1 DEF Controls!apiServerCheck
  <2>2. CASE less.api = e.api
    BY <2>2 DEF Controls!apiServerCheck
  <2> QED
    BY <1>0, <2>1, <2>2
<1>2. Controls!etcdCheck(less, n) = "pass" => Controls!etcdCheck(e, n) = "pass"
  <2>1. CASE less.etcd = <<>>
    BY <1>e, <2>1 DEF Controls!etcdCheck
  <2>2. CASE less.etcd = e.etcd
    BY <2>2 DEF Controls!etcdCheck
  <2> QED
    BY <1>0, <2>1, <2>2
<1>3. Controls!kubeletCheck(less, n) = "pass" => Controls!kubeletCheck(e, n) = "pass"
  <2>1. CASE less.kubelet = <<>>
    BY <1>e, <2>1 DEF Controls!kubeletCheck
  <2>2. CASE less.kubelet = e.kubelet
    BY <2>2 DEF Controls!kubeletCheck
  <2> QED
    BY <1>0, <2>1, <2>2
<1>4. Controls!manifestCheck(less, n) = "pass" => Controls!manifestCheck(e, n) = "pass"
  BY <1>0 DEF Controls!manifestCheck, Controls!checkOwnership, Controls!checkPermsAtMost, Controls!statKnown
<1> QED
  BY <1>1, <1>2, <1>3, <1>4

policyIDs == {<<5, 1, 1>>, <<5, 1, 3>>, <<5, 1, 5>>, <<5, 2, 2>>, <<5, 3, 2>>, <<5, 7, 4>>}

\* What was not collected is "info", or counts against the namespaces there are; only
\* without a namespace a posture passes 5.2.2.
LEMMA PolicyWithheld ==
  ASSUME NEW e, NEW less, NEW part, NEW id \in policyIDs, lessCluster(e, less, part),
         id \notin Controls!passesUnseen(e, part), Controls!policyCheck(less, id) = "pass"
  PROVE  Controls!policyCheck(e, id) = "pass"
<1>0. /\ less.bindings \in {{}, e.bindings} /\ less.roles \in {{}, e.roles} /\ less.accounts \in {{}, e.accounts}
      /\ less.namespaces \in {{}, e.namespaces} /\ less.policed \in {{}, e.policed}
  BY DEF lessCluster, clusterFields
<1>1. CASE id = <<5, 1, 1>>
  BY <1>0, <1>1 DEF Controls!policyCheck, Controls!judge
<1>2. CASE id = <<5, 1, 3>>
  BY <1>0, <1>2 DEF Controls!policyCheck, Controls!judge
<1>3. CASE id = <<5, 1, 5>>
  BY <1>0, <1>3 DEF Controls!policyCheck, Controls!judge
<1>4. CASE id = <<5, 2, 2>>
  <2>0. DOMAIN <<>> = {}
    OBVIOUS
  <2>1. CASE part = "namespaces"
    <3>1. /\ less.namespaces = {} /\ less.psa = e.psa /\ less.enforce = e.enforce
      BY <2>1 DEF lessCluster, clusterFields
    <3>2. ~e.psa /\ DOMAIN e.enforce = {}
      BY <1>4, <2>1, Zenon DEF Controls!passesUnseen
    <3> QED
      BY <1>4, <3>1, <3>2 DEF Controls!policyCheck
  <2>2. CASE part = "enforce"
    <3>1. less.enforce = <<>> /\ less.namespaces = e.namespaces /\ less.psa = e.psa
      BY <2>2 DEF lessCluster, clusterFields
    <3>2. e.psa /\ e.namespaces = {}
      BY <1>4, <2>0, <3>1 DEF Controls!policyCheck, Controls!judge
    <3> QED
      BY <1>4, <3>2 DEF Controls!policyCheck, Controls!judge
  <2>3. CASE part = "psa"
    <3>1. ~less.psa /\ less.namespaces = e.namespaces /\ less.enforce = e.enforce
      BY <2>3 DEF lessCluster, clusterFields
    <3> QED
      BY <1>4, <3>1 DEF Controls!policyCheck, Controls!judge
  <2>4. CASE part \notin {"namespaces", "enforce", "psa"}
    <3>1. less.namespaces = e.namespaces /\ less.enforce = e.enforce /\ less.psa = e.psa
      BY <2>4 DEF lessCluster, clusterFields
    <3> QED
      BY <1>4, <3>1 DEF Controls!policyCheck, Controls!judge
  <2> QED
    BY <2>1, <2>2, <2>3, <2>4
<1>5. CASE id = <<5, 3, 2>>
  <2>1. less.namespaces = e.namespaces \/ less.namespaces = {}
    BY <1>0
  <2>2. less.namespaces # {} /\ less.namespaces \subseteq less.policed
    BY <1>5 DEF Controls!policyCheck, Controls!judge
  <2>3. e.namespaces # {} /\ e.namespaces \subseteq e.policed
    BY <1>0, <2>1, <2>2
  <2> QED
    BY <1>5, <2>3 DEF Controls!policyCheck, Controls!judge
<1>6. CASE id = <<5, 7, 4>>
  BY <1>0, <1>6 DEF Controls!policyCheck, Controls!judge
<1> QED
  BY <1>1, <1>2, <1>3, <1>4, <1>5, <1>6 DEF policyIDs

\* A node check reads the kubelet's files or its flags.
LEMMA NodeWithheld ==
  ASSUME NEW e, NEW less, NEW part, NEW id, lessCluster(e, less, part), Controls!nodeCheck(less, id) = "pass"
  PROVE  Controls!nodeCheck(e, id) = "pass"
<1>1. CASE id[2] = 1
  <2>1. less.files \in {<<>>, e.files}
    BY DEF lessCluster, clusterFields
  <2> QED
    BY <1>1, <2>1 DEF Controls!nodeCheck, Controls!checkPermsAtMost, Controls!statKnown
<1>2. CASE id[2] # 1
  <2>1. Controls!kubeletCheck(less, id[3]) = "pass"
    BY <1>2 DEF Controls!nodeCheck
  <2>2. Controls!kubeletCheck(e, id[3]) = "pass"
    BY <2>1, PlaneWithheld
  <2> QED
    BY <1>2, <2>2 DEF Controls!nodeCheck
<1> QED
  BY <1>1, <1>2

\* Less evidence makes no control of the Kubernetes benchmark pass but 5.2.2.
LEMMA ClusterWithheld ==
  ASSUME NEW e, NEW less, NEW part, NEW c \in Controls!ClusterControls, lessCluster(e, less, part),
         c.id \notin Controls!passesUnseen(e, part), Controls!clusterCheck(less, c) = "pass"
  PROVE  Controls!clusterCheck(e, c) = "pass"
<1>1. /\ Controls!scores(less, c.section) /\ Controls!scores(e, c.section)
  <2>1. less.platform = e.platform
    BY DEF lessCluster, clusterFields
  <2>2. Controls!scores(less, c.section) <=> Controls!scores(e, c.section)
    BY <2>1 DEF Controls!scores, Controls!managed
  <2> QED
    BY <2>2 DEF Controls!clusterCheck
<1>2. CASE c \in Controls!controlPlaneControls
  <2>1. c.section = "plane"
    BY <1>2 DEF Controls!controlPlaneControls, Controls!control
  <2>2. CASE c.id[2] = 1
    <3>1. Controls!manifestCheck(less, c.id[3]) = "pass"
      BY <1>1, <2>1, <2>2 DEF Controls!clusterCheck
    <3>2. Controls!manifestCheck(e, c.id[3]) = "pass"
      BY <3>1, PlaneWithheld
    <3> QED
      BY <1>1, <2>1, <2>2, <3>2 DEF Controls!clusterCheck
  <2>3. CASE c.id[2] # 1
    <3>1. Controls!apiServerCheck(less, c.id[3]) = "pass"
      BY <1>1, <2>1, <2>3 DEF Controls!clusterCheck
    <3>2. Controls!apiServerCheck(e, c.id[3]) = "pass"
      BY <3>1, PlaneWithheld
    <3> QED
      BY <1>1, <2>1, <2>3, <3>2 DEF Controls!clusterCheck
  <2> QED
    BY <2>2, <2>3
<1>3. CASE c \in Controls!etcdControls
  <2>1. c.section = "etcd"
    BY <1>3 DEF Controls!etcdControls, Controls!control
  <2>2. Controls!etcdCheck(less, c.id[2]) = "pass"
    BY <1>1, <2>1 DEF Controls!clusterCheck
  <2>3. Controls!etcdCheck(e, c.id[2]) = "pass"
    BY <2>2, PlaneWithheld
  <2> QED
    BY <1>1, <2>1, <2>3 DEF Controls!clusterCheck
<1>4. CASE c \in Controls!nodeControls
  <2>1. c.section = "node"
    BY <1>4 DEF Controls!nodeControls, Controls!control
  <2>2. Controls!nodeCheck(less, c.id) = "pass"
    BY <1>1, <2>1 DEF Controls!clusterCheck
  <2>3. Controls!nodeCheck(e, c.id) = "pass"
    BY <2>2, NodeWithheld
  <2> QED
    BY <1>1, <2>1, <2>3 DEF Controls!clusterCheck
<1>5. CASE c \in Controls!policyControls
  <2>1. c.section = "policy" /\ c.id \in policyIDs
    BY <1>5 DEF Controls!policyControls, Controls!control, policyIDs
  <2>2. Controls!policyCheck(less, c.id) = "pass"
    BY <1>1, <2>1 DEF Controls!clusterCheck
  <2>3. Controls!policyCheck(e, c.id) = "pass"
    BY <2>1, <2>2, PolicyWithheld
  <2> QED
    BY <1>1, <2>1, <2>3 DEF Controls!clusterCheck
<1> QED
  BY <1>2, <1>3, <1>4, <1>5 DEF Controls!ClusterControls

\* The evidence a collection without one part leaves, of either kind.
LEMMA HostWithout ==
  ASSUME NEW e \in DockerEvidence, NEW part \in Controls!Parts("docker")
  PROVE  lessDocker(e, Controls!Without(e, part), part)
<1>1. DOMAIN e = dockerFields
  BY EvidenceAssumption DEF dockerFields, Controls!hostEvidence
<1>2. part \in {"daemon", "info", "files", "containers"}
  BY DEF Controls!Parts
<1>3. CASE part = "daemon"
  <2>1. Controls!Without(e, part) = [e EXCEPT !.daemon = FALSE, !.bool = <<>>, !.str = <<>>, !.list = <<>>]
    BY <1>3 DEF Controls!Without
  <2> QED
    BY <1>1, <1>3, <2>1 DEF lessDocker, dockerFields
<1>4. CASE part = "info"
  <2>1. Controls!Without(e, part) = [e EXCEPT !.info = Controls!noInfo]
    BY <1>4 DEF Controls!Without
  <2> QED
    BY <1>1, <1>4, <2>1 DEF lessDocker, dockerFields
<1>5. CASE part = "files"
  <2>1. Controls!Without(e, part) = [e EXCEPT !.files = <<>>]
    BY <1>5 DEF Controls!Without
  <2> QED
    BY <1>1, <1>5, <2>1 DEF lessDocker, dockerFields
<1>6. CASE part = "containers"
  <2>1. Controls!Without(e, part) = [e EXCEPT !.containers = {}]
    BY <1>6 DEF Controls!Without
  <2> QED
    BY <1>1, <1>6, <2>1 DEF lessDocker, dockerFields
<1> QED
  BY <1>2, <1>3, <1>4, <1>5, <1>6

LEMMA ClusterWithout ==
  ASSUME NEW e \in ClusterEvidence, NEW part \in Controls!Parts("k8s")
  PROVE  lessCluster(e, Controls!Without(e, part), part)
<1>1. DOMAIN e = clusterFields
  BY EvidenceAssumption DEF clusterFields, Controls!clusterEvidence
<1>2. part \in clusterFields \ {"minor", "platform"}
  BY "docker" # "k8s" DEF Controls!Parts, clusterFields
<1> DEFINE less == Controls!Without(e, part)
<1> SUFFICES lessCluster(e, less, part)
  OBVIOUS
<1> HIDE DEF less
<1>3. CASE part = "psa"
  <2>1. less = [e EXCEPT !.psa = FALSE]
    BY <1>3 DEF Controls!Without, less
  <2>2. \A f \in clusterFields : less[f] = IF f = part THEN FALSE ELSE e[f]
    BY <1>1, <1>3, <2>1 DEF clusterFields
  <2> QED
    BY <1>2, <1>3, <2>2 DEF lessCluster, clusterFields
<1>4. CASE part \in {"files", "api", "etcd", "kubelet", "enforce"}
  <2>1. less = [e EXCEPT ![part] = <<>>]
    BY <1>4 DEF Controls!Without, less
  <2>2. \A f \in clusterFields : less[f] = IF f = part THEN <<>> ELSE e[f]
    BY <1>1, <1>2, <2>1
  <2> QED
    BY <1>2, <1>4, <2>2 DEF lessCluster, clusterFields
<1>5. CASE part \in {"bindings", "roles", "accounts", "namespaces", "policed"}
  <2>1. less = [e EXCEPT ![part] = {}]
    BY <1>5 DEF Controls!Without, less
  <2>2. \A f \in clusterFields : less[f] = IF f = part THEN {} ELSE e[f]
    BY <1>1, <1>2, <2>1
  <2> QED
    BY <1>2, <1>5, <2>2 DEF lessCluster, clusterFields
<1> QED
  BY <1>2, <1>3, <1>4, <1>5 DEF clusterFields

Evidence(kind) == IF kind = "docker" THEN DockerEvidence ELSE ClusterEvidence

\* What is assessed, between commands.
EstateOK(x) ==
  /\ DOMAIN x = {"kind", "evidence", "waivers", "register", "now"}
  /\ x.kind \in {"docker", "k8s"} /\ x.evidence \in Evidence(x.kind)
  /\ \E b \in Books : x.waivers = b.waivers
  /\ x.now \in Nat

\* What a benchmark says is of the estate it ran on.
reported(x, level) == Controls!ApplyWaivers(Controls!RunBenchmark(x, level), x.waivers, x.kind, x.now)

BenchSaid(x, s) ==
  s.command = "bench" =>
    /\ s.report = reported(x, s.level)
    /\ s.score = Controls!Score(s.report)
    /\ s.exit = 0 => ~Controls!failGate(s.report, s.failOn)

ControlsInv == assessment = "compliance" => EstateOK(estate) /\ BenchSaid(estate, said)

controlsAt(x, level) ==
  {c \in IF x.kind = "docker" THEN Controls!DockerControls ELSE Controls!ClusterControls : level >= 2 \/ c.level # 2}
statusOf(x, c) ==
  IF x.kind = "docker" THEN Controls!dockerCheck(x.evidence, c) ELSE Controls!clusterCheck(x.evidence, c)

checked(x, level, id) == CHOOSE c \in controlsAt(x, level) : c.id = id

\* A report has a result for every control of its level, with the check's status.
ResultsAreChecks(x, level) ==
  \A id \in DOMAIN reported(x, level) :
    /\ checked(x, level, id) \in controlsAt(x, level)
    /\ Controls!RunBenchmark(x, level)[id].status = statusOf(x, checked(x, level, id))
    /\ reported(x, level)[id].status = statusOf(x, checked(x, level, id))
    /\ reported(x, level)[id].waived =>
         \E w \in x.waivers : w.control = id /\ Controls!active(w, x.kind, x.now)

\* Both reports of an estate have the controls of the level.
LEMMA ReportShape ==
  ASSUME NEW x, NEW level
  PROVE  /\ DOMAIN reported(x, level) = {c.id : c \in controlsAt(x, level)}
         /\ DOMAIN Controls!RunBenchmark(x, level) = {c.id : c \in controlsAt(x, level)}
         /\ ResultsAreChecks(x, level)
<1> DEFINE ids == {c.id : c \in controlsAt(x, level)}
           pick(id) == checked(x, level, id)
           bare == Controls!RunBenchmark(x, level)
           full == reported(x, level)
<1>1. bare = [id \in ids |-> [status |-> statusOf(x, pick(id)), level |-> pick(id).level, waived |-> FALSE]]
  BY DEF Controls!RunBenchmark, controlsAt, statusOf, checked
<1>2. full = [id \in DOMAIN bare |->
                [bare[id] EXCEPT !.waived = /\ bare[id].status \in {"fail", "warn"}
                                            /\ \E w \in x.waivers : w.control = id /\ Controls!active(w, x.kind, x.now)]]
  BY DEF reported, Controls!ApplyWaivers
<1>3. ASSUME NEW id \in ids
      PROVE  pick(id) \in controlsAt(x, level)
  <2>1. \E y \in controlsAt(x, level) : y.id = id
    BY <1>3
  <2> QED
    BY <2>1 DEF checked
<1> HIDE DEF pick, bare, full, ids
<1>4. DOMAIN bare = ids /\ DOMAIN full = ids
  BY <1>1, <1>2
<1>5. ASSUME NEW id \in ids
      PROVE  /\ bare[id].status = statusOf(x, pick(id))
             /\ full[id].status = statusOf(x, pick(id))
             /\ full[id].waived =
                  (/\ statusOf(x, pick(id)) \in {"fail", "warn"}
                   /\ \E w \in x.waivers : w.control = id /\ Controls!active(w, x.kind, x.now))
  <2>1. bare[id] = [status |-> statusOf(x, pick(id)), level |-> pick(id).level, waived |-> FALSE]
    BY <1>1, <1>5
  <2> DEFINE held == \E w \in x.waivers : w.control = id /\ Controls!active(w, x.kind, x.now)
  <2>2. full[id] = [bare[id] EXCEPT !.waived = bare[id].status \in {"fail", "warn"} /\ held]
    BY <1>2, <1>4, <1>5
  <2> HIDE DEF held
  <2>3. /\ bare[id].status = statusOf(x, pick(id)) /\ full[id].status = statusOf(x, pick(id))
        /\ full[id].waived = (statusOf(x, pick(id)) \in {"fail", "warn"} /\ held)
    BY <2>1, <2>2
  <2> QED
    BY <2>3 DEF held
<1> QED
  BY <1>3, <1>4, <1>5 DEF pick, bare, full, ids, ResultsAreChecks

\* A report has finitely many results.
LEMMA ReportIsFinite ==
  ASSUME NEW x, NEW level PROVE IsFiniteSet(DOMAIN reported(x, level))
<1> DEFINE at == controlsAt(x, level)
           idOf == [c \in at |-> c.id]
<1>1. at \subseteq Controls!DockerControls \/ at \subseteq Controls!ClusterControls
  BY DEF controlsAt
<1>2. IsFiniteSet(at)
  <2> HIDE DEF at
  <2> QED
    BY <1>1, DockerIsFinite, ClusterIsFinite, FS_Subset
<1>3. idOf \in Surjection(at, {c.id : c \in at})
  BY DEF Surjection
<1>4. IsFiniteSet({c.id : c \in at})
  <2> HIDE DEF at, idOf
  <2> QED
    BY <1>2, <1>3, FS_Surjection
<1>5. DOMAIN reported(x, level) = {c.id : c \in at}
  BY ReportShape
<1> QED
  BY <1>4, <1>5

\* A waiver that counts has not run out.
LEMMA ActiveCovers ==
  ASSUME EstateOK(estate), NEW w \in estate.waivers, Controls!active(w, estate.kind, estate.now)
  PROVE  Controls!covers(w, estate.kind)
<1>1. w.at \in Nat /\ estate.now \in Nat /\ Day \in Nat
  BY EvidenceAssumption, PostureAssumption DEF EstateOK
<1>2. CASE w.form = "stamp"
  BY <1>1, <1>2 DEF Controls!active, Controls!covers, Controls!expiryTime
<1>3. CASE w.form = "date"
  <2>1. Controls!expiryTime(w) = w.at * Day + (Day - 1)
    BY <1>3 DEF Controls!expiryTime
  <2>2. (w.at + 1) * Day = w.at * Day + Day /\ w.at * Day \in Nat
    BY <1>1
  <2> HIDE DEF Controls!expiryTime
  <2>3. estate.now < w.at * Day + (Day - 1)
    BY <2>1 DEF Controls!active
  <2>4. \A m \in Nat : estate.now < m + (Day - 1) => estate.now < m + Day
    BY <1>1
  <2>5. estate.now < (w.at + 1) * Day
    BY <2>2, <2>3, <2>4
  <2> QED
    BY <1>3, <2>5 DEF Controls!active, Controls!covers
<1>4. CASE w.form \notin {"stamp", "date"}
  BY <1>4 DEF Controls!active, Controls!expiryTime
<1> QED
  BY <1>2, <1>3, <1>4

\* At most as many and not as many is fewer.
LEMMA Fewer ==
  ASSUME NEW p \in Nat, NEW s \in Nat, p <= s, s # p
  PROVE  s \in Nat \ {0} /\ p < s
  OBVIOUS

\* The score of a report in which something passed or failed.
LEMMA ScoreIs ==
  ASSUME NEW rep, Cardinality(Controls!having(rep, {"pass", "fail"})) \in Nat \ {0}
  PROVE  Controls!Score(rep) = (100 * Cardinality(Controls!having(rep, {"pass"})))
                                 \div Cardinality(Controls!having(rep, {"pass", "fail"}))
<1>1. \A S : Controls!Cardinality(S) = Cardinality(S)
  BY DEF Controls!Cardinality, Cardinality
<1>2. Controls!Cardinality(Controls!having(rep, {"pass", "fail"})) # 0
  BY <1>1
<1> QED
  BY <1>1, <1>2 DEF Controls!Score

\* A report of the estate as it is keeps the gate honest.
LEMMA Honest ==
  ASSUME EstateOK(estate), BenchSaid(estate, said)
  PROVE  Controls!GateIsHonest
<1> SUFFICES ASSUME said.command = "bench", NEW id \in DOMAIN said.report, ~Controls!excused(id),
                    \/ /\ said.report[id].status = "fail"
                       /\ said.score = 100 \/ (said.exit = 0 /\ said.failOn # "")
                    \/ said.report[id].status = "warn" /\ said.exit = 0 /\ said.failOn = "warn"
             PROVE  FALSE
  BY DEF Controls!GateIsHonest
<1> DEFINE rep == said.report
           status == rep[id].status
<1>1. /\ rep = reported(estate, said.level)
      /\ said.score = Controls!Score(rep)
      /\ said.exit = 0 => ~Controls!failGate(rep, said.failOn)
  BY DEF BenchSaid
<1>2. \A w \in estate.waivers : w.control = id => ~Controls!active(w, estate.kind, estate.now)
  BY ActiveCovers DEF Controls!excused
<1>3. ~rep[id].waived
  <2>1. ResultsAreChecks(estate, said.level) /\ id \in DOMAIN reported(estate, said.level)
    BY <1>1, ReportShape
  <2> QED
    BY <1>1, <1>2, <2>1 DEF ResultsAreChecks
<1>4. Controls!effective(rep[id]) = status
  BY <1>3 DEF Controls!effective
<1> HIDE DEF rep
<1>5. CASE status = "fail" /\ said.score = 100
  <2> DEFINE both == Controls!having(rep, {"pass", "fail"})
             good == Controls!having(rep, {"pass"})
  <2>1. good \subseteq both /\ id \in both \ good /\ both \subseteq DOMAIN rep
    BY <1>4, <1>5 DEF Controls!having, rep
  <2>2. IsFiniteSet(both) /\ IsFiniteSet(good)
    BY <1>1, <2>1, ReportIsFinite, FS_Subset
  <2> HIDE DEF both, good
  <2>3. Cardinality(good) \in Nat /\ Cardinality(both) \in Nat
    BY <2>2, FS_CardinalityType
  <2>4. Cardinality(good) <= Cardinality(both) /\ Cardinality(good) # Cardinality(both)
    BY <2>1, <2>2, FS_Subset
  <2>5. Cardinality(both) \in Nat \ {0} /\ Cardinality(good) < Cardinality(both)
    BY <2>3, <2>4, Fewer
  <2>6. (100 * Cardinality(good)) \div Cardinality(both) # 100
    BY <2>3, <2>5, FullRate
  <2>7. Controls!Score(rep) = (100 * Cardinality(good)) \div Cardinality(both)
    BY <2>5, ScoreIs DEF both, good
  <2> QED
    BY <1>1, <1>5, <2>6, <2>7
<1>6. CASE said.exit = 0 /\ (\/ status = "fail" /\ said.failOn # ""
                             \/ status = "warn" /\ said.failOn = "warn")
  <2>1. ~Controls!failGate(rep, said.failOn)
    BY <1>1, <1>6
  <2>2. id \in Controls!having(rep, IF said.failOn = "warn" THEN {"fail", "warn"} ELSE {"fail"})
    BY <1>4, <1>6 DEF Controls!having, rep
  <2>3. Controls!FailsAt(rep, said.failOn = "warn")
    BY <2>2 DEF Controls!FailsAt
  <2>4. said.failOn # ""
    BY <1>6
  <2> QED
    BY <2>1, <2>3, <2>4 DEF Controls!failGate
<1> QED
  BY <1>5, <1>6 DEF rep

\* The estate of a collection without one part.
poorer(x, part) == [x EXCEPT !.evidence = Controls!Without(x.evidence, part)]

\* Withholding evidence makes no control pass but those that pass unseen.
LEMMA StatusWithheld ==
  ASSUME EstateOK(estate), NEW part \in Controls!Parts(estate.kind), NEW level,
         NEW c \in controlsAt(estate, level), c.id \notin Controls!passesUnseen(estate.evidence, part),
         statusOf(poorer(estate, part), c) = "pass"
  PROVE  statusOf(estate, c) = "pass"
<1> DEFINE e == estate.evidence
           less == Controls!Without(e, part)
<1>1. poorer(estate, part).evidence = less /\ poorer(estate, part).kind = estate.kind
  BY DEF EstateOK, poorer
<1> HIDE DEF less
<1>2. CASE estate.kind = "docker"
  <2>1. e \in DockerEvidence /\ c \in Controls!DockerControls
    BY <1>2 DEF EstateOK, Evidence, controlsAt
  <2>2. lessDocker(e, less, part)
    BY <1>2, <2>1, HostWithout DEF less
  <2>3. Controls!dockerCheck(less, c) = "pass"
    BY <1>1, <1>2 DEF statusOf
  <2>4. Controls!dockerCheck(e, c) = "pass"
    BY <2>1, <2>2, <2>3, DockerWithheld
  <2> QED
    BY <1>2, <2>4 DEF statusOf
<1>3. CASE estate.kind = "k8s"
  <2>1. e \in ClusterEvidence /\ c \in Controls!ClusterControls
    BY <1>3 DEF EstateOK, Evidence, controlsAt
  <2>2. lessCluster(e, less, part)
    BY <1>3, <2>1, ClusterWithout DEF less
  <2>3. Controls!clusterCheck(less, c) = "pass"
    BY <1>1, <1>3 DEF statusOf
  <2>4. Controls!clusterCheck(e, c) = "pass"
    BY <2>1, <2>2, <2>3, ClusterWithheld
  <2> QED
    BY <1>3, <2>4 DEF statusOf
<1> QED
  BY <1>2, <1>3 DEF EstateOK

\* A report of the estate as it is passes nothing that more evidence would not.
LEMMA Withholding ==
  ASSUME EstateOK(estate), BenchSaid(estate, said)
  PROVE  Controls!WithheldNeverPasses
<1> SUFFICES ASSUME said.command = "bench", NEW part \in Controls!Parts(estate.kind),
                    NEW id \in DOMAIN Controls!RunBenchmark(poorer(estate, part), said.level),
                    id \notin Controls!passesUnseen(estate.evidence, part),
                    Controls!RunBenchmark(poorer(estate, part), said.level)[id].status = "pass"
             PROVE  said.report[id].status = "pass"
  BY DEF Controls!WithheldNeverPasses, poorer
<1> DEFINE poor == poorer(estate, part)
           level == said.level
<1>1. controlsAt(poor, level) = controlsAt(estate, level)
  BY DEF EstateOK, controlsAt, poorer
<1>2. /\ DOMAIN reported(poor, level) = {c.id : c \in controlsAt(poor, level)}
      /\ DOMAIN Controls!RunBenchmark(poor, level) = {c.id : c \in controlsAt(poor, level)}
      /\ DOMAIN reported(estate, level) = {c.id : c \in controlsAt(estate, level)}
      /\ ResultsAreChecks(poor, level) /\ ResultsAreChecks(estate, level)
  BY ReportShape
<1>3. id \in DOMAIN reported(poor, level) /\ id \in DOMAIN reported(estate, level)
  BY <1>1, <1>2
<1>4. checked(poor, level, id) = checked(estate, level, id)
  BY <1>1 DEF checked
<1>5. statusOf(poor, checked(estate, level, id)) = "pass" /\ checked(estate, level, id) \in controlsAt(estate, level)
  BY <1>2, <1>3, <1>4 DEF ResultsAreChecks
<1>6. checked(estate, level, id).id = id
  BY <1>2, <1>3 DEF checked
<1> HIDE DEF poor
<1>7. statusOf(estate, checked(estate, level, id)) = "pass"
  BY <1>5, <1>6, StatusWithheld DEF poor
<1>8. said.report = reported(estate, level)
  BY DEF BenchSaid
<1> QED
  BY <1>2, <1>3, <1>7, <1>8 DEF ResultsAreChecks

\* At the start nothing is said.
LEMMA ControlsInit == PostureInit => ControlsInv
<1> SUFFICES ASSUME PostureInit, assessment = "compliance" PROVE EstateOK(estate) /\ BenchSaid(estate, said)
  BY DEF ControlsInv
<1>1. Controls!ComplianceInit
  BY DEF PostureInit
<1>2. PICK b \in Books, kind \in {"docker", "k8s"} :
        \E e \in Evidence(kind) :
          estate = [kind |-> kind, evidence |-> e, waivers |-> b.waivers, register |-> b.register, now |-> Day]
  BY <1>1 DEF Controls!ComplianceInit, Evidence
<1>3. EstateOK(estate)
  <2>1. Day \in Nat
    BY PostureAssumption
  <2> QED
    BY <1>2, <2>1 DEF EstateOK
<1>4. said.command = "none"
  BY <1>1 DEF Controls!ComplianceInit, Controls!Silent
<1> QED
  BY <1>3, <1>4 DEF BenchSaid

\* A command speaks of the estate it read, and any change silences it.
LEMMA ControlsStep ==
  ASSUME EstateOK(estate), BenchSaid(estate, said), Controls!ComplianceNext
  PROVE  EstateOK(estate') /\ BenchSaid(estate', said')
<1>s. ASSUME said' = Controls!Silent PROVE BenchSaid(estate', said')
  BY <1>s DEF Controls!Silent, BenchSaid
<1>1. CASE Controls!Drift
  <2>1. PICK e \in Evidence(estate.kind) : estate' = [estate EXCEPT !.evidence = e]
    BY <1>1 DEF Controls!Drift, Evidence
  <2>2. EstateOK(estate')
    BY <2>1 DEF EstateOK
  <2> QED
    BY <1>1, <1>s, <2>2 DEF Controls!Drift
<1>2. CASE Controls!Tick
  <2>1. EstateOK(estate')
    BY <1>2 DEF Controls!Tick, EstateOK
  <2> QED
    BY <1>2, <1>s, <2>1 DEF Controls!Tick
<1>3. ASSUME NEW level, NEW failOn, NEW baseline, NEW out, Controls!RunBench(level, failOn, baseline, out)
      PROVE  EstateOK(estate') /\ BenchSaid(estate', said')
  <2> DEFINE rep == reported(estate, level)
             base == IF baseline /\ (~baseline \/ Controls!created(out, kept).content = "payload")
                       THEN Controls!loadReport(Controls!created(out, kept)) ELSE <<>>
  <2>1. \/ said' = [command |-> "bench", level |-> level, failOn |-> failOn, baseline |-> baseline,
                    report |-> rep, counts |-> Controls!Counts(rep), score |-> Controls!Score(rep),
                    drift |-> Controls!Diff(base, rep), top |-> Controls!topFailures(rep),
                    expiring |-> Controls!Expiring(estate.waivers, 30 * Day, estate.now),
                    exit |-> IF Controls!failGate(rep, failOn) THEN 1 ELSE 0]
        \/ said' = [command |-> "error", exit |-> 1]
    BY <1>3 DEF Controls!RunBench, reported
  <2>2. estate' = estate
    BY <1>3 DEF Controls!RunBench
  <2> HIDE DEF rep, base
  <2>3. \/ /\ said'.report = rep /\ said'.level = level /\ said'.score = Controls!Score(rep)
           /\ said'.failOn = failOn
           /\ said'.exit = IF Controls!failGate(rep, failOn) THEN 1 ELSE 0
        \/ said'.command = "error"
    BY <2>1
  <2>4. said'.exit = 0 => ~Controls!failGate(rep, failOn) \/ said'.command = "error"
    <3>1. CASE said'.command # "error" /\ Controls!failGate(rep, failOn)
      <4>1. said'.exit = 1
        BY <2>3, <3>1, Zenon
      <4> QED
        BY <4>1
    <3> QED
      BY <3>1
  <2> QED
    BY <2>2, <2>3, <2>4 DEF BenchSaid, rep
<1>4. ASSUME NEW scanned, NEW frameworks, NEW failOnGap, Controls!RunScan(scanned, frameworks, failOnGap)
      PROVE  EstateOK(estate') /\ BenchSaid(estate', said')
  <2>1. estate' = estate /\ said'.command = "scan"
    BY <1>4 DEF Controls!RunScan
  <2> QED
    BY <2>1 DEF BenchSaid
<1>5. ASSUME NEW code, Controls!RefuseBench(code)
      PROVE  EstateOK(estate') /\ BenchSaid(estate', said')
  BY <1>5 DEF Controls!RefuseBench, BenchSaid
<1> QED
  BY <1>1, <1>2, <1>3, <1>4, <1>5 DEF Controls!ComplianceNext, Controls!RunDocker, Controls!RunCluster

\* waiver.go:47-49, report.go:119-121, dockerbench/evidence.go:24-26 and
\* kubebench/checks_policy.go:13-14: for every host and cluster, every file of waivers
\* and every baseline, a closed gate and a full score hide no failed control but those
\* with a waiver that has not run out, and no part of the evidence that is withheld
\* makes a control pass, but for 2.5 and 2.16 without `docker info` and 5.2.2 with a
\* pod security posture and no namespace.
THEOREM PassesAreEarned == PostureSpec => []PassIsEarned
<1>1. PostureInit => ControlsInv
  BY ControlsInit
<1>2. ControlsInv /\ [PostureNext]_postureVars => ControlsInv'
  <2> SUFFICES ASSUME ControlsInv, [PostureNext]_postureVars PROVE ControlsInv'
    OBVIOUS
  <2>1. CASE UNCHANGED postureVars
    BY <2>1 DEF postureVars, complianceVars, ControlsInv
  <2>2. CASE PostureNext /\ assessment = "compliance"
    <3>1. Controls!ComplianceNext /\ UNCHANGED assessment
      BY <2>2 DEF PostureNext
    <3> QED
      BY <2>2, <3>1, ControlsStep DEF ControlsInv
  <2>3. CASE PostureNext /\ assessment # "compliance"
    BY <2>3 DEF PostureNext, ControlsInv
  <2> QED
    BY <2>1, <2>2, <2>3
<1>3. ControlsInv => PassIsEarned
  BY Honest, Withholding DEF ControlsInv, PassIsEarned
<1> QED
  BY <1>1, <1>2, <1>3, PTL DEF PostureSpec

(***************************************************************************)
(* Confinement: what a control says of a container, what a patch makes of  *)
(* its settings, and the bundles that the agent merges.                    *)
(***************************************************************************)
\* The statuses that count as a failure.
bad == {"fail", "warn"}

\* The results S are of control k; one of them is a failure.
About(S, k) == \A r \in S : r.id = k
Fails(S) == \E r \in S : r.status \in bad

\* A verdict is one result, and a failure if the control is not met.
LEMMA VerdictSays ==
  ASSUME NEW id, NEW sev, NEW w, NEW good, NEW otherwise
  PROVE  /\ About(Confinement!verdict(id, sev, w, good, otherwise), id)
         /\ (Fails(Confinement!verdict(id, sev, w, good, otherwise)) <=> (~good /\ otherwise \in bad))
<1>1. CASE good
  BY <1>1 DEF About, Fails, Confinement!verdict, Confinement!result, bad
<1>2. CASE ~good
  BY <1>2 DEF About, Fails, Confinement!verdict, Confinement!result, bad
<1> QED
  BY <1>1, <1>2

\* One result, or one for each member of a family, all failures.
LEMMA ResultSays ==
  ASSUME NEW id, NEW sev, NEW st, NEW w, NEW on
  PROVE  /\ About({Confinement!result(id, sev, st, w, on)}, id)
         /\ (Fails({Confinement!result(id, sev, st, w, on)}) <=> (st \in bad))
         /\ Confinement!result(id, sev, st, w, on).id = id /\ Confinement!result(id, sev, st, w, on).status = st
<1>1. /\ Confinement!result(id, sev, st, w, on).id = id
      /\ Confinement!result(id, sev, st, w, on).status = st
  BY DEF Confinement!result
<1> QED
  BY <1>1 DEF About, Fails

\* Failures of one control, as many as there are.
LEMMA FamilySays ==
  ASSUME NEW id, NEW S, NEW p, (S # {}) <=> p,
         \A r \in S : \E sev, w, on : r = Confinement!result(id, sev, "fail", w, on)
  PROVE  About(S, id) /\ (Fails(S) <=> p)
<1>1. ASSUME NEW r \in S PROVE r.id = id /\ r.status = "fail"
  <2>1. PICK sev, w, on : r = Confinement!result(id, sev, "fail", w, on)
    OBVIOUS
  <2> QED
    BY <2>1 DEF Confinement!result
<1> QED
  BY <1>1 DEF About, Fails, bad

\* What the mounts of a workload lay open.
socketAt(w) == \E m \in w.mounts : Confinement!isRuntimeSocket(m.source) \/ Confinement!isRuntimeSocket(m.dest)
sensitiveAt(w) ==
  \E m \in w.mounts : /\ m.source # <<>> /\ ~Confinement!isRuntimeSocket(m.source)
                      /\ Confinement!sensitiveMountSeverity(m.source) # 0

\* The controls a workload fails.
flawed(w, k) ==
  CASE k = 1  -> w.privileged
    [] k = 2  -> ~(w.nonRoot \/ w.user > 0)
    [] k = 3  -> ~w.privileged /\ "ALL" \notin w.drops
    [] k = 4  -> w.adds \cap Confinement!dangerous # {}
    [] k = 5  -> ~w.nnp
    [] k = 6  -> ~w.readonly
    [] k = 7  -> w.seccomp \in {"", "unconfined"}
    [] k = 8  -> w.apparmor \in {"", "unconfined"}
    [] k = 9  -> w.shares # {}
    [] k = 10 -> socketAt(w)
    [] k = 11 -> sensitiveAt(w)
    [] k = 12 -> ~(w.memory > 0)
    [] k = 14 -> w.hostUsers
    [] k = 15 -> ~(w.nnp /\ Confinement!heldCaps(w) \cap {"SETUID", "SETGID"} = {})
    [] k = 17 -> w.gpu = "all"
    [] OTHER  -> FALSE

\* The check of a control.
checkOf(w, k) ==
  CASE k = 1  -> Confinement!checkPrivileged(w)
    [] k = 2  -> Confinement!checkRunAsRoot(w)
    [] k = 3  -> Confinement!checkCapDropAll(w)
    [] k = 4  -> Confinement!checkDangerousCaps(w)
    [] k = 5  -> Confinement!checkNoNewPrivileges(w)
    [] k = 6  -> Confinement!checkReadOnlyRootFS(w)
    [] k = 7  -> Confinement!checkSeccomp(w)
    [] k = 8  -> Confinement!checkAppArmor(w)
    [] k = 9  -> Confinement!checkHostNamespaces(w)
    [] k = 10 -> Confinement!checkDockerSock(w)
    [] k = 11 -> Confinement!checkSensitiveMounts(w)
    [] k = 12 -> Confinement!checkMemoryLimit(w)
    [] k = 13 -> Confinement!checkPidsLimit(w)
    [] k = 14 -> Confinement!checkUserNamespace(w)
    [] k = 15 -> Confinement!checkSetuidNeutralized(w)
    [] k = 16 -> Confinement!checkMaskedPaths(w)
    [] k = 17 -> Confinement!checkGPUDevices(w)
    [] k = 18 -> Confinement!checkGPUSharing(w)

\* A check of a pod's container fails exactly if its control is flawed.
Judged(w, k) == About(checkOf(w, k), k) /\ (Fails(checkOf(w, k)) <=> flawed(w, k))

\* A container passes the checks exactly if none of its controls is flawed.
LEMMA EachSays ==
  ASSUME NEW w, w.source = "kubernetes"
  PROVE  \A k \in 1 .. 18 : Judged(w, k)
<1>1. Judged(w, 1)
  <2>1. About(Confinement!checkPrivileged(w), 1) /\ (Fails(Confinement!checkPrivileged(w)) <=> w.privileged)
    BY VerdictSays DEF Confinement!checkPrivileged, About, Fails, Confinement!verdict, Confinement!result, bad
  <2> QED
    BY <2>1 DEF Judged, checkOf, flawed
<1>2. Judged(w, 2)
  <2>1. /\ About(Confinement!checkRunAsRoot(w), 2)
        /\ (Fails(Confinement!checkRunAsRoot(w)) <=> ~(w.nonRoot \/ w.user > 0))
    BY DEF Confinement!checkRunAsRoot, About, Fails, Confinement!verdict, Confinement!result, bad
  <2> QED
    BY <2>1 DEF Judged, checkOf, flawed
<1>3. Judged(w, 3)
  <2>1. /\ About(Confinement!checkCapDropAll(w), 3)
        /\ (Fails(Confinement!checkCapDropAll(w)) <=> (~w.privileged /\ "ALL" \notin w.drops))
    <3>1. CASE w.privileged
      <4>1. /\ About(Confinement!checkCapDropAll(w), 3)
            /\ (Fails(Confinement!checkCapDropAll(w)) <=> ("na" \in bad))
        BY <3>1, ResultSays DEF Confinement!checkCapDropAll
      <4> QED
        BY <3>1, <4>1 DEF bad, About, Fails
    <3>2. CASE ~w.privileged
      <4>1. /\ About(Confinement!checkCapDropAll(w), 3)
            /\ (Fails(Confinement!checkCapDropAll(w)) <=> (~("ALL" \in w.drops) /\ "fail" \in bad))
        BY <3>2, VerdictSays DEF Confinement!checkCapDropAll
      <4> QED
        BY <3>2, <4>1 DEF bad, About, Fails
    <3> QED
      BY <3>1, <3>2
  <2> QED
    BY <2>1 DEF Judged, checkOf, flawed
<1>4. Judged(w, 4)
  <2>1. /\ About(Confinement!checkDangerousCaps(w), 4)
        /\ (Fails(Confinement!checkDangerousCaps(w)) <=> w.adds \cap Confinement!dangerous # {})
    <3>1. Confinement!checkDangerousCaps(w) =
            {Confinement!result(4, Confinement!danger(c), "fail", w, c) : c \in w.adds \cap Confinement!dangerous}
      BY DEF Confinement!checkDangerousCaps
    <3>2. (Confinement!checkDangerousCaps(w) # {}) <=> (w.adds \cap Confinement!dangerous # {})
      BY <3>1
    <3>3. \A r \in Confinement!checkDangerousCaps(w) : \E sev, x, on : r = Confinement!result(4, sev, "fail", x, on)
      BY <3>1
    <3> QED
      BY <3>2, <3>3, FamilySays
  <2> QED
    BY <2>1 DEF Judged, checkOf, flawed
<1>5. Judged(w, 5)
  <2>1. About(Confinement!checkNoNewPrivileges(w), 5) /\ (Fails(Confinement!checkNoNewPrivileges(w)) <=> ~w.nnp)
    BY DEF Confinement!checkNoNewPrivileges, About, Fails, Confinement!verdict, Confinement!result, bad
  <2> QED
    BY <2>1 DEF Judged, checkOf, flawed
<1>6. Judged(w, 6)
  <2>1. /\ About(Confinement!checkReadOnlyRootFS(w), 6)
        /\ (Fails(Confinement!checkReadOnlyRootFS(w)) <=> ~w.readonly)
    BY DEF Confinement!checkReadOnlyRootFS, About, Fails, Confinement!verdict, Confinement!result, bad
  <2> QED
    BY <2>1 DEF Judged, checkOf, flawed
<1>7. Judged(w, 7)
  <2>1. /\ About(Confinement!checkSeccomp(w), 7)
        /\ (Fails(Confinement!checkSeccomp(w)) <=> (w.seccomp \in {"", "unconfined"}))
    <3> DEFINE otherwise == IF w.seccomp = "" THEN "warn" ELSE "fail"
    <3>1. otherwise \in bad
      BY DEF bad
    <3>2. /\ About(Confinement!checkSeccomp(w), 7)
          /\ (Fails(Confinement!checkSeccomp(w)) <=> (~(w.seccomp \notin {"", "unconfined"}) /\ otherwise \in bad))
      BY VerdictSays DEF Confinement!checkSeccomp
    <3> HIDE DEF otherwise
    <3> QED
      BY <3>1, <3>2 DEF About, Fails
  <2>2. flawed(w, 7) <=> w.seccomp \in {"", "unconfined"}
    BY DEF flawed
  <2>3. checkOf(w, 7) = Confinement!checkSeccomp(w)
    BY DEF checkOf
  <2> QED
    BY <2>1, <2>2, <2>3 DEF Judged
<1>8. Judged(w, 8)
  <2>1. /\ About(Confinement!checkAppArmor(w), 8)
        /\ (Fails(Confinement!checkAppArmor(w)) <=> (w.apparmor \in {"", "unconfined"}))
    <3> DEFINE otherwise == IF w.apparmor = "" THEN "warn" ELSE "fail"
    <3>1. otherwise \in bad
      BY DEF bad
    <3>2. /\ About(Confinement!checkAppArmor(w), 8)
          /\ (Fails(Confinement!checkAppArmor(w)) <=> (~(w.apparmor \notin {"", "unconfined"}) /\ otherwise \in bad))
      BY VerdictSays DEF Confinement!checkAppArmor
    <3> HIDE DEF otherwise
    <3> QED
      BY <3>1, <3>2 DEF About, Fails
  <2>2. flawed(w, 8) <=> w.apparmor \in {"", "unconfined"}
    BY DEF flawed
  <2>3. checkOf(w, 8) = Confinement!checkAppArmor(w)
    BY DEF checkOf
  <2> QED
    BY <2>1, <2>2, <2>3 DEF Judged
<1>9. Judged(w, 9)
  <2>1. /\ About(Confinement!checkHostNamespaces(w), 9)
        /\ (Fails(Confinement!checkHostNamespaces(w)) <=> w.shares # {})
    <3>1. CASE w.shares = {}
      <4>1. /\ About(Confinement!checkHostNamespaces(w), 9)
            /\ (Fails(Confinement!checkHostNamespaces(w)) <=> ("pass" \in bad))
        BY <3>1, ResultSays DEF Confinement!checkHostNamespaces
      <4> QED
        BY <3>1, <4>1 DEF bad, About, Fails
    <3>2. CASE w.shares # {}
      <4>1. Confinement!checkHostNamespaces(w) =
              {Confinement!result(9, Confinement!High, "fail", w, k) : k \in w.shares}
        BY <3>2 DEF Confinement!checkHostNamespaces
      <4>2. Confinement!checkHostNamespaces(w) # {}
        BY <3>2, <4>1
      <4>3. \A r \in Confinement!checkHostNamespaces(w) : \E sev, x, on : r = Confinement!result(9, sev, "fail", x, on)
        BY <4>1
      <4> QED
        BY <3>2, <4>2, <4>3, FamilySays
    <3> QED
      BY <3>1, <3>2
  <2> QED
    BY <2>1 DEF Judged, checkOf, flawed
<1>10. Judged(w, 10)
  <2>1. About(Confinement!checkDockerSock(w), 10) /\ (Fails(Confinement!checkDockerSock(w)) <=> socketAt(w))
    <3> DEFINE there == {m \in w.mounts : Confinement!isRuntimeSocket(m.source) \/ Confinement!isRuntimeSocket(m.dest)}
    <3>0. (there # {}) <=> socketAt(w)
      BY DEF socketAt
    <3>s. Confinement!checkDockerSock(w) =
            IF there = {} THEN {Confinement!result(10, Confinement!Critical, "pass", w, "")}
            ELSE {Confinement!result(10, Confinement!Critical, "fail", w, IF m.source = <<>> THEN m.dest ELSE m.source) :
                    m \in there}
      BY DEF Confinement!checkDockerSock
    <3> HIDE DEF there
    <3>1. CASE there = {}
      <4>0. Confinement!checkDockerSock(w) = {Confinement!result(10, Confinement!Critical, "pass", w, "")}
        BY <3>1, <3>s
      <4>1. /\ About(Confinement!checkDockerSock(w), 10)
            /\ (Fails(Confinement!checkDockerSock(w)) <=> ("pass" \in bad))
        <5> DEFINE passed == {Confinement!result(10, Confinement!Critical, "pass", w, "")}
        <5>1. About(passed, 10) /\ (Fails(passed) <=> "pass" \in bad)
          BY ResultSays
        <5>2. Confinement!checkDockerSock(w) = passed
          BY <4>0
        <5> HIDE DEF passed
        <5> QED
          BY <5>1, <5>2
      <4> QED
        BY <3>0, <3>1, <4>1 DEF bad, About, Fails
    <3>2. CASE there # {}
      <4>2. Confinement!checkDockerSock(w) # {}
        BY <3>2, <3>s
      <4>3. \A r \in Confinement!checkDockerSock(w) : \E sev, x, on : r = Confinement!result(10, sev, "fail", x, on)
        BY <3>2, <3>s
      <4> QED
        BY <3>0, <3>2, <4>2, <4>3, FamilySays
    <3> QED
      BY <3>1, <3>2
  <2> QED
    BY <2>1 DEF Judged, checkOf, flawed
<1>11. Judged(w, 11)
  <2>1. /\ About(Confinement!checkSensitiveMounts(w), 11)
        /\ (Fails(Confinement!checkSensitiveMounts(w)) <=> sensitiveAt(w))
    <3> DEFINE there == {x \in w.mounts : /\ x.source # <<>> /\ ~Confinement!isRuntimeSocket(x.source)
                                          /\ Confinement!sensitiveMountSeverity(x.source) # 0}
    <3>0. (there # {}) <=> sensitiveAt(w)
      BY DEF sensitiveAt
    <3>s. Confinement!checkSensitiveMounts(w) =
            {Confinement!result(11, Confinement!sensitiveMountSeverity(m.source), "fail", w, m.source) : m \in there}
      BY DEF Confinement!checkSensitiveMounts
    <3> HIDE DEF there
    <3>1. (Confinement!checkSensitiveMounts(w) # {}) <=> sensitiveAt(w)
      BY <3>0, <3>s
    <3>2. \A r \in Confinement!checkSensitiveMounts(w) : \E sev, x, on : r = Confinement!result(11, sev, "fail", x, on)
      BY <3>s
    <3> QED
      BY <3>1, <3>2, FamilySays
  <2> QED
    BY <2>1 DEF Judged, checkOf, flawed
<1>12. Judged(w, 12)
  <2>1. /\ About(Confinement!checkMemoryLimit(w), 12)
        /\ (Fails(Confinement!checkMemoryLimit(w)) <=> ~(w.memory > 0))
    BY DEF Confinement!checkMemoryLimit, About, Fails, Confinement!verdict, Confinement!result, bad
  <2> QED
    BY <2>1 DEF Judged, checkOf, flawed
<1>13. Judged(w, 13)
  <2>1. About(Confinement!checkPidsLimit(w), 13) /\ (Fails(Confinement!checkPidsLimit(w)) <=> FALSE)
    BY DEF Confinement!checkPidsLimit, About, Fails, Confinement!verdict, Confinement!result, bad
  <2> QED
    BY <2>1 DEF Judged, checkOf, flawed
<1>14. Judged(w, 14)
  <2>1. /\ About(Confinement!checkUserNamespace(w), 14)
        /\ (Fails(Confinement!checkUserNamespace(w)) <=> w.hostUsers)
    BY DEF Confinement!checkUserNamespace, About, Fails, Confinement!verdict, Confinement!result, bad
  <2> QED
    BY <2>1 DEF Judged, checkOf, flawed
<1>15. Judged(w, 15)
  <2>1. /\ About(Confinement!checkSetuidNeutralized(w), 15)
        /\ (Fails(Confinement!checkSetuidNeutralized(w)) <=> (~(w.nnp /\ Confinement!heldCaps(w) \cap {"SETUID", "SETGID"} = {})))
    BY DEF Confinement!checkSetuidNeutralized, About, Fails, Confinement!verdict, Confinement!result, bad
  <2> QED
    BY <2>1 DEF Judged, checkOf, flawed
<1>16. Judged(w, 16)
  <2>1. About(Confinement!checkMaskedPaths(w), 16) /\ (Fails(Confinement!checkMaskedPaths(w)) <=> FALSE)
    <3>1. /\ About(Confinement!checkMaskedPaths(w), 16)
          /\ (Fails(Confinement!checkMaskedPaths(w)) <=> ("na" \in bad))
      BY ResultSays DEF Confinement!checkMaskedPaths
    <3> QED
      BY <3>1 DEF bad, About, Fails
  <2> QED
    BY <2>1 DEF Judged, checkOf, flawed
<1>17. Judged(w, 17)
  <2>1. About(Confinement!checkGPUDevices(w), 17) /\ (Fails(Confinement!checkGPUDevices(w)) <=> (w.gpu = "all"))
    <3>1. Confinement!detectGPU(w).all = (w.gpu = "all") /\ (w.gpu = "all" => Confinement!detectGPU(w).present)
      BY DEF Confinement!detectGPU
    <3> QED
      <4> DEFINE there == Confinement!detectGPU(w).present
                 status == IF Confinement!detectGPU(w).all THEN "fail" ELSE "info"
      <4>1. Confinement!checkGPUDevices(w) =
              IF there THEN {Confinement!result(17, Confinement!Medium, status, w, "")} ELSE {}
        BY DEF Confinement!checkGPUDevices
      <4>2. status \in bad <=> w.gpu = "all"
        BY <3>1 DEF bad
      <4>3. /\ About({Confinement!result(17, Confinement!Medium, status, w, "")}, 17)
            /\ (Fails({Confinement!result(17, Confinement!Medium, status, w, "")}) <=> (status \in bad))
        <5>1. \A id, sev, st, on :
                /\ About({Confinement!result(id, sev, st, w, on)}, id)
                /\ (Fails({Confinement!result(id, sev, st, w, on)}) <=> (st \in bad))
          BY ResultSays, Zenon
        <5> HIDE DEF status
        <5> QED
          BY <5>1, Zenon
      <4>4. w.gpu = "all" => there
        BY <3>1
      <4> HIDE DEF there, status
      <4>5. CASE there
        BY <4>1, <4>2, <4>3, <4>5 DEF About, Fails
      <4>6. CASE ~there
        BY <4>1, <4>4, <4>6 DEF About, Fails
      <4> QED
        BY <4>5, <4>6
  <2> QED
    BY <2>1 DEF Judged, checkOf, flawed
<1>18. Judged(w, 18)
  <2>1. About(Confinement!checkGPUSharing(w), 18) /\ (Fails(Confinement!checkGPUSharing(w)) <=> FALSE)
    <3>1. /\ About({Confinement!result(18, Confinement!Medium, "info", w, "")}, 18)
          /\ (Fails({Confinement!result(18, Confinement!Medium, "info", w, "")}) <=> ("info" \in bad))
      <4>1. \A id, sev, status, on :
              /\ About({Confinement!result(id, sev, status, w, on)}, id)
              /\ (Fails({Confinement!result(id, sev, status, w, on)}) <=> (status \in bad))
        BY ResultSays, Zenon
      <4> QED
        BY <4>1, Zenon
    <3>2. /\ About(Confinement!checkGPUSharing(w), 18)
          /\ (Fails(Confinement!checkGPUSharing(w)) <=> ("info" \in bad))
      BY <3>1 DEF Confinement!checkGPUSharing, About, Fails, bad
    <3> QED
      BY <3>2 DEF bad, About, Fails
  <2> QED
    BY <2>1 DEF Judged, checkOf, flawed
<1> QED
  BY <1>1, <1>2, <1>3, <1>4, <1>5, <1>6, <1>7, <1>8, <1>9, <1>10, <1>11, <1>12, <1>13, <1>14, <1>15, <1>16, <1>17, <1>18

\* The controls that fail in a report are the flaws.
LEMMA FailingIs ==
  ASSUME NEW w, w.source = "kubernetes"
  PROVE  Confinement!Failing(Confinement!Verify(w)) = {k \in 1 .. 18 : flawed(w, k)}
<1>1. \A r : r \in Confinement!Verify(w) <=> \E k \in 1 .. 18 : r \in checkOf(w, k)
  <2>1. Confinement!Verify(w) = UNION {checkOf(w, k) : k \in 1 .. 18}
    BY DEF Confinement!Verify, checkOf
  <2> QED
    BY <2>1
<1>2. \A k \in 1 .. 18 : Judged(w, k)
  BY EachSays
<1>3. \A k \in 1 .. 18 : (\A r \in checkOf(w, k) : r.id = k) /\ ((\E r \in checkOf(w, k) : r.status \in bad) <=> flawed(w, k))
  BY <1>2 DEF Judged, About, Fails
<1>4. Confinement!Failing(Confinement!Verify(w)) = {r.id : r \in {x \in Confinement!Verify(w) : x.status \in bad}}
  BY DEF Confinement!Failing, bad
<1> QED
  BY <1>1, <1>3, <1>4

\* The controls with an exception in force, and those a workload fails.
inForce(X, now) == {e.control : e \in {x \in X : Confinement!activeAt(x, now)}}
flaws(w) == {k \in 1 .. 18 : flawed(w, k)}

\* Exceptions in force take their controls out of the report.
LEMMA EffectiveIs ==
  ASSUME NEW w, w.source = "kubernetes", NEW X, NEW now
  PROVE  {r.id : r \in {x \in Confinement!ApplyExceptions(Confinement!Verify(w), X, now) : x.status \in {"fail", "warn"}}}
           = flaws(w) \ inForce(X, now)
<1> DEFINE rep == Confinement!Verify(w)
<1>1. Confinement!ApplyExceptions(rep, X, now) = {r \in rep : ~(r.id \in inForce(X, now) /\ r.status \in {"fail", "warn"})}
  BY DEF Confinement!ApplyExceptions, inForce
<1>2. flaws(w) = {r.id : r \in {x \in rep : x.status \in {"fail", "warn"}}}
  BY FailingIs DEF flaws, Confinement!Failing
<1> HIDE DEF rep
<1>3. {x \in Confinement!ApplyExceptions(rep, X, now) : x.status \in {"fail", "warn"}}
        = {x \in rep : x.status \in {"fail", "warn"} /\ x.id \notin inForce(X, now)}
  BY <1>1
<1>4. ASSUME NEW k PROVE k \in {r.id : r \in {x \in rep : x.status \in {"fail", "warn"} /\ x.id \notin inForce(X, now)}}
                          <=> k \in {r.id : r \in {x \in rep : x.status \in {"fail", "warn"}}} /\ k \notin inForce(X, now)
  OBVIOUS
<1> QED
  BY <1>2, <1>3, <1>4 DEF rep

\* v is w with the patch of the keys K merged into it.
Merged(w, v, K) ==
  /\ v.adds = w.adds /\ v.shares = w.shares /\ v.mounts = w.mounts /\ v.hostUsers = w.hostUsers /\ v.gpu = w.gpu
  /\ v.privileged <=> w.privileged /\ "privileged" \notin K
  /\ v.nnp <=> w.nnp \/ "escalation" \in K
  /\ v.nonRoot <=> w.nonRoot \/ "nonRoot" \in K
  /\ v.readonly <=> w.readonly \/ "readonly" \in K
  /\ v.drops = (IF "drops" \in K THEN {"ALL"} ELSE w.drops)
  /\ v.user = (IF "user" \in K THEN 65532 ELSE w.user)
  /\ v.seccomp = (IF "seccomp" \in K THEN "localhost" ELSE w.seccomp)
  /\ v.apparmor = (IF "apparmor" \in K THEN "localhost" ELSE w.apparmor)
  /\ v.memory = (IF "memory" \in K THEN 512 ELSE w.memory)

\* The keys of a patch, control by control.
LEMMA PatchKeys ==
  ASSUME NEW w, NEW S
  PROVE  /\ "privileged" \in Confinement!patched(w, S) <=> 1 \in S
         /\ "drops" \in Confinement!patched(w, S) <=> S \cap {1, 3, 4} # {}
         /\ "escalation" \in Confinement!patched(w, S) <=> S \cap {1, 5, 15} # {}
         /\ "nonRoot" \in Confinement!patched(w, S) <=> 2 \in S
         /\ "user" \in Confinement!patched(w, S) => 2 \in S
         /\ "readonly" \in Confinement!patched(w, S) <=> 6 \in S
         /\ "seccomp" \in Confinement!patched(w, S) <=> 7 \in S
         /\ "apparmor" \in Confinement!patched(w, S) <=> 8 \in S
         /\ "memory" \in Confinement!patched(w, S) <=> 12 \in S /\ w.memory = 0
  BY DEF Confinement!patched

\* A control with a fix of its own: fixed where it failed, and never broken.
LEMMA FixedByPatch ==
  ASSUME NEW w, NEW v, NEW S, Merged(w, v, Confinement!patched(w, S)), NEW k \in {1, 2, 3, 5, 6, 7, 8}
  PROVE  (k \in S => ~flawed(v, k)) /\ (flawed(v, k) => flawed(w, k))
<1> DEFINE K == Confinement!patched(w, S)
<1> HIDE DEF K
<1>k. Merged(w, v, K)
  BY DEF K
<1>1. CASE k = 1
  <2>1. 1 \in S => "privileged" \in K
    BY PatchKeys DEF K
  <2>2. v.privileged <=> w.privileged /\ "privileged" \notin K
    BY <1>k DEF Merged
  <2>3. (flawed(w, 1) <=> w.privileged) /\ (flawed(v, 1) <=> v.privileged)
    BY DEF flawed
  <2> QED
    BY <1>1, <2>1, <2>2, <2>3
<1>2. CASE k = 2
  <2>1. 2 \in S <=> "nonRoot" \in K
    BY PatchKeys DEF K
  <2>2. /\ v.nonRoot <=> w.nonRoot \/ "nonRoot" \in K
        /\ "nonRoot" \notin K => v.user = w.user
    BY <1>k, <2>1, PatchKeys DEF Merged, K
  <2>3. (flawed(w, 2) <=> ~(w.nonRoot \/ w.user > 0)) /\ (flawed(v, 2) <=> ~(v.nonRoot \/ v.user > 0))
    BY DEF flawed
  <2> QED
    BY <1>2, <2>1, <2>2, <2>3
<1>3. CASE k = 3
  <2>1. /\ (1 \in S \/ 3 \in S) => "drops" \in K
        /\ "privileged" \in K => 1 \in S
    BY PatchKeys DEF K
  <2>2. /\ v.privileged <=> w.privileged /\ "privileged" \notin K
        /\ v.drops = IF "drops" \in K THEN {"ALL"} ELSE w.drops
    BY <1>k DEF Merged
  <2>3. /\ flawed(w, 3) <=> ~w.privileged /\ "ALL" \notin w.drops
        /\ flawed(v, 3) <=> ~v.privileged /\ "ALL" \notin v.drops
    BY DEF flawed
  <2>4. "drops" \in K => ~flawed(v, 3)
    BY <2>2, <2>3
  <2>5. "drops" \notin K => (flawed(v, 3) <=> flawed(w, 3))
    BY <2>1, <2>2, <2>3
  <2> QED
    BY <1>3, <2>1, <2>4, <2>5
<1>5. CASE k = 5
  <2>1. 5 \in S => "escalation" \in K
    BY PatchKeys DEF K
  <2>2. v.nnp <=> w.nnp \/ "escalation" \in K
    BY <1>k DEF Merged
  <2>3. (flawed(w, 5) <=> ~w.nnp) /\ (flawed(v, 5) <=> ~v.nnp)
    BY DEF flawed
  <2> QED
    BY <1>5, <2>1, <2>2, <2>3
<1>6. CASE k = 6
  <2>1. 6 \in S <=> "readonly" \in K
    BY PatchKeys DEF K
  <2>2. v.readonly <=> w.readonly \/ "readonly" \in K
    BY <1>k DEF Merged
  <2>3. (flawed(w, 6) <=> ~w.readonly) /\ (flawed(v, 6) <=> ~v.readonly)
    BY DEF flawed
  <2> QED
    BY <1>6, <2>1, <2>2, <2>3
<1>7. CASE k = 7
  <2>1. 7 \in S <=> "seccomp" \in K
    BY PatchKeys DEF K
  <2>2. v.seccomp = IF "seccomp" \in K THEN "localhost" ELSE w.seccomp
    BY <1>k DEF Merged
  <2>3. (flawed(w, 7) <=> w.seccomp \in {"", "unconfined"}) /\ (flawed(v, 7) <=> v.seccomp \in {"", "unconfined"})
    BY DEF flawed
  <2> QED
    BY <1>7, <2>1, <2>2, <2>3
<1>8. CASE k = 8
  <2>1. 8 \in S <=> "apparmor" \in K
    BY PatchKeys DEF K
  <2>2. v.apparmor = IF "apparmor" \in K THEN "localhost" ELSE w.apparmor
    BY <1>k DEF Merged
  <2>3. (flawed(w, 8) <=> w.apparmor \in {"", "unconfined"}) /\ (flawed(v, 8) <=> v.apparmor \in {"", "unconfined"})
    BY DEF flawed
  <2> QED
    BY <1>8, <2>1, <2>2, <2>3
<1> QED
  BY <1>1, <1>2, <1>3, <1>5, <1>6, <1>7, <1>8

\* A control without a fix, or whose fix leaves it: it fails as before.
LEMMA LeftByPatch ==
  ASSUME NEW w, NEW v, NEW K, Merged(w, v, K), NEW k \in {4, 9, 10, 11, 13, 14, 16, 17, 18}
  PROVE  /\ flawed(v, k) <=> flawed(w, k)
         /\ k \in {13, 16, 18} => ~flawed(v, k)
<1>m. v.mounts = w.mounts /\ v.shares = w.shares /\ v.hostUsers = w.hostUsers /\ v.gpu = w.gpu /\ v.adds = w.adds
  BY DEF Merged
<1>4. CASE k = 4
  BY <1>m, <1>4 DEF flawed
<1>9. CASE k = 9
  BY <1>m, <1>9 DEF flawed
<1>10. CASE k = 10
  BY <1>m, <1>10 DEF flawed, socketAt
<1>11. CASE k = 11
  BY <1>m, <1>11 DEF flawed, sensitiveAt
<1>14. CASE k = 14
  BY <1>m, <1>14 DEF flawed
<1>17. CASE k = 17
  BY <1>m, <1>17 DEF flawed
<1>13. CASE k = 13
  BY <1>13 DEF flawed
<1>16. CASE k = 16
  BY <1>16 DEF flawed
<1>18. CASE k = 18
  BY <1>18 DEF flawed
<1> QED
  BY <1>4, <1>9, <1>10, <1>11, <1>13, <1>14, <1>16, <1>17, <1>18

\* A memory limit is set where there is none.
LEMMA LimitedByPatch ==
  ASSUME NEW w, NEW v, NEW S, Merged(w, v, Confinement!patched(w, S))
  PROVE  (12 \in S /\ w.memory = 0 => ~flawed(v, 12)) /\ (flawed(v, 12) => flawed(w, 12))
<1>1. "memory" \in Confinement!patched(w, S) <=> 12 \in S /\ w.memory = 0
  BY PatchKeys
<1>2. v.memory = IF "memory" \in Confinement!patched(w, S) THEN 512 ELSE w.memory
  BY DEF Merged
<1>3. (flawed(w, 12) <=> ~(w.memory > 0)) /\ (flawed(v, 12) <=> ~(v.memory > 0))
  BY DEF flawed
<1>4. CASE "memory" \in Confinement!patched(w, S)
  <2>1. v.memory = 512
    BY <1>2, <1>4
  <2> QED
    BY <1>3, <2>1
<1>5. CASE "memory" \notin Confinement!patched(w, S)
  BY <1>1, <1>2, <1>3, <1>5
<1> QED
  BY <1>4, <1>5

\* What the setuid control looks for, and whether the container holds it.
setuid == {"SETUID", "SETGID"}
retains(w) == Confinement!heldCaps(w) \cap setuid # {}

\* The setuid control: fixed but for what the container holds.
LEMMA SetuidByPatch ==
  ASSUME NEW w, NEW v, NEW S, Merged(w, v, Confinement!patched(w, S))
  PROVE  /\ S \cap {1, 5, 15} # {} => (flawed(v, 15) <=> retains(v))
         /\ flawed(v, 15) => flawed(w, 15) \/ "drops" \in Confinement!patched(w, S)
         /\ flawed(v, 15) /\ ~retains(v) => flawed(w, 15) /\ 15 \notin S
<1> DEFINE K == Confinement!patched(w, S)
<1>1. "escalation" \in K <=> S \cap {1, 5, 15} # {}
  BY PatchKeys
<1>2. 1 \in S => "drops" \in K
  BY PatchKeys
<1>3. "privileged" \in K => 1 \in S
  BY PatchKeys
<1> HIDE DEF K
<1>4. /\ v.nnp <=> w.nnp \/ "escalation" \in K
      /\ v.privileged <=> w.privileged /\ "privileged" \notin K
      /\ v.drops = (IF "drops" \in K THEN {"ALL"} ELSE w.drops)
      /\ v.adds = w.adds
  BY DEF Merged, K
<1>5. (flawed(w, 15) <=> ~w.nnp \/ retains(w)) /\ (flawed(v, 15) <=> ~v.nnp \/ retains(v))
  BY DEF flawed, retains, setuid
<1>6. "drops" \notin K => (retains(v) <=> retains(w))
  <2> SUFFICES ASSUME "drops" \notin K PROVE retains(v) <=> retains(w)
    OBVIOUS
  <2>1. v.drops = w.drops /\ v.adds = w.adds /\ (v.privileged <=> w.privileged)
    BY <1>2, <1>3, <1>4
  <2>2. Confinement!heldCaps(v) = Confinement!heldCaps(w)
    BY <2>1 DEF Confinement!heldCaps
  <2> QED
    BY <2>2 DEF retains
<1>7. flawed(v, 15) => flawed(w, 15) \/ "drops" \in K
  BY <1>4, <1>5, <1>6
<1>8. S \cap {1, 5, 15} # {} => (flawed(v, 15) <=> retains(v))
  BY <1>1, <1>4, <1>5
<1>9. flawed(v, 15) /\ ~retains(v) => flawed(w, 15) /\ 15 \notin S
  <2> SUFFICES ASSUME flawed(v, 15), ~retains(v) PROVE flawed(w, 15) /\ 15 \notin S
    OBVIOUS
  <2>1. S \cap {1, 5, 15} = {}
    BY <1>8
  <2>2. ~v.nnp
    BY <1>5
  <2>3. ~w.nnp
    BY <1>4, <2>2
  <2> QED
    BY <1>5, <2>1, <2>3
<1> QED
  BY <1>7, <1>8, <1>9 DEF K

\* The container adds a dangerous capability.
dangers(w) == w.adds \cap Confinement!dangerous # {}

\* Control by control, what a patch for the flaws outside W does.
LEMMA PatchWorks ==
  ASSUME NEW w, NEW v, NEW W, NEW S, S = flaws(w) \ W, Merged(w, v, Confinement!patched(w, S)),
         NEW k \in 1 .. 18
  PROVE  /\ flawed(v, k) => flawed(w, k) \/ (k = 15 /\ "drops" \in Confinement!patched(w, S))
         /\ k \in Confinement!addressed(w, S) => (flawed(v, k) <=> (k = 4 /\ dangers(v)) \/ (k = 15 /\ retains(v)))
         /\ flawed(v, k) => \/ k \in {9, 10, 11, 12, 13, 14, 17} \cup W
                            \/ (k = 4 /\ dangers(v)) \/ (k = 15 /\ retains(v))
<1>0. k \in S <=> flawed(w, k) /\ k \notin W
  BY DEF flaws
<1>a. k \in Confinement!addressed(w, S) => k \in S /\ k \in {1, 2, 3, 4, 5, 6, 7, 8, 12, 15} /\ (k = 12 => w.memory = 0)
  BY DEF Confinement!addressed
<1>1. CASE k \in {1, 2, 3, 5, 6, 7, 8}
  <2>1. (k \in S => ~flawed(v, k)) /\ (flawed(v, k) => flawed(w, k))
    BY <1>1, FixedByPatch
  <2>2. k # 4 /\ k # 15
    BY <1>1
  <2> QED
    BY <1>0, <1>a, <2>1, <2>2
<1>2. CASE k = 4
  <2>1. flawed(v, 4) <=> flawed(w, 4)
    BY LeftByPatch
  <2>2. flawed(v, 4) <=> dangers(v)
    BY DEF flawed, dangers
  <2>3. k \in Confinement!addressed(w, S) => flawed(w, 4)
    BY <1>0, <1>a, <1>2
  <2> QED
    BY <1>2, <2>1, <2>2, <2>3
<1>3. CASE k \in {9, 10, 11, 13, 14, 16, 17, 18}
  <2>1. (flawed(v, k) <=> flawed(w, k)) /\ (k \in {13, 16, 18} => ~flawed(v, k))
    BY <1>3, LeftByPatch
  <2>2. k \notin Confinement!addressed(w, S)
    BY <1>3, <1>a
  <2>3. flawed(v, k) => k \in {9, 10, 11, 14, 17}
    BY <1>3, <2>1
  <2> QED
    BY <2>1, <2>2, <2>3
<1>4. CASE k = 12
  <2>1. (12 \in S /\ w.memory = 0 => ~flawed(v, 12)) /\ (flawed(v, 12) => flawed(w, 12))
    BY LimitedByPatch
  <2> QED
    BY <1>4, <1>a, <2>1
<1>5. CASE k = 15
  <2>1. /\ 15 \in S => (flawed(v, 15) <=> retains(v))
        /\ flawed(v, 15) => flawed(w, 15) \/ "drops" \in Confinement!patched(w, S)
        /\ flawed(v, 15) /\ ~retains(v) => flawed(w, 15) /\ 15 \notin S
    BY SetuidByPatch
  <2> QED
    BY <1>5, <1>0, <1>a, <2>1
<1> QED
  BY <1>1, <1>2, <1>3, <1>4, <1>5

\* What a patch may set, and what is listed of a container.
patchKeys == {"privileged", "drops", "escalation", "nonRoot", "user", "readonly", "seccomp", "apparmor", "memory"}
listedFields == {"name", "ctx", "mounts", "memory", "gpu"}

\* What of a pod its containers inherit.
SamePod(pod, q) ==
  /\ q.name = pod.name /\ q.ctx = pod.ctx /\ q.shares = pod.shares /\ q.hostUsers = pod.hostUsers
  /\ q.volumes = pod.volumes /\ q.annotations = pod.annotations /\ q.class = pod.class

\* A key of a merged context is the patch's or the container's own.
LEMMA MergedContext ==
  ASSUME NEW c, DOMAIN c = listedFields, NEW K \in SUBSET patchKeys
  PROVE  LET d == Confinement!Merge(c, K)
         IN /\ DOMAIN d = listedFields
            /\ d.name = c.name /\ d.mounts = c.mounts /\ d.gpu = c.gpu
            /\ d.memory = IF "memory" \in K THEN 512 ELSE c.memory
            /\ DOMAIN d.ctx = DOMAIN c.ctx \cup (K \ {"memory"})
            /\ \A k \in DOMAIN d.ctx : d.ctx[k] = IF k \in K THEN Confinement!fix[k] ELSE c.ctx[k]
<1> DEFINE ctx == [k \in DOMAIN c.ctx \cup (K \ {"memory"}) |-> IF k \in K THEN Confinement!fix[k] ELSE c.ctx[k]]
           limit == IF "memory" \in K THEN Confinement!fix.memory ELSE c.memory
<1>1. Confinement!Merge(c, K) = [c EXCEPT !.ctx = ctx, !.memory = limit]
  BY DEF Confinement!Merge, listedFields
<1>2. /\ DOMAIN ctx = DOMAIN c.ctx \cup (K \ {"memory"})
      /\ \A k \in DOMAIN ctx : ctx[k] = IF k \in K THEN Confinement!fix[k] ELSE c.ctx[k]
  OBVIOUS
<1>3. limit = IF "memory" \in K THEN 512 ELSE c.memory
  BY DEF Confinement!fix
<1> HIDE DEF ctx, limit
<1>4. LET d == [c EXCEPT !.ctx = ctx, !.memory = limit]
      IN DOMAIN d = listedFields /\ d.name = c.name /\ d.mounts = c.mounts /\ d.gpu = c.gpu
           /\ d.memory = limit /\ d.ctx = ctx
  BY DEF listedFields
<1> QED
  BY <1>1, <1>2, <1>3, <1>4

\* A key of a patch sets its value, a key that is not in it leaves the setting.
Overlaid(d, c, K) ==
  /\ \A k : k # "memory" =>
       /\ k \in K => k \in DOMAIN d.ctx /\ d.ctx[k] = Confinement!fix[k]
       /\ k \notin K => (k \in DOMAIN d.ctx <=> k \in DOMAIN c.ctx)
       /\ k \notin K /\ k \in DOMAIN c.ctx => d.ctx[k] = c.ctx[k]
  /\ d.name = c.name /\ d.mounts = c.mounts /\ d.gpu = c.gpu
  /\ d.memory = IF "memory" \in K THEN 512 ELSE c.memory

\* Merging a patch into a container.
LEMMA MergeOverlays ==
  ASSUME NEW c, DOMAIN c = listedFields, NEW K \in SUBSET patchKeys
  PROVE  Overlaid(Confinement!Merge(c, K), c, K)
<1> DEFINE d == Confinement!Merge(c, K)
<1>1. /\ DOMAIN d.ctx = DOMAIN c.ctx \cup (K \ {"memory"})
      /\ \A j \in DOMAIN d.ctx : d.ctx[j] = IF j \in K THEN Confinement!fix[j] ELSE c.ctx[j]
      /\ d.name = c.name /\ d.mounts = c.mounts /\ d.gpu = c.gpu
      /\ d.memory = IF "memory" \in K THEN 512 ELSE c.memory
  BY MergedContext
<1> HIDE DEF d
<1>2. ASSUME NEW k, k # "memory"
      PROVE  /\ k \in K => k \in DOMAIN d.ctx /\ d.ctx[k] = Confinement!fix[k]
             /\ k \notin K => (k \in DOMAIN d.ctx <=> k \in DOMAIN c.ctx)
             /\ k \notin K /\ k \in DOMAIN c.ctx => d.ctx[k] = c.ctx[k]
  <2>1. k \in K => k \in DOMAIN d.ctx /\ d.ctx[k] = Confinement!fix[k]
    BY <1>1, <1>2
  <2>2. k \notin K => (k \in DOMAIN d.ctx <=> k \in DOMAIN c.ctx)
    BY <1>1, <1>2
  <2>3. k \notin K /\ k \in DOMAIN c.ctx => d.ctx[k] = c.ctx[k]
    BY <1>1, <1>2
  <2> QED
    BY <2>1, <2>2, <2>3
<1>3. Overlaid(d, c, K)
  BY <1>1, <1>2 DEF Overlaid
<1> QED
  BY <1>3 DEF d

\* One key of a merged context.
LEMMA Overlays ==
  ASSUME NEW d, NEW c, NEW K, Overlaid(d, c, K), NEW k, k # "memory"
  PROVE  /\ k \in K => k \in DOMAIN d.ctx /\ d.ctx[k] = Confinement!fix[k]
         /\ k \notin K => (k \in DOMAIN d.ctx <=> k \in DOMAIN c.ctx)
         /\ k \notin K /\ k \in DOMAIN c.ctx => d.ctx[k] = c.ctx[k]
  BY DEF Overlaid

\* A flag that is there and true.
isSet(r, k) == k \in DOMAIN r /\ r[k]

\* The flags of a container's workload.
LEMMA FlagsRead ==
  ASSUME NEW pod, NEW c
  PROVE  LET w == Confinement!kubeContainerWorkload(pod, c)
         IN /\ w.privileged <=> isSet(c.ctx, "privileged")
            /\ w.readonly <=> isSet(c.ctx, "readonly")
            /\ w.nnp <=> "escalation" \in DOMAIN c.ctx /\ ~c.ctx["escalation"]
            /\ w.nonRoot <=> IF "nonRoot" \in DOMAIN c.ctx THEN c.ctx["nonRoot"] ELSE isSet(pod.ctx, "nonRoot")
<1> DEFINE w == Confinement!kubeContainerWorkload(pod, c)
<1>1. w.privileged <=> isSet(c.ctx, "privileged")
  BY DEF Confinement!kubeContainerWorkload, Confinement!field, Confinement!Has, isSet
<1>2. w.readonly <=> isSet(c.ctx, "readonly")
  BY DEF Confinement!kubeContainerWorkload, Confinement!field, Confinement!Has, isSet
<1>3. w.nnp <=> "escalation" \in DOMAIN c.ctx /\ ~c.ctx["escalation"]
  BY DEF Confinement!kubeContainerWorkload, Confinement!field, Confinement!Has, isSet
<1>4. w.nonRoot <=> IF "nonRoot" \in DOMAIN c.ctx THEN c.ctx["nonRoot"] ELSE isSet(pod.ctx, "nonRoot")
  BY DEF Confinement!kubeContainerWorkload, Confinement!field, Confinement!Has, isSet, Confinement!settled
<1> QED
  BY <1>1, <1>2, <1>3, <1>4

\* Its other settings.
LEMMA SettingsRead ==
  ASSUME NEW pod, NEW c
  PROVE  LET w == Confinement!kubeContainerWorkload(pod, c)
         IN /\ w.user = Confinement!field(c.ctx, "user", Confinement!field(pod.ctx, "user", -1))
            /\ w.adds = Confinement!field(c.ctx, "adds", {}) /\ w.drops = Confinement!field(c.ctx, "drops", {})
            /\ w.seccomp = Confinement!seccompMode(c, pod) /\ w.apparmor = Confinement!appArmor(c, pod)
            /\ w.shares = pod.shares /\ w.hostUsers = (pod.hostUsers # "false") /\ w.gpu = c.gpu
            /\ w.memory = c.memory /\ w.source = "kubernetes"
            /\ w.mounts = {[source |-> Confinement!field(pod.volumes, m.volume, <<>>), dest |-> m.dest] : m \in c.mounts}
  BY DEF Confinement!kubeContainerWorkload, Confinement!settled

\* De-privileging, key by key of the patch.
LEMMA PrivilegedMerges ==
  ASSUME NEW d, NEW c, NEW K, Overlaid(d, c, K)
  PROVE  isSet(d.ctx, "privileged") <=> isSet(c.ctx, "privileged") /\ "privileged" \notin K
<1>0. ~Confinement!fix["privileged"]
  BY DEF Confinement!fix
<1>1. /\ "privileged" \in K => "privileged" \in DOMAIN d.ctx /\ d.ctx["privileged"] = Confinement!fix["privileged"]
      /\ "privileged" \notin K => ("privileged" \in DOMAIN d.ctx <=> "privileged" \in DOMAIN c.ctx)
      /\ "privileged" \notin K /\ "privileged" \in DOMAIN c.ctx => d.ctx["privileged"] = c.ctx["privileged"]
  BY Overlays
<1> QED
  BY <1>0, <1>1, Zenon DEF isSet

\* Escalation is off where the patch or the container turns it off.
LEMMA EscalationMerges ==
  ASSUME NEW d, NEW c, NEW K, Overlaid(d, c, K)
  PROVE  ("escalation" \in DOMAIN d.ctx /\ ~d.ctx["escalation"])
           <=> ("escalation" \in DOMAIN c.ctx /\ ~c.ctx["escalation"]) \/ "escalation" \in K
<1>0. ~Confinement!fix["escalation"]
  BY DEF Confinement!fix
<1>1. /\ "escalation" \in K => "escalation" \in DOMAIN d.ctx /\ d.ctx["escalation"] = Confinement!fix["escalation"]
      /\ "escalation" \notin K => ("escalation" \in DOMAIN d.ctx <=> "escalation" \in DOMAIN c.ctx)
      /\ "escalation" \notin K /\ "escalation" \in DOMAIN c.ctx => d.ctx["escalation"] = c.ctx["escalation"]
  BY Overlays
<1> QED
  BY <1>0, <1>1, Zenon

\* A read-only root stays one.
LEMMA ReadonlyMerges ==
  ASSUME NEW d, NEW c, NEW K, Overlaid(d, c, K)
  PROVE  isSet(d.ctx, "readonly") <=> isSet(c.ctx, "readonly") \/ "readonly" \in K
<1>0. Confinement!fix["readonly"]
  BY DEF Confinement!fix
<1>1. /\ "readonly" \in K => "readonly" \in DOMAIN d.ctx /\ d.ctx["readonly"] = Confinement!fix["readonly"]
      /\ "readonly" \notin K => ("readonly" \in DOMAIN d.ctx <=> "readonly" \in DOMAIN c.ctx)
      /\ "readonly" \notin K /\ "readonly" \in DOMAIN c.ctx => d.ctx["readonly"] = c.ctx["readonly"]
  BY Overlays
<1> QED
  BY <1>0, <1>1, Zenon DEF isSet

\* So does the demand not to run as root, of the container or of the pod.
LEMMA NonRootMerges ==
  ASSUME NEW d, NEW c, NEW K, Overlaid(d, c, K), NEW inherited
  PROVE  (IF "nonRoot" \in DOMAIN d.ctx THEN d.ctx["nonRoot"] ELSE isSet(inherited, "nonRoot"))
           <=> (IF "nonRoot" \in DOMAIN c.ctx THEN c.ctx["nonRoot"] ELSE isSet(inherited, "nonRoot")) \/ "nonRoot" \in K
<1>0. Confinement!fix["nonRoot"]
  BY DEF Confinement!fix
<1>1. /\ "nonRoot" \in K => "nonRoot" \in DOMAIN d.ctx /\ d.ctx["nonRoot"] = Confinement!fix["nonRoot"]
      /\ "nonRoot" \notin K => ("nonRoot" \in DOMAIN d.ctx <=> "nonRoot" \in DOMAIN c.ctx)
      /\ "nonRoot" \notin K /\ "nonRoot" \in DOMAIN c.ctx => d.ctx["nonRoot"] = c.ctx["nonRoot"]
  BY Overlays
<1>2. CASE "nonRoot" \in K
  <2>1. IF "nonRoot" \in DOMAIN d.ctx THEN d.ctx["nonRoot"] ELSE isSet(inherited, "nonRoot")
    BY <1>0, <1>1, <1>2, Zenon
  <2> QED
    BY <1>2, <2>1
<1>3. CASE "nonRoot" \notin K
  BY <1>1, <1>3, Zenon
<1> QED
  BY <1>2, <1>3

\* A setting with a default, where it is not a flag.
LEMMA SettingMerges ==
  ASSUME NEW d, NEW c, NEW K, Overlaid(d, c, K), NEW k, k # "memory", NEW default
  PROVE  Confinement!field(d.ctx, k, default) = IF k \in K THEN Confinement!fix[k] ELSE Confinement!field(c.ctx, k, default)
<1>1. /\ k \in K => k \in DOMAIN d.ctx /\ d.ctx[k] = Confinement!fix[k]
      /\ k \notin K => (k \in DOMAIN d.ctx <=> k \in DOMAIN c.ctx)
      /\ k \notin K /\ k \in DOMAIN c.ctx => d.ctx[k] = c.ctx[k]
  BY Overlays
<1> QED
  BY <1>1 DEF Confinement!field, Confinement!Has

\* The seccomp mode, the pod's where the container has none.
LEMMA SeccompMerges ==
  ASSUME NEW d, NEW c, NEW K, Overlaid(d, c, K), NEW pod, NEW q, q.ctx = pod.ctx
  PROVE  Confinement!seccompMode(d, q) = IF "seccomp" \in K THEN "localhost" ELSE Confinement!seccompMode(c, pod)
<1>1. /\ "seccomp" \in K => "seccomp" \in DOMAIN d.ctx /\ d.ctx["seccomp"] = Confinement!fix["seccomp"]
      /\ "seccomp" \notin K => ("seccomp" \in DOMAIN d.ctx <=> "seccomp" \in DOMAIN c.ctx)
      /\ "seccomp" \notin K /\ "seccomp" \in DOMAIN c.ctx => d.ctx["seccomp"] = c.ctx["seccomp"]
  BY Overlays
<1>2. CASE "seccomp" \in K
  <2>1. Confinement!field(d.ctx, "seccomp", "other") = "localhost" /\ d.ctx.seccomp = "localhost"
    BY <1>1, <1>2 DEF Confinement!field, Confinement!Has, Confinement!fix
  <2> QED
    BY <1>2, <2>1 DEF Confinement!seccompMode
<1>3. CASE "seccomp" \notin K
  <2>1. CASE "seccomp" \in DOMAIN c.ctx
    <3>1. "seccomp" \in DOMAIN d.ctx /\ d.ctx.seccomp = c.ctx.seccomp
      BY <1>1, <1>3, <2>1
    <3> QED
      BY <1>3, <2>1, <3>1 DEF Confinement!seccompMode, Confinement!field, Confinement!Has
  <2>2. CASE "seccomp" \notin DOMAIN c.ctx
    <3>1. "seccomp" \notin DOMAIN d.ctx
      BY <1>1, <1>3, <2>2
    <3> QED
      BY <1>3, <2>2, <3>1 DEF Confinement!seccompMode, Confinement!field, Confinement!Has
  <2> QED
    BY <2>1, <2>2
<1> QED
  BY <1>2, <1>3

\* The AppArmor profile, an annotation of the pod where the container has none.
LEMMA AppArmorMerges ==
  ASSUME NEW d, NEW c, NEW K, Overlaid(d, c, K), NEW pod, NEW q, q.annotations = pod.annotations
  PROVE  Confinement!appArmor(d, q) = IF "apparmor" \in K THEN "localhost" ELSE Confinement!appArmor(c, pod)
<1>1. /\ "apparmor" \in K => "apparmor" \in DOMAIN d.ctx /\ d.ctx["apparmor"] = Confinement!fix["apparmor"]
      /\ "apparmor" \notin K => ("apparmor" \in DOMAIN d.ctx <=> "apparmor" \in DOMAIN c.ctx)
      /\ "apparmor" \notin K /\ "apparmor" \in DOMAIN c.ctx => d.ctx["apparmor"] = c.ctx["apparmor"]
  BY Overlays
<1>d. d.name = c.name
  BY DEF Overlaid
<1>2. CASE "apparmor" \in K
  <2>1. "apparmor" \in DOMAIN d.ctx /\ d.ctx.apparmor = "localhost"
    BY <1>1, <1>2 DEF Confinement!fix
  <2> QED
    BY <1>2, <2>1 DEF Confinement!appArmor, Confinement!Has
<1>3. CASE "apparmor" \notin K
  <2>1. /\ "apparmor" \in DOMAIN d.ctx <=> "apparmor" \in DOMAIN c.ctx
        /\ "apparmor" \in DOMAIN c.ctx => d.ctx.apparmor = c.ctx.apparmor
    BY <1>1, <1>3
  <2> QED
    BY <1>d, <1>3, <2>1 DEF Confinement!appArmor, Confinement!Has
<1> QED
  BY <1>2, <1>3

\* The workload of a container that a patch was merged into.
LEMMA MergedWorkload ==
  ASSUME NEW pod, NEW q, SamePod(pod, q), NEW c, DOMAIN c = listedFields, NEW K \in SUBSET patchKeys
  PROVE  Merged(Confinement!kubeContainerWorkload(pod, c), Confinement!kubeContainerWorkload(q, Confinement!Merge(c, K)), K)
<1> DEFINE d == Confinement!Merge(c, K)
           w == Confinement!kubeContainerWorkload(pod, c)
           v == Confinement!kubeContainerWorkload(q, d)
<1>d. Overlaid(d, c, K)
  BY MergeOverlays
<1> HIDE DEF d
<1>w. /\ w.privileged <=> isSet(c.ctx, "privileged")
      /\ w.readonly <=> isSet(c.ctx, "readonly")
      /\ w.nnp <=> "escalation" \in DOMAIN c.ctx /\ ~c.ctx["escalation"]
      /\ w.nonRoot <=> IF "nonRoot" \in DOMAIN c.ctx THEN c.ctx["nonRoot"] ELSE isSet(pod.ctx, "nonRoot")
  BY FlagsRead
<1>v. /\ v.privileged <=> isSet(d.ctx, "privileged")
      /\ v.readonly <=> isSet(d.ctx, "readonly")
      /\ v.nnp <=> "escalation" \in DOMAIN d.ctx /\ ~d.ctx["escalation"]
      /\ v.nonRoot <=> IF "nonRoot" \in DOMAIN d.ctx THEN d.ctx["nonRoot"] ELSE isSet(q.ctx, "nonRoot")
  BY FlagsRead
<1>x. /\ w.user = Confinement!field(c.ctx, "user", Confinement!field(pod.ctx, "user", -1))
      /\ w.adds = Confinement!field(c.ctx, "adds", {}) /\ w.drops = Confinement!field(c.ctx, "drops", {})
      /\ w.seccomp = Confinement!seccompMode(c, pod) /\ w.apparmor = Confinement!appArmor(c, pod)
      /\ w.shares = pod.shares /\ w.hostUsers = (pod.hostUsers # "false") /\ w.gpu = c.gpu
      /\ w.memory = c.memory
      /\ w.mounts = {[source |-> Confinement!field(pod.volumes, m.volume, <<>>), dest |-> m.dest] : m \in c.mounts}
  BY SettingsRead
<1>y. /\ v.user = Confinement!field(d.ctx, "user", Confinement!field(q.ctx, "user", -1))
      /\ v.adds = Confinement!field(d.ctx, "adds", {}) /\ v.drops = Confinement!field(d.ctx, "drops", {})
      /\ v.seccomp = Confinement!seccompMode(d, q) /\ v.apparmor = Confinement!appArmor(d, q)
      /\ v.shares = q.shares /\ v.hostUsers = (q.hostUsers # "false") /\ v.gpu = d.gpu
      /\ v.memory = d.memory
      /\ v.mounts = {[source |-> Confinement!field(q.volumes, m.volume, <<>>), dest |-> m.dest] : m \in d.mounts}
  BY SettingsRead
<1> HIDE DEF w, v
<1>p. q.ctx = pod.ctx /\ q.volumes = pod.volumes /\ q.annotations = pod.annotations
      /\ q.shares = pod.shares /\ q.hostUsers = pod.hostUsers
  BY DEF SamePod
<1>k. d.mounts = c.mounts /\ d.gpu = c.gpu /\ d.memory = IF "memory" \in K THEN 512 ELSE c.memory
  BY <1>d DEF Overlaid
<1>1. v.adds = w.adds
  <2>1. "adds" \notin K
    BY DEF patchKeys
  <2> QED
    BY <1>d, <1>x, <1>y, <2>1, SettingMerges
<1>2. v.shares = w.shares /\ v.hostUsers = w.hostUsers /\ v.gpu = w.gpu /\ v.mounts = w.mounts
  BY <1>p, <1>k, <1>x, <1>y
<1>3. v.privileged <=> w.privileged /\ "privileged" \notin K
  BY <1>d, <1>w, <1>v, PrivilegedMerges
<1>4. v.nnp <=> w.nnp \/ "escalation" \in K
  BY <1>d, <1>w, <1>v, EscalationMerges
<1>5. v.readonly <=> w.readonly \/ "readonly" \in K
  BY <1>d, <1>w, <1>v, ReadonlyMerges
<1>6. v.nonRoot <=> w.nonRoot \/ "nonRoot" \in K
  BY <1>d, <1>p, <1>w, <1>v, NonRootMerges
<1>7. v.drops = (IF "drops" \in K THEN {"ALL"} ELSE w.drops)
  <2>1. Confinement!fix["drops"] = {"ALL"}
    BY DEF Confinement!fix
  <2>2. v.drops = Confinement!field(d.ctx, "drops", {}) /\ w.drops = Confinement!field(c.ctx, "drops", {})
    BY <1>x, <1>y
  <2>3. Confinement!field(d.ctx, "drops", {})
          = IF "drops" \in K THEN Confinement!fix["drops"] ELSE Confinement!field(c.ctx, "drops", {})
    BY <1>d, SettingMerges
  <2> QED
    BY <2>1, <2>2, <2>3
<1>8. v.user = (IF "user" \in K THEN 65532 ELSE w.user)
  <2>1. Confinement!fix["user"] = 65532
    BY DEF Confinement!fix
  <2> DEFINE inherited == Confinement!field(pod.ctx, "user", -1)
  <2>2. v.user = Confinement!field(d.ctx, "user", inherited) /\ w.user = Confinement!field(c.ctx, "user", inherited)
    BY <1>p, <1>x, <1>y
  <2> HIDE DEF inherited
  <2>3. Confinement!field(d.ctx, "user", inherited)
          = IF "user" \in K THEN Confinement!fix["user"] ELSE Confinement!field(c.ctx, "user", inherited)
    BY <1>d, SettingMerges
  <2> QED
    BY <2>1, <2>2, <2>3
<1>9. v.seccomp = (IF "seccomp" \in K THEN "localhost" ELSE w.seccomp)
  BY <1>d, <1>p, <1>x, <1>y, SeccompMerges
<1>10. v.apparmor = (IF "apparmor" \in K THEN "localhost" ELSE w.apparmor)
  BY <1>d, <1>p, <1>x, <1>y, AppArmorMerges
<1>11. v.memory = (IF "memory" \in K THEN 512 ELSE w.memory)
  BY <1>k, <1>x, <1>y
<1>12. Merged(w, v, K)
  BY <1>1, <1>2, <1>3, <1>4, <1>5, <1>6, <1>7, <1>8, <1>9, <1>10, <1>11 DEF Merged
<1> QED
  BY <1>12 DEF w, v, d

\* What the controls say of a container after its bundle was merged.
Works(w, v, b, W) ==
  LET stays == (IF v.adds \cap Confinement!dangerous # {} THEN {4} ELSE {})
               \cup (IF Confinement!heldCaps(v) \cap {"SETUID", "SETGID"} # {} THEN {15} ELSE {})
      after == Confinement!Failing(Confinement!Verify(v))
  IN /\ after \subseteq Confinement!Failing(Confinement!Verify(w)) \cup IF "drops" \in b.patch THEN {15} ELSE {}
     /\ b.addressed \cap after = b.addressed \cap stays
     /\ after \ stays \subseteq {9, 10, 11, 12, 13, 14, 17} \cup W

\* A bundle that fixes what failed and was not excepted.
Fixes(b, w, W) ==
  b.patch = Confinement!patched(w, flaws(w) \ W) /\ b.addressed = Confinement!addressed(w, flaws(w) \ W)

\* A merged bundle breaks nothing and fixes what it says.
LEMMA BundleWorks ==
  ASSUME NEW w, NEW v, w.source = "kubernetes", v.source = "kubernetes", NEW b, NEW W, Fixes(b, w, W),
         Merged(w, v, b.patch)
  PROVE  Works(w, v, b, W)
<1> DEFINE S == flaws(w) \ W
           stays == (IF v.adds \cap Confinement!dangerous # {} THEN {4} ELSE {})
                    \cup (IF Confinement!heldCaps(v) \cap {"SETUID", "SETGID"} # {} THEN {15} ELSE {})
           after == Confinement!Failing(Confinement!Verify(v))
           before == Confinement!Failing(Confinement!Verify(w))
<1>1. after = {k \in 1 .. 18 : flawed(v, k)} /\ before = {k \in 1 .. 18 : flawed(w, k)}
  BY FailingIs
<1>2. \A k : k \in stays <=> (k = 4 /\ dangers(v)) \/ (k = 15 /\ retains(v))
  BY DEF dangers, retains, setuid
<1>3. b.patch = Confinement!patched(w, S) /\ b.addressed = Confinement!addressed(w, S)
  BY DEF Fixes
<1>4. ASSUME NEW k \in 1 .. 18
      PROVE  /\ flawed(v, k) => flawed(w, k) \/ (k = 15 /\ "drops" \in b.patch)
             /\ k \in b.addressed => (flawed(v, k) <=> (k = 4 /\ dangers(v)) \/ (k = 15 /\ retains(v)))
             /\ flawed(v, k) => \/ k \in {9, 10, 11, 12, 13, 14, 17} \cup W
                                \/ (k = 4 /\ dangers(v)) \/ (k = 15 /\ retains(v))
  BY <1>3, PatchWorks
<1> HIDE DEF after, before, stays, S
<1>5. after \subseteq before \cup IF "drops" \in b.patch THEN {15} ELSE {}
  BY <1>1, <1>4
<1>6. b.addressed \subseteq 1 .. 18
  BY <1>3 DEF Confinement!addressed, S, flaws
<1>7. b.addressed \cap after = b.addressed \cap stays
  BY <1>1, <1>2, <1>4, <1>6
<1>8. after \ stays \subseteq {9, 10, 11, 12, 13, 14, 17} \cup W
  BY <1>1, <1>2, <1>4
<1> QED
  BY <1>5, <1>7, <1>8 DEF Works, after, before, stays

\* The containers of a pod in the order of its workloads.
containersOf(s) == s.init \o s.containers
\* A list of containers, and a pod of two such lists.
Held(cs) == cs \in Seq({cs[i] : i \in DOMAIN cs}) /\ \A i \in DOMAIN cs : DOMAIN cs[i] = listedFields
APod(s) ==
  /\ DOMAIN s = {"kind", "name", "ctx", "shares", "hostUsers", "volumes", "annotations", "class", "init", "containers"}
  /\ Held(s.init) /\ Held(s.containers)

\* Init containers come first.
LEMMA ContainersAre ==
  ASSUME NEW s, Held(s.init), Held(s.containers)
  PROVE  /\ Len(s.init) \in Nat /\ Len(s.containers) \in Nat
         /\ DOMAIN s.init = 1 .. Len(s.init) /\ DOMAIN s.containers = 1 .. Len(s.containers)
         /\ DOMAIN containersOf(s) = 1 .. (Len(s.init) + Len(s.containers))
         /\ \A i \in DOMAIN containersOf(s) :
              containersOf(s)[i] = IF i <= Len(s.init) THEN s.init[i] ELSE s.containers[i - Len(s.init)]
<1> DEFINE T == {s.init[i] : i \in DOMAIN s.init} \cup {s.containers[i] : i \in DOMAIN s.containers}
           a == s.init
           b == s.containers
<1>1. a \in Seq({a[i] : i \in DOMAIN a}) /\ b \in Seq({b[i] : i \in DOMAIN b})
  BY DEF Held
<1>2. a \in Seq(T) /\ b \in Seq(T)
  <2>1. \A A, B : A \subseteq B => Seq(A) \subseteq Seq(B)
    OBVIOUS
  <2> QED
    BY <1>1, <2>1
<1> HIDE DEF T, a, b
<1>3. /\ Len(a \o b) = Len(a) + Len(b) /\ a \o b \in Seq(T)
      /\ \A i \in 1 .. (Len(a) + Len(b)) : (a \o b)[i] = IF i <= Len(a) THEN a[i] ELSE b[i - Len(a)]
  BY <1>2
<1>4. /\ Len(a) \in Nat /\ Len(b) \in Nat /\ DOMAIN a = 1 .. Len(a) /\ DOMAIN b = 1 .. Len(b)
      /\ DOMAIN (a \o b) = 1 .. Len(a \o b)
  BY <1>2, <1>3
<1> QED
  BY <1>3, <1>4 DEF a, b, containersOf

\* Merging a patch into each container of a list.
LEMMA ListMerges ==
  ASSUME NEW cs, Held(cs), NEW ds, DOMAIN ds = DOMAIN cs, ds = [i \in DOMAIN ds |-> ds[i]],
         \A i \in DOMAIN cs : \E K \in SUBSET patchKeys : ds[i] = Confinement!Merge(cs[i], K)
  PROVE  Held(ds) /\ Len(ds) = Len(cs)
<1>1. DOMAIN cs = 1 .. Len(cs) /\ Len(cs) \in Nat
  BY DEF Held
<1>3. ds \in Seq({ds[i] : i \in DOMAIN ds})
  BY <1>1
<1>4. Len(ds) = Len(cs)
  BY <1>1, <1>3
<1>5. ASSUME NEW i \in DOMAIN ds PROVE DOMAIN ds[i] = listedFields
  <2>1. DOMAIN cs[i] = listedFields
    BY DEF Held
  <2>2. PICK K \in SUBSET patchKeys : ds[i] = Confinement!Merge(cs[i], K)
    OBVIOUS
  <2>3. DOMAIN Confinement!Merge(cs[i], K) = listedFields
    BY <2>1, MergedContext
  <2> QED
    BY <2>2, <2>3
<1> QED
  BY <1>3, <1>4, <1>5 DEF Held

\* The pod after its containers' patches were merged.
LEMMA HardenedPod ==
  ASSUME NEW s, APod(s), NEW B, \A i \in DOMAIN containersOf(s) : B[i].patch \subseteq patchKeys
  PROVE  LET q == Confinement!Hardened(s, B)
         IN /\ APod(q) /\ q.kind = s.kind /\ SamePod(s, q)
            /\ DOMAIN containersOf(q) = DOMAIN containersOf(s)
            /\ \A i \in DOMAIN containersOf(s) :
                 /\ DOMAIN containersOf(s)[i] = listedFields
                 /\ containersOf(q)[i] = Confinement!Merge(containersOf(s)[i], B[i].patch)
<1> DEFINE n == Len(s.init)
           m == Len(s.containers)
           x == [i \in DOMAIN s.init |-> Confinement!Merge(s.init[i], B[i + 0].patch)]
           y == [i \in DOMAIN s.containers |-> Confinement!Merge(s.containers[i], B[i + n].patch)]
           q == [s EXCEPT !.init = x, !.containers = y]
<1>0. Held(s.init) /\ Held(s.containers)
  BY DEF APod
<1>1. /\ n \in Nat /\ m \in Nat /\ DOMAIN s.init = 1 .. n /\ DOMAIN s.containers = 1 .. m
      /\ DOMAIN containersOf(s) = 1 .. (n + m)
      /\ \A i \in DOMAIN containersOf(s) : containersOf(s)[i] = IF i <= n THEN s.init[i] ELSE s.containers[i - n]
  BY <1>0, ContainersAre
<1>2. Confinement!Hardened(s, B) = q
  BY DEF Confinement!Hardened
<1> HIDE DEF n, m
<1>3. Held(x) /\ Len(x) = n /\ DOMAIN x = DOMAIN s.init
  <2>1. \A i \in DOMAIN s.init : \E K \in SUBSET patchKeys : x[i] = Confinement!Merge(s.init[i], K)
    BY <1>1
  <2>2. DOMAIN x = DOMAIN s.init /\ x = [i \in DOMAIN x |-> x[i]]
    OBVIOUS
  <2> HIDE DEF x
  <2> QED
    BY <1>0, <2>1, <2>2, ListMerges DEF n
<1>4. Held(y) /\ Len(y) = m /\ DOMAIN y = DOMAIN s.containers
  <2>1. ASSUME NEW i \in DOMAIN s.containers
        PROVE  \E K \in SUBSET patchKeys : y[i] = Confinement!Merge(s.containers[i], K)
    <3>1. i + n \in DOMAIN containersOf(s)
      BY <1>1
    <3>2. B[i + n].patch \in SUBSET patchKeys
      BY <3>1
    <3>3. y[i] = Confinement!Merge(s.containers[i], B[i + n].patch)
      OBVIOUS
    <3> QED
      BY <3>2, <3>3
  <2>2. DOMAIN y = DOMAIN s.containers /\ y = [i \in DOMAIN y |-> y[i]]
    OBVIOUS
  <2> HIDE DEF y
  <2> QED
    BY <1>0, <2>1, <2>2, ListMerges DEF m
<1>x. \A i \in DOMAIN x : x[i] = Confinement!Merge(s.init[i], B[i].patch)
  BY <1>1
<1>y. \A i \in DOMAIN y : y[i] = Confinement!Merge(s.containers[i], B[i + n].patch)
  OBVIOUS
<1> HIDE DEF x, y
<1>5. /\ DOMAIN q = DOMAIN s /\ q.init = x /\ q.containers = y /\ q.kind = s.kind /\ SamePod(s, q)
  BY DEF APod, SamePod
<1> HIDE DEF q
<1>6. APod(q)
  BY <1>3, <1>4, <1>5 DEF APod
<1>7. /\ DOMAIN containersOf(q) = 1 .. (n + m)
      /\ \A i \in DOMAIN containersOf(q) : containersOf(q)[i] = IF i <= n THEN x[i] ELSE y[i - n]
  BY <1>3, <1>4, <1>5, ContainersAre
<1>8. ASSUME NEW i \in DOMAIN containersOf(s)
      PROVE  /\ DOMAIN containersOf(s)[i] = listedFields
             /\ containersOf(q)[i] = Confinement!Merge(containersOf(s)[i], B[i].patch)
  <2>1. CASE i <= n
    <3>1. i \in DOMAIN x /\ containersOf(q)[i] = x[i] /\ containersOf(s)[i] = s.init[i] /\ i \in DOMAIN s.init
      BY <1>1, <1>3, <1>7, <2>1
    <3> QED
      BY <1>0, <1>x, <3>1 DEF Held
  <2>2. CASE ~(i <= n)
    <3>1. /\ i - n \in DOMAIN y /\ containersOf(q)[i] = y[i - n] /\ containersOf(s)[i] = s.containers[i - n]
          /\ i - n \in DOMAIN s.containers /\ (i - n) + n = i
      BY <1>1, <1>4, <1>7, <2>2
    <3> QED
      BY <1>0, <1>y, <3>1 DEF Held
  <2> QED
    BY <2>1, <2>2
<1> QED
  BY <1>1, <1>2, <1>5, <1>6, <1>7, <1>8

\* A profile that runs what the trace holds.
Covers(p, t) == p.default = "log" \/ (t.complete /\ t.syscalls \subseteq p.named)

\* A profile that covers a trace runs all of it.
LEMMA CoversAllows ==
  ASSUME NEW p, NEW t, Covers(p, t)
  PROVE  \A s \in t.syscalls : Confinement!Allows(p, s)
  BY DEF Covers, Confinement!Allows, Confinement!EffectiveAction

\* What a bundle is made of.
LEMMA BundleIs ==
  ASSUME NEW w, w.source = "kubernetes", NEW t, NEW X, NEW now, NEW prior
  PROVE  LET b == Confinement!BuildBundle(w, t, X, now, prior)
         IN /\ Fixes(b, w, b.waived) /\ b.waived = inForce(X, now) /\ Covers(b.seccomp, t)
            /\ b.diff.blocked = {} \/ b.mode = "enforce"
            /\ b.patch \subseteq patchKeys
<1> DEFINE b == Confinement!BuildBundle(w, t, X, now, prior)
           failing == {r.id : r \in {x \in Confinement!ApplyExceptions(Confinement!Verify(w), X, now) : x.status \in {"fail", "warn"}}}
           p == Confinement!GenerateSeccomp(t, ~t.complete)
<1>1. /\ b.patch = Confinement!patched(w, failing) /\ b.addressed = Confinement!addressed(w, failing)
      /\ b.waived = inForce(X, now)
      /\ b.seccomp = p /\ b.mode = (IF t.complete THEN "enforce" ELSE "audit")
      /\ b.diff = Confinement!DiffSeccomp(prior, p)
  BY DEF Confinement!BuildBundle, inForce
<1>2. failing = flaws(w) \ inForce(X, now)
  BY EffectiveIs
<1>3. p.named = Bootstrap \cup t.syscalls /\ p.default = IF ~t.complete THEN "log" ELSE "errno"
  BY DEF Confinement!GenerateSeccomp
<1> HIDE DEF b, p, failing
<1>4. Fixes(b, w, b.waived) /\ b.waived = inForce(X, now)
  BY <1>1, <1>2 DEF Fixes
<1>5. Covers(b.seccomp, t)
  BY <1>1, <1>3 DEF Covers
<1>6. b.diff.blocked = {} \/ b.mode = "enforce"
  <2>1. CASE t.complete
    BY <1>1, <2>1
  <2>2. CASE ~t.complete
    <3>1. \A s : Confinement!Allows(p, s)
      BY <1>3, <2>2 DEF Confinement!Allows, Confinement!EffectiveAction
    <3> QED
      BY <1>1, <3>1 DEF Confinement!DiffSeccomp
  <2> QED
    BY <2>1, <2>2
<1>7. b.patch \subseteq patchKeys
  BY <1>1 DEF Confinement!patched, patchKeys
<1> QED
  BY <1>4, <1>5, <1>6, <1>7 DEF b

\* The i-th workload of a pod.
workloadOf(s, i) == Confinement!kubeContainerWorkload(s, containersOf(s)[i])

\* A pod's workloads are its containers', in order.
LEMMA PodParsed ==
  ASSUME NEW s, s.kind = "pod"
  PROVE  /\ DOMAIN Confinement!Parse(s) = DOMAIN containersOf(s)
         /\ \A i \in DOMAIN containersOf(s) :
              Confinement!Parse(s)[i] = workloadOf(s, i) /\ workloadOf(s, i).source = "kubernetes"
<1>1. Confinement!Parse(s) = Confinement!parseKubePod(s)
  BY DEF Confinement!Parse
<1>2. Confinement!parseKubePod(s)
        = [i \in DOMAIN containersOf(s) |-> Confinement!kubeContainerWorkload(s, containersOf(s)[i])]
  BY DEF Confinement!parseKubePod, containersOf
<1>3. \A i \in DOMAIN containersOf(s) : workloadOf(s, i).source = "kubernetes"
  BY SettingsRead DEF workloadOf
<1> QED
  BY <1>1, <1>2, <1>3 DEF workloadOf

\* A bundle of each container of the pod, made of the trace so far and of the
\* exceptions in force on its day.
Offered(told, s, X, t) ==
  /\ DOMAIN told.bundles = DOMAIN containersOf(s) /\ 1 \in DOMAIN told.bundles
  /\ \A i \in DOMAIN told.bundles :
       LET b == told.bundles[i]
           w == workloadOf(s, i)
       IN /\ told.before[i] = Confinement!Verify(w)
          /\ Fixes(b, w, b.waived) /\ b.waived \subseteq Confinement!inForceOn(X, told.day)
          /\ Covers(b.seccomp, t)
          /\ b.diff.blocked = {} \/ b.mode = "enforce"
          /\ b.patch \subseteq patchKeys

\* What the agent finds of a container after it merged the bundles.
Repaired(told, s, X) ==
  /\ s.kind = "pod" /\ DOMAIN told.after = DOMAIN containersOf(s)
  /\ \A i \in DOMAIN told.after :
       LET b == told.bundles[i]
           v == workloadOf(s, i)
           stays == (IF v.adds \cap Confinement!dangerous # {} THEN {4} ELSE {})
                    \cup (IF Confinement!heldCaps(v) \cap {"SETUID", "SETGID"} # {} THEN {15} ELSE {})
           after == Confinement!Failing(told.after[i])
       IN /\ after \subseteq Confinement!Failing(told.before[i]) \cup IF "drops" \in b.patch THEN {15} ELSE {}
          /\ b.addressed \cap after = b.addressed \cap stays
          /\ after \ stays \subseteq {9, 10, 11, 12, 13, 14, 17} \cup b.waived
          /\ b.waived \subseteq Confinement!inForceOn(X, told.day)
          /\ b.diff.blocked = {} \/ b.mode = "enforce"

\* What every state of the confinement assessment satisfies.
ConfinementInv ==
  assessment = "hardening" =>
    /\ DOMAIN host = {"spec", "exceptions", "day", "profile"}
    /\ host.day \in Nat \ {0} /\ \A e \in host.exceptions : e.expires \in Nat
    /\ host.spec.kind = "pod" => APod(host.spec)
    /\ shown.command = "bundle" /\ host.spec.kind = "pod" => Offered(shown, host.spec, host.exceptions, trace)
    /\ shown.command = "applied" =>
         Repaired(shown, host.spec, host.exceptions) /\ Covers(host.profile, trace)

\* The invariant is strong enough.
LEMMA RepairedSound ==
  ASSUME assessment = "hardening", ConfinementInv
  PROVE  Confinement!BundleIsSound
<1> SUFFICES ASSUME shown.command = "applied" PROVE Confinement!BundleIsSound
  BY DEF Confinement!BundleIsSound
<1>1. Repaired(shown, host.spec, host.exceptions) /\ Covers(host.profile, trace)
  BY DEF ConfinementInv
<1>2. \A s \in trace.syscalls : Confinement!Allows(host.profile, s)
  BY <1>1, CoversAllows
<1>3. host.spec.kind = "pod" /\ DOMAIN shown.after = DOMAIN containersOf(host.spec)
  BY <1>1 DEF Repaired
<1>4. \A i \in DOMAIN shown.after : Confinement!Parse(host.spec)[i] = workloadOf(host.spec, i)
  BY <1>3, PodParsed
<1> QED
  BY <1>1, <1>2, <1>4 DEF Confinement!BundleIsSound, Repaired

\* It holds of every manifest that is given.
LEMMA ConfinementInit == PostureInit => ConfinementInv
<1> SUFFICES ASSUME PostureInit, assessment = "hardening" PROVE ConfinementInv
  BY DEF ConfinementInv
<1>1. PICK s \in Specs, x \in Exceptions, d \in {"allow", "log", "errno"} :
        host = [spec |-> s, exceptions |-> x, day |-> 1, profile |-> [named |-> Bootstrap, default |-> d]]
  BY DEF PostureInit, Confinement!HardeningInit
<1>2. shown.command = "none"
  BY DEF PostureInit, Confinement!HardeningInit, Confinement!Quiet
<1>3. /\ DOMAIN host = {"spec", "exceptions", "day", "profile"}
      /\ host.day = 1 /\ host.exceptions = x /\ host.spec = s
  BY <1>1
<1>4. \A e \in x : e.expires \in Nat
  BY ManifestAssumption
<1>5. s.kind = "pod" => APod(s)
  <2> SUFFICES ASSUME s.kind = "pod" PROVE APod(s)
    OBVIOUS
  <2>1. Confinement!aPod(s)
    BY ManifestAssumption
  <2>2. Held(s.init) /\ Held(s.containers)
    BY <2>1 DEF Confinement!aPod, Confinement!Listed, Held, listedFields
  <2> QED
    BY <2>1, <2>2 DEF Confinement!aPod, APod
<1> QED
  BY <1>2, <1>3, <1>4, <1>5 DEF ConfinementInv

\* What ApplyExceptions takes to be active has an exception in force that day.
LEMMA ActiveIsInForce ==
  ASSUME NEW X, NEW day
  PROVE  inForce(X, day) = Confinement!inForceOn(X, day)
  BY DEF inForce, Confinement!inForceOn, Confinement!activeAt

\* A pod has a number of containers.
LEMMA PodSize ==
  ASSUME NEW s, APod(s)
  PROVE  \E n \in Nat : DOMAIN containersOf(s) = 1 .. n
<1> DEFINE a == Len(s.init)
           b == Len(s.containers)
<1>1. a \in Nat /\ b \in Nat /\ DOMAIN containersOf(s) = 1 .. (a + b)
  BY ContainersAre DEF APod
<1> HIDE DEF a, b
<1>2. a + b \in Nat
  BY <1>1
<1> QED
  BY <1>1, <1>2

\* The bundles that the library builds.
LEMMA BundleOffers ==
  ASSUME assessment = "hardening", ConfinementInv, Confinement!RunBundle, host.spec.kind = "pod"
  PROVE  Offered(shown', host.spec, host.exceptions, trace)
<1> DEFINE s == host.spec
           ws == Confinement!Parse(s)
           B == [i \in DOMAIN ws |-> Confinement!BuildBundle(ws[i], trace, host.exceptions, host.day, host.profile)]
           R == [i \in DOMAIN ws |-> Confinement!Verify(ws[i])]
<1>1. shown' = [command |-> "bundle", day |-> host.day, before |-> R, bundles |-> B] /\ ws # <<>>
  BY DEF Confinement!RunBundle
<1>2. /\ DOMAIN ws = DOMAIN containersOf(s)
      /\ \A i \in DOMAIN ws : ws[i] = workloadOf(s, i) /\ ws[i].source = "kubernetes"
  BY PodParsed
<1>3. 1 \in DOMAIN ws
  <2>1. APod(s)
    BY DEF ConfinementInv
  <2>2. PICK n \in Nat : DOMAIN ws = 1 .. n
    BY <1>2, <2>1, PodSize
  <2>3. ws = [i \in DOMAIN ws |-> ws[i]]
    BY DEF Confinement!Parse, Confinement!parseKubePod
  <2>4. n # 0
    BY <1>1, <2>2, <2>3
  <2> QED
    BY <2>2, <2>4
<1>4. shown'.bundles = B /\ shown'.before = R /\ shown'.day = host.day
  BY <1>1
<1>5. ASSUME NEW i \in DOMAIN ws
      PROVE  /\ R[i] = Confinement!Verify(workloadOf(s, i))
             /\ Fixes(B[i], workloadOf(s, i), B[i].waived)
             /\ B[i].waived \subseteq Confinement!inForceOn(host.exceptions, host.day)
             /\ Covers(B[i].seccomp, trace)
             /\ B[i].diff.blocked = {} \/ B[i].mode = "enforce"
             /\ B[i].patch \subseteq patchKeys
  <2> DEFINE w == workloadOf(s, i)
             b == Confinement!BuildBundle(w, trace, host.exceptions, host.day, host.profile)
  <2>1. B[i] = b /\ R[i] = Confinement!Verify(w)
    BY <1>2
  <2>2. w.source = "kubernetes"
    BY <1>2
  <2> HIDE DEF w
  <2>3. /\ Fixes(b, w, b.waived) /\ b.waived = inForce(host.exceptions, host.day) /\ Covers(b.seccomp, trace)
        /\ b.diff.blocked = {} \/ b.mode = "enforce"
        /\ b.patch \subseteq patchKeys
    BY <2>2, BundleIs
  <2>4. inForce(host.exceptions, host.day) = Confinement!inForceOn(host.exceptions, host.day)
    BY ActiveIsInForce
  <2> HIDE DEF b
  <2> QED
    BY <2>1, <2>3, <2>4 DEF w
<1>6. DOMAIN B = DOMAIN ws
  OBVIOUS
<1> HIDE DEF B, R, ws, s
<1> QED
  BY <1>2, <1>3, <1>4, <1>5, <1>6 DEF Offered, s

\* What the agent finds after merging them.
LEMMA ApplyRepairs ==
  ASSUME assessment = "hardening", ConfinementInv, Confinement!Apply
  PROVE  /\ APod(host'.spec) /\ Repaired(shown', host'.spec, host.exceptions) /\ Covers(host'.profile, trace)
         /\ host'.exceptions = host.exceptions /\ host'.day = host.day /\ DOMAIN host' = DOMAIN host
         /\ shown'.command = "applied" /\ trace' = trace
<1> DEFINE s == host.spec
           q == Confinement!Hardened(s, shown.bundles)
           ws == Confinement!Parse(q)
           X == host.exceptions
<1>0. /\ shown.command = "bundle" /\ s.kind = "pod" /\ trace' = trace
      /\ host' = [host EXCEPT !.spec = q, !.profile = shown.bundles[1].seccomp]
      /\ shown' = [command |-> "applied", day |-> shown.day, before |-> shown.before, bundles |-> shown.bundles,
                   after |-> LET w == Confinement!Parse(host'.spec) IN [i \in DOMAIN w |-> Confinement!Verify(w[i])]]
  BY DEF Confinement!Apply
<1>1. APod(s) /\ Offered(shown, s, X, trace)
  BY <1>0 DEF ConfinementInv
<1>h. "spec" \in DOMAIN host /\ "profile" \in DOMAIN host
  BY DEF ConfinementInv
<1>2. /\ host'.spec = q /\ host'.profile = shown.bundles[1].seccomp
      /\ host'.exceptions = X /\ host'.day = host.day /\ DOMAIN host' = DOMAIN host
  BY <1>0, <1>h
<1>3. /\ shown'.command = "applied" /\ shown'.before = shown.before /\ shown'.bundles = shown.bundles
      /\ shown'.day = shown.day
      /\ shown'.after = [i \in DOMAIN ws |-> Confinement!Verify(ws[i])]
  BY <1>0, <1>2
<1>4. \A i \in DOMAIN containersOf(s) : shown.bundles[i].patch \subseteq patchKeys
  BY <1>1 DEF Offered
<1>5. /\ APod(q) /\ q.kind = s.kind /\ SamePod(s, q)
      /\ DOMAIN containersOf(q) = DOMAIN containersOf(s)
      /\ \A i \in DOMAIN containersOf(s) :
           /\ DOMAIN containersOf(s)[i] = listedFields
           /\ containersOf(q)[i] = Confinement!Merge(containersOf(s)[i], shown.bundles[i].patch)
  BY <1>1, <1>4, HardenedPod
<1> HIDE DEF q, s, X
<1>6. /\ DOMAIN ws = DOMAIN containersOf(s)
      /\ \A i \in DOMAIN ws : ws[i] = workloadOf(q, i) /\ workloadOf(q, i).source = "kubernetes"
  BY <1>0, <1>5, PodParsed
<1> HIDE DEF ws
<1>7. ASSUME NEW i \in DOMAIN shown'.after
      PROVE  LET b == shown.bundles[i]
                 v == workloadOf(q, i)
                 stays == (IF v.adds \cap Confinement!dangerous # {} THEN {4} ELSE {})
                          \cup (IF Confinement!heldCaps(v) \cap {"SETUID", "SETGID"} # {} THEN {15} ELSE {})
                 after == Confinement!Failing(shown'.after[i])
             IN /\ after \subseteq Confinement!Failing(shown.before[i]) \cup IF "drops" \in b.patch THEN {15} ELSE {}
                /\ b.addressed \cap after = b.addressed \cap stays
                /\ after \ stays \subseteq {9, 10, 11, 12, 13, 14, 17} \cup b.waived
                /\ b.waived \subseteq Confinement!inForceOn(X, shown.day)
                /\ b.diff.blocked = {} \/ b.mode = "enforce"
  <2> DEFINE b == shown.bundles[i]
             w == workloadOf(s, i)
             v == workloadOf(q, i)
  <2>1. i \in DOMAIN containersOf(s) /\ shown'.after[i] = Confinement!Verify(v) /\ v.source = "kubernetes"
    BY <1>3, <1>6
  <2>2. w.source = "kubernetes"
    BY <1>0, <2>1, PodParsed
  <2>3. /\ shown.before[i] = Confinement!Verify(w) /\ b.patch \subseteq patchKeys
        /\ b.diff.blocked = {} \/ b.mode = "enforce"
        /\ b.waived \subseteq Confinement!inForceOn(X, shown.day)
    BY <1>1, <2>1 DEF Offered
  <2>4. Fixes(b, w, b.waived)
    BY <1>1, <2>1 DEF Offered
  <2>5. Merged(w, v, b.patch)
    <3>1. /\ DOMAIN containersOf(s)[i] = listedFields
          /\ containersOf(q)[i] = Confinement!Merge(containersOf(s)[i], b.patch)
      BY <1>5, <2>1
    <3> QED
      BY <1>5, <2>3, <3>1, MergedWorkload DEF workloadOf
  <2> HIDE DEF b, w, v
  <2>6. Works(w, v, b, b.waived)
    BY <2>1, <2>2, <2>4, <2>5, BundleWorks
  <2> QED
    BY <2>1, <2>3, <2>6 DEF Works, b, v
<1>8. Repaired(shown', q, X)
  <2>1. DOMAIN shown'.after = DOMAIN containersOf(q) /\ q.kind = "pod"
    BY <1>0, <1>3, <1>5, <1>6
  <2> QED
    BY <1>3, <1>7, <2>1 DEF Repaired
<1>9. Covers(host'.profile, trace)
  BY <1>1, <1>2 DEF Offered
<1> QED
  BY <1>0, <1>2, <1>3, <1>5, <1>8, <1>9 DEF X

\* A profile covers the trace as it grows: only an audit profile is made before it is complete.
LEMMA TraceGrows ==
  ASSUME NEW p, Covers(p, trace), (\E s \in Syscalls : Confinement!Record(s)) \/ Confinement!Believe
  PROVE  Covers(p, trace')
  BY DEF Covers, Confinement!Record, Confinement!Believe

\* Every step keeps the invariant.
LEMMA ConfinementStep ==
  ASSUME ConfinementInv, assessment = "hardening", Confinement!HardeningNext, assessment' = assessment
  PROVE  ConfinementInv'
<1> USE DEF ConfinementInv
<1>1. CASE (\E s \in Syscalls : Confinement!Record(s)) \/ Confinement!Believe
  <2>1. host' = host /\ shown' = shown
    BY <1>1 DEF Confinement!Record, Confinement!Believe
  <2>2. \A p : Covers(p, trace) => Covers(p, trace')
    BY <1>1, TraceGrows
  <2>3. Offered(shown, host.spec, host.exceptions, trace) => Offered(shown, host.spec, host.exceptions, trace')
    BY <2>2 DEF Offered
  <2> QED
    BY <2>1, <2>2, <2>3
<1>2. CASE Confinement!Expire
  <2>1. shown' = shown /\ trace' = trace /\ host' = [host EXCEPT !.day = @ + 1]
    BY <1>2 DEF Confinement!Expire
  <2>2. /\ host'.spec = host.spec /\ host'.exceptions = host.exceptions /\ host'.profile = host.profile
        /\ host'.day \in Nat \ {0} /\ DOMAIN host' = DOMAIN host
    BY <2>1
  <2> QED
    BY <2>1, <2>2
<1>3. CASE Confinement!RunBundle
  <2>1. host' = host /\ trace' = trace /\ shown'.command = "bundle"
    BY <1>3 DEF Confinement!RunBundle
  <2> QED
    BY <1>3, <2>1, BundleOffers
<1>4. CASE (\E t \in {"internal", "untrusted", "hostile"}, n \in {0, Confinement!Medium, Confinement!Critical} : Confinement!RunVerify(t, n))
           \/ (\E a \in BOOLEAN : Confinement!RunGenProfile(a))
  <2>1. host' = host /\ trace' = trace /\ shown'.command \in {"verify", "gen-profile"}
    BY <1>4 DEF Confinement!RunVerify, Confinement!RunGenProfile
  <2> QED
    BY <2>1
<1>5. CASE Confinement!Apply
  <2>1. /\ APod(host'.spec) /\ Repaired(shown', host'.spec, host.exceptions) /\ Covers(host'.profile, trace)
        /\ host'.exceptions = host.exceptions /\ host'.day = host.day /\ DOMAIN host' = DOMAIN host
         /\ shown'.command = "applied" /\ trace' = trace
    BY <1>5, ApplyRepairs
  <2> QED
    BY <2>1
<1> QED
  BY <1>1, <1>2, <1>3, <1>4, <1>5 DEF Confinement!HardeningNext

\* bundle.go:104-105 and 39-41, for every pod, exceptions and trace: merging a
\* bundle makes no control fail that did not but for setuid, fixes what it says but
\* for capabilities the container adds, leaves nothing else failing than what has
\* no fix or is recorded as waived by an exception that was in force on the day of
\* the bundle, and its profile runs what was seen.
THEOREM BundlesAreSound == PostureSpec => []BundleIsSound
<1>1. PostureInit => ConfinementInv
  BY ConfinementInit
<1>2. ConfinementInv /\ [PostureNext]_postureVars => ConfinementInv'
  <2> SUFFICES ASSUME ConfinementInv, [PostureNext]_postureVars PROVE ConfinementInv'
    OBVIOUS
  <2>1. CASE UNCHANGED postureVars
    BY <2>1 DEF postureVars, hardeningVars, ConfinementInv
  <2>2. CASE PostureNext /\ assessment = "hardening"
    <3>1. Confinement!HardeningNext /\ UNCHANGED assessment
      BY <2>2 DEF PostureNext
    <3> QED
      BY <2>2, <3>1, ConfinementStep
  <2>3. CASE PostureNext /\ assessment # "hardening"
    BY <2>3 DEF PostureNext, ConfinementInv
  <2> QED
    BY <2>1, <2>2, <2>3
<1>3. ConfinementInv => BundleIsSound
  BY RepairedSound DEF BundleIsSound
<1> QED
  BY <1>1, <1>2, <1>3, PTL DEF PostureSpec

(***************************************************************************)
(* Network captures: order.  The canonical order is a total one, so what   *)
(* it makes of a capture does not depend on the order of arrival.          *)
(***************************************************************************)
\* n things in the total order R.
Ordering(n, R) ==
  /\ \A i \in 1..n : <<i, i>> \notin R
  /\ \A i, j \in 1..n : i # j => <<i, j>> \in R \/ <<j, i>> \in R
  /\ \A i, j, k \in 1..n : <<i, j>> \in R /\ <<j, k>> \in R => <<i, k>> \in R

ahead(n, R, i) == {j \in 1..n : <<j, i>> \in R}
rankOf(n, R, i) == Cardinality(ahead(n, R, i)) + 1

LEMMA RanksDiffer ==
  ASSUME NEW n \in Nat, NEW R, Ordering(n, R)
  PROVE  /\ \A i \in 1..n : rankOf(n, R, i) \in 1..n
         /\ \A i, j \in 1..n : rankOf(n, R, i) = rankOf(n, R, j) => i = j
<1> DEFINE front(i) == ahead(n, R, i)
           place(i) == rankOf(n, R, i)
<1>1. IsFiniteSet(1..n) /\ Cardinality(1..n) = n
  BY FS_Interval
<1>2. ASSUME NEW i \in 1..n
      PROVE  /\ IsFiniteSet(front(i)) /\ Cardinality(front(i)) \in Nat
             /\ IsFiniteSet(front(i) \cup {i}) /\ Cardinality(front(i) \cup {i}) = place(i)
             /\ place(i) \in 1..n
  <2>1. front(i) \in SUBSET (1..n) /\ i \notin front(i) /\ front(i) \cup {i} \in SUBSET (1..n)
    BY DEF ahead, Ordering
  <2>2. IsFiniteSet(front(i)) /\ Cardinality(front(i)) \in Nat
    BY <1>1, <2>1, FS_Subset, FS_CardinalityType
  <2>3. IsFiniteSet(front(i) \cup {i}) /\ Cardinality(front(i) \cup {i}) = Cardinality(front(i)) + 1
    BY <2>1, <2>2, FS_AddElement
  <2>4. Cardinality(front(i) \cup {i}) <= n
    BY <1>1, <2>1, FS_Subset
  <2>5. place(i) = Cardinality(front(i)) + 1
    BY DEF rankOf
  <2> HIDE DEF front, place
  <2> QED
    BY <2>2, <2>3, <2>4, <2>5
<1>3. ASSUME NEW i \in 1..n, NEW j \in 1..n, <<i, j>> \in R PROVE place(i) < place(j)
  <2>1. front(i) \cup {i} \in SUBSET front(j)
    BY <1>3 DEF ahead, Ordering
  <2>2. Cardinality(front(i) \cup {i}) <= Cardinality(front(j))
    BY <1>2, <2>1, FS_Subset
  <2>3. Cardinality(front(i) \cup {i}) = place(i) /\ Cardinality(front(j)) \in Nat /\ place(i) \in 1..n
    BY <1>2
  <2>4. place(j) = Cardinality(front(j)) + 1
    BY DEF rankOf
  <2> HIDE DEF front, place
  <2> QED
    BY <2>2, <2>3, <2>4
<1>4. ASSUME NEW i \in 1..n, NEW j \in 1..n, place(i) = place(j) PROVE i = j
  <2>1. place(i) \in 1..n /\ place(j) \in 1..n
    BY <1>2
  <2>2. <<i, j>> \notin R /\ <<j, i>> \notin R
    BY <1>3, <1>4, <2>1
  <2> QED
    BY <2>2 DEF Ordering
<1> QED
  BY <1>2, <1>4

\* Every rank is somebody's.
LEMMA RanksAreTaken ==
  ASSUME NEW n \in Nat, NEW R, Ordering(n, R), NEW k \in 1..n
  PROVE  \E i \in 1..n : rankOf(n, R, i) = k
<1> DEFINE places == [i \in 1..n |-> rankOf(n, R, i)]
<1>1. IsFiniteSet(1..n) /\ Cardinality(1..n) = n
  BY FS_Interval
<1>2. places \in Injection(1..n, 1..n)
  BY RanksDiffer DEF Injection, IsInjective
<1>3. places \in Surjection(1..n, 1..n)
  BY <1>1, <1>2, FS_Injection
<1> QED
  BY <1>3 DEF Surjection

\* Renaming the things renames their ranks.
renames(n, f, Q, R) == \A i, j \in 1..n : <<i, j>> \in Q <=> <<f[i], f[j]>> \in R

LEMMA RanksFollow ==
  ASSUME NEW n \in Nat, NEW R, NEW Q, NEW f \in Bijection(1..n, 1..n), renames(n, f, Q, R), NEW i \in 1..n
  PROVE  rankOf(n, Q, i) = rankOf(n, R, f[i])
<1>1. /\ f \in [1..n -> 1..n] /\ \A a, b \in 1..n : f[a] = f[b] => a = b
      /\ \A t \in 1..n : \E x \in 1..n : f[x] = t
  BY DEF Bijection, Injection, Surjection, IsInjective
<1> DEFINE S == ahead(n, Q, i)
           T == ahead(n, R, f[i])
           g == [x \in S |-> f[x]]
<1>2. S \in SUBSET (1..n) /\ T \subseteq 1..n
  BY DEF ahead
<1>3. g \in [S -> T]
  BY <1>1 DEF ahead, renames
<1>4. \A a, b \in S : g[a] = g[b] => a = b
  BY <1>1, <1>2
<1>5. \A t \in T : \E x \in S : g[x] = t
  BY <1>1 DEF ahead, renames
<1> HIDE DEF S, T, g
<1>6. g \in Bijection(S, T)
  BY <1>3, <1>4, <1>5, Fun_IsBij
<1>7. IsFiniteSet(S)
  <2>1. IsFiniteSet(1..n)
    BY FS_Interval
  <2> QED
    BY <1>2, <2>1, FS_Subset
<1>8. ExistsBijection(S, T)
  BY <1>6, Fun_ExistsBij
<1>9. Cardinality(T) = Cardinality(S)
  BY <1>7, <1>8, FS_Bijection
<1> QED
  BY <1>9 DEF rankOf, S, T

\* What flows are compared by: five numbers.
five(p) == DOMAIN p = 1..5 /\ \A i \in 1..5 : p[i] \in Int

lex(p, q) ==
  \/ p[1] < q[1]
  \/ p[1] = q[1] /\ p[2] < q[2]
  \/ p[1] = q[1] /\ p[2] = q[2] /\ p[3] < q[3]
  \/ p[1] = q[1] /\ p[2] = q[2] /\ p[3] = q[3] /\ p[4] < q[4]
  \/ p[1] = q[1] /\ p[2] = q[2] /\ p[3] = q[3] /\ p[4] = q[4] /\ p[5] < q[5]

alike(p, q) == p[1] = q[1] /\ p[2] = q[2] /\ p[3] = q[3] /\ p[4] = q[4] /\ p[5] = q[5]

LEMMA BeforeIsLex ==
  ASSUME NEW p, NEW q, five(p), five(q)
  PROVE  Network!Before(p, q) <=> lex(p, q)
<1>1. DOMAIN p = {1, 2, 3, 4, 5}
  BY DEF five
<1>2. 1..(1 - 1) = {} /\ 1..(2 - 1) = {1} /\ 1..(3 - 1) = {1, 2} /\ 1..(4 - 1) = {1, 2, 3} /\ 1..(5 - 1) = {1, 2, 3, 4}
  OBVIOUS
<1>3. Network!Before(p, q) <=> \E i \in {1, 2, 3, 4, 5} : p[i] < q[i] /\ \A j \in 1..(i - 1) : p[j] = q[j]
  BY <1>1 DEF Network!Before
<1> QED
  BY <1>2, <1>3 DEF lex

LEMMA LexIsOrder ==
  /\ \A p, q : five(p) /\ five(q) => ~(lex(p, q) /\ lex(q, p)) /\ (~lex(p, q) /\ ~lex(q, p) => alike(p, q))
  /\ \A p, q, r : five(p) /\ five(q) /\ five(r) =>
       ((lex(p, q) \/ alike(p, q)) /\ lex(q, r) => lex(p, r))
  /\ \A p, q, r : five(p) /\ five(q) /\ five(r) =>
       (lex(p, q) /\ (lex(q, r) \/ alike(q, r)) => lex(p, r))
<1>0. \A p : five(p) => p[1] \in Int /\ p[2] \in Int /\ p[3] \in Int /\ p[4] \in Int /\ p[5] \in Int
  BY DEF five
<1>1. ASSUME NEW p, NEW q, five(p), five(q)
      PROVE  ~(lex(p, q) /\ lex(q, p)) /\ (~lex(p, q) /\ ~lex(q, p) => alike(p, q))
  BY <1>0, <1>1 DEF lex, alike
<1>2. ASSUME NEW p, NEW q, NEW r, five(p), five(q), five(r), lex(p, q) \/ alike(p, q), lex(q, r) PROVE lex(p, r)
  BY <1>0, <1>2 DEF lex, alike
<1>3. ASSUME NEW p, NEW q, NEW r, five(p), five(q), five(r), lex(p, q), lex(q, r) \/ alike(q, r) PROVE lex(p, r)
  BY <1>0, <1>3 DEF lex, alike
<1> QED
  BY <1>1, <1>2, <1>3

\* What is in an order has a rank there.
LEMMA RankIsNumber ==
  ASSUME NEW names, DOMAIN names \subseteq Nat, NEW x \in {names[i] : i \in DOMAIN names}
  PROVE  Network!Rank(names, x) \in Int
<1>1. \E i \in DOMAIN names : names[i] = x
  OBVIOUS
<1> QED
  BY <1>1 DEF Network!Rank

\* Every flow has its place in the canonical order (netmon.go:154-166).
LEMMA PlaceIsFive ==
  ASSUME NEW f \in Observable
  PROVE  five(Network!Place(f))
<1>1. Network!Rank(IDs, f.wl) \in Int
  BY RankIsNumber, PostureAssumption
<1>2. Network!Rank(PortOrder, f.port) \in Int
  BY RankIsNumber, PostureAssumption
<1>3. Network!Key(f)[1] \in {HostOrder[i] : i \in DOMAIN HostOrder}
  BY PostureAssumption DEF Network!Key
<1>4. Network!Rank(HostOrder, Network!Key(f)[1]) \in Int
  BY <1>3, RankIsNumber, PostureAssumption
<1>5. f.ts \in Int /\ f.src \in Int
  <2>1. Network!aFlow(f)
    BY TelemetryAssumption
  <2>2. {f.ts, f.src, f.tx, f.rx} \subseteq Int
    BY <2>1 DEF Network!aFlow
  <2> QED
    BY <2>2
<1> QED
  BY <1>1, <1>2, <1>4, <1>5 DEF Network!Place, five

\* Places with the same numbers are the same.
LEMMA AlikeIsEqual ==
  ASSUME NEW f \in Observable, NEW g \in Observable, alike(Network!Place(f), Network!Place(g))
  PROVE  Network!Place(f) = Network!Place(g)
  BY DEF alike, Network!Place

\* The order in which a stable sort puts the i-th and j-th of a capture.
inOrder(s, j, i) ==
  LET p == Network!Place(s[j])
      q == Network!Place(s[i])
  IN  lex(p, q) \/ (~lex(q, p) /\ j < i)

order(s) == {x \in (1..Len(s)) \X (1..Len(s)) : x[1] # x[2] /\ inOrder(s, x[1], x[2])}

LEMMA OrderIs ==
  ASSUME NEW s, NEW i \in 1..Len(s), NEW j \in 1..Len(s)
  PROVE  <<j, i>> \in order(s) <=> j # i /\ inOrder(s, j, i)
  BY DEF order

LEMMA CaptureIsOrdered ==
  ASSUME NEW s \in Seq(Observable)
  PROVE  Ordering(Len(s), order(s))
<1> DEFINE n == Len(s)
           P(i) == Network!Place(s[i])
<1>1. n \in Nat /\ \A i \in 1..n : five(P(i))
  BY PlaceIsFive
<1>2. \A i, j \in 1..n : inOrder(s, i, j) <=> lex(P(i), P(j)) \/ (~lex(P(j), P(i)) /\ i < j)
  BY DEF inOrder
<1>3. \A i, j \in 1..n : <<i, j>> \in order(s) <=> i # j /\ inOrder(s, i, j)
  BY OrderIs
<1> HIDE DEF n, P
<1>4. ASSUME NEW i \in 1..n, NEW j \in 1..n, i # j PROVE inOrder(s, i, j) \/ inOrder(s, j, i)
  BY <1>1, <1>2, <1>4
<1>5. ASSUME NEW i \in 1..n, NEW j \in 1..n, NEW k \in 1..n, i # j, j # k, inOrder(s, i, j), inOrder(s, j, k)
      PROVE  i # k /\ inOrder(s, i, k)
  <2>1. /\ five(P(i)) /\ five(P(j)) /\ five(P(k))
        /\ lex(P(i), P(j)) \/ (alike(P(i), P(j)) /\ i < j)
        /\ lex(P(j), P(k)) \/ (alike(P(j), P(k)) /\ j < k)
    BY <1>1, <1>2, <1>5, LexIsOrder
  <2>2. CASE lex(P(i), P(j)) \/ lex(P(j), P(k))
    <3>1. lex(P(i), P(k))
      BY <2>1, <2>2, LexIsOrder
    <3>2. i # k
      BY <2>1, <3>1, LexIsOrder
    <3> QED
      BY <3>1, <3>2, <1>2
  <2>3. CASE ~(lex(P(i), P(j)) \/ lex(P(j), P(k)))
    <3>1. alike(P(i), P(k)) /\ i < k /\ i # k
      BY <2>1, <2>3, <1>1 DEF alike
    <3>2. ~lex(P(k), P(i))
      <4>1. alike(P(k), P(i))
        BY <3>1 DEF alike
      <4>2. lex(P(k), P(i)) => lex(P(k), P(k))
        BY <2>1, <3>1, LexIsOrder
      <4>3. ~lex(P(k), P(k))
        BY <2>1, LexIsOrder
      <4> QED
        BY <4>2, <4>3
    <3> QED
      BY <3>1, <3>2, <1>2
  <2> QED
    BY <2>2, <2>3
<1> QED
  BY <1>3, <1>4, <1>5 DEF Ordering, n

\* Normalizing puts each flow where its rank says (netmon.go:146-153).
LEMMA NormalizeIs ==
  ASSUME NEW s \in Seq(Observable)
  PROVE  /\ DOMAIN Network!Normalize(s) = 1..Len(s)
         /\ \E f : Network!Normalize(s) = [k \in 1..Len(s) |-> f[k]]
         /\ \A i \in 1..Len(s) : Network!Normalize(s)[rankOf(Len(s), order(s), i)] = s[i]
<1> DEFINE n == Len(s)
           Q == order(s)
           first(i, j) ==
             \/ Network!Before(Network!Place(s[i]), Network!Place(s[j]))
             \/ ~Network!Before(Network!Place(s[j]), Network!Place(s[i])) /\ i < j
           places == [i \in 1..n |-> Cardinality({j \in 1..n : j # i /\ first(j, i)}) + 1]
           sorted == [k \in 1..n |-> s[CHOOSE i \in 1..n : places[i] = k]]
<1>1. n \in Nat /\ DOMAIN s = 1..n /\ \A i \in 1..n : s[i] \in Observable
  OBVIOUS
<1>2. Network!Normalize(s) = sorted
  BY <1>1 DEF Network!Normalize, Network!StableSort, Network!flowLess, Network!Cardinality, Cardinality
<1>3. \A i, j \in 1..n : <<j, i>> \in Q <=> j # i /\ first(j, i)
  <2> SUFFICES ASSUME NEW i \in 1..n, NEW j \in 1..n PROVE <<j, i>> \in Q <=> j # i /\ first(j, i)
    OBVIOUS
  <2>1. five(Network!Place(s[i])) /\ five(Network!Place(s[j]))
    BY <1>1, PlaceIsFive
  <2>2. first(j, i) <=> inOrder(s, j, i)
    BY <2>1, BeforeIsLex DEF inOrder
  <2> QED
    BY <2>2, OrderIs
<1> HIDE DEF n, Q, first
<1>4. \A i \in 1..n : places[i] = rankOf(n, Q, i)
  <2> SUFFICES ASSUME NEW i \in 1..n PROVE {j \in 1..n : j # i /\ first(j, i)} = ahead(n, Q, i)
    BY DEF rankOf
  <2> QED
    BY <1>3 DEF ahead
<1> HIDE DEF places
<1>5. Ordering(n, Q)
  BY CaptureIsOrdered DEF n, Q
<1>6. ASSUME NEW i \in 1..n PROVE sorted[rankOf(n, Q, i)] = s[i]
  <2>1. rankOf(n, Q, i) \in 1..n /\ \A j \in 1..n : rankOf(n, Q, j) = rankOf(n, Q, i) => j = i
    BY <1>1, <1>5, RanksDiffer
  <2>2. (CHOOSE j \in 1..n : places[j] = rankOf(n, Q, i)) = i
    BY <1>4, <2>1
  <2> QED
    BY <2>1, <2>2
<1>7. DOMAIN sorted = 1..n /\ \E f : sorted = [k \in 1..n |-> f[k]]
  <2>1. sorted = [k \in 1..n |-> sorted[k]]
    OBVIOUS
  <2> HIDE DEF sorted
  <2> QED
    BY <2>1
<1> HIDE DEF sorted
<1> QED
  BY <1>2, <1>6, <1>7 DEF n, Q

\* What is in the canonical order was in the capture.
LEMMA NormalizeKeeps ==
  ASSUME NEW s \in Seq(Observable), NEW k \in DOMAIN Network!Normalize(s)
  PROVE  \E i \in DOMAIN s : Network!Normalize(s)[k] = s[i]
<1>1. Len(s) \in Nat /\ DOMAIN s = 1..Len(s) /\ k \in 1..Len(s)
  BY NormalizeIs
<1>2. \E i \in 1..Len(s) : rankOf(Len(s), order(s), i) = k
  BY <1>1, RanksAreTaken, CaptureIsOrdered
<1> QED
  BY <1>1, <1>2, NormalizeIs

\* Two neighbours change places.
neighbours(n, i) == [k \in 1..n |-> IF k = i THEN i + 1 ELSE IF k = i + 1 THEN i ELSE k]

LEMMA NeighboursSwap ==
  ASSUME NEW n \in Nat, NEW i \in 1..(n - 1)
  PROVE  neighbours(n, i) \in Bijection(1..n, 1..n)
<1> DEFINE g == neighbours(n, i)
<1>1. g \in [1..n -> 1..n]
  BY DEF neighbours
<1>2. \A a, b \in 1..n : g[a] = g[b] => a = b
  BY DEF neighbours
<1>3. \A t \in 1..n : \E x \in 1..n : g[x] = t
  <2> SUFFICES ASSUME NEW t \in 1..n PROVE g[g[t]] = t
    BY <1>1
  <2> QED
    BY DEF neighbours
<1> HIDE DEF g
<1>4. g \in Bijection(1..n, 1..n)
  BY <1>1, <1>2, <1>3, Fun_IsBij
<1> QED
  BY <1>4 DEF g

\* In a capture without ties two neighbours may arrive in either order.
LEMMA NeighboursCommute ==
  ASSUME NEW s \in Seq(Observable), NEW i \in 1..(Len(s) - 1),
         \A a, b \in DOMAIN s : Network!Place(s[a]) = Network!Place(s[b]) => s[a] = s[b]
  PROVE  Network!Normalize(Network!SwapAt(s, i)) = Network!Normalize(s)
<1> DEFINE n == Len(s)
           t == Network!SwapAt(s, i)
           g == neighbours(n, i)
<1>1. n \in Nat /\ DOMAIN s = 1..n /\ i \in 1..(n - 1) /\ s = [k \in 1..n |-> s[k]]
  OBVIOUS
<1>2. /\ t \in Seq(Observable) /\ Len(t) = n /\ t = [k \in 1..n |-> t[k]]
      /\ \A k \in 1..n : t[k] = s[g[k]]
  <2>1. t = [k \in 1..n |-> IF k = i + 1 THEN s[i] ELSE IF k = i THEN s[i + 1] ELSE s[k]]
    BY DEF Network!SwapAt
  <2>2. \A k \in 1..n : t[k] = s[g[k]]
    BY <1>1, <2>1 DEF neighbours
  <2>3. \A k \in 1..n : t[k] \in Observable
    BY <1>1, <2>1
  <2>4. DOMAIN t = 1..n /\ t = [k \in 1..n |-> t[k]]
    BY <2>1
  <2> HIDE DEF t, g
  <2>5. t \in Seq(Observable)
    BY <1>1, <2>3, <2>4
  <2> QED
    BY <1>1, <2>2, <2>4, <2>5
<1>3. g \in Bijection(1..n, 1..n) /\ g \in [1..n -> 1..n] /\ \A a, b \in 1..n : g[a] = g[b] => a = b
  BY <1>1, NeighboursSwap DEF Bijection, Injection, IsInjective
<1>4. \A a, b \in 1..n : a < b /\ ~(g[a] < g[b]) => a = i /\ b = i + 1
  BY <1>1 DEF neighbours
<1>5. \A a, b \in 1..n : ~(a < b) /\ g[a] < g[b] => a = i + 1 /\ b = i
  BY <1>1 DEF neighbours
<1>6. i \in 1..n /\ i + 1 \in 1..n /\ g[i] = i + 1 /\ g[i + 1] = i
  BY <1>1 DEF neighbours
<1> HIDE DEF n, t, g
<1>7. CASE s[i] = s[i + 1]
  <2>1. \A k \in 1..n : s[g[k]] = s[k]
    <3> TAKE k \in 1..n
    <3>1. g[k] = IF k = i THEN i + 1 ELSE IF k = i + 1 THEN i ELSE k
      BY <1>1 DEF g, neighbours
    <3> QED
      BY <1>7, <3>1
  <2>2. t = s
    <3>1. (\A k \in 1..n : t[k] = s[k]) /\ t = [k \in 1..n |-> t[k]] /\ s = [k \in 1..n |-> s[k]]
      BY <1>1, <1>2, <2>1
    <3> HIDE DEF t, n
    <3> QED
      BY <3>1
  <2> QED
    BY <2>2 DEF t
<1>8. CASE s[i] # s[i + 1]
  <2>1. ASSUME NEW a \in 1..n, NEW b \in 1..n, a # b PROVE inOrder(t, a, b) <=> inOrder(s, g[a], g[b])
    <3>1. t[a] = s[g[a]] /\ t[b] = s[g[b]] /\ g[a] \in 1..n /\ g[b] \in 1..n
      BY <1>2, <1>3
    <3> DEFINE p == Network!Place(s[g[a]])
               q == Network!Place(s[g[b]])
    <3>2. five(p) /\ five(q)
      BY <1>1, <3>1, PlaceIsFive
    <3>3. inOrder(t, a, b) <=> lex(p, q) \/ (~lex(q, p) /\ a < b)
      BY <3>1 DEF inOrder
    <3>4. inOrder(s, g[a], g[b]) <=> lex(p, q) \/ (~lex(q, p) /\ g[a] < g[b])
      BY DEF inOrder
    <3>5. ~lex(p, q) /\ ~lex(q, p) => s[g[a]] = s[g[b]]
      <4>1. s[g[a]] \in Observable /\ s[g[b]] \in Observable
        BY <1>1, <3>1
      <4>2. alike(p, q) => p = q
        BY <4>1, AlikeIsEqual
      <4>3. p = q => s[g[a]] = s[g[b]]
        BY <1>1, <3>1
      <4> HIDE DEF p, q
      <4> QED
        BY <3>2, <4>2, <4>3, LexIsOrder
    <3> HIDE DEF p, q
    <3>6. ~lex(p, q) /\ ~lex(q, p) => (a < b <=> g[a] < g[b])
      BY <3>5, <1>4, <1>5, <1>6, <1>8
    <3> QED
      BY <3>3, <3>4, <3>6
  <2>2. renames(n, g, order(t), order(s))
    <3> SUFFICES ASSUME NEW a \in 1..n, NEW b \in 1..n PROVE <<a, b>> \in order(t) <=> <<g[a], g[b]>> \in order(s)
      BY DEF renames
    <3>1. <<a, b>> \in order(t) <=> a # b /\ inOrder(t, a, b)
      BY <1>2, OrderIs
    <3>2. g[a] \in 1..n /\ g[b] \in 1..n /\ (g[a] = g[b] <=> a = b)
      BY <1>3
    <3>3. <<g[a], g[b]>> \in order(s) <=> g[a] # g[b] /\ inOrder(s, g[a], g[b])
      BY <3>2, OrderIs DEF n
    <3> QED
      BY <2>1, <3>1, <3>2, <3>3
  <2>3. \A k \in 1..n : rankOf(n, order(t), k) = rankOf(n, order(s), g[k])
    BY <1>1, <1>3, <2>2, RanksFollow
  <2>4. Ordering(n, order(t))
    BY <1>2, CaptureIsOrdered
  <2>5. ASSUME NEW m \in 1..n PROVE Network!Normalize(t)[m] = Network!Normalize(s)[m]
    <3>1. PICK k \in 1..n : rankOf(n, order(t), k) = m
      BY <1>1, <2>4, RanksAreTaken
    <3>2. Network!Normalize(t)[m] = t[k]
      BY <1>2, <3>1, NormalizeIs
    <3>3. g[k] \in 1..n /\ rankOf(n, order(s), g[k]) = m
      BY <1>3, <2>3, <3>1
    <3>4. Network!Normalize(s)[m] = s[g[k]]
      BY <3>3, NormalizeIs DEF n
    <3> QED
      BY <1>2, <3>2, <3>4
  <2>6. /\ \E f : Network!Normalize(t) = [k \in 1..n |-> f[k]]
        /\ \E f : Network!Normalize(s) = [k \in 1..n |-> f[k]]
    <3>1. \E f : Network!Normalize(t) = [k \in 1..Len(t) |-> f[k]]
      BY <1>2, NormalizeIs
    <3>2. \E f : Network!Normalize(s) = [k \in 1..Len(s) |-> f[k]]
      BY NormalizeIs
    <3> QED
      BY <3>1, <3>2, <1>2 DEF n
  <2>7. Network!Normalize(t) = Network!Normalize(s)
    BY <2>5, <2>6
  <2> QED
    BY <2>7 DEF t
<1> QED
  BY <1>7, <1>8

\* The report and the policies are made of the capture in canonical order
\* (detect.go:165-172, policygen.go:181-196).
LEMMA ReadInOrder ==
  ASSUME NEW s, NEW t, NEW queries, NEW useIntent, Network!Normalize(s) = Network!Normalize(t)
  PROVE  /\ Network!Analyze(s, queries) = Network!Analyze(t, queries)
         /\ Network!GenerateForCapture(s, queries, useIntent) = Network!GenerateForCapture(t, queries, useIntent)
<1>1. Network!FlowLogs(Network!Normalize(s), queries) = Network!FlowLogs(Network!Normalize(t), queries)
  OBVIOUS
<1>2. Network!Analyze(s, queries) = Network!Analyze(t, queries)
  BY <1>1, Zenon DEF Network!Analyze
<1>3. Network!GenerateForCapture(s, queries, useIntent) = Network!GenerateForCapture(t, queries, useIntent)
  BY <1>1, Zenon DEF Network!GenerateForCapture
<1> QED
  BY <1>2, <1>3

\* The log of a workload and what the audit of it says (dryrun.go:94-125, command.go:143-196).
logOf(s, id) == Network!FlowLog(Network!Normalize(s), capture.dns, id)
freshPolicy(id) == Network!GeneratePolicy(logOf(capture.flows, id), deployed.intent)
givenList(id) == Network!AllowlistFromPolicy(deployed.policies[id])

\* A capture is of observed flows, what is deployed was made of those it was made
\* of, and what was said last is said of what there is.
Captured ==
  /\ capture = [flows |-> capture.flows, dns |-> capture.dns, mode |-> capture.mode]
  /\ capture.flows \in Seq(Observable)

Generated ==
  /\ deployed.flows \in Seq(Observable)
  /\ \A id \in DOMAIN deployed.policies :
       deployed.policies[id] = Network!GeneratePolicy(logOf(deployed.flows, id), deployed.intent)

Reported ==
  outcome.command = "report" => outcome.anomalies = Network!Analyze(capture.flows, capture.dns)

Audited ==
  outcome.command = "audit" =>
    /\ outcome.id \in DOMAIN deployed.policies /\ outcome.widened \in BOOLEAN
    /\ outcome.dests = logOf(capture.flows, outcome.id).dests
    /\ outcome.denied = Network!DryRun(logOf(capture.flows, outcome.id),
                          [givenList(outcome.id) EXCEPT !.allowInternal = outcome.widened])
    /\ outcome.excluded = freshPolicy(outcome.id).excluded
    /\ outcome.diff = Network!DiffAllowlists(givenList(outcome.id), Network!AllowlistFromPolicy(freshPolicy(outcome.id)))

NetworkInv == assessment = "network" => Captured /\ Generated /\ Reported /\ Audited

LEMMA NetworkStart == PostureInit => NetworkInv
<1> SUFFICES ASSUME PostureInit, assessment = "network" PROVE Captured /\ Generated /\ Reported /\ Audited
  BY DEF NetworkInv
<1>1. Network!Init
  BY DEF PostureInit
<1>2. Captured
  <2>1. PICK w \in Windows : capture = [flows |-> <<>>, dns |-> w.dns, mode |-> w.mode]
    BY <1>1 DEF Network!Init
  <2> QED
    BY <2>1 DEF Captured
<1>3. deployed.policies = <<>> /\ deployed.flows = <<>>
  BY <1>1 DEF Network!Init
<1>4. outcome.command = "none"
  BY <1>1 DEF Network!Init, Network!Nothing
<1>5. Generated
  <2>1. DOMAIN deployed.policies = {}
    BY <1>3
  <2>2. deployed.flows \in Seq(Observable)
    BY <1>3
  <2> QED
    BY <2>1, <2>2 DEF Generated
<1> QED
  BY <1>2, <1>4, <1>5 DEF Reported, Audited

LEMMA NetworkStep ==
  ASSUME assessment = "network", NetworkInv, Network!NetworkNext, UNCHANGED assessment
  PROVE  NetworkInv'
<1>0. Captured /\ Generated /\ Reported /\ Audited
  BY DEF NetworkInv
<1> SUFFICES Captured' /\ Generated' /\ Reported' /\ Audited'
  BY DEF NetworkInv
<1>1. ASSUME NEW f \in Observable, Network!Observe(f) PROVE Captured' /\ Generated' /\ Reported' /\ Audited'
  <2>1. /\ deployed' = deployed /\ outcome' = Network!Nothing
        /\ capture' = [capture EXCEPT !.flows = Append(@, f)]
    BY <1>1 DEF Network!Observe
  <2>2. capture' = [flows |-> Append(capture.flows, f), dns |-> capture.dns, mode |-> capture.mode]
    BY <1>0, <2>1 DEF Captured
  <2>3. capture'.flows = Append(capture.flows, f) /\ capture'.dns = capture.dns /\ capture'.mode = capture.mode
    BY <2>2
  <2>4. Captured'
    BY <1>0, <2>2, <2>3 DEF Captured
  <2>5. Generated'
    BY <1>0, <2>1, <2>3 DEF Generated, logOf
  <2>6. outcome'.command = "none"
    BY <2>1 DEF Network!Nothing
  <2> QED
    BY <2>4, <2>5, <2>6 DEF Reported, Audited
<1>2. CASE Network!RunReport
  <2>1. /\ capture' = capture /\ deployed' = deployed
        /\ outcome'.command = "report" /\ outcome'.anomalies = Network!Analyze(capture.flows, capture.dns)
    BY <1>2, Zenon DEF Network!RunReport
  <2>2. Captured' /\ Generated'
    BY <1>0, <2>1 DEF Captured, Generated, logOf
  <2> QED
    BY <2>1, <2>2 DEF Reported, Audited
<1>3. ASSUME NEW b \in BOOLEAN, Network!RunGenerate(b) PROVE Captured' /\ Generated' /\ Reported' /\ Audited'
  <2> DEFINE made == Network!GenerateForCapture(capture.flows, capture.dns, b)
  <2>1. capture' = capture /\ outcome'.command = "generate"
    BY <1>3 DEF Network!RunGenerate
  <2>2. Captured' /\ Reported' /\ Audited'
    BY <1>0, <2>1 DEF Captured, Reported, Audited
  <2>3. CASE deployed' = deployed
    BY <1>0, <2>1, <2>2, <2>3 DEF Generated, logOf
  <2>4. CASE deployed' = [policies |-> made, flows |-> capture.flows, intent |-> b]
    <3>1. \A id \in DOMAIN made : made[id] = Network!GeneratePolicy(logOf(capture.flows, id), b)
      <4>1. /\ DOMAIN made \subseteq DOMAIN Network!FlowLogs(Network!Normalize(capture.flows), capture.dns)
            /\ \A id \in DOMAIN made :
                 made[id] = Network!GeneratePolicy(Network!FlowLogs(Network!Normalize(capture.flows), capture.dns)[id], b)
        BY DEF Network!GenerateForCapture
      <4>2. \A id \in DOMAIN Network!FlowLogs(Network!Normalize(capture.flows), capture.dns) :
              Network!FlowLogs(Network!Normalize(capture.flows), capture.dns)[id] = logOf(capture.flows, id)
        BY DEF Network!FlowLogs, logOf
      <4> QED
        BY <4>1, <4>2
    <3> HIDE DEF made
    <3>2. deployed'.policies = made /\ deployed'.flows = capture.flows /\ deployed'.intent = b
      BY <2>4
    <3>3. Generated'
      BY <1>0, <2>1, <3>1, <3>2 DEF Generated, Captured, logOf
    <3> QED
      BY <2>2, <3>3
  <2> QED
    BY <1>3, <2>3, <2>4 DEF Network!RunGenerate
<1>4. ASSUME NEW id \in DOMAIN deployed.policies, NEW b \in BOOLEAN, Network!RunAudit(id, b)
      PROVE  Captured' /\ Generated' /\ Reported' /\ Audited'
  <2>1. /\ capture' = capture /\ deployed' = deployed
        /\ outcome' = [command |-> "audit", id |-> id, widened |-> b, dests |-> logOf(capture.flows, id).dests,
                       denied |-> Network!DryRun(logOf(capture.flows, id), [givenList(id) EXCEPT !.allowInternal = b]),
                       excluded |-> freshPolicy(id).excluded,
                       diff |-> Network!DiffAllowlists(givenList(id), Network!AllowlistFromPolicy(freshPolicy(id)))]
    BY <1>4, Zenon DEF Network!RunAudit, logOf, givenList, freshPolicy
  <2>2. Captured' /\ Generated'
    BY <1>0, <2>1 DEF Captured, Generated, logOf
  <2> DEFINE dests == logOf(capture.flows, id).dests
             denied == Network!DryRun(logOf(capture.flows, id), [givenList(id) EXCEPT !.allowInternal = b])
             excluded == freshPolicy(id).excluded
             diff == Network!DiffAllowlists(givenList(id), Network!AllowlistFromPolicy(freshPolicy(id)))
  <2>3. outcome' = [command |-> "audit", id |-> id, widened |-> b, dests |-> dests, denied |-> denied,
                    excluded |-> excluded, diff |-> diff]
    BY <2>1
  <2> HIDE DEF dests, denied, excluded, diff
  <2>4. /\ outcome'.command = "audit" /\ outcome'.id = id /\ outcome'.widened = b /\ outcome'.dests = dests
        /\ outcome'.denied = denied /\ outcome'.excluded = excluded /\ outcome'.diff = diff
    BY <2>3
  <2>5. Reported'
    BY <2>4 DEF Reported
  <2>6. Audited'
    BY <2>1, <2>4, Zenon DEF Audited, logOf, givenList, freshPolicy, dests, denied, excluded, diff
  <2> QED
    BY <2>2, <2>5, <2>6
<1>5. CASE Network!Done
  <2>1. capture' = capture /\ deployed' = deployed /\ outcome'.command = "none"
    BY <1>5 DEF Network!Done, Network!Nothing
  <2>2. Captured' /\ Generated'
    BY <1>0, <2>1 DEF Captured, Generated, logOf
  <2> QED
    BY <2>1, <2>2 DEF Reported, Audited
<1> QED
  BY <1>1, <1>2, <1>3, <1>4, <1>5 DEF Network!NetworkNext

\* netmon.go:146-147: exchanging neighbours of a capture changes nothing.
LEMMA NoOrderOfArrival ==
  ASSUME assessment = "network", NetworkInv
  PROVE  Network!ArrivalIsIgnored
<1>1. Captured /\ Reported
  BY DEF NetworkInv
<1> SUFFICES ASSUME outcome.command = "report", Network!NoTies, NEW i \in 1..(Len(capture.flows) - 1)
             PROVE  LET swapped == Network!SwapAt(capture.flows, i)
                    IN /\ Network!Analyze(swapped, capture.dns) = outcome.anomalies
                       /\ Network!GenerateForCapture(swapped, capture.dns, TRUE)
                            = Network!GenerateForCapture(capture.flows, capture.dns, TRUE)
  BY DEF Network!ArrivalIsIgnored
<1> DEFINE swapped == Network!SwapAt(capture.flows, i)
<1>2. capture.flows \in Seq(Observable)
  BY <1>1 DEF Captured
<1>3. Network!Normalize(swapped) = Network!Normalize(capture.flows)
  BY <1>2, NeighboursCommute DEF Network!NoTies
<1> HIDE DEF swapped
<1>4. /\ Network!Analyze(swapped, capture.dns) = Network!Analyze(capture.flows, capture.dns)
      /\ Network!GenerateForCapture(swapped, capture.dns, TRUE)
           = Network!GenerateForCapture(capture.flows, capture.dns, TRUE)
  <2>1. Network!Analyze(swapped, capture.dns) = Network!Analyze(capture.flows, capture.dns)
    BY <1>3, ReadInOrder
  <2>2. \A b : Network!GenerateForCapture(swapped, capture.dns, b)
                = Network!GenerateForCapture(capture.flows, capture.dns, b)
    BY <1>3, ReadInOrder
  <2> QED
    BY <2>1, <2>2, Zenon
<1>5. outcome.anomalies = Network!Analyze(capture.flows, capture.dns)
  BY <1>1 DEF Reported
<1> QED
  BY <1>4, <1>5 DEF swapped

\* Where a destination of a log comes from: its first flow (flowlog.go:97-128).
seenIn(d, f, id) ==
  /\ f.wl = id /\ f.dir # "ingress"
  /\ d.fqdn = f.fqdn /\ d.ip = f.ip
  /\ d.imds = Network!IsIMDS(f.ip) /\ d.internal = Network!IsInternal(f.ip)

LEMMA DestIsSeen ==
  ASSUME NEW s \in Seq(Observable), NEW id, NEW d \in logOf(s, id).dests
  PROVE  \E i \in DOMAIN s : seenIn(d, s[i], id)
<1> DEFINE n == Network!Normalize(s)
<1>1. PICK j \in DOMAIN n : Network!isEgress(n[j], id) /\ d = Network!DestStat(n, id, Network!Key(n[j]))
  BY DEF logOf, Network!FlowLog
<1> DEFINE same(f) == Network!isEgress(f, id) /\ Network!Key(f) = Network!Key(n[j])
           least == CHOOSE i \in DOMAIN n : same(n[i]) /\ \A k \in DOMAIN n : same(n[k]) => i <= k
<1>2. DOMAIN n \subseteq Nat
  BY NormalizeIs
<1>3. least \in DOMAIN n /\ same(n[least])
  <2> DEFINE S == {i \in DOMAIN n : same(n[i])}
  <2>1. S \subseteq Nat /\ j \in S
    BY <1>1, <1>2
  <2>2. \E i \in S : \A k \in S : i <= k
    <3> HIDE DEF S
    <3> QED
      BY <2>1, LeastOf
  <2>3. \E i \in DOMAIN n : same(n[i]) /\ \A k \in DOMAIN n : same(n[k]) => i <= k
    BY <2>2
  <2> HIDE DEF same, n
  <2> QED
    BY <2>3
<1>4. /\ d.fqdn = n[least].fqdn /\ d.ip = n[least].ip
      /\ d.imds = Network!IsIMDS(n[least].ip) /\ d.internal = Network!IsInternal(n[least].ip)
  BY <1>1 DEF Network!DestStat
<1>5. PICK i \in DOMAIN s : n[least] = s[i]
  <2> HIDE DEF least
  <2> QED
    BY <1>3, NormalizeKeeps
<1>6. s[i].wl = id /\ s[i].dir # "ingress"
  BY <1>3, <1>5 DEF Network!isEgress
<1> HIDE DEF n, least
<1> QED
  BY <1>4, <1>5, <1>6 DEF seenIn

\* What of a policy is on its allowlist.
LEMMA ListIs ==
  ASSUME NEW p
  PROVE  LET list == Network!AllowlistFromPolicy(p)
         IN  /\ list.fqdns = p.fqdns /\ list.cidrs = {b[1] : b \in p.blocks}
             /\ list.allowDNS = TRUE /\ list.ports = {} /\ DOMAIN list = {"fqdns", "cidrs", "allowDNS", "ports", "allowInternal"}
  BY DEF Network!AllowlistFromPolicy

\* What a policy is generated of (policygen.go:88-180).
fits(p, log) ==
  /\ \A n \in p.fqdns : \E d \in log.dests : ~d.imds /\ d.fqdn # "" /\ d.fqdn = n
  /\ \A b \in p.blocks : \E d \in log.dests : ~d.imds /\ d.ip # "" /\ d.ip = b[1]
  /\ \A d \in log.dests : ~d.imds /\ d.host \notin p.excluded =>
       /\ d.fqdn # "" /\ ~d.internal => d.fqdn \in p.fqdns
       /\ ~(d.fqdn # "" /\ ~d.internal) /\ d.ip # "" => \E b \in p.blocks : d.ip = b[1]

LEMMA PolicyIs ==
  ASSUME NEW log, NEW useIntent, NEW p, p = Network!GeneratePolicy(log, useIntent)
  PROVE  fits(p, log)
<1> DEFINE reached == {d \in log.dests : ~d.imds}
           out == {d \in reached : useIntent /\ Network!AnomalousHost(log, d.host)}
           named == {d \in reached \ out : d.fqdn # "" /\ ~d.internal}
           blocked == {e \in (reached \ out) \ named : e.ip # ""}
<1>1. /\ p.excluded = {d.host : d \in out}
      /\ p.fqdns = {d.fqdn : d \in named}
      /\ p.blocks = {<<d.ip, Network!protoFor(d.proto), d.port>> : d \in blocked}
  BY DEF Network!GeneratePolicy
<1>2. \A n \in p.fqdns : \E d \in log.dests : ~d.imds /\ d.fqdn # "" /\ d.fqdn = n
  BY <1>1
<1>3. \A b \in p.blocks : \E d \in log.dests : ~d.imds /\ d.ip # "" /\ d.ip = b[1]
  <2> SUFFICES ASSUME NEW b \in p.blocks PROVE \E d \in log.dests : ~d.imds /\ d.ip # "" /\ d.ip = b[1]
    OBVIOUS
  <2>1. PICK d \in blocked : b = <<d.ip, Network!protoFor(d.proto), d.port>>
    BY <1>1
  <2>2. d \in log.dests /\ ~d.imds /\ d.ip # ""
    OBVIOUS
  <2> QED
    BY <2>1, <2>2
<1>4. ASSUME NEW d \in log.dests, ~d.imds, d.host \notin p.excluded
      PROVE  /\ d.fqdn # "" /\ ~d.internal => d.fqdn \in p.fqdns
             /\ ~(d.fqdn # "" /\ ~d.internal) /\ d.ip # "" => \E b \in p.blocks : d.ip = b[1]
  <2>1. d \in reached \ out
    BY <1>1, <1>4
  <2>2. d.fqdn # "" /\ ~d.internal => d.fqdn \in p.fqdns
    BY <1>1, <2>1
  <2>3. ~(d.fqdn # "" /\ ~d.internal) /\ d.ip # "" => d \in blocked
    BY <2>1
  <2>4. d \in blocked => <<d.ip, Network!protoFor(d.proto), d.port>> \in p.blocks
    BY <1>1
  <2> QED
    BY <2>2, <2>3, <2>4
<1> QED
  BY <1>2, <1>3, <1>4 DEF fits

\* dryrun.go:19-22 and policydiff.go:38-39: what a policy that the capture would
\* give again denies of it, and what it admits.
LEMMA PolicyFitsBaseline ==
  ASSUME assessment = "network", NetworkInv
  PROVE  Network!PolicyIsBaseline
<1> SUFFICES ASSUME outcome.command = "audit"
             PROVE  /\ capture.flows = deployed.flows => Network!Empty(outcome.diff)
                    /\ Network!Empty(outcome.diff) => \A d \in outcome.denied : Network!Unreachable(d)
                    /\ \A d \in outcome.dests \ outcome.denied :
                         \/ d.port = 53 \/ (outcome.widened /\ d.internal)
                         \/ \E i \in DOMAIN deployed.flows : Network!Known(deployed.flows[i], d)
  BY DEF Network!PolicyIsBaseline
<1> DEFINE id == outcome.id
           log == logOf(capture.flows, id)
           old == deployed.policies[id]
           new == freshPolicy(id)
           list == givenList(id)
           renewed == Network!AllowlistFromPolicy(new)
           widened == [list EXCEPT !.allowInternal = outcome.widened]
<1>1. /\ id \in DOMAIN deployed.policies /\ outcome.widened \in BOOLEAN
      /\ outcome.dests = log.dests /\ outcome.denied = Network!DryRun(log, widened)
      /\ outcome.excluded = new.excluded /\ outcome.diff = Network!DiffAllowlists(list, renewed)
  BY DEF NetworkInv, Audited
<1>2. deployed.flows \in Seq(Observable) /\ old = Network!GeneratePolicy(logOf(deployed.flows, id), deployed.intent)
  BY <1>1 DEF NetworkInv, Generated
<1>3. new = Network!GeneratePolicy(log, deployed.intent) /\ capture.flows \in Seq(Observable)
  BY DEF freshPolicy, NetworkInv, Captured
<1>4. /\ list.fqdns = old.fqdns /\ list.cidrs = {b[1] : b \in old.blocks}
      /\ list.allowDNS = TRUE /\ list.ports = {} /\ DOMAIN list = {"fqdns", "cidrs", "allowDNS", "ports", "allowInternal"}
      /\ renewed.fqdns = new.fqdns /\ renewed.cidrs = {b[1] : b \in new.blocks}
  BY ListIs DEF givenList
<1>5. /\ widened.fqdns = old.fqdns /\ widened.cidrs = {b[1] : b \in old.blocks}
      /\ widened.allowDNS = TRUE /\ widened.ports = {} /\ widened.allowInternal = outcome.widened
  <2> HIDE DEF list, old
  <2> QED
    BY <1>4
<1>6. capture.flows = deployed.flows => renewed = list
  BY <1>2, <1>3 DEF givenList
<1>7. list = renewed => Network!Empty(outcome.diff)
  <2> HIDE DEF list, renewed
  <2> QED
    BY <1>1 DEF Network!Empty, Network!DiffAllowlists
<1>8. Network!Empty(outcome.diff) => new.fqdns \subseteq old.fqdns /\ {b[1] : b \in new.blocks} \subseteq {b[1] : b \in old.blocks}
  <2> SUFFICES ASSUME Network!Empty(outcome.diff)
               PROVE  new.fqdns \subseteq old.fqdns /\ {b[1] : b \in new.blocks} \subseteq {b[1] : b \in old.blocks}
    OBVIOUS
  <2> HIDE DEF list, renewed, new, old
  <2>1. renewed.fqdns \ list.fqdns = {} /\ renewed.cidrs \ list.cidrs = {}
    BY <1>1 DEF Network!Empty, Network!DiffAllowlists
  <2> QED
    BY <1>4, <2>1
<1>9. \A d : Network!permits(widened, d) <=>
              \/ d.port = 53
              \/ d.internal /\ outcome.widened
              \/ d.fqdn # "" /\ Network!fqdnAllowed(old.fqdns, d.fqdn)
              \/ d.ip # "" /\ d.ip \in {b[1] : b \in old.blocks}
  <2> HIDE DEF widened, old
  <2> QED
    BY <1>1, <1>5 DEF Network!permits
<1>10. outcome.denied = {d \in log.dests : ~Network!permits(widened, d)}
  BY <1>1 DEF Network!DryRun
<1>13. fits(old, logOf(deployed.flows, id)) /\ fits(new, log)
  <2> HIDE DEF old, new, log, id
  <2> QED
    BY <1>2, <1>3, PolicyIs
<1> HIDE DEF list, renewed, widened, old, new, log, id
<1>11. ASSUME Network!Empty(outcome.diff), NEW d \in outcome.denied PROVE Network!Unreachable(d)
  <2>1. d \in log.dests /\ ~Network!permits(widened, d)
    BY <1>10
  <2> SUFFICES ASSUME ~d.imds, d.host \notin new.excluded, ~(d.ip = "" /\ d.fqdn = "") PROVE FALSE
    BY <1>1 DEF Network!Unreachable
  <2>2. /\ d.fqdn # "" /\ ~d.internal => d.fqdn \in new.fqdns
        /\ ~(d.fqdn # "" /\ ~d.internal) /\ d.ip # "" => \E b \in new.blocks : d.ip = b[1]
    BY <1>13, <2>1 DEF fits
  <2>3. d.internal => d.ip # ""
    <3>1. PICK i \in DOMAIN capture.flows : seenIn(d, capture.flows[i], id)
      BY <1>3, <2>1, DestIsSeen DEF log
    <3>2. d.internal => d.ip \in Internal
      BY <3>1 DEF seenIn, Network!IsInternal
    <3> QED
      BY <3>2, PostureAssumption
  <2>4. CASE d.fqdn # "" /\ ~d.internal
    <3>1. d.fqdn \in old.fqdns
      BY <2>2, <2>4, <1>8, <1>11
    <3> QED
      BY <2>1, <2>4, <3>1, <1>9 DEF Network!fqdnAllowed
  <2>5. CASE ~(d.fqdn # "" /\ ~d.internal)
    <3>1. d.ip # ""
      BY <2>3, <2>5
    <3>2. d.ip \in {b[1] : b \in old.blocks}
      BY <2>2, <2>5, <3>1, <1>8, <1>11
    <3> QED
      BY <2>1, <3>1, <3>2, <1>9
  <2> QED
    BY <2>4, <2>5
<1>12. ASSUME NEW d \in outcome.dests \ outcome.denied, d.port # 53, ~(outcome.widened /\ d.internal)
       PROVE  \E i \in DOMAIN deployed.flows : Network!Known(deployed.flows[i], d)
  <2>1. Network!permits(widened, d)
    BY <1>1, <1>10
  <2>2. CASE d.fqdn # "" /\ Network!fqdnAllowed(old.fqdns, d.fqdn)
    <3>1. PICK n \in old.fqdns : d.fqdn = n \/ <<d.fqdn, n>> \in Below
      BY <2>2 DEF Network!fqdnAllowed
    <3>2. PICK e \in logOf(deployed.flows, id).dests : e.fqdn # "" /\ e.fqdn = n
      BY <1>13 DEF fits
    <3>3. PICK i \in DOMAIN deployed.flows : seenIn(e, deployed.flows[i], id)
      BY <1>2, DestIsSeen
    <3>4. Network!fqdnAllowed({deployed.flows[i].fqdn}, d.fqdn)
      BY <3>1, <3>2, <3>3 DEF Network!fqdnAllowed, seenIn
    <3>5. Network!Known(deployed.flows[i], d)
      BY <2>2, <3>2, <3>3, <3>4 DEF Network!Known, id, seenIn
    <3> QED
      BY <3>5
  <2>3. CASE d.ip # "" /\ d.ip \in {b[1] : b \in old.blocks}
    <3>1. PICK b \in old.blocks : d.ip = b[1]
      BY <2>3
    <3>2. PICK e \in logOf(deployed.flows, id).dests : ~e.imds /\ e.ip # "" /\ e.ip = b[1]
      BY <1>13 DEF fits
    <3>3. PICK i \in DOMAIN deployed.flows : seenIn(e, deployed.flows[i], id)
      BY <1>2, DestIsSeen
    <3>4. deployed.flows[i].ip = d.ip /\ ~Network!IsIMDS(d.ip)
      BY <3>1, <3>2, <3>3 DEF seenIn
    <3>5. Network!Known(deployed.flows[i], d)
      BY <2>3, <3>3, <3>4 DEF Network!Known, id, seenIn
    <3> QED
      BY <3>5
  <2> QED
    BY <2>1, <2>2, <2>3, <1>9, <1>12
<1> QED
  BY <1>6, <1>7, <1>11, <1>12

\* netmon.go:146-147, dryrun.go:19-22 and policydiff.go:38-39, for every capture:
\* in one without ties neighbours may arrive in either order, and so the flows in
\* any, and neither the report nor the policies change; a policy that the capture
\* would give again denies of it only metadata endpoints, what it excludes and
\* peers without name and address; and of a later capture it admits only what its
\* baseline knew, besides DNS and what it was widened to.
THEOREM CapturesDecide == PostureSpec => []CaptureDecides
<1>1. PostureInit => NetworkInv
  BY NetworkStart
<1>2. NetworkInv /\ [PostureNext]_postureVars => NetworkInv'
  <2> SUFFICES ASSUME NetworkInv, [PostureNext]_postureVars PROVE NetworkInv'
    OBVIOUS
  <2>1. CASE UNCHANGED postureVars
    <3>1. UNCHANGED <<assessment, capture, deployed, outcome>>
      BY <2>1 DEF postureVars, networkVars
    <3> QED
      BY <3>1 DEF NetworkInv, Captured, Generated, Reported, Audited, logOf, givenList, freshPolicy
  <2>2. CASE PostureNext /\ assessment = "network"
    <3>1. Network!NetworkNext /\ UNCHANGED assessment
      BY <2>2 DEF PostureNext
    <3> QED
      BY <2>2, <3>1, NetworkStep
  <2>3. CASE PostureNext /\ assessment # "network"
    BY <2>3 DEF PostureNext, NetworkInv
  <2> QED
    BY <2>1, <2>2, <2>3
<1>3. NetworkInv => CaptureDecides
  BY NoOrderOfArrival, PolicyFitsBaseline DEF CaptureDecides
<1> QED
  BY <1>1, <1>2, <1>3, PTL DEF PostureSpec

(***************************************************************************)
(* Advisories.  What every record of a feed says is in the database, and   *)
(* every component the database knows something about is matched with it.  *)
(***************************************************************************)
\* Induction over the numbers up to n, for a set of them.
LEMMA Induct ==
  ASSUME NEW n \in Nat, NEW good, 0 \in good, \A k \in 1..n : k - 1 \in good => k \in good
  PROVE  0..n \subseteq good
<1> DEFINE wrong == {k \in 0..n : k \notin good}
<1>1. ASSUME wrong # {} PROVE FALSE
  <2>1. PICK k \in 0..n : k \in wrong /\ \A j \in wrong : k <= j
    <3>1. wrong \subseteq Nat /\ wrong \subseteq 0..n
      OBVIOUS
    <3> HIDE DEF wrong
    <3> QED
      BY <1>1, <3>1, LeastOf
  <2>2. k # 0 /\ k \notin good
    BY <2>1
  <2>3. k - 1 \in 0..n /\ k \in 1..n /\ ~(k <= k - 1)
    BY <2>2
  <2>4. k - 1 \in good
    BY <2>1, <2>3
  <2> QED
    BY <2>2, <2>3, <2>4
<1> QED
  BY <1>1

LEMMA ElementsOfAppend ==
  ASSUME NEW S, NEW s \in Seq(S), NEW x \in S
  PROVE  /\ Append(s, x) \in Seq(S)
         /\ Advisory!elements(Append(s, x)) = Advisory!elements(s) \cup {x}
<1>1. /\ Append(s, x) \in Seq(S) /\ Len(Append(s, x)) = Len(s) + 1 /\ Len(s) \in Nat
      /\ DOMAIN Append(s, x) = 1..(Len(s) + 1) /\ DOMAIN s = 1..Len(s)
      /\ \A i \in 1..Len(s) : Append(s, x)[i] = s[i]
      /\ Append(s, x)[Len(s) + 1] = x
  OBVIOUS
<1>2. \A i \in 1..(Len(s) + 1) : i \in 1..Len(s) \/ i = Len(s) + 1
  BY <1>1
<1>3. 1..Len(s) \subseteq 1..(Len(s) + 1) /\ Len(s) + 1 \in 1..(Len(s) + 1)
  BY <1>1
<1> DEFINE t == Append(s, x)
           n == Len(s) + 1
<1> HIDE DEF t, n
<1>4. Advisory!elements(t) = Advisory!elements(s) \cup {x}
  BY <1>1, <1>2, <1>3 DEF Advisory!elements, t, n
<1> QED
  BY <1>1, <1>4 DEF t

LEMMA ElementsOfJoin ==
  ASSUME NEW s, NEW t, Advisory!aList(s), Advisory!aList(t)
  PROVE  Advisory!aList(s \o t) /\ Advisory!elements(s \o t) = Advisory!elements(s) \cup Advisory!elements(t)
<1> DEFINE S == Advisory!elements(s) \cup Advisory!elements(t)
           u == s \o t
           m == Len(s)
           n == Len(t)
<1>1. s \in Seq(S) /\ t \in Seq(S)
  BY DEF Advisory!aList
<1> HIDE DEF S
<1>2. /\ u \in Seq(S) /\ Len(u) = m + n /\ m \in Nat /\ n \in Nat
      /\ DOMAIN u = 1..(m + n) /\ DOMAIN s = 1..m /\ DOMAIN t = 1..n
      /\ \A i \in 1..m : u[i] = s[i]
      /\ \A i \in 1..n : u[m + i] = t[i]
  BY <1>1
<1> HIDE DEF u, m, n
<1>3. \A i \in 1..(m + n) : i \in 1..m \/ (i - m \in 1..n /\ i = m + (i - m))
  BY <1>2
<1>4. 1..m \subseteq 1..(m + n) /\ \A i \in 1..n : m + i \in 1..(m + n)
  BY <1>2
<1>5. Advisory!elements(u) = S
  <2>1. \A i \in DOMAIN u : u[i] \in S
    BY <1>2
  <2>2. \A i \in DOMAIN s : s[i] \in Advisory!elements(u)
    BY <1>2, <1>4 DEF Advisory!elements
  <2>3. \A i \in DOMAIN t : t[i] \in Advisory!elements(u)
    BY <1>2, <1>4 DEF Advisory!elements
  <2> QED
    BY <2>1, <2>2, <2>3 DEF S, Advisory!elements
<1> QED
  BY <1>2, <1>5 DEF Advisory!aList, S, u

(***************************************************************************)
(* The ranges of a record.                                                 *)
(***************************************************************************)
Ranges == [introduced : Nat, fixed : Nat, last : Nat]
Accumulated == [done : Seq(Ranges), cur : Ranges, open : BOOLEAN]
NothingYet == [done |-> <<>>, cur |-> Advisory!NoRange, open |-> FALSE]
anEventOf(e) == e.kind \in {"introduced", "fixed", "last"} /\ e.at \in Nat

\* What one event makes of the ranges so far (update.go:294-312).
LEMMA EventIs ==
  ASSUME NEW a \in Accumulated, NEW e, anEventOf(e)
  PROVE  LET b == Advisory!event(a, e)
         IN  /\ b \in Accumulated
             /\ Advisory!elements(a.done) \subseteq Advisory!elements(b.done)
             /\ e.kind = "introduced" =>
                  /\ b.open /\ b.cur = [introduced |-> e.at, fixed |-> 0, last |-> 0]
                  /\ a.open => a.cur \in Advisory!elements(b.done)
             /\ e.kind = "fixed" => [a.cur EXCEPT !.fixed = e.at] \in Advisory!elements(b.done)
             /\ e.kind = "last" => [a.cur EXCEPT !.last = e.at] \in Advisory!elements(b.done)
<1> DEFINE b == Advisory!event(a, e)
<1>1. a.done \in Seq(Ranges) /\ a.cur \in Ranges /\ a.open \in BOOLEAN
  BY DEF Accumulated
<1>2. Advisory!NoRange = [introduced |-> 0, fixed |-> 0, last |-> 0] /\ Advisory!NoRange \in Ranges
  BY DEF Advisory!NoRange, Advisory!Range, Advisory!Unset, Ranges
<1>3. CASE e.kind = "introduced"
  <2>1. b = [done |-> IF a.open THEN Append(a.done, a.cur) ELSE a.done,
             cur |-> [Advisory!NoRange EXCEPT !.introduced = e.at], open |-> TRUE]
    BY <1>3 DEF Advisory!event
  <2>2. [Advisory!NoRange EXCEPT !.introduced = e.at] = [introduced |-> e.at, fixed |-> 0, last |-> 0]
    BY <1>2
  <2>3. [introduced |-> e.at, fixed |-> 0, last |-> 0] \in Ranges
    BY DEF anEventOf, Ranges
  <2> DEFINE closed == IF a.open THEN Append(a.done, a.cur) ELSE a.done
  <2>4. /\ closed \in Seq(Ranges) /\ Advisory!elements(a.done) \subseteq Advisory!elements(closed)
        /\ a.open => a.cur \in Advisory!elements(closed)
    BY <1>1, ElementsOfAppend
  <2> HIDE DEF closed
  <2>5. b = [done |-> closed, cur |-> [introduced |-> e.at, fixed |-> 0, last |-> 0], open |-> TRUE]
    BY <2>1, <2>2 DEF closed
  <2> HIDE DEF b
  <2>6. b \in Accumulated /\ b.done = closed /\ b.cur = [introduced |-> e.at, fixed |-> 0, last |-> 0] /\ b.open
    BY <2>3, <2>4, <2>5 DEF Accumulated
  <2> QED
    BY <1>3, <2>4, <2>6 DEF b
<1>4. ASSUME NEW r \in Ranges, b = [done |-> Append(a.done, r), cur |-> Advisory!NoRange, open |-> FALSE]
      PROVE  b \in Accumulated /\ Advisory!elements(a.done) \subseteq Advisory!elements(b.done) /\ r \in Advisory!elements(b.done)
  <2> DEFINE closed == Append(a.done, r)
  <2>1. closed \in Seq(Ranges) /\ Advisory!elements(closed) = Advisory!elements(a.done) \cup {r}
    BY <1>1, ElementsOfAppend
  <2>2. b = [done |-> closed, cur |-> Advisory!NoRange, open |-> FALSE]
    BY <1>4
  <2> HIDE DEF closed, b
  <2>3. b \in Accumulated /\ b.done = closed
    BY <1>2, <2>1, <2>2 DEF Accumulated
  <2> QED
    BY <2>1, <2>3
<1>5. CASE e.kind = "fixed"
  <2>1. [a.cur EXCEPT !.fixed = e.at] \in Ranges
    BY <1>1 DEF Ranges, anEventOf
  <2>2. b = [done |-> Append(a.done, [a.cur EXCEPT !.fixed = e.at]), cur |-> Advisory!NoRange, open |-> FALSE]
    BY <1>5 DEF Advisory!event
  <2> HIDE DEF b
  <2>3. /\ b \in Accumulated /\ Advisory!elements(a.done) \subseteq Advisory!elements(b.done)
        /\ [a.cur EXCEPT !.fixed = e.at] \in Advisory!elements(b.done)
    BY <1>4, <2>1, <2>2
  <2> QED
    BY <1>5, <2>3 DEF b
<1>6. CASE e.kind = "last"
  <2>1. [a.cur EXCEPT !.last = e.at] \in Ranges
    BY <1>1 DEF Ranges, anEventOf
  <2>2. b = [done |-> Append(a.done, [a.cur EXCEPT !.last = e.at]), cur |-> Advisory!NoRange, open |-> FALSE]
    BY <1>6 DEF Advisory!event
  <2> HIDE DEF b
  <2>3. /\ b \in Accumulated /\ Advisory!elements(a.done) \subseteq Advisory!elements(b.done)
        /\ [a.cur EXCEPT !.last = e.at] \in Advisory!elements(b.done)
    BY <1>4, <2>1, <2>2
  <2> QED
    BY <1>6, <2>3 DEF b
<1> QED
  BY <1>3, <1>5, <1>6 DEF anEventOf

\* What is closed step after step, from a start, is defined.
LEMMA StepAfterStep ==
  ASSUME NEW S, NEW first \in S, NEW n \in Nat, NEW step \in [S \X (1..n) -> S]
  PROVE  \E f \in [0..n -> S] : f[0] = first /\ \A i \in 1..n : f[i] = step[<<f[i - 1], i>>]
<1> DEFINE good == {m \in 0..n : \E f \in [0..m -> S] :
                      f[0] = first /\ \A i \in 1..m : f[i] = step[<<f[i - 1], i>>]}
<1>1. 0 \in good
  <2>1. [i \in 0..0 |-> first] \in [0..0 -> S] /\ [i \in 0..0 |-> first][0] = first
    OBVIOUS
  <2>2. 0 \in 0..n /\ \A i \in 1..0 : FALSE
    OBVIOUS
  <2> HIDE DEF good
  <2>3. \E f \in [0..0 -> S] : f[0] = first /\ \A i \in 1..0 : f[i] = step[<<f[i - 1], i>>]
    BY <2>1, <2>2
  <2> QED
    BY <2>2, <2>3 DEF good
<1>2. ASSUME NEW m \in 1..n, m - 1 \in good PROVE m \in good
  <2>1. PICK f \in [0..(m - 1) -> S] :
          f[0] = first /\ \A i \in 1..(m - 1) : f[i] = step[<<f[i - 1], i>>]
    BY <1>2
  <2> DEFINE next == step[<<f[m - 1], m>>]
             g == [i \in 0..m |-> IF i = m THEN next ELSE f[i]]
  <2>2. f[m - 1] \in S
    BY <2>1
  <2>3. next \in S
    BY <2>2
  <2> HIDE DEF next
  <2>4. g \in [0..m -> S]
    BY <2>3
  <2>5. g[0] = first
    BY <2>1
  <2>6. \A i \in 1..(m - 1) : g[i] = step[<<g[i - 1], i>>]
    BY <2>1
  <2>7. g[m] = next /\ g[m - 1] = f[m - 1]
    OBVIOUS
  <2> HIDE DEF g
  <2>8. \A i \in 1..m : g[i] = step[<<g[i - 1], i>>]
    BY <2>6, <2>7 DEF next
  <2>9. m \in 0..n
    OBVIOUS
  <2> QED
    BY <2>4, <2>5, <2>8, <2>9
<1> HIDE DEF good
<1>3. n \in good
  BY <1>1, <1>2, Induct
<1> QED
  BY <1>3 DEF good

LEMMA RangesAre ==
  ASSUME NEW r, Advisory!anOSVRecord(r), r.range.type # "GIT"
  PROVE  \E f \in [0..Len(r.range.events) -> Accumulated] :
           /\ f[0] = NothingYet
           /\ \A i \in 1..Len(r.range.events) : f[i] = Advisory!event(f[i - 1], r.range.events[i])
           /\ Advisory!convertOSVRanges(r.range)
                = Advisory!elements(f[Len(r.range.events)].done)
                    \cup (IF f[Len(r.range.events)].open THEN {f[Len(r.range.events)].cur} ELSE {})
<1> DEFINE events == r.range.events
           n == Len(events)
           step == [x \in Accumulated \X (1..n) |-> Advisory!event(x[1], events[x[2]])]
<1>1. n \in Nat /\ DOMAIN events = 1..n /\ \A i \in 1..n : anEventOf(events[i])
  <2>1. events \in Seq(Advisory!elements(events))
    BY DEF Advisory!anOSVRecord, Advisory!aList
  <2> QED
    BY <2>1 DEF Advisory!anOSVRecord, anEventOf
<1>2. NothingYet \in Accumulated
  BY DEF NothingYet, Accumulated, Ranges, Advisory!NoRange, Advisory!Range, Advisory!Unset
<1>3. r.range.type # "GIT"
  OBVIOUS
<1> DEFINE ranges == Advisory!convertOSVRanges(r.range)
           rule(f) == f = [i \in 0..n |-> IF i = 0 THEN NothingYet ELSE Advisory!event(f[i - 1], events[i])]
           after == CHOOSE f : rule(f)
<1>4. ranges = Advisory!elements(after[n].done) \cup (IF after[n].open THEN {after[n].cur} ELSE {})
  BY <1>3 DEF Advisory!convertOSVRanges, NothingYet
<1> HIDE DEF ranges, events, n
<1>5. \A a \in Accumulated, i \in 1..n : Advisory!event(a, events[i]) \in Accumulated
  BY <1>1, EventIs
<1>6. step \in [Accumulated \X (1..n) -> Accumulated]
  BY <1>5
<1>7. \A a \in Accumulated, i \in 1..n : step[<<a, i>>] = Advisory!event(a, events[i])
  OBVIOUS
<1> HIDE DEF step
<1>8. PICK f \in [0..n -> Accumulated] : f[0] = NothingYet /\ \A i \in 1..n : f[i] = step[<<f[i - 1], i>>]
  BY <1>1, <1>2, <1>6, StepAfterStep
<1>9. \A i \in 1..n : f[i] = Advisory!event(f[i - 1], events[i])
  <2>1. \A i \in 1..n : f[i - 1] \in Accumulated
    BY <1>1, <1>8
  <2> QED
    BY <1>7, <1>8, <2>1
<1>10. rule(f)
  <2>1. \A i \in 0..n : i = 0 \/ i \in 1..n
    BY <1>1
  <2> QED
    BY <1>8, <1>9, <2>1
<1>11. rule(after)
  BY <1>10
<1> HIDE DEF after
<1>12. after[0] = NothingYet /\ \A i \in 1..n : after[i] = Advisory!event(after[i - 1], events[i])
  <2>1. 0 \in 0..n /\ \A i \in 1..n : i \in 0..n /\ i # 0
    BY <1>1
  <2> QED
    BY <1>11, <2>1
<1>13. \A i \in 0..n : after[i] \in Accumulated
  <2> DEFINE good == {i \in 0..n : after[i] \in Accumulated}
  <2>1. 0 \in good
    BY <1>1, <1>2, <1>12
  <2>2. \A k \in 1..n : k - 1 \in good => k \in good
    BY <1>1, <1>5, <1>12
  <2> HIDE DEF good
  <2>3. 0..n \subseteq good
    BY <1>1, <2>1, <2>2, Induct
  <2> QED
    BY <2>3 DEF good
<1>14. after \in [0..n -> Accumulated]
  BY <1>11, <1>13
<1> QED
  BY <1>4, <1>12, <1>14 DEF ranges, n, events

\* What a record affects is in one of its ranges (update.go:273-317).
LEMMA RangesCover ==
  ASSUME NEW r, Advisory!anOSVRecord(r), r.range.type # "GIT", Advisory!closesAbove(r),
         NEW v \in Nat, Advisory!affects(r, v)
  PROVE  \E g \in Advisory!convertOSVRanges(r.range) : Advisory!inRange(v, g)
<1> DEFINE events == r.range.events
           n == Len(events)
           ranges == Advisory!convertOSVRanges(r.range)
<1>1. PICK f \in [0..n -> Accumulated] :
        /\ f[0] = NothingYet
        /\ \A i \in 1..n : f[i] = Advisory!event(f[i - 1], events[i])
        /\ ranges = Advisory!elements(f[n].done) \cup (IF f[n].open THEN {f[n].cur} ELSE {})
  BY RangesAre
<1>2. n \in Nat /\ DOMAIN events = 1..n /\ \A i \in 1..n : anEventOf(events[i])
  <2>1. events \in Seq(Advisory!elements(events))
    BY DEF Advisory!anOSVRecord, Advisory!aList
  <2> QED
    BY <2>1 DEF Advisory!anOSVRecord, anEventOf
<1>3. PICK i \in 1..n :
        /\ events[i].kind = "introduced" /\ Advisory!moment(events[i]) <= 2 * v
        /\ \A j \in 1..n : Advisory!moment(events[j]) <= 2 * v => Advisory!moment(events[j]) <= Advisory!moment(events[i])
  BY <1>2 DEF Advisory!affects, Advisory!elements
<1>4. \A j \in 1..n : j > 1 /\ events[j - 1].kind = "introduced" /\ events[j].kind # "introduced"
        => Advisory!moment(events[j - 1]) < Advisory!moment(events[j])
  <2>1. \A j \in 1..n : j > 1 => j \in DOMAIN events \ {1}
    BY <1>2
  <2> QED
    BY <2>1 DEF Advisory!closesAbove
<1> HIDE DEF events, n, ranges
<1>5. \A j \in 1..n : /\ f[j - 1] \in Accumulated /\ f[j] \in Accumulated
                      /\ Advisory!elements(f[j - 1].done) \subseteq Advisory!elements(f[j].done)
  <2> TAKE j \in 1..n
  <2>1. j - 1 \in 0..n /\ j \in 0..n
    BY <1>2
  <2>2. f[j - 1] \in Accumulated /\ anEventOf(events[j]) /\ f[j] = Advisory!event(f[j - 1], events[j])
    BY <1>1, <1>2, <2>1
  <2> QED
    BY <2>2, EventIs
<1>6. ASSUME NEW k \in 1..n, NEW g \in Advisory!elements(f[k].done) PROVE g \in ranges
  <2> DEFINE good == {m \in 0..n : m >= k => g \in Advisory!elements(f[m].done)}
  <2>1. 0 \in good
    BY <1>2
  <2>2. ASSUME NEW m \in 1..n, m - 1 \in good PROVE m \in good
    <3>1. CASE m = k
      BY <1>2, <1>6, <3>1 DEF good
    <3>2. CASE m # k
      <4>1. m >= k => m - 1 >= k
        BY <1>2, <3>2
      <4>2. m \in 0..n /\ Advisory!elements(f[m - 1].done) \subseteq Advisory!elements(f[m].done)
        BY <1>2, <1>5
      <4> QED
        BY <2>2, <4>1, <4>2
    <3> QED
      BY <3>1, <3>2
  <2> HIDE DEF good
  <2>3. n \in good
    <3>1. 0..n \subseteq good
      BY <1>2, <2>1, <2>2, Induct
    <3> QED
      BY <1>2, <3>1
  <2>4. n >= k
    BY <1>2
  <2> QED
    BY <1>1, <2>3, <2>4 DEF good
<1> DEFINE at == events[i].at
           opened == [introduced |-> at, fixed |-> 0, last |-> 0]
<1>7. f[i].open /\ f[i].cur = opened
  <2>1. i - 1 \in 0..n /\ f[i - 1] \in Accumulated /\ f[i] = Advisory!event(f[i - 1], events[i]) /\ anEventOf(events[i])
    BY <1>1, <1>2, <1>5
  <2> DEFINE a == f[i - 1]
             e == events[i]
  <2>2. a \in Accumulated /\ anEventOf(e) /\ e.kind = "introduced" /\ f[i] = Advisory!event(a, e)
    BY <1>3, <2>1
  <2> HIDE DEF a, e
  <2>3. f[i].open /\ f[i].cur = [introduced |-> e.at, fixed |-> 0, last |-> 0]
    BY <2>2, EventIs
  <2> QED
    BY <2>3 DEF e
<1>8. at \in Nat /\ at <= v /\ Advisory!moment(events[i]) = 2 * at
  <2>1. events[i].at \in Nat
    BY <1>2 DEF anEventOf
  <2> QED
    BY <1>3, <2>1 DEF Advisory!moment
<1> HIDE DEF at
<1>9. Advisory!inRange(v, opened)
  BY <1>8 DEF Advisory!inRange, Advisory!Unset
<1>10. CASE i = n
  <2>1. opened \in ranges
    BY <1>1, <1>7, <1>10
  <2> QED
    BY <1>9, <2>1 DEF ranges
<1>11. CASE i # n
  <2> DEFINE j == i + 1
             d == events[j]
  <2>1. j \in 1..n /\ j - 1 = i /\ j > 1
    BY <1>2, <1>11
  <2>2. f[j] = Advisory!event(f[i], d) /\ anEventOf(d) /\ f[i] \in Accumulated
    BY <1>1, <1>2, <1>5, <2>1
  <2>3. \/ d.kind = "introduced"
        \/ /\ d.kind = "fixed" /\ Advisory!moment(d) = 2 * d.at
        \/ /\ d.kind = "last" /\ Advisory!moment(d) = 2 * d.at + 1
    <3>1. d.at \in Nat
      BY <2>2 DEF anEventOf
    <3> QED
      BY <2>2, <3>1 DEF anEventOf, Advisory!moment
  <2>4. d.kind # "introduced" => Advisory!moment(d) > 2 * at /\ ~(Advisory!moment(d) <= 2 * v)
    <3>1. d.kind # "introduced" => Advisory!moment(events[i]) < Advisory!moment(d)
      BY <1>3, <1>4, <2>1
    <3>2. d.at \in Nat
      BY <2>2 DEF anEventOf
    <3> HIDE DEF d
    <3>3. Advisory!moment(d) <= 2 * v => Advisory!moment(d) <= Advisory!moment(events[i])
      BY <1>3, <2>1 DEF d
    <3> QED
      BY <1>8, <2>3, <3>1, <3>2, <3>3
  <2> HIDE DEF d
  <2>5. CASE d.kind = "introduced"
    <3>1. opened \in Advisory!elements(f[j].done)
      BY <1>7, <2>2, <2>5, EventIs
    <3> QED
      BY <1>6, <1>9, <2>1, <3>1 DEF ranges
  <2>6. CASE d.kind = "fixed"
    <3> DEFINE g == [introduced |-> at, fixed |-> d.at, last |-> 0]
    <3>1. [f[i].cur EXCEPT !.fixed = d.at] = g
      BY <1>7
    <3> HIDE DEF g
    <3>2. g \in Advisory!elements(f[j].done)
      <4>1. [f[i].cur EXCEPT !.fixed = d.at] \in Advisory!elements(Advisory!event(f[i], d).done)
        BY <2>2, <2>6, EventIs
      <4> QED
        BY <2>2, <3>1, <4>1
    <3>3. Advisory!inRange(v, g)
      <4>1. d.at \in Nat /\ v < d.at /\ d.at # 0
        <5>1. d.at \in Nat
          BY <2>2 DEF anEventOf
        <5> QED
          BY <1>8, <2>3, <2>4, <2>6, <5>1
      <4>2. g.introduced = at /\ g.fixed = d.at /\ g.last = 0
        BY DEF g
      <4> QED
        BY <1>8, <4>1, <4>2 DEF Advisory!inRange, Advisory!Unset
    <3> QED
      BY <1>6, <2>1, <3>2, <3>3 DEF ranges
  <2>7. CASE d.kind = "last"
    <3> DEFINE g == [introduced |-> at, fixed |-> 0, last |-> d.at]
    <3>1. [f[i].cur EXCEPT !.last = d.at] = g
      BY <1>7
    <3> HIDE DEF g
    <3>2. g \in Advisory!elements(f[j].done)
      <4>1. [f[i].cur EXCEPT !.last = d.at] \in Advisory!elements(Advisory!event(f[i], d).done)
        BY <2>2, <2>7, EventIs
      <4> QED
        BY <2>2, <3>1, <4>1
    <3>3. Advisory!inRange(v, g)
      <4>1. d.at \in Nat /\ v <= d.at
        <5>1. d.at \in Nat
          BY <2>2 DEF anEventOf
        <5> QED
          BY <1>8, <2>3, <2>4, <2>7, <5>1
      <4>2. g.introduced = at /\ g.fixed = 0 /\ g.last = d.at
        BY DEF g
      <4> QED
        BY <1>8, <4>1, <4>2 DEF Advisory!inRange, Advisory!Unset
    <3> QED
      BY <1>6, <2>1, <3>2, <3>3 DEF ranges
  <2> QED
    BY <2>2, <2>5, <2>6, <2>7 DEF anEventOf
<1> QED
  BY <1>10, <1>11

(***************************************************************************)
(* The groups of records.                                                  *)
(***************************************************************************)
aView(a) ==
  /\ DOMAIN a = {"id", "aliases", "eco", "package", "ranges", "severity", "symbols"}
  /\ Advisory!aList(a.aliases)

LEMMA IdsAre ==
  ASSUME NEW a, Advisory!aList(a.aliases)
  PROVE  /\ Advisory!aList(Advisory!ids(a))
         /\ Advisory!elements(Advisory!ids(a)) = {a.id} \cup Advisory!elements(a.aliases)
<1> DEFINE first == <<a.id>>
<1>1. Len(first) = 1 /\ DOMAIN first = 1..1 /\ first[1] = a.id
  OBVIOUS
<1>2. Advisory!elements(first) = {a.id}
  <2> HIDE DEF first
  <2>1. 1..1 = {1}
    OBVIOUS
  <2> QED
    BY <1>1, <2>1 DEF Advisory!elements
<1>3. Advisory!aList(first)
  BY <1>2 DEF Advisory!aList
<1> HIDE DEF first
<1>4. /\ Advisory!aList(first \o a.aliases)
      /\ Advisory!elements(first \o a.aliases) = Advisory!elements(first) \cup Advisory!elements(a.aliases)
  BY <1>3, ElementsOfJoin
<1>5. Advisory!ids(a) = first \o a.aliases
  BY DEF Advisory!ids, first
<1> QED
  BY <1>2, <1>4, <1>5

\* A merge drops no name and no range (update.go:391-414).
LEMMA MergeKeeps ==
  ASSUME NEW dst, NEW src, aView(dst), aView(src)
  PROVE  LET b == Advisory!mergeAdvisory(dst, src)
         IN  /\ aView(b) /\ b.eco = dst.eco /\ b.package = dst.package /\ b.id \in {dst.id, src.id}
             /\ Advisory!elements(Advisory!ids(dst)) \cup Advisory!elements(Advisory!ids(src))
                  \subseteq Advisory!elements(Advisory!ids(b))
             /\ dst.ranges \cup src.ranges \subseteq b.ranges
<1> DEFINE b == Advisory!mergeAdvisory(dst, src)
           promote == dst.id \notin CVEs /\ src.id \in CVEs
           id == IF promote THEN src.id ELSE dst.id
           last == IF promote THEN <<dst.id>> ELSE <<>>
           names == dst.aliases \o Advisory!ids(src) \o last
           ranges == dst.ranges \cup src.ranges
           severity == Advisory!maximum(dst.severity, src.severity)
           symbols == dst.symbols \cup src.symbols
<1>1. b = [dst EXCEPT !.id = id, !.aliases = names, !.ranges = ranges, !.severity = severity, !.symbols = symbols]
  BY DEF Advisory!mergeAdvisory
<1>2. Advisory!aList(last) /\ (promote => Advisory!elements(last) = {dst.id})
  <2>1. Advisory!elements(<<dst.id>>) = {dst.id} /\ Advisory!aList(<<dst.id>>)
    <3> DEFINE one == <<dst.id>>
    <3>1. DOMAIN one = 1..1 /\ one[1] = dst.id /\ 1..1 = {1}
      OBVIOUS
    <3>2. Advisory!elements(one) = {dst.id}
      <4> HIDE DEF one
      <4> QED
        BY <3>1 DEF Advisory!elements
    <3> QED
      BY <3>2 DEF Advisory!aList
  <2>2. Advisory!aList(<<>>)
    BY DEF Advisory!aList
  <2> QED
    BY <2>1, <2>2
<1>3. Advisory!aList(dst.aliases) /\ Advisory!aList(src.aliases)
  BY DEF aView
<1>4. Advisory!aList(Advisory!ids(src))
  BY <1>3, IdsAre
<1> HIDE DEF last
<1>5. /\ Advisory!aList(names)
      /\ Advisory!elements(names) = Advisory!elements(dst.aliases) \cup Advisory!elements(Advisory!ids(src)) \cup Advisory!elements(last)
  <2> DEFINE some == dst.aliases \o Advisory!ids(src)
  <2>1. /\ Advisory!aList(some)
        /\ Advisory!elements(some) = Advisory!elements(dst.aliases) \cup Advisory!elements(Advisory!ids(src))
    BY <1>3, <1>4, ElementsOfJoin
  <2>2. names = some \o last
    OBVIOUS
  <2> HIDE DEF some, names
  <2> QED
    BY <1>2, <2>1, <2>2, ElementsOfJoin
<1> HIDE DEF names, ranges, severity, symbols, id
<1>6. /\ aView(b) /\ b.eco = dst.eco /\ b.package = dst.package /\ b.id = id
      /\ b.aliases = names /\ b.ranges = ranges
  <2>1. DOMAIN b = DOMAIN dst
    BY <1>1
  <2>2. b.eco = dst.eco /\ b.package = dst.package /\ b.id = id /\ b.aliases = names /\ b.ranges = ranges
    BY <1>1 DEF aView
  <2> QED
    BY <1>5, <2>1, <2>2 DEF aView
<1> HIDE DEF b, promote
<1>7. id \in {dst.id, src.id}
  BY DEF id
<1>8. Advisory!elements(Advisory!ids(b)) = {id} \cup Advisory!elements(names)
  BY <1>5, <1>6, IdsAre
<1>9. Advisory!elements(Advisory!ids(dst)) = {dst.id} \cup Advisory!elements(dst.aliases)
  BY <1>3, IdsAre
<1>10. dst.id \in {id} \cup Advisory!elements(last)
  BY <1>2 DEF id
<1>11. Advisory!elements(Advisory!ids(dst)) \cup Advisory!elements(Advisory!ids(src)) \subseteq Advisory!elements(Advisory!ids(b))
  BY <1>5, <1>8, <1>9, <1>10
<1> QED
  BY <1>6, <1>7, <1>11 DEF b, ranges

groupIs(g, W) ==
  /\ DOMAIN g = {"key", "adv"} /\ aView(g.adv)
  /\ \E a \in W : a.id = g.adv.id /\ g.key = Advisory!groupOf(a) /\ a.eco = g.adv.eco /\ a.package = g.adv.package
groupHas(g, a) ==
  /\ g.key = Advisory!groupOf(a) /\ g.adv.eco = a.eco /\ g.adv.package = a.package
  /\ a.id \in Advisory!elements(Advisory!ids(g.adv)) /\ a.ranges \subseteq g.adv.ranges

\* The groups the views W are in: one for each key, and every view in that of its key.
GroupsHold(gs, W) ==
  /\ Len(gs) \in Nat /\ DOMAIN gs = 1..Len(gs) /\ gs \in Seq(Advisory!elements(gs))
  /\ \A i \in DOMAIN gs : groupIs(gs[i], W)
  /\ \A i, j \in DOMAIN gs : gs[i].key = gs[j].key => i = j
  /\ \A a \in W : aView(a) /\ \E i \in DOMAIN gs : groupHas(gs[i], a)

LEMMA FirstOfGroup ==
  ASSUME NEW gs, NEW W, GroupsHold(gs, W), NEW a, aView(a),
         \A i \in DOMAIN gs : gs[i].key # Advisory!groupOf(a)
  PROVE  GroupsHold(Append(gs, [key |-> Advisory!groupOf(a), adv |-> a]), W \cup {a})
<1> DEFINE g == [key |-> Advisory!groupOf(a), adv |-> a]
           n == Len(gs)
           hs == Append(gs, g)
<1>1. groupIs(g, W \cup {a}) /\ groupHas(g, a) /\ g.key = Advisory!groupOf(a)
  <2>1. DOMAIN g = {"key", "adv"} /\ g.key = Advisory!groupOf(a) /\ g.adv = a
    OBVIOUS
  <2>2. a.id \in Advisory!elements(Advisory!ids(a))
    BY IdsAre DEF aView
  <2> HIDE DEF g
  <2> QED
    BY <2>1, <2>2 DEF groupIs, groupHas
<1> HIDE DEF g
<1>2. n \in Nat /\ DOMAIN gs = 1..n /\ gs \in Seq(Advisory!elements(gs))
  BY DEF GroupsHold
<1>3. /\ Len(hs) = n + 1 /\ DOMAIN hs = 1..(n + 1) /\ hs[n + 1] = g
      /\ \A i \in 1..n : hs[i] = gs[i]
  BY <1>2
<1>4. hs \in Seq(Advisory!elements(hs))
  <2> DEFINE S == Advisory!elements(gs) \cup {g}
  <2>1. gs \in Seq(S) /\ g \in S
    BY <1>2
  <2> HIDE DEF S
  <2>2. hs \in Seq(S) /\ Advisory!elements(hs) = Advisory!elements(gs) \cup {g}
    BY <2>1, ElementsOfAppend
  <2> QED
    BY <2>2 DEF S
<1> HIDE DEF n, hs
<1>5. \A i \in DOMAIN hs : (i \in DOMAIN gs /\ hs[i] = gs[i]) \/ (i = n + 1 /\ hs[i] = g)
  <2>1. \A i \in 1..(n + 1) : i \in 1..n \/ i = n + 1
    BY <1>2
  <2> QED
    BY <1>2, <1>3, <2>1
<1>6. DOMAIN gs \subseteq DOMAIN hs /\ n + 1 \in DOMAIN hs
  BY <1>2, <1>3
<1>7. \A i \in DOMAIN hs : groupIs(hs[i], W \cup {a})
  <2>1. \A i \in DOMAIN gs : groupIs(gs[i], W \cup {a})
    BY DEF GroupsHold, groupIs
  <2> QED
    BY <1>1, <1>5, <2>1
<1>8. \A i, j \in DOMAIN hs : hs[i].key = hs[j].key => i = j
  <2>1. \A i, j \in DOMAIN gs : gs[i].key = gs[j].key => i = j
    BY DEF GroupsHold
  <2> QED
    BY <1>1, <1>5, <2>1
<1>9. \A x \in W \cup {a} : aView(x) /\ \E i \in DOMAIN hs : groupHas(hs[i], x)
  <2>1. \A x \in W : aView(x) /\ \E i \in DOMAIN gs : groupHas(gs[i], x)
    BY DEF GroupsHold
  <2>2. \A i \in DOMAIN gs : hs[i] = gs[i]
    BY <1>2, <1>3
  <2> QED
    BY <1>1, <1>3, <1>6, <2>1, <2>2
<1>10. Len(hs) \in Nat /\ DOMAIN hs = 1..Len(hs)
  BY <1>2, <1>3
<1>11. GroupsHold(hs, W \cup {a})
  BY <1>4, <1>7, <1>8, <1>9, <1>10 DEF GroupsHold
<1> QED
  BY <1>11 DEF hs, g

LEMMA NextOfGroup ==
  ASSUME NEW gs, NEW W, GroupsHold(gs, W), NEW a, aView(a), NEW same, same # {},
         same = {i \in DOMAIN gs : gs[i].key = Advisory!groupOf(a)}
  PROVE  GroupsHold([i \in DOMAIN gs |-> IF i \in same THEN [gs[i] EXCEPT !.adv = Advisory!mergeAdvisory(@, a)]
                                         ELSE gs[i]], W \cup {a})
<1> DEFINE merged(i) == [gs[i] EXCEPT !.adv = Advisory!mergeAdvisory(@, a)]
           hs == [i \in DOMAIN gs |-> IF i \in same THEN merged(i) ELSE gs[i]]
           n == Len(gs)
<1>1. n \in Nat /\ DOMAIN gs = 1..n /\ gs \in Seq(Advisory!elements(gs))
  BY DEF GroupsHold
<1>2. DOMAIN hs = DOMAIN gs /\ \A i \in DOMAIN gs : hs[i] = IF i \in same THEN merged(i) ELSE gs[i]
  OBVIOUS
<1>3. hs \in Seq(Advisory!elements(hs)) /\ Len(hs) = n
  <2> DEFINE S == Advisory!elements(hs)
  <2>1. \A i \in DOMAIN hs : hs[i] \in S
    BY DEF Advisory!elements
  <2>2. hs = [i \in 1..n |-> hs[i]]
    BY <1>1
  <2> HIDE DEF hs, S, n
  <2>3. hs \in [1..n -> S]
    BY <1>1, <1>2, <2>1, <2>2
  <2>4. hs \in Seq(S) /\ Len(hs) = n
    BY <1>1, <2>3
  <2> QED
    BY <2>4 DEF S
<1>4. ASSUME NEW i \in same
      PROVE  /\ groupIs(merged(i), W \cup {a}) /\ merged(i).key = gs[i].key /\ groupHas(merged(i), a)
             /\ \A x \in W : groupHas(gs[i], x) => groupHas(merged(i), x)
  <2> DEFINE dst == gs[i].adv
             b == Advisory!mergeAdvisory(dst, a)
             g == merged(i)
  <2>1. groupIs(gs[i], W) /\ gs[i].key = Advisory!groupOf(a)
    BY DEF GroupsHold
  <2>2. DOMAIN gs[i] = {"key", "adv"} /\ aView(dst)
    BY <2>1 DEF groupIs
  <2>3. DOMAIN g = {"key", "adv"} /\ g.key = gs[i].key /\ g.adv = b
    BY <2>2
  <2>4. /\ aView(b) /\ b.eco = dst.eco /\ b.package = dst.package /\ b.id \in {dst.id, a.id}
        /\ Advisory!elements(Advisory!ids(dst)) \cup Advisory!elements(Advisory!ids(a)) \subseteq Advisory!elements(Advisory!ids(b))
        /\ dst.ranges \cup a.ranges \subseteq b.ranges
    BY <2>2, MergeKeeps
  <2>5. a.id \in Advisory!elements(Advisory!ids(a))
    BY IdsAre DEF aView
  <2>6. PICK y \in W : y.id = dst.id /\ gs[i].key = Advisory!groupOf(y) /\ y.eco = dst.eco /\ y.package = dst.package
    BY <2>1 DEF groupIs
  <2>7. a.eco = dst.eco /\ a.package = dst.package
    BY <2>1, <2>6 DEF Advisory!groupOf
  <2> HIDE DEF b, g, dst, merged
  <2>8. groupIs(g, W \cup {a})
    <3>1. CASE b.id = dst.id
      BY <2>3, <2>4, <2>6, <3>1 DEF groupIs
    <3>2. CASE b.id = a.id
      BY <2>1, <2>3, <2>4, <2>7, <3>2 DEF groupIs
    <3> QED
      BY <2>4, <3>1, <3>2
  <2>9. groupHas(g, a)
    BY <2>1, <2>3, <2>4, <2>5, <2>7 DEF groupHas
  <2>10. ASSUME NEW x \in W, groupHas(gs[i], x) PROVE groupHas(g, x)
    BY <2>3, <2>4, <2>10 DEF groupHas, dst
  <2> QED
    BY <2>3, <2>8, <2>9, <2>10 DEF g
<1> HIDE DEF merged, hs, n
<1>5. \A i \in DOMAIN hs : groupIs(hs[i], W \cup {a}) /\ hs[i].key = gs[i].key
  <2>1. \A i \in DOMAIN gs : groupIs(gs[i], W \cup {a})
    BY DEF GroupsHold, groupIs
  <2> QED
    BY <1>2, <1>4, <2>1
<1>6. \A i, j \in DOMAIN hs : hs[i].key = hs[j].key => i = j
  BY <1>2, <1>5 DEF GroupsHold
<1>7. \A x \in W \cup {a} : aView(x) /\ \E i \in DOMAIN hs : groupHas(hs[i], x)
  <2>1. \A x \in W : aView(x) /\ \E i \in DOMAIN hs : groupHas(hs[i], x)
    <3> TAKE x \in W
    <3>1. aView(x) /\ \E i \in DOMAIN gs : groupHas(gs[i], x)
      BY DEF GroupsHold
    <3>2. PICK i \in DOMAIN gs : groupHas(gs[i], x)
      BY <3>1
    <3>3. groupHas(hs[i], x)
      BY <1>2, <1>4, <3>2
    <3> QED
      BY <1>2, <3>1, <3>3
  <2>2. PICK i \in DOMAIN gs : i \in same
    OBVIOUS
  <2>3. groupHas(hs[i], a)
    BY <1>2, <1>4, <2>2
  <2> QED
    BY <1>2, <2>1, <2>3
<1>8. Len(hs) \in Nat /\ DOMAIN hs = 1..Len(hs)
  BY <1>1, <1>2, <1>3
<1>9. GroupsHold(hs, W \cup {a})
  BY <1>3, <1>5, <1>6, <1>7, <1>8 DEF GroupsHold
<1> QED
  BY <1>9 DEF hs, merged

\* A view joins the group of its key, or opens it (update.go:370-379).
LEMMA PlaceHolds ==
  ASSUME NEW gs, NEW W, GroupsHold(gs, W), NEW a, aView(a)
  PROVE  GroupsHold(Advisory!place(gs, a), W \cup {a})
<1> DEFINE same == {i \in DOMAIN gs : gs[i].key = Advisory!groupOf(a)}
<1>1. CASE same = {}
  <2>1. Advisory!place(gs, a) = Append(gs, [key |-> Advisory!groupOf(a), adv |-> a])
    BY <1>1 DEF Advisory!place
  <2>2. \A i \in DOMAIN gs : gs[i].key # Advisory!groupOf(a)
    BY <1>1
  <2> QED
    BY <2>1, <2>2, FirstOfGroup
<1>2. CASE same # {}
  <2> DEFINE hs == [i \in DOMAIN gs |-> IF i \in same THEN [gs[i] EXCEPT !.adv = Advisory!mergeAdvisory(@, a)]
                                        ELSE gs[i]]
  <2>1. Advisory!place(gs, a) = hs
    BY <1>2 DEF Advisory!place
  <2>2. GroupsHold(hs, W \cup {a})
    <3> DEFINE all == {i \in DOMAIN gs : gs[i].key = Advisory!groupOf(a)}
    <3>1. same = all
      OBVIOUS
    <3> HIDE DEF same
    <3> QED
      BY <1>2, <3>1, NextOfGroup
  <2> QED
    BY <2>1, <2>2
<1> QED
  BY <1>1, <1>2

\* What a record makes of the groups (update.go:365-389).
readInto(gs, rec) ==
  LET adv == Advisory!normalizeOSV(rec) IN IF adv = <<>> THEN gs ELSE Advisory!place(gs, adv[1])

LEMMA ReadingIsDefined ==
  ASSUME NEW source, NEW n \in Nat
  PROVE  \E f : f = [i \in 0..n |-> IF i = 0 THEN <<>> ELSE readInto(f[i - 1], source[i])]
<1> DEFINE good == {m \in 0..n : \E f : f = [i \in 0..m |-> IF i = 0 THEN <<>> ELSE readInto(f[i - 1], source[i])]}
<1>1. 0 \in good
  <2> DEFINE f == [i \in 0..0 |-> <<>>]
  <2>1. f = [i \in 0..0 |-> IF i = 0 THEN <<>> ELSE readInto(f[i - 1], source[i])]
    <3>1. \A i \in 0..0 : i = 0
      OBVIOUS
    <3> QED
      BY <3>1
  <2>2. 0 \in 0..n
    OBVIOUS
  <2> HIDE DEF f
  <2> QED
    BY <2>1, <2>2
<1>2. ASSUME NEW m \in 1..n, m - 1 \in good PROVE m \in good
  <2>1. PICK f : f = [i \in 0..(m - 1) |-> IF i = 0 THEN <<>> ELSE readInto(f[i - 1], source[i])]
    BY <1>2
  <2> DEFINE next == readInto(f[m - 1], source[m])
             g == [i \in 0..m |-> IF i = m THEN next ELSE f[i]]
  <2> HIDE DEF next
  <2>2. \A i \in 0..(m - 1) : f[i] = IF i = 0 THEN <<>> ELSE readInto(f[i - 1], source[i])
    BY <2>1
  <2>3. /\ DOMAIN g = 0..m /\ g = [i \in 0..m |-> g[i]]
        /\ g[m] = next /\ g[m - 1] = f[m - 1] /\ g[0] = f[0]
        /\ \A i \in 1..(m - 1) : g[i] = f[i] /\ g[i - 1] = f[i - 1]
    OBVIOUS
  <2> HIDE DEF g
  <2>4. \A i \in 0..m : g[i] = IF i = 0 THEN <<>> ELSE readInto(g[i - 1], source[i])
    <3>1. g[0] = <<>>
      BY <2>2, <2>3
    <3>2. \A i \in 1..(m - 1) : g[i] = readInto(g[i - 1], source[i])
      <4>1. \A i \in 1..(m - 1) : i \in 0..(m - 1) /\ i # 0
        OBVIOUS
      <4> QED
        BY <2>2, <2>3, <4>1
    <3>3. g[m] = readInto(g[m - 1], source[m])
      BY <2>3 DEF next
    <3>4. \A i \in 0..m : i = 0 \/ i \in 1..(m - 1) \/ i = m
      OBVIOUS
    <3> QED
      BY <3>1, <3>2, <3>3, <3>4
  <2>5. g = [i \in 0..m |-> IF i = 0 THEN <<>> ELSE readInto(g[i - 1], source[i])]
    BY <2>3, <2>4
  <2>6. m \in 0..n
    OBVIOUS
  <2> QED
    BY <2>5, <2>6
<1> HIDE DEF good
<1>3. n \in good
  BY <1>1, <1>2, Induct
<1> QED
  BY <1>3 DEF good

\* What an OSV record says: nothing, or a view of a vulnerability (update.go:188-249).
viewsOf(rec) == IF Advisory!normalizeOSV(rec) = <<>> THEN {} ELSE {Advisory!normalizeOSV(rec)[1]}

readable(rec) ==
  /\ Advisory!usable(rec) /\ Advisory!mapOSVEcosystem(rec.ecosystem) # "" /\ rec.package # ""
  /\ Advisory!convertOSVRanges(rec.range) # {}
viewSays(a, rec) ==
  /\ a.id = rec.id /\ a.aliases = rec.aliases /\ a.eco = Advisory!mapOSVEcosystem(rec.ecosystem)
  /\ a.package = Advisory!packageName(a.eco, rec.package)
  /\ a.ranges = Advisory!convertOSVRanges(rec.range)

LEMMA ViewIs ==
  ASSUME NEW rec, Advisory!anOSVRecord(rec)
  PROVE  /\ Advisory!normalizeOSV(rec) # <<>> =>
              /\ viewsOf(rec) = {Advisory!normalizeOSV(rec)[1]}
              /\ aView(Advisory!normalizeOSV(rec)[1])
         /\ \A a \in viewsOf(rec) : viewSays(a, rec)
         /\ readable(rec) => viewsOf(rec) # {}
<1> DEFINE eco == Advisory!mapOSVEcosystem(rec.ecosystem)
           ranges == Advisory!convertOSVRanges(rec.range)
           package == Advisory!packageName(eco, rec.package)
           view == [id |-> rec.id, aliases |-> rec.aliases, eco |-> eco, package |-> package,
                    ranges |-> ranges, severity |-> rec.severity, symbols |-> rec.symbols]
           empty == ~Advisory!usable(rec) \/ eco = "" \/ rec.package = "" \/ ranges = {}
<1>1. Advisory!normalizeOSV(rec) = IF empty THEN <<>> ELSE <<view>>
  BY DEF Advisory!normalizeOSV
<1> HIDE DEF eco, ranges, package
<1>2. /\ aView(view) /\ view.id = rec.id /\ view.aliases = rec.aliases /\ view.eco = eco /\ view.package = package
      /\ view.ranges = ranges
  BY DEF aView, Advisory!anOSVRecord
<1> HIDE DEF view, empty
<1>3. <<view>> # <<>> /\ <<view>>[1] = view
  OBVIOUS
<1>4. Advisory!normalizeOSV(rec) # <<>> =>
        viewsOf(rec) = {Advisory!normalizeOSV(rec)[1]} /\ aView(Advisory!normalizeOSV(rec)[1])
  BY <1>1, <1>2, <1>3 DEF viewsOf
<1>5. \A a \in viewsOf(rec) : a = view
  BY <1>1, <1>3 DEF viewsOf
<1>6. ~empty => viewsOf(rec) # {}
  BY <1>1, <1>3 DEF viewsOf
<1>7. viewSays(view, rec)
  BY <1>2 DEF viewSays, package, eco, ranges
<1>8. readable(rec) => ~empty
  BY DEF readable, empty, eco, ranges
<1> QED
  BY <1>4, <1>5, <1>6, <1>7, <1>8

\* The database holds what its source says, one advisory for each group.
LEMMA DatabaseHolds ==
  ASSUME NEW source, Advisory!aList(source), \A i \in DOMAIN source : Advisory!anOSVRecord(source[i])
  PROVE  \E gs : /\ GroupsHold(gs, UNION {viewsOf(source[i]) : i \in DOMAIN source})
                 /\ Advisory!mergeByAlias(source) = [i \in DOMAIN gs |-> gs[i].adv]
<1> DEFINE n == Len(source)
           rule(f) == f = [i \in 0..n |-> IF i = 0 THEN <<>> ELSE readInto(f[i - 1], source[i])]
           after == CHOOSE f : rule(f)
           db == Advisory!mergeByAlias(source)
           before(m) == UNION {viewsOf(source[i]) : i \in 1..m}
           good == {m \in 0..n : GroupsHold(after[m], before(m))}
<1>1. n \in Nat /\ DOMAIN source = 1..n
  BY DEF Advisory!aList
<1>2. db = [i \in DOMAIN after[n] |-> after[n][i].adv]
  BY DEF Advisory!mergeByAlias, readInto
<1> HIDE DEF n, db
<1>3. \E f : rule(f)
  BY <1>1, ReadingIsDefined
<1>4. rule(after)
  BY <1>3
<1> HIDE DEF after
<1>5. after[0] = <<>> /\ \A i \in 1..n : after[i] = readInto(after[i - 1], source[i])
  <2>1. 0 \in 0..n /\ \A i \in 1..n : i \in 0..n /\ i # 0
    BY <1>1
  <2> QED
    BY <1>4, <2>1
<1>6. 0 \in good
  <2>1. before(0) = {}
    <3>1. 1..0 = {}
      OBVIOUS
    <3> QED
      BY <3>1
  <2>2. GroupsHold(<<>>, {})
    <3>1. Len(<<>>) = 0 /\ DOMAIN <<>> = {} /\ 1..0 = {} /\ \A S : <<>> \in Seq(S)
      OBVIOUS
    <3> QED
      BY <3>1 DEF GroupsHold
  <2> HIDE DEF before, after
  <2>3. GroupsHold(after[0], before(0)) /\ 0 \in 0..n
    <3>1. after[0] = <<>>
      BY <1>5, Zenon
    <3>2. 0 \in 0..n
      BY <1>1
    <3> QED
      BY <2>1, <2>2, <3>1, <3>2, Zenon
  <2> QED
    BY <2>3
<1>7. ASSUME NEW m \in 1..n, m - 1 \in good PROVE m \in good
  <2> DEFINE gs == after[m - 1]
             rec == source[m]
  <2>1. GroupsHold(gs, before(m - 1)) /\ m \in 0..n
    BY <1>1, <1>7
  <2>2. before(m) = before(m - 1) \cup viewsOf(rec)
    <3>1. 1..m = 1..(m - 1) \cup {m}
      BY <1>1
    <3> QED
      BY <3>1
  <2>3. Advisory!anOSVRecord(rec)
    BY <1>1
  <2>4. after[m] = readInto(gs, rec)
    BY <1>5
  <2> HIDE DEF gs, rec, before
  <2>5. CASE Advisory!normalizeOSV(rec) = <<>>
    <3>1. viewsOf(rec) = {} /\ readInto(gs, rec) = gs
      BY <2>5 DEF viewsOf, readInto
    <3> QED
      BY <2>1, <2>2, <2>4, <3>1
  <2>6. CASE Advisory!normalizeOSV(rec) # <<>>
    <3> DEFINE a == Advisory!normalizeOSV(rec)[1]
    <3>1. viewsOf(rec) = {a} /\ aView(a)
      BY <2>3, <2>6, ViewIs
    <3>2. readInto(gs, rec) = Advisory!place(gs, a)
      BY <2>6 DEF readInto
    <3> HIDE DEF a
    <3>3. GroupsHold(Advisory!place(gs, a), before(m - 1) \cup {a})
      BY <2>1, <3>1, PlaceHolds
    <3> QED
      BY <2>1, <2>2, <2>4, <3>1, <3>2, <3>3
  <2> QED
    BY <2>5, <2>6
<1>8. n \in good
  <2> HIDE DEF good
  <2>1. 0..n \subseteq good
    BY <1>1, <1>6, <1>7, Induct
  <2> QED
    BY <1>1, <2>1
<1>9. GroupsHold(after[n], UNION {viewsOf(source[i]) : i \in DOMAIN source})
  BY <1>1, <1>8
<1> QED
  BY <1>2, <1>9 DEF db

LEMMA IndicesAreNumbers ==
  ASSUME NEW source, Advisory!aList(source), \A i \in DOMAIN source : Advisory!anOSVRecord(source[i])
  PROVE  DOMAIN Advisory!mergeByAlias(source) \subseteq Nat
<1>1. PICK gs : /\ GroupsHold(gs, UNION {viewsOf(source[i]) : i \in DOMAIN source})
                /\ Advisory!mergeByAlias(source) = [i \in DOMAIN gs |-> gs[i].adv]
  BY DatabaseHolds
<1>2. DOMAIN Advisory!mergeByAlias(source) = DOMAIN gs
  BY <1>1
<1> QED
  BY <1>1, <1>2 DEF GroupsHold

agreeing(source) ==
  \A r, s \in Advisory!elements(source) :
    r.id = s.id => Advisory!canonicalID(Advisory!ids(r)) = Advisory!canonicalID(Advisory!ids(s))

recorded(db, rec) ==
  \E i \in DOMAIN db :
    /\ db[i].eco = Advisory!mapOSVEcosystem(rec.ecosystem)
    /\ db[i].package = Advisory!packageName(db[i].eco, rec.package)
    /\ rec.id \in Advisory!elements(Advisory!ids(db[i]))
    /\ Advisory!convertOSVRanges(rec.range) \subseteq db[i].ranges
unambiguous(db) ==
  \A i, j \in DOMAIN db :
    db[i].eco = db[j].eco /\ db[i].package = db[j].package /\ db[i].id = db[j].id => i = j

\* What the merging of the feeds keeps of a record, and the one advisory of an id.
LEMMA DatabaseIs ==
  ASSUME NEW source, Advisory!aList(source), \A i \in DOMAIN source : Advisory!anOSVRecord(source[i]),
         agreeing(source)
  PROVE  /\ \A rec \in Advisory!elements(source) : readable(rec) => recorded(Advisory!mergeByAlias(source), rec)
         /\ unambiguous(Advisory!mergeByAlias(source))
<1> DEFINE db == Advisory!mergeByAlias(source)
           W == UNION {viewsOf(source[i]) : i \in DOMAIN source}
<1>1. PICK gs : GroupsHold(gs, W) /\ db = [i \in DOMAIN gs |-> gs[i].adv]
  BY DatabaseHolds
<1>2. DOMAIN db = DOMAIN gs /\ \A i \in DOMAIN gs : db[i] = gs[i].adv
  BY <1>1
<1>3. \A a \in W : \E r \in Advisory!elements(source) : a.id = r.id /\ a.aliases = r.aliases
  <2> TAKE a \in W
  <2>1. PICK i \in DOMAIN source : a \in viewsOf(source[i])
    OBVIOUS
  <2>2. a.id = source[i].id /\ a.aliases = source[i].aliases
    BY <2>1, ViewIs DEF viewSays
  <2> QED
    BY <2>2 DEF Advisory!elements
<1>4. \A rec \in Advisory!elements(source) : viewsOf(rec) \subseteq W /\ Advisory!anOSVRecord(rec)
  BY DEF Advisory!elements
<1> HIDE DEF db, W
<1>5. ASSUME NEW rec \in Advisory!elements(source), readable(rec) PROVE recorded(db, rec)
  <2>1. Advisory!anOSVRecord(rec) /\ viewsOf(rec) \subseteq W
    BY <1>4
  <2>2. PICK a \in viewsOf(rec) : viewSays(a, rec)
    BY <1>5, <2>1, ViewIs
  <2>3. a \in W
    BY <2>1
  <2>4. PICK i \in DOMAIN gs : groupHas(gs[i], a)
    BY <1>1, <2>3 DEF GroupsHold
  <2>5. db[i] = gs[i].adv /\ i \in DOMAIN db
    BY <1>2
  <2> QED
    BY <2>2, <2>4, <2>5 DEF groupHas, recorded, viewSays
<1>6. ASSUME NEW i \in DOMAIN db, NEW j \in DOMAIN db,
             db[i].eco = db[j].eco, db[i].package = db[j].package, db[i].id = db[j].id
      PROVE  i = j
  <2>1. groupIs(gs[i], W) /\ groupIs(gs[j], W) /\ db[i] = gs[i].adv /\ db[j] = gs[j].adv
    BY <1>1, <1>2 DEF GroupsHold
  <2>2. PICK a \in W : a.id = db[i].id /\ gs[i].key = Advisory!groupOf(a) /\ a.eco = db[i].eco /\ a.package = db[i].package
    BY <2>1 DEF groupIs
  <2>3. PICK b \in W : b.id = db[j].id /\ gs[j].key = Advisory!groupOf(b) /\ b.eco = db[j].eco /\ b.package = db[j].package
    BY <2>1 DEF groupIs
  <2>4. Advisory!canonicalID(Advisory!ids(a)) = Advisory!canonicalID(Advisory!ids(b))
    <3>1. PICK r \in Advisory!elements(source) : a.id = r.id /\ a.aliases = r.aliases
      BY <1>3
    <3>2. PICK s \in Advisory!elements(source) : b.id = s.id /\ b.aliases = s.aliases
      BY <1>3
    <3>3. Advisory!ids(a) = Advisory!ids(r) /\ Advisory!ids(b) = Advisory!ids(s)
      BY <3>1, <3>2 DEF Advisory!ids
    <3>4. r.id = s.id
      BY <1>6, <2>2, <2>3, <3>1, <3>2
    <3> QED
      BY <3>3, <3>4 DEF agreeing
  <2>5. gs[i].key = gs[j].key
    BY <1>6, <2>2, <2>3, <2>4 DEF Advisory!groupOf
  <2> QED
    BY <1>1, <1>2, <2>5 DEF GroupsHold
<1>7. unambiguous(db)
  BY <1>6 DEF unambiguous
<1> QED
  BY <1>5, <1>7 DEF db

(***************************************************************************)
(* The scan.                                                               *)
(***************************************************************************)
coordOf(c) == Advisory!coordFor(c)
judged(db, c) ==
  {i \in DOMAIN db : /\ db[i].eco = coordOf(c).eco
                     /\ db[i].package = Advisory!packageName(coordOf(c).eco, coordOf(c).package)}
known(F) == {<<f.component, f.id>> : f \in F}
\* Every advisory that finds a component vulnerable has its id in a match of the component,
matched(db, F, c) ==
  coordOf(c) # Advisory!NoCoord =>
    \A i \in judged(db, c) :
      Advisory!Vulnerable(coordOf(c).version, db[i].ranges) => <<Advisory!componentIdentity(c), db[i].id>> \in known(F)
\* and every match is of an advisory with a component.
matchOf(db, f, c, i) ==
  /\ coordOf(c) # Advisory!NoCoord /\ i \in judged(db, c)
  /\ f.component = Advisory!componentIdentity(c) /\ f.id = db[i].id
  /\ f.ids = Advisory!elements(Advisory!ids(db[i]))
comesFrom(db, s, f) == \E c \in Advisory!elements(s) : \E i \in judged(db, c) : matchOf(db, f, c, i)

Scanned ==
  /\ feed \in Feeds /\ sbom \in SBOMs
  /\ position \in Nat /\ position <= Len(sbom)
  /\ scan = "update" => position = 0 /\ findings \cup quieted = {}
  /\ scan # "update" => database = Advisory!mergeByAlias(feed)
  /\ scan = "done" => position = Len(sbom)
  /\ scan # "cancelled" => \A p \in 1..position : matched(database, findings \cup quieted, sbom[p])
  /\ \A f \in findings \cup quieted : comesFrom(database, sbom, f)

AdvisoryInv == assessment = "vulnerabilities" => Scanned

LEMMA SBOMIs ==
  ASSUME Scanned
  PROVE  /\ Len(sbom) \in Nat /\ DOMAIN sbom = 1..Len(sbom)
         /\ \A c \in Advisory!elements(sbom) : Advisory!aComponent(c)
         /\ \A p \in 1..Len(sbom) : sbom[p] \in Advisory!elements(sbom)
         /\ Advisory!aList(feed) /\ \A i \in DOMAIN feed : Advisory!anOSVRecord(feed[i])
<1>1. sbom \in SBOMs /\ feed \in Feeds
  BY DEF Scanned
<1>2. /\ Advisory!aList(sbom) /\ \A i \in DOMAIN sbom : Advisory!aComponent(sbom[i])
      /\ Advisory!aList(feed) /\ \A i \in DOMAIN feed : Advisory!anOSVRecord(feed[i])
  BY <1>1, FeedAssumption
<1>3. Len(sbom) \in Nat /\ DOMAIN sbom = 1..Len(sbom)
  BY <1>2 DEF Advisory!aList
<1> QED
  BY <1>2, <1>3 DEF Advisory!elements

LEMMA ScanStart == PostureInit => AdvisoryInv
<1> SUFFICES ASSUME PostureInit, assessment = "vulnerabilities" PROVE Scanned
  BY DEF AdvisoryInv
<1>1. /\ feed \in Feeds /\ sbom \in SBOMs /\ position = 0 /\ findings = {} /\ quieted = {} /\ scan = "update"
  BY DEF PostureInit, Advisory!VulnerabilityInit
<1>2. Len(sbom) \in Nat
  BY <1>1, FeedAssumption DEF Advisory!aList
<1>3. \A p \in 1..position : FALSE
  BY <1>1
<1> QED
  BY <1>1, <1>2, <1>3 DEF Scanned

\* What one component adds: a match for every advisory that finds it vulnerable.
addedBy(c) == {Advisory!project(c, coordOf(c), database[i]) : i \in Advisory!matchesOf(c, coordOf(c))}

LEMMA ComponentIsMatched ==
  ASSUME NEW c, DOMAIN database \subseteq Nat, coordOf(c) # Advisory!NoCoord
  PROVE  /\ matched(database, findings \cup quieted \cup addedBy(c), c)
         /\ \A f \in addedBy(c) : \E i \in judged(database, c) : matchOf(database, f, c, i)
<1> DEFINE coord == coordOf(c)
           hits == Advisory!matchesOf(c, coord)
           F == findings \cup quieted
           G == F \cup addedBy(c)
           id(i) == database[i].id
           hit == {i \in judged(database, c) : /\ Advisory!Vulnerable(coord.version, database[i].ranges)
                                               /\ <<Advisory!componentIdentity(c), id(i)>> \notin known(F)}
<1>1. hits = {i \in hit : ~\E j \in hit : j < i /\ id(j) = id(i)}
  BY DEF Advisory!matchesOf, Advisory!IndicesFor, judged, Advisory!reported, Advisory!seen, known
<1>2. ASSUME NEW i \in hits
      PROVE  matchOf(database, Advisory!project(c, coord, database[i]), c, i) /\ i \in judged(database, c)
  <2>1. i \in judged(database, c)
    BY <1>1
  <2> DEFINE f == Advisory!project(c, coord, database[i])
  <2>2. /\ f.component = Advisory!componentIdentity(c) /\ f.id = database[i].id
        /\ f.ids = Advisory!elements(Advisory!ids(database[i]))
    BY DEF Advisory!project
  <2> QED
    BY <2>1, <2>2 DEF matchOf
<1>3. \A f \in addedBy(c) : \E i \in judged(database, c) : matchOf(database, f, c, i)
  BY <1>2 DEF addedBy
<1>4. ASSUME NEW i \in judged(database, c), Advisory!Vulnerable(coord.version, database[i].ranges)
      PROVE  <<Advisory!componentIdentity(c), id(i)>> \in known(G)
  <2>1. CASE <<Advisory!componentIdentity(c), id(i)>> \in known(F)
    BY <2>1 DEF known
  <2>2. CASE <<Advisory!componentIdentity(c), id(i)>> \notin known(F)
    <3> DEFINE rivals == {j \in hit : id(j) = id(i)}
    <3>1. i \in rivals
      BY <1>4, <2>2
    <3>2. rivals \subseteq Nat
      BY DEF judged
    <3> HIDE DEF rivals
    <3>3. PICK j \in rivals : \A k \in rivals : j <= k
      BY <3>1, <3>2, LeastOf
    <3>4. \A k \in rivals : ~(k < j)
      <4> TAKE k \in rivals
      <4>1. j <= k /\ j \in Nat /\ k \in Nat
        BY <3>2, <3>3
      <4> QED
        BY <4>1
    <3>5. j \in hits /\ id(j) = id(i)
      BY <1>1, <3>4 DEF rivals
    <3> DEFINE f == Advisory!project(c, coord, database[j])
    <3>6. f \in G /\ f.component = Advisory!componentIdentity(c) /\ f.id = id(i)
      <4>1. f \in G
        BY <3>5 DEF addedBy
      <4>2. matchOf(database, f, c, j)
        BY <1>2, <3>5
      <4> QED
        BY <3>5, <4>1, <4>2 DEF matchOf
    <3> QED
      BY <3>6 DEF known
  <2> QED
    BY <2>1, <2>2
<1> QED
  BY <1>3, <1>4 DEF matched

LEMMA KnownGrows ==
  ASSUME NEW db, NEW F, NEW G, F \subseteq G, NEW c, matched(db, F, c)
  PROVE  matched(db, G, c)
BY DEF matched, known

\* match.go:52-103, vuln.go:141-147: every step keeps this.
LEMMA ScanStep ==
  ASSUME assessment = "vulnerabilities", AdvisoryInv, Advisory!VulnerabilityNext, UNCHANGED assessment
  PROVE  AdvisoryInv'
<1>0. Scanned
  BY DEF AdvisoryInv
<1> SUFFICES Scanned'
  BY DEF AdvisoryInv
<1>1. CASE Advisory!Update
  <2>1. /\ scan = "update" /\ database' = Advisory!mergeByAlias(feed) /\ scan' = "scan"
        /\ feed' = feed /\ sbom' = sbom /\ position' = position /\ findings' = findings /\ quieted' = quieted
    BY <1>1 DEF Advisory!Update, Advisory!scanInputs
  <2>2. position' = 0 /\ findings' \cup quieted' = {}
    BY <1>0, <2>1 DEF Scanned
  <2>3. \A p \in 1..position' : FALSE
    BY <2>2
  <2>4. feed' \in Feeds /\ sbom' \in SBOMs /\ position' \in Nat /\ position' <= Len(sbom')
    BY <1>0, <2>1 DEF Scanned
  <2> QED
    BY <2>1, <2>2, <2>3, <2>4 DEF Scanned
<1>2. CASE Advisory!MatchComponent
  <2> DEFINE c == sbom[position + 1]
             hits == IF coordOf(c) = Advisory!NoCoord THEN {} ELSE Advisory!matchesOf(c, coordOf(c))
             F == findings \cup quieted
             G == F \cup {Advisory!project(c, coordOf(c), database[i]) : i \in hits}
  <2>1. /\ scan = "scan" /\ scan' = scan /\ database' = database /\ feed' = feed /\ sbom' = sbom
        /\ position < Len(sbom) /\ position' = position + 1
    BY <1>2 DEF Advisory!MatchComponent, Advisory!scanInputs
  <2>2. findings' \cup quieted' = G
    <3> DEFINE quiet == {i \in hits : Advisory!matchVEX(database[i], c) \/ Advisory!matchWaiver(database[i], coordOf(c))}
               p(i) == Advisory!project(c, coordOf(c), database[i])
    <3>1. /\ findings' = findings \cup {p(i) : i \in hits \ quiet}
          /\ quieted' = quieted \cup {p(i) : i \in quiet}
      BY <1>2, Zenon DEF Advisory!MatchComponent, coordOf
    <3>2. quiet \subseteq hits
      OBVIOUS
    <3> HIDE DEF hits, quiet
    <3> QED
      BY <3>1, <3>2
  <2>3. /\ Len(sbom) \in Nat /\ position \in Nat /\ position + 1 \in 1..Len(sbom)
        /\ c \in Advisory!elements(sbom)
    <3>1. position \in Nat /\ Len(sbom) \in Nat
      BY <1>0, SBOMIs DEF Scanned
    <3>2. position + 1 \in 1..Len(sbom)
      BY <2>1, <3>1
    <3> QED
      BY <1>0, <3>1, <3>2, SBOMIs
  <2>4. database = Advisory!mergeByAlias(feed) /\ DOMAIN database \subseteq Nat
    <3>1. database = Advisory!mergeByAlias(feed) /\ feed \in Feeds
      BY <1>0, <2>1 DEF Scanned
    <3> QED
      BY <1>0, <3>1, SBOMIs, IndicesAreNumbers
  <2>5. matched(database, G, c) /\ \A f \in G \ F : \E i \in judged(database, c) : matchOf(database, f, c, i)
    <3>1. CASE coordOf(c) = Advisory!NoCoord
      BY <3>1 DEF matched
    <3>2. CASE coordOf(c) # Advisory!NoCoord
      <4>1. G = F \cup addedBy(c)
        BY <3>2 DEF addedBy
      <4>2. /\ matched(database, findings \cup quieted \cup addedBy(c), c)
            /\ \A f \in addedBy(c) : \E i \in judged(database, c) : matchOf(database, f, c, i)
        <5> HIDE DEF c
        <5> QED
          BY <2>4, <3>2, ComponentIsMatched
      <4> HIDE DEF G, c
      <4> QED
        BY <4>1, <4>2
    <3> QED
      BY <3>1, <3>2
  <2> HIDE DEF hits, c
  <2>6. \A p \in 1..(position + 1) : matched(database, G, sbom[p])
    <3>1. \A p \in 1..position : matched(database, F, sbom[p])
      BY <1>0, <2>1 DEF Scanned
    <3>2. F \subseteq G
      OBVIOUS
    <3> HIDE DEF F, G
    <3>3. \A p \in 1..position : matched(database, G, sbom[p])
      BY <3>1, <3>2, KnownGrows
    <3>4. \A p \in 1..(position + 1) : p \in 1..position \/ p = position + 1
      BY <2>3
    <3> QED
      BY <2>5, <3>3, <3>4 DEF c
  <2>7. \A f \in G : comesFrom(database, sbom, f)
    <3>1. \A f \in F : comesFrom(database, sbom, f)
      BY <1>0 DEF Scanned
    <3>2. \A f \in G \ F : comesFrom(database, sbom, f)
      BY <2>3, <2>5 DEF comesFrom
    <3> HIDE DEF F, G
    <3> QED
      BY <3>1, <3>2
  <2>8. feed \in Feeds /\ sbom \in SBOMs
    BY <1>0 DEF Scanned
  <2> HIDE DEF G, F
  <2>9. position + 1 \in Nat /\ position + 1 <= Len(sbom)
    BY <2>3
  <2> QED
    BY <2>1, <2>2, <2>4, <2>6, <2>7, <2>8, <2>9 DEF Scanned
<1>3. CASE Advisory!Finish
  <2>1. /\ scan = "scan" /\ scan' = (IF position < Len(sbom) THEN "truncated" ELSE "done")
        /\ feed' = feed /\ sbom' = sbom /\ position' = position /\ findings' = findings /\ quieted' = quieted
        /\ database' = database
    BY <1>3 DEF Advisory!Finish, Advisory!scanInputs
  <2>2. scan' \in {"truncated", "done"} /\ (scan' = "done" => position = Len(sbom))
    <3>1. position \in Nat /\ Len(sbom) \in Nat /\ position <= Len(sbom)
      BY <1>0, SBOMIs DEF Scanned
    <3> QED
      BY <2>1, <3>1
  <2> QED
    BY <1>0, <2>1, <2>2 DEF Scanned
<1>4. CASE Advisory!Cancelled
  <2>1. /\ scan = "scan" /\ scan' = "cancelled" /\ findings' = {} /\ quieted' = {}
        /\ feed' = feed /\ sbom' = sbom /\ position' = position /\ database' = database
    BY <1>4 DEF Advisory!Cancelled, Advisory!scanInputs
  <2> QED
    BY <1>0, <2>1 DEF Scanned
<1> QED
  BY <1>1, <1>2, <1>3, <1>4 DEF Advisory!VulnerabilityNext

\* A component has a version, a number.
LEMMA VersionIs ==
  ASSUME NEW c, Advisory!aComponent(c)
  PROVE  coordOf(c).version \in Nat
<1>1. DOMAIN c.purl = {"eco", "package", "version"} /\ c.version \in Nat /\ c.purl.version \in Nat
  BY DEF Advisory!aComponent
<1>2. Advisory!FromCataloger(c).version \in Nat
  BY <1>1 DEF Advisory!FromCataloger, Advisory!NoCoord, Advisory!Unset
<1>3. CASE c.purl # Advisory!NoCoord
  <2> DEFINE package == Advisory!packageName(c.purl.eco, c.purl.package)
             version == IF c.purl.version = Advisory!Unset THEN c.version ELSE c.purl.version
  <2>1. coordOf(c) = [c.purl EXCEPT !.package = package, !.version = version]
    BY <1>3 DEF coordOf, Advisory!coordFor
  <2>2. version \in Nat
    BY <1>1
  <2> HIDE DEF package, version
  <2> QED
    BY <1>1, <2>1, <2>2
<1>4. CASE c.purl = Advisory!NoCoord
  BY <1>2, <1>4 DEF coordOf, Advisory!coordFor
<1> QED
  BY <1>3, <1>4

LEMMA NothingIsLost ==
  ASSUME Scanned
  PROVE  Advisory!NoRecordIsLost
<1> SUFFICES ASSUME scan = "done", Advisory!feedsAgree, NEW rec \in Advisory!elements(feed),
                    NEW c \in Advisory!elements(sbom), Advisory!concerns(rec, c)
             PROVE  \E f \in findings \cup quieted : f.component = Advisory!componentIdentity(c) /\ rec.id \in f.ids
  BY DEF Advisory!NoRecordIsLost
<1>0. /\ Advisory!usable(rec) /\ rec.range.type # "GIT" /\ Advisory!closesAbove(rec)
      /\ coordOf(c) # Advisory!NoCoord /\ coordOf(c).version # Advisory!Unset /\ Advisory!identified(c)
      /\ Advisory!sameName(rec, coordOf(c)) /\ Advisory!affects(rec, coordOf(c).version)
  BY Zenon DEF Advisory!concerns, coordOf
<1> DEFINE v == coordOf(c).version
           ranges == Advisory!convertOSVRanges(rec.range)
           eco == Advisory!mapOSVEcosystem(rec.ecosystem)
<1>1. /\ database = Advisory!mergeByAlias(feed) /\ position = Len(sbom) /\ feed \in Feeds /\ sbom \in SBOMs
      /\ \A p \in 1..Len(sbom) : matched(database, findings \cup quieted, sbom[p])
      /\ \A f \in findings \cup quieted : comesFrom(database, sbom, f)
  BY DEF Scanned
<1>2. agreeing(feed)
  BY DEF Advisory!feedsAgree, agreeing
<1>3. (\A r \in Advisory!elements(feed) : readable(r) => recorded(database, r)) /\ unambiguous(database)
  BY <1>1, <1>2, SBOMIs, DatabaseIs
<1>4. Advisory!anOSVRecord(rec)
  BY SBOMIs DEF Advisory!elements
<1>5. PICK g \in ranges : Advisory!inRange(v, g)
  <2>1. v \in Nat
    BY SBOMIs, VersionIs
  <2> QED
    BY <1>0, <1>4, <2>1, RangesCover
<1>6. /\ eco # "" /\ rec.package # "" /\ coordOf(c).eco = eco
      /\ Advisory!packageName(eco, coordOf(c).package) = Advisory!packageName(eco, rec.package)
  BY <1>0, Zenon DEF Advisory!sameName
<1>7. readable(rec)
  BY <1>0, <1>5, <1>6, Zenon DEF readable
<1>8. PICK i \in DOMAIN database :
        /\ database[i].eco = eco /\ database[i].package = Advisory!packageName(database[i].eco, rec.package)
        /\ rec.id \in Advisory!elements(Advisory!ids(database[i])) /\ ranges \subseteq database[i].ranges
  BY <1>3, <1>7 DEF recorded
<1>9. i \in judged(database, c)
  BY <1>6, <1>8, Zenon DEF judged
<1>10. Advisory!Vulnerable(v, database[i].ranges)
  BY <1>0, <1>5, <1>8 DEF Advisory!Vulnerable
<1>11. PICK p \in 1..Len(sbom) : c = sbom[p]
  BY SBOMIs DEF Advisory!elements
<1>12. <<Advisory!componentIdentity(c), database[i].id>> \in known(findings \cup quieted)
  <2>1. matched(database, findings \cup quieted, c)
    BY <1>1, <1>11
  <2> QED
    BY <1>0, <1>9, <1>10, <2>1 DEF matched
<1>13. PICK f \in findings \cup quieted : f.component = Advisory!componentIdentity(c) /\ f.id = database[i].id
  <2>1. PICK f \in findings \cup quieted : <<Advisory!componentIdentity(c), database[i].id>> = <<f.component, f.id>>
    BY <1>12 DEF known
  <2> QED
    BY <2>1
<1>14. PICK d \in Advisory!elements(sbom) : \E j \in judged(database, d) : matchOf(database, f, d, j)
  BY <1>1 DEF comesFrom
<1>15. PICK j \in judged(database, d) : matchOf(database, f, d, j)
  BY <1>14
<1>16. coordOf(d).eco = coordOf(c).eco /\ coordOf(d).package = coordOf(c).package
  <2>1. Advisory!componentIdentity(c) = Advisory!componentIdentity(d) /\ coordOf(d) # Advisory!NoCoord
    BY <1>13, <1>15 DEF matchOf
  <2> QED
    BY <1>0, <2>1 DEF Advisory!identified, coordOf
<1>17. j = i
  <2>1. /\ j \in DOMAIN database /\ database[j].eco = database[i].eco /\ database[j].package = database[i].package
    BY <1>9, <1>15, <1>16 DEF judged
  <2>2. database[j].id = database[i].id
    BY <1>13, <1>15 DEF matchOf
  <2> QED
    BY <1>3, <2>1, <2>2 DEF unambiguous
<1>18. rec.id \in f.ids
  BY <1>8, <1>15, <1>17 DEF matchOf
<1> QED
  BY <1>13, <1>18

\* update.go:361-364, match.go:74-103: where the feeds agree on the number of an id,
\* neither their merging nor the matching loses a record of a component that no other
\* package shares the identity of.
THEOREM RecordsAreKept == PostureSpec => []NoRecordIsLost
<1>1. PostureInit => AdvisoryInv
  BY ScanStart
<1>2. AdvisoryInv /\ [PostureNext]_postureVars => AdvisoryInv'
  <2> SUFFICES ASSUME AdvisoryInv, [PostureNext]_postureVars PROVE AdvisoryInv'
    OBVIOUS
  <2>1. CASE UNCHANGED postureVars
    <3>1. UNCHANGED <<assessment, feed, sbom, posture, database, position, findings, quieted, scan>>
      BY <2>1 DEF postureVars, vulnerabilityVars
    <3> QED
      BY <3>1 DEF AdvisoryInv, Scanned
  <2>2. CASE PostureNext /\ assessment = "vulnerabilities"
    <3>1. Advisory!VulnerabilityNext /\ UNCHANGED assessment
      BY <2>2 DEF PostureNext
    <3> QED
      BY <2>2, <3>1, ScanStep
  <2>3. CASE PostureNext /\ assessment # "vulnerabilities"
    BY <2>3 DEF PostureNext, AdvisoryInv
  <2> QED
    BY <2>1, <2>2, <2>3
<1>3. AdvisoryInv => NoRecordIsLost
  BY NothingIsLost DEF AdvisoryInv, NoRecordIsLost
<1> QED
  BY <1>1, <1>2, <1>3, PTL DEF PostureSpec

(***************************************************************************)
(* The report on an export: each hop of a path that it tells of is told of *)
(* by a check of the grants too.                                           *)
(***************************************************************************)
\* What the checks of grants report whose rules stand for a hop (checks.go:100-223).
grantChecks ==
  checkClusterAdmin \cup checkRiskyVerbs \cup checkSecretReaders
  \cup checkProxyAndNodes \cup checkTokenMint \cup checkCSRSigning
  \cup checkWorkloadCreation

\* The report of a command that is done holds them.
ReportInv == phase = "done" => grantChecks \subseteq report

tells(risks, n) == \E x \in risks : x.subject = n /\ x.rule \in Primitives

\* A permission on a resource is one that a rule grants of it by that name or as "*".
LEMMA PermissionOnResource ==
  ASSUME NEW n, NEW p \in SubjectPermissions(n), p.group # "nonResourceURL"
  PROVE  \E g \in grants : g.subject = n /\
           \E r \in roles[g.role] : p.verb \in r.verbs /\ p.resource \in defaulted(r.resources)
<1>1. PICK g \in grants :
        g.subject = n /\ p \in UNION {expandRule(r, g.ns) : r \in roles[g.role]}
  BY DEF SubjectPermissions
<1>2. PICK r \in roles[g.role] : p \in expandRule(r, g.ns)
  BY <1>1
<1>3. PICK v \in r.verbs, gr \in defaulted(r.groups), x \in defaulted(r.resources) :
        p = [verb |-> v, group |-> gr, resource |-> x, ns |-> g.ns]
  <2>1. ASSUME NEW v \in r.verbs, NEW u \in r.urls,
               p = [verb |-> v, group |-> "nonResourceURL", resource |-> u, ns |-> g.ns]
        PROVE  FALSE
    BY <2>1
  <2> QED
    BY <1>2, <2>1 DEF expandRule
<1>4. p.verb = v /\ p.resource = x
  BY <1>3
<1> QED
  BY <1>1, <1>4

\* What a check of verbs on a resource reports (checks.go:348-363).
LEMMA ReportsGrant ==
  ASSUME NEW rule, NEW sev, NEW verbs, NEW resource, NEW g \in grants, NEW r \in roles[g.role],
         resourceMatches(r, resource), anyVerb(r, verbs)
  PROVE  \E x \in verbResourceCheck(rule, sev, verbs, resource) : x.subject = g.subject /\ x.rule = rule
<1> DEFINE x == subjectRisk(g, rule, sev, resource)
<1>1. x \in verbResourceCheck(rule, sev, verbs, resource)
  BY DEF verbResourceCheck
<1>2. x.subject = g.subject /\ x.rule = rule
  BY DEF subjectRisk, Risk
<1> QED
  BY <1>1, <1>2
\* A grant with a risky verb is told of, whatever the verb is for (checks.go:100-117).
LEMMA RiskyVerbIsTold ==
  ASSUME NEW n, NEW g \in grants, g.subject = n, NEW r \in roles[g.role],
         NEW v \in {"escalate", "bind", "impersonate"}, v \in r.verbs
  PROVE  tells(grantChecks, n)
<1> DEFINE x == subjectRisk(g, riskyVerbs[v], High, v)
<1>1. v \in DOMAIN riskyVerbs /\ riskyVerbs[v] \in {"003", "004", "005"}
  BY DEF riskyVerbs
<1>2. contains(r.verbs, v)
  BY DEF contains
<1>3. x \in checkRiskyVerbs
  <2> DEFINE y == <<g, v>>
  <2>1. y \in grants \X DOMAIN riskyVerbs /\ y[1] = g /\ y[2] = v
    BY <1>1
  <2>2. x = subjectRisk(y[1], riskyVerbs[y[2]], High, y[2])
    BY <2>1
  <2> HIDE DEF y
  <2> QED
    BY <2>1, <2>2, <1>2 DEF checkRiskyVerbs
<1>4. x.subject = n /\ x.rule \in Primitives
  BY <1>1 DEF subjectRisk, Risk, Primitives
<1> QED
  BY <1>3, <1>4 DEF tells, grantChecks

\* So is one with a verb on a resource that a check looks for.
onResource(n, verbs, resource) ==
  \E g \in grants : g.subject = n /\
    \E r \in roles[g.role] : resourceMatches(r, resource) /\ anyVerb(r, verbs)

LEMMA ResourceIsTold ==
  ASSUME NEW n, NEW rule, NEW sev, NEW verbs, NEW resource, onResource(n, verbs, resource),
         rule \in Primitives,
         verbResourceCheck(rule, sev, verbs, resource) \subseteq grantChecks
  PROVE  tells(grantChecks, n)
<1>1. PICK g \in grants : g.subject = n /\
        \E r \in roles[g.role] : resourceMatches(r, resource) /\ anyVerb(r, verbs)
  BY DEF onResource
<1>2. PICK r \in roles[g.role] : resourceMatches(r, resource) /\ anyVerb(r, verbs)
  BY <1>1
<1>3. \E x \in verbResourceCheck(rule, sev, verbs, resource) : x.subject = g.subject /\ x.rule = rule
  BY <1>2, ReportsGrant
<1> QED
  BY <1>1, <1>3 DEF tells

\* What a permission on one of the names of a resource comes from.
LEMMA NamedIsOnResource ==
  ASSUME NEW n, NEW p \in SubjectPermissions(n), p.group # "nonResourceURL",
         NEW resource, p.resource \in {Star, resource}, p.resource # Everywhere,
         NEW verbs, NEW w \in verbs, p.verb \in {Star, w}
  PROVE  onResource(n, verbs, resource)
<1>1. PICK g \in grants : g.subject = n /\
        \E r \in roles[g.role] : p.verb \in r.verbs /\ p.resource \in defaulted(r.resources)
  BY PermissionOnResource
<1>2. PICK r \in roles[g.role] : p.verb \in r.verbs /\ p.resource \in defaulted(r.resources)
  BY <1>1
<1>3. p.resource \in r.resources
  BY <1>2, Zenon DEF defaulted, Everywhere
<1>4. resourceMatches(r, resource)
  BY <1>3 DEF resourceMatches
<1>5. contains(r.verbs, w)
  BY <1>2 DEF contains
<1>6. anyVerb(r, verbs)
  BY <1>5 DEF anyVerb
<1> QED
  BY <1>1, <1>4, <1>6 DEF onResource

\* The permissions that are not on paths.
named(n) == {p \in SubjectPermissions(n) : p.group # "nonResourceURL"}

LEMMA HasOnResource ==
  ASSUME NEW n, NEW resource, resource # Everywhere, NEW verbs, verbs # {},
         NEW held \in SUBSET (verbs \cup {Star}), has(named(n), held, {resource})
  PROVE  onResource(n, verbs, resource)
<1>1. PICK p \in named(n) : p.verb \in held /\ p.resource = resource
  BY DEF has
<1>2. p \in SubjectPermissions(n) /\ p.group # "nonResourceURL"
  BY <1>1 DEF named
<1>3. PICK w \in verbs : p.verb \in {Star, w}
  BY <1>1
<1> QED
  BY <1>1, <1>2, <1>3, NamedIsOnResource

LEMMA NamesAreNames ==
  /\ \A x \in Workloads : x # Everywhere
  /\ CSRs # Everywhere /\ Approval # Everywhere
  /\ Star # Everywhere
  /\ "signers" # Everywhere /\ "secrets" # Everywhere
  /\ "nodes" # Everywhere /\ "nodes/proxy" # Everywhere /\ "pods" # Everywhere
  /\ "serviceaccounts/token" # Everywhere /\ "tokenrequests" # Everywhere
  BY Zenon DEF Workloads, Everywhere, CSRs, Approval, Star

\* A step to a ServiceAccount (checks.go:141-148, 178-189).
LEMMA TheftIsTold ==
  ASSUME NEW n, steals(n, named(n)) # {}
  PROVE  tells(grantChecks, n)
<1>1. PICK p \in named(n) : isTheft(p)
  BY DEF steals, identityTheftScope
<1>2. p \in SubjectPermissions(n) /\ p.group # "nonResourceURL"
  BY <1>1 DEF named
<1>3. CASE p.verb \in {"get", "list", "watch", Star} /\ p.resource \in {"secrets", Star}
  <2> DEFINE verbs == {"get", "list", "watch"}
  <2>1. p.resource # Everywhere
    BY <1>3, NamesAreNames
  <2>2. PICK w \in verbs : p.verb \in {Star, w}
    BY <1>3
  <2>3. onResource(n, verbs, "secrets")
    <3> HIDE DEF verbs
    <3> QED
      BY <1>2, <1>3, <2>1, <2>2, NamedIsOnResource
  <2>4. verbResourceCheck("006", High, verbs, "secrets") \subseteq grantChecks
    BY DEF grantChecks, checkSecretReaders
  <2>5. "006" \in Primitives
    BY DEF Primitives
  <2> HIDE DEF verbs
  <2> QED
    BY <2>3, <2>4, <2>5, ResourceIsTold
<1>4. CASE p.verb \in {"create", Star} /\ p.resource \in {"serviceaccounts/token", "tokenrequests"}
  <2> DEFINE verbs == {"create", Star}
             x == p.resource
  <2>1. x # Everywhere
    BY <1>4, NamesAreNames
  <2>2. PICK w \in verbs : p.verb \in {Star, w}
    BY <1>4
  <2>3. onResource(n, verbs, x)
    <3> HIDE DEF verbs
    <3> QED
      BY <1>2, <2>1, <2>2, NamedIsOnResource
  <2>4. verbResourceCheck("009", High, verbs, x) \subseteq grantChecks
    BY <1>4 DEF grantChecks, checkTokenMint
  <2>5. "009" \in Primitives
    BY DEF Primitives
  <2> HIDE DEF verbs
  <2> QED
    BY <2>3, <2>4, <2>5, ResourceIsTold
<1> QED
  BY <1>1, <1>3, <1>4 DEF isTheft

\* A step to the cluster's admin (checks.go:100-139, 191-209).
LEMMA AdminIsTold ==
  ASSUME NEW n, becomesAdmin(n, named(n))
  PROVE  tells(grantChecks, n)
<1>1. CASE boundToClusterAdmin(n)
  <2>1. PICK g \in grants :
          g.subject = n /\ (g.role = ClusterRole("cluster-admin") \/ n = Masters)
    BY <1>1 DEF boundToClusterAdmin
  <2> DEFINE x == subjectRisk(g, "002", Critical, "admin")
  <2>2. x \in checkClusterAdmin
    BY <2>1 DEF checkClusterAdmin
  <2>3. x.subject = n /\ x.rule \in Primitives
    BY <2>1 DEF subjectRisk, Risk, Primitives
  <2> QED
    BY <2>2, <2>3 DEF tells, grantChecks
<1>2. ASSUME NEW p \in named(n), NEW v \in {"escalate", "bind", "impersonate"}, p.verb = v
      PROVE  tells(grantChecks, n)
  <2>1. p \in SubjectPermissions(n) /\ p.group # "nonResourceURL"
    BY DEF named
  <2>2. PICK g \in grants : g.subject = n /\ \E r \in roles[g.role] : p.verb \in r.verbs
    BY <2>1, PermissionOnResource
  <2> QED
    BY <1>2, <2>2, RiskyVerbIsTold
<1>3. CASE has(named(n), {"create", Star}, {CSRs})
  <2> DEFINE verbs == {"create", Star}
  <2>1. onResource(n, verbs, CSRs)
    BY <1>3, NamesAreNames, HasOnResource
  <2>2. verbResourceCheck("010", High, verbs, CSRs) \subseteq grantChecks
    BY DEF grantChecks, checkCSRSigning
  <2>3. "010" \in Primitives
    BY DEF Primitives
  <2> HIDE DEF verbs
  <2> QED
    BY <2>1, <2>2, <2>3, ResourceIsTold
<1>4. CASE has(named(n), {Star}, {"signers"})
  <2> DEFINE verbs == {"create", Star}
  <2>1. onResource(n, verbs, "signers")
    BY <1>4, NamesAreNames, HasOnResource
  <2>2. verbResourceCheck("010", High, verbs, "signers") \subseteq grantChecks
    BY DEF grantChecks, checkCSRSigning
  <2>3. "010" \in Primitives
    BY DEF Primitives
  <2> HIDE DEF verbs
  <2> QED
    BY <2>1, <2>2, <2>3, ResourceIsTold
<1> QED
  BY <1>1, <1>2, <1>3, <1>4 DEF becomesAdmin, has

\* A step to a node (checks.go:165-176, 211-223).
LEMMA NodeIsTold ==
  ASSUME NEW n, becomesNode(named(n))
  PROVE  tells(grantChecks, n)
<1>1. ASSUME NEW x \in Workloads, onResource(n, {"create", Star}, x)
      PROVE  tells(grantChecks, n)
  <2> DEFINE verbs == {"create", Star}
  <2>1. verbResourceCheck("013", Medium, verbs, x) \subseteq grantChecks
    BY DEF grantChecks, checkWorkloadCreation
  <2>2. "013" \in Primitives
    BY DEF Primitives
  <2> HIDE DEF verbs
  <2> QED
    BY <1>1, <2>1, <2>2, ResourceIsTold DEF verbs
<1>2. ASSUME NEW x \in {"nodes/proxy", "nodes"}, onResource(n, {"get", "create", Star}, x)
      PROVE  tells(grantChecks, n)
  <2> DEFINE verbs == {"get", "create", Star}
  <2>1. verbResourceCheck("008", High, verbs, x) \subseteq grantChecks
    BY DEF grantChecks, checkProxyAndNodes
  <2>2. "008" \in Primitives
    BY DEF Primitives
  <2> HIDE DEF verbs
  <2> QED
    BY <1>2, <2>1, <2>2, ResourceIsTold DEF verbs
<1>3. CASE has(named(n), {"create"}, Workloads)
  <2>1. PICK x \in Workloads : has(named(n), {"create"}, {x})
    BY <1>3 DEF has
  <2>2. onResource(n, {"create", Star}, x)
    BY <2>1, NamesAreNames, HasOnResource
  <2> QED
    BY <2>2, <1>1
<1>4. CASE has(named(n), {Star}, {"pods"})
  <2>1. onResource(n, {"create", Star}, "pods")
    BY <1>4, NamesAreNames, HasOnResource
  <2>2. "pods" \in Workloads
    BY DEF Workloads
  <2> QED
    BY <2>1, <2>2, <1>1
<1>5. CASE has(named(n), {"get", Star}, {"nodes/proxy"})
  <2>1. onResource(n, {"get", "create", Star}, "nodes/proxy")
    BY <1>5, NamesAreNames, HasOnResource
  <2> QED
    BY <2>1, <1>2
<1>6. CASE has(named(n), {"get"}, {"nodes"})
  <2>1. onResource(n, {"get", "create", Star}, "nodes")
    BY <1>6, NamesAreNames, HasOnResource
  <2> QED
    BY <2>1, <1>2
<1> QED
  BY <1>3, <1>4, <1>5, <1>6 DEF becomesNode

\* Every hop that a principal of a cluster takes is told of.
LEMMA HopIsTold ==
  ASSUME NEW n, hops(n)
  PROVE  tells(grantChecks, n)
<1>1. \/ steals(n, named(n)) # {} \/ becomesAdmin(n, named(n))
      \/ becomesNode(named(n))
  BY DEF hops, named
<1> QED
  BY <1>1, TheftIsTold, AdminIsTold, NodeIsTold

\* A cluster that stays has the grants, and the report of them, that it had.
LEMMA SameGrantChecks ==
  ASSUME roles' = roles, bindings' = bindings
  PROVE  grantChecks' = grantChecks
<1>1. grants' = grants
  <2>1. resolved' = resolved
    BY DEF resolved, resolveRole
  <2> QED
    BY <2>1 DEF grants, resolveRole
<1>2. ASSUME NEW CONSTANT rule, NEW CONSTANT sev, NEW CONSTANT verbs, NEW CONSTANT resource
      PROVE  verbResourceCheck(rule, sev, verbs, resource)'
             = verbResourceCheck(rule, sev, verbs, resource)
  BY <1>1 DEF verbResourceCheck
<1>3. checkClusterAdmin' = checkClusterAdmin
  BY <1>1 DEF checkClusterAdmin
<1>4. checkRiskyVerbs' = checkRiskyVerbs
  BY <1>1 DEF checkRiskyVerbs
<1>5. checkSecretReaders' = checkSecretReaders
  BY <1>2 DEF checkSecretReaders
<1>6. checkProxyAndNodes' = checkProxyAndNodes
  BY <1>2 DEF checkProxyAndNodes
<1>7. checkTokenMint' = checkTokenMint
  BY <1>2 DEF checkTokenMint
<1>8. checkCSRSigning' = checkCSRSigning
  BY <1>2 DEF checkCSRSigning
<1>9. checkWorkloadCreation' = checkWorkloadCreation
  BY <1>2 DEF checkWorkloadCreation
<1> QED
  BY <1>3, <1>4, <1>5, <1>6, <1>7, <1>8, <1>9 DEF grantChecks

LEMMA ReportInvInit == IdentityInit => ReportInv
  BY DEF IdentityInit, ReportInv

LEMMA ReportInvNext == ReportInv /\ [IdentityNext]_identityVars => ReportInv'
<1> SUFFICES ASSUME ReportInv, [IdentityNext]_identityVars PROVE ReportInv'
  OBVIOUS
<1>1. CASE LoadFile
  <2>1. phase' # "done"
    BY <1>1 DEF LoadFile
  <2> QED
    BY <2>1 DEF ReportInv
<1>2. CASE WalkFails
  BY <1>2 DEF WalkFails, ReportInv
<1>3. CASE Loaded
  BY <1>3 DEF Loaded, ReportInv
<1>4. CASE Analyze
  <2>1. report' = checkAll /\ roles' = roles /\ bindings' = bindings
    BY <1>4 DEF Analyze, cluster
  <2>2. grantChecks \subseteq checkAll
    BY DEF grantChecks, checkAll
  <2> QED
    BY <2>1, <2>2, SameGrantChecks DEF ReportInv
<1>5. CASE runWhoCan
  <2>1. phase' # "done"
    BY <1>5 DEF runWhoCan
  <2> QED
    BY <2>1 DEF ReportInv
<1>6. CASE UNCHANGED identityVars
  <2>1. roles' = roles /\ bindings' = bindings /\ phase' = phase /\ report' = report
    BY <1>6 DEF identityVars, cluster
  <2> QED
    BY <2>1, SameGrantChecks DEF ReportInv
<1> QED
  BY <1>1, <1>2, <1>3, <1>4, <1>5, <1>6 DEF IdentityNext

\* escalation.go:146: every hop of every path in the report of `dsecrat rbac` is told
\* of by a check of the grants, for the identity that takes it, whatever the export
\* and the flags.
THEOREM HopsAreTold == IdentitySpec => []HopsAreReported
<1>1. ReportInv => HopsAreReported
  <2> SUFFICES ASSUME ReportInv, phase = "done", NEW n, hops(n)
               PROVE  \E x \in report : x.subject = n /\ x.rule \in Primitives
    BY DEF HopsAreReported
  <2>1. tells(grantChecks, n)
    BY HopIsTold
  <2> QED
    BY <2>1 DEF ReportInv, tells
<1> QED
  BY <1>1, ReportInvInit, ReportInvNext, PTL DEF IdentitySpec

(***************************************************************************)
(* The file tree of an image: each pass over the entries of a layer does   *)
(* what they say together, and the layers overlay each other.              *)
(***************************************************************************)
\* What an entry makes of the entries kept so far, and of a tree in the first or in
\* the second pass over layer i (oci.go:101-126).
pass(which, i, u, e) ==
  CASE which = "read" -> withEntry(u, e)
    [] which = "whiteouts" -> whiteout(u, e)
    [] OTHER -> addFile(u, e, i)

\* The passes of a loop over n entries.
passes(which, i, t, layer, n, f) ==
  /\ f = [m \in 0..n |-> f[m]] /\ f[0] = t
  /\ \A m \in 1..n : f[m] = pass(which, i, f[m - 1], layer[m])

LEMMA PassesAreDefined ==
  ASSUME NEW which, NEW i, NEW t, NEW layer, NEW n \in Nat
  PROVE  \E f : passes(which, i, t, layer, n, f)
<1> DEFINE good == {m \in 0..n : \E f : passes(which, i, t, layer, m, f)}
<1>1. 0 \in good
  <2> DEFINE f == [m \in 0..0 |-> t]
  <2>1. f = [m \in 0..0 |-> f[m]] /\ f[0] = t /\ 1..0 = {}
    OBVIOUS
  <2> HIDE DEF f
  <2>2. passes(which, i, t, layer, 0, f)
    BY <2>1 DEF passes
  <2> QED
    BY <2>2
<1>2. ASSUME NEW m \in 1..n, m - 1 \in good PROVE m \in good
  <2>1. PICK f : passes(which, i, t, layer, m - 1, f)
    BY <1>2
  <2> DEFINE next == pass(which, i, f[m - 1], layer[m])
             g == [l \in 0..m |-> IF l = m THEN next ELSE f[l]]
  <2> HIDE DEF next
  <2>2. f[0] = t /\ \A l \in 1..m - 1 : f[l] = pass(which, i, f[l - 1], layer[l])
    BY <2>1 DEF passes
  <2>3. /\ g = [l \in 0..m |-> g[l]] /\ g[m] = next /\ g[m - 1] = f[m - 1] /\ g[0] = f[0]
        /\ \A l \in 1..m - 1 : g[l] = f[l] /\ g[l - 1] = f[l - 1]
    OBVIOUS
  <2> HIDE DEF g
  <2>4. \A l \in 1..m : g[l] = pass(which, i, g[l - 1], layer[l])
    <3>1. \A l \in 1..m : l \in 1..m - 1 \/ l = m
      OBVIOUS
    <3>2. g[m] = pass(which, i, g[m - 1], layer[m])
      BY <2>3 DEF next
    <3> QED
      BY <2>2, <2>3, <3>1, <3>2
  <2>5. passes(which, i, t, layer, m, g)
    BY <2>2, <2>3, <2>4 DEF passes
  <2> QED
    BY <2>5
<1> HIDE DEF good
<1>3. n \in good
  BY <1>1, <1>2, Induct
<1> QED
  BY <1>3 DEF good

\* What each loop computes is what the last of its passes leaves.
LEMMA ReadLoop ==
  ASSUME NEW tar, Len(tar) \in Nat
  PROVE  \E f : passes("read", 0, <<>>, tar, Len(tar), f) /\ layerFromTar(tar) = f[Len(tar)]
<1> DEFINE n == Len(tar)
           rule(f) == f = [m \in 0..n |-> IF m = 0 THEN <<>> ELSE withEntry(f[m - 1], tar[m])]
           upTo == CHOOSE f : rule(f)
<1>1. layerFromTar(tar) = upTo[n]
  BY DEF layerFromTar
<1> HIDE DEF n
<1>2. PICK f : passes("read", 0, <<>>, tar, n, f)
  BY PassesAreDefined DEF n
<1>3. \A g : passes("read", 0, <<>>, tar, n, g) <=> rule(g)
  <2>1. n \in Nat /\ 0..n = {0} \cup 1..n /\ 0 \notin 1..n
    BY DEF n
  <2> QED
    BY <2>1 DEF passes, pass
<1>4. rule(upTo)
  BY <1>2, <1>3
<1> HIDE DEF upTo, rule
<1> QED
  BY <1>1, <1>3, <1>4 DEF n

LEMMA WhiteoutsLoop ==
  ASSUME NEW t, NEW layer, Len(layer) \in Nat
  PROVE  \E f : passes("whiteouts", 0, t, layer, Len(layer), f) /\ whiteouts(t, layer) = f[Len(layer)]
<1> DEFINE n == Len(layer)
           rule(f) == f = [m \in 0..n |-> IF m = 0 THEN t ELSE whiteout(f[m - 1], layer[m])]
           upTo == CHOOSE f : rule(f)
<1>1. whiteouts(t, layer) = upTo[n]
  BY DEF whiteouts
<1> HIDE DEF n
<1>2. PICK f : passes("whiteouts", 0, t, layer, n, f)
  BY PassesAreDefined DEF n
<1>3. \A g : passes("whiteouts", 0, t, layer, n, g) <=> rule(g)
  <2>1. n \in Nat /\ 0..n = {0} \cup 1..n /\ 0 \notin 1..n
    BY DEF n
  <2> QED
    BY <2>1 DEF passes, pass
<1>4. rule(upTo)
  BY <1>2, <1>3
<1> HIDE DEF upTo, rule
<1> QED
  BY <1>1, <1>3, <1>4 DEF n

LEMMA FilesLoop ==
  ASSUME NEW t, NEW layer, NEW i, Len(layer) \in Nat
  PROVE  \E f : passes("files", i, t, layer, Len(layer), f) /\ addFiles(t, layer, i) = f[Len(layer)]
<1> DEFINE n == Len(layer)
           rule(f) == f = [m \in 0..n |-> IF m = 0 THEN t ELSE addFile(f[m - 1], layer[m], i)]
           upTo == CHOOSE f : rule(f)
<1>1. addFiles(t, layer, i) = upTo[n]
  BY DEF addFiles
<1> HIDE DEF n
<1>2. PICK f : passes("files", i, t, layer, n, f)
  BY PassesAreDefined DEF n
<1>3. \A g : passes("files", i, t, layer, n, g) <=> rule(g)
  <2>1. n \in Nat /\ 0..n = {0} \cup 1..n /\ 0 \notin 1..n
    BY DEF n
  <2> QED
    BY <2>1 DEF passes, pass
<1>4. rule(upTo)
  BY <1>2, <1>3
<1> HIDE DEF upTo, rule
<1> QED
  BY <1>1, <1>3, <1>4 DEF n

\* The entries that are kept are entries (loader.go:228-266).
LEMMA LayerOfTar ==
  ASSUME NEW tar \in Seq(Entries)
  PROVE  layerFromTar(tar) \in Seq(Entries)
<1> DEFINE n == Len(tar)
<1>1. n \in Nat
  OBVIOUS
<1>2. PICK f : passes("read", 0, <<>>, tar, n, f) /\ layerFromTar(tar) = f[n]
  BY ReadLoop
<1> DEFINE isLayer == {m \in 0..n : f[m] \in Seq(Entries)}
<1>3. 0 \in isLayer
  BY <1>1, <1>2 DEF passes
<1>4. ASSUME NEW m \in 1..n, m - 1 \in isLayer PROVE m \in isLayer
  <2>1. f[m] = withEntry(f[m - 1], tar[m]) /\ tar[m] \in Entries /\ f[m - 1] \in Seq(Entries)
    BY <1>2, <1>4, SMTT(30) DEF passes, pass
  <2>2. \A u, e : u \in Seq(Entries) /\ e \in Entries => withEntry(u, e) \in Seq(Entries)
    BY DEF withEntry
  <2>3. f[m] \in Seq(Entries) /\ m \in 0..n
    BY <1>1, <2>1, <2>2
  <2> QED
    BY <2>3
<1>5. n \in isLayer
  <2>1. n \in Nat /\ n \in 0..n
    BY <1>1
  <2> HIDE DEF isLayer, n
  <2>2. 0..n \subseteq isLayer
    BY <1>3, <1>4, <2>1, Induct
  <2> QED
    BY <2>1, <2>2
<1> QED
  BY <1>2, <1>5

\* An entry removes a path, or the directory it is in.
removes(e, p) ==
  \/ e.kind = "whiteout" /\ (p = e.path \/ under(p, e.path))
  \/ e.kind = "opaque" /\ under(p, e.path)

\* The first pass takes from a tree what any of the layer's markers removes
\* (oci.go:101-113).
LEMMA WhiteoutsRemove ==
  ASSUME NEW t, NEW layer, Len(layer) \in Nat
  PROVE  /\ \A p : p \in DOMAIN whiteouts(t, layer) <=>
                     p \in DOMAIN t /\ \A k \in 1..Len(layer) : ~removes(layer[k], p)
         /\ \A p \in DOMAIN whiteouts(t, layer) : whiteouts(t, layer)[p] = t[p]
<1> DEFINE n == Len(layer)
<1>1. PICK f : passes("whiteouts", 0, t, layer, n, f) /\ whiteouts(t, layer) = f[n]
  BY WhiteoutsLoop
<1> DEFINE less(u, m) ==
             /\ \A p : p \in DOMAIN u <=> p \in DOMAIN t /\ \A k \in 1..m : ~removes(layer[k], p)
             /\ \A p \in DOMAIN u : u[p] = t[p]
           good == {m \in 0..n : less(f[m], m)}
<1>2. 0 \in good
  <2>1. 1..0 = {} /\ f[0] = t /\ 0 \in 0..n
    BY <1>1 DEF passes
  <2> QED
    BY <2>1
<1>3. ASSUME NEW m \in 1..n, m - 1 \in good PROVE m \in good
  <2> DEFINE u == f[m - 1]
             e == layer[m]
             w == f[m]
  <2>1. w = whiteout(u, e)
    BY <1>1 DEF passes, pass
  <2>2. less(u, m - 1)
    BY <1>3
  <2> HIDE DEF u, e, w
  <2>3. /\ \A p : p \in DOMAIN w <=> p \in DOMAIN u /\ ~removes(e, p)
        /\ \A p \in DOMAIN w : w[p] = u[p]
    <3>1. CASE e.kind = "opaque"
      BY <2>1, <3>1 DEF whiteout, removePrefix, keep, removes
    <3>2. CASE e.kind = "whiteout"
      BY <2>1, <3>2 DEF whiteout, remove, keep, removes
    <3>3. CASE e.kind \notin {"opaque", "whiteout"}
      BY <2>1, <3>3 DEF whiteout, removes
    <3> QED
      BY <3>1, <3>2, <3>3
  <2>4. \A k : k \in 1..m <=> k \in 1..m - 1 \/ k = m
    OBVIOUS
  <2>5. less(w, m)
    <3>1. \A p : (\A k \in 1..m : ~removes(layer[k], p)) <=>
                 (\A k \in 1..m - 1 : ~removes(layer[k], p)) /\ ~removes(e, p)
      BY <2>4 DEF e
    <3> QED
      BY <2>2, <2>3, <3>1
  <2> QED
    BY <2>5 DEF w
<1>4. n \in good
  <2>1. n \in Nat /\ n \in 0..n
    OBVIOUS
  <2> HIDE DEF good, n
  <2>2. 0..n \subseteq good
    BY <1>2, <1>3, <2>1, Induct
  <2> QED
    BY <2>1, <2>2
<1> QED
  BY <1>1, <1>4

\* The second pass adds the layer's files, which replace those of lower layers
\* (oci.go:114-126).
brought(layer, p) == \E k \in 1..Len(layer) : layer[k].kind = "regular" /\ layer[k].path = p

LEMMA FilesAreAdded ==
  ASSUME NEW t, NEW layer, NEW i, Len(layer) \in Nat
  PROVE  /\ \A p : p \in DOMAIN addFiles(t, layer, i) <=> p \in DOMAIN t \/ brought(layer, p)
         /\ \A p \in DOMAIN addFiles(t, layer, i) :
              addFiles(t, layer, i)[p] = IF brought(layer, p) THEN i ELSE t[p]
<1> DEFINE n == Len(layer)
           isFile(k, p) == layer[k].kind = "regular" /\ layer[k].path = p
<1>1. PICK f : passes("files", i, t, layer, n, f) /\ addFiles(t, layer, i) = f[n]
  BY FilesLoop
<1> DEFINE more(u, m) ==
             /\ \A p : p \in DOMAIN u <=> p \in DOMAIN t \/ \E k \in 1..m : isFile(k, p)
             /\ \A p \in DOMAIN u : u[p] = IF \E k \in 1..m : isFile(k, p) THEN i ELSE t[p]
           good == {m \in 0..n : more(f[m], m)}
<1>2. 0 \in good
  <2>1. 1..0 = {} /\ f[0] = t /\ 0 \in 0..n
    BY <1>1 DEF passes
  <2> QED
    BY <2>1
<1>3. ASSUME NEW m \in 1..n, m - 1 \in good PROVE m \in good
  <2> DEFINE u == f[m - 1]
             e == layer[m]
             w == f[m]
             isNew(p) == e.kind = "regular" /\ e.path = p
  <2>1. w = addFile(u, e, i)
    BY <1>1 DEF passes, pass
  <2>2. more(u, m - 1)
    BY <1>3
  <2> HIDE DEF u, e, w
  <2>3. /\ \A p : p \in DOMAIN w <=> p \in DOMAIN u \/ isNew(p)
        /\ \A p \in DOMAIN w : w[p] = IF isNew(p) THEN i ELSE u[p]
    <3>1. CASE e.kind = "regular"
      BY <2>1, <3>1 DEF addFile
    <3>2. CASE e.kind # "regular"
      BY <2>1, <3>2 DEF addFile
    <3> QED
      BY <3>1, <3>2
  <2>4. \A k : k \in 1..m <=> k \in 1..m - 1 \/ k = m
    OBVIOUS
  <2>5. \A p : (\E k \in 1..m : isFile(k, p)) <=> (\E k \in 1..m - 1 : isFile(k, p)) \/ isNew(p)
    <3>1. \A p : isNew(p) <=> isFile(m, p)
      BY DEF e
    <3> HIDE DEF isNew, isFile
    <3> QED
      BY <2>4, <3>1
  <2>6. more(w, m)
    <3> HIDE DEF isNew, isFile
    <3> QED
      BY <2>2, <2>3, <2>5
  <2> QED
    BY <2>6 DEF w
<1>4. n \in good
  <2>1. n \in Nat /\ n \in 0..n
    OBVIOUS
  <2> HIDE DEF good, n
  <2>2. 0..n \subseteq good
    BY <1>2, <1>3, <2>1, Induct
  <2> QED
    BY <2>1, <2>2
<1> QED
  BY <1>1, <1>4 DEF brought

\* What both passes make of a tree.
LEMMA LayerIsApplied ==
  ASSUME NEW t, NEW layer, NEW i, Len(layer) \in Nat
  PROVE  /\ \A p : p \in DOMAIN apply(t, layer, i) <=>
                     \/ p \in DOMAIN t /\ \A k \in 1..Len(layer) : ~removes(layer[k], p)
                     \/ brought(layer, p)
         /\ \A p \in DOMAIN apply(t, layer, i) :
              apply(t, layer, i)[p] = IF brought(layer, p) THEN i ELSE t[p]
<1> DEFINE u == whiteouts(t, layer)
           w == addFiles(u, layer, i)
<1>1. w = apply(t, layer, i)
  BY DEF apply
<1>2. /\ \A p : p \in DOMAIN u <=> p \in DOMAIN t /\ \A k \in 1..Len(layer) : ~removes(layer[k], p)
      /\ \A p \in DOMAIN u : u[p] = t[p]
  BY WhiteoutsRemove
<1> HIDE DEF u
<1>3. /\ \A p : p \in DOMAIN w <=> p \in DOMAIN u \/ brought(layer, p)
      /\ \A p \in DOMAIN w : w[p] = IF brought(layer, p) THEN i ELSE u[p]
  BY FilesAreAdded
<1> HIDE DEF w
<1> QED
  BY <1>1, <1>2, <1>3

\* Layer i is the last one up to m that says anything of a path, and brings it.
lasting(i, p, m) ==
  /\ i \in 1..m /\ brings(i, p)
  /\ \A j \in i + 1..m : ~hides(j, p)

applied == Len(layers) - Len(pending)

\* Of the layers that were applied the tree is the overlay.
LayersAre ==
  /\ layers \in Seq(Seq(Entries)) /\ pending \in Seq(Seq(Entries))
  /\ Len(pending) <= Len(layers)
  /\ \A k \in 1..Len(pending) : pending[k] = layers[applied + k]

TreeIs ==
  \A p : /\ p \in DOMAIN tree <=> \E i : lasting(i, p, applied)
         /\ p \in DOMAIN tree =>
              lasting(tree[p], p, applied) /\ \A i : lasting(i, p, applied) => i <= tree[p]

OverlayInv == LayersAre /\ TreeIs

\* What a layer brings and hides, entry by entry.
LEMMA LayerSays ==
  ASSUME NEW i, layers[i] \in Seq(Entries), NEW p
  PROVE  /\ brings(i, p) <=> brought(layers[i], p)
         /\ hides(i, p) <=> \E k \in 1..Len(layers[i]) : removes(layers[i][k], p)
<1> DEFINE layer == layers[i]
<1>1. layer \in Seq(Entries) /\ DOMAIN layer = 1..Len(layer)
  OBVIOUS
<1>2. ToSet(layer) = {layer[k] : k \in 1..Len(layer)}
  BY <1>1 DEF ToSet
<1>3. \A e \in Entries :
        e = [kind |-> "regular", path |-> p] <=> e.kind = "regular" /\ e.path = p
  BY DEF Entries
<1>4. \A k \in 1..Len(layer) : layer[k] \in Entries
  BY <1>1
<1>5. brings(i, p) <=> \E k \in 1..Len(layer) : layer[k] = [kind |-> "regular", path |-> p]
  BY <1>2 DEF brings
<1>6. hides(i, p) <=> \E e \in {layer[k] : k \in 1..Len(layer)} : removes(e, p)
  BY <1>2 DEF hides, removes
<1> QED
  BY <1>3, <1>4, <1>5, <1>6 DEF brought

LEMMA OverlayInvInit == LayersInit => OverlayInv
<1> SUFFICES ASSUME LayersInit PROVE OverlayInv
  OBVIOUS
<1>1. layers = <<>> /\ pending = <<>> /\ DOMAIN tree = {}
  BY DEF LayersInit, Nothing
<1>2. Len(layers) = 0 /\ Len(pending) = 0 /\ 1..0 = {} /\ <<>> \in Seq(Seq(Entries))
  BY <1>1
<1>3. LayersAre
  BY <1>1, <1>2 DEF LayersAre
<1>4. TreeIs
  BY <1>1, <1>2 DEF TreeIs, lasting, applied
<1> QED
  BY <1>3, <1>4 DEF OverlayInv

\* A layer is read before any is applied (loader.go:86-113).
LEMMA ReadStep ==
  ASSUME OverlayInv, ReadLayer
  PROVE  OverlayInv'
<1>1. PICK tar \in Tars : layers' = Append(layers, layerFromTar(tar))
  BY DEF ReadLayer
<1>2. pending = layers /\ pending' = layers' /\ tree' = tree
  BY DEF ReadLayer
<1>3. tar \in Seq(Entries)
  <2>1. PICK n \in 0..2 : tar \in [1..n -> Entries]
    BY DEF Tars
  <2>2. n \in Nat
    OBVIOUS
  <2> QED
    BY <2>1, <2>2
<1>4. layerFromTar(tar) \in Seq(Entries)
  BY <1>3, LayerOfTar
<1>5. layers \in Seq(Seq(Entries)) /\ layers' \in Seq(Seq(Entries))
  BY <1>1, <1>4 DEF OverlayInv, LayersAre
<1>6. applied = 0 /\ applied' = 0 /\ Len(layers') \in Nat
  BY <1>2, <1>5 DEF applied
<1>7. LayersAre'
  BY <1>2, <1>5, <1>6 DEF LayersAre
<1>8. 1..0 = {}
  OBVIOUS
<1>9. \A i, p : ~lasting(i, p, 0) /\ ~lasting(i, p, 0)'
  BY <1>8 DEF lasting
<1>10. \A p : p \notin DOMAIN tree
  BY <1>6, <1>9 DEF OverlayInv, TreeIs
<1>11. TreeIs'
  BY <1>2, <1>6, <1>9, <1>10 DEF TreeIs
<1> QED
  BY <1>7, <1>11 DEF OverlayInv

\* The next layer is laid over those applied (oci.go:97-128).
LEMMA ApplyStep ==
  ASSUME OverlayInv, ApplyLayer
  PROVE  OverlayInv'
<1> DEFINE m == applied + 1
           layer == layers[m]
<1>1. /\ layers \in Seq(Seq(Entries)) /\ pending \in Seq(Seq(Entries)) /\ pending # <<>>
      /\ Len(layers) \in Nat /\ Len(pending) \in Nat \ {0} /\ Len(pending) <= Len(layers)
      /\ \A k \in 1..Len(pending) : pending[k] = layers[applied + k]
  BY DEF OverlayInv, LayersAre, ApplyLayer
<1>2. layers' = layers /\ pending' = Tail(pending)
  BY DEF ApplyLayer
<1>3. applied \in Nat /\ m \in 1..Len(layers) /\ Head(pending) = layer /\ layer \in Seq(Entries)
  BY <1>1 DEF applied
<1>4. tree' = apply(tree, layer, m)
  BY <1>1, <1>3 DEF ApplyLayer, applied
<1>5. applied' = m
  BY <1>1, <1>2 DEF applied
<1>6. LayersAre'
  <2>1. /\ pending' \in Seq(Seq(Entries)) /\ Len(pending') = Len(pending) - 1
        /\ \A k \in 1..Len(pending') : pending'[k] = pending[k + 1] /\ k + 1 \in 1..Len(pending)
    BY <1>1, <1>2
  <2>2. \A k \in 1..Len(pending') : pending'[k] = layers'[applied' + k]
    <3> SUFFICES ASSUME NEW k \in 1..Len(pending') PROVE pending'[k] = layers'[applied' + k]
      OBVIOUS
    <3>1. pending'[k] = layers[applied + (k + 1)]
      BY <1>1, <2>1
    <3>2. applied + (k + 1) = applied' + k
      BY <1>3, <1>5, <2>1, <1>1
    <3> QED
      BY <3>1, <3>2, <1>2
  <2>3. Len(pending') <= Len(layers')
    BY <1>1, <1>2, <2>1
  <2> QED
    BY <1>1, <1>2, <2>1, <2>2, <2>3 DEF LayersAre
<1> HIDE DEF m, layer
<1>7. Len(layer) \in Nat
  BY <1>3
<1>8. /\ \A p : p \in DOMAIN tree' <=>
                  (p \in DOMAIN tree /\ \A k \in 1..Len(layer) : ~removes(layer[k], p)) \/ brought(layer, p)
      /\ \A p \in DOMAIN tree' : tree'[p] = IF brought(layer, p) THEN m ELSE tree[p]
  BY <1>4, <1>7, LayerIsApplied
<1>9. \A p : /\ brings(m, p) <=> brought(layer, p)
             /\ hides(m, p) <=> \E k \in 1..Len(layer) : removes(layer[k], p)
  BY <1>3, LayerSays DEF layer
<1>10. /\ \A p : p \in DOMAIN tree' <=> (p \in DOMAIN tree /\ ~hides(m, p)) \/ brings(m, p)
       /\ \A p \in DOMAIN tree' : tree'[p] = IF brings(m, p) THEN m ELSE tree[p]
  BY <1>8, <1>9
<1>11. \A i, p : lasting(i, p, m) <=>
                   (lasting(i, p, applied) /\ ~hides(m, p)) \/ (i = m /\ brings(m, p))
  <2> SUFFICES ASSUME NEW i, NEW p
               PROVE  lasting(i, p, m) <=>
                        (lasting(i, p, applied) /\ ~hides(m, p)) \/ (i = m /\ brings(m, p))
    OBVIOUS
  <2>1. /\ i \in 1..m <=> i \in 1..applied \/ i = m
        /\ i = m => i \notin 1..applied
        /\ m + 1..m = {}
    BY <1>3 DEF m
  <2>2. i \in 1..applied => \A j : j \in i + 1..m <=> j \in i + 1..applied \/ j = m
    BY <1>3 DEF m
  <2> QED
    BY <2>1, <2>2 DEF lasting
<1>12. \A i, p : lasting(i, p, applied) => i <= m
  BY <1>3 DEF lasting, m
<1>13. \A p : /\ p \in DOMAIN tree' <=> \E i : lasting(i, p, m)
              /\ p \in DOMAIN tree' =>
                   lasting(tree'[p], p, m) /\ \A i : lasting(i, p, m) => i <= tree'[p]
  <2> SUFFICES ASSUME NEW p
               PROVE  /\ p \in DOMAIN tree' <=> \E i : lasting(i, p, m)
                      /\ p \in DOMAIN tree' =>
                           lasting(tree'[p], p, m) /\ \A i : lasting(i, p, m) => i <= tree'[p]
    OBVIOUS
  <2>1. /\ p \in DOMAIN tree <=> \E i : lasting(i, p, applied)
        /\ p \in DOMAIN tree =>
             lasting(tree[p], p, applied) /\ \A i : lasting(i, p, applied) => i <= tree[p]
    BY DEF OverlayInv, TreeIs
  <2>2. m <= m
    BY <1>3 DEF m
  <2>3. CASE brings(m, p)
    BY <2>3, <2>2, <1>10, <1>11, <1>12
  <2>4. CASE ~brings(m, p)
    BY <2>4, <2>1, <1>10, <1>11
  <2> QED
    BY <2>3, <2>4
<1>14. TreeIs'
  BY <1>2, <1>5, <1>13 DEF TreeIs, lasting, brings, hides
<1> QED
  BY <1>6, <1>14 DEF OverlayInv

\* oci.go:55-56: when every layer was applied, the tree is the union of the layers with
\* the whiteouts of each applied to those below it, whatever they hold.
THEOREM TreesAreOverlays == LayersSpec => []TreeIsOverlay
<1>1. OverlayInv /\ [LayersNext]_layerVars => OverlayInv'
  <2> SUFFICES ASSUME OverlayInv, [LayersNext]_layerVars PROVE OverlayInv'
    OBVIOUS
  <2>1. CASE UNCHANGED layerVars
    BY <2>1 DEF layerVars, OverlayInv, LayersAre, TreeIs, lasting, applied, brings, hides
  <2> QED
    BY <2>1, ReadStep, ApplyStep DEF LayersNext
<1>2. OverlayInv => TreeIsOverlay
  <2> SUFFICES ASSUME OverlayInv, pending = <<>>, NEW p \in Paths
               PROVE  LET seen == {i \in DOMAIN layers :
                                     brings(i, p) /\ \A j \in i + 1 .. Len(layers) : ~hides(j, p)}
                      IN  /\ p \in DOMAIN tree <=> seen # {}
                          /\ p \in DOMAIN tree => tree[p] \in seen /\ \A i \in seen : i <= tree[p]
    BY DEF TreeIsOverlay
  <2>1. applied = Len(layers) /\ DOMAIN layers = 1..Len(layers)
    BY DEF OverlayInv, LayersAre, applied
  <2> DEFINE seen == {i \in DOMAIN layers :
                        brings(i, p) /\ \A j \in i + 1 .. Len(layers) : ~hides(j, p)}
  <2>2. \A i : i \in seen <=> lasting(i, p, applied)
    BY <2>1 DEF lasting
  <2> HIDE DEF seen
  <2>3. /\ p \in DOMAIN tree <=> \E i : lasting(i, p, applied)
        /\ p \in DOMAIN tree =>
             lasting(tree[p], p, applied) /\ \A i : lasting(i, p, applied) => i <= tree[p]
    BY DEF OverlayInv, TreeIs
  <2>4. /\ p \in DOMAIN tree <=> seen # {}
        /\ p \in DOMAIN tree => tree[p] \in seen /\ \A i \in seen : i <= tree[p]
    BY <2>2, <2>3
  <2> QED
    BY <2>4 DEF seen
<1> QED
  BY <1>1, <1>2, OverlayInvInit, PTL DEF LayersSpec

=============================================================================
