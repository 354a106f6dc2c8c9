-------------------------- MODULE EscalationSearch --------------------------
(***************************************************************************)
(* The two searches of internal/rbac through the graph of escalation       *)
(* steps: bfsToTarget, which stops at the first target it meets and tells  *)
(* the way there, and scoreIdentity, which goes on and counts all it can   *)
(* become.  A step of the search expands one principal.  The graph is      *)
(* arbitrary first, and then the permission graph of a cluster             *)
(* (PermissionGraph).                                                      *)
(***************************************************************************)
EXTENDS PermissionGraph, Naturals, Sequences, FiniteSets

CONSTANT Principals  \* subjects bound to a role

\* No target found.
None == "none"

ASSUME SearchAssumption ==
  IsFiniteSet(Principals) /\ Principals \cap {Admin, Node} = {} /\ Admin # Node /\ None \notin {Admin, Node}

VARIABLES
  edges,    \* principal -> principals and targets one step away
  start,    \* where the search begins
  scoring,  \* scoreIdentity rather than bfsToTarget
  visited, queue,
  trail,    \* visited principal -> the way to it, both ends included
  found,    \* the target, or None
  done

searchVars == <<edges, start, scoring, visited, queue, trail, found, done>>

Targets == {Admin, Node}
Graphs == [Principals -> SUBSET (Principals \cup Targets)]

Begin(s, score) ==
  /\ start = s /\ scoring = score
  /\ visited = {s} /\ queue = <<s>> /\ trail = [n \in {s} |-> <<s>>]
  /\ found = None /\ done = FALSE

SearchInit == edges \in Graphs /\ \E s \in Principals, score \in BOOLEAN : Begin(s, score)

ends(n) == edges[n] \cap Targets

\* Variant: the score, too, looks no further than a principal with a target.
freshUnlessArrived(n) == IF edges[n] \cap Targets = {} THEN edges[n] \ visited ELSE {}

fresh(n) == edges[n] \ (visited \cup Targets)

\* Edges are sorted, and "target:cluster-admin" precedes "target:node-root".
foremost(targets) == IF Admin \in targets THEN Admin ELSE Node

\* The sorted order of fresh principals is one of these.
orders(S) == {o \in [1 .. Cardinality(S) -> S] : {o[i] : i \in DOMAIN o} = S}

spread(cur) ==
  /\ \E new \in orders(fresh(cur)) : queue' = Tail(queue) \o new
  /\ visited' = visited \cup fresh(cur)
  /\ trail' = [n \in visited \cup fresh(cur) |->
                 IF n \in visited THEN trail[n] ELSE Append(trail[cur], n)]

\* bfsToTarget returns at the first edge to a target; the way is trail[Head(queue)].
Arrive ==
  /\ ~done /\ queue # <<>> /\ ~scoring /\ ends(Head(queue)) # {}
  /\ found' = foremost(ends(Head(queue))) /\ done' = TRUE
  /\ UNCHANGED <<edges, start, scoring, visited, queue, trail>>

Spread ==
  /\ ~done /\ queue # <<>> /\ ~scoring /\ ends(Head(queue)) = {}
  /\ spread(Head(queue))
  /\ UNCHANGED <<edges, start, scoring, found, done>>

\* scoreIdentity notes a target, cluster-admin over node-root, and goes on.
Score ==
  /\ ~done /\ queue # <<>> /\ scoring
  /\ LET t == ends(Head(queue))
     IN  found' = IF t # {} /\ (found = None \/ Admin \in t) THEN foremost(t) ELSE found
  /\ spread(Head(queue))
  /\ UNCHANGED <<edges, start, scoring, done>>

GiveUp ==
  /\ ~done /\ queue = <<>>
  /\ done' = TRUE
  /\ UNCHANGED <<edges, start, scoring, visited, queue, trail, found>>

SearchNext == Arrive \/ Spread \/ Score \/ GiveUp

SearchSpec == SearchInit /\ [][SearchNext]_searchVars

(***************************************************************************)
(*                               Properties                                *)
(***************************************************************************)
\* Every variable keeps its type.
SearchTypeOK ==
  /\ edges \in Graphs /\ start \in Principals /\ scoring \in BOOLEAN
  /\ visited \subseteq Principals /\ queue \in Seq(Principals)
  /\ trail \in [visited -> Seq(Principals)]
  /\ found \in Targets \cup {None} /\ done \in BOOLEAN

\* A walk from the start to n, each step of which is an edge.
isWalk(w, n) ==
  /\ w # <<>> /\ w[1] = start /\ w[Len(w)] = n
  /\ \A i \in 1 .. Len(w) - 1 : w[i + 1] \in edges[w[i]]

\* escalation.go:17-19: "a reported path is a real path": each hop is an edge, and
\* the last principal has one to the target.
PathIsReal ==
  done /\ found # None /\ ~scoring =>
    isWalk(trail[Head(queue)], Head(queue)) /\ found \in edges[Head(queue)]

\* A search that ends without a target has proof that there is none: a set that
\* holds the start, that no edge leaves and from which none leads to a target.
NoPathIsCertain ==
  done /\ found = None =>
    start \in visited /\ \A n \in visited : edges[n] \subseteq visited

(***************************************************************************)
(* The search of a cluster: a behaviour searches the permission graph of   *)
(* one cluster from one ServiceAccount.                                    *)
(***************************************************************************)
CONSTANTS
  Rules,        \* role -> its rules
  Roster,       \* the bindings a cluster may have
  MaxBindings   \* bound: bindings of a cluster

ASSUME RosterAssumption == \A b \in Roster : b.subjects \subseteq Principals

rbacVars == <<roles, bindings, searchVars>>

ServiceAccounts == {s \in Principals : s.kind = "ServiceAccount"}

buildEscalationEdges == [s \in Principals |-> steps(s)]

\* Pods and ServiceAccounts are where an attack starts.
RBACInit ==
  /\ roles = Rules
  /\ bindings \in {B \in SUBSET Roster : Cardinality(B) <= MaxBindings}
  /\ edges = buildEscalationEdges
  /\ \E s \in ServiceAccounts, score \in BOOLEAN : Begin(s, score)

RBACNext == SearchNext /\ UNCHANGED <<roles, bindings>>

RBACSpec == RBACInit /\ [][RBACNext]_rbacVars

\* The principals at most k steps from the start.
within[k \in 0 .. Cardinality(Principals)] ==
  IF k = 0 THEN {start}
  ELSE within[k - 1] \cup UNION {edges[n] \cap Principals : n \in within[k - 1]}

\* graph.go:60 and escalation.go:16: both searches are exact.  The path search
\* (bfsToTarget) finds a target if and only if a walk leads to one, by a walk
\* that is one and no longer than any; the score (scoreIdentity, "so the two
\* stay consistent") counts exactly what walks reach, cluster-admin first.
SearchIsExact ==
  /\ PathIsReal /\ NoPathIsCertain
  /\ done =>
       LET reach == within[Cardinality(Principals) - 1]
           leads(S) == \E n \in S : edges[n] \cap Targets # {}
           way == trail[Head(queue)]
       IN  /\ (found = None) <=> ~leads(reach)
           /\ scoring => visited = reach /\ ((found = Admin) <=> \E n \in reach : Admin \in edges[n])
           /\ ~scoring /\ found # None /\ Len(way) > 1 => ~leads(within[Len(way) - 2])

\* What the bindings permit, read off them: graph.go:13-16 "a namespaced
\* RoleBinding to a ClusterRole grants only within that namespace".
permitted(s, verb, group, resource, ns) ==
  \E b \in bindings :
     /\ s \in b.subjects /\ (b.clusterScoped \/ b.ns = ns) /\ resolveRole(b) \in DOMAIN roles
     /\ \E r \in roles[resolveRole(b)] : ruleMatches(r, verb, group, resource)

readsSecrets(s, ns) == \E v \in {"get", "list", "watch"} : permitted(s, v, "", "secrets", ns)
mintsTokens(s, ns) == permitted(s, "create", "", "serviceaccounts/token", ns)

\* Rules over every resource of a group other than core, which the search takes
\* for rules over secrets.
holdsForeignStar(s) ==
  \E p \in SubjectPermissions(s) : p.group \notin {"", Star} /\ p.resource = Star

\* escalation.go:93-96: a hop to another identity is one that the bindings
\* permit where that identity lives, and no identity whose secrets can be read
\* is missed; "who can" names exactly those who may.
TheftIsPermitted ==
  queue = <<start>> /\ ~done =>
    \A s \in Principals, o \in ServiceAccounts \cap granted :
      /\ s \in WhoCan("get", "", "secrets", o.ns) <=> permitted(s, "get", "", "secrets", o.ns)
      /\ o \in edges[s] /\ ~holdsForeignStar(s) => readsSecrets(s, o.ns) \/ mintsTokens(s, o.ns)
      /\ readsSecrets(s, o.ns) /\ o # s => o \in edges[s]

\* escalation.go:16, 251: a path is found, and counted in a score, if and only if
\* one leads there, and the steps of stealing a token are those the grants permit.
PathsAreExact == SearchIsExact /\ TheftIsPermitted

\* What an API server makes of names: a RoleBinding and a ServiceAccount have a
\* namespace, Secrets and tokens are resources of the core group, and a path is
\* the name of none.
NamesAreKubernetes ==
  /\ \A b \in Roster : b.clusterScoped \in BOOLEAN /\ (~b.clusterScoped => b.ns # Everywhere)
  /\ \A s \in ServiceAccounts : s.ns # Everywhere
  /\ \A role \in DOMAIN Rules : \A r \in Rules[role] :
       /\ {"secrets", "serviceaccounts/token"} \cap r.resources # {} => contains(defaulted(r.groups), "")
       /\ "tokenrequests" \notin r.resources
       /\ r.urls \cap {"secrets", "serviceaccounts/token", "tokenrequests"} = {}
=============================================================================
