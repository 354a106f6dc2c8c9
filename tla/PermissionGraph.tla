--------------------------- MODULE PermissionGraph ---------------------------
(***************************************************************************)
(* The permission graph of internal/rbac: bindings resolved to roles and   *)
(* scopes, the two directions it answers (SubjectPermissions and WhoCan),  *)
(* and the escalation steps a subject can take.  EscalationSearch searches *)
(* it; IdentityRisks reports on it.                                        *)
(***************************************************************************)
CONSTANTS
  Admin, Node   \* targetClusterAdmin and targetNodeRoot

VARIABLES
  roles,        \* role -> its rules
  bindings

ServiceAccount(ns, name) == [kind |-> "ServiceAccount", ns |-> ns, name |-> name]
Masters == [kind |-> "Group", ns |-> "", name |-> "system:masters"]

\* roleKey; the namespace of a cluster-scoped role or binding is Everywhere.
Everywhere == ""
Role(ns, name) == <<"Role", ns, name>>
ClusterRole(name) == <<"ClusterRole", name>>

Star == "*"
contains(set, want) == {Star, want} \cap set # {}

\* An absent list of a rule is a list of one empty string.
defaulted(xs) == IF xs = {} THEN {""} ELSE xs

\* A rule of a role, and a binding of subjects to a role; one that is not scoped to
\* the cluster has a namespace.
aRule(r) == DOMAIN r = {"verbs", "groups", "resources", "urls"}
aSubject(s) ==
  DOMAIN s = {"kind", "ns", "name"} /\ s.kind \in {"User", "Group", "ServiceAccount"}
aBinding(b) ==
  /\ DOMAIN b = {"clusterScoped", "ns", "kind", "role", "subjects"} /\ b.clusterScoped \in BOOLEAN
  /\ b.kind \in {"Role", "ClusterRole", ""} /\ (b.clusterScoped => b.ns = Everywhere)
  /\ \A s \in b.subjects : aSubject(s)

(***************************************************************************)
(*                           Bindings to grants                            *)
(***************************************************************************)
\* An omitted kind tries the namespaced role first.
resolveRole(b) ==
  CASE b.kind = "ClusterRole" -> ClusterRole(b.role)
    [] b.kind = "Role"        -> Role(b.ns, b.role)
    [] OTHER -> IF Role(b.ns, b.role) \in DOMAIN roles THEN Role(b.ns, b.role) ELSE ClusterRole(b.role)

\* A ClusterRoleBinding grants everywhere, a RoleBinding in its namespace, also
\* what a ClusterRole says.
grantScope(b) == IF b.clusterScoped THEN Everywhere ELSE b.ns

\* A binding to no known role dangles and grants nothing.
resolved == {b \in bindings : resolveRole(b) \in DOMAIN roles}
grants == UNION {{[subject |-> s, role |-> resolveRole(b), ns |-> grantScope(b)] : s \in b.subjects} : b \in resolved}

granted == {g.subject : g \in grants}
serviceAccountSubjectKeys == {s \in granted : s.kind = "ServiceAccount"}

expandRule(r, ns) ==
  {[verb |-> v, group |-> g, resource |-> x, ns |-> ns] :
     v \in r.verbs, g \in defaulted(r.groups), x \in defaulted(r.resources)}
  \cup {[verb |-> v, group |-> "nonResourceURL", resource |-> u, ns |-> ns] : v \in r.verbs, u \in r.urls}

SubjectPermissions(s) ==
  UNION {UNION {expandRule(r, g.ns) : r \in roles[g.role]} : g \in {h \in grants : h.subject = s}}

(***************************************************************************)
(*                        "Who can X on Y" queries                         *)
(***************************************************************************)
ruleMatches(r, verb, group, resource) ==
  contains(r.verbs, verb) /\ contains(defaulted(r.groups), group) /\ contains(defaulted(r.resources), resource)

WhoCan(verb, group, resource, ns) ==
  {g.subject : g \in {h \in grants :
     /\ ns # Everywhere /\ h.ns # Everywhere => h.ns = ns
     /\ \E r \in roles[h.role] : ruleMatches(r, verb, group, resource)}}

(***************************************************************************)
(*                            Escalation steps                             *)
(***************************************************************************)
boundToClusterAdmin(s) ==
  \E g \in grants : g.subject = s /\ (g.role = ClusterRole("cluster-admin") \/ s = Masters)

\* permIndex: exact membership, a "*" of a rule is only a "*" here.
has(perms, verbs, resources) == \E p \in perms : p.verb \in verbs /\ p.resource \in resources

CSRs == "certificatesigningrequests"
Approval == "certificatesigningrequests/approval"

becomesAdmin(s, perms) ==
  \/ boundToClusterAdmin(s)
  \/ has(perms, {"escalate"}, {"roles", "clusterroles", Star})
  \/ has(perms, {"bind"}, {"clusterroles", Star})
  \/ \E p \in perms : p.verb = "impersonate"
  \/ /\ has(perms, {"create", Star}, {CSRs})
     /\ has(perms, {"update", Star}, {Approval}) \/ has(perms, {Star}, {"signers"})

Workloads == {"pods", "deployments", "daemonsets", "statefulsets", "jobs"}

becomesNode(perms) ==
  \/ has(perms, {"create"}, Workloads) \/ has(perms, {Star}, {"pods"})
  \/ has(perms, {"get", Star}, {"nodes/proxy"}) \/ has(perms, {"get"}, {"nodes"})

isTheft(p) ==
  \/ p.verb \in {"get", "list", "watch", Star} /\ p.resource \in {"secrets", Star}
  \/ p.verb \in {"create", Star} /\ p.resource \in {"serviceaccounts/token", "tokenrequests"}

\* The namespaces whose identities can be taken, or Everywhere.
identityTheftScope(perms) == {p.ns : p \in {q \in perms : isTheft(q)}}

steals(s, perms) ==
  {o \in serviceAccountSubjectKeys :
     o # s /\ {Everywhere, o.ns} \cap identityTheftScope(perms) # {}}

steps(s) ==
  LET perms == SubjectPermissions(s)
  IN  steals(s, perms)
      \cup (IF becomesAdmin(s, perms) THEN {Admin} ELSE {})
      \cup (IF becomesNode(perms) THEN {Node} ELSE {})
=============================================================================
