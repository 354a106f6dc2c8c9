---------------------------- MODULE IdentityRisks ----------------------------
(***************************************************************************)
(* `dsecrat rbac <path>`: the export is read file by file into a cluster   *)
(* (LoadPath), and either every check of internal/rbac runs over it        *)
(* (checkAll) and the exit code follows from the gravest risk, or the      *)
(* query of --who-can is answered.                                         *)
(***************************************************************************)
EXTENDS PermissionGraph, Integers, Sequences, FiniteSets

CONSTANTS
  Exports,        \* what a path holds, in the order of the walk: files, and
                  \* directories that cannot be listed
  Invocations,    \* the flags of a command: directory, nhi, now, failOn, who
  MaxFiles        \* maxFiles of the walk

VARIABLES
  command,        \* the flags
  files, taken,   \* files still to be walked; files taken
  sas, pods, hosts,
  phase,          \* "load", "analyze", "failed", "done" or "answered"
  report,         \* the risks, or the subjects of an answer
  exit

cluster == <<roles, bindings, sas, pods, hosts>>
identityVars == <<command, files, taken, cluster, phase, report, exit>>

(***************************************************************************)
(*                              Loading                                    *)
(***************************************************************************)
put(f, k, v) == [x \in DOMAIN f \cup {k} |-> IF x = k THEN v ELSE f[x]]

\* An object of an export, by its kind; of a ServiceAccount also the annotations of
\* a cloud's workload identity and the descriptor that may override them.
NoCloud == [bound |-> FALSE, provider |-> "", role |-> "", privilege |-> "", trustAny |-> FALSE]
anObject(o) ==
  CASE o.kind = "Role"    -> DOMAIN o = {"kind", "key", "rules"} /\ \A r \in o.rules : aRule(r)
    [] o.kind = "Binding" -> DOMAIN o = {"kind", "binding"} /\ aBinding(o.binding)
    [] o.kind = "Pod"     -> DOMAIN o = {"kind", "ns", "name", "sa"}
    [] o.kind = "ServiceAccount" ->
         /\ DOMAIN o = {"kind", "ns", "name", "automounts", "lastUsed", "annotations", "cloud"}
         /\ o.automounts \in BOOLEAN /\ o.lastUsed \in Nat /\ o.annotations \subseteq {"aws", "gcp", "azure"}
         /\ DOMAIN o.cloud = DOMAIN NoCloud /\ {o.cloud.bound, o.cloud.trustAny} \subseteq BOOLEAN
    [] o.kind = "DockerHost" ->
         DOMAIN o = {"kind", "host"} /\ DOMAIN o.host = {"name", "members", "rootless", "sockets"}
    [] OTHER -> TRUE

\* The workload-identity annotation of the first provider that has one; an
\* explicit descriptor overrides what it names.
by(provider, role) == [NoCloud EXCEPT !.bound = TRUE, !.provider = provider, !.role = role]
annotated(o) ==
  CASE "aws" \in o.annotations -> by("aws", "arn")
    [] "gcp" \in o.annotations -> by("gcp", "mail")
    [] "azure" \in o.annotations -> by("azure", "client")
    [] OTHER -> NoCloud
cloudIdentity(o) ==
  LET ann == annotated(o)
      given(field) == IF o.cloud[field] # "" THEN o.cloud[field] ELSE ann[field]
  IN  IF ~o.cloud.bound THEN ann
      ELSE [o.cloud EXCEPT !.provider = given("provider"), !.role = given("role")]

Cluster == [roles |-> roles, bindings |-> bindings, sas |-> sas, pods |-> pods, hosts |-> hosts]

\* A role or ServiceAccount replaces the one of its name; kinds that are not
\* modelled, and items that do not parse, are passed over.
dispatch(c, o) ==
  CASE o.kind = "Role"           -> [c EXCEPT !.roles = put(@, o.key, o.rules)]
    [] o.kind = "Binding"        -> [c EXCEPT !.bindings = @ \cup {o.binding}]
    [] o.kind = "ServiceAccount" -> [c EXCEPT !.sas = put(@, <<o.ns, o.name>>,
           [automounts |-> o.automounts, lastUsed |-> o.lastUsed, cloud |-> cloudIdentity(o)])]
    [] o.kind = "Pod"            -> [c EXCEPT !.pods = @ \cup {[ns |-> o.ns, name |-> o.name, sa |-> o.sa]}]
    [] o.kind = "DockerHost"     -> [c EXCEPT !.hosts = @ \cup {o.host}]
    [] OTHER -> c

ingest(c, file) ==
  LET upTo[i \in 0 .. Len(file.items)] == IF i = 0 THEN c ELSE dispatch(upTo[i - 1], file.items[i])
  IN  upTo[Len(file.items)]

\* One file of the walk.  One that cannot be read, is too large or is no JSON is
\* skipped in a directory and fails the command otherwise.
LoadFile ==
  /\ phase = "load" /\ files # <<>> /\ Head(files).is # "unlisted" /\ taken < MaxFiles
  /\ LET f == Head(files)
         c == IF f.is = "json" THEN ingest(Cluster, f) ELSE Cluster
         goesOn == f.is = "json" \/ command.directory
     IN  /\ roles' = c.roles /\ bindings' = c.bindings
         /\ sas' = c.sas /\ pods' = c.pods /\ hosts' = c.hosts
         /\ phase' = IF goesOn THEN "load" ELSE "failed"
         /\ exit' = IF goesOn THEN exit ELSE 1
  /\ files' = Tail(files) /\ taken' = taken + 1
  /\ UNCHANGED <<command, report>>

\* A directory that cannot be listed ends the walk, and with it the command.
WalkFails ==
  /\ phase = "load" /\ files # <<>> /\ Head(files).is = "unlisted"
  /\ phase' = "failed" /\ exit' = 1
  /\ UNCHANGED <<command, files, taken, cluster, report>>

Loaded ==
  /\ phase = "load"
  /\ IF files = <<>> THEN TRUE ELSE taken = MaxFiles /\ Head(files).is # "unlisted"
  /\ phase' = "analyze"
  /\ UNCHANGED <<command, files, taken, cluster, report, exit>>

(***************************************************************************)
(*                          Checks of roles and grants                     *)
(***************************************************************************)
Info == 1
Low == 2
Medium == 3
High == 4
Critical == 5
Risk(rule, sev, subject, resource, detail) ==
  [rule |-> rule, severity |-> sev, subject |-> subject, resource |-> resource, detail |-> detail]

Nobody == [kind |-> "", ns |-> "", name |-> ""]

\* Risks of one rule, subject, role name and title are one, whatever the scope of
\* their grants (dedupe); so is a Role and a ClusterRole of one name.
roleName(r) == r[Len(r)]
subjectRisk(g, rule, sev, why) == Risk(rule, sev, g.subject, roleName(g.role), why)

\* Two starred dimensions make it High.
dimensions(r) ==
  {d \in {"verbs", "resources", "apiGroups"} :
     Star \in (CASE d = "verbs" -> r.verbs [] d = "resources" -> r.resources [] OTHER -> r.groups)}
wildcardSeverity(dims) == IF Cardinality(dims) >= 2 THEN High ELSE Medium
checkWildcards ==
  {Risk("001", wildcardSeverity(dimensions(x[2])), Nobody, x[1], x[2]) :
     x \in {y \in UNION {{k} \X roles[k] : k \in DOMAIN roles} : dimensions(y[2]) # {}}}

riskyVerbs == [escalate |-> "003", bind |-> "004", impersonate |-> "005"]
checkRiskyVerbs ==
  {subjectRisk(x[1], riskyVerbs[x[2]], High, x[2]) :
     x \in {y \in grants \X DOMAIN riskyVerbs : \E r \in roles[y[1].role] : contains(r.verbs, y[2])}}

\* Variant: a starred resource is none of the resources by name.
resourceMatchesByName(r, resource) == resource \in r.resources

\* Exact names, "*" included: "pods" does not stand for "pods/exec".
resourceMatches(r, resource) == {Star, resource} \cap r.resources # {}
anyVerb(r, verbs) == \E v \in verbs : contains(r.verbs, v)

verbResourceCheck(rule, sev, verbs, resource) ==
  {subjectRisk(g, rule, sev, resource) :
     g \in {h \in grants : \E r \in roles[h.role] : resourceMatches(r, resource) /\ anyVerb(r, verbs)}}

checkClusterAdmin ==
  {subjectRisk(g, "002", Critical, "admin") :
     g \in {h \in grants : h.role = ClusterRole("cluster-admin") \/ h.subject = Masters}}

checkSecretReaders == verbResourceCheck("006", High, {"get", "list", "watch"}, "secrets")
checkExec == UNION {verbResourceCheck("007", High, {"create", Star}, x) : x \in {"pods/exec", "pods/attach"}}
checkProxyAndNodes ==
  UNION {verbResourceCheck("008", High, {"get", "create", Star}, x) :
           x \in {"nodes/proxy", "pods/proxy", "services/proxy", "nodes"}}
checkTokenMint ==
  UNION {verbResourceCheck("009", High, {"create", Star}, x) : x \in {"serviceaccounts/token", "tokenrequests"}}
checkCSRSigning ==
  verbResourceCheck("010", High, {"create", Star}, CSRs)
  \cup verbResourceCheck("010", High, {"update", Star}, Approval)
  \cup verbResourceCheck("010", High, {"create", Star}, "signers")
checkWorkloadCreation ==
  UNION {verbResourceCheck("013", Medium, {"create", Star}, x) : x \in Workloads \cup {"replicasets", "cronjobs"}}

Everyone == {"system:authenticated", "system:anonymous", "system:unauthenticated", Star}
checkBroadSubjects ==
  {subjectRisk(g, "019", High, g.subject.name) :
     g \in {h \in grants : h.subject.kind = "Group" /\ h.subject.name \in Everyone}}

checkDangling == {Risk("011", Low, Nobody, b, "dangling") : b \in bindings \ resolved}

(***************************************************************************)
(*                    Identities, clouds and docker hosts                  *)
(***************************************************************************)
effectiveSA(p) == ServiceAccount(p.ns, IF p.sa = "" THEN "default" ELSE p.sa)
account(k) == ServiceAccount(k[1], k[2])

checkDefaultSA ==
  {Risk("012", Medium, Nobody, <<p.ns, p.name>>, "default") : p \in {q \in pods : effectiveSA(q).name = "default"}}
  \cup {Risk("012", Low, Nobody, k, "automounts") :
          k \in {j \in DOMAIN sas : j[2] # "default" /\ sas[j].automounts}}

privilegedRole(priv) == priv \in {"admin", "power", "write"}
checkCloudIAM ==
  LET risk(k, rule, sev) == Risk(rule, sev, account(k), sas[k].cloud.role, sas[k].cloud.provider)
      federated == {k \in DOMAIN sas : sas[k].cloud.bound}
  IN  {risk(k, "030", IF sas[k].cloud.privilege = "admin" THEN Critical ELSE High) :
         k \in {j \in federated : privilegedRole(sas[j].cloud.privilege)}}
      \cup {risk(k, "031", High) : k \in {j \in federated : sas[j].cloud.trustAny}}
      \cup {risk(k, "032", High) : k \in {j \in federated : j[2] = "default"}}

checkDockerHosts ==
  UNION {{Risk("015", High, [kind |-> "User", ns |-> "", name |-> u], h.name, "docker group") : u \in h.members}
         \cup {Risk("016", Critical, Nobody, x, "socket") : x \in h.sockets}
         \cup (IF h.rootless THEN {} ELSE {Risk("017", Info, Nobody, h.name, "root")}) : h \in hosts}

(***************************************************************************)
(*                  Escalation paths and blast radius                      *)
(***************************************************************************)
\* What the two searches of EscalationSearch reach from s.
reach(s) ==
  LET within[k \in 0 .. Cardinality(granted)] ==
        IF k = 0 THEN {s}
        ELSE within[k - 1] \cup UNION {steps(n) \ {Admin, Node} : n \in within[k - 1]}
  IN  within[Cardinality(granted)]
targets(s) == (UNION {steps(n) : n \in reach(s)}) \cap {Admin, Node}

\* Every pod starts as the ServiceAccount it runs as; of the others, those bound
\* to a role.
starts ==
  {[origin |-> <<p.ns, p.name>>, subject |-> effectiveSA(p)] : p \in pods}
  \cup {[origin |-> <<s.ns, s.name>>, subject |-> s] :
          s \in serviceAccountSubjectKeys \ {effectiveSA(p) : p \in pods}}

checkEscalationPaths ==
  {Risk("014", Critical, x.subject, "target", x.origin) : x \in {y \in starts : targets(y.subject) # {}}}

DormantAfter == 1
BroadThreshold == 3

\* Without a clock "now" is the epoch, and no identity is dormant.
dormant(s) ==
  LET k == <<s.ns, s.name>>
  IN  k \in DOMAIN sas /\ sas[k].lastUsed > 0 /\ command.now - sas[k].lastUsed > DormantAfter

\* scoreIdentity: the others it can become, and one more for a target.
reachCount(s) == Cardinality(reach(s) \ {s}) + (IF targets(s) # {} THEN 1 ELSE 0)

checkNHI ==
  {Risk("018",
        CASE dormant(s) -> High
          [] Admin \in targets(s) -> Critical
          [] Node \in targets(s) -> High
          [] OTHER -> Medium,
        s, "", IF dormant(s) THEN "dormant" ELSE "broad") :
     s \in {x \in serviceAccountSubjectKeys : targets(x) # {} \/ reachCount(x) >= BroadThreshold}}

checkAll ==
  checkWildcards \cup checkRiskyVerbs \cup checkClusterAdmin \cup checkSecretReaders \cup checkExec
  \cup checkProxyAndNodes \cup checkTokenMint \cup checkCSRSigning \cup checkWorkloadCreation
  \cup checkBroadSubjects \cup checkDangling \cup checkDefaultSA \cup checkCloudIAM
  \cup checkDockerHosts \cup checkEscalationPaths \cup (IF command.nhi THEN checkNHI ELSE {})

Highest(risks) == IF risks = {} THEN 0 ELSE CHOOSE s \in 1 .. 5 : (\E r \in risks : r.severity = s)
                                             /\ \A r \in risks : r.severity <= s

\* Analyze and the end of the command.
Analyze ==
  /\ phase = "analyze" /\ command.who = <<>>
  /\ report' = checkAll
  /\ exit' = IF command.failOn > 0 /\ Highest(report') >= command.failOn THEN 1 ELSE 0
  /\ phase' = "done"
  /\ UNCHANGED <<command, files, taken, cluster>>

\* "verb:resource[:namespace]"; what precedes a slash of the resource is taken for
\* its group.
parseWhoCan(parts) ==
  [verb |-> parts[1], ns |-> IF Len(parts) = 3 THEN parts[3] ELSE Everywhere,
   group |-> IF Len(parts[2]) = 1 THEN "" ELSE parts[2][1], resource |-> parts[2][Len(parts[2])]]

\* --who-can, which leaves the risks and --fail-on aside.
runWhoCan ==
  /\ phase = "analyze" /\ command.who # <<>>
  /\ IF Len(command.who) \in 2 .. 3 /\ "" \notin {command.who[1], command.who[2][Len(command.who[2])]}
     THEN LET q == parseWhoCan(command.who)
          IN  report' = WhoCan(q.verb, q.group, q.resource, q.ns) /\ exit' = 0
     ELSE report' = {} /\ exit' = 2
  /\ phase' = "answered"
  /\ UNCHANGED <<command, files, taken, cluster>>

-----------------------------------------------------------------------------
IdentityInit ==
  /\ command \in Invocations /\ files \in Exports
  /\ ~command.directory => Len(files) = 1 /\ files[1].is # "unlisted"
  /\ taken = 0 /\ phase = "load" /\ report = {} /\ exit = 0
  /\ roles = <<>> /\ bindings = {} /\ sas = <<>> /\ pods = {} /\ hosts = {}

IdentityNext == LoadFile \/ WalkFails \/ Loaded \/ Analyze \/ runWhoCan

IdentitySpec == IdentityInit /\ [][IdentityNext]_identityVars

(***************************************************************************)
(*                               Properties                                *)
(***************************************************************************)
Primitives == {"002", "003", "004", "005", "006", "008", "009", "010", "013"}

\* A hop that rests on more than a path: who may `get` every path counts as one who
\* reads every Secret (graph.go:168-170), and no check of a grant looks at paths.
hops(n) ==
  LET perms == {p \in SubjectPermissions(n) : p.group # "nonResourceURL"}
  IN  steals(n, perms) # {} \/ becomesAdmin(n, perms) \/ becomesNode(perms)

\* escalation.go:146 tells the reader of a path to "remove the escalation
\* primitive named in the first hop": each hop of a path is one the per-grant
\* checks report too, for the identity that takes it, so that no path appears
\* whose remedy the report does not name.
HopsAreReported ==
  phase = "done" =>
    \A r \in {x \in report : x.rule = "014"} : \A n \in reach(r.subject) :
      hops(n) => \E x \in report : x.subject = n /\ x.rule \in Primitives
=============================================================================
