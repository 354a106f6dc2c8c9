------------------------------ MODULE Analyses ------------------------------
(***************************************************************************)
(* What the program computes from what it is given: the order of package   *)
(* versions (VersionOrder), the escalation paths of an RBAC cluster        *)
(* (EscalationSearch), the risks `dsecrat rbac` reports of an export       *)
(* (IdentityRisks), the file tree of an image (OCILayers), the tree of a   *)
(* policy's condition (PolicyLanguage), the Merkle tree of a transparency  *)
(* log (TransparencyLog) and the assessments of Posture.  Nothing is       *)
(* shared; a behaviour runs one.                                           *)
(***************************************************************************)
EXTENDS EscalationSearch, IdentityRisks, OCILayers, TransparencyLog, Posture

CONSTANTS
  Schemes, MaxLen,                     \* VersionOrder
  MaxDepth, MaxGrown                   \* PolicyLanguage

VARIABLES
  part,                        \* "versions", "rbac", "identities", "layers", "rule", "log" or "posture"
  scheme, installed, verdict,  \* VersionOrder
  match, grown                 \* PolicyLanguage

versionVars == <<scheme, installed, verdict>>
exportVars == <<command, files, taken, sas, pods, hosts, phase, report, exit>>
languageVars == <<match, grown>>

Versions == INSTANCE VersionOrder
Language == INSTANCE PolicyLanguage

\* Clusters and exports are made of rules, bindings and objects of the shapes that
\* are decoded, with the names Kubernetes gives; a path holds files and directories
\* that cannot be listed.
ASSUME ExportAssumption ==
  /\ \A role \in DOMAIN Rules : \A r \in Rules[role] : aRule(r)
  /\ (\A bound \in Roster : aBinding(bound)) /\ NamesAreKubernetes
  /\ \A export \in Exports : \A i \in DOMAIN export :
       /\ export[i].is \in {"json", "unreadable", "unlisted"}
       /\ \A j \in DOMAIN export[i].items : anObject(export[i].items[j])

\* No cluster to search, and none to report on.
Idle ==
  /\ roles = <<>> /\ bindings = {} /\ edges = <<>> /\ start = None /\ scoring = FALSE
  /\ visited = {} /\ queue = <<>> /\ trail = <<>> /\ found = None /\ done = FALSE
NoExport ==
  /\ command = <<>> /\ files = <<>> /\ taken = 0 /\ sas = <<>> /\ pods = {} /\ hosts = {}
  /\ phase = "" /\ report = {} /\ exit = 0

AnalysesInit ==
  /\ part \in {"versions", "rbac", "identities", "layers", "rule", "log", "posture"}
  /\ IF part = "rbac" THEN RBACInit ELSE Idle
  /\ IF part = "versions" THEN Versions!Init ELSE scheme = "" /\ installed = <<>> /\ verdict = <<>>
  /\ IF part = "layers" THEN LayersInit ELSE layers = <<>> /\ pending = <<>> /\ tree = <<>>
  /\ IF part = "identities" THEN IdentityInit ELSE NoExport
  /\ IF part = "rule" THEN Language!ExprInit ELSE match = Language!leaf("true") /\ grown = 0
  /\ LogInit
  /\ IF part = "posture" THEN PostureInit ELSE PostureAbsent

VersionStep ==
  /\ part = "versions" /\ Versions!Next
  /\ UNCHANGED <<rbacVars, exportVars, layerVars, languageVars, logVars, postureVars>>
RBACStep ==
  /\ part = "rbac" /\ RBACNext
  /\ UNCHANGED <<exportVars, versionVars, layerVars, languageVars, logVars, postureVars>>
IdentityStep ==
  /\ part = "identities" /\ IdentityNext
  /\ UNCHANGED <<searchVars, versionVars, layerVars, languageVars, logVars, postureVars>>
LayerStep ==
  /\ part = "layers" /\ LayersNext
  /\ UNCHANGED <<rbacVars, exportVars, versionVars, languageVars, logVars, postureVars>>
RuleStep ==
  /\ part = "rule" /\ Language!ExprNext
  /\ UNCHANGED <<rbacVars, exportVars, versionVars, layerVars, logVars, postureVars>>
LogStep ==
  /\ part = "log" /\ LogNext
  /\ UNCHANGED <<rbacVars, exportVars, versionVars, layerVars, languageVars, postureVars>>
PostureStep ==
  /\ part = "posture" /\ PostureNext
  /\ UNCHANGED <<rbacVars, exportVars, versionVars, layerVars, languageVars, logVars>>

AnalysesNext ==
  /\ VersionStep \/ RBACStep \/ IdentityStep \/ LayerStep \/ RuleStep \/ LogStep \/ PostureStep
  /\ UNCHANGED part

AnalysesSpec ==
  /\ AnalysesInit
  /\ [][AnalysesNext]_<<part, rbacVars, exportVars, versionVars, layerVars, languageVars, logVars,
                       postureVars>>

(***************************************************************************)
(*                               Properties                                *)
(***************************************************************************)
\* version.go:7-9: "Comparison is total and deterministic", for the well-formed
\* versions of each scheme.
CompareIsOrder == part = "versions" => Versions!CompareIsOrder

\* A condition is compiled into the tree its author means by the documented
\* grammar, or refused for its depth alone (parser.go); and one that compiles
\* fails at a gate for a type or for a pattern that is computed, never for an
\* unknown name or a missing argument (engine.go:13-18).
RulesMeanWhatTheySay ==
  part = "rule" => Language!ParsesAsWritten /\ Language!CompiledNeverPanics

(***************************************************************************)
(* The instance that is checked, beside Posture's: two namespaces, three   *)
(* ServiceAccounts, a user and the masters, and roles that hold every      *)
(* escalation primitive; exports of such clusters; paths of images.        *)
(***************************************************************************)
a == ServiceAccount("n1", "a")
b == ServiceAccount("n1", "b")
c == ServiceAccount("n2", "c")
dev == [kind |-> "User", ns |-> "", name |-> "dev"]

Subjects == {a, b, c, dev, Masters}

rule(verbs, groups, resources) == [verbs |-> verbs, groups |-> groups, resources |-> resources, urls |-> {}]

\* "run" is a Role of n1 and a ClusterRole; "gone" is none.
ClusterRules ==
  [name \in {ClusterRole(n) : n \in {"cluster-admin", "root", "reader", "run", "apps", "csr", "nodes"}} |->
     CASE name[2] \in {"cluster-admin", "root"} -> {rule({Star}, {Star}, {Star})}
       [] name[2] = "reader" -> {rule({"get", "list"}, {""}, {"pods", "secrets"})}
       [] name[2] = "run"    -> {rule({"create"}, {"", "apps"}, {"pods", "deployments"})}
       [] name[2] = "apps"   -> {rule({"get"}, {"apps"}, {Star})}
       [] name[2] = "csr"    -> {rule({"create"}, {"certificates.k8s.io"}, {CSRs}),
                                 rule({"update"}, {"certificates.k8s.io"}, {Approval})}
       [] name[2] = "nodes"  -> {rule({"get"}, {}, {"nodes/proxy"}),
                                 [rule({"get"}, {}, {}) EXCEPT !.urls = {"/metrics"}]}]

LocalRules ==
  [name \in {Role("n1", "run"), Role("n2", "mint"), Role("n1", "grow")} |->
     CASE name[3] = "run"  -> {rule({"get"}, {""}, {"configmaps"})}
       [] name[3] = "mint" -> {rule({"create"}, {""}, {"serviceaccounts/token"})}
       [] name[3] = "grow" -> {rule({"bind"}, {"rbac.authorization.k8s.io"}, {"clusterroles"}),
                               rule({"impersonate"}, {""}, {"users"})}]

AllRules == [r \in DOMAIN ClusterRules \cup DOMAIN LocalRules |->
               IF r \in DOMAIN ClusterRules THEN ClusterRules[r] ELSE LocalRules[r]]

everywhere(kind, role, s) ==
  [clusterScoped |-> TRUE, ns |-> "", kind |-> kind, role |-> role, subjects |-> s]
inside(ns, kind, role, s) ==
  [clusterScoped |-> FALSE, ns |-> ns, kind |-> kind, role |-> role, subjects |-> s]

Bindings ==
  {everywhere("ClusterRole", "cluster-admin", {c}), everywhere("ClusterRole", "reader", {a}),
   everywhere("ClusterRole", "csr", {b, dev}), everywhere("ClusterRole", "apps", {b}),
   everywhere("", "run", {c}), everywhere("ClusterRole", "root", {dev}), everywhere("Role", "mint", {a}),
   everywhere("ClusterRole", "nodes", {Masters}),
   inside("n1", "ClusterRole", "reader", {a, c}), inside("n2", "ClusterRole", "reader", {b}),
   inside("n1", "", "run", {a}), inside("n2", "", "run", {b}), inside("n2", "Role", "mint", {a}),
   inside("n1", "Role", "grow", {b}), inside("n1", "Role", "gone", {a}), inside("n1", "ClusterRole", "root", {a}),
   inside("n2", "ClusterRole", "nodes", {c})}

\* d may be a file of one layer and a directory of another.
Names == {<<"d">>, <<"d", "f">>, <<"e">>}
Opaque == {<<>>, <<"d">>}

(***************************************************************************)
(* Exports for `dsecrat rbac`: a role beside the admin's and two bindings  *)
(* in two files, two roles before a file that does not parse, one file.    *)
(***************************************************************************)
everyone == [kind |-> "Group", ns |-> "", name |-> "system:authenticated"]

roleObject(key, rules) == [kind |-> "Role", key |-> key, rules |-> rules]
bindingObject(ns, kind, name, s) ==
  [kind |-> "Binding",
   binding |-> [clusterScoped |-> ns = "", ns |-> ns, kind |-> kind, role |-> name, subjects |-> {s}]]
podObject(ns, sa) == [kind |-> "Pod", ns |-> ns, name |-> "p", sa |-> sa]
accountObject(s, used, annotations, cloud) ==
  [kind |-> "ServiceAccount", ns |-> s.ns, name |-> s.name, automounts |-> used = 0, lastUsed |-> used,
   annotations |-> annotations, cloud |-> cloud]

adminRole == roleObject(ClusterRole("cluster-admin"), {rule({Star}, {Star}, {Star})})
RoleObjects ==
  {roleObject(ClusterRole("view"), {rule({"list"}, {""}, {x})}) : x \in {"secrets", Star, "pods"}}
  \cup {roleObject(ClusterRole("view"), {rule({v}, {}, {x})}) :
          v \in {"create", Star}, x \in {"pods", "serviceaccounts/token", CSRs, Star}}
  \cup {roleObject(Role("n1", "view"), {rule({"get"}, {""}, {"nodes"}), rule({"impersonate"}, {""}, {"users"})}),
        roleObject(ClusterRole("view"), {[rule({"get"}, {}, {}) EXCEPT !.urls = {Star}]}),
        adminRole}
ViewBindings ==
  {bindingObject(ns, k, "view", s) : ns \in {"", "n1"}, k \in {"", "ClusterRole"}, s \in {a, c}}
BindingObjects ==
  ViewBindings
  \cup {bindingObject("", "ClusterRole", "cluster-admin", s) : s \in {c, dev}}
  \cup {bindingObject("n1", "Role", "gone", everyone)}
NoDescriptor == [bound |-> FALSE, provider |-> "", role |-> "", privilege |-> "", trustAny |-> FALSE]
OtherObjects ==
  {podObject("n1", "a"), podObject("n1", ""), [kind |-> "other"],
   accountObject(a, 1, {"aws", "gcp"}, NoDescriptor),
   accountObject(c, 0, {}, [NoDescriptor EXCEPT !.bound = TRUE, !.role = "ops", !.privilege = "admin", !.trustAny = TRUE]),
   [kind |-> "DockerHost", host |-> [name |-> "h", members |-> {"u"}, rootless |-> FALSE, sockets |-> {"c"}]]}

document(items) == [is |-> "json", items |-> items]
unreadable == [is |-> "unreadable", items |-> <<>>]
unlisted == [is |-> "unlisted", items |-> <<>>]
ClusterExports ==
  {<<document(<<r, adminRole>>), document(<<b1, b2, o>>)>> :
     r \in RoleObjects, b1 \in ViewBindings, b2 \in BindingObjects, o \in OtherObjects}
  \cup {<<document(<<r1, r2>>), unreadable, document(<<b1>>)>> :
          r1 \in RoleObjects, r2 \in RoleObjects, b1 \in ViewBindings}
  \cup {<<unreadable>>, <<document(<<adminRole>>), unlisted>>, <<unreadable, unreadable, unlisted>>}
  \cup {<<document(<<r, b1, o>>)>> : r \in RoleObjects, b1 \in BindingObjects, o \in OtherObjects}
Queries ==
  {<<"get">>, <<"get", <<"secrets">>, "n1">>, <<"create", <<"pods">>>>, <<"create", <<"pods", "exec">>>>}
Flags ==
  [directory : BOOLEAN, nhi : {TRUE}, now : {0, 3}, failOn : {4}, who : {<<>>}]
  \cup [directory : {TRUE}, nhi : {TRUE}, now : {0}, failOn : {0}, who : {<<>>}]
  \cup [directory : {TRUE}, nhi : {FALSE}, now : {0}, failOn : {4}, who : Queries]
=============================================================================
