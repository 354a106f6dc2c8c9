------------------------------ MODULE Benchmarks -------------------------------
(***************************************************************************)
(* The two configuration benchmarks (internal/modules/dockerbench and      *)
(* kubebench): the control catalogues and the check of each control over a *)
(* collected evidence snapshot.  A check answers "pass", "warn", "fail" or *)
(* "info".  Evidence is reduced to what the checks tell apart: a daemon    *)
(* key has a value of one JSON type, a file mode is its set of bits, a     *)
(* capability, mount or security option is the name it stands for.         *)
(***************************************************************************)
EXTENDS Integers, FiniteSets, Sequences

judge(ok, otherwise) == IF ok THEN "pass" ELSE otherwise

control(id, level, section) == [id |-> id, level |-> level, section |-> section]

(***************************************************************************)
(*                         Files of either benchmark                       *)
(***************************************************************************)
M600 == {"ur", "uw"}
M644 == M600 \cup {"gr", "or"}
M660 == M600 \cup {"gr", "gw"}
M755 == M600 \cup {"ux", "gr", "gx", "or", "ox"}

statKnown(files, path) == path \in DOMAIN files /\ files[path].exists

checkOwnership(files, path, owner) ==
  IF ~statKnown(files, path) THEN "info" ELSE judge(files[path].owner = owner, "fail")

\* "max or more restrictive": no bit outside it.
checkPermsAtMost(files, path, max) ==
  IF ~statKnown(files, path) \/ ~files[path].parses THEN "info" ELSE judge(files[path].mode \subseteq max, "fail")

aFileStat(f) == DOMAIN f = {"exists", "parses", "owner", "mode"} /\ {f.exists, f.parses} \subseteq BOOLEAN

(***************************************************************************)
(*                       The CIS Docker Benchmark                          *)
(***************************************************************************)
\* The snapshot of a host; what was not collected is absent.
containerFields ==
  {"privileged", "adds", "opts", "mounts", "ports", "memory", "pids", "readonly", "health", "host"}
infoFields == {"version", "storage", "logging", "rootless", "liveRestore", "experimental", "options"}

hostEvidence(e) ==
  /\ DOMAIN e = {"daemon", "bool", "str", "list", "info", "files", "containers"}
  /\ e.daemon \in BOOLEAN /\ \A k \in DOMAIN e.bool : e.bool[k] \in BOOLEAN
  /\ DOMAIN e.info = infoFields
  /\ \A path \in DOMAIN e.files : aFileStat(e.files[path])
  /\ \A c \in e.containers : DOMAIN c = containerFields /\ {c.privileged, c.readonly, c.health} \subseteq BOOLEAN

hostControls == {control(<<1, 2, 1>>, 1, "host")}

daemonControls ==
  {control(<<2, n>>, 1, "daemon") : n \in {1, 2, 3, 4, 5, 6, 13, 14, 16}}
    \cup {control(<<2, n>>, 2, "daemon") : n \in {8, 11, 12, 15, 17}}

fileControls == {control(<<3, n>>, 1, "files") : n \in {5, 6, 15, 16, 17, 18}}

runtimeControls ==
  {control(<<5, n>>, 1, "runtime") : n \in {1, 3, 4, 5, 7, 9, 10, 15, 16, 20, 26, 28, 31}}
    \cup {control(<<5, n>>, 2, "runtime") : n \in {12, 21, 25}}

DockerControls == hostControls \cup daemonControls \cup fileControls \cup runtimeControls

\* A string that is not set is empty.
noText == ""

\* The typed accessors of daemon.json: a key with a value of another type is not set.
isOn(e, k) == k \in DOMAIN e.bool /\ e.bool[k]
isOff(e, k) == k \in DOMAIN e.bool /\ ~e.bool[k]
text(e, k) == IF k \in DOMAIN e.str THEN e.str[k] ELSE noText
items(e, k) == IF k \in DOMAIN e.list THEN e.list[k] ELSE {}

confinementCheck(e, n) ==
  CASE n = 15 -> judge(text(e, "seccomp-profile") # "unconfined", "fail")
    [] n = 16 -> judge(~(isOn(e, "experimental") \/ e.info.experimental), "fail")
    [] n = 17 -> judge(isOn(e, "no-new-privileges"), "warn")

\* Without a collected daemon.json there is nothing to assess.
daemonCheck(e, n) ==
  IF ~e.daemon THEN "info" ELSE
  CASE n = 1  -> judge(isOff(e, "icc"), "warn")
    [] n = 2  -> judge("log-level" \notin DOMAIN e.str \/ e.str["log-level"] = "info", "warn")
    [] n = 3  -> judge(~isOff(e, "iptables"), "fail")
    [] n = 4  -> judge(items(e, "insecure-registries") = {}, "fail")
    [] n = 5  -> LET set == text(e, "storage-driver")
                 IN judge((IF set = noText THEN e.info.storage ELSE set) # "aufs", "fail")
    [] n = 6  -> judge(\/ "tcp" \notin items(e, "hosts")
                       \/ isOn(e, "tlsverify") /\ {"tlscacert", "tlscert", "tlskey"} \subseteq DOMAIN e.str, "fail")
    [] n = 8  -> judge(e.info.rootless \/ text(e, "userns-remap") \notin {noText, "false"}, "warn")
    [] n = 11 -> judge(items(e, "authorization-plugins") # {}, "warn")
    [] n = 12 -> LET driver == IF "log-driver" \in DOMAIN e.str THEN e.str["log-driver"] ELSE e.info.logging
                 IN judge(driver \notin {noText, "json-file", "local", "journald"}, "warn")
    [] n = 13 -> judge(isOn(e, "live-restore") \/ e.info.liveRestore, "fail")
    [] n = 14 -> judge(isOff(e, "userland-proxy"), "warn")
    [] OTHER  -> confinementCheck(e, n)

fileCheck(e, n) ==
  CASE n = 5  -> checkOwnership(e.files, "dir", "root:root")
    [] n = 6  -> checkPermsAtMost(e.files, "dir", M755)
    [] n = 15 -> checkOwnership(e.files, "sock", "root:docker")
    [] n = 16 -> checkPermsAtMost(e.files, "sock", M660)
    [] n = 17 -> checkOwnership(e.files, "json", "root:root")
    [] n = 18 -> checkPermsAtMost(e.files, "json", M644)

sensitiveHostDirs == {"/", "/boot", "/dev", "/etc", "/lib", "/proc", "/sys", "/usr", "/var"}
dangerousCaps == {"ALL", "SYS_ADMIN", "NET_ADMIN", "SYS_PTRACE", "SYS_MODULE", "DAC_READ_SEARCH", "SYS_RAWIO", "NET_RAW"}
dockerSocket == "docker.sock"

perContainer(e, bad(_)) ==
  IF e.containers = {} THEN "info" ELSE judge(\A c \in e.containers : ~bad(c), "fail")

\* hasSecOpt looks for its needle anywhere in an option, lowered and without spaces:
\* opts are the needles that occur, so "no-new-privileges:false" has one too.
runtimeCheck(e, n) ==
  LET relaxed(c) == "seccomp=unconfined" \in c.opts
      mac(c) == "apparmor=unconfined" \in c.opts
      caps(c) == c.adds \cap dangerousCaps # {}
      gains(c) == ~isOn(e, "no-new-privileges") /\ "no-new-privileges" \notin c.opts
      mounts(c) == c.mounts \cap sensitiveHostDirs # {}
      socket(c) == dockerSocket \in c.mounts
      port(c) == \E p \in c.ports : 0 < p /\ p < 1024
      privileged(c) == c.privileged
      noMemory(c) == c.memory <= 0
      noPids(c) == c.pids <= 0
      writable(c) == ~c.readonly
      unchecked(c) == ~c.health
      net(c) == "net" \in c.host
      pid(c) == "pid" \in c.host
      ipc(c) == "ipc" \in c.host
      uts(c) == "uts" \in c.host
  IN CASE n = 1  -> perContainer(e, mac)
       [] n = 3  -> perContainer(e, caps)
       [] n = 4  -> perContainer(e, privileged)
       [] n = 5  -> perContainer(e, mounts)
       [] n = 7  -> perContainer(e, port)
       [] n = 9  -> perContainer(e, net)
       [] n = 10 -> perContainer(e, noMemory)
       [] n = 12 -> perContainer(e, writable)
       [] n = 15 -> perContainer(e, pid)
       [] n = 16 -> perContainer(e, ipc)
       [] n = 20 -> perContainer(e, uts)
       [] n = 21 -> perContainer(e, relaxed)
       [] n = 25 -> IF isOn(e, "no-new-privileges") /\ e.containers = {} THEN "pass" ELSE perContainer(e, gains)
       [] n = 26 -> perContainer(e, unchecked)
       [] n = 28 -> perContainer(e, noPids)
       [] n = 31 -> perContainer(e, socket)

\* checksFor: the host control is manual.
dockerCheck(e, c) ==
  CASE c.section = "host"    -> "info"
    [] c.section = "daemon"  -> daemonCheck(e, c.id[2])
    [] c.section = "files"   -> fileCheck(e, c.id[2])
    [] c.section = "runtime" -> runtimeCheck(e, c.id[2])

hasDaemonEvidence(e) ==
  \/ e.daemon \/ DOMAIN e.files # {} \/ e.containers # {}
  \/ e.info.version # "" \/ e.info.options # {}

(***************************************************************************)
(*                     The CIS Kubernetes Benchmark                        *)
(***************************************************************************)
\* The snapshot of a cluster: flags by component, stats of files, the slice of
\* its RBAC and pod security the controls read, and which namespaces have a
\* network policy.
clusterEvidence(e) ==
  /\ DOMAIN e = {"minor", "platform", "api", "etcd", "kubelet", "files", "bindings", "roles", "accounts", "psa",
                 "enforce", "namespaces", "policed"}
  /\ e.minor \in Nat /\ e.psa \in BOOLEAN
  /\ \A f \in DOMAIN e.files : aFileStat(e.files[f])
  /\ \A b \in e.bindings : DOMAIN b = {"role", "subjects"}
  /\ \A a \in e.accounts : DOMAIN a = {"name", "automount"} /\ a.automount \in {"on", "off", "unset"}

controlPlaneControls ==
  {control(<<1, 1, n>>, 1, "plane") : n \in {1, 2}}
    \cup {control(<<1, 2, n>>, 1, "plane") : n \in {1, 2, 6, 7, 8, 11, 16, 19, 22, 31}}

etcdControls == {control(<<2, n>>, 1, "etcd") : n \in 1..6}

nodeControls ==
  {control(<<4, 1, 9>>, 1, "node")} \cup {control(<<4, 2, n>>, 1, "node") : n \in {1, 2, 3, 4, 6}}
    \cup {control(<<4, 2, n>>, 2, "node") : n \in {5, 9}}

policyControls ==
  {control(<<5, 1, n>>, 1, "policy") : n \in {1, 3, 5}} \cup {control(<<5, 2, 2>>, 1, "policy")}
    \cup {control(id, 2, "policy") : id \in {<<5, 3, 2>>, <<5, 7, 4>>}}

ClusterControls == controlPlaneControls \cup etcdControls \cup nodeControls \cup policyControls

\* A component's flags are a function of the flags set; a list flag has the set
\* of its members.
isSet(flags, f) == f \in DOMAIN flags
equals(flags, f, v) == f \in DOMAIN flags /\ flags[f] = v
lists(flags, f, v) == f \in DOMAIN flags /\ v \in flags[f]
filled(flags, f) == f \in DOMAIN flags /\ flags[f] # ""

apiServerCheck(e, n) ==
  IF DOMAIN e.api = {} THEN "info" ELSE
  CASE n = 1  -> judge(equals(e.api, "anonymous-auth", "false"), "fail")
    [] n = 2  -> judge(~isSet(e.api, "token-auth-file"), "fail")
    [] n = 6  -> IF lists(e.api, "authorization-mode", "AlwaysAllow") THEN "fail"
                 ELSE judge(isSet(e.api, "authorization-mode"), "warn")
    [] n = 7  -> judge(lists(e.api, "authorization-mode", "Node"), "fail")
    [] n = 8  -> judge(lists(e.api, "authorization-mode", "RBAC"), "fail")
    [] n = 11 -> judge(~lists(e.api, "enable-admission-plugins", "AlwaysAdmit"), "fail")
    [] n = 16 -> judge(lists(e.api, "enable-admission-plugins", "NodeRestriction"), "fail")
    [] n = 19 -> judge(equals(e.api, "profiling", "false"), "fail")
    [] n = 22 -> judge(filled(e.api, "audit-log-path"), "fail")
    [] n = 31 -> judge(filled(e.api, "encryption-provider-config"), "fail")

manifestCheck(e, n) ==
  IF n = 1 THEN checkPermsAtMost(e.files, "manifest", M600) ELSE checkOwnership(e.files, "manifest", "root:root")

etcdCheck(e, n) ==
  IF DOMAIN e.etcd = {} THEN "info" ELSE
  CASE n = 1 -> judge(isSet(e.etcd, "cert-file") /\ isSet(e.etcd, "key-file"), "fail")
    [] n = 2 -> judge(equals(e.etcd, "client-cert-auth", "true"), "fail")
    [] n = 3 -> judge(~equals(e.etcd, "auto-tls", "true"), "fail")
    [] n = 4 -> judge(isSet(e.etcd, "peer-cert-file") /\ isSet(e.etcd, "peer-key-file"), "fail")
    [] n = 5 -> judge(equals(e.etcd, "peer-client-cert-auth", "true"), "fail")
    [] n = 6 -> judge(~equals(e.etcd, "peer-auto-tls", "true"), "fail")

kubeletCheck(e, n) ==
  IF DOMAIN e.kubelet = {} THEN "info" ELSE
  CASE n = 1 -> judge(equals(e.kubelet, "anonymous-auth", "false"), "fail")
    [] n = 2 -> IF equals(e.kubelet, "authorization-mode", "AlwaysAllow") THEN "fail"
                ELSE judge(isSet(e.kubelet, "authorization-mode"), "warn")
    [] n = 3 -> judge(filled(e.kubelet, "client-ca-file"), "fail")
    [] n = 4 -> judge(isSet(e.kubelet, "read-only-port") => e.kubelet["read-only-port"] = "0", "fail")
    [] n = 5 -> judge(~equals(e.kubelet, "streaming-connection-idle-timeout", "0"), "fail")
    [] n = 6 -> judge(isSet(e.kubelet, "make-iptables-util-chains") =>
                        e.kubelet["make-iptables-util-chains"] = "true", "fail")
    [] n = 9 -> judge(\E f \in {"rotate-server-certificates", "RotateKubeletServerCertificate"} :
                        equals(e.kubelet, f, "true"), "warn")

\* Policies: what was not collected is "info", but of a namespace list every
\* namespace without a label or a policy counts against it.
policyCheck(e, id) ==
  CASE id = <<5, 1, 1>> -> IF e.bindings = {} THEN "info"
                           ELSE judge(\A b \in e.bindings : b.role = "cluster-admin" => b.subjects \subseteq {"masters"}, "fail")
    [] id = <<5, 1, 3>> -> IF e.roles = {} THEN "info" ELSE judge("*" \notin UNION e.roles, "fail")
    [] id = <<5, 1, 5>> -> LET defaults == {a \in e.accounts : a.name = "default"}
                           IN IF defaults = {} THEN "info" ELSE judge(\A a \in defaults : a.automount = "off", "fail")
    [] id = <<5, 2, 2>> -> IF ~e.psa /\ DOMAIN e.enforce = {} THEN (IF e.namespaces = {} THEN "info" ELSE "fail")
                           ELSE judge(\A ns \in e.namespaces :
                                        ns \in DOMAIN e.enforce /\ e.enforce[ns] \in {"baseline", "restricted"}, "fail")
    [] id = <<5, 3, 2>> -> IF e.namespaces = {} THEN "info" ELSE judge(e.namespaces \subseteq e.policed, "fail")
    [] id = <<5, 7, 4>> -> IF e.namespaces = {} THEN "info" ELSE judge("default" \notin e.namespaces, "fail")

nodeCheck(e, id) ==
  IF id[2] = 1 THEN checkPermsAtMost(e.files, "kubelet", M600) ELSE kubeletCheck(e, id[3])

\* selectProfile: on a managed platform the provider owns control plane and etcd.
managed(e) == e.platform \in {"eks", "gke", "aks", "openshift"}
scores(e, section) == managed(e) => section \in {"node", "policy"}

\* assessorFor.
clusterCheck(e, c) ==
  IF ~scores(e, c.section) THEN "info" ELSE
  CASE c.section = "plane"  -> IF c.id[2] = 1 THEN manifestCheck(e, c.id[3]) ELSE apiServerCheck(e, c.id[3])
    [] c.section = "etcd"   -> etcdCheck(e, c.id[2])
    [] c.section = "node"   -> nodeCheck(e, c.id)
    [] c.section = "policy" -> policyCheck(e, c.id)

benchmarkVersionFor(minor) ==
  CASE minor \in {24, 25} -> "1.7.0" [] minor \in {26, 27} -> "1.8.0" [] OTHER -> "1.9.0"

hasClusterEvidence(e) ==
  \/ e.minor # 0 \/ e.namespaces # {} \/ e.bindings # {} \/ e.roles # {}
  \/ \E f \in {DOMAIN e.api, DOMAIN e.etcd, DOMAIN e.kubelet, DOMAIN e.files} : f # {}
=============================================================================
