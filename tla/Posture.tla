------------------------------- MODULE Posture -------------------------------
(***************************************************************************)
(* Four assessments the scanner makes from what it is given: the network   *)
(* monitor with its policies (NetworkPolicy), the benchmarks, waivers and  *)
(* packs (Compliance), confinement (Hardening) and the matching of an SBOM *)
(* against the advisories (VulnerabilityScan).  They share no state: a     *)
(* behaviour is one of them, over an estate that changes between commands. *)
(***************************************************************************)
EXTENDS Integers, FiniteSets, Sequences, TLC

CONSTANTS
    Assessments,  \* the ones considered
    Observable, FlowWorkloads, IDs, HostOrder, PortOrder, Internal, Metadata, ModelHosts, ModelLike,
    Given, MaxFlows, Windows, FailOn, Below,                              \* NetworkPolicy
    DockerEvidence, ClusterEvidence, Scans, Books, Packs, Day, MaxTime,   \* Compliance
    Specs, Syscalls, Bootstrap, Exceptions, LastDay,                      \* Hardening
    Feeds, SBOMs, Postures, CVEs, Spelling, MaxComponents                 \* VulnerabilityScan

ASSUME PostureAssumption ==
    /\ Assessments \subseteq {"network", "compliance", "hardening", "vulnerabilities"}
    /\ {MaxFlows, FailOn, MaxTime, LastDay, MaxComponents} \subseteq Nat /\ Day \in Nat \ {0}
    /\ \A f \in Observable :
         /\ {f.ip, f.fqdn, f.peer} \subseteq {HostOrder[i] : i \in DOMAIN HostOrder}
         /\ f.port \in {PortOrder[i] : i \in DOMAIN PortOrder}
         /\ f.wl \in {IDs[i] : i \in DOMAIN IDs}
    /\ DOMAIN IDs \cup DOMAIN HostOrder \cup DOMAIN PortOrder \subseteq Nat
    /\ "" \notin Internal
    /\ Bootstrap \subseteq Syscalls

VARIABLES
    assessment,  \* the one at work
    capture, deployed, outcome,
    estate, kept, said,
    host, trace, shown,
    feed, sbom, posture, database, position, findings, quieted,
    scan         \* VulnerabilityScan's outcome

Network == INSTANCE NetworkPolicy WITH Workloads <- FlowWorkloads
Controls == INSTANCE Compliance
Confinement == INSTANCE Hardening
Advisory == INSTANCE VulnerabilityScan WITH outcome <- scan

\* What the commands are given are documents of the form that is decoded; a waiver
\* runs out at a day or at a time, an exception on a day or never.
ASSUME EvidenceAssumption ==
    /\ \A e \in DockerEvidence : Controls!hostEvidence(e)
    /\ \A e \in ClusterEvidence : Controls!clusterEvidence(e)
    /\ \A c \in Packs : Controls!aPackControl(c)
    /\ \A b \in Books : /\ \A w \in b.waivers : w.at \in Nat
                        /\ \A x \in b.register : Controls!aRegisterEntry(x)

ASSUME ManifestAssumption ==
    /\ \A s \in Specs : s.kind = "pod" => Confinement!aPod(s)
    /\ \A s \in Specs : s.kind = "oci" => Confinement!aRuntimeSpec(s)
    /\ \A x \in Exceptions : \A e \in x : e.expires \in Nat

ASSUME TelemetryAssumption ==
    /\ \A f \in Observable : Network!aFlow(f)
    /\ \A w \in Windows : Network!aRecording(w)

ASSUME FeedAssumption ==
    /\ \A f \in Feeds : Advisory!aList(f) /\ \A i \in DOMAIN f : Advisory!anOSVRecord(f[i])
    /\ \A s \in SBOMs : Advisory!aList(s) /\ \A i \in DOMAIN s : Advisory!aComponent(s[i])
    /\ \A p \in Postures : \A i \in DOMAIN p.vex : Advisory!aStatement(p.vex[i])

networkVars == <<capture, deployed, outcome>>
complianceVars == <<estate, kept, said>>
hardeningVars == <<host, trace, shown>>
vulnerabilityVars == <<feed, sbom, posture, database, position, findings, quieted, scan>>
postureVars == <<assessment, networkVars, complianceVars, hardeningVars, vulnerabilityVars>>

\* What is not at work has no state.
NoNetwork == capture = <<>> /\ deployed = <<>> /\ outcome = <<>>
NoControls == estate = <<>> /\ kept = <<>> /\ said = <<>>
NoConfinement == host = <<>> /\ trace = <<>> /\ shown = <<>>
NoAdvisory ==
    /\ feed = <<>> /\ sbom = <<>> /\ posture = <<>> /\ database = <<>> /\ position = 0
    /\ findings = {} /\ quieted = {} /\ scan = ""
PostureAbsent == assessment = "" /\ NoNetwork /\ NoControls /\ NoConfinement /\ NoAdvisory

PostureInit ==
    /\ assessment \in Assessments
    /\ IF assessment = "network" THEN Network!Init ELSE NoNetwork
    /\ IF assessment = "compliance" THEN Controls!ComplianceInit ELSE NoControls
    /\ IF assessment = "hardening" THEN Confinement!HardeningInit ELSE NoConfinement
    /\ IF assessment = "vulnerabilities" THEN Advisory!VulnerabilityInit ELSE NoAdvisory

PostureNext ==
    /\ UNCHANGED assessment
    /\ \/ /\ assessment = "network" /\ Network!NetworkNext
          /\ UNCHANGED <<complianceVars, hardeningVars, vulnerabilityVars>>
       \/ /\ assessment = "compliance" /\ Controls!ComplianceNext
          /\ UNCHANGED <<networkVars, hardeningVars, vulnerabilityVars>>
       \/ /\ assessment = "hardening" /\ Confinement!HardeningNext
          /\ UNCHANGED <<networkVars, complianceVars, vulnerabilityVars>>
       \/ /\ assessment = "vulnerabilities" /\ Advisory!VulnerabilityNext
          /\ UNCHANGED <<networkVars, complianceVars, hardeningVars>>

PostureSpec == PostureInit /\ [][PostureNext]_postureVars

(***************************************************************************)
(*                               Properties                                *)
(***************************************************************************)
\* netmon.go:146-147, dryrun.go:19-22, policydiff.go:38-39: what is reported of a
\* capture, and generated from it, does not depend on the order in which its flows
\* arrived; a generated policy fits its own baseline and lets of a later capture
\* pass only what the baseline knew.
CaptureDecides == assessment = "network" => Network!ArrivalIsIgnored /\ Network!PolicyIsBaseline

\* waiver.go:47-49, report.go:119-121, dockerbench/evidence.go:24-26,
\* kubebench/checks_policy.go:13-14: a passing gate and a full score hide no failed
\* control but those with a waiver that has not run out, and no part of the evidence
\* that is withheld makes a control pass, but for the three the code lets pass unseen.
PassIsEarned == assessment = "compliance" => Controls!GateIsHonest /\ Controls!WithheldNeverPasses

\* bundle.go:104-105 and 39-41: applying a bundle breaks nothing, fixes what it
\* says, and keeps failing only what has no fix or an exception that was in force
\* on the day the bundle was built.
BundleIsSound == assessment = "hardening" => Confinement!BundleIsSound

\* update.go:361-364: no record of a feed is lost in folding the feeds into one.
NoRecordIsLost == assessment = "vulnerabilities" => Advisory!NoRecordIsLost

-----------------------------------------------------------------------------
(* What the documents say and the code does not do *)

\* docs/features/compliance.md:31: drift reporting "compares against an approved
\* baseline and flags the specific control that regressed".
RegressionIsReported == assessment = "compliance" => Controls!RegressionIsReported

\* advisory.go:160-162: the fixed version is "the concrete upgrade target an
\* operator - or an AI agent - should move to".
FixIsAnUpgrade == assessment = "vulnerabilities" => Advisory!FixIsAnUpgrade

(***************************************************************************)
(* The instance that is checked: captures, hosts and clusters, pods and    *)
(* runtime specs, feeds and SBOMs.                                         *)
(***************************************************************************)
(***************************************************************************)
(* Network: a web workload and a job; "gone" has flows and no descriptor.  *)
(* The thresholds are lowered so that three flows can reach them.          *)
(***************************************************************************)
flow(wl, ts, src, ip, port, fqdn, peer, proto, tx, rx) ==
  [wl |-> wl, ts |-> ts, src |-> src, ip |-> ip, port |-> port, fqdn |-> fqdn, peer |-> peer,
   proto |-> proto, dir |-> "egress", tx |-> tx, rx |-> rx, deny |-> FALSE]

Flows ==
  {flow("web", t, 1, "8.8", 443, "api", "", "tcp", 2, 1) : t \in {1, 2, 4}}
  \cup {flow("web", 2, 2, "9.9", 443, "x.api", "", "tcp", 2, 1),
        flow("web", 3, 1, "8.8", 22, "api", "", "tcp", 9, 0),
        flow("web", 2, 3, "imds", 443, "api", "", "tcp", 1, 1),
        flow("web", 1, 3, "", 5432, "", "db", "udp", 1, 1),
        flow("job", 1, 1, "10.1", 53, "db", "", "udp", 1, 1),
        [flow("job", 1, 4, "10.1", 80, "", "", "tcp", 1, 1) EXCEPT !.dir = "ingress"],
        [flow("gone", 2, 1, "9.9", 8443, "", "", "tcp", 1, 1) EXCEPT !.deny = TRUE]}

Descriptors == [id \in {"web", "job"} |-> [hostNetwork |-> id = "job", agent |-> id = "web"]]
FlowIDs == <<"gone", "job", "web">>
Hosts == <<"10.1", "8.8", "9.9", "", "api", "db", "imds", "x.api">>
Ports == <<123, 22, 443, 53, 5432, 80, 8443>>
Subdomains == {<<"x.api", "api">>}

query(wl, parent, entropy, len, first, nx) ==
  [wl |-> wl, parent |-> parent, entropy |-> entropy, len |-> len, first |-> first, nx |-> nx]
Recordings ==
  {[mode |-> "enforce", dns |-> <<>>],
   [mode |-> "", dns |-> <<query("web", "evil", 40, 30, 40, TRUE), query("job", "ok", 10, 3, 10, FALSE),
                           query("web", "evil", 36, 12, 38, TRUE)>>]}

Options ==
  [beaconMin |-> 3, beaconCV |-> 40, beaconBytes |-> 4096, exfilMin |-> 9, exfilRatio |-> 8,
   slowMin |-> 4, slowSpan |-> 2, peersMin |-> 1, tunnelMin |-> 2, entropy |-> 0, nxMin |-> 2,
   intentMin |-> 2, intent |-> TRUE, agentEgress |-> TRUE]

(***************************************************************************)
(* Compliance: evidence from complete to none.                             *)
(***************************************************************************)
fileStat(owner, mode) == [exists |-> TRUE, parses |-> TRUE, owner |-> owner, mode |-> mode]
rw(others) == {"ur", "uw"} \cup others

plainContainer ==
  [privileged |-> FALSE, adds |-> {}, opts |-> {"no-new-privileges"}, mounts |-> {"/data"}, ports |-> {8080},
   memory |-> 1, pids |-> 1, readonly |-> TRUE, health |-> TRUE, host |-> {}]
openContainer ==
  [privileged |-> TRUE, adds |-> {"ALL"}, opts |-> {"seccomp=unconfined", "apparmor=unconfined"},
   mounts |-> {"/etc", "docker.sock"}, ports |-> {80}, memory |-> 0, pids |-> 0, readonly |-> FALSE,
   health |-> FALSE, host |-> {"net", "pid", "ipc", "uts"}]

dockerInfo(version) ==
  [version |-> version, storage |-> "", logging |-> "", rootless |-> FALSE, liveRestore |-> FALSE,
   experimental |-> FALSE, options |-> {}]
tightHost ==
  [daemon |-> TRUE,
   bool |-> "icc" :> FALSE @@ "live-restore" :> TRUE @@ "userland-proxy" :> FALSE
              @@ "no-new-privileges" :> TRUE @@ "tlsverify" :> TRUE,
   str |-> [k \in {"tlscacert", "tlscert", "tlskey"} |-> "f"] @@ "userns-remap" :> "default"
             @@ "log-driver" :> "syslog",
   list |-> "hosts" :> {"tcp"} @@ "authorization-plugins" :> {"p"},
   info |-> dockerInfo("v"),
   files |-> [f \in {"dir", "sock", "json"} |->
                IF f = "sock" THEN fileStat("root:docker", rw({"gr", "gw"}))
                ELSE fileStat("root:root", rw({"gr", "or"}))],
   containers |-> {plainContainer}]
DockerHosts ==
  {tightHost,
   [daemon |-> FALSE, bool |-> <<>>, str |-> <<>>, list |-> <<>>, info |-> dockerInfo(""), files |-> <<>>,
    containers |-> {}],
   [tightHost EXCEPT !.containers = {plainContainer, openContainer},
      !.bool = "icc" :> TRUE @@ "iptables" :> FALSE @@ "experimental" :> TRUE,
      !.list = "insecure-registries" :> {"r"} @@ "hosts" :> {"tcp"},
      !.files = [f \in {"dir", "sock", "json"} |->
                   [fileStat("dev", rw({"ux", "gr", "gx", "or", "ox", "ow"})) EXCEPT !.exists = f # "json"]]],
   [tightHost EXCEPT !.containers = {openContainer},
      !.info = [dockerInfo("v") EXCEPT !.rootless = TRUE, !.storage = "aufs", !.logging = "json-file",
                                          !.experimental = TRUE, !.options = {"seccomp"}],
      !.str = [k \in {"log-level", "seccomp-profile"} |-> "unconfined"]]}

tightCluster ==
  [minor |-> 29, platform |-> "",
   api |-> "profiling" :> "false" @@ "anonymous-auth" :> "false" @@ "authorization-mode" :> {"Node", "RBAC"}
             @@ "enable-admission-plugins" :> {"NodeRestriction"} @@ "audit-log-path" :> "p"
             @@ "encryption-provider-config" :> "p",
   etcd |-> [f \in {"cert-file", "key-file", "peer-cert-file", "peer-key-file", "client-cert-auth",
                    "peer-client-cert-auth"} |-> "true"],
   kubelet |-> "anonymous-auth" :> "false" @@ "authorization-mode" :> "Webhook" @@ "client-ca-file" :> "f"
                 @@ "rotate-server-certificates" :> "true",
   files |-> [f \in {"manifest", "kubelet"} |-> fileStat("root:root", rw({}))],
   bindings |-> {[role |-> "cluster-admin", subjects |-> {"masters"}]}, roles |-> {{"get"}},
   accounts |-> {[name |-> "default", automount |-> "off"]}, psa |-> TRUE, enforce |-> "n1" :> "baseline",
   namespaces |-> {"n1"}, policed |-> {"n1"}]
Clusters ==
  {tightCluster,
   [tightCluster EXCEPT !.minor = 25,
      !.api = "token-auth-file" :> "t" @@ "authorization-mode" :> {"AlwaysAllow"},
      !.etcd = "auto-tls" :> "true" @@ "peer-auto-tls" :> "true",
      !.bindings = {[role |-> "cluster-admin", subjects |-> {"masters", "dev"}]},
      !.roles = {{"get"}, {"*"}}, !.accounts = {[name |-> "default", automount |-> "unset"]},
      !.psa = FALSE, !.enforce = <<>>, !.namespaces = {"n1", "default"}, !.policed = {}],
   [tightCluster EXCEPT !.platform = "eks", !.files = <<>>, !.enforce = "n1" :> "privileged",
      !.kubelet = "authorization-mode" :> "AlwaysAllow" @@ "read-only-port" :> "10255"
                    @@ "streaming-connection-idle-timeout" :> "0" @@ "make-iptables-util-chains" :> "false"]}

\* A scan in which everything ran, and one in which a module failed.
ModuleRuns ==
  {[ran |-> {"dockerbench", "imageaudit"}, errors |-> {}, findings |-> {<< <<"img", 1>>, 4>>}],
   [ran |-> {"dockerbench", "imageaudit"}, errors |-> {"dockerbench"}, findings |-> {<< <<"sbom", 1>>, 1>>}]}

packed(framework, id, how, module, check, prefix, present) ==
  [framework |-> framework, id |-> id, how |-> how, module |-> module, check |-> check, prefix |-> prefix,
   present |-> present]
Frameworks ==
  {packed("cis", <<4, 1>>, "automated", "imageaudit", <<"img", 1>>, FALSE, FALSE),
   packed("cis", <<2, 6>>, "automated", "dockerbench", <<"docker", <<2, 6>>>>, FALSE, FALSE),
   packed("cis", <<1, 1, 1>>, "manual", "", <<>>, FALSE, FALSE),
   packed("nist", <<4, 1, 5>>, "automated", "sbom", <<"sbom", 1>>, FALSE, TRUE),
   packed("nist", <<4, 5, 2>>, "hybrid", "dockerbench", <<"docker", <<"summary">>>>, TRUE, FALSE)}

\* Waivers by date, by time stamp, without a valid expiry, and for everything.
waiver(control, benchmark, form, at) ==
  [control |-> control, benchmark |-> benchmark, form |-> form, at |-> at]
WaiverFiles ==
  {{waiver(<<2, 1>>, "docker", "date", 1), waiver(<<2, 3>>, "docker", "stamp", 3),
    waiver(<<1, 2, 2>>, "k8s", "none", 0)},
   {waiver(<<5, 1, 1>>, "k8s", "stamp", 3)}
     \cup {waiver(<<section, n>>, "", "date", 1) : section \in {2, 3, 5}, n \in 1..31}
     \cup {waiver(<<1, 2, 1>>, "", "date", 1)}}
Registers ==
  {[kind |-> "waiver", framework |-> "cis", id |-> <<4, 1>>, expires |-> 3],
   [kind |-> "attestation", framework |-> "cis", id |-> <<1, 1, 1>>, expires |-> 3],
   [kind |-> "attestation", framework |-> "nist", id |-> <<4, 5, 2>>, expires |-> 0]}
WaiverBooks ==
  {[waivers |-> {}, register |-> {}]} \cup {[waivers |-> w, register |-> Registers] : w \in WaiverFiles}

(***************************************************************************)
(* Hardening: two pods and two runtime specs that between them fail every  *)
(* control, and a file that is neither.                                    *)
(***************************************************************************)
container(name, ctx, mounts, memory, gpu) ==
  [name |-> name, ctx |-> ctx, mounts |-> mounts, memory |-> memory, gpu |-> gpu]
volumeAt(volume, dest) == [volume |-> volume, dest |-> dest]

privilegedPod ==
  [kind |-> "pod", name |-> "p", ctx |-> <<>>, shares |-> {"pid"}, hostUsers |-> "unset",
   volumes |-> "sock" :> <<"var", "run", "docker.sock">> @@ "data" :> <<"var", "lib", "docker", "x">>,
   annotations |-> <<>>, class |-> "",
   init |-> <<container("i", "privileged" :> TRUE @@ "adds" :> {"SYS_ADMIN", "NET_RAW", "SETUID"},
                        {volumeAt("sock", <<"s">>), volumeAt("data", <<"d">>)}, 0, "all")>>,
   containers |-> <<container("c", "escalation" :> FALSE @@ "drops" :> {"SETUID"} @@ "adds" :> {"SETUID"}
                                     @@ "seccomp" :> "unconfined",
                              {volumeAt("tmp", <<"run", "containerd.sock">>)}, 1, "none")>>]
sandboxedPod ==
  [kind |-> "pod", name |-> "p", ctx |-> "nonRoot" :> TRUE @@ "user" :> 0 @@ "seccomp" :> "runtime-default",
   shares |-> {}, hostUsers |-> "false", volumes |-> <<>>, annotations |-> "c" :> "unconfined",
   class |-> "gvisor", init |-> <<>>,
   containers |-> <<container("c", "nonRoot" :> FALSE @@ "drops" :> {"ALL"} @@ "apparmor" :> "other", {}, 0, ""),
                    container("d", "user" :> 7 @@ "readonly" :> TRUE @@ "apparmor" :> "unconfined"
                                     @@ "escalation" :> FALSE,
                              {volumeAt("tmp", <<"dev", "dri">>)}, 5, "0")>>]
rootSpec ==
  [kind |-> "oci", name |-> "o", cgroup |-> {[allow |-> TRUE, type |-> "", access |-> {}]}, uid |-> 0,
   nnp |-> TRUE, readonly |-> FALSE, bounding |-> {}, effective |-> {"SYS_ADMIN", "SETUID"}, seccomp |-> FALSE,
   apparmor |-> "", namespaces |-> {"pid", "ipc"}, uidMapped |-> FALSE,
   mounts |-> {[source |-> <<"/">>, dest |-> <<"h">>]}, devices |-> {<<"dev", "kfd">>}, memory |-> 0, pids |-> 1,
   masked |-> {}, gpu |-> ""]
limitedSpec ==
  [kind |-> "oci", name |-> "o", cgroup |-> {[allow |-> TRUE, type |-> "c", access |-> {"r"}]}, uid |-> 9,
   nnp |-> TRUE, readonly |-> TRUE, bounding |-> {"BPF"}, effective |-> {}, seccomp |-> TRUE, apparmor |-> "x",
   namespaces |-> {"pid", "ipc", "network", "user"}, uidMapped |-> FALSE,
   mounts |-> {[source |-> <<"home", "u">>, dest |-> <<"h">>]}, devices |-> {}, memory |-> 1, pids |-> 0,
   masked |-> {"kcore"}, gpu |-> "void"]
WorkloadSpecs == {privilegedPod, sandboxedPod, rootSpec, limitedSpec, [kind |-> "other"]}

\* Exceptions with and without a date.
ControlExceptions ==
  {{}, {[control |-> 4, expires |-> 2], [control |-> 15, expires |-> 0], [control |-> 1, expires |-> 2]}}

(***************************************************************************)
(* Vulnerabilities: two records of one package under the names its feeds   *)
(* spell it by, with aliases, two branches, and disorder in the events.    *)
(***************************************************************************)
event(kind, at) == [kind |-> kind, at |-> at]
osv(id, aliases, package, events) ==
  [parses |-> TRUE, id |-> id, aliases |-> aliases, ecosystem |-> "PyPI", package |-> package,
   range |-> [type |-> "ECOSYSTEM", events |-> events], severity |-> 3, symbols |-> {}]

Histories ==
  {<<event("introduced", 1), event("fixed", 2)>>, <<event("introduced", 2)>>,
   <<event("introduced", 1), event("fixed", 2), event("introduced", 3), event("fixed", 4)>>,
   <<event("fixed", 3), event("introduced", 2)>>, <<event("introduced", 1), event("last", 2)>>}
Named == {<<"CVE-1", <<>>>>, <<"GHSA-1", <<"CVE-1">>>>, <<"GHSA-1", <<"CVE-2", "CVE-1">>>>, <<"GHSA-2", <<>>>>}
simpleRecord == osv("CVE-1", <<>>, "lib-a", <<event("introduced", 1)>>)
Records ==
  {osv(n[1], n[2], p, h) : n \in Named, p \in {"Lib_a", "lib-a"}, h \in Histories}
  \cup {[simpleRecord EXCEPT !.parses = FALSE], [simpleRecord EXCEPT !.range.type = "GIT"],
        [simpleRecord EXCEPT !.ecosystem = "Rocky Linux", !.severity = 2],
        [simpleRecord EXCEPT !.symbols = {"parse"}]}
\* Two views, of which the second is by another name than the package's.
TwoRecords == {<<r, s>> : r \in Records, s \in {x \in Records : x.package = "lib-a"}}

coordinates(package, version) == [eco |-> "pypi", package |-> package, version |-> version]
component(purl, by, name, version) ==
  [purl |-> purl, foundBy |-> by, name |-> name, version |-> version, distro |-> "rhel"]
NoPurl == [eco |-> "", package |-> "", version |-> 0]
Inventories ==
  {<<component(coordinates("lib-a", v), "python", "lib-a", v), component(NoPurl, by, "Lib_a", w)>> :
     v \in {1, 3}, by \in {"python", "apk-db"}, w \in {0, 2}}

calm == [now |-> 0, vex |-> <<>>, waivers |-> {}, symbols |-> <<>>, kev |-> {}, epss |-> <<>>]
ScanPostures ==
  {calm,
   [calm EXCEPT !.now = 2, !.waivers = {[vuln |-> "CVE-1", package |-> "", expires |-> 1]}],
   [calm EXCEPT !.vex = <<[vuln |-> "GHSA-1", products |-> {}, status |-> "affected"],
                          [vuln |-> "CVE-1", products |-> {}, status |-> "fixed"]>>,
                !.symbols = "lib-a" :> {"other"}, !.kev = {"CVE-1"}, !.epss = "CVE-1" :> 50]}
FeedNames == "Lib_a" :> "lib-a" @@ "lib-a" :> "lib-a"
==============================================================================
