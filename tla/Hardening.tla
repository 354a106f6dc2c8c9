------------------------------- MODULE Hardening -------------------------------
(***************************************************************************)
(* Confinement (internal/harden, internal/modules/harden): a Kubernetes    *)
(* pod or an OCI runtime spec is parsed into workloads, eighteen controls  *)
(* are verified, and from the report and a recorded observation a bundle   *)
(* is built that an agent may apply: a securityContext patch, a seccomp    *)
(* and an AppArmor profile.  The trace grows, exceptions run out, and the  *)
(* agent applies bundles, between the commands.  A path is the sequence of *)
(* its components.                                                         *)
(***************************************************************************)
EXTENDS Integers, Sequences, FiniteSets

CONSTANTS
    Specs,        \* pods and OCI specs, see parseKubePod and parseOCISpec
    Syscalls, Bootstrap,   \* what a trace may show; bootstrapSyscalls \cap Syscalls
    Exceptions,   \* sets of [control, expires]; 0 never expires
    LastDay

VARIABLES
    host,     \* the spec on disk, the clock and the applied seccomp profile
    trace,    \* the observation recorded so far
    shown     \* what the last command said

hardeningVars == <<host, trace, shown>>

Quiet == [command |-> "none"]

(***************************************************************************)
(*                          Reading a specification                        *)
(***************************************************************************)
Has(r, k) == k \in DOMAIN r
field(r, k, default) == IF Has(r, k) THEN r[k] ELSE default

\* A pod manifest: the pod and each container, those of init apart, have a
\* context of which every field may be absent.
podFields == {"user", "nonRoot", "seccomp"}
containerFields == podFields \cup {"privileged", "readonly", "escalation", "adds", "drops", "apparmor"}

Listed(containers) ==
  /\ containers \in Seq({containers[i] : i \in DOMAIN containers})
  /\ \A i \in DOMAIN containers :
       LET c == containers[i]
       IN /\ DOMAIN c = {"name", "ctx", "mounts", "memory", "gpu"} /\ c.memory \in Nat
          /\ DOMAIN c.ctx \subseteq containerFields
          /\ \A m \in c.mounts : DOMAIN m = {"volume", "dest"}

aPod(s) ==
  /\ DOMAIN s = {"kind", "name", "ctx", "shares", "hostUsers", "volumes", "annotations", "class", "init",
                 "containers"}
  /\ DOMAIN s.ctx \subseteq podFields
  /\ s.shares \subseteq {"pid", "ipc", "network"} /\ s.hostUsers \in {"unset", "true", "false"}
  /\ Listed(s.init) /\ Listed(s.containers)

\* The config.json of an OCI runtime: the process, its mounts, what of the host
\* it shares, and the limits of its cgroup.
aRuntimeSpec(s) ==
  /\ DOMAIN s = {"kind", "name", "cgroup", "uid", "nnp", "readonly", "bounding", "effective", "seccomp",
                 "apparmor", "namespaces", "uidMapped", "mounts", "devices", "memory", "pids", "masked", "gpu"}
  /\ {s.nnp, s.readonly, s.seccomp, s.uidMapped} \subseteq BOOLEAN
  /\ {s.uid, s.memory, s.pids} \subseteq Int
  /\ \A m \in s.mounts : DOMAIN m = {"source", "dest"}
  /\ \A d \in s.cgroup : d.allow \in BOOLEAN /\ d.access \subseteq {"r", "w", "m"}

\* The container's setting, else the pod's, else the default.
settled(c, pod, k, default) == field(c.ctx, k, field(pod.ctx, k, default))

seccompMode(c, pod) ==
  IF field(c.ctx, "seccomp", "other") \in {"unconfined", "runtime-default", "localhost"}
    THEN c.ctx.seccomp
    ELSE LET p == field(pod.ctx, "seccomp", "")
         IN IF p \in {"unconfined", "runtime-default", "localhost"} THEN p ELSE ""

appArmor(c, pod) ==
  IF Has(c.ctx, "apparmor")
    THEN IF c.ctx.apparmor \in {"unconfined", "runtime/default", "localhost"} THEN c.ctx.apparmor ELSE ""
    ELSE field(pod.annotations, c.name, "")

\* An absent securityContext is one with no field; no-new-privileges follows
\* allowPrivilegeEscalation only where that is set.
kubeContainerWorkload(pod, c) ==
  [source |-> "kubernetes", name |-> <<pod.name, c.name>>,
   privileged |-> field(c.ctx, "privileged", FALSE),
   user |-> settled(c, pod, "user", -1),
   nonRoot |-> settled(c, pod, "nonRoot", FALSE),
   nnp |-> ~field(c.ctx, "escalation", TRUE),
   readonly |-> field(c.ctx, "readonly", FALSE),
   adds |-> field(c.ctx, "adds", {}), drops |-> field(c.ctx, "drops", {}),
   seccomp |-> seccompMode(c, pod), apparmor |-> appArmor(c, pod),
   shares |-> pod.shares, hostUsers |-> pod.hostUsers # "false",
   mounts |-> {[source |-> field(pod.volumes, m.volume, <<>>), dest |-> m.dest] : m \in c.mounts},
   devices |-> {}, memory |-> c.memory, pids |-> 0, masked |-> {}, gpu |-> c.gpu,
   class |-> pod.class]

\* Init containers come first.
parseKubePod(pod) ==
  LET all == pod.init \o pod.containers IN [i \in DOMAIN all |-> kubeContainerWorkload(pod, all[i])]

coversRWM(access) == access = {} \/ {"r", "w", "m"} \subseteq access

\* The OCI spec names the capabilities held, so everything else is dropped; a
\* namespace it does not list is the host's.
parseOCISpec(s) ==
  [source |-> "oci", name |-> <<s.name>>,
   privileged |-> \E d \in s.cgroup : d.allow /\ d.type = "" /\ coversRWM(d.access),
   user |-> s.uid, nonRoot |-> FALSE, nnp |-> s.nnp, readonly |-> s.readonly,
   adds |-> IF s.bounding = {} THEN s.effective ELSE s.bounding, drops |-> {"ALL"},
   seccomp |-> IF s.seccomp THEN "custom" ELSE "", apparmor |-> s.apparmor,
   shares |-> {"pid", "ipc", "network"} \ s.namespaces,
   hostUsers |-> ~("user" \in s.namespaces \/ s.uidMapped),
   mounts |-> s.mounts, devices |-> s.devices, memory |-> s.memory, pids |-> s.pids,
   masked |-> s.masked, gpu |-> s.gpu, class |-> ""]

\* The version or process and root make an OCI spec, kind, spec or containers a
\* pod; anything else gives no workload.
Parse(spec) == CASE spec.kind = "oci" -> <<parseOCISpec(spec)>>
                 [] spec.kind = "pod" -> parseKubePod(spec)
                 [] OTHER             -> <<>>

(***************************************************************************)
(*                              The controls                               *)
(***************************************************************************)
Critical == 5    High == 4    Medium == 3    Low == 2    Info == 1

dangerousCaps ==
  [critical |-> {"SYS_ADMIN", "SYS_MODULE", "SYS_RAWIO"},
   high     |-> {"BPF", "DAC_READ_SEARCH", "DAC_OVERRIDE", "SYS_PTRACE", "NET_ADMIN", "SYS_BOOT", "PERFMON",
                 "MAC_ADMIN", "MAC_OVERRIDE"},
   medium   |-> {"SYSLOG", "SYS_TIME", "SYS_RESOURCE", "NET_RAW", "MKNOD", "IPC_OWNER", "AUDIT_CONTROL",
                 "LINUX_IMMUTABLE"}]
dangerous == dangerousCaps.critical \cup dangerousCaps.high \cup dangerousCaps.medium
danger(c) == CASE c \in dangerousCaps.critical -> Critical [] c \in dangerousCaps.high -> High [] OTHER -> Medium

dockerDefaultCaps ==
  {"AUDIT_WRITE", "CHOWN", "DAC_OVERRIDE", "FOWNER", "FSETID", "KILL", "MKNOD", "NET_BIND_SERVICE", "NET_RAW",
   "SETFCAP", "SETGID", "SETPCAP", "SETUID", "SYS_CHROOT"}

\* A privileged workload "holds" the dangerous ones, and not SETUID.
heldCaps(w) ==
  IF w.privileged THEN dangerous
  ELSE IF "ALL" \in w.drops THEN w.adds ELSE (dockerDefaultCaps \cup w.adds) \ w.drops

result(id, sev, status, w, on) == [id |-> id, severity |-> sev, status |-> status, on |-> <<w.name, on>>]
verdict(id, sev, w, good, otherwise) == {result(id, sev, IF good THEN "pass" ELSE otherwise, w, "")}

checkPrivileged(w) == verdict(1, Critical, w, ~w.privileged, "fail")

checkRunAsRoot(w) == verdict(2, High, w, w.nonRoot \/ w.user > 0, IF w.user = 0 THEN "fail" ELSE "warn")

checkCapDropAll(w) ==
  IF w.privileged THEN {result(3, High, "na", w, "")} ELSE verdict(3, High, w, "ALL" \in w.drops, "fail")

\* Nothing, not a pass, where no dangerous capability was added.
checkDangerousCaps(w) ==
  IF w.privileged /\ w.source = "oci" THEN {}
  ELSE {result(4, danger(c), "fail", w, c) : c \in w.adds \cap dangerous}

checkNoNewPrivileges(w) == verdict(5, Medium, w, w.nnp, "fail")

checkReadOnlyRootFS(w) == verdict(6, Medium, w, w.readonly, "warn")

checkSeccomp(w) ==
  verdict(7, High, w, w.seccomp \notin {"", "unconfined"}, IF w.seccomp = "" THEN "warn" ELSE "fail")

checkAppArmor(w) ==
  verdict(8, Medium, w, w.apparmor \notin {"", "unconfined"}, IF w.apparmor = "" THEN "warn" ELSE "fail")

checkHostNamespaces(w) ==
  IF w.shares = {} THEN {result(9, High, "pass", w, "")}
  ELSE {result(9, High, "fail", w, k) : k \in w.shares}

isRuntimeSocket(p) == p # <<>> /\ p[Len(p)] \in {"docker.sock", "containerd.sock", "crio.sock", "podman.sock"}

checkDockerSock(w) ==
  LET bad == {m \in w.mounts : isRuntimeSocket(m.source) \/ isRuntimeSocket(m.dest)}
  IN IF bad = {} THEN {result(10, Critical, "pass", w, "")}
     ELSE {result(10, Critical, "fail", w, IF m.source = <<>> THEN m.dest ELSE m.source) : m \in bad}

\* The root and the graded prefixes; of the prefixes of a path the longest.
sensitiveHostPaths ==
  {<< <<"var", "lib", "docker">>, Critical>>, << <<"var", "lib", "kubelet">>, High>>, << <<"var", "run">>, High>>,
   << <<"etc">>, High>>, << <<"proc">>, High>>, << <<"dev">>, High>>, << <<"home">>, Medium>>, << <<"usr">>, Medium>>}

sensitiveMountSeverity(path) ==
  LET above == {s \in sensitiveHostPaths : Len(s[1]) <= Len(path) /\ SubSeq(path, 1, Len(s[1])) = s[1]}
  IN CASE path = <<"/">> -> Critical
       [] above = {}     -> 0
       [] OTHER          -> (CHOOSE s \in above : \A t \in above : Len(t[1]) <= Len(s[1]))[2]

checkSensitiveMounts(w) ==
  {result(11, sensitiveMountSeverity(m.source), "fail", w, m.source) :
     m \in {x \in w.mounts : x.source # <<>> /\ ~isRuntimeSocket(x.source) /\ sensitiveMountSeverity(x.source) # 0}}

checkMemoryLimit(w) == verdict(12, Medium, w, w.memory > 0, "warn")

checkPidsLimit(w) == verdict(13, Medium, w, w.pids > 0, IF w.source = "kubernetes" THEN "info" ELSE "warn")

checkUserNamespace(w) == verdict(14, Medium, w, ~w.hostUsers, "warn")

checkSetuidNeutralized(w) ==
  verdict(15, Medium, w, w.nnp /\ heldCaps(w) \cap {"SETUID", "SETGID"} = {}, "warn")

checkMaskedPaths(w) ==
  IF w.source # "oci" \/ w.privileged THEN {result(16, Medium, "na", w, "")}
  ELSE verdict(16, Medium, w, w.masked # {}, "warn")

accelerators == {"nvidia0", "dri", "kfd", "accel"}

\* Devices, mounts and NVIDIA_VISIBLE_DEVICES, which "none" and "void" switch off.
detectGPU(w) ==
  LET paths == w.devices \cup {m.source : m \in w.mounts} \cup {m.dest : m \in w.mounts}
      matched == {p \in paths : Len(p) >= 2 /\ p[1] = "dev" /\ p[2] \in accelerators}
  IN [present |-> matched # {} \/ w.gpu \notin {"", "none"}, all |-> w.gpu = "all"]

checkGPUDevices(w) ==
  IF detectGPU(w).present THEN {result(17, Medium, IF detectGPU(w).all THEN "fail" ELSE "info", w, "")} ELSE {}

checkGPUSharing(w) == IF detectGPU(w).present THEN {result(18, Medium, "info", w, "")} ELSE {}

Verify(w) ==
  UNION {checkPrivileged(w), checkRunAsRoot(w), checkCapDropAll(w), checkDangerousCaps(w),
         checkNoNewPrivileges(w), checkReadOnlyRootFS(w), checkSeccomp(w), checkAppArmor(w),
         checkHostNamespaces(w), checkDockerSock(w), checkSensitiveMounts(w), checkMemoryLimit(w),
         checkPidsLimit(w), checkUserNamespace(w), checkSetuidNeutralized(w), checkMaskedPaths(w),
         checkGPUDevices(w), checkGPUSharing(w)}

demote(sev) == CASE sev = Critical -> High [] sev = High -> Medium [] OTHER -> Low

severityFor(r) == CASE r.status = "fail" -> r.severity [] r.status = "warn" -> demote(r.severity) [] OTHER -> Info

Findings(rep) == {<<r.id, r.on, severityFor(r)>> : r \in {x \in rep : x.status \notin {"pass", "na"}}}

(***************************************************************************)
(*                            Runtime guidance                             *)
(***************************************************************************)
runtimeStrength(class) ==
  CASE class = "" -> 0 [] class \in {"gvisor", "runsc"} -> 2 [] class \in {"kata", "firecracker"} -> 3
    [] class \in {"runc", "crun", "youki"} -> 1 [] OTHER -> 0

RecommendRuntime(w, trust) ==
  LET rec == CASE trust = "hostile" -> "kata" [] trust = "untrusted" -> "gvisor" [] OTHER -> "runc"
  IN [recommended |-> rec, adequate |-> runtimeStrength(w.class) >= runtimeStrength(rec),
      note |-> detectGPU(w).present /\ rec # "runc"]

(***************************************************************************)
(*                          Generated profiles                             *)
(***************************************************************************)
\* A profile is its rule and what becomes of every other call.
EffectiveAction(p, s) == IF s \in p.named THEN "allow" ELSE p.default
Allows(p, s) == EffectiveAction(p, s) \in {"allow", "log"}

GenerateSeccomp(obs, audit) ==
  [named |-> Bootstrap \cup obs.syscalls, default |-> IF audit THEN "log" ELSE "errno"]

\* Over the calls that either profile names.
DiffSeccomp(old, new) ==
  LET names == old.named \cup new.named
  IN [blocked |-> {s \in names : Allows(old, s) /\ ~Allows(new, s)},
      allowed |-> {s \in names : ~Allows(old, s) /\ Allows(new, s)}]

GenerateAppArmor(obs) ==
  [caps |-> obs.caps, network |-> obs.network,
   rules |-> [p \in obs.reads \cup obs.writes \cup obs.execs |->
                {m \in {"r", "w", "ix"} : p \in (CASE m = "r" -> obs.reads [] m = "w" -> obs.writes [] OTHER -> obs.execs)}]]

(***************************************************************************)
(*                               The bundle                                *)
(***************************************************************************)
\* Variant: an exception never lapses.
activeForEver(e, now) == TRUE

activeAt(e, now) == e.expires = 0 \/ now < e.expires

ApplyExceptions(rep, exceptions, now) ==
  LET waived == {e.control : e \in {x \in exceptions : activeAt(x, now)}}
  IN {r \in rep : ~(r.id \in waived /\ r.status \in {"fail", "warn"})}

\* The keys of the patch for the failing controls, and their values.
patched(w, failing) ==
  {k \in {"privileged", "drops", "escalation", "nonRoot", "user", "readonly", "seccomp", "apparmor", "memory"} :
     CASE k = "privileged" -> 1 \in failing
       [] k = "drops"      -> failing \cap {1, 3, 4} # {}
       [] k = "escalation" -> failing \cap {1, 5, 15} # {}
       [] k = "nonRoot"    -> 2 \in failing
       [] k = "user"       -> 2 \in failing /\ w.user \in {-1, 0}
       [] k = "readonly"   -> 6 \in failing
       [] k = "seccomp"    -> 7 \in failing
       [] k = "apparmor"   -> 8 \in failing
       [] k = "memory"     -> 12 \in failing /\ w.memory = 0}

fix ==
  [privileged |-> FALSE, escalation |-> FALSE, nonRoot |-> TRUE, readonly |-> TRUE, drops |-> {"ALL"},
   user |-> 65532, memory |-> 512, seccomp |-> "localhost", apparmor |-> "localhost"]

\* What the bundle says it fixes: the failing controls that have a fix, those
\* a fix of another helps included.
addressed(w, failing) ==
  failing \cap ({1, 2, 3, 4, 5, 6, 7, 8, 15} \cup IF w.memory = 0 THEN {12} ELSE {})

BuildBundle(w, obs, exceptions, now, prior) ==
  LET effective == ApplyExceptions(Verify(w), exceptions, now)
      failing == {r.id : r \in {x \in effective : x.status \in {"fail", "warn"}}}
      seccomp == GenerateSeccomp(obs, ~obs.complete)
  IN [patch |-> patched(w, failing), addressed |-> addressed(w, failing),
      waived |-> {e.control : e \in {x \in exceptions : activeAt(x, now)}},
      warnings |-> {e.control : e \in {x \in exceptions : x.expires = 0}},
      seccomp |-> seccomp, apparmor |-> GenerateAppArmor(obs),
      mode |-> IF obs.complete THEN "enforce" ELSE "audit", diff |-> DiffSeccomp(prior, seccomp)]

\* Merging the patch into the container's securityContext and limits is the
\* agent's part: a key of the patch replaces the key, "drop" only its list.
Merge(c, keys) ==
  [c EXCEPT !.ctx = [k \in DOMAIN c.ctx \cup (keys \ {"memory"}) |-> IF k \in keys THEN fix[k] ELSE c.ctx[k]],
            !.memory = IF "memory" \in keys THEN fix.memory ELSE @]

(***************************************************************************)
(*                         Behaviour and commands                          *)
(***************************************************************************)
HardeningInit ==
  /\ \E s \in Specs, x \in Exceptions, d \in {"allow", "log", "errno"} :
       host = [spec |-> s, exceptions |-> x, day |-> 1, profile |-> [named |-> Bootstrap, default |-> d]]
  /\ trace = [syscalls |-> {}, complete |-> FALSE, caps |-> {}, network |-> FALSE,
              reads |-> {}, writes |-> {}, execs |-> {}]
  /\ shown = Quiet

\* The recorder (not part of this package) sees a call, with what goes with it.
Record(s) ==
  /\ s \notin trace.syscalls /\ ~trace.complete
  /\ trace' = [trace EXCEPT !.syscalls = @ \cup {s},
                            !.network = @ \/ s = "connect",
                            !.reads = @ \cup IF s = "open" THEN {<<"etc", "app.conf">>} ELSE {},
                            !.execs = @ \cup IF s = "execve" THEN {<<"etc", "app.conf">>} ELSE {}]
  /\ UNCHANGED <<host, shown>>

Believe == ~trace.complete /\ trace' = [trace EXCEPT !.complete = TRUE] /\ UNCHANGED <<host, shown>>

Expire == host.day < LastDay /\ host' = [host EXCEPT !.day = @ + 1] /\ UNCHANGED <<trace, shown>>

\* `harden verify`: 1 for a spec it does not recognise, and at the threshold.
RunVerify(trust, failOn) ==
  LET ws == Parse(host.spec)
      worst(n) == \E i \in DOMAIN ws : \E f \in Findings(Verify(ws[i])) : f[3] >= n
  IN /\ shown' = [command |-> "verify", results |-> [i \in DOMAIN ws |-> Verify(ws[i])],
                  runtime |-> [i \in DOMAIN ws |-> RecommendRuntime(ws[i], trust)],
                  exit |-> IF ws = <<>> \/ (failOn # 0 /\ worst(failOn)) THEN 1 ELSE 0]
     /\ UNCHANGED <<host, trace>>

\* The bundles of all workloads of a spec, from the library, which unlike the
\* command is given the exceptions and the profile applied before.
RunBundle ==
  LET ws == Parse(host.spec)
  IN /\ ws # <<>>
     /\ shown' = [command |-> "bundle", day |-> host.day, before |-> [i \in DOMAIN ws |-> Verify(ws[i])],
                  bundles |-> [i \in DOMAIN ws |-> BuildBundle(ws[i], trace, host.exceptions, host.day, host.profile)]]
     /\ UNCHANGED <<host, trace>>

\* `harden gen-profile` writes a profile in the mode asked for, complete or not.
RunGenProfile(audit) ==
  /\ shown' = [command |-> "gen-profile", seccomp |-> GenerateSeccomp(trace, audit), apparmor |-> GenerateAppArmor(trace)]
  /\ UNCHANGED <<host, trace>>

\* The pod after the agent merged every container's patch.
Hardened(spec, bundles) ==
  LET n == Len(spec.init)
      m(s, k) == [i \in DOMAIN s |-> Merge(s[i], bundles[i + k].patch)]
  IN [spec EXCEPT !.init = m(spec.init, 0), !.containers = m(spec.containers, n)]

Apply ==
  /\ shown.command = "bundle" /\ host.spec.kind = "pod"
  /\ host' = [host EXCEPT !.spec = Hardened(host.spec, shown.bundles),
                          !.profile = shown.bundles[1].seccomp]
  /\ shown' = [command |-> "applied", day |-> shown.day, before |-> shown.before, bundles |-> shown.bundles,
               after |-> LET ws == Parse(host'.spec) IN [i \in DOMAIN ws |-> Verify(ws[i])]]
  /\ UNCHANGED trace

HardeningNext ==
  \/ \E s \in Syscalls : Record(s)
  \/ Believe \/ Expire
  \/ \E t \in {"internal", "untrusted", "hostile"}, n \in {0, Medium, Critical} : RunVerify(t, n)
  \/ RunBundle
  \/ \E a \in BOOLEAN : RunGenProfile(a)
  \/ Apply

HardeningSpec == HardeningInit /\ [][HardeningNext]_hardeningVars

(***************************************************************************)
(*                               Properties                                *)
(***************************************************************************)
Failing(rep) == {r.id : r \in {x \in rep : x.status \in {"fail", "warn"}}}

\* The controls for which an exception has not lapsed on a day.
inForceOn(exceptions, day) == {e.control : e \in {x \in exceptions : x.expires = 0 \/ day < x.expires}}

\* bundle.go:104-105, "Addressed lists the control IDs this bundle fixes".
\* Merging a bundle makes no control of the workload fail that did not, but for
\* setuid where the patch replaces the list of drops: of a container that adds
\* the capability, neither its being privileged nor its own drop hides it any
\* longer.  What a bundle addressed no longer fails, but for dangerous or setuid
\* capabilities the container adds, which the patch leaves.  Any other control
\* that is left failing has no fix or is one the bundle records as waived, and for
\* each of those an exception was in force on the day the bundle was built: a
\* lapsed one hides nothing, however late the bundle is merged.  And a trace
\* believed complete gives a profile that runs what was seen and lists every call
\* of it that the profile before allowed otherwise.
BundleIsSound ==
  shown.command = "applied" =>
    \A i \in DOMAIN shown.after :
      LET b == shown.bundles[i]
          w == Parse(host.spec)[i]
          stays == (IF w.adds \cap dangerous # {} THEN {4} ELSE {})
                   \cup (IF heldCaps(w) \cap {"SETUID", "SETGID"} # {} THEN {15} ELSE {})
      IN /\ Failing(shown.after[i]) \subseteq
               Failing(shown.before[i]) \cup IF "drops" \in b.patch THEN {15} ELSE {}
         /\ b.addressed \cap Failing(shown.after[i]) = b.addressed \cap stays
         /\ Failing(shown.after[i]) \ stays \subseteq {9, 10, 11, 12, 13, 14, 17} \cup b.waived
         /\ b.waived \subseteq inForceOn(host.exceptions, shown.day)
         /\ \A s \in trace.syscalls : Allows(host.profile, s)
         /\ b.diff.blocked = {} \/ b.mode = "enforce"
=============================================================================
