------------------------------ MODULE Compliance -------------------------------
(***************************************************************************)
(* Compliance (internal/compliance) and the commands on it: `dsecrat bench *)
(* docker|k8s` runs a benchmark over an evidence snapshot, applies waivers *)
(* that expire, compares with an earlier report and gates; `dsecrat        *)
(* compliance scan` maps the findings of a scan onto the controls of the   *)
(* packs, with a register of waivers and attestations.  Between commands   *)
(* the estate changes, modules fail and time passes.                       *)
(***************************************************************************)
EXTENDS Benchmarks, SequencesExt

CONSTANTS
    DockerEvidence, ClusterEvidence,
    Scans,         \* [ran, errors: modules; findings: <<rule, severity>>]
    Books,         \* [waivers: of [control, benchmark, form, at]; register: of [kind, framework, id, expires]]
    Packs,         \* [framework, id, how, module, check, prefix, present]
    Day,           \* ticks of the clock in a day
    MaxTime

VARIABLES
    estate,   \* what is assessed, the registers and the clock
    kept,     \* the file of the last --out
    said      \* what the last command said

complianceVars == <<estate, kept, said>>

Silent == [command |-> "none"]

\* A control of a pack says how it is assessed and by which check of which module;
\* its findings are violations or, where presence proves it, evidence.
aPackControl(c) ==
  /\ DOMAIN c = {"framework", "id", "how", "module", "check", "prefix", "present"}
  /\ c.how \in {"automated", "manual", "inherited", "hybrid"} /\ {c.prefix, c.present} \subseteq BOOLEAN

aRegisterEntry(x) ==
  /\ DOMAIN x = {"kind", "framework", "id", "expires"}
  /\ x.kind \in {"waiver", "attestation"} /\ x.expires \in Nat

(***************************************************************************)
(*                          Benchmark reports                              *)
(***************************************************************************)
\* compareControlID: part by part, numerically.
idBefore(a, b) ==
  \/ \E i \in DOMAIN a \cap DOMAIN b : a[i] < b[i] /\ \A j \in 1..(i - 1) : a[j] = b[j]
  \/ Len(a) < Len(b) /\ \A i \in DOMAIN a : a[i] = b[i]

\* filterByLevel, Benchmark.Run: one result for every control at the level.
RunBenchmark(e, level) ==
  LET all == IF e.kind = "docker" THEN DockerControls ELSE ClusterControls
      at == {c \in all : level >= 2 \/ c.level # 2}
      status(c) == IF e.kind = "docker" THEN dockerCheck(e.evidence, c) ELSE clusterCheck(e.evidence, c)
  IN [id \in {c.id : c \in at} |->
        LET c == CHOOSE x \in at : x.id = id
        IN [status |-> status(c), level |-> c.level, waived |-> FALSE]]

\* A waiver with a date holds to the end of that day; without an expiry that
\* parses it never holds.
expiryTime(w) ==
  CASE w.form = "stamp" -> w.at
    [] w.form = "date"  -> w.at * Day + (Day - 1)
    [] OTHER            -> 0

\* Variant: a waiver with an expiry holds for ever.
activeOnceDated(w, code, now) == w.benchmark \in {"", code} /\ expiryTime(w) # 0

active(w, code, now) == w.benchmark \in {"", code} /\ expiryTime(w) # 0 /\ now < expiryTime(w)

\* Waivers.Apply keeps the status and marks the result.
ApplyWaivers(rep, waivers, code, now) ==
  [id \in DOMAIN rep |->
     [rep[id] EXCEPT !.waived = /\ rep[id].status \in {"fail", "warn"}
                                /\ \E w \in waivers : w.control = id /\ active(w, code, now)]]

Expiring(waivers, within, now) ==
  {w \in waivers : expiryTime(w) # 0 /\ now <= expiryTime(w) /\ expiryTime(w) < now + within}

effective(r) == IF r.waived /\ r.status \in {"fail", "warn"} THEN "info" ELSE r.status

having(rep, statuses) == {id \in DOMAIN rep : effective(rep[id]) \in statuses}

Counts(rep) == [s \in {"pass", "warn", "fail", "info"} |-> Cardinality(having(rep, {s}))]

\* The pass rate over what passed or failed; 100 when nothing did.  The code
\* truncates a float quotient, which may be one less (29 of 100), never at 100.
Score(rep) ==
  LET scorable == Cardinality(having(rep, {"pass", "fail"}))
  IN IF scorable = 0 THEN 100 ELSE (100 * Cardinality(having(rep, {"pass"}))) \div scorable

FailsAt(rep, warnAlso) == having(rep, IF warnAlso THEN {"fail", "warn"} ELSE {"fail"}) # {}

failGate(rep, failOn) == failOn # "" /\ FailsAt(rep, failOn = "warn")

\* Diff: by effective status; only between pass and fail or warn.
Diff(base, cur) ==
  LET both == DOMAIN base \cap DOMAIN cur
      from(id) == effective(base[id])
      to(id) == effective(cur[id])
  IN [regressed |-> {id \in both : from(id) = "pass" /\ to(id) \in {"fail", "warn"}},
      fixed |-> {id \in both : from(id) \in {"fail", "warn"} /\ to(id) = "pass"},
      new |-> DOMAIN cur \ DOMAIN base, removed |-> DOMAIN base \ DOMAIN cur,
      scores |-> <<Score(base), Score(cur)>>]

HasDrift(d) == d.regressed # {} \/ d.fixed # {} \/ d.removed # {}

\* BuildNarrative: the five first failures, level 1 before level 2.
topFailures(rep) ==
  LET ahead(i, j) == rep[i].level < rep[j].level \/ (rep[i].level = rep[j].level /\ idBefore(i, j))
      failing == having(rep, {"fail"})
  IN {i \in failing : Cardinality({j \in failing : ahead(j, i)}) < 5}

\* Findings: what did not pass, by effective status, and a summary.
severityFor(s) == CASE s = "fail" -> 4 [] s = "warn" -> 3 [] s = "info" -> 1

Findings(rep, code) ==
  {<< <<code, <<"summary">> >>, 1>>}
    \cup {<< <<code, id>>, severityFor(effective(rep[id]))>> : id \in having(rep, {"fail", "warn", "info"})}

(***************************************************************************)
(*                            Control packs                                *)
(***************************************************************************)
\* The report of the engine over the estate: the benchmark module says nothing
\* without evidence; a module that failed is in the list of runs, without findings.
EngineReport(e, scan) ==
  LET bench == IF "dockerbench" \in scan.ran \ scan.errors /\ hasDaemonEvidence(e.evidence)
                 THEN Findings(RunBenchmark(e, 2), "docker") ELSE {}
  IN [ran |-> scan.ran, findings |-> scan.findings \cup bench]

\* An empty check matches nothing; one that ends in "-" matches by its prefix.
matchingFindings(c, rep) ==
  {f \in rep.findings : c.check # <<>> /\ (f[1] = c.check \/ (c.prefix /\ f[1][1] = c.check[1]))}

violated(c, rep) == \E f \in matchingFindings(c, rep) : f[2] > 1

disposeAutomated(c, rep) ==
  LET ran == c.module = "" \/ c.module \in rep.ran
      good == IF c.present THEN matchingFindings(c, rep) # {} ELSE ran /\ ~violated(c, rep)
      bad == IF c.present THEN ran ELSE violated(c, rep)
  IN IF good THEN "Satisfied" ELSE IF bad THEN "Failed" ELSE "NotApplicable"

disposeControl(c, rep) ==
  CASE c.how = "automated" -> disposeAutomated(c, rep)
    [] c.how = "hybrid"    -> IF violated(c, rep) THEN "Failed" ELSE "Manual"
    [] OTHER               -> "Manual"

\* AttestationRegister.find: the entry must have an expiry that is still ahead.
registered(entries, kind, c, now) ==
  \E r \in entries : /\ r.kind = kind /\ r.framework = c.framework /\ r.id = c.id
                     /\ r.expires # 0 /\ now < r.expires

\* applyRegister: a waiver answers a failure, an attestation an open manual control.
applyRegister(d, c, entries, now) ==
  CASE d = "Failed" /\ registered(entries, "waiver", c, now)      -> "Waived"
    [] d = "Manual" /\ registered(entries, "attestation", c, now) -> "Satisfied"
    [] OTHER                                                       -> d

\* RunPacks; a framework no pack has is passed over.
RunPacks(e, scan, frameworks) ==
  LET rep == EngineReport(e, scan)
  IN [c \in {p \in Packs : p.framework \in frameworks} |->
        applyRegister(disposeControl(c, rep), c, e.register, e.now)]

controlsOf(res, f) == {c \in DOMAIN res : c.framework = f}
resolved(d) == d \in {"Satisfied", "Failed", "Waived", "NotApplicable"}

\* Coverage, per framework: all, resolved, and automatically satisfied controls.
Coverage(res) ==
  [f \in {c.framework : c \in DOMAIN res} |->
     [total |-> Cardinality(controlsOf(res, f)),
      resolved |-> Cardinality({c \in controlsOf(res, f) : resolved(res[c])}),
      automated |-> Cardinality({c \in controlsOf(res, f) : res[c] = "Satisfied" /\ c.how = "automated"})]]

Gaps(res) == {c \in DOMAIN res : res[c] \in {"Failed", "Manual"}}

\* oscalState: what is waived or not applicable is exported as satisfied.
oscalState(d) == IF d \in {"Satisfied", "Waived", "NotApplicable"} THEN "satisfied" ELSE "not-satisfied"

(***************************************************************************)
(*                               Commands                                  *)
(***************************************************************************)
ComplianceInit ==
  /\ \E b \in Books, kind \in {"docker", "k8s"} :
       \E e \in (IF kind = "docker" THEN DockerEvidence ELSE ClusterEvidence) :
         estate = [kind |-> kind, evidence |-> e, waivers |-> b.waivers, register |-> b.register, now |-> Day]
  /\ kept = [content |-> "absent"]
  /\ said = Silent

\* The host or the cluster changes.
Drift ==
  /\ said # Silent
  /\ \E e \in (IF estate.kind = "docker" THEN DockerEvidence ELSE ClusterEvidence) :
       estate' = [estate EXCEPT !.evidence = e]
  /\ said' = Silent
  /\ UNCHANGED kept

Tick ==
  /\ estate.now < MaxTime
  /\ estate' = [estate EXCEPT !.now = @ + 1]
  /\ said' = Silent
  /\ UNCHANGED kept

\* loadReport: the file of an export wraps the report, so that none of its fields
\* is one of a report's and nothing of it is read.
loadReport(file) == IF file.content = "payload" THEN <<>> ELSE file.report

\* os.Create empties the file before the baseline is read from it.
created(out, file) == IF out = "" THEN file ELSE [content |-> "empty"]

\* RunCommand of either benchmark.
RunBench(level, failOn, baseline, out) ==
  LET code == estate.kind
      rep == ApplyWaivers(RunBenchmark(estate, level), estate.waivers, code, estate.now)
      file == created(out, kept)
      readable == ~baseline \/ file.content = "payload"
      base == IF baseline /\ readable THEN loadReport(file) ELSE <<>>
  IN /\ said = Silent
     /\ UNCHANGED estate
     /\ IF readable
          THEN /\ kept' = CASE out = "json"  -> [content |-> "payload", report |-> rep]
                          [] out = "table" -> [content |-> "text"]
                          [] OTHER         -> kept
               /\ said' = [command |-> "bench", level |-> level, failOn |-> failOn, baseline |-> baseline,
                           report |-> rep, counts |-> Counts(rep), score |-> Score(rep), drift |-> Diff(base, rep),
                           top |-> topFailures(rep), expiring |-> Expiring(estate.waivers, 30 * Day, estate.now),
                           exit |-> IF failGate(rep, failOn) THEN 1 ELSE 0]
          ELSE kept' = file /\ said' = [command |-> "error", exit |-> 1]

\* Arguments that do not parse end it with 2; a snapshot or a file of waivers that
\* is not read, or an output that is not created, with 1, before anything is written.
RefuseBench(code) ==
  /\ said = Silent
  /\ said' = [command |-> "error", exit |-> code]
  /\ UNCHANGED <<estate, kept>>

RunDocker(level, failOn, baseline, out) == estate.kind = "docker" /\ RunBench(level, failOn, baseline, out)
RunCluster(level, failOn, baseline, out) == estate.kind = "k8s" /\ RunBench(level, failOn, baseline, out)

\* complianceScan runs the engine; the gate is closed by failed controls only.
RunScan(scan, frameworks, failOnGap) ==
  LET res == RunPacks(estate, scan, frameworks)
  IN /\ said = Silent /\ estate.kind = "docker"
     /\ said' = [command |-> "scan", results |-> res, coverage |-> Coverage(res), gaps |-> Gaps(res),
                 oscal |-> {c \in DOMAIN res : oscalState(res[c]) = "satisfied"},
                 exit |-> IF failOnGap /\ \E c \in DOMAIN res : res[c] = "Failed" THEN 1 ELSE 0]
     /\ UNCHANGED <<estate, kept>>

Frameworks == {p.framework : p \in Packs}

ComplianceNext ==
  \/ Drift \/ Tick
  \/ \E level \in {1, 2}, failOn \in {"", "fail", "warn"}, baseline \in BOOLEAN, out \in {"", "json", "table"} :
       RunDocker(level, failOn, baseline, out) \/ RunCluster(level, failOn, baseline, out)
  \/ \E code \in {1, 2} : RefuseBench(code)
  \/ \E s \in Scans, fs \in {Frameworks, {"unknown"}}, gate \in BOOLEAN : RunScan(s, fs, gate)

ComplianceSpec == ComplianceInit /\ [][ComplianceNext]_complianceVars

(***************************************************************************)
(*                               Properties                                *)
(***************************************************************************)
\* The gate of RunCommand (waiver.go:47-49, report.go:119-121).  Exit code 0 and
\* a score of 100 mean that every control that failed has a waiver for this
\* benchmark whose last day is not over, whatever was waived, expired or
\* repaired before.
covers(w, code) ==
  /\ w.benchmark \in {"", code} /\ w.form # "none"
  /\ estate.now < (IF w.form = "date" THEN (w.at + 1) * Day ELSE w.at)

excused(id) == \E w \in estate.waivers : w.control = id /\ covers(w, estate.kind)

GateIsHonest ==
  said.command = "bench" =>
    \A id \in DOMAIN said.report :
      LET status == said.report[id].status
      IN (status = "fail" /\ (said.score = 100 \/ (said.exit = 0 /\ said.failOn # "")))
           \/ (status = "warn" /\ said.exit = 0 /\ said.failOn = "warn") => excused(id)

\* What the collectors may not have seen.  The version and the platform of a cluster
\* say which controls are assessed and are not evidence for one.
Parts(kind) ==
  IF kind = "docker" THEN {"daemon", "info", "files", "containers"}
  ELSE {"api", "etcd", "kubelet", "files", "bindings", "roles", "accounts", "psa", "enforce", "namespaces", "policed"}

noInfo ==
  [version |-> noText, storage |-> noText, logging |-> noText, rootless |-> FALSE, liveRestore |-> FALSE,
   experimental |-> FALSE, options |-> {}]

\* The evidence without one part.
Without(e, part) ==
  CASE part = "daemon" -> [e EXCEPT !.daemon = FALSE, !.bool = <<>>, !.str = <<>>, !.list = <<>>]
    [] part = "info"   -> [e EXCEPT !.info = noInfo]
    [] part = "psa"    -> [e EXCEPT !.psa = FALSE]
    [] part \in {"files", "api", "etcd", "kubelet", "enforce"} -> [e EXCEPT ![part] = <<>>]
    [] OTHER           -> [e EXCEPT ![part] = {}]

\* The controls that do pass for want of a part: the storage driver (2.5) and the
\* experimental features (2.16) of a host that did not answer `docker info`, and Pod
\* Security (5.2.2) where a posture but no namespace was collected.
passesUnseen(e, part) ==
  CASE part = "info" -> {<<2, 5>>, <<2, 16>>}
    [] part = "namespaces" /\ (e.psa \/ DOMAIN e.enforce # {}) -> {<<5, 2, 2>>}
    [] OTHER -> {}

\* dockerbench/evidence.go:24-26, kubebench/checks_policy.go:13-14: what was not
\* collected degrades the controls that need it.  Withholding any part of the
\* evidence makes no control pass but the three above, which the code does let pass.
WithheldNeverPasses ==
  said.command = "bench" =>
    \A part \in Parts(estate.kind) :
      LET rep == RunBenchmark([estate EXCEPT !.evidence = Without(estate.evidence, part)], said.level)
      IN \A id \in DOMAIN rep \ passesUnseen(estate.evidence, part) :
           rep[id].status = "pass" => said.report[id].status = "pass"

\* docs/features/compliance.md:31: drift reporting "compares against an approved
\* baseline and flags the specific control that regressed".
RegressionIsReported ==
  said.command = "bench" /\ said.baseline /\ kept.content = "payload" =>
    \A id \in DOMAIN said.report \cap DOMAIN kept.report :
      effective(kept.report[id]) = "pass" /\ effective(said.report[id]) = "fail" => id \in said.drift.regressed
=============================================================================
