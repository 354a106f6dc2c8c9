# A formal model of docker-security

This directory holds TLA+ specifications of `dsecrat`, the container security
platform of this repository, with the TLC configurations that check them on
small instances and TLAPS proofs of what matters most for every instance. The
reference is the Go and C source under `src/`; where a comment, a document and
the code differ, the model follows the code and the difference is listed under
[Divergences](#divergences).

* `PROJECT.json` lists the components, the runs, the mutants, the hazards, the
  theorems, and for each definition the source lines it models.
* A run is `tlc -config <run>.cfg <Module>`, a proof `tlapm <Module>.tla`.
* An operator under a comment that begins with `Variant` is never used by a
  specification. It is what a plausible bug would make of the operator behind
  it: with it in place the property named in `PROJECT.json` fails, which shows
  that the property depends on that code.

## 1. The system

`dsecrat` is one binary with a scan engine and some twenty modules, and
`dsecrat-runtime` a sensor that runs on a node. Most modules are functions from
one document (a Dockerfile, a manifest, an image layer, a benchmark) to
findings. The state, and what is hard, is in the parts below.

| Component (source under `src/`) | State it keeps | Operations | Works with | What is hard about it | Correct if |
|---|---|---|---|---|---|
| Runtime daemon and rules (`internal/runtime/daemon.go`, `rule*.go`, `state.go`, `response.go`, `exceptions.go`, `output.go`) | ring of recent events, marks of what was seen per container, records | receive an event, run sixteen rules, suppress or handle each detection, return the sorted result | event source, sinks, responder, forensics | host changes under the response; sinks, forensics and docker fail; memory that silences repeats | no detection lost or doubled, evidence is the right window, nothing destroyed unarmed |
| Live sensor (`ebpf_linux.go`, `bpf/sensor.bpf.c`, `cmd/dsecrat-runtime`) | kernel ring buffer, pump, bounded channel, parked error | read, send, next, close, arm, exit | kernel programs, daemon loop | four concurrent parties and a random `select` | order and numbers kept under backpressure; a signal or a dead reader ends the run |
| /proc source (`procparse.go`, `procsource_linux.go`) | last snapshot, queue, counter | poll, drain, end | host process table, daemon loop | the table changes while it is read | a process that stays is reported, connections follow their process |
| Evidence store (`forensics.go`) | one file per evidence digest | stat, create, write | several sensors | races, torn writes, crashes | write-once |
| Watch loop and engine (`internal/watch`, `internal/engine`, `internal/connector`) | previous report, cached image and advisory database | cycle, scan, diff, dispatch, stop | modules, connectors, observer | modules and connectors fail, the target changes, tick races signal | deltas add up, a failure is contained, changes are seen |
| Advisory refresh (`modules/vuln/command.go`, `vulndb/nvd.go`) | ticker, window, page index, database file | tick, fetch a page, write, rename, stop | NVD, cron runs on the same file | list changes between pages, index lag, lost ticks, crashes | no modified CVE slips, the file is whole, SIGTERM ends it |
| Scan store (`internal/store`) | index under a lock, a file per scan | put, load, crash, reopen | HTTP and MCP clients | the save happens outside the lock; crashes | acknowledged scans survive, memory agrees with disk |
| Admission webhook and policy engine (`internal/admission`, `internal/policy`) | compiled policy; per review a workload and a verdict | parse, validate and evaluate a condition; flatten an object; review, evaluate an image, aggregate | API server | binding and nesting of conditions, defaults that override either way, errors and waivers in any mix over many images | a condition means what its author wrote, a risk of any container is seen, errors and denials deny |
| Transparency log (`sig/merkle.go`, `sig/translog.go`) | entries, signed heads | append, sign, prove, verify | sign, verify | index arithmetic on unbalanced trees; failing signer | every record verifies, nothing else does |
| Sign, attest, verify (`modules/verify`, `sig`, `attest`) | bundle file, referrers in a registry | load, extend, push, write; verify under a policy | registry, log | several processes on one file, crashes, failed pushes | what passes was vouched for by an accepted key |
| Registry client (`internal/registry`) | what the registry holds | put and get referrers | any registry, with or without the referrers API | every request may fail | what is listed is whole, what is attached is found |
| Version matching (`internal/vulndb/version*.go`, `match.go`) | none | compare two versions under one of seven schemes, place a version in an advisory's range | advisory database, SBOM | tokenizers that treat odd input differently per branch | well-formed versions are totally ordered, an upgrade does not undo a fix |
| RBAC analysis (`internal/rbac`) | none between calls; visited set and queue of a search | resolve bindings, "who can", build escalation steps, search for a target, score an identity | cluster documents | scope of a grant, wildcards, omitted kinds, cycles of identities | a reported path is real, none is missed |
| OCI loader (`internal/oci`) | the tree of files, layer by layer | read a layer, apply its whiteouts, add its files | every module that looks into an image | order within a layer and between layers | the tree is the union of the layers with what they remove taken out |
| Plugin host (`internal/plugin`) | the modules registered, one child process a run | read the manifests of a directory, run a plugin against a deadline, collect and decode its answer | engine, child and its helpers | a child that hangs, floods, crashes or leaves a helper holding the pipe | a run that was cut short is no answer; the caller gets back in time |
| MCP server and scan queries (`internal/mcp`, `store/query.go`, `store/ingest.go`) | audit log; the store | read a request, gate a mutation, scan, keep, query, explain, plan | agents over stdio or HTTP, scan store | sessions side by side, clients that leave, saves that fail, an index iterated in any order | nothing is kept that the log does not allow; the latest scan decides |
| Docker authorization plugin (`internal/authz`) | the policy and a lazily filled index | decide one proxied request | Docker daemon | handlers share the index without a lock | denied means a rule was broken, allowed that none was |
| Container attribution (`ebpf_linux.go`, `runtimeevents.go`) | two caches, never invalidated | look up the cgroup of a record | live sensor, cgroup file system, docker or nerdctl | the cgroup may be gone or another's by then; the command fails | what is known of a container does not change |
| Network monitor and policies (`internal/netmon`, `modules/netpolicy`) | flows recorded so far, a deployed policy | report, generate a policy, dry-run it, compare two | flow captures | order of arrival, ties, flows without a descriptor | a report depends on the flows only; a policy lets its own baseline pass |
| Benchmarks and compliance (`modules/dockerbench`, `modules/kubebench`, `internal/compliance`) | reports kept as baselines, waivers with dates | assess, waive, score, gate, compare, evaluate packs | evidence, modules of the engine | missing evidence, failed modules, lapsed waivers, a baseline from another run | a passing gate hides no failure; withheld evidence passes nothing but three controls |
| Hardening (`internal/harden`) | none between commands; exceptions with dates | verify eighteen controls, build a bundle, compare seccomp profiles | pods, runtime specs, recorded traces | controls fixed by one patch and undone by another, traces that grow | what the bundle says it fixes is fixed and what ran keeps running |
| Advisory database (`internal/vulndb`, `modules/vuln`) | merged advisories | fold feeds, match an SBOM, apply VEX and waivers, propose a fix | feeds, SBOM, policy | order of feeds, aliases, several ranges | no record is lost in folding |
| Benign documents: manifests, Dockerfiles, image configurations, SBOM, licenses, malware, secrets, reports, UI, CLI | none | one pass over one document | | none of it is order or state | not modelled |

## 2. The modules

One module per component; what a component promises is a specification of its
own where it is shorter than the component.

| Module | Models | Abstracts |
|---|---|---|
| `RuntimeRules` | the sixteen rules as functions of one observation and the detector's state, exceptions, the response plan | what a rule reads of a path, address or argument list is a member of `hits`; the tables behind it are data |
| `DetectionLedger` | abstract: a detection is owed once, settled once, and the run closes with none owed | everything else |
| `RuntimeDaemon` | the event loop of `Run` and `handle`: ring, detections in rule order, exceptions, responder, forensics, multi-sink, final stable sort; the host around it | wall-clock time; text of records |
| `MCRuntimeDaemon` | small instances of it as definitions | |
| `EventFeed` | abstract: the contract of `EventSource` | where events come from |
| `LiveSensor` | probes and kernel ring, pump goroutine, channel, `Next`'s `select`, `cmdRunLive` from arming to exit code | attaching the probes; decoding but for "does not decode" |
| `ProcSource` | a snapshot's races with the host, the difference of two, queue and numbering, end of stream | /proc text formats |
| `ContainerAttribution` | `cgroupAttributor.lookup` and `ContainerResolver.ByCgroup` with their caches, beside cgroups that come and go | a path is whose cgroup it is |
| `Sensors` | one of the two sources against `EventFeed`, or the attribution | |
| `ForensicsStore` | `WriteToDir` of several sensors step by step | the digest is injective |
| `ScanInventory` | abstract: a durable map with acknowledgements | |
| `ScanStore` | `Put` (index under the lock, save after it), crash, `Open` | contents of a scan |
| `ScanQueries` | the queries of `query.go`, explanations and plans, as functions of a sequence of scans in any order | an id is a number; names have an order and a case |
| `AgentServer` | the MCP server: stdio loop and HTTP handlers, the mutation gate, the audit log, `RunAndBuild`, `persist`, the tools | JSON; the text of answers |
| `TransparencyLog` | roots, paths and the verifier's walk; append, sign, reopen | SHA-256 is free of collisions: a hash is the term it was computed from |
| `ReferrerClient` | `PutReferrer` and `fetchBundleFromRegistry` request by request | blob sizes, tags, layouts |
| `Backends` | scan store, evidence store, registry or agents, one at a time | |
| `WatchLoop` | `Watcher.Loop` and `Run`, `Engine.Run` module by module, the two caches, `Diff`, `Dispatch` | a finding is its key |
| `AdvisoryRefresh` | `runUpdateDaemon` and `cmdUpdate`, the paged fetch, `writeDB`, beside a clock, NVD and cron | advisory contents: a CVE is the time of its last change |
| `PluginHost` | `LoadDir` and `RegisterDir`, `Analyze` with deadline, group kill, `WaitDelay` and the output cap | output is counted in pieces |
| `ScannerProcesses` | watch loop, refresh daemon or plugin run, one at a time | |
| `PolicyLanguage` | conditions of rules: parser, validation, evaluation | the characters of a token; three builtins stand for all |
| `Workload` | locating and flattening the pod of an object | references and names; one added capability |
| `AdmissionGate` | `Review`, image by image, and `decide` of the policy engine | what conditions yield and waivers cover: data of the request |
| `SigningFlow` | the verdict on a bundle (trust root and policy, log proofs, attestations, requirements); `sign` and `attest` as processes on one bundle file and one registry | signatures are unforgeable: an envelope names its signers |
| `Authorization` | one decision per request, `Evaluate` with the index filled by whoever comes first | a path is its components |
| `Gates` | webhook (object or review), signing flow or authorization plugin, one at a time | |
| `NetworkMonitor`, `NetworkPolicy` | canonical order, flow logs, detectors; posture, generation, dry run, difference of policies | hosts and ports are members of ordered sets; query names are their entropy and length |
| `Benchmarks`, `Compliance` | the controls of both benchmarks; report, waivers, score, gate, drift, packs, register | evidence is what the checks tell apart |
| `Hardening` | parsing of pods and runtime specs, controls, capabilities, seccomp and AppArmor, the bundle and its application | syscalls and capabilities are names |
| `VulnerabilityScan` | folding of feed records, matching, VEX, waivers, reachability, priority, fix | a version is a number (how they compare is `VersionOrder`'s) |
| `Posture` | network, compliance, hardening or vulnerabilities, one at a time | |
| `VersionOrder` | the seven comparators, `inRange`, a package that is upgraded and downgraded | a word of a version is one symbol; prefixes `v` and `=` |
| `PermissionGraph` | bindings to grants, `SubjectPermissions`, `WhoCan`, the escalation steps | names of other resources; reasons |
| `EscalationSearch` | `bfsToTarget` and `scoreIdentity` over any graph, one principal a step; over the graph of a cluster | the reasons told with a path |
| `IdentityRisks` | `LoadPath` file by file, every check of `checkAll`, identities of pods and hosts, the exit code | text of a risk |
| `OCILayers` | `layerFromTar`, `Flatten` layer by layer | file contents, size limit, finding the layers |
| `Analyses` | versions, escalation, identities, layers, conditions, logs or `Posture`, one at a time | |
| `RuntimeDaemonProofs`, `ScannerProcessesProofs`, `GatesProofs`, `BackendsProofs`, `SensorsProofs`, `AnalysisProofs` | theorems, section 5 | |

`Sensors`, `Backends`, `ScannerProcesses`, `Gates`, `Posture` and `Analyses` compose
components that share no state and never run against each other: a sensor has
one source, each backend has its own files, a gate gets the value of a
condition, an analysis is computed from its input. A selector variable, fixed in
the initial state, says which component takes the steps. Their behaviours are
therefore those of one component, never an interleaving nobody can have; what
the components have in common, like the `EventFeed` contract or that what is
started ends (`ProcessesEnd`), is said once of all. The small instances that TLC
is given stand at the end of these modules, and those of the daemon, about which
theorems are proved, in `MCRuntimeDaemon`.

Where components do interact the composition is a conjunction inside one module:
`AgentServer` puts scans into the store `ScanQueries` reads while other sessions
query it, `WatchLoop` runs the engine, its modules and the connectors,
`NetworkPolicy` and `Compliance` work on what `NetworkMonitor` and `Benchmarks` report.

How state and actions correspond to code is in the comments of each module and,
by line, in `PROJECT.json`. The conventions are these.

* A step is the code between two points at which another party can be seen or
  can see: a channel operation, a lock, a system call, a request. `RuntimeDaemon`
  takes one step per detection, for the host can change between two; its
  responder's calls are part of that step, so a `kill` looks at the host once,
  as `syscall.Kill` does.
* A call that can fail is a disjunct of its own (`SaveFails`, `PushFails`,
  `TagFault`) and counts against a bound. Where the code drops the error, the
  outcomes are a choice inside the step (`Emit`, `quarantine`, `evidence`, `inspected`).
* A command that is computed from files is one step from its inputs to its report;
  between two commands the estate changes, time passes, exceptions lapse.
* A crash resets the variables of the process and nothing else. A file that is
  being written is left empty, torn or as it was.
* What the code computes from text is an attribute: `hits` of an observation,
  `yields` of a request, `log` of an entry.

## 3. The runs

| Run (module) | Question | Bounds, and why they are enough |
|---|---|---|
| `daemon_detect` (`MCRuntimeDaemon`) | Evidence window, fate of drift, progress and the ledger, with exceptions that match by container and by path | 3 events of 5 kinds, window of 2: the ring wraps, a binary is seen twice in one container and once in another, numbers repeat, three rules fire on one event, two of them out of identifier order; unarmed, so the host's steps are left out (`Pids = {}`) |
| `daemon_response` (`MCRuntimeDaemon`) | What may be destroyed, what a sink and the result get | 2 events, 2 PIDs of 2 lives: a process exits and its PID is taken over before the response; two sinks fail independently; all three actions occur |
| `sensors` | Steady attribution, end of a run, steady processes, the feed contract with its numbering | capacity 1 of ring and channel with 3 records makes every queue full; 2 PIDs, 2 executables, 2 execs, one snapshot that misses a process; 2 cgroups and 2 containers with 3 records and 3 comings and goings: an id is reused, and a container has two cgroups |
| `processes` (`ScannerProcesses`) | Deltas add up, a failure is contained, changes are seen; the file is whole and no CVE slips; findings are whole; what is started ends | 2 modules, one of them behind the advisory cache, directory or image target, unbounded or 2 cycles, one change, one failure; 2 CVEs on pages of 1, clock to 5 with interval and slack 2, which is a second tick, one fault of any kind, one CVE and clock 2 beside a cron run; an answer of 2 pieces under a cap of 3 with up to 4 written, so that answers are short, exact and too long, with a helper that holds the pipe |
| `gates` (`Gates`) | Errors and denials deny; flattening hides no risk; what passes was vouched for, exit code 0 is kept; the plugin decides as written | every policy of 2 rules, every yield and waiver of 2 images in both orders; pods of up to 2 containers in any of the three lists under all pod contexts; 3 commands by 2 processes, 2 keys, 2 digests, 1 fault, each bundle left held against 64 gates; 2 requests side by side against 9 policies, one container for each rule and near misses |
| `backends` (`Backends`) | Durable map, acknowledged is served, write-once; what is listed, what is found; persisting is audited; the latest scan decides | scans: 2 clients, 2 ids, 2 faults, so that saves of one id overlap and a crash follows a failure; evidence: 2 sensors, 2 bundles; 2 bundles and 2 foreign ones against all four kinds of registry, 2 faults; 2 agents, 3 messages, two moments of time so that scans tie, one failed save, stdio or HTTP, with and without a store and the mutation switch |
| `analyses` (`Analyses`) | Versions are ordered; searches are exact; hops are reported; the tree is the overlay; conditions mean what is written and fail for types only; what is in the log verifies and nothing else; captures decide; passes are earned; bundles are sound; no record is lost | versions of up to 3 symbols of each scheme, and some longer ones, in all pairs and triples; all clusters of up to 3 of 17 bindings, whose roles hold every escalation primitive, over 5 principals in 2 namespaces; exports of up to 3 files, one of which may not parse, and directories that cannot be listed, with the admin role beside the one that leads to it, with and without `--who-can`; up to 3 layers of up to 2 entries, 4 in all, over a directory that one layer has as a file; conditions grown twice from every kind of term, with a depth limit of 6 that a part of them exceeds; logs of up to 5 entries, which are the unbalanced trees, forged paths over logs of up to 4; 3 of 10 flows in every order; benchmarks over complete, partial and no evidence, of which each part is withheld in turn, with waivers that hold, are on their last tick and have lapsed; pods and runtime specs with and without capabilities and traces, exceptions without a date and one that lapses on the day its bundle is built; every pair of feed records over 2 components |
| `admission_fail_open`, `store_oversized`, `referrers_no_api`, `posture_baseline`, `fix_downgrades` | Five statements of the sources the code does not keep, section 6 | the smallest instance that shows it |

`analyses` and the two runs of `Posture` end when a result is there, so these do
not check for deadlock; every other run does. A component that has finished
stutters explicitly (`Done`, `Stop`, `Stopped`, `AllRun`, `AgentsDone`).

Some properties conjoin two statements about one hazard, which the component's
module also defines one by one: `RecordsReachAll` (each healthy sink, and the sorted
result), `RulesMeanWhatTheySay` (parsing, and evaluation), `BundleIsKept` (one subject,
and nothing lost by a command that ended with 0), `BundlesAreFound` (what is listed
is complete, what is attached is found).

## 4. Fairness

Liveness is stated under these assumptions and no others.

* `RuntimeDaemon`: weak fairness of `Settle`. The loop never waits while it
  settles a detection: docker and webhook calls have time limits and every
  error is dropped.
* `LiveSensor`: weak fairness of the pump, of `NextEvent` and of `Exit`, because
  goroutines run on. Strong fairness of `NextError` and `NextDone`: Go chooses at
  random among the ready branches of a `select`, so a branch that stays ready
  is taken in the end, however many events compete with it. Reading is not
  assumed to fail, signals are not assumed to come.
* `ProcSource`: weak fairness of `Drain`, of `Cancelled` and of a poll that
  misses no process: the daemon calls `Next` again and again, and a snapshot
  does not miss the same process for ever.
* `WatchLoop`: weak fairness of the loop's steps (modules and connectors
  return) and of the ticker; strong fairness of `Stop`, again a `select`.
* `AdvisoryRefresh`: weak fairness of an updater's own steps and of `TickRefresh`,
  strong fairness of `Stop`. Nothing is assumed of `Page`: the HTTP client has
  no time limit, and a request may stay unanswered for ever. `ProcessesEnd`
  holds all the same, for a request ends with its context.
* `PluginHost`: weak fairness of the two timers (`Deadline`, `DelayOver`) and of
  `Return`. Nothing is assumed of the child: it may hang and its helper may keep
  the pipe for ever.

No fairness is assumed of users, hosts, clocks, faults and crashes.

## 5. What is proved

All theorems hold for every value of the constants allowed by the named
assumptions (`DaemonAssumption`, `WatchAssumption`, `RefreshAssumption`,
`PluginAssumption` of `ScannerProcesses` and of `Gates`, `GateAssumption`,
`SigningAssumption`, `StoreAssumption`, `BackendsAssumption`, `EstateAssumption`,
`SearchAssumption`, `RosterAssumption`, `PostureAssumption`, `EvidenceAssumption`, `HostAssumption`), in particular for any number of events, processes, sinks, issues, CVEs, clients, ids,
faults, rules, images, keys, callers, bundles, sessions and principals. What the
assumptions say is what the Go types say (a count is a natural number, a flag a
Boolean, a slice a sequence, a decoded document has the fields of its type:
`EvidenceAssumption`, `ManifestAssumption`, `TelemetryAssumption`, `FeedAssumption`,
`ExportAssumption`, `anEvent`), that the placeholders for "nothing" are no values,
and that the sets which are counted are finite.

A composition is one component with the others at rest. Its proof module first
shows that: `GatesImplementComponents` and `BackendsImplementComponents` say that a
behaviour of the composition in which a component is selected is a behaviour of
that component. Each invariant then has one proof over its component's `Next`.

`RuntimeDaemonProofs`:

* `TypeCorrect`: `TypeOK` is inductive as it stands.
* `RingCorrect`: the ring's slice is the most recent events, oldest first, for
  every window size, zero and negative ones (which mean 32) included. The
  inductive invariant `RingInv` says where each of the last `Size` events lies:
  event `i` in slot `(i - 1) % Size + 1`, and `n` counts the events. The work is
  in the arithmetic of `push` at the moment of the wrap.
* `EvidenceIsWindow`: a sealed window is the one that ended with the triggering
  event and does not change its meaning as the stream goes on. It needs
  `RingCorrect` when the record is made and `WindowStable` afterwards.
* `LedgerImplemented`: the daemon implements `DetectionLedger`. The inductive
  invariant `LedgerInv` says that what is pending belongs to the last event, that
  records and suppressions belong to events seen, and that no detection is in
  two of the three places or twice in one.
* `DestructionIsGated`: whatever was killed, paused or cut off has a record that
  justifies it. `EffectsType` carries the types of the effects.
* `DriftIsNoStorm`: no two drift detections, pending, recorded or suppressed, are
  of one binary in one container. `DriftInv` says that a mark of the detector and
  a detection of drift go together: each mark has the event that set it
  (`firedOn`), and each event seen that drifts has its mark.
* `DriftIsReportedOnce` adds that none is missing: every drifted exec has a
  record, a pending detection or an exception. It has two hypotheses, which the
  run's instance satisfies and without which the claim is false. `KeysTellContainersApart`:
  events that agree in the detector's key are of one container. `ExceptionsCoverBinaries`:
  an exception that matches one exec of a binary matches all, for the rule marks
  the binary before exceptions are consulted (section 6).
* `RecordsReachEveryone`: a sink that never failed has every record in the order of
  detection, and what `Run` returns is the records in canonical order. `ResultInv`
  follows the sinks record by record. That the sort loses and repeats nothing is
  shown without induction: a record's place is the number of those before it in
  the order, `PrecedesIsOrder` makes places distinct, and as many distinct
  places as records take them all.

`ScannerProcessesProofs`:

* `FailuresAreIsolated`: while nothing changes, the modules whose findings are missing
  from a report are no more than the failures. `WatchInv` needs for it that the
  caches agree with the world until the first change.
* `DeltasFoldToReport`: whoever folds the deltas has the last report. Inductive as it
  stands, by what `Diff` takes away and adds.
* `DatabaseStaysWhole`: without a cron run beside the daemon no reader ever meets a
  half-written database. `RefreshInv` says that the daemon is the sole writer and
  what is in its file at each step between opening and renaming.
* `NoChangeSlips`, under `RefreshKeepsUp`: the first pull is full and pages are not
  capped, the API takes changes in within `Lag`, which with a refresh's `MaxFetch` is no
  more than the slack, and a window with as many suspensions as faults allow is not
  longer than NVD answers. The run's instance satisfies it. `FetchInv`, which holds
  beside a crontab and through faults, is the paging argument: what is owed is
  fetched or still ahead in the list, whatever is added to it (`PagesAhead`); the
  number of CVEs listed before one only grows (`PositionGrows`), so that no induction
  over pages is needed. `TickerInv` bounds how late a tick is taken, and `CollectedInv`
  says that what is settled is in a database or owed to the refresh under way; a
  refresh that begins while SIGTERM is pending is exempt, for it never ends.
* `PluginFindingsAreWhole`: what a plugin run delivers as its findings is all it wrote,
  whatever its helper does with the pipe. `PluginInv` relates the pieces read
  to the pieces written under the cap, timer by timer.

`GatesProofs`:

* `ReviewInvariant`: an image the policy denies is either still on the queue or
  has denied the workload, and an answer follows the verdict. It is inductive
  because `merge` never takes a denial back and because evaluating the first image
  takes no other one off the queue (`OthersStayPending`). `ErrorsDeny` and
  `OneDenialDenies` follow, by what `decide` makes of an error and of a clean denial.
* `FlattenedConservatively`: `ObjectInv` is the object's shape as the API server
  would accept it; `RootIsSeen` is the case that is easy to get wrong, where the pod's
  context and a container's disagree.
* `FlowInvariant`: `FlowType`; `AboutInv`, that every bundle, in memory, in the file or
  in the registry, is about one digest; `PushedInv`, that what a command pushed stays;
  `AppendedInv`, that without a race what a process holds continues what the finished
  ones wrote. `BundlesAreKept` follows from the last three. `PassesAreVouchedFor` needs
  `AboutInv` only, and what the verifier computes from a bundle: a pass implies an
  accepted signer (`PassMeans`), and one bad attestation prevents it (`DistrustFails`).
* `PluginInvariant`: of the capability index of the authorization plugin, which
  whoever comes first makes and then fills, either it is complete or somebody
  filling it has the rest left. `DecisionsAsWritten` follows: a decision differs
  from the policy only while the index is being filled, and then in
  `AddedCapIsDenied`'s case (section 6) alone.
* `InclusionsAreExact`, for every log of any length: by induction over the length, in both
  directions at once (`exact`). The heart is `WalksOfHalf`: the verifier's walk in a tree
  and the one in the half that holds the leaf go up side by side (`abreast`), the two
  indices equal on the left and a power of two apart on the right, until the half's root.
  No test the walk makes can tell them apart before: that power is even while it is
  above 1 (`PowerIsEven`), and the ascent of the right spine takes both the same way
  (`SpineShifts`), or, when the half is a lone leaf, to the root (`SpineOfPower`). So a
  path verifies in the tree if and only if all but its last element verifies in the half
  and the last is the other half's root. Each recursion of the tree defines a function, as
  its calls are on smaller arguments (`RecursionIsDefined`). `LogInv` says that a
  record holds the checkpoint and the path of a signed log's last entry.

`BackendsProofs`; the scan store's part under `Oversized = {}` (every record is one
`load` accepts; the run `store_oversized` shows what happens otherwise):

* `TypeCorrect`, and `StoreInvariant`: a client about to rename holds its whole
  scan, one about to return has put a record in place, the directory holds no
  torn record and one for each acknowledged id, and what is on disk or on its way
  there is in the index. `AcknowledgedIsServed` follows.
* `MemoryAgrees`: needs `AgreeInv`, by which an id whose saves neither failed nor
  overlapped has at most one `Put` under way, whose scan the index holds already
  and, once renamed, the file holds too.
* `StoreImplementsInventory`: a rename is a commit, a return an acknowledgement,
  every other step, crash and restart included, a stutter.
* `SealedIsKept`: evidence once whole is never written again, by any number of
  sensors. `HolderInv`: a file that is open for writing is empty and has one writer.
* `AttachedBundlesAreFound`: a listing that ends without an error is complete, and a
  bundle that is attached is found unless a fault hid it. `FetchInv`: each bundle
  that is sought is ahead of the reader or was hidden by a fault. It needs that an
  enumeration of a finite set leaves nothing out (`EnumerationCovers`).
* `KeptScansAreAudited`: the attempts to keep a scan that the server has gated are the
  entries of its log, one each, and nothing is stored that the log does not allow.
  `AuditInv` ties the four together: `WorkInv` (who is at work with leave to persist),
  `LogInv` (an attempt is logged when it left the gate), `EntryInv` (what an entry
  says), and `KeptInv`, which counts what is stored against the entries that are
  finished and so needs cardinalities.
* `AgentsReadTheLatest`, for any reports the scans of any targets may have
  (`EstateAssumption`: a scan is asked of a target there is, and its findings are a
  sequence): a query names the images whose newest scan has the component. `ScanInv`: what is
  stored, or about to be, has a time and an id that compare, and finitely many
  components. The rest is about the query, and holds of any finite set of such scans in any
  order (`QueryNames`): joining the hits of the scans keeps all of them (`JoinHas`),
  and so does a stable sort, whose places differ because of any two elements one is
  in front of the other (`FrontIsOrder`, `PlacesDiffer`, `SortedStay`).

`AnalysisProofs`:

* `SearchInvariant`, for any finite graph: whoever is visited has a walk from the
  start (`Walks`), and whoever left the queue was looked at completely
  (`Explored`). The second needs that expanding one principal enqueues every
  neighbour it marks as visited (`SpreadEffect`), the first that a walk continued
  by an edge is a walk (`WalkExtends`).
* `ClusterIsSearched`: the graph of any cluster is such a graph, so what is proved
  of the search holds of `RBACSpec`. Who can be stolen from is a subject of some
  binding, and `RosterAssumption` says that those are principals.
* `ReportedPathIsReal` and `NothingIsMissed` from it.
* `SearchesAreExact`: a search finds a target if and only if a walk leads to one, the path
  it tells is a shortest one, and the score counts exactly whom walks reach. `ExactInv`
  says that the queue is sorted by the length of the ways, which differ by one at
  most (`Sorted`); that who was expanded is no farther than anybody waiting, with no
  neighbour more than a step farther (`Near`); that no way comes by a principal twice
  (`Simple`), so that none is longer than there are principals; and what the target
  that was found says (`Tells`). The induction over the steps of `within` is made by
  looking at the least number for which a claim fails (`LeastOf`, `WithinStays`).
* `PathsOfClusterAreExact` adds that a hop from one identity to another is one the bindings
  permit, that no identity whose Secrets can be read is missed, and that the
  access query names those who may. Its hypothesis `NamesAreKubernetes` is what an API server
  makes of names: a RoleBinding and a ServiceAccount have a namespace, Secrets and
  tokens are of the core group, a path is the name of none. Without it the claim is
  false (the code drops groups and takes a path for a resource, section 6); TLC evaluates it
  on the run's clusters (`ExportAssumption`).
* `PassesAreEarned`, for any evidence of the two collectors and any waivers
  (`EvidenceAssumption`: evidence has the collector's fields, a waiver's time is a
  number). `ControlsInv`: what a benchmark said is the report of the estate as it is;
  what changes the estate silences it. A waiver that counts has not run
  out (`ActiveCovers`); a failed control without one is among what is counted, so the gate
  sees it and the rate is of fewer than all (`FullRate`, for which the catalogues must
  be finite). `DockerWithheld` and `ClusterWithheld` go through the checks, for each of
  the four parts of a host's evidence and the eleven of a cluster's: most checks
  read one part and answer "info" without it; 5.25 may be decided by the daemon's default,
  2.8, 2.12 and 2.13 pass no easier without `docker info`, and of labels and network
  policies that are missing each namespace is an offender. Three checks do pass
  unseen (`passesUnseen`, section 6), and the theorem leaves them out.
* `BundlesAreSound`, for every pod, file of exceptions and trace. What the eighteen checks say
  of a container is stated once (`EachSays`: a check fails exactly if its control is
  `flawed`), and what the patches of a bundle do to it once per control
  (`PatchWorks` for a container, `BundleWorks` and `HardenedPod` for a pod merged field by field).
  `ConfinementInv` says that a bundle on offer was made of the pod on disk, of the
  exceptions in force on the day it was built and of the trace, that what it lists as
  waived is exactly what these excuse (`ActiveIsInForce`), that the profile of an applied one covers the
  trace (it only logs, or the trace is complete and it names all of it), and that
  the repair of an applied one is on disk.
* `CapturesDecide`, for every capture, report and policy. `NetworkInv` says that what is
  deployed was generated of the flows it was generated from, and what was said of the
  capture as it is. The order of flows is that of five numbers and, among equals, of
  arrival: a strict total one (`LexIsOrder`, `CaptureIsOrdered`), so that the number of
  those in front of a flow tells flows apart and takes every place (`RanksDiffer`,
  `RanksAreTaken`). Exchanging two neighbours renames the flows, which renames
  their places (`RanksFollow`), and without ties the canonical order is the
  same (`NeighboursCommute`); report and policies read nothing else (`ReadInOrder`).
  The claims on policies go through the first flow of each destination
  (`DestIsSeen`) to what a policy is made of (`PolicyIs`). That "" is not an internal
  address (`PostureAssumption`) is needed: a peer known by name alone would be
  neither on the name list nor in a CIDR rule.
* `RecordsAreKept`, for every feed, SBOM and posture of a vulnerability scan. `AdvisoryInv` says
  that every advisory that finds a matched component vulnerable has its id in a match of
  the component, and that every match is of an advisory with a component. What the
  database holds of a feed is an induction over its records (`DatabaseHolds`):
  groups have different keys, each goes by the id of one of its records, and holds the
  ids and ranges of all of them (`GroupsHold`, `MergeKeeps`). What a record affects is
  in one of its ranges, by an induction over its events (`RangesCover`). So the advisory
  that a record went into finds its component vulnerable; a match of that component
  and that id exists, and it is of that very advisory, as no other one of the package
  goes by the id (`DatabaseIs`). The property's conditions say where the code does
  lose a record (section 6).
* `HopsAreTold`, for every export of `dsecrat rbac`, with no assumption on what its files
  hold. `ReportInv` says that the report of a command that is done holds what the
  checks of grants find in the cluster as it is then (`SameGrantChecks`: a step that
  leaves roles and bindings alone leaves the grants and these checks alone). What
  remains is a fact about any cluster (`HopIsTold`): a permission on a resource
  comes from a rule that names the resource or "*" (`PermissionOnResource`), and each
  disjunct of the three kinds of steps is matched by a check whose verbs and
  resources are no fewer (`TheftIsTold`, `AdminIsTold`, `NodeIsTold`). A step that
  rests on a path has no such rule, and the property leaves it out (section 6).
* `TreesAreOverlays`, for every image. Each loop over a layer's entries is an induction over
  their number (`PassesAreDefined`): the first takes away what any marker of the layer
  removes (`WhiteoutsRemove`), the second adds its files (`FilesAreAdded`). `OverlayInv`
  says that the tree is the overlay of the layers applied so far (`TreeIs`), with the
  pending ones the rest of the layers (`LayersAre`); a layer is read before any is
  applied, or the tree would not know it (`ReadStep`).

`SensorsProofs`, under `HostAssumption` (a host has finitely many PIDs):

* `SourcesKeepContract`: both sources implement `EventFeed!Safety`. A step of the live
  sensor queues one event, takes one, ends the run or leaves the stream alone
  (`LiveStep`); a step of the /proc source does one of these, or queues what a poll
  observed and takes the first of it (`ProcMove`). `LiveInv` says that the pump's number
  is that of the event in its hand, or of the last one queued.
* `ConnectionsFollowExecs`: what a poll observes is a chain in which a connection
  stands behind its process (`ObservedChains`), and a chain put behind a numbered chain
  is one (`FlowGrows`). That the joined parts of a poll are a chain needs an induction
  over the number of processes, made by looking at the least one up to which they
  are not (`Least`, `JoinKeeps`); so does that the recursion by which they are joined
  defines anything (`JoinIsDefined`).
* `AttributionSteady`, from `AttributionInv`: every answer given is still in the cache
  by cgroup, and what that cache says of a container is what the cache by
  container says, learned while the container had the cgroup (`CgroupInv`). A step
  that would forget a failure, as one is tempted to write, breaks `AnswerInv`.

Only model-checked, and why:

* liveness, and everything that rests on fairness, that of `FeedSpec` included, of which
  `SourcesKeepContract` proves the rest;
* what needs induction over data with an operator for a hypothesis, which the provers
  cannot instantiate. (For one concrete set of numbers, induction is done by looking at
  the least one outside, as in `Induct` and in `SensorsProofs`; so the loops of
  `OCILayers` and `VulnerabilityScan` are functions of the entries behind them, the tree
  of `TransparencyLog` is one of the log, and that such functions exist is a lemma.);
* what rests on recursive definitions (`PolicyLanguage`, `VersionOrder`):
  `RulesMeanWhatTheySay`, `CompareIsOrder`.

## 6. Divergences

Statements of the sources that the code does not keep. The first five have a
run. The others are definitions of the module named, checked to fail while the
model was built; what each run checks instead is the part that holds.

| Statement | Definition | What the code does |
|---|---|---|
| `admission/review.go:165-167` "never a clean deny" | `AdmissionGate!CleanDenyIsNeverAdmitted` | `evalErr` is one flag per workload: under `--fail-open` an error for one image admits a workload another image is denied for |
| `store/filestore.go:34-36` "one bad file never blocks the whole inventory" | `ScanStore!OneRecordNeverBlocksTheRest` | `MountStore` and the MCP command take the list of skipped files for a failure; and `save` writes records larger than `load` accepts |
| `registry/referrers.go:77-81` "also writes the fallback referrers tag" | `ReferrerClient!NilMeansNone` | no tag is written: without the referrers API a pushed bundle is not found. A failing tag request is answered as "none" too (line 66) |
| `kubebench/checks_policy.go:13-14` a check "degrades to INFO when its evidence was not collected" | `Compliance!WithheldNeverPasses` with nothing in `passesUnseen` | without the list of namespaces 5.2.2 has no offender and passes, if Pod Security admission or a label was collected (lines 96-111) |
| `dockerbench/evidence.go:24-26` a missing field "degrades the affected controls" | the same | without `docker info` the storage driver (2.5) and the experimental features (2.16) read as set right |
| `docs/features/compliance.md:31` drift "flags the specific control that regressed" | `Posture!RegressionIsReported` | `--format json` writes the report under a key and the baseline is read without it: every baseline is empty |
| `vulndb/advisory.go:160-162` the fixed version is "the concrete upgrade target" | `Posture!FixIsAnUpgrade` | it is the smallest fix of all ranges: with fixes on two branches it may be older than what is installed |
| `registry/client.go:71-72` a bearer challenge is handled transparently | `ReferrerClient!PushFailsOnlyOnFaults` | the `PUT` of a blob or a manifest never goes through `do`, so it carries no token |
| `runtime/exceptions.go:12-15` an exception "cannot silently over-match" | `RuntimeDaemon!DriftNeverSilent` with `HealthException` | the rule marks the binary before exceptions are consulted: a run with the excused argument silences later runs without it |
| `runtime/response.go:39` "terminate the offending process" | `RuntimeDaemon!KillHitsOffender` | the PID alone is signalled; it may have passed to another process |
| `cmd/dsecrat-runtime/main.go:106` exit codes 0 and 1 tell detections | `LiveSensor!ExitTellsDetections` | a live run always ends by its context, which exits 1 before detections are counted |
| `deploy/runtime/README.md:14-15` "no sampling gap" | `LiveSensor!NoSamplingGap` | a full ring buffer drops the record, and nothing counts it |
| `ebpf_linux.go:136-137` "a shell execing inside a container is SIGKILL'd" | `LiveSensor!KillsOnlyInContainers`, `ArmedKillsEveryShell` | the probe tests `cgroup_id != 0`, true of host shells too; and it gives up before the kill when the ring is full |
| `forensics.go:121` "already captured" | `ForensicsStore!ReportedVerifies` | after a failed write the torn file is taken for the evidence by every later capture |
| `watch/watch.go:4-6` "clean-yesterday-vulnerable-today" | `WatchLoop!SeesEveryChange` | the image and the advisory database of the first cycle are kept for ever |
| `watch.go:57-58` "genuinely new" | `WatchLoop!GenuinelyNew` | a failing module clears its findings, and the next cycle reports them as new |
| `watch.go:4-5` cleared findings go to the connectors | `WatchLoop!ConnectorsHearOfCleared` | `deltaReport` copies the new ones only |
| `modules/vuln/command.go:299-300` "no modified CVE slips between ticks" | `AdvisoryRefresh!NoCVESlips` | after a refresh that failed, or a host that slept, the window does not reach back over the gap |
| `command.go:263-267` the self-updating mode | `AdvisoryRefresh!AdvisoriesAreKept` | the database is rebuilt from the window alone: the first tick drops all that did not change |
| `command.go:80-81` a failure "never corrupts the previous good DB" | `AdvisoryRefresh!WholeDatabase` | with a second updater: both use `out.tmp`, and one may rename the other's half-written file |
| `sig/translog.go:18-21` "an append-only Merkle log" | `TransparencyLog!NoHeadIsTakenBack` | `sign --tlog` starts an empty log with the same key in every invocation |
| `docs/features/supplychain.md:18-21` verify fetches "signature + attestations by digest" | `SigningFlow!OnlineSeesWhatWasPushed` | the first readable referrer alone is looked at |
| `modules/verify/config.go:36` "demands a valid inclusion proof for each signature" | `SigningFlow!RequiredLogIsVerified` | a proof nobody can check counts, and a missing one is a MEDIUM finding beside another signature |
| `modules/verify/module.go:44-45` "never a false pass" | `SigningFlow!UnconfiguredNeverPasses` | without a trusted key the verdict reads PASSED |
| `sig/bundle.go:30-31` the kind is "informational" | `SigningFlow!TagIsInformational` | both loops select by kind first |
| `vulndb/version.go:7-9` comparison "total" | `VersionOrder!CompareIsOrder` beyond well-formed versions | not transitive for odd ones: semver 2 < 10 < 1a < 2; deb 1a equals 1a0, yet 1a < 1ab < 1a0; rpm 1 equals 1., yet 1. > 1.~x > 1; maven 1 equals 1.0, yet 1 < 1-sp < 1.0 |
| `rbac/escalation.go:17-19` "a reported path is a real path" | `EscalationSearch!TheftIsPermitted` without `holdsForeignStar` | API groups are dropped: `get` on every resource of `apps` counts as reading secrets |
| `escalation.go:217-218` "wildcard-aware lookups" | `EscalationSearch!has` | membership is exact: a role other than `cluster-admin` with `*` on `*` is not seen to create workloads or to bind |
| `oci/oci.go:55-56` "effective filesystem" | `OCILayers!TreeIsOverlay` with `link` entries or a file over a directory | a link, or a file in place of a directory, does not remove what lower layers have there |
| an event belongs to the container that had its cgroup | `ContainerAttribution!OwnerIsNamed` | a record read after the cgroup is gone is attributed to nobody, and so is every later one of that id; a reused id keeps the first container |
| `authz/authz.go:42-60` a listed capability is denied | `Authorization!AddedCapIsDenied` | a request that finds the index made but not filled sees no denied capability |

Further statements that were found not to hold while these modules were written
from the code. The models do what the code does; no definition states the claim.

* Network: `dryrun.go:19-22` only a metadata service shows as denied: a workload
  with peers and no external host has other denials. `netmon.go:146-147` is false of
  flows that tie in every key. The class of a host is decided by its last port
  (`policygen.go:135-138`), ports are lost in `AllowlistFromPolicy`, and a host that
  merely ends in a model provider's name counts as one.
* Compliance: a pack counts a module that failed as one that ran, and its controls
  read "Satisfied"; with no evidence file at all every control is INFO, the score 100
  and the exit code 0; "no-new-privileges:false" counts as the option, since options are
  matched by substring (`runtime.go:131-138`); an `--out` that is
  also the `--baseline` is truncated before it is read; a control that goes between
  INFO and FAIL is not in the drift.
* Hardening: `bundle.go:104-105` lists controls as addressed though added capabilities
  stay; a bundle that replaces the list of drops may make the setuid control fail where it
  passed, for a container that adds the capability and was privileged or dropped it (found
  when `BundleIsSound` was to be proved; it now says so); without a clock a dated exception never lapses.
* Plugins: a plugin may take a builtin's name; a complete answer that comes with the
  deadline is discarded; `RegisterDir` is called by no command.
* MCP: an attempt without a store is refused before it is audited (`mcp.go:10-12`); a
  notification may keep a scan; a scan cut short by its client is kept as the newest.
  Of two scans with one time, `Inventory` and `QueryComponent` keep different ones, and
  `store.go:91-92` "deterministically ordered" is false of ties. An unknown minimum
  severity filters nothing.
* RBAC: a role other than `cluster-admin` with `*` on `*` has no hop to the target;
  two risks that differ in scope alone are one; a Role and a ClusterRole of one name
  share a key in the report; one file more may change what an omitted kind means.
  `nonResourceURLs` become permissions on a resource of that name (`graph.go:168-170`), so
  that who may `get` every path, "*", has a hop to every ServiceAccount as a reader of
  Secrets, and no check of a grant reports it (found when `HopsAreReported` was to be
  proved; `IdentityRisks!hops` now leaves such hops out, and with `steps(n) # {}` in its
  place the run fails).
  `GenerateLeastPrivilege` (`rbac/escalation.go:182-209`) grants all verbs with all
  resources, and no command calls it though `docs/features/rbac.md:30` promises it.
* Vulnerabilities: a waiver whose expiry does not parse never expires; no frontend
  loads VEX or waivers though `docs/features/vuln.md:41` says so; a VEX product matches
  by prefix (1.0.1 covers 1.0.10). `mergeByAlias` and the matching lose a record
  (`concerns`, `feedsAgree`) when an id goes by one CVE number in one record and by
  another in a second: of two advisories of one id for a component the second is
  dropped (`match.go:78-82`), with all that was merged into it; when two components without
  PURL, of one type, name and version, are of different ecosystems (`match.go:242-247`);
  and when a range is listed as closed at or below the version it opens at.

## 7. Not modelled, and the plan

Not modelled on purpose: wire formats, encodings and parsers; attaching eBPF
programs; downloads of feeds; reports, routes and UI; manifest, Dockerfile and image
checks, which are tables of independent predicates over one document; the matchers
over file content (SBOM, licenses, malware, secrets); the scenarios of the attack
simulation, whose outcomes are fixed; `GenerateLeastPrivilege`, which nothing calls.

Simplified or assumed, besides what the table of section 2 abstracts:

* `Score` divides integers where the code truncates a float quotient (`report.go:104`),
  which may be one less below 100 and is the same at 100;
* a connection belongs to a process, while `/proc/<pid>/net/tcp` lists those of
  its whole network namespace (`procparse.go:187-192`): `linked` is any set of processes, so
  those that share a namespace are among them;
* a bundle file that cannot be read for another reason than that it is absent is
  taken for a fresh one by the code (`commandhelpers.go:78-90`); `SigningFlow` assumes that what
  exists can be read, for otherwise an append loses what the file held;
* a number in a malformed apk version is compared by its symbols, in the code by its
  bytes (`version.go:57-60`); order is claimed of well-formed versions only;
* a component whose PURL cannot be classified goes by its name, in the code by the
  PURL (`match.go:242-247`);
* `GeneratePolicy` has a CIDR for any address, the code for those that look like one
  (`policygen.go:221-229`).

What is left, in order.

1. Learning a baseline while the detector runs, and that what was learned raises no
   anomaly; keyless verification and VSA emission in
   `SigningFlow`; `resolveDB`'s single flight in `WatchLoop`; the crontab installer.
2. The rest of the policy engine: `severity_atleast` and its thresholds, and the CI
   gate that turns a report into an input.
3. The image loader's three layouts and size limit.
