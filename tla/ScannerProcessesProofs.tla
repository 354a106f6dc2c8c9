------------------------ MODULE ScannerProcessesProofs ------------------------
(***************************************************************************)
(* What the watch loop, the advisory updaters and the plugin host          *)
(* guarantee for every set of issues, CVEs, connectors and plugins, every  *)
(* number of modules and pages, and every bound on changes and faults.     *)
(***************************************************************************)
EXTENDS ScannerProcesses, FiniteSetTheorems, TLAPS

(***************************************************************************)
(* The watch loop.  While nothing changes, the caches agree with the world *)
(* and what a module would find is fixed by the world alone.               *)
(***************************************************************************)
inWorld(m) == {i \in content : ModuleOf[i] = m /\ (i \in Advised => i \in advisories)}

missed(k, report) == {m \in 1..k : ~(inWorld(m) \subseteq report)}

undisturbed == changes = 0 /\ ~cancelled

CachesAgree ==
    changes = 0 => image \in {<<>>, <<content>>} /\ db \in {<<>>, <<advisories>>}

\* In a scan the modules before idx have an entry, and those whose findings are
\* not in the report are no more than those that failed.
WatchInv ==
    /\ changes \in Nat /\ errors \in Nat
    /\ CachesAgree
    /\ pc = "scan" =>
         /\ idx \in 1..(NModules + 1) /\ runs = 1..(idx - 1)
         /\ undisturbed => Cardinality(missed(idx - 1, found)) <= errors
    /\ pc = "dispatch" =>
         /\ runs = 1..NModules
         /\ undisturbed => Cardinality(missed(NModules, prev)) <= errors

LEMMA MissedIsFinite ==
    ASSUME NEW k \in Int, NEW R
    PROVE  IsFiniteSet(missed(k, R)) /\ Cardinality(missed(k, R)) \in Nat
<1>1. IsFiniteSet(1..k) /\ missed(k, R) \in SUBSET (1..k)
  BY FS_Interval DEF missed
<1> QED
  BY <1>1, FS_Subset, FS_CardinalityType

\* The caches of an unchanged world are of no consequence.
LEMMA FindingsInWorld ==
    ASSUME CachesAgree, changes = 0, NEW m
    PROVE  findings(m) = inWorld(m)
<1>1. loadedDB = advisories
  BY DEF CachesAgree, loadedDB
<1>2. visible = content
  BY DEF CachesAgree, visible, loadedImage
<1> QED
  BY <1>1, <1>2 DEF findings, inWorld

\* One more module costs one more failure, or nothing.
LEMMA MissedGrows ==
    ASSUME NEW k \in Nat, NEW R, NEW S, R \subseteq S, NEW n \in Nat,
           Cardinality(missed(k, R)) <= n
    PROVE  /\ Cardinality(missed(k + 1, S)) <= n + 1
           /\ inWorld(k + 1) \subseteq S => Cardinality(missed(k + 1, S)) <= n
<1> DEFINE M == missed(k, R)
<1>1. IsFiniteSet(M) /\ Cardinality(M) \in Nat
  BY MissedIsFinite
<1>2. IsFiniteSet(M \cup {k + 1}) /\ Cardinality(M \cup {k + 1}) <= n + 1
  <2>1. Cardinality(M \cup {k + 1}) = IF k + 1 \in M THEN Cardinality(M) ELSE Cardinality(M) + 1
    BY <1>1, FS_AddElement
  <2> QED
    BY <1>1, <2>1, FS_AddElement
<1>3. \A m \in missed(k + 1, S) : m \in M \/ (m = k + 1 /\ ~(inWorld(k + 1) \subseteq S))
  BY DEF missed
<1>4. missed(k + 1, S) \in SUBSET (M \cup {k + 1})
  BY <1>3
<1>5. Cardinality(missed(k + 1, S)) <= Cardinality(M \cup {k + 1})
  BY <1>2, <1>4, FS_Subset
<1>6. ASSUME inWorld(k + 1) \subseteq S PROVE Cardinality(missed(k + 1, S)) <= n
  <2>1. missed(k + 1, S) \in SUBSET M
    BY <1>3, <1>6
  <2>2. Cardinality(missed(k + 1, S)) <= Cardinality(M)
    BY <1>1, <2>1, FS_Subset
  <2> QED
    BY <1>1, <2>2, MissedIsFinite
<1> QED
  BY <1>2, <1>5, <1>6, MissedIsFinite, FS_CardinalityType

\* Read in a world that did not change, before or after the step.
LEMMA MissedStable ==
    ASSUME UNCHANGED <<content, advisories>>, NEW k, NEW R
    PROVE  {m \in 1..k : ~({i \in content' : ModuleOf[i] = m /\ (i \in Advised => i \in advisories')}
                             \subseteq R)} = missed(k, R)
BY DEF missed, inWorld

\* A module that ran has its entry, and what it found if it did not fail.
LEMMA ModuleRuns ==
    ASSUME WatchInv, NEW m \in 1..NModules, NEW failed \in BOOLEAN, RunModule(m, failed)
    PROVE  WatchInv'
<1>0. NModules \in Nat
  BY WatchAssumption DEF WatchAssumption
<1>1. /\ pc = "scan" /\ idx = m /\ ~cancelled /\ idx' = m + 1 /\ runs' = runs \cup {m}
      /\ found \subseteq found' /\ pc' = "scan"
      /\ UNCHANGED <<content, advisories, changes, cancelled>>
  BY DEF RunModule, worldVars, loopVars
<1>2. errors' = (IF failed THEN errors + 1 ELSE errors) /\ errors' \in Nat /\ changes \in Nat
  BY DEF RunModule, WatchInv
<1>3. runs' = 1..(idx' - 1) /\ idx' \in 1..(NModules + 1)
  <2>1. (1..(m - 1)) \cup {m} = 1..m /\ m + 1 \in 1..(NModules + 1) /\ (m + 1) - 1 = m
    BY <1>0
  <2> QED
    BY <1>1, <2>1 DEF WatchInv
<1>4. CachesAgree'
  <2> SUFFICES ASSUME changes = 0
               PROVE  image' \in {<<>>, <<content>>} /\ db' \in {<<>>, <<advisories>>}
    BY <1>1 DEF CachesAgree
  <2>1. loadedImage = content /\ loadedDB = advisories
    BY DEF WatchInv, CachesAgree, loadedImage, loadedDB
  <2> QED
    BY <2>1 DEF RunModule, WatchInv, CachesAgree
<1>5. ASSUME changes = 0 PROVE Cardinality(missed(idx' - 1, found')) <= errors'
  <2>1. Cardinality(missed(m - 1, found)) <= errors /\ m - 1 \in Nat /\ errors \in Nat
    BY <1>0, <1>1, <1>5 DEF WatchInv, undisturbed
  <2>2. ~failed => inWorld(m) \subseteq found'
    BY <1>5, FindingsInWorld DEF RunModule, WatchInv
  <2>3. (m - 1) + 1 = m /\ idx' - 1 = m
    BY <1>0, <1>1
  <2> QED
    BY <1>1, <1>2, <2>1, <2>2, <2>3, MissedGrows
<1>6. undisturbed' => Cardinality(missed(idx - 1, found))' <= errors'
  BY <1>1, <1>5, MissedStable DEF undisturbed, missed, inWorld
<1> QED
  BY <1>1, <1>2, <1>3, <1>4, <1>6 DEF WatchInv

LEMMA WatchInvStep ==
    ASSUME WatchInv, [Next]_vars
    PROVE  WatchInv'
<1>0. NModules \in Nat
  BY WatchAssumption DEF WatchAssumption
<1> USE DEF worldVars, cacheVars, flags, loopVars, scanVars, outVars
<1>1. ASSUME NEW i \in Issues, Change(i) PROVE WatchInv'
  <2>1. changes' \in Nat /\ changes' # 0
    BY <1>1 DEF Change, WatchInv
  <2> QED
    BY <1>1, <2>1 DEF Change, WatchInv, CachesAgree, undisturbed
<1>2. CASE Tick
  BY <1>2, MissedStable DEF Tick, WatchInv, CachesAgree, undisturbed, missed, inWorld
<1>3. CASE Cancel
  BY <1>3 DEF Cancel, WatchInv, CachesAgree, undisturbed
<1>4. CASE Module
  BY <1>4, ModuleRuns DEF Module
<1>5. CASE SkipRest
  <2>1. runs' = 1..NModules /\ idx' = NModules + 1 /\ (NModules + 1) - 1 = NModules
    <3>1. (1..(idx - 1)) \cup (idx..NModules) = 1..NModules
      BY <1>0, <1>5 DEF SkipRest, WatchInv
    <3> QED
      BY <1>0, <1>5, <3>1 DEF SkipRest, WatchInv, skipped
  <2>2. NModules + 1 \in 1..(NModules + 1)
    BY <1>0
  <2> QED
    BY <1>5, <2>1, <2>2 DEF SkipRest, WatchInv, CachesAgree, undisturbed
<1>6. CASE FirstCycle \/ NextCycle
  <2>1. /\ pc' = "scan" /\ idx' = 1 /\ runs' = {} /\ found' = {}
        /\ UNCHANGED <<content, advisories, changes, image, db, errors>>
    BY <1>6 DEF FirstCycle, NextCycle, Begin
  <2>2. 1..(1 - 1) = {} /\ 1 \in 1..(NModules + 1)
    BY <1>0
  <2>3. missed(idx - 1, found)' = {}
    BY <2>1, <2>2 DEF missed
  <2>4. Cardinality(missed(idx - 1, found)') <= errors'
    BY <2>1, <2>3, FS_EmptySet DEF WatchInv
  <2> QED
    BY <2>1, <2>2, <2>4 DEF WatchInv, CachesAgree
<1>7. CASE Compare
  <2>1. /\ pc = "scan" /\ idx = NModules + 1 /\ prev' = found /\ pc' = "dispatch" /\ idx - 1 = NModules
        /\ UNCHANGED <<content, advisories, changes, image, db, errors, cancelled, runs>>
    BY <1>0, <1>7 DEF Compare, remembers
  <2>2. undisturbed' => Cardinality(missed(NModules, prev)') <= errors'
    BY <2>1, MissedStable DEF WatchInv, undisturbed, missed, inWorld
  <2> QED
    BY <2>1, <2>2 DEF WatchInv, CachesAgree
<1>8. CASE Dispatch
  BY <1>8 DEF Dispatch, WatchInv, CachesAgree
<1>9. CASE Stop
  BY <1>9 DEF Stop, WatchInv, CachesAgree
<1>10. CASE UNCHANGED vars
  BY <1>10, MissedStable DEF vars, WatchInv, CachesAgree, undisturbed, missed, inWorld
<1> QED
  BY <1>1, <1>2, <1>3, <1>4, <1>5, <1>6, <1>7, <1>8, <1>9, <1>10 DEF Next, Loop, Stopped

\* A finished scan whose report is compared has missed no more than it may.
LEMMA WatchInvIsolates ==
    ASSUME WatchInv
    PROVE  FailureIsIsolated
<1> SUFFICES ASSUME pc = "dispatch", changes = 0, ~cancelled
             PROVE  Cardinality({m \in 1..NModules : ~(findings(m) \subseteq prev)}) <= errors
  BY DEF WatchInv, FailureIsIsolated
<1>1. \A m : findings(m) = inWorld(m)
  BY FindingsInWorld DEF WatchInv
<1>2. {m \in 1..NModules : ~(findings(m) \subseteq prev)} = missed(NModules, prev)
  BY <1>1 DEF missed
<1> QED
  BY <1>2 DEF WatchInv, undisturbed

LEMMA DeltasStep ==
    ASSUME DeltasAddUp, [Next]_vars
    PROVE  DeltasAddUp'
<1> USE DEF DeltasAddUp, outVars, vars
<1>1. CASE Compare
  BY <1>1 DEF Compare, Diff, remembers
<1>2. CASE UNCHANGED <<prev, announced>>
  BY <1>2
<1> QED
  BY <1>1, <1>2 DEF Next, Loop, Change, Tick, Cancel, Module, RunModule, SkipRest, FirstCycle, NextCycle,
                    Dispatch, Stop, Stopped

(***************************************************************************)
(* The plugin host.  The child is one of a registered plugin; what was     *)
(* killed has an error; and findings are returned of a child that ended    *)
(* well and wrote its response and no more.                                *)
(***************************************************************************)
ofPlugin(name) == \E i \in DOMAIN registry : registry[i].name = name /\ registry[i].file # ""

PluginInv ==
    /\ child = [state |-> child.state, code |-> child.code, wrote |-> child.wrote, helper |-> child.helper,
                reports |-> child.reports, of |-> child.of]
    /\ child.wrote \in Nat
    /\ child.state = "killed" => child.code # 0
    /\ child.state # "none" => notice # "none" /\ ofPlugin(child.of)
    /\ result = [kind |-> result.kind, module |-> result.module]
    /\ result # Plugins!None => notice # "none"
    /\ FindingsAreWhole

LEMMA LesserOfTwo ==
    ASSUME NEW a \in Nat, NEW b \in Nat
    PROVE  Plugins!Min({a, b}) = IF a <= b THEN a ELSE b
BY DEF Plugins!Min

\* What is decoded as findings is the whole response, written once.
LEMMA ResponseIsWhole ==
    ASSUME PluginInv, Plugins!parsed = "findings"
    PROVE  /\ ~child.reports
           /\ child.wrote = ResponseSize \/ (Cap = ResponseSize /\ child.wrote > Cap)
<1>1. Cap \in Nat /\ ResponseSize \in Nat /\ child.wrote \in Nat
  BY PluginAssumption DEF PluginAssumption, PluginInv
<1>2. Plugins!kept = IF child.wrote <= Cap THEN child.wrote ELSE Cap
  BY <1>1, LesserOfTwo DEF Plugins!kept
<1>3. Plugins!kept = ResponseSize /\ ~child.reports
  BY DEF Plugins!parsed
<1> QED
  BY <1>1, <1>2, <1>3

LEMMA ReturnIsWhole ==
    ASSUME PluginInv, Plugins!Return
    PROVE  PluginInv'
<1>1. /\ child.state \in {"exited", "killed"}
      /\ result' = [kind |-> Plugins!verdict, module |-> IF Plugins!verdict = "findings" THEN child.of ELSE ""]
      /\ UNCHANGED <<listing, registry, notice, child, runCtx, delay>>
  BY DEF Plugins!Return
<1>2. ASSUME Plugins!verdict = "findings"
      PROVE  /\ child.state = "exited" /\ child.code = 0 /\ runCtx # "deadline" /\ child.helper = "none"
             /\ Plugins!parsed = "findings"
  <2>1. runCtx # "deadline"
    BY <1>2 DEF Plugins!verdict
  <2>2. child.code = 0 /\ ~Plugins!pipeOpen /\ Plugins!parsed = "findings"
    BY <1>2, <2>1 DEF Plugins!verdict
  <2>3. child.state = "killed" => child.code # 0
    BY DEF PluginInv
  <2>4. child.state # "killed"
    BY <2>2, <2>3
  <2>5. child.helper = "none"
    BY <2>2 DEF Plugins!pipeOpen
  <2> QED
    BY <1>1, <2>1, <2>2, <2>4, <2>5
<1>3. ASSUME result'.kind = "findings" PROVE Plugins!FindingsAreWhole'
  <2>1. Plugins!verdict = "findings" /\ result'.module = child.of
    BY <1>1, <1>3
  <2>2. ofPlugin(child.of)
    BY <1>1 DEF PluginInv
  <2> QED
    BY <1>1, <1>2, <2>1, <2>2, ResponseIsWhole DEF Plugins!FindingsAreWhole, ofPlugin
<1>4. FindingsAreWhole'
  BY <1>3 DEF FindingsAreWhole, Plugins!FindingsAreWhole
<1> QED
  BY <1>1, <1>4 DEF PluginInv, ofPlugin

LEMMA PluginInvStep ==
    ASSUME PluginInv, [Plugins!PluginNext]_pluginVars
    PROVE  PluginInv'
<1> USE DEF Plugins!None, Plugins!NoChild
<1>1. CASE Plugins!RegisterDir
  <2>1. result = Plugins!None /\ child.state = "none" /\ UNCHANGED <<child, runCtx, delay, result>>
    BY <1>1 DEF Plugins!RegisterDir, PluginInv
  <2> QED
    BY <2>1 DEF PluginInv, FindingsAreWhole, Plugins!FindingsAreWhole
<1>2. CASE Plugins!Analyze
  <2>1. PICK i \in DOMAIN registry, reports \in BOOLEAN :
          /\ registry[i].file # ""
          /\ \/ /\ child' = [Plugins!NoChild EXCEPT !.state = "running", !.reports = reports, !.of = registry[i].name]
                /\ UNCHANGED result
             \/ ~reports /\ result' = [Plugins!None EXCEPT !.kind = "exec failed"] /\ UNCHANGED child
    BY <1>2 DEF Plugins!Analyze
  <2>2. result = Plugins!None /\ notice # "none" /\ UNCHANGED <<registry, notice>>
    BY <1>2 DEF Plugins!Analyze
  <2>3. CASE result' = [Plugins!None EXCEPT !.kind = "exec failed"] /\ UNCHANGED child
    BY <2>2, <2>3 DEF PluginInv, ofPlugin, FindingsAreWhole, Plugins!FindingsAreWhole
  <2>4. CASE /\ child' = [Plugins!NoChild EXCEPT !.state = "running", !.reports = reports, !.of = registry[i].name]
             /\ UNCHANGED result
    <3>1. /\ child'.wrote = 0 /\ child'.code = 0 /\ child'.of = registry[i].name /\ child'.state = "running"
          /\ child' = [state |-> child'.state, code |-> child'.code, wrote |-> child'.wrote,
                       helper |-> child'.helper, reports |-> child'.reports, of |-> child'.of]
      BY <2>4
    <3>2. ofPlugin(child.of)'
      BY <2>1, <2>2, <3>1 DEF ofPlugin
    <3> QED
      BY <2>2, <2>4, <3>1, <3>2 DEF PluginInv, FindingsAreWhole, Plugins!FindingsAreWhole
  <2> QED
    BY <2>1, <2>3, <2>4
<1>3. CASE Plugins!Write \/ Plugins!Fork \/ Plugins!HelperEnds \/ Plugins!Exit
  <2>1. /\ result = Plugins!None /\ child.state # "none"
        /\ UNCHANGED <<registry, notice, result>>
    BY <1>3 DEF Plugins!Write, Plugins!Fork, Plugins!HelperEnds, Plugins!Exit, Plugins!waiting
  <2>2. child'.wrote \in Nat /\ child'.of = child.of /\ (child'.state = "killed" => child'.code # 0)
    <3>1. CASE Plugins!Write
      <4>1. child' = [child EXCEPT !.wrote = @ + 1]
        BY <3>1 DEF Plugins!Write
      <4>2. child.wrote \in Nat
        BY DEF PluginInv
      <4>5. child.wrote + 1 \in Nat
        BY <4>2
      <4>3. child'.wrote = child.wrote + 1
        BY <4>1 DEF PluginInv
      <4>4. child'.code = child.code /\ child'.state = child.state /\ child'.of = child.of
        BY <4>1 DEF PluginInv
      <4> QED
        BY <4>3, <4>4, <4>5 DEF PluginInv
    <3>2. CASE Plugins!Fork
      BY <3>2 DEF Plugins!Fork, PluginInv
    <3>3. CASE Plugins!HelperEnds
      BY <3>3 DEF Plugins!HelperEnds, PluginInv
    <3>4. CASE Plugins!Exit
      BY <3>4 DEF Plugins!Exit, PluginInv
    <3> QED
      BY <1>3, <3>1, <3>2, <3>3, <3>4
  <2>3. child' = [state |-> child'.state, code |-> child'.code, wrote |-> child'.wrote, helper |-> child'.helper,
                  reports |-> child'.reports, of |-> child'.of]
    BY <1>3 DEF Plugins!Write, Plugins!Fork, Plugins!HelperEnds, Plugins!Exit, PluginInv
  <2> QED
    BY <2>1, <2>2, <2>3 DEF PluginInv, ofPlugin, FindingsAreWhole, Plugins!FindingsAreWhole
<1>4. CASE Plugins!Deadline \/ Plugins!Cancel
  <2>1. PICK why \in {"deadline", "cancelled"} : Plugins!End(why)
    BY <1>4 DEF Plugins!Deadline, Plugins!Cancel
  <2>2. /\ result = Plugins!None /\ child.state # "none"
        /\ UNCHANGED <<registry, notice, result>>
    BY <2>1 DEF Plugins!End, Plugins!waiting
  <2>3. CASE UNCHANGED child
    BY <2>2, <2>3 DEF PluginInv, ofPlugin, FindingsAreWhole, Plugins!FindingsAreWhole
  <2>4. CASE child' = [child EXCEPT !.state = "killed", !.code = 1,
                                    !.helper = IF @ = "group" THEN "none" ELSE @]
    <3>1. child'.wrote = child.wrote /\ child'.of = child.of /\ child'.code = 1
      BY <2>4 DEF PluginInv
    <3>2. child' = [state |-> child'.state, code |-> child'.code, wrote |-> child'.wrote, helper |-> child'.helper,
                    reports |-> child'.reports, of |-> child'.of]
      BY <2>4 DEF PluginInv
    <3>3. child'.code # 0
      BY <3>1
    <3> QED
      BY <2>2, <3>1, <3>2, <3>3 DEF PluginInv, ofPlugin, FindingsAreWhole, Plugins!FindingsAreWhole
  <2> QED
    BY <2>1, <2>3, <2>4 DEF Plugins!End
<1>5. CASE Plugins!DelayOver \/ UNCHANGED pluginVars
  BY <1>5 DEF Plugins!DelayOver, pluginVars, PluginInv, ofPlugin, FindingsAreWhole, Plugins!FindingsAreWhole
<1>6. CASE Plugins!Return
  BY <1>6, ReturnIsWhole
<1> QED
  BY <1>1, <1>2, <1>3, <1>4, <1>5, <1>6 DEF Plugins!PluginNext, Plugins!Over, Plugins!pluginVars, pluginVars

(***************************************************************************)
(* The advisory updaters.  When only the daemon runs, it alone has a       *)
(* descriptor, of out.tmp and while it writes; what it wrote is whole when *)
(* it is renamed.                                                          *)
(***************************************************************************)
SoleWriter ==
    /\ \A v \in OneShots : updater[v] = "exited" /\ fd[v] = "none"
    /\ updater[Daemon] = "write" => fd[Daemon] = "tmp" /\ disk["tmp"].state = "empty"
    /\ updater[Daemon] # "write" => fd[Daemon] = "none"
    /\ updater[Daemon] = "rename" => disk["tmp"].state = "whole"
    /\ disk["out"].state \in {"absent", "whole"}

RefreshTypes ==
    /\ updater \in [Refresh!Updaters -> {"new", "fetch", "open", "write", "rename", "select", "exited"}]
    /\ fd \in [Refresh!Updaters -> {"none", "tmp", "out"}]
    /\ DOMAIN disk = {"tmp", "out"}

RefreshInv == RefreshTypes /\ (crontab = {} => SoleWriter)

\* Where an updater's own step leads; every other step leaves it where it is.
LEMMA StepOfUpdater ==
    ASSUME RefreshTypes, NEW u \in Refresh!Updaters,
           \/ Refresh!Work(u) \/ Refresh!Page(u) \/ Refresh!FetchFails(u) \/ Refresh!Crash(u)
    PROVE  /\ RefreshTypes' /\ crontab' = crontab
           /\ updater[u] \in {"new", "fetch", "open", "write", "rename"}
           /\ \A v \in Refresh!Updaters \ {u} :
                updater'[v] = updater[v] /\ (fd[v] = "none" => fd'[v] = "none")
<1> USE DEF Refresh!target
<1>1. CASE Refresh!FirstRefresh(u) \/ Refresh!Page(u)
  BY <1>1 DEF RefreshTypes, Refresh!FirstRefresh, Refresh!Page, Refresh!Begin
<1>2. CASE Refresh!FetchFails(u) \/ Refresh!Cancel(u) \/ Refresh!RenameFails(u)
  BY <1>2 DEF RefreshTypes, Refresh!FetchFails, Refresh!Cancel, Refresh!RenameFails, Refresh!AfterRefresh
<1>3. CASE Refresh!Open(u)
  BY <1>3 DEF RefreshTypes, Refresh!Open
<1>4. CASE Refresh!Write(u)
  BY <1>4 DEF RefreshTypes, Refresh!Write
<1>5. CASE Refresh!WriteFails(u)
  BY <1>5 DEF RefreshTypes, Refresh!WriteFails, Refresh!afterFailedWrite, Refresh!AfterRefresh, Refresh!Tear
<1>6. CASE Refresh!Rename(u)
  BY <1>6 DEF RefreshTypes, Refresh!Rename, Refresh!AfterRefresh
<1>7. CASE Refresh!Crash(u)
  BY <1>7 DEF RefreshTypes, Refresh!Crash, Refresh!Tear, Refresh!busy
<1> QED
  BY <1>1, <1>2, <1>3, <1>4, <1>5, <1>6, <1>7 DEF Refresh!Work

\* Beside the daemon nobody takes a step, and a step of the daemon keeps its own
\* descriptor and files in order.
LEMMA DaemonStep ==
    ASSUME RefreshTypes, SoleWriter, Daemon \notin OneShots,
           \/ Refresh!Work(Daemon) \/ Refresh!Page(Daemon) \/ Refresh!FetchFails(Daemon) \/ Refresh!Crash(Daemon)
    PROVE  SoleWriter'
<1> USE DEF Refresh!target
<1>0. Daemon \in Refresh!Updaters /\ \A v \in OneShots : v \in Refresh!Updaters /\ v # Daemon
  BY DEF Refresh!Updaters
<1>1. \A v \in OneShots : updater'[v] = "exited" /\ fd'[v] = "none"
  BY <1>0, StepOfUpdater DEF RefreshTypes, SoleWriter
<1>2. CASE Refresh!FirstRefresh(Daemon) \/ Refresh!Page(Daemon)
  <2>1. UNCHANGED <<disk, fd>> /\ updater[Daemon] \in {"new", "fetch"} /\ updater'[Daemon] \in {"fetch", "open"}
    BY <1>0, <1>2 DEF Refresh!FirstRefresh, Refresh!Page, Refresh!Begin, RefreshTypes
  <2> QED
    BY <1>1, <2>1 DEF SoleWriter
<1>3. CASE Refresh!FetchFails(Daemon) \/ Refresh!Cancel(Daemon) \/ Refresh!RenameFails(Daemon)
  <2>1. UNCHANGED <<disk, fd>> /\ updater[Daemon] \in {"fetch", "rename"} /\ updater'[Daemon] = "select"
    BY <1>0, <1>3 DEF Refresh!FetchFails, Refresh!Cancel, Refresh!RenameFails, Refresh!AfterRefresh, RefreshTypes
  <2> QED
    BY <1>1, <2>1 DEF SoleWriter
<1>4. CASE Refresh!Open(Daemon)
  <2>1. /\ updater'[Daemon] = "write" /\ fd'[Daemon] = "tmp" /\ disk'["out"] = disk["out"]
        /\ disk'["tmp"].state = "empty"
    BY <1>0, <1>4 DEF Refresh!Open, RefreshTypes
  <2> QED
    BY <1>1, <2>1 DEF SoleWriter
<1>5. CASE Refresh!Write(Daemon)
  <2>1. fd[Daemon] = "tmp" /\ disk["tmp"].state = "empty"
    BY <1>5 DEF Refresh!Write, SoleWriter
  <2>2. disk' = [disk EXCEPT !["tmp"] = [state |-> "whole", has |-> docs[Daemon]]]
    BY <1>5, <2>1 DEF Refresh!Write
  <2>3. disk'["out"] = disk["out"] /\ disk'["tmp"].state = "whole"
    BY <2>2 DEF RefreshTypes
  <2>4. updater'[Daemon] = "rename" /\ fd'[Daemon] = "none"
    BY <1>0, <1>5 DEF Refresh!Write, RefreshTypes
  <2> QED
    BY <1>1, <2>3, <2>4 DEF SoleWriter
<1>6. CASE Refresh!WriteFails(Daemon)
  <2>1. fd[Daemon] = "tmp"
    BY <1>6 DEF Refresh!WriteFails, SoleWriter
  <2>2. disk'["out"] = disk["out"]
    BY <1>6, <2>1 DEF Refresh!WriteFails, Refresh!Tear, RefreshTypes
  <2>3. updater'[Daemon] = "select" /\ fd'[Daemon] = "none"
    BY <1>0, <1>6 DEF Refresh!WriteFails, Refresh!afterFailedWrite, Refresh!AfterRefresh, RefreshTypes
  <2> QED
    BY <1>1, <2>2, <2>3 DEF SoleWriter
<1>7. CASE Refresh!Rename(Daemon)
  <2>1. disk'["out"] = disk["tmp"] /\ disk["tmp"].state = "whole" /\ fd[Daemon] = "none"
    BY <1>7 DEF Refresh!Rename, SoleWriter
  <2>2. updater'[Daemon] = "select" /\ fd'[Daemon] = "none"
    BY <1>0, <1>7, <2>1 DEF Refresh!Rename, Refresh!AfterRefresh, RefreshTypes
  <2> QED
    BY <1>1, <2>1, <2>2 DEF SoleWriter
<1>8. CASE Refresh!Crash(Daemon)
  <2>1. updater[Daemon] = "write" => fd[Daemon] = "tmp"
    BY DEF SoleWriter
  <2>2. disk'["out"] = disk["out"]
    BY <1>8, <2>1 DEF Refresh!Crash, Refresh!Tear, RefreshTypes
  <2>3. updater'[Daemon] = "new" /\ fd'[Daemon] = "none"
    BY <1>0, <1>8 DEF Refresh!Crash, RefreshTypes
  <2> QED
    BY <1>1, <2>2, <2>3 DEF SoleWriter
<1> QED
  BY <1>2, <1>3, <1>4, <1>5, <1>6, <1>7, <1>8 DEF Refresh!Work

LEMMA RefreshInvInit ==
    ASSUME Refresh!Init
    PROVE  RefreshInv
<1>1. Daemon \in Refresh!Updaters /\ Daemon \notin OneShots /\ Refresh!Updaters = {Daemon} \cup OneShots
  BY RefreshAssumption DEF RefreshAssumption, Refresh!Updaters
<1>2. RefreshTypes
  BY DEF Refresh!Init, RefreshTypes
<1>3. crontab = {} => SoleWriter
  BY <1>1 DEF Refresh!Init, SoleWriter, Refresh!Absent
<1> QED
  BY <1>2, <1>3 DEF RefreshInv

LEMMA RefreshInvStep ==
    ASSUME RefreshInv, [Refresh!Next]_refreshVars
    PROVE  RefreshInv'
<1>0. Daemon \in Refresh!Updaters /\ Daemon \notin OneShots /\ Refresh!Updaters = {Daemon} \cup OneShots
  BY RefreshAssumption DEF RefreshAssumption, Refresh!Updaters
<1>1. ASSUME NEW u \in Refresh!Updaters,
             Refresh!Work(u) \/ Refresh!Page(u) \/ Refresh!FetchFails(u) \/ Refresh!Crash(u)
      PROVE  RefreshInv'
  <2>1. RefreshTypes'
    BY <1>1, StepOfUpdater DEF RefreshInv
  <2>2. crontab' = crontab /\ updater[u] # "exited"
    BY <1>1, StepOfUpdater DEF RefreshInv
  <2>3. ASSUME crontab = {} PROVE SoleWriter'
    <3>1. u = Daemon
      BY <1>0, <1>1, <2>2, <2>3 DEF RefreshInv, SoleWriter
    <3> QED
      BY <1>0, <1>1, <2>3, <3>1, DaemonStep DEF RefreshInv
  <2> QED
    BY <2>1, <2>2, <2>3 DEF RefreshInv
<1>2. CASE Refresh!TickRefresh \/ Refresh!Stop
  <2>1. PICK s \in {"fetch", "exited"} :
          /\ UNCHANGED <<crontab, disk, fd>> /\ updater[Daemon] = "select"
          /\ updater' = [updater EXCEPT ![Daemon] = s]
    BY <1>2 DEF Refresh!TickRefresh, Refresh!Stop, Refresh!Begin
  <2>2. RefreshTypes'
    BY <2>1 DEF RefreshInv, RefreshTypes
  <2>3. ASSUME crontab = {} PROVE SoleWriter'
    <3>1. updater'[Daemon] \in {"fetch", "exited"} /\ \A v \in OneShots : updater'[v] = updater[v]
      BY <1>0, <2>1 DEF RefreshInv, RefreshTypes
    <3> QED
      BY <2>1, <2>3, <3>1 DEF RefreshInv, SoleWriter
  <2> QED
    BY <2>1, <2>2, <2>3 DEF RefreshInv
<1>3. CASE UNCHANGED <<crontab, updater, disk, fd>>
  BY <1>3 DEF RefreshInv, RefreshTypes, SoleWriter
<1> QED
  BY <1>1, <1>2, <1>3 DEF Refresh!Next, Refresh!Modify, Refresh!Index, Refresh!Advance, Refresh!Suspend,
     Refresh!Sigterm, Refresh!vars, refreshVars

(***************************************************************************)
(* No modified CVE slips.  Within a fetch: what the API showed in the      *)
(* window at its start only moves up the list as entries are added, never  *)
(* below the index the fetch has reached.  Between two fetches: the ticker *)
(* is never further behind than the slack of the window makes up for.      *)
(***************************************************************************)
\* The hypotheses: the default of a full first pull and of all pages; an API that
\* lists what it took in within the slack; and no window longer than NVD answers,
\* though the host sleeps in a fetch as often as faults allow.
RefreshKeepsUp ==
    /\ MaxPages = 0 /\ FirstWindow = 0
    /\ Lag + MaxFetch <= Slack
    /\ Interval + Slack + MaxFetch + MaxFaults * Interval <= MaxWindow

FetchTypes ==
    /\ now \in Nat /\ faults \in 0..MaxFaults
    /\ modified \in [CVEs -> Nat] /\ indexed \in [CVEs -> Nat]
    /\ \A c \in CVEs : indexed[c] <= modified[c] /\ modified[c] <= now
    /\ since \in [Refresh!Updaters -> Nat] /\ start \in [Refresh!Updaters -> Nat]
    /\ began \in [Refresh!Updaters -> Nat]
    /\ docs \in [Refresh!Updaters -> [CVEs -> Nat]] /\ owed \in [Refresh!Updaters -> [CVEs -> Nat]]

\* What the API lists of a window that no request shortens, and where.
shown(s) == {c \in CVEs : indexed[c] > 0 /\ indexed[c] >= s}
position(c, s) == Cardinality({d \in shown(s) : d < c})

fetching(u) == updater[u] = "fetch"
fetched(u) == updater[u] \in {"open", "write", "rename"}

InTime(u) ==
    /\ began[u] <= now
    /\ fetching(u) \/ fetched(u) => now <= began[u] + MaxFetch + faults * Interval
    /\ fetching(u) => since[u] = 0 \/ began[u] <= since[u] + Interval + Slack

\* What is owed stays in the list, and is fetched or still ahead.
PagesAhead(u) ==
    fetching(u) => \A c \in CVEs : owed[u][c] > 0 =>
        /\ since[u] <= owed[u][c] /\ owed[u][c] <= indexed[c]
        /\ docs[u][c] >= owed[u][c] \/ start[u] <= position(c, since[u])

AllFetched(u) == fetched(u) => \A c \in CVEs : docs[u][c] >= owed[u][c]

FetchInv == FetchTypes /\ \A u \in Refresh!Updaters : InTime(u) /\ PagesAhead(u) /\ AllFetched(u)

\* A change the API has shown for longer than the lag when the refresh began.
settled(c) == indexed[c] > 0 /\ indexed[c] + Lag < began[Daemon]

TickerInv ==
    /\ \A c \in CVEs : indexed[c] # modified[c] => now <= modified[c] + Lag
    /\ due \in Nat /\ (due # 0 => now < due /\ due <= now + Interval)
    /\ updater[Daemon] = "select" =>
         /\ due # 0
         /\ waiting => now <= began[Daemon] + MaxFetch + Interval
         /\ ~waiting => due <= began[Daemon] + MaxFetch + Interval

CollectedInv ==
    /\ collected \in [CVEs -> Nat]
    /\ updater[Daemon] = "rename" => disk["tmp"].has = docs[Daemon]
    /\ updater[Daemon] = "select" /\ ~refreshed => stopping
    /\ updater[Daemon] = "select" /\ refreshed => \A c \in CVEs : settled(c) => collected[c] >= indexed[c]
    /\ fetched(Daemon) \/ (fetching(Daemon) /\ ~stopping) =>
         \A c \in CVEs : settled(c) => collected[c] >= indexed[c] \/ owed[Daemon][c] >= indexed[c]

undisturbedRefresh == crontab = {} /\ faults = 0

SlipInv == undisturbedRefresh => TickerInv /\ CollectedInv

LEMMA RefreshConstants ==
    /\ {Interval, Slack, PageSize, MaxWindow, Lag, MaxFetch, MaxFaults} \subseteq Nat /\ Interval > 0
    /\ IsFiniteSet(CVEs) /\ CVEs \subseteq Nat
    /\ Daemon \in Refresh!Updaters
BY RefreshAssumption DEF RefreshAssumption, Refresh!Updaters

LEMMA FaultsCost ==
    ASSUME NEW f \in Nat, NEW g \in Nat, f <= g
    PROVE  f * Interval \in Nat /\ g * Interval \in Nat /\ f * Interval <= g * Interval
           /\ (f + 1) * Interval = f * Interval + Interval
<1>1. Interval \in Nat
  BY RefreshConstants
<1>2. PICK d \in Nat : g = f + d
  <2>1. g - f \in Nat /\ g = f + (g - f)
    OBVIOUS
  <2> QED
    BY <2>1
<1>3. f * Interval \in Nat /\ d * Interval \in Nat
  BY <1>1
<1>4. g * Interval = f * Interval + d * Interval
  BY <1>1, <1>2
<1>5. (f + 1) * Interval = f * Interval + Interval
  BY <1>1
<1> QED
  BY <1>3, <1>4, <1>5

LEMMA LargerOfTwo ==
    ASSUME NEW a \in Nat, NEW b \in Nat
    PROVE  Refresh!Max({a, b}) = IF a >= b THEN a ELSE b
BY DEF Refresh!Max

\* A window no longer than the API answers is asked for as it is.
LEMMA WindowIsAsked ==
    ASSUME NEW s \in Nat, now \in Nat, s = 0 \/ now <= s + MaxWindow
    PROVE  Refresh!lowerBound(s) = s /\ Refresh!listed(s) = shown(s)
<1>1. MaxWindow \in Nat
  BY RefreshConstants
<1>2. Refresh!minus(now, MaxWindow) \in Nat /\ (s # 0 => Refresh!minus(now, MaxWindow) <= s)
  BY <1>1 DEF Refresh!minus
<1>3. Refresh!lowerBound(s) = s
  BY <1>2, LargerOfTwo DEF Refresh!lowerBound
<1> QED
  BY <1>3 DEF Refresh!listed, shown

\* A window is short enough as long as its fetch is in time.
LEMMA WindowFits ==
    ASSUME RefreshKeepsUp, FetchTypes, NEW u \in Refresh!Updaters, InTime(u), fetching(u)
    PROVE  since[u] \in Nat /\ Refresh!listed(since[u]) = shown(since[u])
<1>1. /\ now \in Nat /\ faults \in Nat /\ faults <= MaxFaults /\ since[u] \in Nat /\ began[u] \in Nat
      /\ MaxFaults \in Nat /\ Interval \in Nat /\ Slack \in Nat /\ MaxFetch \in Nat /\ MaxWindow \in Nat
  BY RefreshConstants DEF FetchTypes
<1>2. faults * Interval \in Nat /\ MaxFaults * Interval \in Nat /\ faults * Interval <= MaxFaults * Interval
  BY <1>1, FaultsCost
<1>3. since[u] = 0 \/ now <= since[u] + MaxWindow
  <2>1. now <= began[u] + MaxFetch + faults * Interval /\ (since[u] = 0 \/ began[u] <= since[u] + Interval + Slack)
    BY DEF InTime
  <2>2. Interval + Slack + MaxFetch + MaxFaults * Interval <= MaxWindow
    BY DEF RefreshKeepsUp
  <2> QED
    BY <1>1, <1>2, <2>1, <2>2
<1> QED
  BY <1>1, <1>3, WindowIsAsked

\* Later entries only push an entry up the list.
LEMMA PositionGrows ==
    ASSUME FetchTypes, FetchTypes', \A c \in CVEs : indexed[c] <= indexed'[c],
           NEW s \in Nat, NEW c \in CVEs
    PROVE  position(c, s) \in Nat /\ position(c, s)' \in Nat /\ position(c, s) <= position(c, s)'
<1>1. IsFiniteSet(CVEs)
  BY RefreshConstants
<1>2. {d \in shown(s) : d < c} \subseteq {d \in shown(s)' : d < c} /\ {d \in shown(s)' : d < c} \subseteq CVEs
  BY DEF shown, FetchTypes
<1>3. IsFiniteSet({d \in shown(s)' : d < c})
  BY <1>1, <1>2, FS_Subset
<1> QED
  BY <1>2, <1>3, FS_Subset, FS_CardinalityType DEF position

\* The fetch of an updater that does not move, in a world that does.
LEMMA FetchStays ==
    ASSUME FetchTypes, FetchTypes', \A c \in CVEs : indexed[c] <= indexed'[c],
           NEW u \in Refresh!Updaters, PagesAhead(u), AllFetched(u),
           /\ updater'[u] = updater[u] /\ since'[u] = since[u] /\ start'[u] = start[u]
           /\ docs'[u] = docs[u] /\ owed'[u] = owed[u]
    PROVE  PagesAhead(u)' /\ AllFetched(u)'
<1>1. AllFetched(u)'
  BY DEF AllFetched, fetched
<1>2. ASSUME fetching(u), NEW c \in CVEs, owed[u][c] > 0
      PROVE  /\ since[u] <= owed[u][c] /\ owed[u][c] <= indexed'[c]
             /\ docs[u][c] >= owed[u][c] \/ start[u] <= position(c, since[u])'
  <2>1. /\ since[u] <= owed[u][c] /\ owed[u][c] <= indexed[c]
        /\ docs[u][c] >= owed[u][c] \/ start[u] <= position(c, since[u])
    BY <1>2 DEF PagesAhead
  <2>2. since[u] \in Nat /\ owed[u][c] \in Nat /\ indexed[c] \in Nat /\ indexed'[c] \in Nat /\ start[u] \in Nat
    BY DEF FetchTypes
  <2>3. position(c, since[u]) \in Nat /\ position(c, since[u])' \in Nat
        /\ position(c, since[u]) <= position(c, since[u])'
    <3> DEFINE s == since[u]
    <3> HIDE DEF s
    <3>1. PICK k \in Nat : k = since[u]
      BY <2>2
    <3>2. position(c, k) \in Nat /\ position(c, k)' \in Nat /\ position(c, k) <= position(c, k)'
      BY <3>1, PositionGrows
    <3> QED
      BY <3>1, <3>2 DEF position, shown
  <2> QED
    BY <2>1, <2>2, <2>3
<1> QED
  BY <1>1, <1>2 DEF PagesAhead, fetching, position, shown

\* Where an updater can be.
Steps == {"new", "fetch", "open", "write", "rename", "select", "exited"}

\* An updater whose fetch is over, or that goes on from it, and nothing else.
LEMMA FetchMovesOn ==
    ASSUME FetchInv, NEW u \in Refresh!Updaters, updater \in [Refresh!Updaters -> Steps],
           NEW t \in {"new", "select", "exited", "write", "rename"},
           updater' = [updater EXCEPT ![u] = t], t \in {"write", "rename"} => fetched(u),
           UNCHANGED <<now, modified, indexed, since, start, docs, began, owed>>,
           faults' \in {faults, faults + 1}, faults' \in 0..MaxFaults
    PROVE  FetchInv'
<1>1. FetchTypes'
  BY DEF FetchInv, FetchTypes
<1>2. ASSUME NEW v \in Refresh!Updaters PROVE (fetching(v)' => fetching(v)) /\ (fetched(v)' => fetched(v))
  BY DEF fetching, fetched
<1>3. ASSUME NEW v \in Refresh!Updaters PROVE PagesAhead(v)' /\ AllFetched(v)'
  BY <1>2, <1>3 DEF FetchInv, PagesAhead, AllFetched, position, shown
<1>4. ASSUME NEW v \in Refresh!Updaters PROVE InTime(v)'
  <2>1. faults * Interval \in Nat /\ faults' * Interval \in Nat /\ faults * Interval <= faults' * Interval
    BY FaultsCost DEF FetchInv, FetchTypes
  <2>2. now \in Nat /\ began[v] \in Nat /\ MaxFetch \in Nat /\ InTime(v)
    BY RefreshConstants DEF FetchInv, FetchTypes
  <2>3. fetching(v) \/ fetched(v) => now <= began[v] + MaxFetch + faults' * Interval
    BY <2>1, <2>2 DEF InTime
  <2> QED
    BY <1>2, <2>2, <2>3 DEF InTime
<1> QED
  BY <1>1, <1>3, <1>4 DEF FetchInv

\* A fetch begins over a full window, or over one that is as long as the ticker's.
LEMMA FetchBegins ==
    ASSUME RefreshKeepsUp, FetchInv, NEW u \in Refresh!Updaters, updater \in [Refresh!Updaters -> Steps],
           NEW s \in Nat, Refresh!Begin(u, s), s = 0 \/ now <= s + Interval + Slack,
           UNCHANGED <<now, modified, indexed, faults>>
    PROVE  FetchInv' /\ owed'[u] = [c \in CVEs |-> IF c \in shown(s) THEN indexed[c] ELSE 0]
<1>0. /\ now \in Nat /\ MaxWindow \in Nat /\ Interval \in Nat /\ Slack \in Nat /\ MaxFetch \in Nat
      /\ MaxFaults \in Nat /\ faults \in Nat
  BY RefreshConstants DEF FetchInv, FetchTypes
<1>1. MaxFaults * Interval \in Nat /\ faults * Interval \in Nat
  BY <1>0, FaultsCost
<1>2. s = 0 \/ now <= s + MaxWindow
  BY <1>0, <1>1 DEF RefreshKeepsUp
<1>3. Refresh!listed(s) = shown(s)
  BY <1>0, <1>2, WindowIsAsked
<1>4. /\ updater' = [updater EXCEPT ![u] = "fetch"] /\ since' = [since EXCEPT ![u] = s]
      /\ start' = [start EXCEPT ![u] = 0] /\ docs' = [docs EXCEPT ![u] = [c \in CVEs |-> 0]]
      /\ began' = [began EXCEPT ![u] = now]
      /\ owed' = [owed EXCEPT ![u] = [c \in CVEs |-> IF c \in shown(s) THEN indexed[c] ELSE 0]]
  BY <1>3 DEF Refresh!Begin, Refresh!Nothing
<1>5. [c \in CVEs |-> IF c \in shown(s) THEN indexed[c] ELSE 0] \in [CVEs -> Nat] /\ [c \in CVEs |-> 0] \in [CVEs -> Nat]
  BY DEF FetchInv, FetchTypes
<1>6. FetchTypes'
  BY <1>0, <1>4, <1>5 DEF FetchInv, FetchTypes
<1>7. ASSUME NEW v \in Refresh!Updaters \ {u} PROVE InTime(v)' /\ PagesAhead(v)' /\ AllFetched(v)'
  <2>1. /\ updater'[v] = updater[v] /\ since'[v] = since[v] /\ start'[v] = start[v]
        /\ docs'[v] = docs[v] /\ owed'[v] = owed[v] /\ began'[v] = began[v]
    BY <1>4 DEF FetchInv, FetchTypes
  <2>2. InTime(v)'
    BY <2>1 DEF FetchInv, InTime, fetching, fetched
  <2>3. \A c \in CVEs : indexed[c] <= indexed'[c]
    BY DEF FetchInv, FetchTypes
  <2> QED
    BY <1>6, <2>1, <2>2, <2>3, FetchStays DEF FetchInv
<1>8. InTime(u)'
  <2>1. began'[u] = now /\ since'[u] = s
    BY <1>0, <1>4 DEF FetchInv, FetchTypes
  <2>2. now <= now + MaxFetch + faults * Interval
    BY <1>0, <1>1
  <2> QED
    BY <1>0, <2>1, <2>2 DEF InTime
<1>9. PagesAhead(u)' /\ AllFetched(u)'
  <2>1. updater'[u] = "fetch" /\ start'[u] = 0 /\ since'[u] = s
        /\ owed'[u] = [c \in CVEs |-> IF c \in shown(s) THEN indexed[c] ELSE 0]
    BY <1>4 DEF FetchInv, FetchTypes
  <2>2. ASSUME NEW c \in CVEs, owed'[u][c] > 0
        PROVE  s <= owed'[u][c] /\ owed'[u][c] <= indexed'[c] /\ 0 <= position(c, s)'
    <3>1. c \in shown(s) /\ owed'[u][c] = indexed[c] /\ indexed[c] \in Nat
      BY <2>1, <2>2 DEF FetchInv, FetchTypes
    <3>2. position(c, s)' \in Nat
      <4>1. \A d \in CVEs : indexed[d] <= indexed'[d]
        BY DEF FetchInv, FetchTypes
      <4> QED
        BY <1>6, <4>1, PositionGrows DEF FetchInv
    <3> QED
      BY <3>1, <3>2 DEF shown
  <2> QED
    BY <2>1, <2>2 DEF PagesAhead, AllFetched, fetching, fetched, position, shown
<1>10. owed'[u] = [c \in CVEs |-> IF c \in shown(s) THEN indexed[c] ELSE 0]
  BY <1>4 DEF FetchInv, FetchTypes
<1> QED
  BY <1>6, <1>7, <1>8, <1>9, <1>10 DEF FetchInv

\* A page brings what is next in the list; the last one leaves nothing ahead.
LEMMA PageFetched ==
    ASSUME RefreshKeepsUp, FetchInv, NEW u \in Refresh!Updaters, updater \in [Refresh!Updaters -> Steps],
           Refresh!Page(u)
    PROVE  FetchInv'
<1> DEFINE next == start[u] + PageSize
           got == {c \in shown(since[u]) : start[u] <= position(c, since[u]) /\ position(c, since[u]) < next}
           total == Cardinality(shown(since[u]))
<1>0. /\ start[u] \in Nat /\ PageSize \in Nat /\ next \in Nat /\ since[u] \in Nat
  BY RefreshConstants DEF FetchInv, FetchTypes
<1>1. fetching(u) /\ Refresh!listed(since[u]) = shown(since[u])
  BY WindowFits DEF Refresh!Page, FetchInv, fetching
<1>2. /\ \A S : Refresh!Cardinality(S) = Cardinality(S)
      /\ \A c : Refresh!place(c, since[u]) = position(c, since[u])
  <2>1. \A S : Refresh!Cardinality(S) = Cardinality(S)
    BY DEF Refresh!Cardinality, Cardinality
  <2> QED
    BY <1>1, <2>1 DEF Refresh!place, position
<1>3. /\ docs' = [docs EXCEPT ![u] = [c \in CVEs |-> IF c \in got THEN indexed[c] ELSE @[c]]]
      /\ start' = [start EXCEPT ![u] = next]
      /\ updater' = [updater EXCEPT ![u] = IF next >= total THEN "open" ELSE "fetch"]
      /\ UNCHANGED <<now, modified, indexed, faults, since, began, owed>>
  <2>1. Refresh!lastPage(next, total, next \div PageSize) <=> next >= total
    BY DEF Refresh!lastPage, RefreshKeepsUp
  <2>2. {c \in Refresh!listed(since[u]) :
           start[u] <= Refresh!place(c, since[u]) /\ Refresh!place(c, since[u]) < next} = got
    BY <1>1, <1>2
  <2>3. Refresh!Cardinality(Refresh!listed(since[u])) = total
    BY <1>1, <1>2
  <2> QED
    BY <2>1, <2>2, <2>3 DEF Refresh!Page, Refresh!nvd
<1> HIDE DEF next, got, total
<1>4. [c \in CVEs |-> IF c \in got THEN indexed[c] ELSE docs[u][c]] \in [CVEs -> Nat]
  BY DEF FetchInv, FetchTypes
<1>5. FetchTypes'
  BY <1>0, <1>3, <1>4 DEF FetchInv, FetchTypes
<1>6. ASSUME NEW v \in Refresh!Updaters \ {u} PROVE InTime(v)' /\ PagesAhead(v)' /\ AllFetched(v)'
  <2>1. /\ updater'[v] = updater[v] /\ since'[v] = since[v] /\ start'[v] = start[v]
        /\ docs'[v] = docs[v] /\ owed'[v] = owed[v] /\ began'[v] = began[v]
    BY <1>3 DEF FetchInv, FetchTypes
  <2>2. InTime(v)'
    BY <1>3, <2>1 DEF FetchInv, InTime, fetching, fetched
  <2>3. \A c \in CVEs : indexed[c] <= indexed'[c]
    BY <1>3 DEF FetchInv, FetchTypes
  <2> QED
    BY <1>5, <2>1, <2>2, <2>3, FetchStays DEF FetchInv
<1>7. InTime(u)'
  BY <1>1, <1>3 DEF FetchInv, InTime, fetching, fetched
<1>8. ASSUME NEW c \in CVEs, owed[u][c] > 0
      PROVE  /\ since[u] <= owed[u][c] /\ owed[u][c] <= indexed[c]
             /\ docs'[u][c] >= owed[u][c] \/ (next <= position(c, since[u]) /\ position(c, since[u]) < total)
  <2>1. /\ since[u] <= owed[u][c] /\ owed[u][c] <= indexed[c]
        /\ docs[u][c] >= owed[u][c] \/ start[u] <= position(c, since[u])
    BY <1>1, <1>8 DEF FetchInv, PagesAhead
  <2>2. owed[u][c] \in Nat /\ indexed[c] \in Nat /\ docs[u][c] \in Nat
    BY DEF FetchInv, FetchTypes
  <2>3. docs'[u][c] = IF c \in got THEN indexed[c] ELSE docs[u][c]
    BY <1>3 DEF FetchInv, FetchTypes
  <2>4. c \in shown(since[u])
    BY <1>0, <1>8, <2>1, <2>2 DEF shown
  <2>5. position(c, since[u]) \in Nat /\ total \in Nat /\ position(c, since[u]) < total
    <3>1. IsFiniteSet(shown(since[u]))
      BY RefreshConstants, FS_Subset DEF shown
    <3>2. {d \in shown(since[u]) : d < c} \in SUBSET (shown(since[u]) \ {c})
      BY RefreshConstants DEF shown
    <3>3. IsFiniteSet(shown(since[u]) \ {c}) /\ Cardinality(shown(since[u]) \ {c}) = total - 1 /\ total \in Nat
      BY <2>4, <3>1, FS_RemoveElement, FS_CardinalityType DEF total
    <3>4. /\ position(c, since[u]) \in Nat
          /\ position(c, since[u]) <= Cardinality(shown(since[u]) \ {c})
      BY <3>2, <3>3, FS_Subset, FS_CardinalityType DEF position
    <3> QED
      BY <3>3, <3>4
  <2>6. c \in got <=> start[u] <= position(c, since[u]) /\ position(c, since[u]) < next
    BY <2>4 DEF got
  <2> QED
    BY <1>0, <2>1, <2>2, <2>3, <2>5, <2>6
<1>9. PagesAhead(u)'
  <2>1. since'[u] = since[u] /\ owed'[u] = owed[u] /\ start'[u] = next /\ indexed' = indexed
    BY <1>3 DEF FetchInv, FetchTypes
  <2> QED
    BY <1>8, <2>1 DEF PagesAhead, position, shown
<1>10. AllFetched(u)'
  <2>1. updater'[u] = (IF next >= total THEN "open" ELSE "fetch") /\ owed'[u] = owed[u]
    BY <1>3 DEF FetchInv, FetchTypes
  <2>2. ASSUME next >= total, NEW c \in CVEs PROVE docs'[u][c] >= owed[u][c]
    <3>1. docs'[u][c] \in Nat /\ owed[u][c] \in Nat
      BY <1>5 DEF FetchInv, FetchTypes
    <3>2. total \in Nat /\ position(c, since[u]) \in Nat
      <4>1. IsFiniteSet(shown(since[u])) /\ IsFiniteSet({d \in shown(since[u]) : d < c})
        BY RefreshConstants, FS_Subset DEF shown
      <4> QED
        BY <4>1, FS_CardinalityType DEF total, position
    <3> QED
      BY <1>0, <1>8, <2>2, <3>1, <3>2
  <2> QED
    BY <2>1, <2>2 DEF AllFetched, fetched
<1> QED
  BY <1>5, <1>6, <1>7, <1>9, <1>10 DEF FetchInv

\* Time passes and the API's list grows, while no updater moves.
LEMMA FetchWaits ==
    ASSUME FetchInv, FetchTypes', UNCHANGED <<updater, since, start, docs, began, owed>>,
           \A c \in CVEs : indexed[c] <= indexed'[c],
           now <= now', faults <= faults',
           \A u \in Refresh!Updaters : fetching(u) \/ fetched(u) => now' <= began[u] + MaxFetch + faults' * Interval
    PROVE  FetchInv'
<1> SUFFICES ASSUME NEW u \in Refresh!Updaters PROVE InTime(u)' /\ PagesAhead(u)' /\ AllFetched(u)'
  BY DEF FetchInv
<1>1. InTime(u)'
  BY DEF FetchInv, FetchTypes, InTime, fetching, fetched
<1>2. PagesAhead(u) /\ AllFetched(u) /\ FetchTypes
  BY DEF FetchInv
<1> QED
  BY <1>1, <1>2, FetchStays

LEMMA FetchInvStep ==
    ASSUME RefreshKeepsUp, RefreshInv, FetchInv, [Refresh!Next]_refreshVars
    PROVE  FetchInv'
<1>0. /\ updater \in [Refresh!Updaters -> Steps]
      /\ now \in Nat /\ faults \in Nat /\ MaxFaults \in Nat /\ faults \in 0..MaxFaults
      /\ Interval \in Nat /\ Slack \in Nat /\ MaxFetch \in Nat /\ Daemon \in Refresh!Updaters
  <2>1. updater \in [Refresh!Updaters -> Steps]
    BY DEF RefreshInv, RefreshTypes, Steps
  <2> QED
    BY <2>1, RefreshConstants DEF FetchInv, FetchTypes
<1>1. ASSUME NEW u \in Refresh!Updaters, Refresh!FirstRefresh(u) PROVE FetchInv'
  <2>1. Refresh!Begin(u, 0) /\ UNCHANGED <<now, modified, indexed, faults>>
    BY <1>1 DEF Refresh!FirstRefresh, Refresh!parseSince, RefreshKeepsUp, Refresh!nvd
  <2> QED
    BY <1>0, <2>1, FetchBegins
<1>2. CASE Refresh!TickRefresh
  <2>1. Refresh!Begin(Daemon, Refresh!rolling) /\ UNCHANGED <<now, modified, indexed, faults>>
    BY <1>2 DEF Refresh!TickRefresh, Refresh!nvd
  <2>2. Refresh!rolling \in Nat /\ (Refresh!rolling = 0 \/ now <= Refresh!rolling + Interval + Slack)
    BY <1>0 DEF Refresh!rolling, Refresh!minus
  <2>3. PICK s \in Nat : s = Refresh!rolling
    BY <2>2
  <2> QED
    BY <1>0, <2>1, <2>2, <2>3, FetchBegins
<1>3. ASSUME NEW u \in Refresh!Updaters, Refresh!Page(u) PROVE FetchInv'
  BY <1>0, <1>3, PageFetched
<1>4. ASSUME NEW u \in Refresh!Updaters,
             \/ Refresh!Cancel(u) \/ Refresh!Rename(u) \/ Refresh!RenameFails(u)
             \/ Refresh!FetchFails(u) \/ Refresh!WriteFails(u) \/ Refresh!Crash(u)
      PROVE  FetchInv'
  <2>1. PICK t \in {"new", "select", "exited"} : updater' = [updater EXCEPT ![u] = t]
    BY <1>4 DEF Refresh!Cancel, Refresh!Rename, Refresh!RenameFails, Refresh!FetchFails, Refresh!WriteFails,
                Refresh!Crash, Refresh!AfterRefresh, Refresh!afterFailedWrite
  <2>2. UNCHANGED <<now, modified, indexed, since, start, docs, began, owed>>
    BY <1>4 DEF Refresh!Cancel, Refresh!Rename, Refresh!RenameFails, Refresh!FetchFails, Refresh!WriteFails,
                Refresh!Crash, Refresh!nvd, Refresh!job
  <2>3. faults' = faults \/ (faults < MaxFaults /\ faults' = faults + 1)
    BY <1>4 DEF Refresh!Cancel, Refresh!Rename, Refresh!RenameFails, Refresh!FetchFails, Refresh!WriteFails,
                Refresh!Crash
  <2>4. faults' \in {faults, faults + 1} /\ faults' \in 0..MaxFaults
    BY <1>0, <2>3
  <2> QED
    BY <1>0, <2>1, <2>2, <2>4, FetchMovesOn
<1>5. ASSUME NEW u \in Refresh!Updaters, Refresh!Open(u) \/ Refresh!Write(u) PROVE FetchInv'
  <2>1. PICK t \in {"write", "rename"} : updater' = [updater EXCEPT ![u] = t]
    BY <1>5 DEF Refresh!Open, Refresh!Write
  <2>2. fetched(u)
    BY <1>5 DEF Refresh!Open, Refresh!Write, fetched
  <2>3. UNCHANGED <<now, modified, indexed, since, start, docs, began, owed, faults>>
    BY <1>5 DEF Refresh!Open, Refresh!Write, Refresh!nvd, Refresh!job
  <2> QED
    BY <1>0, <2>1, <2>2, <2>3, FetchMovesOn
<1>6. CASE Refresh!Stop
  <2>1. UNCHANGED <<now, modified, indexed, since, start, docs, began, owed, faults>>
    BY <1>6 DEF Refresh!Stop, Refresh!nvd, Refresh!job
  <2> QED
    BY <1>0, <1>6, <2>1, FetchMovesOn DEF Refresh!Stop
<1>7. ASSUME NEW c \in CVEs, Refresh!Modify(c) \/ Refresh!Index(c) PROVE FetchInv'
  <2>1. UNCHANGED <<now, faults, updater, since, start, docs, began, owed>>
    BY <1>7 DEF Refresh!Modify, Refresh!Index, Refresh!job
  <2>2. \/ modified' = [modified EXCEPT ![c] = now] /\ indexed' = indexed
        \/ indexed' = [indexed EXCEPT ![c] = modified[c]] /\ modified' = modified
    BY <1>7 DEF Refresh!Modify, Refresh!Index
  <2>3. /\ modified' \in [CVEs -> Nat] /\ indexed' \in [CVEs -> Nat]
        /\ \A d \in CVEs : indexed'[d] <= modified'[d] /\ modified'[d] <= now /\ indexed[d] <= indexed'[d]
    <3>1. CASE modified' = [modified EXCEPT ![c] = now] /\ indexed' = indexed
      BY <1>0, <3>1 DEF FetchInv, FetchTypes
    <3>2. CASE indexed' = [indexed EXCEPT ![c] = modified[c]] /\ modified' = modified
      BY <1>0, <3>2 DEF FetchInv, FetchTypes
    <3> QED
      BY <2>2, <3>1, <3>2
  <2>4. FetchTypes'
    BY <2>1, <2>3 DEF FetchInv, FetchTypes
  <2> QED
    BY <1>0, <2>1, <2>3, <2>4, FetchWaits DEF FetchInv, InTime
<1>8. CASE Refresh!Advance
  <2>1. /\ now' = now + 1
        /\ UNCHANGED <<modified, indexed, faults, updater, since, start, docs, began, owed>>
        /\ \A u \in Refresh!Updaters : fetching(u) \/ fetched(u) => now < began[u] + MaxFetch
    BY <1>8 DEF Refresh!Advance, Refresh!nvd, Refresh!job, Refresh!busy, fetching, fetched
  <2>2. FetchTypes'
    BY <1>0, <2>1 DEF FetchInv, FetchTypes
  <2>3. faults * Interval \in Nat
    BY <1>0, FaultsCost
  <2>4. ASSUME NEW u \in Refresh!Updaters, fetching(u) \/ fetched(u)
        PROVE  now' <= began[u] + MaxFetch + faults' * Interval
    <3>1. began[u] \in Nat
      BY DEF FetchInv, FetchTypes
    <3> QED
      BY <1>0, <2>1, <2>3, <2>4, <3>1
  <2>5. \A c \in CVEs : indexed[c] <= indexed'[c]
    BY <2>1 DEF FetchInv, FetchTypes
  <2> QED
    BY <1>0, <2>1, <2>2, <2>4, <2>5, FetchWaits
<1>9. CASE Refresh!Suspend
  <2>1. /\ now' = now + Interval /\ faults' = faults + 1 /\ faults < MaxFaults
        /\ UNCHANGED <<modified, indexed, updater, since, start, docs, began, owed>>
    BY <1>9 DEF Refresh!Suspend, Refresh!nvd, Refresh!job
  <2>2. FetchTypes'
    BY <1>0, <2>1 DEF FetchInv, FetchTypes
  <2>3. faults * Interval \in Nat /\ (faults + 1) * Interval = faults * Interval + Interval
    BY <1>0, FaultsCost
  <2>4. ASSUME NEW u \in Refresh!Updaters, fetching(u) \/ fetched(u)
        PROVE  now' <= began[u] + MaxFetch + faults' * Interval
    <3>1. began[u] \in Nat /\ now <= began[u] + MaxFetch + faults * Interval
      BY <2>4 DEF FetchInv, FetchTypes, InTime
    <3> QED
      BY <1>0, <2>1, <2>3, <3>1
  <2>5. \A c \in CVEs : indexed[c] <= indexed'[c]
    BY <2>1 DEF FetchInv, FetchTypes
  <2> QED
    BY <1>0, <2>1, <2>2, <2>4, <2>5, FetchWaits
<1>10. CASE UNCHANGED <<now, modified, indexed, faults, updater, since, start, docs, began, owed>>
  <2>1. FetchTypes'
    BY <1>10 DEF FetchInv, FetchTypes
  <2>2. \A c \in CVEs : indexed[c] <= indexed'[c]
    BY <1>10 DEF FetchInv, FetchTypes
  <2> QED
    BY <1>0, <1>10, <2>1, <2>2, FetchWaits DEF FetchInv, InTime
<1>11. Refresh!Sigterm \/ UNCHANGED refreshVars => UNCHANGED <<now, modified, indexed, faults, updater, since, start, docs, began, owed>>
  BY DEF Refresh!Sigterm, refreshVars, Refresh!nvd, Refresh!job
<1> QED
  BY <1>1, <1>2, <1>3, <1>4, <1>5, <1>6, <1>7, <1>8, <1>9, <1>10, <1>11
     DEF Refresh!Next, Refresh!Work, Refresh!vars, refreshVars, Refresh!nvd, Refresh!job

\* The steps that are left when no crontab runs beside the daemon and nothing fails.
DaemonMoves ==
    \/ Refresh!FirstRefresh(Daemon) \/ Refresh!Page(Daemon) \/ Refresh!Cancel(Daemon)
    \/ Refresh!Open(Daemon) \/ Refresh!Write(Daemon) \/ Refresh!Rename(Daemon)
    \/ Refresh!TickRefresh \/ Refresh!Stop

LEMMA UndisturbedSteps ==
    ASSUME RefreshInv, FetchTypes, undisturbedRefresh', [Refresh!Next]_refreshVars
    PROVE  /\ undisturbedRefresh /\ RefreshTypes /\ SoleWriter
           /\ \/ \E c \in CVEs : Refresh!Modify(c) \/ Refresh!Index(c)
              \/ Refresh!Advance \/ Refresh!Sigterm \/ DaemonMoves \/ UNCHANGED refreshVars
<1>0. faults \in Nat /\ faults' = 0 /\ crontab' = {}
  BY RefreshConstants DEF FetchTypes, undisturbedRefresh
<1>1. ASSUME NEW u \in Refresh!Updaters,
             Refresh!Work(u) \/ Refresh!Page(u) \/ Refresh!FetchFails(u) \/ Refresh!Crash(u)
      PROVE  undisturbedRefresh /\ DaemonMoves
  <2>1. crontab = {} /\ updater[u] # "exited"
    BY <1>0, <1>1, StepOfUpdater DEF RefreshInv
  <2>2. SoleWriter
    BY <2>1 DEF RefreshInv
  <2>3. u = Daemon
    BY <2>1, <2>2 DEF Refresh!Updaters, SoleWriter
  <2>4. ~Refresh!FetchFails(u) /\ ~Refresh!WriteFails(u) /\ ~Refresh!Crash(u)
    <3>1. faults' # faults + 1
      BY <1>0
    <3> QED
      BY <3>1 DEF Refresh!FetchFails, Refresh!WriteFails, Refresh!Crash
  <2>5. ~Refresh!RenameFails(u)
    BY <2>2, <2>3 DEF SoleWriter, Refresh!RenameFails
  <2>6. DaemonMoves
    BY <1>1, <2>3, <2>4, <2>5 DEF DaemonMoves, Refresh!Work
  <2>7. faults = 0
    BY <1>0, <2>6 DEF DaemonMoves, Refresh!FirstRefresh, Refresh!Page, Refresh!Cancel, Refresh!Open, Refresh!Write,
                  Refresh!Rename, Refresh!TickRefresh, Refresh!Stop
  <2> QED
    BY <2>1, <2>6, <2>7 DEF undisturbedRefresh
<1>2. ~Refresh!Suspend
  <2>1. faults' # faults + 1
    BY <1>0
  <2> QED
    BY <2>1 DEF Refresh!Suspend
<1>3. CASE \/ \E c \in CVEs : Refresh!Modify(c) \/ Refresh!Index(c)
           \/ Refresh!Advance \/ Refresh!Sigterm \/ Refresh!TickRefresh \/ Refresh!Stop \/ UNCHANGED refreshVars
  <2>1. crontab' = crontab /\ faults' = faults
    BY <1>3 DEF Refresh!Modify, Refresh!Index, Refresh!Advance, Refresh!Sigterm, Refresh!TickRefresh, Refresh!Stop,
                refreshVars
  <2>2. undisturbedRefresh /\ RefreshTypes /\ SoleWriter
    BY <1>0, <2>1 DEF undisturbedRefresh, RefreshInv
  <2> QED
    BY <1>3, <2>2 DEF DaemonMoves
<1>4. UNCHANGED Refresh!vars => UNCHANGED refreshVars
  BY DEF Refresh!vars, refreshVars, Refresh!nvd, Refresh!ticker, Refresh!job
<1> QED
  BY <1>1, <1>2, <1>3, <1>4 DEF Refresh!Next, RefreshInv, undisturbedRefresh

\* After a refresh the ticker is ahead, by no more than an interval.
LEMMA TickerAfterRefresh ==
    ASSUME RefreshTypes, FetchInv, undisturbedRefresh, TickerInv, NEW wrote \in BOOLEAN,
           fetching(Daemon) \/ fetched(Daemon), Refresh!AfterRefresh(Daemon, wrote),
           UNCHANGED <<now, modified, indexed, began>>
    PROVE  TickerInv'
<1>1. /\ now \in Nat /\ due \in Nat /\ began[Daemon] \in Nat /\ Interval \in Nat /\ Interval > 0 /\ MaxFetch \in Nat
      /\ now <= began[Daemon] + MaxFetch
  <2>1. /\ now \in Nat /\ due \in Nat /\ began[Daemon] \in Nat /\ Interval \in Nat /\ Interval > 0
        /\ MaxFetch \in Nat /\ faults = 0 /\ InTime(Daemon)
    BY RefreshConstants DEF FetchInv, FetchTypes, TickerInv, undisturbedRefresh
  <2>2. 0 * Interval = 0
    BY <2>1
  <2>3. now <= began[Daemon] + MaxFetch + 0 * Interval
    BY <2>1 DEF InTime
  <2> QED
    BY <2>1, <2>2, <2>3
<1>2. due' = (IF due = 0 THEN now + Interval ELSE due) /\ waiting' = waiting
  BY DEF Refresh!AfterRefresh
<1>3. due' \in Nat /\ due' # 0 /\ now < due' /\ due' <= now + Interval
  BY <1>1, <1>2 DEF TickerInv
<1>4. now <= began[Daemon] + MaxFetch + Interval /\ due' <= began[Daemon] + MaxFetch + Interval
  BY <1>1, <1>3
<1> QED
  BY <1>3, <1>4 DEF TickerInv

LEMMA TickerInvStep ==
    ASSUME RefreshInv, FetchInv, undisturbedRefresh, TickerInv, undisturbedRefresh', [Refresh!Next]_refreshVars
    PROVE  TickerInv'
<1>0. /\ now \in Nat /\ due \in Nat /\ began[Daemon] \in Nat /\ Interval \in Nat /\ Interval > 0 /\ MaxFetch \in Nat
      /\ Lag \in Nat /\ modified \in [CVEs -> Nat] /\ indexed \in [CVEs -> Nat] /\ Daemon \in Refresh!Updaters
  BY RefreshConstants DEF FetchInv, FetchTypes, TickerInv
<1>1. ASSUME NEW c \in CVEs, Refresh!Modify(c) \/ Refresh!Index(c) PROVE TickerInv'
  <2>1. UNCHANGED <<now, updater, due, waiting, began>>
    BY <1>1 DEF Refresh!Modify, Refresh!Index, Refresh!ticker, Refresh!job
  <2>2. \A d \in CVEs : indexed'[d] # modified'[d] => now <= modified'[d] + Lag
    <3>1. CASE Refresh!Modify(c)
      <4>1. indexed' = indexed /\ modified' = [modified EXCEPT ![c] = now]
        BY <3>1 DEF Refresh!Modify
      <4> QED
        BY <1>0, <4>1 DEF TickerInv
    <3>2. CASE Refresh!Index(c)
      <4>1. modified' = modified /\ indexed' = [indexed EXCEPT ![c] = modified[c]]
        BY <3>2 DEF Refresh!Index
      <4> QED
        BY <1>0, <4>1 DEF TickerInv
    <3> QED
      BY <1>1, <3>1, <3>2
  <2> QED
    BY <2>1, <2>2 DEF TickerInv
<1>2. CASE Refresh!Advance
  <2>1. /\ now' = now + 1 /\ UNCHANGED <<modified, indexed, updater, began>>
        /\ \A c \in CVEs : indexed[c] # modified[c] => now < modified[c] + Lag
        /\ updater[Daemon] = "select" => ~waiting
    BY <1>2 DEF Refresh!Advance, Refresh!nvd, Refresh!job
  <2>2. \/ due # 0 /\ now + 1 >= due /\ waiting' = TRUE /\ due' = due + Interval
        \/ ~(due # 0 /\ now + 1 >= due) /\ due' = due /\ waiting' = waiting
    BY <1>2 DEF Refresh!Advance, Refresh!Tick, Refresh!ticker
  <2>3. \A c \in CVEs : indexed'[c] # modified'[c] => now' <= modified'[c] + Lag
    BY <1>0, <2>1
  <2>4. due' \in Nat /\ (due' # 0 => now' < due' /\ due' <= now' + Interval)
    BY <1>0, <2>1, <2>2 DEF TickerInv
  <2>5. ASSUME updater[Daemon] = "select"
        PROVE  /\ due' # 0
               /\ waiting' => now' <= began[Daemon] + MaxFetch + Interval
               /\ ~waiting' => due' <= began[Daemon] + MaxFetch + Interval
    BY <1>0, <2>1, <2>2, <2>5 DEF TickerInv
  <2> QED
    BY <2>1, <2>3, <2>4, <2>5 DEF TickerInv
<1>3. CASE DaemonMoves
  <2>1. CASE Refresh!Cancel(Daemon) \/ Refresh!Rename(Daemon)
    <3>1. PICK wrote \in BOOLEAN : Refresh!AfterRefresh(Daemon, wrote)
      BY <2>1 DEF Refresh!Cancel, Refresh!Rename
    <3>2. /\ UNCHANGED <<now, modified, indexed, began>> /\ (fetching(Daemon) \/ fetched(Daemon))
      BY <2>1 DEF Refresh!Cancel, Refresh!Rename, Refresh!nvd, Refresh!job, fetching, fetched
    <3> QED
      BY <3>1, <3>2, TickerAfterRefresh DEF RefreshInv
  <2>2. CASE \/ Refresh!FirstRefresh(Daemon) \/ Refresh!Page(Daemon) \/ Refresh!Open(Daemon) \/ Refresh!Write(Daemon)
             \/ Refresh!TickRefresh \/ Refresh!Stop
    <3>1. UNCHANGED <<now, modified, indexed, due>>
      BY <2>2 DEF Refresh!FirstRefresh, Refresh!Page, Refresh!Open, Refresh!Write, Refresh!TickRefresh, Refresh!Stop,
                  Refresh!ticker, Refresh!nvd
    <3>2. updater'[Daemon] # "select"
      BY <1>0, <2>2 DEF RefreshInv, RefreshTypes, Refresh!FirstRefresh, Refresh!Page, Refresh!Open, Refresh!Write,
                  Refresh!TickRefresh, Refresh!Stop, Refresh!Begin
    <3> QED
      BY <3>1, <3>2 DEF TickerInv
  <2> QED
    BY <1>3, <2>1, <2>2 DEF DaemonMoves
<1>4. CASE Refresh!Sigterm \/ UNCHANGED refreshVars
  <2>1. UNCHANGED <<now, modified, indexed, updater, due, waiting, began>>
    BY <1>4 DEF Refresh!Sigterm, refreshVars, Refresh!nvd, Refresh!ticker, Refresh!job
  <2> QED
    BY <2>1 DEF TickerInv
<1>5. FetchTypes
  BY DEF FetchInv
<1> QED
  BY <1>1, <1>2, <1>3, <1>4, <1>5, UndisturbedSteps

\* Where nothing is collected, owed or indexed, nothing changes.
LEMMA CollectedStays ==
    ASSUME CollectedInv, UNCHANGED <<indexed, began, collected, refreshed>>, owed'[Daemon] = owed[Daemon],
           stopping => stopping',
           \/ updater'[Daemon] = updater[Daemon] /\ UNCHANGED <<disk, docs>>
           \/ updater'[Daemon] = "exited"
           \/ fetching(Daemon) /\ ~stopping /\ updater'[Daemon] \in {"fetch", "open"}
           \/ updater[Daemon] = "open" /\ updater'[Daemon] = "write"
           \/ updater[Daemon] = "write" /\ updater'[Daemon] = "rename" /\ disk'["tmp"].has = docs'[Daemon]
    PROVE  CollectedInv'
BY DEF CollectedInv, settled, fetching, fetched

\* The lag is over for whatever is settled, so that the API shows no more of it.
LEMMA SettledStays ==
    ASSUME FetchInv, TickerInv, CollectedInv, NEW c \in CVEs, Refresh!Modify(c) \/ Refresh!Index(c)
    PROVE  CollectedInv'
<1>0. /\ now \in Nat /\ began[Daemon] \in Nat /\ Lag \in Nat /\ began[Daemon] <= now
      /\ modified \in [CVEs -> Nat] /\ indexed \in [CVEs -> Nat]
  BY RefreshConstants DEF FetchInv, FetchTypes, InTime
<1>1. UNCHANGED <<updater, began, collected, owed, docs, disk, refreshed, stopping>>
  BY DEF Refresh!Modify, Refresh!Index, Refresh!job
<1>2. indexed' = indexed \/ (indexed[c] # modified[c] /\ indexed' = [indexed EXCEPT ![c] = modified[c]])
  BY DEF Refresh!Modify, Refresh!Index
<1>3. ASSUME NEW d \in CVEs, settled(d)' PROVE settled(d) /\ indexed'[d] = indexed[d]
  <2>1. indexed'[d] + Lag < began[Daemon]
    BY <1>1, <1>3 DEF settled
  <2>2. d = c /\ indexed[c] # modified[c] => indexed[c] = indexed'[c]
    <3>1. indexed[c] # modified[c] => now <= modified[c] + Lag
      BY DEF TickerInv
    <3> QED
      BY <1>0, <1>2, <2>1, <3>1
  <2>3. indexed'[d] = indexed[d]
    BY <1>0, <1>2, <2>2
  <2> QED
    BY <1>1, <1>3, <2>3 DEF settled
<1> QED
  BY <1>1, <1>3 DEF CollectedInv, fetching, fetched

\* The first refresh asks for everything; the next ones reach back to before the
\* last one began by more than the lag, however late their tick was taken.
LEMMA CollectedBegins ==
    ASSUME RefreshKeepsUp, RefreshTypes, FetchInv, TickerInv, CollectedInv,
           Refresh!FirstRefresh(Daemon) \/ Refresh!TickRefresh
    PROVE  CollectedInv'
<1>0. /\ now \in Nat /\ began[Daemon] \in Nat /\ Lag \in Nat /\ Interval \in Nat /\ Slack \in Nat /\ MaxFetch \in Nat
      /\ indexed \in [CVEs -> Nat] /\ Daemon \in Refresh!Updaters /\ updater \in [Refresh!Updaters -> Steps]
      /\ collected \in [CVEs -> Nat]
  BY RefreshConstants DEF RefreshTypes, Steps, FetchInv, FetchTypes, CollectedInv
<1>1. PICK s \in Nat :
        /\ Refresh!Begin(Daemon, s) /\ (s = 0 \/ now <= s + Interval + Slack)
        /\ s # 0 => updater[Daemon] = "select" /\ waiting /\ s + Interval + Slack = now
  <2>1. CASE Refresh!FirstRefresh(Daemon)
    BY <2>1 DEF Refresh!FirstRefresh, Refresh!parseSince, RefreshKeepsUp
  <2>2. CASE Refresh!TickRefresh
    <3>1. /\ Refresh!rolling \in Nat /\ (Refresh!rolling = 0 \/ now <= Refresh!rolling + Interval + Slack)
          /\ Refresh!rolling # 0 => Refresh!rolling + Interval + Slack = now
      BY <1>0 DEF Refresh!rolling, Refresh!minus
    <3>2. updater[Daemon] = "select" /\ waiting /\ Refresh!Begin(Daemon, Refresh!rolling)
      BY <2>2 DEF Refresh!TickRefresh
    <3> QED
      BY <3>1, <3>2
  <2> QED
    BY <2>1, <2>2
<1>2. UNCHANGED <<now, modified, indexed, faults, collected, refreshed, stopping>>
  BY DEF Refresh!FirstRefresh, Refresh!TickRefresh, Refresh!nvd
<1>3. owed'[Daemon] = [c \in CVEs |-> IF c \in shown(s) THEN indexed[c] ELSE 0]
  BY <1>0, <1>1, <1>2, FetchBegins
<1>4. updater'[Daemon] = "fetch" /\ began'[Daemon] = now
  BY <1>0, <1>1 DEF Refresh!Begin, FetchInv, FetchTypes
<1>5. ASSUME ~stopping, NEW c \in CVEs, indexed[c] > 0, indexed[c] + Lag < now
      PROVE  collected[c] >= indexed[c] \/ owed'[Daemon][c] >= indexed[c]
  <2>1. indexed[c] \in Nat /\ collected[c] \in Nat
    BY <1>0
  <2>2. CASE indexed[c] >= s
    <3>1. owed'[Daemon][c] = indexed[c]
      BY <1>3, <1>5, <2>2 DEF shown
    <3> QED
      BY <2>1, <3>1
  <2>3. CASE indexed[c] < s
    <3>1. s # 0 /\ updater[Daemon] = "select" /\ waiting /\ s + Interval + Slack = now
      BY <1>1, <2>1, <2>3
    <3>2. now <= began[Daemon] + MaxFetch + Interval
      BY <3>1 DEF TickerInv
    <3>3. indexed[c] + Lag < began[Daemon]
      <4>1. Lag + MaxFetch <= Slack
        BY DEF RefreshKeepsUp
      <4> QED
        BY <1>0, <2>1, <2>3, <3>1, <3>2, <4>1
    <3>4. refreshed
      BY <1>5, <3>1 DEF CollectedInv
    <3> QED
      BY <1>5, <3>1, <3>3, <3>4 DEF CollectedInv, settled
  <2> QED
    BY <1>0, <2>1, <2>2, <2>3
<1> QED
  BY <1>0, <1>2, <1>4, <1>5 DEF CollectedInv, settled, fetching, fetched

\* What was owed is in the database that is put in place.
LEMMA CollectedByRename ==
    ASSUME RefreshTypes, FetchInv, CollectedInv, Refresh!Rename(Daemon)
    PROVE  CollectedInv'
<1>0. /\ Daemon \in Refresh!Updaters /\ collected \in [CVEs -> Nat] /\ docs[Daemon] \in [CVEs -> Nat]
      /\ indexed \in [CVEs -> Nat] /\ owed[Daemon] \in [CVEs -> Nat]
  BY RefreshConstants DEF FetchInv, FetchTypes, CollectedInv
<1>1. updater[Daemon] = "rename" /\ disk["tmp"].has = docs[Daemon]
  BY DEF Refresh!Rename, CollectedInv
<1>2. collected' = [c \in CVEs |-> Refresh!Max({collected[c], docs[Daemon][c]})]
  BY <1>1 DEF Refresh!Rename, Refresh!newer
<1>3. \A c \in CVEs : collected'[c] \in Nat /\ collected'[c] >= collected[c] /\ collected'[c] >= docs[Daemon][c]
  <2> SUFFICES ASSUME NEW c \in CVEs
               PROVE  collected'[c] \in Nat /\ collected'[c] >= collected[c] /\ collected'[c] >= docs[Daemon][c]
    OBVIOUS
  <2>1. collected[c] \in Nat /\ docs[Daemon][c] \in Nat
    BY <1>0
  <2>2. Refresh!Max({collected[c], docs[Daemon][c]}) =
          IF collected[c] >= docs[Daemon][c] THEN collected[c] ELSE docs[Daemon][c]
    BY <2>1, LargerOfTwo
  <2>3. collected'[c] = Refresh!Max({collected[c], docs[Daemon][c]})
    BY <1>2
  <2> QED
    BY <2>1, <2>2, <2>3
<1>4. collected' \in [CVEs -> Nat]
  BY <1>2, <1>3
<1>5. updater'[Daemon] = "select" /\ refreshed' = TRUE /\ UNCHANGED <<indexed, began>>
  BY <1>0 DEF Refresh!Rename, Refresh!AfterRefresh, RefreshTypes, Refresh!nvd, Refresh!job
<1>6. ASSUME NEW c \in CVEs, settled(c) PROVE collected'[c] >= indexed[c]
  <2>1. collected[c] >= indexed[c] \/ owed[Daemon][c] >= indexed[c]
    BY <1>1, <1>6 DEF CollectedInv, fetched
  <2>2. docs[Daemon][c] >= owed[Daemon][c]
    BY <1>0, <1>1 DEF FetchInv, AllFetched, fetched
  <2>3. collected[c] \in Nat /\ docs[Daemon][c] \in Nat /\ indexed[c] \in Nat /\ owed[Daemon][c] \in Nat
    BY <1>0
  <2> QED
    BY <1>3, <2>1, <2>2, <2>3
<1> QED
  BY <1>4, <1>5, <1>6 DEF CollectedInv, settled, fetching, fetched

LEMMA CollectedInvStep ==
    ASSUME RefreshKeepsUp, RefreshInv, FetchInv, TickerInv, CollectedInv,
           undisturbedRefresh', [Refresh!Next]_refreshVars
    PROVE  CollectedInv'
<1>0. Daemon \in Refresh!Updaters /\ RefreshTypes /\ FetchTypes
  BY RefreshConstants DEF RefreshInv, FetchInv
<1>1. ASSUME NEW c \in CVEs, Refresh!Modify(c) \/ Refresh!Index(c) PROVE CollectedInv'
  BY <1>1, SettledStays
<1>2. CASE Refresh!Advance \/ Refresh!Sigterm \/ Refresh!Stop \/ UNCHANGED refreshVars
  <2>1. UNCHANGED <<indexed, began, collected, refreshed, owed>> /\ (stopping => stopping')
    BY <1>2 DEF Refresh!Advance, Refresh!Sigterm, Refresh!Stop, refreshVars, Refresh!nvd, Refresh!job
  <2>2. (updater'[Daemon] = updater[Daemon] /\ UNCHANGED <<disk, docs>>) \/ updater'[Daemon] = "exited"
    BY <1>0, <1>2 DEF Refresh!Advance, Refresh!Sigterm, Refresh!Stop, refreshVars, Refresh!job, RefreshTypes
  <2> QED
    BY <2>1, <2>2, CollectedStays
<1>3. CASE Refresh!FirstRefresh(Daemon) \/ Refresh!TickRefresh
  BY <1>0, <1>3, CollectedBegins
<1>4. CASE Refresh!Page(Daemon)
  <2>1. /\ fetching(Daemon) /\ ~stopping /\ updater'[Daemon] \in {"fetch", "open"}
        /\ UNCHANGED <<indexed, began, collected, refreshed, owed, stopping>>
    BY <1>0, <1>4 DEF Refresh!Page, Refresh!cancelled, Refresh!nvd, RefreshTypes, fetching
  <2> QED
    BY <2>1, CollectedStays
<1>5. CASE Refresh!Cancel(Daemon)
  <2>1. updater'[Daemon] = "select" /\ refreshed' = FALSE /\ stopping /\ stopping' = stopping /\ collected' = collected
    BY <1>0, <1>5 DEF Refresh!Cancel, Refresh!cancelled, Refresh!AfterRefresh, RefreshTypes
  <2> QED
    BY <2>1 DEF CollectedInv, fetching, fetched
<1>6. CASE Refresh!Open(Daemon) \/ Refresh!Write(Daemon)
  <2>1. UNCHANGED <<indexed, began, collected, refreshed, owed, docs, stopping>>
    BY <1>6 DEF Refresh!Open, Refresh!Write, Refresh!nvd, Refresh!job
  <2>2. CASE Refresh!Open(Daemon)
    <3>1. updater[Daemon] = "open" /\ updater'[Daemon] = "write"
      BY <1>0, <2>2 DEF Refresh!Open, RefreshTypes
    <3> QED
      BY <2>1, <3>1, CollectedStays
  <2>3. CASE Refresh!Write(Daemon)
    <3>1. updater[Daemon] = "write" /\ updater'[Daemon] = "rename"
      BY <1>0, <2>3 DEF Refresh!Write, RefreshTypes
    <3>2. SoleWriter
      BY UndisturbedSteps, <1>0
    <3>3. fd[Daemon] = "tmp"
      BY <3>1, <3>2 DEF SoleWriter
    <3>4. PICK w : disk' = [disk EXCEPT !["tmp"] = [state |-> w, has |-> docs[Daemon]]]
      BY <2>3, <3>3 DEF Refresh!Write
    <3>5. disk'["tmp"].has = docs'[Daemon]
      BY <1>0, <2>1, <3>4 DEF RefreshTypes
    <3> QED
      BY <2>1, <3>1, <3>5, CollectedStays
  <2> QED
    BY <1>6, <2>2, <2>3
<1>7. CASE Refresh!Rename(Daemon)
  BY <1>0, <1>7, CollectedByRename
<1> QED
  BY <1>0, <1>1, <1>2, <1>3, <1>4, <1>5, <1>6, <1>7, UndisturbedSteps DEF DaemonMoves

(***************************************************************************)
(* The processes, of which one runs.                                       *)
(***************************************************************************)
LEMMA ProcessesStep ==
    ASSUME [ProcessesNext]_allVars
    PROVE  [Next]_vars /\ [Refresh!Next]_refreshVars /\ [Plugins!PluginNext]_pluginVars
<1>1. CASE OfWatch(Next)
  BY <1>1 DEF OfWatch
<1>2. CASE OfUpdate(Refresh!Next)
  BY <1>2 DEF OfUpdate
<1>3. CASE OfPlugin(Plugins!PluginNext)
  BY <1>3 DEF OfPlugin
<1>4. CASE UNCHANGED allVars
  BY <1>4 DEF allVars
<1> QED
  BY <1>1, <1>2, <1>3, <1>4 DEF ProcessesNext

\* A scan cut short is never taken for a full one, and a module that fails costs
\* its own findings only, however many modules, issues and failures there are.
THEOREM FailuresAreIsolated == ProcessesSpec => []FailureIsIsolated
<1>1. ProcessesInit => WatchInv
  <2> SUFFICES ASSUME Init PROVE WatchInv
    BY DEF ProcessesInit
  <2> QED
    BY DEF Init, WatchInv, CachesAgree
<1>2. WatchInv /\ [ProcessesNext]_allVars => WatchInv'
  BY ProcessesStep, WatchInvStep
<1>3. WatchInv => FailureIsIsolated
  BY WatchInvIsolates
<1> QED
  BY <1>1, <1>2, <1>3, PTL DEF ProcessesSpec

\* An observer who folds the deltas of a watch always has the last report.
THEOREM DeltasFoldToReport == ProcessesSpec => []DeltasAddUp
<1>1. ProcessesInit => DeltasAddUp
  BY DEF ProcessesInit, Init, DeltasAddUp
<1>2. DeltasAddUp /\ [ProcessesNext]_allVars => DeltasAddUp'
  BY ProcessesStep, DeltasStep
<1> QED
  BY <1>1, <1>2, PTL DEF ProcessesSpec

\* While the daemon is the only updater the database is whole or not there yet,
\* whatever fails and whenever it is killed.
THEOREM DatabaseStaysWhole == ProcessesSpec => []DatabaseIsWhole
<1>1. ProcessesInit => RefreshInv
  BY RefreshInvInit DEF ProcessesInit
<1>2. RefreshInv /\ [ProcessesNext]_allVars => RefreshInv'
  BY ProcessesStep, RefreshInvStep
<1>3. RefreshInv => DatabaseIsWhole
  BY DEF RefreshInv, SoleWriter, DatabaseIsWhole, Refresh!DatabaseIsWhole, Refresh!Alone, Refresh!WholeDatabase
<1> QED
  BY <1>1, <1>2, <1>3, PTL DEF ProcessesSpec

\* While the updaters keep up, a fetch brings whatever the API showed in its window
\* when it began, though the list moves under it; and while the daemon alone updates
\* and nothing fails, no change slips between its ticks, however late it takes them.
THEOREM NoChangeSlips ==
    ASSUME RefreshKeepsUp
    PROVE  ProcessesSpec => []NoModifiedCVESlips
<1> DEFINE AllInv == RefreshInv /\ FetchInv /\ SlipInv
<1>1. ProcessesInit => AllInv
  <2> SUFFICES ASSUME Refresh!Init PROVE AllInv
    BY DEF ProcessesInit
  <2>1. RefreshInv
    BY RefreshInvInit
  <2>2. /\ now = 1 /\ faults = 0 /\ due = 0 /\ modified \in [CVEs -> {0, 1}] /\ indexed = modified
        /\ collected = [c \in CVEs |-> 0]
        /\ since = [u \in Refresh!Updaters |-> 0] /\ start = since /\ began = since
        /\ docs = [u \in Refresh!Updaters |-> [c \in CVEs |-> 0]] /\ owed = docs
    BY DEF Refresh!Init, Refresh!Start, Refresh!Nothing
  <2>3. FetchTypes
    BY <2>2, RefreshConstants DEF FetchTypes
  <2>4. \A u \in Refresh!Updaters : updater[u] \in {"new", "exited"}
    BY DEF Refresh!Init
  <2>5. \A u \in Refresh!Updaters : ~fetching(u) /\ ~fetched(u) /\ began[u] = 0
    BY <2>2, <2>4 DEF fetching, fetched
  <2>6. FetchInv
    BY <2>2, <2>3, <2>5 DEF FetchInv, InTime, PagesAhead, AllFetched
  <2>7. SlipInv
    BY <2>2, <2>4, <2>5, RefreshConstants DEF SlipInv, TickerInv, CollectedInv
  <2> QED
    BY <2>1, <2>6, <2>7
<1>2. AllInv /\ [ProcessesNext]_allVars => AllInv'
  <2> SUFFICES ASSUME AllInv, [Refresh!Next]_refreshVars PROVE AllInv'
    BY ProcessesStep
  <2>1. RefreshInv' /\ FetchInv'
    BY RefreshInvStep, FetchInvStep
  <2>2. ASSUME undisturbedRefresh' PROVE TickerInv' /\ CollectedInv'
    <3>1. undisturbedRefresh
      BY <2>2, UndisturbedSteps DEF FetchInv
    <3>2. TickerInv /\ CollectedInv
      BY <3>1 DEF SlipInv
    <3> QED
      BY <2>2, <3>1, <3>2, TickerInvStep, CollectedInvStep
  <2> QED
    BY <2>1, <2>2 DEF SlipInv
<1>3. AllInv => NoModifiedCVESlips
  <2> SUFFICES ASSUME AllInv PROVE NoModifiedCVESlips
    OBVIOUS
  <2>1. Refresh!WindowIsComplete
    BY DEF FetchInv, AllFetched, fetched, Refresh!WindowIsComplete
  <2>2. Refresh!NoModifiedCVESlips
    BY DEF SlipInv, undisturbedRefresh, CollectedInv, settled, Refresh!NoModifiedCVESlips, Refresh!NoCVESlips,
           Refresh!Alone
  <2> QED
    BY <2>1, <2>2 DEF NoModifiedCVESlips
<1> HIDE DEF AllInv
<1> QED
  BY <1>1, <1>2, <1>3, PTL DEF ProcessesSpec

\* Findings come only from a plugin that ended well in time, whose response was
\* read to its end and nothing after it, whatever it and its helper do.
THEOREM PluginFindingsAreWhole == ProcessesSpec => []FindingsAreWhole
<1>1. ProcessesInit => PluginInv
  <2> SUFFICES ASSUME Plugins!PluginInit PROVE PluginInv
    BY DEF ProcessesInit
  <2> QED
    BY DEF Plugins!PluginInit, PluginInv, Plugins!NoChild, Plugins!None, FindingsAreWhole, Plugins!FindingsAreWhole
<1>2. PluginInv /\ [ProcessesNext]_allVars => PluginInv'
  BY ProcessesStep, PluginInvStep
<1>3. PluginInv => FindingsAreWhole
  BY DEF PluginInv
<1> QED
  BY <1>1, <1>2, <1>3, PTL DEF ProcessesSpec
=============================================================================
