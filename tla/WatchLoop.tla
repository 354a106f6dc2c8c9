------------------------------ MODULE WatchLoop ------------------------------
(***************************************************************************)
(* dsecrat watch: the loop of internal/watch over the scan of              *)
(* internal/engine and the dispatch of internal/connector.  A cycle runs   *)
(* the modules one after the other, diffs the report with the one before,  *)
(* tells the observer and sends the delta to the connectors.  The target   *)
(* and the advisory file change under the loop; modules and connectors     *)
(* fail.  Two caches stand between a module and the world: the image of    *)
(* the Target, and the advisory database of the vuln module.               *)
(***************************************************************************)
EXTENDS Naturals, FiniteSets

CONSTANTS
    Issues,      \* everything a scan may find
    ModuleOf,    \* issue -> the number of the module that finds it
    NModules,    \* modules run in the order 1..NModules
    Advised,     \* issues found only if the advisory file lists them
    ImageTargets,\* whether the target is an image, read through Target.Image: BOOLEAN or part
    Connectors,
    Counts,      \* what --count may be: stop after so many cycles, 0 for never
    MaxChanges,  \* bound: changes of target and advisory file
    MaxErrors    \* bound: modules that fail

ASSUME WatchAssumption ==
    /\ ModuleOf \in [Issues -> 1..NModules] /\ Advised \subseteq Issues
    /\ ImageTargets \subseteq BOOLEAN
    /\ Counts \cup {NModules, MaxChanges, MaxErrors} \subseteq Nat

VARIABLES
    isImage, count, \* the command line
    content,    \* issues the target holds now
    advisories, \* issues the advisory file lists now
    changes, errors,
    image,      \* Target.imageCached: <<>> or <<content>>
    db,         \* Module.dbCache's one entry: <<>> or <<advisories>>
    pc,         \* wait, scan, dispatch or stopped
    started,    \* the first cycle was begun
    tick,       \* the ticker's channel holds a tick
    cancelled,  \* the context is done
    cycles,     \* cycles completed, counted only under --count
    idx,        \* the module to run next
    found,      \* Report.Findings of the running scan
    runs,       \* Report.ModuleRuns: modules with an entry
    prev,       \* Watcher.prev, its findings
    delta,      \* what Diff returned last
    announced,  \* the observer's fold of the deltas
    inbox       \* connector -> its fold of the reports it accepted

worldVars == <<content, advisories, changes>>
cacheVars == <<image, db>>
flags == <<isImage, count>>
loopVars == <<pc, started, tick, cancelled, cycles>>
scanVars == <<idx, found, runs, errors>>
outVars == <<prev, delta, announced, inbox>>
vars == <<flags, worldVars, cacheVars, loopVars, scanVars, outVars>>

NoDelta == [new |-> {}, cleared |-> {}]

Init ==
    /\ isImage \in ImageTargets /\ count \in Counts
    /\ content \in SUBSET Issues /\ advisories \in SUBSET Advised
    /\ changes = 0 /\ errors = 0 /\ image = <<>> /\ db = <<>>
    /\ pc = "wait" /\ started = FALSE /\ tick = FALSE /\ cancelled = FALSE /\ cycles = 0
    /\ idx = 1 /\ found = {} /\ runs = {}
    /\ prev = {} /\ delta = NoDelta /\ announced = {} /\ inbox = [c \in Connectors |-> {}]

(***************************************************************************)
(* The world: the target is edited, the advisory file refreshed.           *)
(***************************************************************************)
Change(i) ==
    /\ changes < MaxChanges /\ changes' = changes + 1
    /\ \/ content' = (content \ {i}) \cup ({i} \ content) /\ UNCHANGED advisories
       \/ /\ i \in Advised
          /\ advisories' = (advisories \ {i}) \cup ({i} \ advisories) /\ UNCHANGED content
    /\ UNCHANGED <<flags, cacheVars, loopVars, scanVars, outVars>>

Tick ==
    /\ tick' = TRUE
    /\ UNCHANGED <<flags, worldVars, cacheVars, pc, started, cancelled, cycles, scanVars, outVars>>

Cancel ==
    /\ cancelled' = TRUE
    /\ UNCHANGED <<flags, worldVars, cacheVars, pc, started, tick, cycles, scanVars, outVars>>

(***************************************************************************)
(* Engine.Run.                                                             *)
(***************************************************************************)
\* Target.Image and resolveDB load once and answer from memory ever after.
loadedImage == IF image # <<>> THEN image[1] ELSE content
loadedDB == IF db # <<>> THEN db[1] ELSE advisories

visible == IF isImage THEN loadedImage ELSE content

findings(m) == {i \in visible : ModuleOf[i] = m /\ (i \in Advised => i \in loadedDB)}

usesDB(m) == \E i \in Advised : ModuleOf[i] = m

\* A module that fails may have returned part of its findings; a panic loses
\* them all; either way the next module runs.
\* Variant: a module that fails ends the scan.
RunModuleAborts(m, failed) ==
    /\ pc = "scan" /\ idx = m /\ m <= NModules /\ ~cancelled
    /\ failed => errors < MaxErrors
    /\ errors' = IF failed THEN errors + 1 ELSE errors
    /\ found' = IF failed THEN found ELSE found \cup findings(m)
    /\ runs' = runs \cup {m} /\ idx' = IF failed THEN NModules + 1 ELSE m + 1
    /\ UNCHANGED <<flags, worldVars, cacheVars, loopVars, outVars>>

RunModule(m, failed) ==
    /\ pc = "scan" /\ idx = m /\ m <= NModules /\ ~cancelled
    /\ failed => errors < MaxErrors
    /\ errors' = IF failed THEN errors + 1 ELSE errors
    /\ \E part \in IF failed THEN SUBSET findings(m) ELSE {findings(m)} :
          found' = found \cup part
    /\ runs' = runs \cup {m} /\ idx' = m + 1
    /\ image' = IF isImage THEN <<loadedImage>> ELSE image
    /\ db' = IF usesDB(m) THEN <<loadedDB>> ELSE db
    /\ UNCHANGED <<flags, worldVars, loopVars, outVars>>

\* A done context ends the scan; the modules left are recorded as not run.
skipped == idx..NModules

SkipRest ==
    /\ pc = "scan" /\ idx <= NModules /\ cancelled
    /\ runs' = runs \cup skipped /\ idx' = NModules + 1
    /\ UNCHANGED <<flags, worldVars, cacheVars, loopVars, found, errors, outVars>>

(***************************************************************************)
(* Watcher.Run and Watcher.Loop.                                           *)
(***************************************************************************)
Begin == /\ pc' = "scan" /\ started' = TRUE
         /\ idx' = 1 /\ found' = {} /\ runs' = {}

\* Under --count the first cycle does not look at the context.
FirstCycle ==
    /\ pc = "wait" /\ ~started /\ (cancelled => count > 0)
    /\ Begin
    /\ UNCHANGED <<flags, worldVars, cacheVars, tick, cancelled, cycles, errors, outVars>>

mayGoOn == count = 0 \/ cycles < count

NextCycle ==
    /\ pc = "wait" /\ started /\ tick /\ mayGoOn
    /\ tick' = FALSE /\ Begin
    /\ UNCHANGED <<flags, worldVars, cacheVars, cancelled, cycles, errors, outVars>>

\* Variants: the remembered report only grows, or stays the first one.
remembersNew(cur) == prev \cup cur

remembersFirst(cur) == IF prev = {} THEN cur ELSE prev

remembers(cur) == cur

Diff(old, cur) == [new |-> cur \ old, cleared |-> old \ cur]

Compare ==
    /\ pc = "scan" /\ idx = NModules + 1
    /\ delta' = Diff(prev, found) /\ prev' = remembers(found)
    /\ announced' = (announced \cup delta'.new) \ delta'.cleared
    /\ pc' = "dispatch"
    /\ UNCHANGED <<flags, worldVars, cacheVars, started, tick, cancelled, cycles, scanVars, inbox>>

Changed(d) == d.new # {} \/ d.cleared # {}

\* deltaReport carries the new findings; a connector that fails has lost them.
Dispatch ==
    /\ pc = "dispatch"
    /\ \E good \in IF Changed(delta) THEN SUBSET Connectors ELSE {{}} :
          inbox' = [c \in Connectors |->
                      IF c \in good THEN inbox[c] \cup delta.new ELSE inbox[c]]
    /\ pc' = "wait" /\ cycles' = IF count > 0 THEN cycles + 1 ELSE cycles
    /\ UNCHANGED <<flags, worldVars, cacheVars, started, tick, cancelled, scanVars,
                   prev, delta, announced>>

Stop ==
    /\ pc = "wait" /\ (started \/ count = 0) /\ (cancelled \/ ~mayGoOn)
    /\ pc' = "stopped"
    /\ UNCHANGED <<flags, worldVars, cacheVars, started, tick, cancelled, cycles, scanVars, outVars>>

Stopped == pc = "stopped" /\ UNCHANGED vars

Module == \E m \in 1..NModules, failed \in BOOLEAN : RunModule(m, failed)
Loop == Module \/ SkipRest \/ FirstCycle \/ NextCycle \/ Compare \/ Dispatch

Next == (\E i \in Issues : Change(i)) \/ Tick \/ Cancel \/ Loop \/ Stop \/ Stopped

\* The ticker ticks on, modules and connectors return (each HTTP client has a
\* timeout), and the select that waits chooses at random among ready branches.
Spec == Init /\ [][Next]_vars /\ WF_vars(Loop) /\ WF_vars(Tick) /\ SF_vars(Stop)

(***************************************************************************)
(*                               Properties                                *)
(***************************************************************************)
\* Every variable keeps its type.
TypeOK ==
    /\ isImage \in ImageTargets /\ count \in Counts
    /\ content \subseteq Issues /\ advisories \subseteq Advised
    /\ changes \in 0..MaxChanges /\ errors \in 0..MaxErrors
    /\ \A cache \in {image, db} : cache = <<>> \/ cache[1] \subseteq Issues
    /\ pc \in {"wait", "scan", "dispatch", "stopped"}
    /\ {started, tick, cancelled} \subseteq BOOLEAN /\ cycles \in 0..count
    /\ idx \in 1..(NModules + 1) /\ found \subseteq Issues /\ runs \subseteq 1..NModules
    /\ prev \subseteq Issues /\ announced \subseteq Issues
    /\ delta \in [new : SUBSET Issues, cleared : SUBSET Issues]
    /\ inbox \in [Connectors -> SUBSET Issues]

\* Whoever folds the deltas of the observer has the last report, through
\* failing modules, partial scans and findings that come and go.
DeltasAddUp == announced = prev

\* A scan cut short cannot be mistaken for a full one: when its report is compared,
\* each module has an entry.  And a module that fails costs its own findings only:
\* what an undisturbed module of a finished scan saw in a target nobody changed is
\* in the report.
FailureIsIsolated ==
    pc = "dispatch" =>
       /\ runs = 1..NModules
       /\ changes = 0 /\ ~cancelled =>
            Cardinality({m \in 1..NModules : ~(findings(m) \subseteq prev)}) <= errors

\* A signal ends the loop, bounded or not, though the next tick may be ready too.
CancelStops == cancelled ~> (pc = "stopped")

\* "clean-yesterday-vulnerable-today": an issue that has come to stay is in the
\* reports after some cycle, unless the loop is stopped or modules fail.
Seen(i) ==
    <>[](i \in content /\ (i \in Advised => i \in advisories)) =>
        <>(i \in prev \/ cancelled \/ pc = "stopped" \/ errors > 0)

\* It is so for what is read anew in every cycle ...
SeesChange == \A i \in Issues \ Advised : isImage \/ Seen(i)

\* ... and is said of everything watched (watch.go:1-9, docs/features).
SeesEveryChange == \A i \in Issues : Seen(i)

\* "a genuinely new finding (not a re-report of an existing one)": what a delta
\* calls new was not sent before, in a world that never changed.
GenuinelyNew == [][Compare /\ changes = 0 =>
    \A c \in Connectors : delta'.new \cap inbox[c] = {}]_vars

\* "only the delta - findings that newly appeared or cleared - through the
\* normal connectors": what the connectors take for standing still stands.
ConnectorsHearOfCleared ==
    pc = "wait" /\ ~cancelled => \A c \in Connectors : inbox[c] \subseteq prev
=============================================================================
