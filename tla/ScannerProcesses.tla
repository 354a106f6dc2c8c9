--------------------------- MODULE ScannerProcesses ---------------------------
(***************************************************************************)
(* Three processes of the scanner that run on beside a single scan and     *)
(* share nothing: `dsecrat watch` (WatchLoop), `dsecrat vuln update --nvd` *)
(* with its crontab (AdvisoryRefresh), and the subprocess of a plugin that *)
(* a scan waits for (PluginHost).  A behaviour runs one of them.           *)
(***************************************************************************)
EXTENDS WatchLoop

CONSTANTS
    CVEs, Daemon, OneShots, Interval, Slack, FirstWindow, PageSize, MaxPages, MaxWindow,
    Lag, MaxFetch, Horizon, MaxFaults, SharedCVEs, SharedHorizon,  \* AdvisoryRefresh
    Directories, Builtin, ResponseSize, Cap, MaxOutput             \* PluginHost

ASSUME RefreshAssumption ==
    /\ SharedCVEs \subseteq CVEs /\ CVEs \subseteq Nat /\ IsFiniteSet(CVEs) /\ Daemon \notin OneShots
    /\ Interval \in Nat \ {0} /\ PageSize \in Nat \ {0}
    /\ {Slack, FirstWindow, MaxPages, MaxWindow, Lag, MaxFetch, Horizon, MaxFaults,
        SharedHorizon} \subseteq Nat

ASSUME PluginAssumption == {ResponseSize, Cap, MaxOutput} \subseteq Nat \ {0}

VARIABLES
    process,  \* "watch", "update" or "plugin"
    crontab, now, modified, indexed, due, waiting, stopping, since, start, docs, began,
    disk, fd, owed, collected, refreshed, faults,
    updater,  \* AdvisoryRefresh's pc
    listing, registry, notice, child, runCtx, delay, result

refreshVars == <<crontab, now, modified, indexed, due, waiting, stopping, since, start, docs,
                 began, disk, fd, owed, collected, refreshed, faults, updater>>
pluginVars == <<listing, registry, notice, child, runCtx, delay, result>>

Refresh == INSTANCE AdvisoryRefresh WITH pc <- updater
Plugins == INSTANCE PluginHost

\* What does not run stays as it was set up.
WatchIdle == isImage = (TRUE \in ImageTargets) /\ count = 0 /\ content = {} /\ advisories = {}
RefreshIdle == crontab = {} /\ modified = [c \in CVEs |-> 0]
PluginIdle == listing = CHOOSE d \in Directories : TRUE

ProcessesInit ==
    /\ process \in {"watch", "update", "plugin"}
    /\ process # "watch" => WatchIdle
    /\ process # "update" => RefreshIdle
    /\ process # "plugin" => PluginIdle
    /\ Init /\ Refresh!Init /\ Plugins!PluginInit

OfWatch(A) == process = "watch" /\ A /\ UNCHANGED <<process, refreshVars, pluginVars>>
OfUpdate(A) == process = "update" /\ A /\ UNCHANGED <<process, vars, pluginVars>>
OfPlugin(A) == process = "plugin" /\ A /\ UNCHANGED <<process, vars, refreshVars>>

ProcessesNext == OfWatch(Next) \/ OfUpdate(Refresh!Next) \/ OfPlugin(Plugins!PluginNext)

\* The fairness of the process that runs, as its module states it.  Only one ever
\* runs, so that one condition on the three stands for one on each.
FairSteps == OfWatch(Loop) \/ OfUpdate(Refresh!Work(Daemon)) \/ OfPlugin(Plugins!Return)
FairTimers == OfWatch(Tick) \/ OfUpdate(Refresh!TickRefresh) \/ OfPlugin(Plugins!Deadline)
FairStops == OfWatch(Stop) \/ OfUpdate(Refresh!Stop)

allVars == <<process, vars, refreshVars, pluginVars>>

ProcessesSpec ==
    /\ ProcessesInit /\ [][ProcessesNext]_allVars
    /\ WF_allVars(FairSteps) /\ WF_allVars(FairTimers) /\ SF_allVars(FairStops)
    /\ \A u \in OneShots : WF_allVars(OfUpdate(Refresh!Work(u)))
    /\ WF_allVars(OfPlugin(Plugins!DelayOver))

(***************************************************************************)
(*                               Properties                                *)
(***************************************************************************)
\* What is started ends: a signal ends the watch loop, bounded or not, though the
\* next tick may be ready too; SIGTERM ends the update daemon in whatever step of a
\* refresh it arrives, unless it is killed before; and Analyze returns whatever its
\* plugin does (watch.go, command.go, exec.go:76-78).
mustEnd == cancelled \/ stopping \/ child.state # "none"

hasEnded ==
    CASE process = "watch"  -> pc = "stopped"
      [] process = "update" -> updater[Daemon] = "exited"
      [] process = "plugin" -> result # Plugins!None

ProcessesEnd == mustEnd ~> hasEnded

\* writeDB: "a mid-write failure never corrupts the previous good DB", while a
\* single updater writes, through failures and crashes of it.
DatabaseIsWhole == Refresh!DatabaseIsWhole

\* runUpdateDaemon: "so no modified CVE slips between ticks", neither between two
\* windows nor between two pages of one list that changes meanwhile.
NoModifiedCVESlips == Refresh!WindowIsComplete /\ Refresh!NoModifiedCVESlips

\* The findings of a plugin are all it wrote in one whole run (plugin.go:123-127).
FindingsAreWhole == Plugins!FindingsAreWhole

(***************************************************************************)
(* The instance that is checked: a secret found by the first module and a  *)
(* vulnerability found by the second if the advisory file lists it; and    *)
(* the directories plugins may be read from.                               *)
(***************************************************************************)
Finder == [secret |-> 1, cve |-> 2]

manifest(file, name, rank) ==
  [file |-> file, name |-> name, rank |-> rank, isDir |-> FALSE, json |-> TRUE, small |-> TRUE, decodes |-> TRUE,
   argv |-> TRUE, exec |-> "found"]
dir(state, manifests) == [state |-> state, manifests |-> manifests]
Dirs ==
  {dir("missing", {}), dir("unreadable", {}),
   dir("read", {manifest("a", "echo", 1), [manifest("b", "vuln", 2) EXCEPT !.exec = "bare"],
                [manifest("c", "late", 3) EXCEPT !.exec = "absent"]}),
   dir("read", {manifest("a", "echo", 1), manifest("b", "echo", 1), [manifest("d", "", 0) EXCEPT !.json = FALSE],
                [manifest("e", "", 0) EXCEPT !.small = FALSE]})}
Builtins == <<"dockerfile", "vuln">>
=============================================================================
