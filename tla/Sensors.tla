------------------------------- MODULE Sensors -------------------------------
(***************************************************************************)
(* The two event sources a sensor may be built with: the eBPF source of    *)
(* `dsecrat-runtime run` (LiveSensor) and the /proc-polling source         *)
(* (ProcSource).  A behaviour runs one of them, and both keep the contract *)
(* of runtime.EventSource, which is EventFeed.  A third kind of behaviour  *)
(* is how eBPF's events find their container (ContainerAttribution), on    *)
(* which neither the buffers nor the end of the run depend.                *)
(***************************************************************************)
EXTENDS LiveSensor, ContainerAttribution, FiniteSets

CONSTANTS Pids, Exes, Interval, MaxRuns, MaxMissed  \* ProcSource

\* The process table of a host is finite.
ASSUME HostAssumption == IsFiniteSet(Pids)

VARIABLES
    source,  \* "ebpf", "proc" or "attribution"
    proc, linked, runs, missed, prev, queue, started, delivered,
    polls,   \* ProcSource's seq
    stopped, \* ProcSource's cancelled
    ended

procVars == <<proc, linked, runs, missed, prev, queue, started, delivered,
              polls, stopped, ended>>

Polling == INSTANCE ProcSource WITH seq <- polls, cancelled <- stopped

SensorsInit ==
    /\ source \in {"ebpf", "proc", "attribution"}
    /\ Init /\ Polling!Init /\ AttributionInit
    /\ source # "attribution" => cli

EbpfStep == source = "ebpf" /\ Next /\ UNCHANGED <<procVars, attributionVars>>
ProcStep == source = "proc" /\ Polling!Next /\ UNCHANGED <<vars, attributionVars>>
AttributionStep ==
    source = "attribution" /\ AttributionNext /\ UNCHANGED <<vars, procVars>>

\* The bounds are reached and every record is read.
AttributionDone ==
    /\ source = "attribution" /\ changes = MaxChanges /\ unread = <<>>
    /\ UNCHANGED <<vars, procVars, attributionVars>>

SensorsNext == (EbpfStep \/ ProcStep \/ AttributionStep \/ AttributionDone) /\ UNCHANGED source

\* The fairness of the source that runs; the steps of eBPF's are disabled in
\* the initial state of LiveSensor, and so while another kind of behaviour runs.
SensorsSpec ==
    /\ SensorsInit /\ [][SensorsNext]_<<vars, procVars, attributionVars, source>>
    /\ Fairness
    /\ WF_procVars(source = "proc" /\ Polling!Drain)
    /\ WF_procVars(source = "proc" /\ Polling!Cancelled)
    /\ WF_procVars(source = "proc" /\ Polling!PollAll)

(***************************************************************************)
(*                               Properties                                *)
(***************************************************************************)
\* Whichever source runs, one consumer takes what it observed in order, numbered
\* without a gap under any backpressure and over every poll, takes nothing back,
\* and the stream goes on or ends.
Feed == INSTANCE EventFeed WITH
    feed <- IF source = "ebpf" THEN gathered \o ch ELSE delivered \o queue,
    taken <- IF source = "ebpf" THEN Len(gathered) ELSE Len(delivered),
    open <- IF source = "ebpf" THEN running ELSE ended = ""

FeedSpec == Feed!Spec

\* A connection is reported only behind the exec of the very process, through
\* restarts, missed snapshots and reused PIDs (procparse.go).
ConnectionFollowsExec == Polling!ConnectionFollowsExec

\* An executable a process stays with is reported, whatever the host does
\* around it and whatever snapshots miss, unless the stream ends.
SteadyProcessReported == source = "proc" => Polling!SteadyProcessReported
=============================================================================
