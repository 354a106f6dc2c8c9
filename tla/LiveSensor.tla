------------------------------ MODULE LiveSensor ------------------------------
(***************************************************************************)
(* dsecrat-runtime run: the eBPF source (ebpf_linux.go) and the command    *)
(* around it (cmdRunLive).  The kernel fills a ring buffer; the pump       *)
(* goroutine decodes its records and sends them over a bounded channel;    *)
(* the daemon loop selects between the context, the pump's error and the   *)
(* next event.  A record says what ran and where: an exec of a shell fires *)
(* a rule, "other" fires none, "junk" does not decode.                     *)
(***************************************************************************)
EXTENDS Naturals, Sequences

CONSTANTS
    MaxRecords,  \* bound: records the kernel emits in one run
    RingCap,     \* records the BPF ring buffer holds
    ChanCap,     \* capacity of ebpfSource.ch
    Armed        \* policy.Mode is enforce and policy.Acknowledged

ASSUME SensorAssumption ==
    /\ MaxRecords \in Nat /\ {RingCap, ChanCap} \subseteq Nat \ {0}
    /\ Armed \in BOOLEAN

VARIABLES
    ringbuf,    \* kernel records not yet read
    execs,      \* what ran on the host, in order, observed or not
    lethal,     \* enforce_cfg: the exec probe kills shells
    killed,     \* indexes in execs of the processes the probe killed
    pump,       \* reading, sending or stopped
    held,       \* the event the pump is about to send, or <<>>
    seq,        \* ebpfSource.seq
    ch,         \* ebpfSource.ch
    errc,       \* ebpfSource.errc holds an error
    closed,     \* Close was called
    cancelled,  \* SIGINT or SIGTERM cancelled the run's context
    gathered,   \* events the daemon loop took, in order
    runErr,     \* how DaemonConfig.Run ended: "", "ctx" or "reader"
    exitCode    \* what cmdRunLive returned, or NotExited

kernelVars == <<execs, lethal, killed>>
sourceVars == <<ringbuf, kernelVars, pump, held, seq, ch, errc, closed>>
runVars == <<cancelled, gathered, runErr, exitCode>>
vars == <<sourceVars, runVars>>

NotExited == 9
running == runErr = ""

Init ==
    /\ ringbuf = <<>> /\ execs = <<>> /\ lethal = FALSE /\ killed = {}
    /\ pump = "reading" /\ held = <<>> /\ seq = 0
    /\ ch = <<>> /\ errc = FALSE /\ closed = FALSE
    /\ cancelled = FALSE /\ gathered = <<>> /\ runErr = "" /\ exitCode = NotExited

Record == [kind : {"shell", "other", "junk"}, scope : {"container", "host"}]

\* ArmShellKill sets the probe's toggle, or fails; only the first poll of the
\* source comes after it.
ArmShellKill ==
    /\ Armed /\ ~lethal /\ gathered = <<>> /\ running
    /\ lethal' = TRUE
    /\ UNCHANGED <<ringbuf, execs, killed, pump, held, seq, ch, errc, closed, runVars>>

\* handle_exec first reserves room in the ring buffer and gives up when it is
\* full; then it kills a shell of any process that has a cgroup, and each has.
Probe(r) ==
    LET room == Len(ringbuf) < RingCap
        kills == room /\ lethal /\ r.kind = "shell"
    IN /\ Len(execs) < MaxRecords
       /\ execs' = Append(execs, r)
       /\ ringbuf' = IF room THEN Append(ringbuf, r.kind) ELSE ringbuf
       /\ killed' = IF kills THEN killed \cup {Len(execs')} ELSE killed
       /\ UNCHANGED <<lethal, pump, held, seq, ch, errc, closed, runVars>>

(***************************************************************************)
(* The pump goroutine.                                                     *)
(***************************************************************************)
Read ==
    LET kind == Head(ringbuf)
    IN /\ pump = "reading" /\ ~closed /\ ringbuf # <<>>
       /\ ringbuf' = Tail(ringbuf)
       /\ IF kind = "junk" THEN UNCHANGED <<pump, held, seq>>
          ELSE /\ seq' = seq + 1
               /\ held' = <<[seq |-> seq + 1, kind |-> kind]>>
               /\ pump' = "sending"
       /\ UNCHANGED <<kernelVars, ch, errc, closed, runVars>>

\* Variant: a full channel drops the event.
SendOrDrop ==
    /\ pump = "sending"
    /\ ch' = IF Len(ch) < ChanCap THEN ch \o held ELSE ch
    /\ held' = <<>> /\ pump' = "reading"
    /\ UNCHANGED <<ringbuf, kernelVars, seq, errc, closed, runVars>>

Send ==
    /\ pump = "sending" /\ Len(ch) < ChanCap
    /\ ch' = ch \o held
    /\ held' = <<>> /\ pump' = "reading"
    /\ UNCHANGED <<ringbuf, kernelVars, seq, errc, closed, runVars>>

\* Reader.Read fails: the error is parked in errc unless Close caused it.
ReadError ==
    /\ pump = "reading"
    /\ pump' = "stopped"
    /\ errc' = (errc \/ ~closed)
    /\ UNCHANGED <<ringbuf, kernelVars, held, seq, ch, closed, runVars>>

\* Close cancels the pump, which gives up a send that is blocked.
PumpStops ==
    /\ pump = "sending" /\ closed
    /\ pump' = "stopped" /\ held' = <<>>
    /\ UNCHANGED <<ringbuf, kernelVars, seq, ch, errc, closed, runVars>>

Close ==
    /\ closed' = TRUE
    /\ UNCHANGED <<ringbuf, kernelVars, pump, held, seq, ch, errc, runVars>>

(***************************************************************************)
(* The daemon loop's Next: a select among whatever is ready.  The scan of  *)
(* the event is the subject of RuntimeDaemon.                              *)
(***************************************************************************)
NextEvent ==
    /\ running /\ ch # <<>>
    /\ gathered' = Append(gathered, Head(ch)) /\ ch' = Tail(ch)
    /\ UNCHANGED <<ringbuf, kernelVars, pump, held, seq, errc, closed,
                   cancelled, runErr, exitCode>>

NextError ==
    /\ running /\ errc
    /\ errc' = FALSE /\ runErr' = "reader"
    /\ UNCHANGED <<ringbuf, kernelVars, pump, held, seq, ch, closed,
                   cancelled, gathered, exitCode>>

\* Variant: the loop looks at the context only between two events.
NextDoneBetween ==
    /\ running /\ cancelled /\ ch # <<>>
    /\ runErr' = "ctx"
    /\ UNCHANGED <<sourceVars, cancelled, gathered, exitCode>>

NextDone ==
    /\ running /\ cancelled
    /\ runErr' = "ctx"
    /\ UNCHANGED <<sourceVars, cancelled, gathered, exitCode>>

Signal ==
    /\ exitCode = NotExited
    /\ cancelled' = TRUE
    /\ UNCHANGED <<sourceVars, gathered, runErr, exitCode>>

hits == {i \in DOMAIN gathered : gathered[i].kind = "shell"}

\* cmdRunLive after Run: an error is 1 before the detections are looked at.
exitStatus == IF runErr # "" THEN 1 ELSE IF hits # {} THEN 1 ELSE 0

Exit ==
    /\ ~running /\ exitCode = NotExited
    /\ exitCode' = exitStatus
    /\ UNCHANGED <<sourceVars, cancelled, gathered, runErr>>

Pump == Read \/ Send \/ PumpStops
Stop == exitCode # NotExited /\ UNCHANGED vars

Next ==
    \/ \E r \in Record : Probe(r)
    \/ ArmShellKill \/ Pump \/ ReadError \/ Close
    \/ NextEvent \/ NextError \/ NextDone \/ Signal \/ Exit \/ Stop

\* Goroutines run on; a select that stays ready for a branch, however often it
\* takes another, takes it in the end: Go chooses at random among the ready.
Fairness ==
    /\ WF_vars(Pump) /\ WF_vars(NextEvent) /\ WF_vars(Exit)
    /\ SF_vars(NextError) /\ SF_vars(NextDone)

Spec == Init /\ [][Next]_vars /\ Fairness

(***************************************************************************)
(*                               Properties                                *)
(***************************************************************************)
Event == [seq : Nat, kind : {"shell", "other"}]

\* Every variable keeps its type and the channel its capacity.
TypeOK ==
    /\ ringbuf \in Seq({"shell", "other", "junk"}) /\ Len(ringbuf) <= RingCap
    /\ execs \in Seq(Record) /\ lethal \in BOOLEAN /\ killed \subseteq DOMAIN execs
    /\ pump \in {"reading", "sending", "stopped"}
    /\ held \in Seq(Event) /\ (held # <<>> <=> pump = "sending")
    /\ seq \in Nat /\ ch \in Seq(Event) /\ Len(ch) <= ChanCap
    /\ {errc, closed, cancelled} \subseteq BOOLEAN
    /\ gathered \in Seq(Event) /\ runErr \in {"", "ctx", "reader"}
    /\ exitCode \in {0, 1, NotExited}

\* A signal ends the run, on an idle node and under a stream of events alike, and
\* a dead reader does not leave a sensor that observes nothing and says so to
\* nobody.
RunEnds == (cancelled ~> exitCode # NotExited) /\ (errc ~> exitCode # NotExited)

\* "exit codes: 0 no detections, 1 detections found", says the usage text; also
\* of a run that a signal ends, as every live run ends.
ExitTellsDetections ==
    exitCode # NotExited /\ runErr # "reader" => (exitCode = 1 <=> hits # {})

\* "no sampling gap": every exec of the host is read, or waits to be.
NoSamplingGap ==
    pump # "stopped" /\ (\A i \in DOMAIN execs : execs[i].kind # "junk")
      => Len(execs) = seq + Len(ringbuf)

\* "a shell execing inside a container is SIGKILL'd": no other process is.
KillsOnlyInContainers == \A i \in killed : execs[i].scope = "container"

\* The same promise, the other way: under armed enforcement no shell of a
\* container survives its exec.
ArmedKillsEveryShell == [][
    \A r \in Record :
       Probe(r) /\ lethal /\ r.kind = "shell" /\ r.scope = "container"
         => Len(execs') \in killed']_vars
=============================================================================
