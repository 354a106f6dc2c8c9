------------------------------ MODULE ProcSource ------------------------------
(***************************************************************************)
(* The /proc-polling source (procparse.go, procsource_linux.go).  Every    *)
(* interval it takes a snapshot of the process table, queues an event for  *)
(* each PID that is new or runs another executable, followed by one for    *)
(* each of its TCP connections, and hands the queue out one by one.        *)
(* The host meanwhile starts, re-executes and ends processes.              *)
(***************************************************************************)
EXTENDS Naturals, Sequences, SequencesExt

CONSTANTS
    Pids,       \* process ids, numbered
    Exes,       \* executables
    Interval,   \* ProcSource.interval, in ticks; 0 in tests only
    MaxRuns,    \* bound: execs of the host
    MaxMissed   \* bound: snapshots that miss a running process

VARIABLES
    proc,       \* the host: PID -> the executable it runs, or None
    linked,     \* PIDs whose network namespace has a TCP connection
    runs,       \* execs so far
    missed,     \* snapshots so far that missed a running process
    prev,       \* ProcSource.prev: PID -> executable of the last snapshot
    queue,      \* ProcSource.queue
    seq,        \* ProcSource.seq
    started,    \* ProcSource.started
    delivered,  \* events Next returned, in order
    cancelled,  \* the context is done
    ended       \* "", or why Next returned an error: ctx, snapshot, eof

hostVars == <<proc, linked, runs>>
sourceVars == <<prev, queue, seq, started, missed>>
vars == <<hostVars, sourceVars, delivered, cancelled, ended>>

None == "none"
running(p) == proc[p] # None

Init ==
    /\ proc = [p \in Pids |-> None] /\ linked = {} /\ runs = 0 /\ missed = 0
    /\ prev = <<>> /\ queue = <<>> /\ seq = 0 /\ started = FALSE
    /\ delivered = <<>> /\ cancelled = FALSE /\ ended = ""

(***************************************************************************)
(* The host.                                                               *)
(***************************************************************************)
Run(p, x) ==
    /\ runs < MaxRuns /\ runs' = runs + 1
    /\ proc' = [proc EXCEPT ![p] = x]
    /\ UNCHANGED <<linked, sourceVars, delivered, cancelled, ended>>

Quit(p) ==
    /\ running(p)
    /\ proc' = [proc EXCEPT ![p] = None] /\ linked' = linked \ {p}
    /\ UNCHANGED <<runs, sourceVars, delivered, cancelled, ended>>

\* /proc/<pid>/net/tcp lists the connections of a whole network namespace, so each
\* process of one comes to list what any of them opens, in any of these orders; the
\* event of a listed connection stands for those of all the rows.
Connect(p) ==
    /\ running(p) /\ linked' = linked \cup {p}
    /\ UNCHANGED <<proc, runs, sourceVars, delivered, cancelled, ended>>

(***************************************************************************)
(* snapshotProcTable reads the table entry by entry: a process that ends   *)
(* meanwhile, or cannot be read, is left out.                              *)
(***************************************************************************)
snapshots == {[p \in S |-> proc[p]] : S \in SUBSET {p \in Pids : running(p)}}

\* Variant: an exec in a known PID is not noticed.
diffNewOnly(old, cur) == {p \in DOMAIN cur : p \notin DOMAIN old}

diffProcTable(old, cur) ==
    {p \in DOMAIN cur : p \in DOMAIN old => old[p] # cur[p]}

\* sort.Ints: at i the one that i - 1 are below.
ascending(S) ==
    [i \in 1..Cardinality(S) |-> CHOOSE p \in S : Cardinality({q \in S : q < p}) = i - 1]

event(k, p, cur) == [kind |-> k, pid |-> p, exe |-> cur[p]]

\* Variant: the connections come behind all processes.
observedByKind(cur, changed) ==
    LET pids == ascending(changed)
        live == ascending(changed \cap linked)
    IN [i \in DOMAIN pids |-> event("process", pids[i], cur)]
         \o [i \in DOMAIN live |-> event("network", live[i], cur)]

\* The events of one poll: by ascending PID, a process then its connections.
observed(cur, changed) ==
    LET pids == ascending(changed)
    IN FlattenSeq([i \in DOMAIN pids |->
           IF pids[i] \in linked
           THEN <<event("process", pids[i], cur), event("network", pids[i], cur)>>
           ELSE <<event("process", pids[i], cur)>>])

numbered(evs) == [i \in DOMAIN evs |-> [ev |-> evs[i], seq |-> seq + i]]

(***************************************************************************)
(* ProcSource.Next.                                                        *)
(***************************************************************************)
Drain ==
    /\ ended = "" /\ queue # <<>>
    /\ delivered' = Append(delivered, Head(queue)) /\ queue' = Tail(queue)
    /\ UNCHANGED <<hostVars, prev, seq, started, missed, cancelled, ended>>

steadyEnds(old, cur) == Interval = 0 /\ started /\ old = cur

\* A poll that finds nothing leads to the next one; one that finds something
\* returns its first event at once.
Poll ==
    /\ ended = "" /\ queue = <<>> /\ ~cancelled
    /\ \E cur \in snapshots :
          LET evs == numbered(observed(cur, diffProcTable(prev, cur)))
              complete == \A p \in Pids : running(p) => p \in DOMAIN cur
          IN /\ missed' = IF complete THEN missed ELSE missed + 1
             /\ missed' <= MaxMissed
             /\ prev' = cur /\ seq' = seq + Len(evs) /\ started' = TRUE
             /\ IF evs = <<>>
                THEN /\ ended' = IF steadyEnds(prev, cur) THEN "eof" ELSE ""
                     /\ UNCHANGED <<queue, delivered>>
                ELSE /\ queue' = Tail(evs) /\ delivered' = Append(delivered, Head(evs))
                     /\ UNCHANGED ended
    /\ UNCHANGED <<hostVars, cancelled>>

\* The snapshot fails: /proc itself cannot be listed.
PollFails ==
    /\ ended = "" /\ queue = <<>> /\ ~cancelled
    /\ ended' = "snapshot"
    /\ UNCHANGED <<hostVars, sourceVars, delivered, cancelled>>

\* The queue goes first: a cancelled source still hands out what it queued.
Cancelled ==
    /\ ended = "" /\ queue = <<>> /\ cancelled
    /\ ended' = "ctx"
    /\ UNCHANGED <<hostVars, sourceVars, delivered, cancelled>>

Cancel ==
    /\ cancelled' = TRUE
    /\ UNCHANGED <<hostVars, sourceVars, delivered, ended>>

HostStep == \E p \in Pids : Quit(p) \/ Connect(p) \/ \E x \in Exes : Run(p, x)
Stop == ended # "" /\ UNCHANGED vars

Next == HostStep \/ Drain \/ Poll \/ PollFails \/ Cancelled \/ Cancel \/ Stop

\* Next is called again and again, and snapshots do not miss a process for ever.
PollAll == Poll /\ missed' = missed
Fairness == WF_vars(Drain) /\ WF_vars(Cancelled) /\ WF_vars(PollAll)

Spec == Init /\ [][Next]_vars /\ Fairness

(***************************************************************************)
(*                               Properties                                *)
(***************************************************************************)
Event == [ev : [kind : {"process", "network"}, pid : Pids, exe : Exes], seq : Nat]

\* Every variable keeps its type.
TypeOK ==
    /\ proc \in [Pids -> Exes \cup {None}] /\ linked \subseteq Pids
    /\ DOMAIN prev \subseteq Pids /\ \A p \in DOMAIN prev : prev[p] \in Exes
    /\ runs \in 0..MaxRuns /\ missed \in 0..MaxMissed
    /\ queue \in Seq(Event) /\ delivered \in Seq(Event) /\ seq \in Nat
    /\ cancelled \in BOOLEAN /\ ended \in {"", "ctx", "snapshot", "eof"}
    /\ started \in BOOLEAN

\* A connection is reported only behind the exec of the very process.
ConnectionFollowsExec ==
    LET flow == delivered \o queue
    IN \A i \in DOMAIN flow : flow[i].ev.kind = "network" =>
          /\ i > 1
          /\ flow[i - 1].ev = [flow[i].ev EXCEPT !.kind = "process"]

\* An executable a process stays with is reported, whatever the host does
\* around it and whatever snapshots miss, unless the stream ends.
SteadyProcessReported ==
    \A p \in Pids, x \in Exes :
       <>[](proc[p] = x) =>
          <>( \/ ended # "" \/ cancelled
              \/ \E i \in DOMAIN delivered :
                    delivered[i].ev.pid = p /\ delivered[i].ev.exe = x)
=============================================================================
