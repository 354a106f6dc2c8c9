---------------------------- MODULE RuntimeDaemon ----------------------------
(***************************************************************************)
(* The sensor daemon of internal/runtime (daemon.go): one goroutine takes  *)
(* events from a source, keeps the recent ones in a ring, runs the rules,  *)
(* and for every detection consults the exceptions, plans and carries out  *)
(* a response, seals forensic evidence and emits the record to its sinks.  *)
(* Around it the host goes on: processes exit and their PIDs are reused    *)
(* between an event and the response to it.                                *)
(***************************************************************************)
EXTENDS RuntimeRules, Integers, FiniteSets

CONSTANTS
    Catalog,       \* observations the source can deliver
    MaxEvents,     \* bound: events one run delivers
    MaxLives,      \* bound: processes that successively hold one PID
    Pids,          \* process ids of the host
    WindowSize,    \* DaemonConfig.WindowSize
    Forensics,     \* DaemonConfig.ForensicsDir is set
    Exceptions,    \* DaemonConfig.Exceptions
    Policy,        \* DaemonConfig.Policy: mode, acknowledged, killSeverity
    Sinks          \* the members of the MultiSink, numbered in order

ASSUME DaemonAssumption ==
    /\ MaxEvents \in Nat /\ MaxLives \in Nat \ {0}
    /\ WindowSize \in Int /\ Forensics \in BOOLEAN
    /\ Sinks \subseteq Nat
    /\ \A o \in Catalog : o.pid \in Pids \cup {0}
    /\ \A o \in Catalog : anEvent(o)
    /\ Policy.killSeverity \in Nat

VARIABLES
    seen,       \* events scanned, in order; EventsScanned is its length
    ring,       \* eventRing: its buffer and the number of pushes
    st,         \* the detector's State
    pending,    \* rules that fired on the last event and are not yet handled
    records,    \* DaemonResult.Records while the loop runs
    suppressed, \* detections dropped by an exception
    returned,   \* the records Run returned, in canonical order
    status,     \* running, eof or error
    host,       \* PID -> the process holding it and whether it still runs
    effects,    \* what the responder did: processes killed, containers hit
    sinkLog,    \* sink -> detections it accepted, in order
    sinkFailed  \* sinks that ever failed an Emit

loopVars == <<seen, ring, st, pending, records, suppressed, returned, status>>
outVars == <<effects, sinkLog, sinkFailed>>
vars == <<loopVars, host, outVars>>

(***************************************************************************)
(* The ring of recent events.                                              *)
(***************************************************************************)
Size == IF WindowSize <= 0 THEN 32 ELSE WindowSize

newEventRing == [buf |-> <<>>, n |-> 0]

push(r, ev) ==
    [buf |-> IF Len(r.buf) < Size THEN Append(r.buf, ev)
             ELSE [r.buf EXCEPT ![(r.n % Size) + 1] = ev],
     n |-> r.n + 1]

\* Variant: the buffer in slot order, not in age order.
sliceInSlotOrder(r) == r.buf

\* Oldest first.
slice(r) ==
    IF Len(r.buf) < Size THEN r.buf
    ELSE [i \in 1..Size |-> r.buf[((r.n + i - 1) % Size) + 1]]

(***************************************************************************)
(* The stable sort by (Seq, RuleID) that ends Run: the record that goes to *)
(* place k is the one k - 1 others must precede.                           *)
(***************************************************************************)
precedes(s, i, j) ==
    LET ki == <<seen[s[i].at].seq, RuleIDOrder[s[i].rule], i>>
        kj == <<seen[s[j].at].seq, RuleIDOrder[s[j].rule], j>>
    IN \/ ki[1] < kj[1]
       \/ ki[1] = kj[1] /\ ki[2] < kj[2]
       \/ ki[1] = kj[1] /\ ki[2] = kj[2] /\ ki[3] < kj[3]

canonicalOrder(s) ==
    [k \in 1..Len(s) |->
        s[CHOOSE i \in 1..Len(s) :
            Cardinality({j \in 1..Len(s) : precedes(s, j, i)}) = k - 1]]

(***************************************************************************)
(* Initial state: a fresh detector, ring and result on a running host.     *)
(***************************************************************************)
Init ==
    /\ seen = <<>> /\ ring = newEventRing /\ st = newState
    /\ pending = {} /\ records = <<>> /\ suppressed = {}
    /\ returned = <<>> /\ status = "running"
    /\ host = [p \in Pids |-> [life |-> 1, alive |-> TRUE]]
    /\ effects = [killed |-> {}, paused |-> {}, isolated |-> {}]
    /\ sinkLog = [s \in Sinks |-> <<>>] /\ sinkFailed = {}

(***************************************************************************)
(* src.Next delivers an event: it is counted, pushed and run through the   *)
(* rules.  The sequence number never decreases: a live source counts up,   *)
(* a replay is sorted, and a capture may repeat a number.                  *)
(***************************************************************************)
lastSeq == IF seen = <<>> THEN 0 ELSE seen[Len(seen)].seq

Receive(o, q) ==
    LET ev == [seq |-> q, obs |-> o, life |-> IF o.pid = 0 THEN 0 ELSE host[o.pid].life]
    IN /\ status = "running" /\ pending = {}
       /\ Len(seen) < MaxEvents
       /\ o.pid # 0 => host[o.pid].alive
       /\ seen' = Append(seen, ev)
       /\ ring' = push(ring, ev)
       /\ pending' = Process(o, st)
       /\ st' = StateAfter(o, st)
       /\ UNCHANGED <<records, suppressed, returned, status, host, outVars>>

(***************************************************************************)
(* The inner loop takes the detections of the last event in rule order.    *)
(***************************************************************************)
last == seen[Len(seen)]
nextDetection(r) == r \in pending /\ \A q \in pending : RuleOrder[r] <= RuleOrder[q]

\* Variant: a suppressed detection is counted but never left behind.
SuppressStuck(r) ==
    /\ nextDetection(r)
    /\ Suppressed(Exceptions, r, last.obs)
    /\ suppressed' = suppressed \cup {<<Len(seen), r>>}
    /\ UNCHANGED <<seen, ring, st, pending, records, returned, status, host, outVars>>

Suppress(r) ==
    /\ nextDetection(r)
    /\ Suppressed(Exceptions, r, last.obs)
    /\ suppressed' = suppressed \cup {<<Len(seen), r>>}
    /\ pending' = pending \ {r}
    /\ UNCHANGED <<seen, ring, st, records, returned, status, host, outVars>>

(***************************************************************************)
(* EnforcingResponder.Do.  It signals whatever process holds the PID now;  *)
(* a quarantine pauses the container, which fails when it already is, and  *)
(* only then disconnects it.  Both docker calls may fail, and every error  *)
(* is dropped by the daemon.                                               *)
(***************************************************************************)
NoEffect == UNCHANGED <<host, effects>>

kill(pid) ==
    IF pid # 0 /\ host[pid].alive
    THEN /\ effects' = [effects EXCEPT !.killed = @ \cup {<<Len(seen), pid, host[pid].life>>}]
         /\ host' = [host EXCEPT ![pid].alive = FALSE]
    ELSE NoEffect

\* Docker is given the key of the container, which need not be its id.
quarantine(key) ==
    \/ NoEffect
    \/ /\ key # "" /\ key \notin effects.paused
       /\ \E iso \in SUBSET {key} :
            effects' = [effects EXCEPT !.paused = @ \cup {key}, !.isolated = @ \cup iso]
       /\ UNCHANGED host

Do(action, o) ==
    IF ~armed(Policy) \/ action = "alert" THEN NoEffect
    ELSE IF action = "kill" THEN kill(o.pid)
    ELSE quarantine(containerKey(o.cont))

(***************************************************************************)
(* MultiSink.Emit: every sink is tried, whatever the ones before it did.   *)
(***************************************************************************)
\* Variant: the fan-out stops at the first sink that fails.
attemptedUntilError(good) == {s \in Sinks : \A t \in Sinks : t < s => t \in good}

attempted(good) == Sinks

Emit(d) ==
    \E good \in SUBSET Sinks :
       /\ sinkLog' = [s \in Sinks |->
             IF s \in good \cap attempted(good) THEN Append(sinkLog[s], d) ELSE sinkLog[s]]
       /\ sinkFailed' = sinkFailed \cup (attempted(good) \ good)

\* CaptureForensics and WriteToDir: the window sealed with the detection, or
\* nothing when forensics is off or the write failed.
evidence == IF Forensics THEN {slice(ring), <<>>} ELSE {<<>>}

\* DaemonConfig.handle, then the append of the record.
Handle(r) ==
    LET action == Plan(Policy, r, last.obs)
    IN /\ nextDetection(r)
       /\ ~Suppressed(Exceptions, r, last.obs)
       /\ Do(action, last.obs)
       /\ \E w \in evidence :
             records' = Append(records, [at |-> Len(seen), rule |-> r,
                                         action |-> action, window |-> w])
       /\ Emit(<<Len(seen), r>>)
       /\ pending' = pending \ {r}
       /\ UNCHANGED <<seen, ring, st, suppressed, returned, status>>

\* src.Next reports the end of the stream, or any other error, the context's
\* among them: Run returns what it has gathered, sorted.
\* Variant: a cancelled context ends the run between two detections.
ReturnMidEvent(outcome) ==
    /\ status = "running"
    /\ status' = outcome
    /\ returned' = canonicalOrder(records)
    /\ UNCHANGED <<seen, ring, st, pending, records, suppressed, host, outVars>>

Return(outcome) ==
    /\ status = "running" /\ pending = {}
    /\ status' = outcome
    /\ returned' = canonicalOrder(records)
    /\ UNCHANGED <<seen, ring, st, pending, records, suppressed, host, outVars>>

\* The host: a process exits, and a new one gets its PID.
Exit(p) ==
    /\ host[p].alive
    /\ host' = [host EXCEPT ![p].alive = FALSE]
    /\ UNCHANGED <<loopVars, outVars>>

Spawn(p) ==
    /\ ~host[p].alive /\ host[p].life < MaxLives
    /\ host' = [host EXCEPT ![p] = [life |-> @.life + 1, alive |-> TRUE]]
    /\ UNCHANGED <<loopVars, outVars>>

Deliver == \E o \in Catalog, q \in {lastSeq, lastSeq + 1} : Receive(o, q)
Settle == \E r \in Rules : Suppress(r) \/ Handle(r)
Finish == \E outcome \in {"eof", "error"} : Return(outcome)
HostStep == \E p \in Pids : Exit(p) \/ Spawn(p)

Done == status # "running" /\ UNCHANGED vars

Next == Deliver \/ Settle \/ Finish \/ HostStep \/ Done

\* The loop is one goroutine that never waits while it settles a detection:
\* the default webhook client times out and every error is dropped.
Spec == Init /\ [][Next]_vars /\ WF_vars(Settle)

(***************************************************************************)
(*                               Properties                                *)
(***************************************************************************)
Event == [seq : Nat, obs : Catalog, life : Nat]
Record == [at : Nat, rule : Rules, action : {"alert", "kill", "quarantine"},
           window : Seq(Event)]

\* Every variable keeps its type; what Run returned is the subject of
\* ResultCanonical.
TypeOK ==
    /\ seen \in Seq(Event)
    /\ ring \in [buf : Seq(Event), n : Nat]
    /\ pending \subseteq Rules
    /\ records \in Seq(Record)
    /\ suppressed \subseteq Nat \X Rules
    /\ status \in {"running", "eof", "error"}
    /\ host \in [Pids -> [life : Nat, alive : BOOLEAN]]
    /\ sinkLog \in [Sinks -> Seq(Nat \X Rules)]
    /\ sinkFailed \subseteq Sinks

\* The ring's slice is exactly the most recent events, oldest first, through
\* every wrap of its modular index.
recent(n) == LET k == IF n < Size THEN n ELSE Size
             IN [i \in 1..k |-> seen[n - k + i]]

RingHoldsRecentWindow == slice(ring) = recent(Len(seen))

\* Sealed evidence holds the triggering event as its last one, preceded by
\* the events that led to it and by nothing later.
EvidenceHoldsTrigger ==
    \A k \in DOMAIN records :
       records[k].window # <<>> => records[k].window = recent(records[k].at)

\* Two observations of one executable in one container.
sameBinary(o1, o2) == o1.cont = o2.cont /\ o1.name = o2.name

driftRecords == {k \in DOMAIN records : records[k].rule = "RT002"}

\* A drifted binary that no exception covers is never silent: once its event
\* is settled, an alert for that binary in that container is on record,
\* although the rule fires on the first execution only.
DriftNeverSilent ==
    \A i \in DOMAIN seen :
       drifted(seen[i].obs) /\ ~Suppressed(Exceptions, "RT002", seen[i].obs)
         => \/ \E k \in driftRecords : sameBinary(seen[records[k].at].obs, seen[i].obs)
            \/ "RT002" \in pending /\ sameBinary(last.obs, seen[i].obs)

\* No alert storm: one binary of one container is reported as drift at most
\* once in a run, alerts and suppressions together.
OneDriftPerBinary ==
    LET suppressedDrift == {i \in DOMAIN seen : <<i, "RT002">> \in suppressed}
    IN /\ \A j, k \in driftRecords :
            sameBinary(seen[records[j].at].obs, seen[records[k].at].obs) => j = k
       /\ \A i, j \in suppressedDrift : sameBinary(seen[i].obs, seen[j].obs) => i = j
       /\ \A k \in driftRecords, i \in suppressedDrift :
            ~sameBinary(seen[records[k].at].obs, seen[i].obs)

\* Drift of a binary in a container is reported, and reported once: the mark the
\* rule keeps per container silences exactly the repetitions.
DriftReportedOnce == DriftNeverSilent /\ OneDriftPerBinary

\* Nothing is destroyed unless enforcement is armed, and then only for a
\* detection at or above the kill severity; an escape or kernel abuse is
\* contained, not killed, and no container is cut off before it is paused.
DestructionGated ==
    /\ effects.killed # {} \/ effects.paused # {}
         => Policy.mode = "enforce" /\ Policy.acknowledged
    /\ \A k \in effects.killed : \E j \in DOMAIN records :
          /\ records[j].at = k[1] /\ records[j].action = "kill"
          /\ records[j].rule \notin {"RT003", "RT008"}
          /\ Severity(records[j].rule, seen[k[1]].obs) >= Policy.killSeverity
    /\ effects.isolated \subseteq effects.paused

\* The process killed for a detection is the one whose event fired.
KillHitsOffender ==
    \A k \in effects.killed : seen[k[1]].life = k[3]

\* A sink that never failed has every alert, in the order they were handled,
\* whatever the sinks beside it did.
HealthySinkSeesAll ==
    \A s \in Sinks \ sinkFailed :
       sinkLog[s] = [k \in DOMAIN records |-> <<records[k].at, records[k].rule>>]

\* What Run returns holds every record once, by event and then rule id,
\* records of one sequence number and rule in the order they were handled.
ResultCanonical ==
    status # "running" =>
       /\ Len(returned) = Len(records)
       /\ \A k \in DOMAIN records : \E j \in DOMAIN returned : returned[j] = records[k]
       /\ \A j \in 1..(Len(returned) - 1) :
             LET a == returned[j]  b == returned[j + 1]
                 qa == seen[a.at].seq  qb == seen[b.at].seq
             IN \/ qa < qb
                \/ qa = qb /\ RuleIDOrder[a.rule] < RuleIDOrder[b.rule]
                \/ qa = qb /\ a.rule = b.rule /\ a.at < b.at

\* Both ways out of the daemon have every record: the sinks that work as it is
\* handled, and the caller in the canonical order when the stream ends.
RecordsReachAll == HealthySinkSeesAll /\ ResultCanonical

\* Whatever sinks, forensics and responder do, every detection of an event
\* is settled and the loop gets back to its source.
DetectionsSettle == (pending # {}) ~> (pending = {})

\* Detections of an event are never lost or settled twice.
Ledger == INSTANCE DetectionLedger WITH
    Detection <- (1..MaxEvents) \X Rules,
    owed <- {<<Len(seen), r>> : r \in pending},
    alerted <- {<<records[k].at, records[k].rule>> : k \in DOMAIN records},
    waived <- suppressed,
    open <- (status = "running")

LedgerSpec == Ledger!Spec
=============================================================================
