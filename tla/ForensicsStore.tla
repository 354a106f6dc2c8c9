---------------------------- MODULE ForensicsStore ----------------------------
(***************************************************************************)
(* Evidence.WriteToDir (forensics.go) by several sensors that share one    *)
(* forensics directory: stat, exclusive create, write.  The file name is   *)
(* derived from the evidence, so one name means one content.  A sensor may *)
(* crash, and a write may fail, once the file exists.  VerifyEvidenceBytes *)
(* is the check a reader runs on a file.                                   *)
(***************************************************************************)
EXTENDS Naturals, Sequences

CONSTANTS
    Writers,   \* sensor processes
    Evidence,  \* evidence bundles, and so file names
    MaxFaults  \* bound: failed writes and crashes

VARIABLES
    file,      \* name -> absent, empty, torn or sealed
    mayWrite,  \* name -> the one writer that holds a writable descriptor
    pc,        \* writer -> idle, stat, create, write
    job,       \* writer -> the evidence it writes
    reported,  \* evidence whose path some WriteToDir returned
    denied,    \* evidence some WriteToDir returned an error for
    faults     \* faults so far

vars == <<file, mayWrite, pc, job, reported, denied, faults>>

Init ==
    /\ file = [e \in Evidence |-> "absent"] /\ mayWrite = [e \in Evidence |-> {}]
    /\ pc = [w \in Writers |-> "idle"] /\ job \in [Writers -> Evidence]
    /\ reported = {} /\ denied = {} /\ faults = 0

Call(w, e) ==
    /\ pc[w] = "idle"
    /\ pc' = [pc EXCEPT ![w] = "stat"] /\ job' = [job EXCEPT ![w] = e]
    /\ UNCHANGED <<file, mayWrite, reported, denied, faults>>

Return(w) == pc' = [pc EXCEPT ![w] = "idle"] /\ reported' = reported \cup {job[w]}

\* A file that is there is taken for captured evidence.
StatFound(w) ==
    /\ pc[w] = "stat" /\ file[job[w]] # "absent"
    /\ Return(w)
    /\ UNCHANGED <<file, mayWrite, job, denied, faults>>

StatMissing(w) ==
    /\ pc[w] = "stat" /\ file[job[w]] = "absent"
    /\ pc' = [pc EXCEPT ![w] = "create"]
    /\ UNCHANGED <<file, mayWrite, job, reported, denied, faults>>

\* Variant: the file is opened without O_EXCL.
createsAlways(w) == TRUE

\* O_CREATE|O_EXCL succeeds for the first of two racing writers only.
creates(w) == file[job[w]] = "absent"

Create(w) ==
    /\ pc[w] = "create" /\ creates(w)
    /\ file' = [file EXCEPT ![job[w]] = "empty"]
    /\ mayWrite' = [mayWrite EXCEPT ![job[w]] = @ \cup {w}]
    /\ pc' = [pc EXCEPT ![w] = "write"]
    /\ UNCHANGED <<job, reported, denied, faults>>

CreateLoses(w) ==
    /\ pc[w] = "create" /\ ~creates(w)
    /\ Return(w)
    /\ UNCHANGED <<file, mayWrite, job, denied, faults>>

Close(w) == mayWrite' = [mayWrite EXCEPT ![job[w]] = @ \ {w}]

Write(w) ==
    /\ pc[w] = "write"
    /\ file' = [file EXCEPT ![job[w]] = "sealed"]
    /\ Close(w) /\ Return(w)
    /\ UNCHANGED <<job, denied, faults>>

\* The write fails after some bytes, or none: WriteToDir returns the error
\* and leaves the file where it is.
WriteFails(w) ==
    /\ pc[w] = "write" /\ faults < MaxFaults
    /\ file' = [file EXCEPT ![job[w]] = "torn"]
    /\ pc' = [pc EXCEPT ![w] = "idle"] /\ denied' = denied \cup {job[w]}
    /\ faults' = faults + 1 /\ Close(w)
    /\ UNCHANGED <<job, reported>>

\* The sensor dies, also between the create and the end of the write.
Crash(w) ==
    /\ pc[w] # "idle" /\ faults < MaxFaults
    /\ \E left \in IF pc[w] = "write" THEN {"empty", "torn"} ELSE {file[job[w]]} :
          file' = [file EXCEPT ![job[w]] = left]
    /\ pc' = [pc EXCEPT ![w] = "idle"] /\ faults' = faults + 1 /\ Close(w)
    /\ UNCHANGED <<job, reported, denied>>

\* VerifyEvidenceBytes accepts what parses and matches its digest.
verifies(e) == file[e] = "sealed"

Step(w) == StatFound(w) \/ StatMissing(w) \/ Create(w) \/ CreateLoses(w) \/ Write(w)
Next == \E w \in Writers :
           \/ \E e \in Evidence : Call(w, e)
           \/ Step(w) \/ WriteFails(w) \/ Crash(w)

Spec == Init /\ [][Next]_vars

(***************************************************************************)
(*                               Properties                                *)
(***************************************************************************)
\* Every variable keeps its type.
TypeOK ==
    /\ file \in [Evidence -> {"absent", "empty", "torn", "sealed"}]
    /\ mayWrite \in [Evidence -> SUBSET Writers]
    /\ pc \in [Writers -> {"idle", "stat", "create", "write"}]
    /\ job \in [Writers -> Evidence]
    /\ reported \subseteq Evidence /\ denied \subseteq Evidence
    /\ faults \in 0..MaxFaults

\* "Already captured (same rule + identical evidence)": a path that was
\* returned holds evidence that verifies, or a writer still at work on it.
ReportedVerifies ==
    \A e \in reported : verifies(e) \/ mayWrite[e] # {}
=============================================================================
