---------------------------- MODULE RuntimeRules ----------------------------
(***************************************************************************)
(* The sixteen detection rules of internal/runtime and the state they      *)
(* thread from event to event (state.go).  A rule's Evaluate is a pure     *)
(* function of one event and that state.                                   *)
(*                                                                         *)
(* An observation abstracts the text of an event to what the rules and the *)
(* operator's exceptions can tell apart:                                   *)
(*   kind      process, file, network or syscall                           *)
(*   cont      the attributed container: id, name, imageID, image, agent   *)
(*   pid       the acting process                                          *)
(*   name      executable, endpoint, path or syscall name of the kind      *)
(*   hits      the signature tables of signatures.go the payload matches   *)
(*   prefixes  the exception path prefixes that its path starts with: of a *)
(*             file the path, of a system call the argument of that name   *)
(*   args      the exception substrings the joined argv contains           *)
(* An empty string is a missing field, as in the source.                   *)
(***************************************************************************)
EXTENDS Naturals, Sequences

CONSTANTS
    Inventory,          \* image -> set of executables that shipped in it
    Baseline,           \* image -> set of names learned as normal
    EgressAllowActive,  \* whether an egress allowlist is configured
    IntelFeedLoaded,    \* whether an IOC feed is configured
    EnableAnomaly,      \* Options.EnableAnomaly with a baseline supplied
    EnableAgentRuntime  \* Options.EnableAgentRuntime

(***************************************************************************)
(* Severities (engine.Severity) are ordered numbers.                       *)
(***************************************************************************)
Medium == 3
High == 4
Critical == 5

(***************************************************************************)
(* Identities of a container and of its workload.                          *)
(***************************************************************************)
\* Variant: bookkeeping keyed by image, as the baseline is.
containerKeyByImage(c) == c.image

containerKey(c) ==
    IF c.id # "" THEN c.id
    ELSE IF c.name # "" THEN c.name \o "@" \o c.image
    ELSE c.image

workloadKey(c) == IF c.imageID # "" THEN c.imageID ELSE c.image

\* The image identifier whose inventory judges drift for the container: the
\* image id when it is listed, else the reference; "" when neither is.
imageInventory(c) ==
    IF c.imageID # "" /\ c.imageID \in DOMAIN Inventory THEN c.imageID
    ELSE IF c.image # "" /\ c.image \in DOMAIN Inventory THEN c.image
    ELSE ""

(***************************************************************************)
(* Per-container memory: the set of <<container, rule family, name>> seen, *)
(* for executables and for endpoints.                                      *)
(***************************************************************************)
newState == [execSeen |-> {}, connectSeen |-> {}]

Mark(o, family) == <<containerKey(o.cont), family, o.name>>

Hit(o, table) == table \in o.hits

isProcess(o) == o.kind = "process"
isFile(o)    == o.kind = "file"
isNetwork(o) == o.kind = "network"
isSyscall(o) == o.kind = "syscall"

fileIsWrite(o) == Hit(o, "write")
isIMDS(o)      == Hit(o, "imds")
outbound(o)    == Hit(o, "connect") /\ ~Hit(o, "ingress")

\* The record of an event: who did what, in which container.  Only what names a
\* path can lie under an exception's prefix.
anEvent(o) ==
    /\ DOMAIN o = {"kind", "cont", "pid", "name", "hits", "prefixes", "args"}
    /\ DOMAIN o.cont = {"id", "name", "imageID", "image", "agent"} /\ o.cont.agent \in BOOLEAN
    /\ isProcess(o) \/ isFile(o) \/ isNetwork(o) \/ isSyscall(o)
    /\ o.pid \in Nat
    /\ o.prefixes # {} => isFile(o) \/ isSyscall(o)

(***************************************************************************)
(* The rules without memory.                                               *)
(***************************************************************************)
shellIsEntrypoint(o) == Hit(o, "entrypointLineage")

shellEvaluate(o) == isProcess(o) /\ Hit(o, "shell") /\ ~shellIsEntrypoint(o)

escapeEvaluate(o) ==
    \/ isProcess(o) /\ Hit(o, "escapeBinary")
    \/ isSyscall(o) /\ Hit(o, "escapeSyscall")
    \/ isFile(o) /\ Hit(o, "hostEscapePath")

runtimeBinaryEvaluate(o) ==
    \/ isFile(o) /\ fileIsWrite(o) /\ Hit(o, "runtimePath")
    \/ isProcess(o) /\ Hit(o, "runtimeBinary") /\ Hit(o, "suspectLocation")

privEscEvaluate(o) ==
    \/ isProcess(o) /\ (Hit(o, "privTool") \/ Hit(o, "dangerousCap"))
    \/ isFile(o) /\ Hit(o, "setuidChmod")

tampersSensitive(o) == isFile(o) /\ fileIsWrite(o) /\ Hit(o, "sensitiveWrite")

sensitiveFileEvaluate(o) ==
    \/ tampersSensitive(o)
    \/ isFile(o) /\ (Hit(o, "sshKey") \/ Hit(o, "sensitiveRead"))

credTheftEvaluate(o) ==
    \/ isFile(o) /\ Hit(o, "credential")
    \/ isNetwork(o) /\ isIMDS(o)

cryptoMiningEvaluate(o) == isProcess(o) /\ Hit(o, "miner")

kernelAbuseEvaluate(o) ==
    \/ isSyscall(o) /\ (Hit(o, "moduleSyscall") \/ Hit(o, "bpf"))
    \/ isFile(o) /\ Hit(o, "kernelFile")

reverseShellPayload(o) == Hit(o, "reverseShellArgs")

reverseShellEvaluate(o) ==
    /\ isProcess(o)
    /\ (Hit(o, "stdioSocket") /\ Hit(o, "shell")) \/ reverseShellPayload(o)

persistenceEvaluate(o) ==
    \/ isFile(o) /\ fileIsWrite(o) /\ Hit(o, "persistencePath")
    \/ isProcess(o) /\ Hit(o, "ldPreload")

filelessEvaluate(o) ==
    \/ isProcess(o) /\ Hit(o, "anonymousExec")
    \/ isSyscall(o) /\ Hit(o, "memfd")

intelEvaluate(o) == IntelFeedLoaded /\ isNetwork(o) /\ Hit(o, "ioc")

(***************************************************************************)
(* The rules that fire once per novel name of a container.  Each is split  *)
(* into what makes the event reportable and the mark that silences repeats.*)
(***************************************************************************)
drifted(o) ==
    /\ isProcess(o) /\ o.name # ""
    /\ imageInventory(o.cont) # ""
    /\ o.name \notin Inventory[imageInventory(o.cont)]

driftEvaluate(o, st) == drifted(o) /\ Mark(o, "drift") \notin st.execSeen

egressEligible(o) == isNetwork(o) /\ outbound(o) /\ ~isIMDS(o)

outsideAllowlist(o) ==
    /\ egressEligible(o) /\ ~Hit(o, "suspiciousPort")
    /\ EgressAllowActive /\ ~Hit(o, "allowlisted")

egressEvaluate(o, st) ==
    \/ egressEligible(o) /\ Hit(o, "suspiciousPort")
    \/ outsideAllowlist(o) /\ Mark(o, "egress") \notin st.connectSeen

\* A learning run keeps, by workload, the names of its events and the system
\* call each kind implies; of a file only that call is judged later.
learned(o) ==
    {IF isFile(o) THEN "" ELSE o.name,
     IF isProcess(o) THEN "execve" ELSE IF isNetwork(o) THEN "connect" ELSE IF isFile(o) THEN "openat" ELSE ""}
    \ {""}

Learn(observed) ==
    [w \in {workloadKey(o.cont) : o \in observed} \ {""} |->
        UNION {learned(o) : o \in {x \in observed : workloadKey(x.cont) = w}}]

unbaselined(o) ==
    /\ EnableAnomaly
    /\ workloadKey(o.cont) \in DOMAIN Baseline
    /\ o.name # "" /\ o.name \notin Baseline[workloadKey(o.cont)]

anomalyEvaluate(o, st) ==
    /\ unbaselined(o)
    /\ \/ isProcess(o) /\ Mark(o, "anomaly") \notin st.execSeen
       \/ isSyscall(o)
       \/ isNetwork(o) /\ Mark(o, "anomaly") \notin st.connectSeen

isAgent(o) == EnableAgentRuntime /\ o.cont.agent

strangeModelEndpoint(o) ==
    isAgent(o) /\ isNetwork(o) /\ Hit(o, "connect") /\ ~Hit(o, "modelEndpoint")

agentRuntimeEvaluate(o, st) ==
    \/ isAgent(o) /\ isProcess(o)
       /\ \/ reverseShellPayload(o) \/ Hit(o, "injectionArgs")
          \/ Hit(o, "shell") /\ ~shellIsEntrypoint(o)
          \/ Hit(o, "escalationTool")
    \/ strangeModelEndpoint(o) /\ Mark(o, "agent") \notin st.connectSeen

(***************************************************************************)
(* The rule set in the order Detector.Process evaluates it.                *)
(***************************************************************************)
Rules == {"RT001", "RT002", "RT003", "RT004", "RT005", "RT006", "RT007", "RT008",
          "RT009", "RT010", "RT011", "RT012", "RT013", "RT014", "RT050", "RT100"}

RuleOrder == [RT001 |-> 1, RT002 |-> 2, RT003 |-> 3, RT013 |-> 4, RT009 |-> 5,
              RT004 |-> 6, RT005 |-> 7, RT006 |-> 8, RT007 |-> 9, RT008 |-> 10,
              RT010 |-> 11, RT011 |-> 12, RT012 |-> 13, RT014 |-> 14,
              RT050 |-> 15, RT100 |-> 16]

\* The order of rule identifiers as strings, which the final sort uses.
RuleIDOrder == [RT001 |-> 1, RT002 |-> 2, RT003 |-> 3, RT004 |-> 4, RT005 |-> 5,
                RT006 |-> 6, RT007 |-> 7, RT008 |-> 8, RT009 |-> 9, RT010 |-> 10,
                RT011 |-> 11, RT012 |-> 12, RT013 |-> 13, RT014 |-> 14,
                RT050 |-> 15, RT100 |-> 16]

Fires(r, o, st) ==
    CASE r = "RT001" -> shellEvaluate(o)
      [] r = "RT002" -> driftEvaluate(o, st)
      [] r = "RT003" -> escapeEvaluate(o)
      [] r = "RT004" -> sensitiveFileEvaluate(o)
      [] r = "RT005" -> credTheftEvaluate(o)
      [] r = "RT006" -> cryptoMiningEvaluate(o)
      [] r = "RT007" -> egressEvaluate(o, st)
      [] r = "RT008" -> kernelAbuseEvaluate(o)
      [] r = "RT009" -> privEscEvaluate(o)
      [] r = "RT010" -> reverseShellEvaluate(o)
      [] r = "RT011" -> persistenceEvaluate(o)
      [] r = "RT012" -> filelessEvaluate(o)
      [] r = "RT013" -> runtimeBinaryEvaluate(o)
      [] r = "RT014" -> intelEvaluate(o)
      [] r = "RT050" -> anomalyEvaluate(o, st)
      [] r = "RT100" -> agentRuntimeEvaluate(o, st)

Severity(r, o) ==
    IF r \in {"RT003", "RT008", "RT010", "RT012", "RT013"} THEN Critical
    ELSE IF r \in {"RT007", "RT050"} THEN Medium
    ELSE IF r = "RT004" THEN (IF tampersSensitive(o) THEN High ELSE Medium)
    ELSE High

\* Detector.Process: the rules that fire on the event, and the state after
\* every one of them has recorded what it had not seen before.
Process(o, st) == {r \in Rules : Fires(r, o, st)}

StateAfter(o, st) ==
    [execSeen |-> st.execSeen
        \cup (IF drifted(o) THEN {Mark(o, "drift")} ELSE {})
        \cup (IF isProcess(o) /\ unbaselined(o) THEN {Mark(o, "anomaly")} ELSE {}),
     connectSeen |-> st.connectSeen
        \cup (IF outsideAllowlist(o) THEN {Mark(o, "egress")} ELSE {})
        \cup (IF isNetwork(o) /\ unbaselined(o) THEN {Mark(o, "anomaly")} ELSE {})
        \cup (IF strangeModelEndpoint(o) THEN {Mark(o, "agent")} ELSE {})]

(***************************************************************************)
(* Exceptions (exceptions.go): a rule id and optional narrowing fields.    *)
(***************************************************************************)
\* The detections whose metadata holds a path: those of files, and those of the two
\* rules that copy the arguments of the system call.
tellsPath(r, o) == isFile(o) \/ (isSyscall(o) /\ (r = "RT003" \/ (r = "RT008" /\ Hit(o, "moduleSyscall"))))

matches(ex, r, o) ==
    /\ ex.rule = r
    /\ ex.image = "" \/ ex.image = o.cont.image
    /\ ex.container = "" \/ ex.container \in {o.cont.name, o.cont.id}
    /\ ex.path = "" \/ (tellsPath(r, o) /\ ex.path \in o.prefixes)
    /\ ex.arg = "" \/ ex.arg \in o.args

Suppressed(Exceptions, r, o) == \E ex \in Exceptions : matches(ex, r, o)

(***************************************************************************)
(* Response (response.go): the posture and the action planned for a        *)
(* detection.                                                              *)
(***************************************************************************)
armed(policy) == policy.mode = "enforce" /\ policy.acknowledged

PlanKillAll(policy, r, o) ==
    IF ~armed(policy) \/ Severity(r, o) < policy.killSeverity THEN "alert" ELSE "kill"

Plan(policy, r, o) ==
    IF ~armed(policy) \/ Severity(r, o) < policy.killSeverity THEN "alert"
    ELSE IF r \in {"RT003", "RT008"} THEN "quarantine"
    ELSE "kill"
=============================================================================
