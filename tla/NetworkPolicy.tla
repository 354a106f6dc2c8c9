--------------------------- MODULE NetworkPolicy ----------------------------
(***************************************************************************)
(* `dsecrat net` (internal/modules/netpolicy) over the network monitor:    *)
(* the posture findings of a capture, the least-privilege policy generated *)
(* from it, the dry run of a policy against a later capture and the        *)
(* difference between a deployed and a newly generated one.  Flows keep    *)
(* arriving between the commands.                                          *)
(***************************************************************************)
EXTENDS NetworkMonitor

CONSTANTS
    Windows,      \* the queries and the policy_mode a capture starts with
    FailOn,       \* the level of --fail-on, 0 for none or an unknown name
    Below         \* <<host, name>>: the host is a subdomain of the name

VARIABLES
    capture,      \* flows in order of arrival, queries, mode
    deployed,     \* the policies generated last and the flows they were generated from
    outcome       \* what the last command said

vars == <<capture, deployed, outcome>>

Nothing == [command |-> "none"]

(***************************************************************************)
(*                         Generating a policy                             *)
(***************************************************************************)
keyBefore(d, e) ==
  Before(<<Rank(HostOrder, d.key[1]), Rank(PortOrder, d.port)>>,
         <<Rank(HostOrder, e.key[1]), Rank(PortOrder, e.port)>>)

\* The class map of GeneratePolicy has one entry per host: of the ports of a
\* host, the last in key order decides.
AnomalousHost(log, host) ==
  \E d \in Classified(log) :
    /\ d.host = host /\ ~Intended(d)
    /\ \A e \in Classified(log) : e.host = host /\ e # d => keyBefore(e, d)

protoFor(p) == IF p = "udp" THEN "UDP" ELSE "TCP"

\* Metadata endpoints are never allowed; with intent modelling, anomalous hosts
\* are excluded; other named external hosts go on the name list, and what has an
\* address gets a CIDR rule: an address is dotted or has colons, for hostCIDR gives
\* other text no rule.  DNS to the cluster resolver is always there.
GeneratePolicy(log, useIntent) ==
  LET reached == {d \in log.dests : ~d.imds}
      out == {d \in reached : useIntent /\ AnomalousHost(log, d.host)}
      named == {d \in reached \ out : d.fqdn # "" /\ ~d.internal}
  IN [excluded |-> {d.host : d \in out},
      fqdns |-> {d.fqdn : d \in named},
      blocks |-> {<<d.ip, protoFor(d.proto), d.port>> : d \in {e \in (reached \ out) \ named : e.ip # ""}}]

\* GenerateForCapture: one policy per workload with egress.
GenerateForCapture(s, queries, useIntent) ==
  LET logs == FlowLogs(Normalize(s), queries)
  IN [id \in {i \in DOMAIN logs : logs[i].egress # <<>>} |-> GeneratePolicy(logs[id], useIntent)]

(***************************************************************************)
(*                              The dry run                                *)
(***************************************************************************)
\* Variant: only the names are read back.
AllowlistFromPolicyNames(gp) ==
  [fqdns |-> gp.fqdns, cidrs |-> {}, allowDNS |-> TRUE, ports |-> {}, allowInternal |-> FALSE]

\* AllowlistFromPolicy: names, addresses and DNS; the ports of a rule are lost.
AllowlistFromPolicy(gp) ==
  [fqdns |-> gp.fqdns, cidrs |-> {b[1] : b \in gp.blocks}, allowDNS |-> TRUE, ports |-> {}, allowInternal |-> FALSE]

\* fqdnAllowed: a name stands for itself and its subdomains.
fqdnAllowed(names, host) == \E n \in names : host = n \/ <<host, n>> \in Below

permits(a, d) ==
  \/ a.allowDNS /\ d.port = 53
  \/ /\ a.ports = {} \/ d.port \in a.ports
     /\ \/ d.internal /\ a.allowInternal
        \/ d.fqdn # "" /\ fqdnAllowed(a.fqdns, d.fqdn)
        \/ d.ip # "" /\ d.ip \in a.cidrs

\* The destinations of a workload that an allowlist would deny.
DryRun(log, a) == {d \in log.dests : ~permits(a, d)}

\* DiffAllowlists: what the generated list adds to the current and takes away.
DiffAllowlists(current, generated) ==
  [added |-> <<generated.fqdns \ current.fqdns, generated.cidrs \ current.cidrs>>,
   removed |-> <<current.fqdns \ generated.fqdns, current.cidrs \ generated.cidrs>>]

Empty(d) == d.added = <<{}, {}>> /\ d.removed = <<{}, {}>>

(***************************************************************************)
(*                         Findings of the module                          *)
(***************************************************************************)
enforcing(mode) == mode = "enforce"

eastWest(logs) == {id \in DOMAIN logs : \E d \in logs[id].dests : d.internal /\ ~d.imds}

\* summaryFinding and postureFindings: egress nothing restricts, and workloads
\* that reach each other freely.
Posture(c) ==
  LET logs == FlowLogs(Normalize(c.flows), c.dns)
      egress == \E i \in DOMAIN c.flows : c.flows[i].dir # "ingress"
      free == ~enforcing(c.mode)
  IN {<<"summary", "info">>}
       \cup (IF free /\ egress THEN {<<"no_default_deny", "medium">>} ELSE {})
       \cup (IF free /\ Cardinality(eastWest(logs)) >= 2 THEN {<<"free_for_all", "low">>} ELSE {})

(***************************************************************************)
(*                               Commands                                  *)
(***************************************************************************)
Init ==
  /\ \E w \in Windows : capture = [flows |-> <<>>, dns |-> w.dns, mode |-> w.mode]
  /\ deployed = [policies |-> <<>>, flows |-> <<>>, intent |-> FALSE]
  /\ outcome = Nothing

\* The recorder adds a flow.
Observe(f) ==
  /\ Len(capture.flows) < MaxFlows
  /\ capture' = [capture EXCEPT !.flows = Append(@, f)]
  /\ outcome' = Nothing
  /\ UNCHANGED deployed

\* runReport: the anomalies, and the exit code --fail-on asks for; with the
\* posture findings Module.Analyze adds.
RunReport ==
  /\ outcome = Nothing
  /\ LET found == Analyze(capture.flows, capture.dns)
     IN outcome' = [command |-> "report", anomalies |-> found, posture |-> Posture(capture),
                    exit |-> IF FailOn # 0 /\ Highest(found) >= FailOn THEN 1 ELSE 0]
  /\ UNCHANGED <<capture, deployed>>

\* runGenerate: without any egress there is nothing to generate, exit 1.
RunGenerate(useIntent) ==
  /\ outcome = Nothing
  /\ LET made == GenerateForCapture(capture.flows, capture.dns, useIntent)
     IN IF DOMAIN made = {}
          THEN outcome' = [command |-> "generate", exit |-> 1] /\ UNCHANGED deployed
          ELSE /\ deployed' = [policies |-> made, flows |-> capture.flows, intent |-> useIntent]
               /\ outcome' = [command |-> "generate", exit |-> 0]
  /\ UNCHANGED capture

\* runDryRun over the allowlist of a deployed policy (or that list with every
\* internal peer allowed), and runDiff of it and what the capture would give now.
RunAudit(id, widened) ==
  /\ outcome = Nothing
  /\ id \in DOMAIN deployed.policies
  /\ LET log == FlowLog(Normalize(capture.flows), capture.dns, id)
         list == AllowlistFromPolicy(deployed.policies[id])
         fresh == GeneratePolicy(log, deployed.intent)
     IN outcome' = [command |-> "audit", id |-> id, widened |-> widened, dests |-> log.dests,
                    denied |-> DryRun(log, [list EXCEPT !.allowInternal = widened]),
                    excluded |-> fresh.excluded,
                    diff |-> DiffAllowlists(list, AllowlistFromPolicy(fresh))]
  /\ UNCHANGED <<capture, deployed>>

\* The next command starts afresh.
Done == outcome # Nothing /\ outcome' = Nothing /\ UNCHANGED <<capture, deployed>>

NetworkNext ==
  \/ \E f \in Observable : Observe(f)
  \/ RunReport
  \/ \E b \in BOOLEAN : RunGenerate(b)
  \/ \E id \in DOMAIN deployed.policies, b \in BOOLEAN : RunAudit(id, b)
  \/ Done

NetworkSpec == Init /\ [][NetworkNext]_vars

(***************************************************************************)
(*                               Properties                                *)
(***************************************************************************)
SwapAt(s, i) == [s EXCEPT ![i] = s[i + 1], ![i + 1] = s[i]]

\* netmon.go:146-147: "two captures with the same events (in any input order)
\* analyse identically".  Exchanging two neighbours of the capture, and so any
\* reordering, changes neither the report nor the policies, when no two flows
\* have the same place in the canonical order.
NoTies == \A i, j \in DOMAIN capture.flows :
            Place(capture.flows[i]) = Place(capture.flows[j]) => capture.flows[i] = capture.flows[j]

ArrivalIsIgnored ==
  outcome.command = "report" /\ NoTies =>
    LET policies == GenerateForCapture(capture.flows, capture.dns, TRUE)
    IN \A i \in 1..(Len(capture.flows) - 1) :
         LET swapped == SwapAt(capture.flows, i)
         IN /\ Analyze(swapped, capture.dns) = outcome.anomalies
            /\ GenerateForCapture(swapped, capture.dns, TRUE) = policies

\* dryrun.go:19-22 and policydiff.go:38-39.  A policy that the capture would
\* give again, its own baseline's above all, denies of it no more than metadata
\* endpoints, what it excludes and peers without name and address; and of a
\* later capture it admits, besides DNS, only names and addresses of the
\* baseline, and never a metadata address it knows as such.
Unreachable(d) == d.imds \/ d.host \in outcome.excluded \/ (d.ip = "" /\ d.fqdn = "")

Known(f, d) ==
  /\ f.wl = outcome.id /\ f.dir # "ingress"
  /\ \/ d.fqdn # "" /\ f.fqdn # "" /\ fqdnAllowed({f.fqdn}, d.fqdn)
     \/ d.ip # "" /\ f.ip = d.ip /\ ~IsIMDS(d.ip)

PolicyIsBaseline ==
  outcome.command = "audit" =>
    /\ capture.flows = deployed.flows => Empty(outcome.diff)
    /\ Empty(outcome.diff) => \A d \in outcome.denied : Unreachable(d)
    /\ \A d \in outcome.dests \ outcome.denied :
         \/ d.port = 53 \/ (outcome.widened /\ d.internal)
         \/ \E i \in DOMAIN deployed.flows : Known(deployed.flows[i], d)
=============================================================================
