--------------------------- MODULE NetworkMonitor ---------------------------
(***************************************************************************)
(* The network monitor (internal/netmon): a capture of flows and resolver  *)
(* queries is put in canonical order, rolled up into one flow log per      *)
(* workload and one statistic per destination, and read by the detectors.  *)
(* Flows reach the recorder in any order.  Text is abstracted: a host is a *)
(* member of HostOrder, the query names are their parent, entropy and      *)
(* length, and the sentences of a finding are left out.                    *)
(***************************************************************************)
EXTENDS Integers, FiniteSets, SequencesExt

CONSTANTS
    Observable,   \* the flows that may be seen
    Workloads,    \* the descriptors, by workload id
    IDs,          \* the ids that flows name, in order; some have no descriptor
    HostOrder,    \* names, addresses and "", in the order of their strings with a ":"
    PortOrder,    \* ports, in the order of their decimal strings
    Internal,     \* the addresses in private or reserved ranges
    Metadata,     \* the addresses of cloud metadata endpoints
    ModelHosts,   \* the hosts isKnownModelHost knows
    ModelLike,    \* the hosts looksLikeModelHost recognises
    Given,        \* the options asked for; an absent threshold is 0
    MaxFlows

aPort(p) == p \in 0 .. 65535

\* A flow is attributed to a workload, and its far end known by address, by name
\* or as a peer of the cluster.
aFlow(f) ==
  /\ DOMAIN f = {"wl", "ts", "src", "ip", "port", "fqdn", "peer", "proto", "dir", "tx", "rx", "deny"}
  /\ f.dir \in {"egress", "ingress"} /\ f.proto \in {"tcp", "udp", "icmp"} /\ f.deny \in BOOLEAN
  /\ {f.ts, f.src, f.tx, f.rx} \subseteq Int /\ aPort(f.port)

\* Beside its flows a capture has the mode of enforcement and the resolver's queries.
aRecording(w) ==
  /\ DOMAIN w = {"mode", "dns"} /\ w.mode \in {"", "none", "audit", "enforce"}
  /\ \A i \in DOMAIN w.dns : DOMAIN w.dns[i] = {"wl", "parent", "entropy", "len", "first", "nx"}

\* Options.withDefaults: a zero threshold takes the vetted default.
Defaults ==
  [beaconMin |-> 4, beaconCV |-> 15, beaconBytes |-> 4096, exfilMin |-> 10485760, exfilRatio |-> 8,
   slowMin |-> 1048576, slowSpan |-> 3600, peersMin |-> 10, tunnelMin |-> 20, entropy |-> 36,
   nxMin |-> 10, intentMin |-> 3]

Opts == [o \in DOMAIN Defaults |-> IF Given[o] = 0 THEN Defaults[o] ELSE Given[o]]

(***************************************************************************)
(*                        Captures and their order                         *)
(***************************************************************************)
Rank(order, x) == CHOOSE i \in DOMAIN order : order[i] = x

\* Endpoint.key of a flow's destination: the name, else the address, and the port.
Key(f) == <<IF f.fqdn # "" THEN f.fqdn ELSE f.ip, f.port>>

\* The position of a flow: workload, time, destination key, source key.
Place(f) ==
  <<Rank(IDs, f.wl), f.ts, Rank(HostOrder, Key(f)[1]), Rank(PortOrder, f.port), f.src>>

\* The order of tuples of numbers.
Before(p, q) ==
  \E i \in DOMAIN p : p[i] < q[i] /\ \A j \in 1..(i - 1) : p[j] = q[j]

flowLess(f, g) == Before(Place(f), Place(g))

\* A stable sort: the indices of s by element, then by position.
StableSort(s, less(_, _)) ==
  LET first(i, j) == less(s[i], s[j]) \/ (~less(s[j], s[i]) /\ i < j)
      place == [i \in DOMAIN s |-> Cardinality({j \in DOMAIN s : j # i /\ first(j, i)}) + 1]
  IN [k \in DOMAIN s |-> s[CHOOSE i \in DOMAIN s : place[i] = k]]

\* Capture.Normalize: a canonical order, whatever the order of arrival.
Normalize(s) == StableSort(s, flowLess)

IsIMDS(ip) == ip \in Metadata
IsInternal(ip) == ip \in Internal

(***************************************************************************)
(*                        Flow logs of the workloads                       *)
(***************************************************************************)
Sum(op(_), s) == FoldLeft(LAMBDA n, f : n + op(f), 0, s)

\* A flow is of its workload's egress.
isEgress(f, id) == f.wl = id /\ f.dir # "ingress"

\* aggregate: the egress of a log by destination key.  The identity of a
\* destination is that of its first flow, its counts are those of them all.
DestStat(s, id, key) ==
  LET same(f) == isEgress(f, id) /\ Key(f) = key
      first == s[CHOOSE i \in DOMAIN s : same(s[i]) /\ \A j \in DOMAIN s : same(s[j]) => i <= j]
      of == SelectSeq(s, same)
      times == {of[i].ts : i \in DOMAIN of}
  IN [key      |-> key,
      host     |-> IF first.fqdn # "" THEN first.fqdn ELSE IF first.peer # "" THEN first.peer ELSE first.ip,
      fqdn     |-> first.fqdn,
      ip       |-> first.ip,
      port     |-> first.port,
      proto    |-> first.proto,
      internal |-> IsInternal(first.ip),
      imds     |-> IsIMDS(first.ip),
      count    |-> Len(of),
      tx       |-> Sum(LAMBDA f : f.tx, of),
      rx       |-> Sum(LAMBDA f : f.rx, of),
      denied   |-> Sum(LAMBDA f : IF f.deny THEN 1 ELSE 0, of),
      stamps   |-> SortSeq([i \in DOMAIN of |-> of[i].ts], <),
      span     |-> (CHOOSE t \in times : \A u \in times : u <= t)
                     - (CHOOSE t \in times : \A u \in times : t <= u)]

egressOf(s, id) == SelectSeq(s, LAMBDA f : isEgress(f, id))

\* The log of a workload; an id without a descriptor is kept under its own name.
FlowLog(s, queries, id) ==
  [id |-> id,
   hostNetwork |-> id \in DOMAIN Workloads /\ Workloads[id].hostNetwork,
   agent |-> id \in DOMAIN Workloads /\ Workloads[id].agent,
   egress |-> egressOf(s, id),
   dns |-> SelectSeq(queries, LAMBDA q : q.wl = id),
   dests |-> {DestStat(s, id, key) : key \in {Key(s[i]) : i \in {j \in DOMAIN s : isEgress(s[j], id)}}}]

\* BuildFlowLogs: a log per workload that is described, has a flow or a query.
FlowLogs(s, queries) ==
  LET known == DOMAIN Workloads \cup {s[i].wl : i \in DOMAIN s} \cup {queries[i].wl : i \in DOMAIN queries}
  IN [id \in known |-> FlowLog(s, queries, id)]

\* ExternalDests: metadata endpoints, addresses outside the private ranges, and
\* names without an address.
ExternalDests(log) ==
  {d \in log.dests : d.imds \/ (~d.internal /\ d.ip # "") \/ (d.ip = "" /\ d.fqdn # "")}

(***************************************************************************)
(*                                Detectors                                *)
(***************************************************************************)
Levels == [unknown |-> 0, info |-> 1, low |-> 2, medium |-> 3, high |-> 4, critical |-> 5]

Anomaly(log, kind, severity, dest, key) ==
  [kind |-> kind, severity |-> severity, wl |-> log.id, dest |-> dest, key |-> key]
about(log, kind, severity, d) == Anomaly(log, kind, severity, d.host, d.key)

detectIMDS(log) == {about(log, "imds", "critical", d) : d \in {e \in log.dests : e.imds}}

\* computeIntervalStats: the squared coefficient of variation of the gaps is
\* at most the square of the limit, which is in percent.
Regular(stamps) ==
  LET n == Len(stamps) - 1
      gap == [i \in 1..n |-> stamps[i + 1] - stamps[i]]
      total == stamps[Len(stamps)] - stamps[1]
      squares == Sum(LAMBDA g : (g * n - total) * (g * n - total), gap)
  IN /\ Len(stamps) >= 3
     /\ total > 0
     /\ 10000 * squares <= Opts.beaconCV * Opts.beaconCV * n * total * total

detectBeacon(log) ==
  {about(log, "beacon", "high", d) : d \in
     {e \in log.dests : /\ ~e.imds /\ ~e.internal
                        /\ e.count >= Opts.beaconMin
                        /\ Regular(e.stamps)
                        /\ (e.tx + e.rx) \div e.count <= Opts.beaconBytes}}

\* txRxRatio: a pure upload counts as the bytes it sent.
UploadHeavy(d) == IF d.rx <= 0 THEN d.tx >= Opts.exfilRatio ELSE d.tx >= Opts.exfilRatio * d.rx

\* One verdict per destination; volume outranks low-and-slow.
detectExfil(log) ==
  LET volume(d) == d.tx >= Opts.exfilMin /\ UploadHeavy(d)
      slow(d) == d.tx >= Opts.slowMin /\ d.span >= Opts.slowSpan /\ d.count >= Opts.beaconMin
      external == {d \in ExternalDests(log) : ~d.imds}
  IN {about(log, "exfil", "high", d) : d \in {e \in external : volume(e)}}
       \cup {about(log, "low_and_slow", "medium", d) : d \in {e \in external : ~volume(e) /\ slow(e)}}

detectLateral(log) ==
  LET east == {d \in log.dests : d.internal /\ ~d.imds}
      wide(S) == Cardinality(S) >= Opts.peersMin
      severity == IF wide({d.port : d \in east}) THEN "high" ELSE "medium"
  IN IF wide({d.host : d \in east}) THEN {Anomaly(log, "lateral", severity, "", <<>>)} ELSE {}

\* detectDNS: long, random labels under one parent, and failed look-ups of
\* random names.  Entropies are tenths of a bit, and averages are compared as sums.
detectDNS(log) ==
  LET parents == {log.dns[i].parent : i \in DOMAIN log.dns}
      under(p) == SelectSeq(log.dns, LAMBDA q : q.parent = p)
      tunnel(p) ==
        /\ Len(under(p)) >= Opts.tunnelMin
        /\ Sum(LAMBDA q : q.entropy, under(p)) >= Opts.entropy * Len(under(p))
        /\ Sum(LAMBDA q : q.len, under(p)) >= 12 * Len(under(p))
      failed == SelectSeq(log.dns, LAMBDA q : q.nx)
      dga == /\ Len(failed) >= Opts.nxMin
             /\ Sum(LAMBDA q : q.first, failed) >= Opts.entropy * Len(failed)
  IN {Anomaly(log, "dns_tunnel", "high", p, <<>>) : p \in {p \in parents : tunnel(p)}}
       \cup (IF dga THEN {Anomaly(log, "dga", "high", "", <<>>)} ELSE {})

detectBlockedEgress(log) == {about(log, "blocked_egress", "low", d) : d \in {e \in log.dests : e.denied > 0}}

detectHostNetwork(log) ==
  IF log.hostNetwork THEN {Anomaly(log, "host_network", "medium", "", <<>>)} ELSE {}

\* Off by default: an agent that reaches a host that is no known model endpoint.
detectAgentEgress(log) ==
  IF ~(Given.agentEgress /\ log.agent) THEN {}
  ELSE {about(log, "agent_egress", IF d.host \in ModelLike THEN "high" ELSE "medium", d) :
          d \in {e \in ExternalDests(log) : ~e.imds /\ e.host \notin ModelHosts}}

\* Ports of common egress services.
isHighRiskPort(p) ==
  p \notin {0, 53, 80, 123, 443, 587, 993, 995, 5432, 3306, 6379, 27017, 8080, 8443}

\* ClassifyEgress: a destination is intended when it is named, steady and on a
\* service port.
Intended(d) == d.fqdn # "" /\ d.count >= Opts.intentMin /\ ~isHighRiskPort(d.port)

Classified(log) == {d \in ExternalDests(log) : ~d.imds}

detectAnomalousEgress(log) ==
  IF ~Given.intent THEN {}
  ELSE {about(log, "anomalous_egress", "low", d) : d \in {e \in Classified(log) : ~Intended(e)}}

(***************************************************************************)
(*                               The report                                *)
(***************************************************************************)
\* Analyze, over a capture in canonical order.  sortAnomalies orders the
\* report by what the records hold, so the set stands for it.
Analyze(s, queries) ==
  LET logs == FlowLogs(Normalize(s), queries)
  IN UNION {detectIMDS(l) \cup detectBeacon(l) \cup detectExfil(l) \cup detectLateral(l) \cup detectDNS(l)
              \cup detectBlockedEgress(l) \cup detectHostNetwork(l) \cup detectAgentEgress(l)
              \cup detectAnomalousEgress(l) : l \in {logs[id] : id \in DOMAIN logs}}

\* Report.Highest, for --fail-on.
Highest(report) ==
  LET levels == {Levels[r.severity] : r \in report} \cup {0}
  IN CHOOSE n \in levels : \A m \in levels : m <= n
=============================================================================
