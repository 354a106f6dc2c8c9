---------------------------- MODULE SensorsProofs ----------------------------
(***************************************************************************)
(* What both event sources guarantee whatever the capacities of ring and   *)
(* channel, the processes and executables of the host and the bounds on    *)
(* records, execs and missed snapshots: they keep EventFeed's contract,    *)
(* and a connection is reported behind its process.  And that attribution  *)
(* is steady, for any cgroups, containers and number of events.            *)
(***************************************************************************)
EXTENDS Sensors, SequenceTheorems, FiniteSetTheorems, WellFoundedInduction, TLAPS

(***************************************************************************)
(* A behaviour is one of three.                                            *)
(***************************************************************************)
sensorsVars == <<vars, procVars, attributionVars, source>>

\* The steps that each of the three may take are steps of that component.
LEMMA SensorsStepMaps ==
  ASSUME [SensorsNext]_sensorsVars
  PROVE  /\ source' = source
         /\ source = "ebpf" => [Next]_vars /\ UNCHANGED procVars
         /\ source = "proc" => [Polling!Next]_procVars /\ UNCHANGED vars
         /\ source \notin {"ebpf", "proc"} => UNCHANGED <<vars, procVars>>
         /\ [AttributionNext]_attributionVars
<1>1. CASE EbpfStep /\ UNCHANGED source
  BY <1>1 DEF EbpfStep
<1>2. CASE ProcStep /\ UNCHANGED source
  BY <1>2 DEF ProcStep
<1>3. CASE (AttributionStep \/ AttributionDone) /\ UNCHANGED source
  BY <1>3 DEF AttributionStep, AttributionDone
<1>4. CASE UNCHANGED sensorsVars
  BY <1>4 DEF sensorsVars
<1> QED
  BY <1>1, <1>2, <1>3, <1>4 DEF SensorsNext

(***************************************************************************)
(* The eBPF source.                                                        *)
(***************************************************************************)
Kinds == {"shell", "other", "junk"}
Events == [seq : Nat, kind : Kinds]

\* The events are numbered as they are queued; the pump numbers one before it can
\* queue it, and stops for good when it drops that one.
LiveInv ==
  /\ gathered \in Seq(Events) /\ ch \in Seq(Events) /\ seq \in Nat /\ ringbuf \in Seq(Kinds)
  /\ \A i \in DOMAIN (gathered \o ch) : (gathered \o ch)[i].seq = i
  /\ pump = "reading" => seq = Len(gathered) + Len(ch)
  /\ pump = "sending" => \E e \in Events : /\ held = <<e>> /\ e.seq = seq
                                           /\ seq = Len(gathered) + Len(ch) + 1

LiveFlow == gathered \o ch

\* What a step of the live sensor is to its consumer.
LiveStep ==
  \/ UNCHANGED <<gathered, ch, runErr>>
  \/ /\ UNCHANGED <<gathered, runErr>>
     /\ \E e \in Events : ch' = ch \o <<e>> /\ e.seq = Len(LiveFlow) + 1
  \/ /\ running /\ ch # <<>> /\ UNCHANGED runErr
     /\ gathered' = Append(gathered, Head(ch)) /\ ch' = Tail(ch)
  \/ running /\ ~running' /\ UNCHANGED <<gathered, ch>>

LEMMA LiveStarts == Init => LiveInv
<1>1. <<>> \in Seq(Events) /\ <<>> \in Seq(Kinds) /\ DOMAIN (<<>> \o <<>>) = {} /\ Len(<<>>) = 0
  OBVIOUS
<1>2. ASSUME Init PROVE LiveInv
  <2>1. gathered = <<>> /\ ch = <<>> /\ seq = 0 /\ ringbuf = <<>> /\ pump = "reading"
    BY <1>2 DEF Init
  <2>2. DOMAIN (gathered \o ch) = {} /\ Len(gathered) = 0 /\ Len(ch) = 0
    BY <1>1, <2>1
  <2> QED
    BY <1>1, <2>1, <2>2 DEF LiveInv
<1> QED
  BY <1>2

LEMMA LiveStepKeeps ==
  ASSUME LiveInv, Next
  PROVE  LiveInv' /\ LiveStep
<1>0. /\ gathered \in Seq(Events) /\ ch \in Seq(Events) /\ seq \in Nat /\ ringbuf \in Seq(Kinds)
      /\ LiveFlow \in Seq(Events) /\ Len(LiveFlow) = Len(gathered) + Len(ch)
      /\ Len(gathered) \in Nat /\ Len(ch) \in Nat
  BY ConcatProperties, LenProperties DEF LiveInv, LiveFlow
<1>1. ASSUME UNCHANGED <<gathered, ch, pump, held, seq, runErr>>, ringbuf' \in Seq(Kinds)
      PROVE  LiveInv' /\ LiveStep
  BY <1>1 DEF LiveInv, LiveStep
<1>2. CASE Read
  <2>1. /\ UNCHANGED <<gathered, ch, runErr>> /\ pump = "reading"
        /\ ringbuf' \in Seq(Kinds) /\ Head(ringbuf) \in Kinds
    BY <1>0, <1>2 DEF Read, runVars
  <2>2. CASE UNCHANGED <<pump, held, seq>>
    BY <1>1, <2>1, <2>2
  <2>3. CASE ~UNCHANGED <<pump, held, seq>>
    <3> DEFINE e == [seq |-> seq + 1, kind |-> Head(ringbuf)]
    <3>1. seq' = seq + 1 /\ held' = <<e>> /\ pump' = "sending"
      BY <1>2, <2>3 DEF Read
    <3>2. e \in Events /\ e.seq = seq'
      BY <1>0, <2>1, <3>1 DEF Events
    <3>3. seq' = Len(gathered) + Len(ch) + 1 /\ seq' \in Nat
      BY <1>0, <2>1, <3>1 DEF LiveInv
    <3> HIDE DEF e
    <3> QED
      BY <1>0, <2>1, <3>1, <3>2, <3>3 DEF LiveInv, LiveStep
  <2> QED
    BY <2>2, <2>3
<1>3. CASE Send
  <2>1. PICK e \in Events : held = <<e>> /\ e.seq = seq /\ seq = Len(gathered) + Len(ch) + 1
    BY <1>3 DEF Send, LiveInv
  <2>2. /\ ch' = ch \o <<e>> /\ pump' = "reading"
        /\ UNCHANGED <<gathered, seq, ringbuf, runErr>>
    BY <1>3, <2>1 DEF Send, runVars
  <2>3. ch' \in Seq(Events) /\ Len(ch') = Len(ch) + 1
    BY <1>0, <2>2
  <2>4. \A i \in DOMAIN (gathered \o ch') : (gathered \o ch')[i].seq = i
    <3>1. gathered \o ch' = LiveFlow \o <<e>>
      BY <1>0, <2>2, ConcatAssociative DEF LiveFlow
    <3> QED
      BY <1>0, <2>1, <3>1 DEF LiveInv, LiveFlow
  <2>5. LiveStep
    BY <1>0, <2>1, <2>2 DEF LiveStep
  <2> QED
    BY <1>0, <2>1, <2>2, <2>3, <2>4, <2>5 DEF LiveInv
<1>4. CASE ReadError \/ PumpStops
  BY <1>4 DEF ReadError, PumpStops, LiveInv, LiveStep, runVars
<1>5. CASE NextEvent
  <2>1. /\ ch # <<>> /\ gathered' = Append(gathered, Head(ch)) /\ ch' = Tail(ch)
        /\ UNCHANGED <<ringbuf, pump, held, seq, runErr>> /\ running
    BY <1>5 DEF NextEvent
  <2>2. /\ gathered' \in Seq(Events) /\ ch' \in Seq(Events) /\ gathered' \o ch' = gathered \o ch
        /\ Len(gathered') + Len(ch') = Len(gathered) + Len(ch)
    BY <1>0, <2>1
  <2> QED
    BY <2>1, <2>2 DEF LiveInv, LiveStep
<1>6. CASE NextError \/ NextDone
  BY <1>6 DEF NextError, NextDone, LiveInv, LiveStep, running, sourceVars
<1>7. CASE \E r \in Record : Probe(r)
  <2>1. UNCHANGED <<gathered, ch, pump, held, seq, runErr>> /\ ringbuf' \in Seq(Kinds)
    BY <1>0, <1>7 DEF Probe, Record, Kinds, runVars
  <2> QED
    BY <1>1, <2>1
<1>8. CASE ArmShellKill \/ Close \/ Signal \/ Exit \/ Stop
  <2>1. UNCHANGED <<gathered, ch, pump, held, seq, runErr, ringbuf>>
    BY <1>8 DEF ArmShellKill, Close, Signal, Exit, Stop, runVars, sourceVars, vars
  <2> QED
    BY <1>0, <1>1, <2>1
<1> QED
  BY <1>2, <1>3, <1>4, <1>5, <1>6, <1>7, <1>8 DEF Next, Pump

(***************************************************************************)
(* The /proc source: what one poll observes.                               *)
(***************************************************************************)
LEMMA Least ==
  ASSUME NEW S, S \subseteq Nat, S # {}
  PROVE  \E m \in S : \A k \in S : m <= k
<1>1. PICK m \in S : \A k \in S : ~(<<k, m>> \in OpToRel(<, Nat))
  BY NatLessThanWellFounded, WFMin
<1>2. ASSUME NEW k \in S, ~(m <= k) PROVE FALSE
  <2>1. k < m /\ k \in Nat /\ m \in Nat
    BY <1>2
  <2> QED
    BY <1>1, <2>1 DEF OpToRel
<1> QED
  BY <1>2

\* The recursion by which sequences are joined defines a function.
LEMMA JoinIsDefined ==
  ASSUME NEW s, NEW n \in Nat \ {0}
  PROVE  \E f : f = [i \in 1..n |-> IF i = 1 THEN s[i] ELSE f[i - 1] \o s[i]]
<1> DEFINE joins(f, m) == f = [i \in 1..m |-> IF i = 1 THEN s[i] ELSE f[i - 1] \o s[i]]
           joined(m) == \E f : joins(f, m)
           bad == {m \in 1..n : ~joined(m)}
<1> HIDE DEF joins, joined
<1>1. ASSUME bad # {} PROVE FALSE
  <2>1. PICK m \in 1..n : m \in bad /\ \A k \in bad : m <= k
    <3>1. bad \subseteq Nat /\ bad \subseteq 1..n
      OBVIOUS
    <3> HIDE DEF bad
    <3> QED
      BY <1>1, <3>1, Least
  <2>2. CASE m = 1
    <3>1. joins([i \in 1..1 |-> s[i]], 1)
      BY DEF joins
    <3> QED
      BY <2>1, <2>2, <3>1 DEF joined
  <2>3. CASE m # 1
    <3>1. m - 1 \in 1..n /\ m \in 1..m /\ m - 1 \in 1..m /\ m - 1 \notin bad
      <4>1. m - 1 \in 1..n /\ m \in 1..m /\ m - 1 \in 1..m /\ ~(m <= m - 1)
        BY <2>3
      <4> HIDE DEF bad
      <4> QED
        BY <2>1, <4>1
    <3>2. PICK g : joins(g, m - 1)
      BY <3>1 DEF joined
    <3> DEFINE f == [i \in 1..m |-> IF i = m THEN g[m - 1] \o s[m] ELSE g[i]]
    <3>3. ASSUME NEW i \in 1..m
          PROVE  f[i] = IF i = 1 THEN s[i] ELSE f[i - 1] \o s[i]
      <4>1. CASE i = m
        <5>1. m - 1 # m
          OBVIOUS
        <5>2. f[m - 1] = g[m - 1] /\ f[m] = g[m - 1] \o s[m]
          BY <3>1, <5>1
        <5> QED
          BY <2>3, <4>1, <5>2
      <4>2. CASE i # m
        <5>1. i \in 1..(m - 1) /\ f[i] = g[i] /\ (i # 1 => f[i - 1] = g[i - 1])
          BY <3>1, <4>2
        <5> HIDE DEF f
        <5> QED
          BY <3>2, <5>1 DEF joins
      <4> QED
        BY <4>1, <4>2
    <3>4. joins(f, m)
      <4>1. f = [i \in 1..m |-> f[i]]
        OBVIOUS
      <4> HIDE DEF f
      <4> QED
        BY <3>3, <4>1 DEF joins
    <3> QED
      BY <2>1, <3>4 DEF joined
  <2> QED
    BY <2>2, <2>3
<1>2. n \in 1..n
  OBVIOUS
<1>3. joined(n)
  BY <1>1, <1>2
<1> QED
  BY <1>3 DEF joined, joins

\* Joined sequences have what two that are joined keep.
LEMMA JoinKeeps ==
  ASSUME NEW X, \A a, b \in X : a \o b \in X,
         NEW s, Len(s) \in Nat \ {0}, \A i \in 1..Len(s) : s[i] \in X
  PROVE  Polling!FlattenSeq(s) \in X
<1> DEFINE n == Len(s)
           flatten == CHOOSE f : f = [i \in 1..n |-> IF i = 1 THEN s[i] ELSE f[i - 1] \o s[i]]
           bad == {m \in 1..n : flatten[m] \notin X}
<1>1. flatten = [i \in 1..n |-> IF i = 1 THEN s[i] ELSE flatten[i - 1] \o s[i]]
  BY JoinIsDefined
<1>2. Polling!FlattenSeq(s) = flatten[n]
  BY DEF Polling!FlattenSeq
<1> HIDE DEF flatten
<1>3. ASSUME bad # {} PROVE FALSE
  <2>1. PICK m \in 1..n : m \in bad /\ \A k \in bad : m <= k
    <3>1. bad \subseteq Nat /\ bad \subseteq 1..n
      OBVIOUS
    <3> HIDE DEF bad
    <3> QED
      BY <1>3, <3>1, Least
  <2>2. m # 1 /\ flatten[m] \notin X
    BY <1>1, <2>1
  <2>3. m - 1 \in 1..n /\ ~(m <= m - 1)
    BY <2>2
  <2>4. flatten[m - 1] \in X
    BY <2>1, <2>3
  <2>5. flatten[m] = flatten[m - 1] \o s[m]
    BY <1>1, <2>2
  <2> QED
    BY <2>2, <2>4, <2>5
<1> QED
  BY <1>2, <1>3

\* The processes that changed are finitely many, in a sequence.
LEMMA AscendingIsFinite ==
  ASSUME NEW S, IsFiniteSet(S)
  PROVE  \E n \in Nat : DOMAIN Polling!ascending(S) = 1..n
<1>1. Cardinality(S) \in Nat
  BY FS_CardinalityType
<1>2. Polling!Cardinality(S) = Cardinality(S)
  BY DEF Polling!Cardinality, Cardinality
<1> QED
  BY <1>1, <1>2 DEF Polling!ascending

\* Every connection stands behind its process.
asProcess(e) == [e EXCEPT !.kind = "process"]

Chained(evs) ==
  \A i \in DOMAIN evs : evs[i].kind = "network" => i > 1 /\ evs[i - 1] = asProcess(evs[i])

LEMMA ChainsJoin ==
  ASSUME NEW E, NEW a \in Seq(E), NEW b \in Seq(E), Chained(a), Chained(b)
  PROVE  a \o b \in Seq(E) /\ Chained(a \o b)
<1>1. /\ a \o b \in Seq(E) /\ Len(a) \in Nat /\ Len(b) \in Nat
      /\ DOMAIN a = 1..Len(a) /\ DOMAIN b = 1..Len(b)
      /\ DOMAIN (a \o b) = 1..(Len(a) + Len(b))
      /\ \A i \in 1..Len(a) : (a \o b)[i] = a[i]
      /\ \A i \in (Len(a) + 1)..(Len(a) + Len(b)) : (a \o b)[i] = b[i - Len(a)]
  OBVIOUS
<1> DEFINE c == a \o b
<1> HIDE DEF c
<1>2. ASSUME NEW i \in DOMAIN c, c[i].kind = "network"
      PROVE  i > 1 /\ c[i - 1] = asProcess(c[i])
  <2>1. CASE i \in 1..Len(a)
    <3>1. c[i] = a[i] /\ i > 1 /\ a[i - 1] = asProcess(a[i])
      BY <1>1, <1>2, <2>1 DEF Chained, c
    <3>2. i - 1 \in 1..Len(a)
      BY <1>1, <2>1, <3>1
    <3> QED
      BY <1>1, <3>1, <3>2 DEF c
  <2>2. CASE i \in (Len(a) + 1)..(Len(a) + Len(b))
    <3> DEFINE j == i - Len(a)
    <3>1. j \in DOMAIN b /\ c[i] = b[j]
      BY <1>1, <2>2 DEF c
    <3> HIDE DEF j
    <3>2. j > 1 /\ b[j - 1] = asProcess(b[j])
      BY <1>2, <3>1 DEF Chained
    <3>3. i - 1 \in (Len(a) + 1)..(Len(a) + Len(b)) /\ (i - 1) - Len(a) = j - 1 /\ i > 1
      BY <1>1, <2>2, <3>2 DEF j
    <3>4. c[i - 1] = b[j - 1]
      BY <1>1, <3>3 DEF c
    <3> QED
      BY <3>1, <3>2, <3>3, <3>4
  <2> QED
    BY <1>1, <1>2, <2>1, <2>2 DEF c
<1> QED
  BY <1>1, <1>2 DEF Chained, c

\* What one process contributes, and so what all do.
LEMMA ObservedChains ==
  ASSUME NEW cur \in Polling!snapshots, NEW old
  PROVE  LET evs == Polling!observed(cur, Polling!diffProcTable(old, cur))
         IN Chained(evs) /\ \E E : evs \in Seq(E)
<1> DEFINE changed == Polling!diffProcTable(old, cur)
           pids == Polling!ascending(changed)
           ev(k, p) == Polling!event(k, p, cur)
           part(p) == IF p \in linked THEN <<ev("process", p), ev("network", p)>>
                      ELSE <<ev("process", p)>>
           parts == [i \in DOMAIN pids |-> part(pids[i])]
           E == {ev(k, pids[i]) : k \in {"process", "network"}, i \in DOMAIN pids}
           X == {q \in Seq(E) : Chained(q)}
<1>1. PICK n \in Nat : DOMAIN pids = 1..n
  <2>1. changed \subseteq Pids
    BY DEF Polling!diffProcTable, Polling!snapshots
  <2>2. IsFiniteSet(changed)
    BY <2>1, HostAssumption, FS_Subset
  <2> HIDE DEF changed
  <2> QED
    BY <2>2, AscendingIsFinite
<1>2. Polling!observed(cur, changed) = Polling!FlattenSeq(parts)
  BY DEF Polling!observed
<1>3. \A p : /\ ev("process", p) = asProcess(ev("network", p))
             /\ ev("process", p).kind = "process"
  BY DEF Polling!event, asProcess
<1> HIDE DEF changed, pids, ev
<1>4. ASSUME NEW i \in DOMAIN pids PROVE part(pids[i]) \in X
  <2>1. ev("process", pids[i]) \in E /\ ev("network", pids[i]) \in E
    OBVIOUS
  <2> HIDE DEF E
  <2>2. CASE pids[i] \in linked
    <3> DEFINE q == <<ev("process", pids[i]), ev("network", pids[i])>>
    <3>1. q \in Seq(E) /\ DOMAIN q = {1, 2}
      BY <2>1
    <3>2. Chained(q)
      BY <1>3, <3>1 DEF Chained
    <3> QED
      BY <2>2, <3>1, <3>2
  <2>3. CASE pids[i] \notin linked
    <3> DEFINE q == <<ev("process", pids[i])>>
    <3>1. q \in Seq(E) /\ DOMAIN q = {1}
      BY <2>1
    <3>2. Chained(q)
      BY <1>3, <3>1 DEF Chained
    <3> QED
      BY <2>3, <3>1, <3>2
  <2> QED
    BY <2>2, <2>3
<1>5. \A a, b \in X : a \o b \in X
  BY ChainsJoin
<1>6. DOMAIN parts = 1..n /\ \A i \in 1..n : parts[i] \in X
  BY <1>1, <1>4
<1>7. Len(parts) = n
  BY <1>6
<1> HIDE DEF parts, X
<1>8. CASE n # 0
  <2>1. Polling!FlattenSeq(parts) \in X
    BY <1>5, <1>6, <1>7, <1>8, JoinKeeps
  <2> QED
    BY <1>2, <2>1 DEF X, changed
<1>9. CASE n = 0
  <2>1. Polling!FlattenSeq(parts) = <<>>
    BY <1>6, <1>7, <1>9 DEF Polling!FlattenSeq
  <2>2. <<>> \in Seq(E) /\ Chained(<<>>)
    BY DEF Chained
  <2> QED
    BY <1>2, <2>1, <2>2 DEF changed
<1> QED
  BY <1>8, <1>9

(***************************************************************************)
(* The /proc source: its stream.                                           *)
(***************************************************************************)
ProcFlow == delivered \o queue

FlowChained ==
  \A i \in DOMAIN ProcFlow : ProcFlow[i].ev.kind = "network" =>
    i > 1 /\ ProcFlow[i - 1].ev = asProcess(ProcFlow[i].ev)

\* Everything numbered is delivered or queued, under its place in the stream.
ProcInv ==
  /\ \E S : delivered \in Seq(S) /\ queue \in Seq(S)
  /\ polls = Len(delivered) + Len(queue)
  /\ \A i \in DOMAIN ProcFlow : ProcFlow[i].seq = i
  /\ FlowChained

\* What a step of the source is to its consumer.
ProcMove ==
  \/ UNCHANGED <<delivered, queue, polls, ended>>
  \/ /\ ended = "" /\ queue # <<>> /\ UNCHANGED <<polls, ended>>
     /\ delivered' = Append(delivered, Head(queue)) /\ queue' = Tail(queue)
  \/ ended = "" /\ ended' # "" /\ UNCHANGED <<delivered, queue, polls>>
  \/ /\ ended = "" /\ queue = <<>> /\ UNCHANGED ended
     /\ \E E : \E evs \in Seq(E) :
          LET new == Polling!numbered(evs) IN
          /\ Chained(evs) /\ new # <<>> /\ polls' = polls + Len(new)
          /\ delivered' = Append(delivered, Head(new)) /\ queue' = Tail(new)

\* A poll that finds nothing may end the stream; every other step is plain.
LEMMA ProcMoves ==
  ASSUME polls \in Nat, [Polling!Next]_procVars
  PROVE  ProcMove
<1>1. CASE Polling!HostStep
  BY <1>1 DEF Polling!HostStep, Polling!Quit, Polling!Connect, Polling!Run, Polling!sourceVars, ProcMove
<1>2. CASE Polling!Drain
  BY <1>2 DEF Polling!Drain, ProcMove
<1>3. CASE Polling!Poll
  <2>1. /\ ended = "" /\ queue = <<>>
        /\ \E cur \in Polling!snapshots :
             LET evs == Polling!observed(cur, Polling!diffProcTable(prev, cur))
                 new == Polling!numbered(evs) IN
             /\ polls' = polls + Len(new)
             /\ \/ new = <<>> /\ ended' \in {"eof", ""} /\ UNCHANGED <<queue, delivered>>
                \/ /\ new # <<>> /\ UNCHANGED ended
                   /\ queue' = Tail(new) /\ delivered' = Append(delivered, Head(new))
    BY <1>3 DEF Polling!Poll
  <2>2. PICK cur \in Polling!snapshots :
             LET evs == Polling!observed(cur, Polling!diffProcTable(prev, cur))
                 new == Polling!numbered(evs) IN
             /\ polls' = polls + Len(new)
             /\ \/ new = <<>> /\ ended' \in {"eof", ""} /\ UNCHANGED <<queue, delivered>>
                \/ /\ new # <<>> /\ UNCHANGED ended
                   /\ queue' = Tail(new) /\ delivered' = Append(delivered, Head(new))
    BY <2>1
  <2> DEFINE evs == Polling!observed(cur, Polling!diffProcTable(prev, cur))
             new == Polling!numbered(evs)
  <2>3. Chained(evs) /\ \E E : evs \in Seq(E)
    BY ObservedChains
  <2> HIDE DEF evs
  <2>4. CASE new = <<>>
    <3>1. polls' = polls /\ ended' \in {"eof", ""} /\ UNCHANGED <<queue, delivered>>
      <4>1. Len(new) = 0
        BY <2>4
      <4>2. polls' = polls + Len(new) /\ ended' \in {"eof", ""} /\ UNCHANGED <<queue, delivered>>
        BY <2>2, <2>4 DEF evs
      <4>3. polls' = polls
        <5>1. polls' = polls + Len(new)
          BY <4>2
        <5> HIDE DEF new
        <5> QED
          BY <4>1, <5>1
      <4> QED
        BY <4>2, <4>3
    <3> QED
      BY <2>1, <3>1 DEF ProcMove
  <2>6. CASE new # <<>>
    BY <2>1, <2>2, <2>3, <2>6 DEF ProcMove, evs
  <2> QED
    BY <2>4, <2>6
<1>4. CASE Polling!PollFails \/ Polling!Cancelled
  BY <1>4 DEF Polling!PollFails, Polling!Cancelled, Polling!sourceVars, ProcMove
<1>5. CASE Polling!Cancel \/ Polling!Stop
  BY <1>5 DEF Polling!Cancel, Polling!Stop, Polling!sourceVars, Polling!vars, ProcMove
<1>6. CASE UNCHANGED procVars
  BY <1>6 DEF procVars, ProcMove
<1> QED
  BY <1>1, <1>2, <1>3, <1>4, <1>5, <1>6 DEF Polling!Next

\* Taking the first of what is added.
LEMMA FirstIsTaken ==
  ASSUME NEW T, NEW d \in Seq(T), NEW new \in Seq(T), new # <<>>
  PROVE  /\ Append(d, Head(new)) \o Tail(new) = d \o new
         /\ Append(d, Head(new)) \in Seq(T) /\ Tail(new) \in Seq(T)
         /\ Len(Append(d, Head(new))) = Len(d) + 1 /\ Len(Tail(new)) = Len(new) - 1
OBVIOUS

LEMMA JoinedAt ==
  ASSUME NEW T, NEW d \in Seq(T), NEW new \in Seq(T)
  PROVE  /\ Len(d \o new) = Len(d) + Len(new) /\ DOMAIN (d \o new) = 1..(Len(d) + Len(new))
         /\ \A i \in 1..Len(d) : (d \o new)[i] = d[i]
         /\ \A i \in (Len(d) + 1)..(Len(d) + Len(new)) : (d \o new)[i] = new[i - Len(d)]
         /\ SubSeq(d \o new, 1, Len(d)) = d
<1>1. /\ Len(d \o new) = Len(d) + Len(new) /\ DOMAIN (d \o new) = 1..(Len(d) + Len(new))
      /\ \A i \in 1..Len(d) : (d \o new)[i] = d[i]
  OBVIOUS
<1>2. \A i \in (Len(d) + 1)..(Len(d) + Len(new)) : (d \o new)[i] = new[i - Len(d)]
  OBVIOUS
<1>3. SubSeq(d \o new, 1, Len(d)) = d
  OBVIOUS
<1> QED
  BY <1>1, <1>2, <1>3

numberedFrom(n, evs) == [i \in DOMAIN evs |-> [ev |-> evs[i], seq |-> n + i]]

\* A chain put behind a numbered chain, numbered on.
LEMMA FlowGrows ==
  ASSUME NEW S, NEW d \in Seq(S), NEW E, NEW evs \in Seq(E), Chained(evs),
         \A i \in DOMAIN d : d[i].seq = i,
         \A i \in DOMAIN d : d[i].ev.kind = "network" => i > 1 /\ d[i - 1].ev = asProcess(d[i].ev),
         NEW new, new = numberedFrom(Len(d), evs), new # <<>>
  PROVE  LET flow == Append(d, Head(new)) \o Tail(new) IN
         /\ \E T : flow \in Seq(T) /\ Append(d, Head(new)) \in Seq(T) /\ Tail(new) \in Seq(T)
         /\ Len(new) \in Nat /\ Len(Append(d, Head(new))) = Len(d) + 1 /\ Len(Tail(new)) = Len(new) - 1
         /\ Len(flow) > Len(d) /\ SubSeq(flow, 1, Len(d)) = d
         /\ \A i \in DOMAIN flow : flow[i].seq = i
         /\ \A i \in DOMAIN flow :
              flow[i].ev.kind = "network" => i > 1 /\ flow[i - 1].ev = asProcess(flow[i].ev)
<1> DEFINE n == Len(evs)
           T == S \cup [ev : E, seq : Nat]
           flow == Append(d, Head(new)) \o Tail(new)
<1>1. /\ n \in Nat /\ DOMAIN evs = 1..n /\ Len(d) \in Nat /\ DOMAIN d = 1..Len(d)
      /\ \A i \in 1..n : evs[i] \in E
  OBVIOUS
<1>2. new = [i \in 1..n |-> [ev |-> evs[i], seq |-> Len(d) + i]]
  BY <1>1 DEF numberedFrom
<1> HIDE DEF n
<1>3. new \in Seq(T) /\ d \in Seq(T) /\ Len(new) = n /\ n # 0
  <2>1. \A i \in 1..n : new[i] \in T
    BY <1>1, <1>2
  <2>2. d \in Seq(T)
    OBVIOUS
  <2> HIDE DEF T
  <2>3. new \in [1..n -> T]
    BY <1>2, <2>1
  <2>4. new \in Seq(T) /\ Len(new) = n
    BY <1>1, <2>3
  <2> QED
    BY <2>2, <2>4
<1> HIDE DEF T
<1>4. /\ flow = d \o new /\ flow \in Seq(T)
      /\ Append(d, Head(new)) \in Seq(T) /\ Tail(new) \in Seq(T)
      /\ Len(Append(d, Head(new))) = Len(d) + 1 /\ Len(Tail(new)) = n - 1
  <2>1. d \o new \in Seq(T)
    BY <1>3
  <2> QED
    BY <1>3, <2>1, FirstIsTaken
<1> HIDE DEF flow
<1>5. /\ Len(flow) = Len(d) + n /\ DOMAIN flow = 1..(Len(d) + n)
      /\ \A i \in 1..Len(d) : flow[i] = d[i]
      /\ \A i \in (Len(d) + 1)..(Len(d) + n) : flow[i] = new[i - Len(d)]
      /\ SubSeq(flow, 1, Len(d)) = d
  BY <1>3, <1>4, JoinedAt
<1>6. \A j \in 1..n : new[j].ev = evs[j] /\ new[j].seq = Len(d) + j
  BY <1>2
<1>7. ASSUME NEW i \in DOMAIN flow
      PROVE  /\ flow[i].seq = i
             /\ flow[i].ev.kind = "network" => i > 1 /\ flow[i - 1].ev = asProcess(flow[i].ev)
  <2>1. CASE i \in 1..Len(d)
    <3>1. i > 1 => i - 1 \in 1..Len(d)
      BY <1>1, <2>1
    <3>2. flow[i] = d[i] /\ (i > 1 => flow[i - 1] = d[i - 1])
      BY <1>5, <2>1, <3>1
    <3> QED
      BY <1>1, <2>1, <3>2
  <2>2. CASE i \in (Len(d) + 1)..(Len(d) + n)
    <3> DEFINE j == i - Len(d)
    <3>1. j \in 1..n /\ Len(d) + j = i /\ flow[i] = new[j]
      BY <1>1, <1>5, <2>2
    <3>2. j > 1 => i > 1 /\ j - 1 \in 1..n /\ i - 1 \in (Len(d) + 1)..(Len(d) + n) /\ (i - 1) - Len(d) = j - 1
      BY <1>1, <2>2
    <3> HIDE DEF j
    <3>3. flow[i].ev = evs[j] /\ flow[i].seq = i
      BY <1>6, <3>1
    <3>4. j > 1 => i > 1 /\ flow[i - 1].ev = evs[j - 1]
      BY <1>5, <1>6, <3>2
    <3>5. evs[j].kind = "network" => j > 1 /\ evs[j - 1] = asProcess(evs[j])
      BY <1>1, <3>1 DEF Chained
    <3> QED
      BY <3>3, <3>4, <3>5
  <2> QED
    BY <1>1, <1>5, <2>1, <2>2
<1>8. Len(flow) > Len(d)
  BY <1>1, <1>3, <1>5
<1> QED
  BY <1>1, <1>3, <1>4, <1>5, <1>7, <1>8 DEF flow

LEMMA ProcStarts == Polling!Init => ProcInv
<1> SUFFICES ASSUME Polling!Init PROVE ProcInv
  OBVIOUS
<1>1. delivered = <<>> /\ queue = <<>> /\ polls = 0
  BY DEF Polling!Init
<1>2. <<>> \in Seq({}) /\ Len(<<>>) = 0
  OBVIOUS
<1>3. DOMAIN ProcFlow = {}
  BY <1>1 DEF ProcFlow
<1> QED
  BY <1>1, <1>2, <1>3 DEF ProcInv, ProcFlow, FlowChained

\* A step leaves the stream as it is, or extends an empty queue by a chain.
LEMMA ProcMoveKeeps ==
  ASSUME ProcInv, ProcMove
  PROVE  /\ ProcInv'
         /\ \/ UNCHANGED <<delivered, queue, ended>>
            \/ /\ ended = "" /\ UNCHANGED ended /\ ProcFlow' = ProcFlow
               /\ Len(delivered) < Len(ProcFlow) /\ Len(delivered') = Len(delivered) + 1
            \/ ended = "" /\ ended' # "" /\ UNCHANGED <<delivered, queue>>
            \/ /\ Len(ProcFlow') > Len(ProcFlow) /\ SubSeq(ProcFlow', 1, Len(ProcFlow)) = ProcFlow
               /\ Len(delivered) = Len(ProcFlow) /\ Len(delivered') = Len(delivered) + 1
               /\ ended = "" /\ UNCHANGED ended
<1>0. PICK S : delivered \in Seq(S) /\ queue \in Seq(S)
  BY DEF ProcInv
<1>1. /\ Len(delivered) \in Nat /\ Len(queue) \in Nat /\ polls = Len(delivered) + Len(queue)
      /\ ProcFlow \in Seq(S) /\ Len(ProcFlow) = polls /\ DOMAIN ProcFlow = 1..polls
  BY <1>0 DEF ProcInv, ProcFlow
<1>2. ASSUME ProcFlow' = ProcFlow, \E T : delivered' \in Seq(T) /\ queue' \in Seq(T),
             polls' = Len(delivered') + Len(queue')
      PROVE  ProcInv'
  BY <1>2 DEF ProcInv, ProcFlow, FlowChained
<1>3. ASSUME UNCHANGED <<delivered, queue, polls>> PROVE ProcInv'
  BY <1>2, <1>3 DEF ProcFlow, ProcInv
<1>4. ASSUME queue # <<>>, UNCHANGED polls,
             delivered' = Append(delivered, Head(queue)), queue' = Tail(queue)
      PROVE  /\ ProcInv' /\ ProcFlow' = ProcFlow
             /\ Len(delivered) < Len(ProcFlow) /\ Len(delivered') = Len(delivered) + 1
  <2>1. /\ delivered' \in Seq(S) /\ queue' \in Seq(S) /\ delivered' \o queue' = delivered \o queue
        /\ Len(delivered') = Len(delivered) + 1 /\ Len(queue') = Len(queue) - 1 /\ Len(queue) # 0
    BY <1>0, <1>4
  <2>2. ProcFlow' = ProcFlow
    BY <2>1 DEF ProcFlow
  <2>3. polls' = Len(delivered') + Len(queue')
    BY <1>1, <1>4, <2>1
  <2> QED
    BY <1>1, <1>2, <2>1, <2>2, <2>3
<1>5. ASSUME ended = "", queue = <<>>, UNCHANGED ended, NEW E, NEW evs \in Seq(E), Chained(evs),
             Polling!numbered(evs) # <<>>, polls' = polls + Len(Polling!numbered(evs)),
             delivered' = Append(delivered, Head(Polling!numbered(evs))),
             queue' = Tail(Polling!numbered(evs))
      PROVE  /\ ProcInv'
             /\ Len(ProcFlow') > Len(ProcFlow) /\ SubSeq(ProcFlow', 1, Len(ProcFlow)) = ProcFlow
             /\ Len(delivered) = Len(ProcFlow) /\ Len(delivered') = Len(delivered) + 1
  <2> DEFINE new == Polling!numbered(evs)
  <2>1. queue = <<>> /\ new # <<>> /\ Chained(evs)
    BY <1>5
  <2>2. ProcFlow = delivered /\ Len(delivered) = polls
    BY <1>0, <1>1, <2>1 DEF ProcFlow
  <2>3. new = numberedFrom(Len(delivered), evs)
    BY <2>2 DEF Polling!numbered, numberedFrom
  <2>4. ProcFlow' = delivered' \o queue' /\ delivered' = Append(delivered, Head(new))
        /\ queue' = Tail(new) /\ polls' = polls + Len(new)
    BY <1>5 DEF ProcFlow
  <2>5. /\ \A i \in DOMAIN delivered : delivered[i].seq = i
        /\ \A i \in DOMAIN delivered : delivered[i].ev.kind = "network" =>
              i > 1 /\ delivered[i - 1].ev = asProcess(delivered[i].ev)
    BY <2>2 DEF ProcInv, FlowChained
  <2> HIDE DEF new
  <2>6. /\ \E T : delivered' \in Seq(T) /\ queue' \in Seq(T)
        /\ Len(new) \in Nat /\ Len(delivered') = Len(delivered) + 1 /\ Len(queue') = Len(new) - 1
        /\ Len(ProcFlow') > Len(delivered) /\ SubSeq(ProcFlow', 1, Len(delivered)) = delivered
        /\ \A i \in DOMAIN ProcFlow' : ProcFlow'[i].seq = i
        /\ \A i \in DOMAIN ProcFlow' : ProcFlow'[i].ev.kind = "network" =>
              i > 1 /\ ProcFlow'[i - 1].ev = asProcess(ProcFlow'[i].ev)
    BY <1>0, <2>1, <2>3, <2>4, <2>5, FlowGrows
  <2>7. polls' = Len(delivered') + Len(queue')
    <3>1. /\ Len(new) \in Nat /\ Len(delivered') = Len(delivered) + 1 /\ Len(queue') = Len(new) - 1
          /\ polls' = polls + Len(new) /\ Len(delivered) = polls /\ polls \in Nat
      BY <1>1, <2>2, <2>4, <2>6
    <3> QED
      BY <3>1
  <2> QED
    BY <2>2, <2>6, <2>7 DEF ProcInv, FlowChained
<1> QED
  BY <1>3, <1>4, <1>5 DEF ProcMove

(***************************************************************************)
(* The contract of both.                                                   *)
(***************************************************************************)
StreamInv == LiveInv /\ ProcInv

LEMMA StreamStarts == SensorsInit => StreamInv /\ Feed!Init
<1> SUFFICES ASSUME SensorsInit PROVE StreamInv /\ Feed!Init
  OBVIOUS
<1>1. StreamInv
  BY LiveStarts, ProcStarts DEF SensorsInit, StreamInv
<1>2. gathered = <<>> /\ ch = <<>> /\ runErr = "" /\ delivered = <<>> /\ queue = <<>> /\ ended = ""
  BY DEF SensorsInit, Init, Polling!Init
<1>3. <<>> \o <<>> = <<>> /\ Len(<<>>) = 0
  OBVIOUS
<1>4. Feed!Init
  BY <1>2, <1>3 DEF Feed!Init, running
<1> QED
  BY <1>1, <1>4

\* What the pump queues the loop has not taken; what a poll observes it takes one of.
LEMMA StreamKept ==
  ASSUME StreamInv, [SensorsNext]_sensorsVars
  PROVE  StreamInv' /\ [Feed!Next]_(Feed!feedVars)
<1> USE DEF StreamInv
<1>1. source' = source
  BY SensorsStepMaps
<1>2. ASSUME UNCHANGED vars PROVE LiveInv'
  BY <1>2 DEF vars, sourceVars, kernelVars, runVars, LiveInv
<1>3. ASSUME UNCHANGED procVars PROVE ProcInv'
  BY <1>3 DEF procVars, ProcInv, ProcFlow, FlowChained
<1>4. CASE source = "ebpf"
  <2>1. [Next]_vars /\ ProcInv'
    BY <1>3, <1>4, SensorsStepMaps
  <2>2. LiveInv' /\ LiveStep
    <3>1. CASE Next
      BY <3>1, LiveStepKeeps
    <3>2. CASE UNCHANGED vars
      BY <1>2, <3>2 DEF vars, sourceVars, runVars, LiveStep
    <3> QED
      BY <2>1, <3>1, <3>2
  <2>3. /\ gathered \in Seq(Events) /\ ch \in Seq(Events)
        /\ \A i \in DOMAIN LiveFlow' : LiveFlow'[i].seq = i
    BY <2>2 DEF LiveInv, LiveFlow
  <2> SUFFICES [Feed!Next]_(Feed!feedVars)
    BY <2>1, <2>2
  <2>4. CASE UNCHANGED <<gathered, ch, runErr>>
    BY <1>1, <1>4, <2>4 DEF Feed!feedVars, running
  <2>5. ASSUME UNCHANGED <<gathered, runErr>>, NEW e \in Events, ch' = ch \o <<e>>
        PROVE  Feed!Next
    <3>1. LiveFlow' = LiveFlow \o <<e>> /\ LiveFlow \in Seq(Events) /\ <<e>> \in Seq(Events)
      BY <2>3, <2>5 DEF LiveFlow
    <3>2. Len(LiveFlow') > Len(LiveFlow) /\ SubSeq(LiveFlow', 1, Len(LiveFlow)) = LiveFlow
      BY <3>1, JoinedAt
    <3>3. Feed!Observe
      BY <1>1, <1>4, <2>3, <2>5, <3>2 DEF Feed!Observe, Feed!Grow, LiveFlow, running
    <3> QED
      BY <3>3 DEF Feed!Next
  <2>6. ASSUME running, ch # <<>>, UNCHANGED runErr,
               gathered' = Append(gathered, Head(ch)), ch' = Tail(ch)
        PROVE  Feed!Next
    <3>1. /\ LiveFlow' = LiveFlow /\ Len(gathered') = Len(gathered) + 1
          /\ Len(gathered) < Len(LiveFlow)
      BY <2>3, <2>6 DEF LiveFlow
    <3>2. Feed!Take
      BY <1>1, <1>4, <2>6, <3>1 DEF Feed!Take, LiveFlow, running
    <3> QED
      BY <3>2 DEF Feed!Next
  <2>7. CASE running /\ ~running' /\ UNCHANGED <<gathered, ch>>
    <3>1. Feed!End
      BY <1>1, <1>4, <2>7 DEF Feed!End
    <3> QED
      BY <3>1 DEF Feed!Next
  <2> QED
    BY <2>1, <2>2, <2>4, <2>5, <2>6, <2>7 DEF LiveStep
<1>5. CASE source # "ebpf"
  <2>1. LiveInv' /\ [Polling!Next]_procVars
    BY <1>2, <1>5, SensorsStepMaps
  <2>2. ProcMove
    <3>1. polls \in Nat
      <4>1. PICK S : delivered \in Seq(S) /\ queue \in Seq(S)
        BY DEF ProcInv
      <4>2. Len(delivered) \in Nat /\ Len(queue) \in Nat
        BY <4>1
      <4> QED
        BY <4>2 DEF ProcInv
    <3> QED
      BY <2>1, <3>1, ProcMoves
  <2>3. /\ ProcInv'
        /\ \/ UNCHANGED <<delivered, queue, ended>>
           \/ /\ ended = "" /\ UNCHANGED ended /\ ProcFlow' = ProcFlow
              /\ Len(delivered) < Len(ProcFlow) /\ Len(delivered') = Len(delivered) + 1
           \/ ended = "" /\ ended' # "" /\ UNCHANGED <<delivered, queue>>
           \/ /\ Len(ProcFlow') > Len(ProcFlow) /\ SubSeq(ProcFlow', 1, Len(ProcFlow)) = ProcFlow
              /\ Len(delivered) = Len(ProcFlow) /\ Len(delivered') = Len(delivered) + 1
              /\ ended = "" /\ UNCHANGED ended
    BY <2>2, ProcMoveKeeps
  <2> SUFFICES [Feed!Next]_(Feed!feedVars)
    BY <2>1, <2>3
  <2>4. CASE UNCHANGED <<delivered, queue, ended>>
    BY <1>1, <1>5, <2>4 DEF Feed!feedVars
  <2>5. CASE /\ ended = "" /\ UNCHANGED ended /\ ProcFlow' = ProcFlow
             /\ Len(delivered) < Len(ProcFlow) /\ Len(delivered') = Len(delivered) + 1
    <3>1. Feed!Take
      BY <1>1, <1>5, <2>5 DEF Feed!Take, ProcFlow
    <3> QED
      BY <3>1 DEF Feed!Next
  <2>6. CASE ended = "" /\ ended' # "" /\ UNCHANGED <<delivered, queue>>
    <3>1. Feed!End
      BY <1>1, <1>5, <2>6 DEF Feed!End
    <3> QED
      BY <3>1 DEF Feed!Next
  <2>7. CASE /\ Len(ProcFlow') > Len(ProcFlow) /\ SubSeq(ProcFlow', 1, Len(ProcFlow)) = ProcFlow
             /\ Len(delivered) = Len(ProcFlow) /\ Len(delivered') = Len(delivered) + 1
             /\ ended = "" /\ UNCHANGED ended
    <3>1. \A i \in DOMAIN ProcFlow' : ProcFlow'[i].seq = i
      BY <2>3 DEF ProcInv
    <3>2. Feed!ObserveAndTake
      BY <1>1, <1>5, <2>7, <3>1 DEF Feed!ObserveAndTake, Feed!Grow, ProcFlow
    <3> QED
      BY <3>2 DEF Feed!Next
  <2> QED
    BY <2>3, <2>4, <2>5, <2>6, <2>7
<1> QED
  BY <1>4, <1>5

\* Whichever source runs, what it observed is taken in order, numbered without a
\* gap, and never taken back, and nothing follows the end of the stream
\* (ebpf_linux.go:147-223, procparse.go:305-374).
THEOREM SourcesKeepContract == SensorsSpec => Feed!Safety
BY StreamStarts, StreamKept, PTL DEF SensorsSpec, Feed!Safety, sensorsVars

\* A connection follows the exec of the very process in the stream, for any number
\* of processes, executables, execs and polls, whatever a snapshot misses
\* (procparse.go:305-364).
THEOREM ConnectionsFollowExecs == SensorsSpec => []ConnectionFollowsExec
<1>1. StreamInv => ConnectionFollowsExec
  BY Zenon DEF StreamInv, ProcInv, FlowChained, ProcFlow, asProcess, ConnectionFollowsExec,
               Polling!ConnectionFollowsExec
<1> QED
  BY StreamStarts, StreamKept, <1>1, PTL DEF SensorsSpec, sensorsVars

(***************************************************************************)
(* Attribution.  The invariant says what the two caches know of each       *)
(* other: every answer given is still in the cache by cgroup, and what     *)
(* that cache says of a container is what the cache by container says,     *)
(* learned while the container had the cgroup.                             *)
(***************************************************************************)
Infos == [id : Containers \cup {Host, Nobody}, detail : {"full", "id", ""}]
Answers == [cgroup : Cgroups, info : Infos]

AttributionTypes ==
  /\ owner \in [Cgroups -> Containers \cup {Host, Nobody}]
  /\ unread \in Seq(Cgroups)
  /\ attributed \in Seq(Answers)

OwnerInv == \A c \in Cgroups : owner[c] # Nobody => <<c, owner[c]>> \in owners

ResolverInv ==
  \A k \in DOMAIN resolverCache : resolverCache[k] \in Infos /\ resolverCache[k].id = k

CgroupInv ==
  \A c \in DOMAIN cgroupCache :
    LET info == cgroupCache[c] IN
    /\ info \in Infos
    /\ info.id # Nobody => /\ info.id \in DOMAIN resolverCache
                           /\ info = resolverCache[info.id]
                           /\ <<c, info.id>> \in owners

AnswerInv ==
  \A i \in DOMAIN attributed :
    LET e == attributed[i] IN e.cgroup \in DOMAIN cgroupCache /\ e.info = cgroupCache[e.cgroup]

AttributionInv == AttributionTypes /\ OwnerInv /\ ResolverInv /\ CgroupInv /\ AnswerInv

\* The events after one more is attributed are the earlier ones and that one.
LEMMA AnswersGrow ==
  ASSUME NEW s \in Seq(Answers), NEW e \in Answers,
         NEW i \in DOMAIN Append(s, e)
  PROVE  \/ i \in DOMAIN s /\ Append(s, e)[i] = s[i]
         \/ Append(s, e)[i] = e
OBVIOUS

\* Before the first event nothing is cached and nobody owns a cgroup.
LEMMA AttributionStarts == AttributionInit => AttributionInv
BY DEF AttributionInit, AttributionInv, AttributionTypes, OwnerInv, ResolverInv, CgroupInv, AnswerInv

\* An answer that is in the cache of cgroups extends the answers.
LEMMA AnswerKept ==
  ASSUME AttributionInv, NEW c \in Cgroups, NEW info \in Infos,
         attributed' = Append(attributed, [cgroup |-> c, info |-> info]),
         c \in DOMAIN cgroupCache', cgroupCache'[c] = info,
         \A k \in DOMAIN cgroupCache : k \in DOMAIN cgroupCache' /\ cgroupCache'[k] = cgroupCache[k]
  PROVE  AnswerInv' /\ attributed' \in Seq(Answers)
<1> DEFINE e == [cgroup |-> c, info |-> info]
<1>1. e \in Answers /\ attributed \in Seq(Answers)
  BY DEF Answers, AttributionInv, AttributionTypes
<1>2. ASSUME NEW i \in DOMAIN attributed'
      PROVE  /\ attributed'[i].cgroup \in DOMAIN cgroupCache'
             /\ attributed'[i].info = cgroupCache'[attributed'[i].cgroup]
  <2>1. (i \in DOMAIN attributed /\ attributed'[i] = attributed[i]) \/ attributed'[i] = e
    BY <1>1, AnswersGrow
  <2>2. CASE i \in DOMAIN attributed /\ attributed'[i] = attributed[i]
    BY <2>2 DEF AttributionInv, AnswerInv
  <2>3. CASE attributed'[i] = e
    BY <2>3
  <2> QED
    BY <2>1, <2>2, <2>3
<1> QED
  BY <1>1, <1>2 DEF AnswerInv

\* Every step keeps the invariant: a cgroup that comes or goes leaves the caches
\* alone, and a lookup reads them or adds what they do not hold.
LEMMA AttributionKept ==
  AttributionInv /\ [AttributionNext]_attributionVars => AttributionInv'
<1> SUFFICES ASSUME AttributionInv, [AttributionNext]_attributionVars
             PROVE  AttributionInv'
  OBVIOUS
<1> USE DEF AttributionInv
<1>1. ASSUME NEW c \in Cgroups, NEW who \in Containers \cup {Host}, Start(c, who)
      PROVE  AttributionInv'
  BY <1>1 DEF Start, AttributionTypes, OwnerInv, ResolverInv, CgroupInv, AnswerInv
<1>2. ASSUME NEW c \in Cgroups, Remove(c) PROVE AttributionInv'
  BY <1>2 DEF Remove, AttributionTypes, OwnerInv, ResolverInv, CgroupInv, AnswerInv
<1>3. ASSUME NEW c \in Cgroups, Emit(c) PROVE AttributionInv'
  BY <1>3 DEF Emit, AttributionTypes, OwnerInv, ResolverInv, CgroupInv, AnswerInv
<1>4. ASSUME Lookup PROVE AttributionInv'
  <2> DEFINE c == Head(unread)
             found == owner[c]
  <2>1. c \in Cgroups /\ unread' \in Seq(Cgroups) /\ UNCHANGED <<owner, owners>>
    BY <1>4 DEF Lookup, AttributionTypes
  <2>2. found \in Containers \cup {Host, Nobody}
    BY <2>1 DEF AttributionTypes
  <2>3. OwnerInv'
    BY <2>1 DEF OwnerInv
  <2>4. CASE /\ c \in DOMAIN cgroupCache
             /\ attributed' = Append(attributed, [cgroup |-> c, info |-> cgroupCache[c]])
             /\ UNCHANGED <<cgroupCache, resolverCache>>
    <3>1. cgroupCache[c] \in Infos
      BY <2>4 DEF CgroupInv
    <3>2. AnswerInv' /\ attributed' \in Seq(Answers)
      BY <2>1, <2>4, <3>1, AnswerKept
    <3> QED
      BY <2>1, <2>3, <2>4, <3>2 DEF AttributionTypes, ResolverInv, CgroupInv
  <2>5. ASSUME NEW info \in Infos, c \notin DOMAIN cgroupCache,
               cgroupCache' = put(cgroupCache, c, info),
               attributed' = Append(attributed, [cgroup |-> c, info |-> info]),
               ResolverInv',
               \A k \in DOMAIN resolverCache :
                 k \in DOMAIN resolverCache' /\ resolverCache'[k] = resolverCache[k],
               info.id # Nobody => /\ info.id \in DOMAIN resolverCache'
                                   /\ info = resolverCache'[info.id]
                                   /\ <<c, info.id>> \in owners
        PROVE  AttributionInv'
    <3>1. /\ DOMAIN cgroupCache' = DOMAIN cgroupCache \cup {c}
          /\ cgroupCache'[c] = info
          /\ \A k \in DOMAIN cgroupCache : cgroupCache'[k] = cgroupCache[k]
      BY <2>5 DEF put
    <3>2. AnswerInv' /\ attributed' \in Seq(Answers)
      BY <2>1, <2>5, <3>1, AnswerKept
    <3>3. CgroupInv'
      BY <2>1, <2>5, <3>1 DEF CgroupInv
    <3> QED
      BY <2>1, <2>3, <2>5, <3>2, <3>3 DEF AttributionTypes
  <2>6. CASE /\ c \notin DOMAIN cgroupCache
             /\ cgroupCache' = put(cgroupCache, c, Nothing)
             /\ attributed' = Append(attributed, [cgroup |-> c, info |-> Nothing])
             /\ UNCHANGED resolverCache
    <3>1. Nothing \in Infos /\ Nothing.id = Nobody
      BY DEF Nothing, Infos
    <3>2. ResolverInv'
      BY <2>6 DEF ResolverInv
    <3> QED
      BY <2>5, <2>6, <3>1, <3>2
  <2>7. CASE /\ c \notin DOMAIN cgroupCache /\ found \in DOMAIN resolverCache
             /\ cgroupCache' = put(cgroupCache, c, resolverCache[found])
             /\ attributed' = Append(attributed, [cgroup |-> c, info |-> resolverCache[found]])
             /\ UNCHANGED resolverCache
    <3>1. resolverCache[found] \in Infos /\ resolverCache[found].id = found
      BY <2>7 DEF ResolverInv
    <3>2. found # Nobody => <<c, found>> \in owners
      BY <2>1 DEF OwnerInv
    <3>3. ResolverInv'
      BY <2>7 DEF ResolverInv
    <3> QED
      BY <2>5, <2>7, <3>1, <3>2, <3>3
  <2>8. ASSUME c \notin DOMAIN cgroupCache, found \in Containers \ DOMAIN resolverCache,
               NEW info \in inspected(found),
               cgroupCache' = put(cgroupCache, c, info),
               attributed' = Append(attributed, [cgroup |-> c, info |-> info]),
               resolverCache' = remembered(resolverCache, found, info)
        PROVE  AttributionInv'
    <3>1. info \in Infos /\ info.id = found
      <4>1. PICK d \in {"full", "id"} : info = [id |-> found, detail |-> d]
        BY <2>8 DEF inspected
      <4> QED
        BY <2>2, <4>1 DEF Infos
    <3>2. /\ DOMAIN resolverCache' = DOMAIN resolverCache \cup {found}
          /\ resolverCache'[found] = info
          /\ \A k \in DOMAIN resolverCache : resolverCache'[k] = resolverCache[k]
      BY <2>8 DEF remembered, put
    <3>3. ResolverInv'
      BY <3>1, <3>2 DEF ResolverInv
    <3>4. found # Nobody => <<c, found>> \in owners
      BY <2>1 DEF OwnerInv
    <3> QED
      BY <2>5, <2>8, <3>1, <3>2, <3>3, <3>4
  <2> QED
    BY <1>4, <2>4, <2>6, <2>7, <2>8 DEF Lookup
<1>5. CASE UNCHANGED attributionVars
  BY <1>5 DEF attributionVars, AttributionTypes, OwnerInv, ResolverInv, CgroupInv, AnswerInv
<1> QED
  BY <1>1, <1>2, <1>3, <1>4, <1>5 DEF AttributionNext

\* Events of one cgroup, and of one container, are attributed alike for the life
\* of the sensor, and to nobody who never had the cgroup, for any number of
\* cgroups, containers and events (ebpf_linux.go:249-264, runtimeevents.go:137-156).
THEOREM AttributionSteady == SensorsSpec => []AttributionIsSteady
<1>0. SensorsInit => AttributionInv
  BY AttributionStarts DEF SensorsInit
<1>1. AttributionInv => AttributionIsSteady
  <2> SUFFICES ASSUME AttributionInv, NEW i \in DOMAIN attributed, NEW j \in DOMAIN attributed
               PROVE  LET e == attributed[i]  f == attributed[j] IN
                      /\ e.cgroup = f.cgroup \/ (e.info.id = f.info.id /\ e.info.id # Nobody)
                           => e.info = f.info
                      /\ e.info.id # Nobody => <<e.cgroup, e.info.id>> \in owners
    BY DEF AttributionIsSteady
  <2>1. \A k \in DOMAIN attributed :
          /\ attributed[k].info = cgroupCache[attributed[k].cgroup]
          /\ attributed[k].info.id # Nobody =>
               /\ attributed[k].info = resolverCache[attributed[k].info.id]
               /\ <<attributed[k].cgroup, attributed[k].info.id>> \in owners
    BY DEF AttributionInv, CgroupInv, AnswerInv
  <2> QED
    BY <2>1
<1>2. AttributionInv /\ [SensorsNext]_sensorsVars => AttributionInv'
  BY SensorsStepMaps, AttributionKept
<1> QED
  BY <1>0, <1>1, <1>2, PTL DEF SensorsSpec, sensorsVars
=============================================================================
