------------------------- MODULE RuntimeDaemonProofs -------------------------
(***************************************************************************)
(* What RuntimeDaemon guarantees for every catalogue of events, window     *)
(* size, exception set, policy and set of sinks.                           *)
(***************************************************************************)
EXTENDS RuntimeDaemon, SequenceTheorems, FiniteSetTheorems, TLAPS

(***************************************************************************)
(* Lemmas about the rules.                                                 *)
(***************************************************************************)

\* Plan always names one of the three kinds of action.
LEMMA PlanKind ==
    ASSUME NEW r, NEW o
    PROVE  Plan(Policy, r, o) \in {"alert", "kill", "quarantine"}
BY DEF Plan

\* The ring's capacity is a positive number, also when none is configured.
LEMMA SizePositive == Size \in Nat /\ Size > 0
BY DaemonAssumption DEF Size

\* The loop's severity gate: a destructive plan needs an armed policy and a
\* detection at or above the kill severity, and escapes are never killed.
LEMMA PlanGated ==
    ASSUME NEW r \in Rules, NEW o, Plan(Policy, r, o) # "alert"
    PROVE  /\ armed(Policy)
           /\ ~(Severity(r, o) < Policy.killSeverity)
           /\ Plan(Policy, r, o) = "kill" => r \notin {"RT003", "RT008"}
BY DEF Plan

(***************************************************************************)
(* Type correctness.                                                       *)
(***************************************************************************)
LEMMA PushType ==
    ASSUME NEW r \in [buf : Seq(Event), n : Nat], NEW ev \in Event
    PROVE  push(r, ev) \in [buf : Seq(Event), n : Nat]
<1>1. CASE Len(r.buf) < Size
  BY <1>1 DEF push
<1>2. CASE ~(Len(r.buf) < Size)
  <2> DEFINE slot == (r.n % Size) + 1
  <2>1. slot \in 1..Size
    BY SizePositive
  <2>2. slot \in 1..Len(r.buf)
    BY <1>2, <2>1, SizePositive
  <2>3. [r.buf EXCEPT ![slot] = ev] \in Seq(Event)
    BY <2>2, ExceptSeq
  <2>4. QED
    BY <1>2, <2>3 DEF push
<1>3. QED
  BY <1>1, <1>2

(***************************************************************************)
(* Arithmetic of the ring's index.                                         *)
(***************************************************************************)

\* Two different pushes less than a window apart use different slots.
LEMMA SlotsDistinct ==
    ASSUME NEW s \in Nat, s > 0, NEW a \in Nat, NEW b \in Nat, a < b, b - a < s
    PROVE  a % s # b % s
<1>1. /\ a = s * (a \div s) + (a % s) /\ b = s * (b \div s) + (b % s)
      /\ a \div s \in Int /\ b \div s \in Int
  OBVIOUS
<1>2. SUFFICES ASSUME a % s = b % s PROVE FALSE
  OBVIOUS
<1> DEFINE q == (b \div s) - (a \div s)
<1>3. q \in Int /\ b - a = s * q
  BY <1>1, <1>2
<1>4. CASE q <= 0
  BY <1>3, <1>4
<1>5. CASE q >= 1
  BY <1>3, <1>5
<1>6. QED
  BY <1>3, <1>4, <1>5

\* Going once round the ring leads back to the same slot.
LEMMA SlotPeriod ==
    ASSUME NEW s \in Nat, s > 0, NEW a \in Nat
    PROVE  (a + s) % s = a % s
<1> DEFINE q == ((a + s) \div s) - (a \div s) - 1
           d == (a % s) - ((a + s) % s)
<1>1. /\ a = s * (a \div s) + (a % s) /\ a \div s \in Int /\ a % s \in 0..(s - 1)
      /\ a + s = s * ((a + s) \div s) + ((a + s) % s)
      /\ (a + s) \div s \in Int /\ (a + s) % s \in 0..(s - 1)
  OBVIOUS
<1>2. q \in Int /\ d \in Int /\ d = s * q /\ -s < d /\ d < s
  BY <1>1
<1>3. CASE q <= -1
  BY <1>2, <1>3
<1>4. CASE q >= 1
  BY <1>2, <1>4
<1>5. CASE q = 0
  BY <1>1, <1>2, <1>5
<1>6. QED
  BY <1>2, <1>3, <1>4, <1>5

\* Below the window size the slot is the count itself.
LEMMA SlotSmall ==
    ASSUME NEW s \in Nat, NEW a \in Nat, a < s
    PROVE  a % s = a
OBVIOUS

LEMMA SliceType ==
    ASSUME NEW r \in [buf : Seq(Event), n : Nat]
    PROVE  slice(r) \in Seq(Event)
<1>1. CASE Len(r.buf) < Size
  BY <1>1 DEF slice
<1>2. CASE ~(Len(r.buf) < Size)
  <2>1. ASSUME NEW i \in 1..Size
        PROVE  r.buf[((r.n + i - 1) % Size) + 1] \in Event
    <3>1. r.n + i - 1 \in Nat
      BY <2>1, SizePositive
    <3>2. ((r.n + i - 1) % Size) + 1 \in 1..Len(r.buf)
      BY <1>2, <3>1, SizePositive
    <3>3. QED
      BY <3>2, ElementOfSeq
  <2>2. [i \in 1..Size |-> r.buf[((r.n + i - 1) % Size) + 1]] \in Seq(Event)
    BY <2>1, SizePositive, IsASeq
  <2>3. QED
    BY <1>2, <2>2 DEF slice
<1>3. QED
  BY <1>1, <1>2

\* Only a received event touches the ring, and it arrives well typed.
LEMMA ReceiveEvent ==
    ASSUME TypeOK, NEW o \in Catalog, NEW q \in {lastSeq, lastSeq + 1}, Receive(o, q)
    PROVE  \E ev \in Event : /\ ev.obs = o
                             /\ seen' = Append(seen, ev) /\ ring' = push(ring, ev)
<1> DEFINE ev == [seq |-> q, obs |-> o,
                  life |-> IF o.pid = 0 THEN 0 ELSE host[o.pid].life]
<1>1. lastSeq \in Nat
  <2>1. CASE seen = <<>>
    BY <2>1 DEF lastSeq
  <2>2. CASE seen # <<>>
    <3>1. Len(seen) \in 1..Len(seen) /\ seen \in Seq(Event)
      BY <2>2, EmptySeq DEF TypeOK
    <3>2. seen[Len(seen)] \in Event
      BY <3>1, ElementOfSeq
    <3>3. QED
      BY <2>2, <3>2 DEF lastSeq, Event
  <2>3. QED
    BY <2>1, <2>2
<1>2. ev \in Event
  BY <1>1, DaemonAssumption DEF Event, TypeOK
<1>3. seen' = Append(seen, ev) /\ ring' = push(ring, ev)
  BY DEF Receive
<1>4. QED
  BY <1>2, <1>3

\* Every variable keeps its type, whatever the source delivers, sinks and
\* forensics fail at and the host's processes do.
THEOREM TypeCorrect == Spec => []TypeOK
<1>1. Init => TypeOK
  BY DEF Init, TypeOK, newEventRing
<1>2. ASSUME TypeOK, [Next]_vars PROVE TypeOK'
  <2> USE <1>2 DEF TypeOK
  <2>1. ASSUME NEW o \in Catalog, NEW q \in {lastSeq, lastSeq + 1}, Receive(o, q)
        PROVE  TypeOK'
    <3>1. PICK ev \in Event : seen' = Append(seen, ev) /\ ring' = push(ring, ev)
      BY <2>1, ReceiveEvent
    <3>2. seen' \in Seq(Event) /\ ring' \in [buf : Seq(Event), n : Nat]
      BY <3>1, PushType, AppendProperties
    <3>3. pending' \subseteq Rules
      BY <2>1 DEF Receive, Process
    <3>4. QED
      BY <2>1, <3>2, <3>3 DEF Receive, outVars
  <2>2. ASSUME NEW r \in Rules, Suppress(r) PROVE TypeOK'
    BY <2>2 DEF Suppress, outVars
  <2>3. ASSUME NEW r \in Rules, Handle(r) PROVE TypeOK'
    <3>1. PICK w \in evidence :
             records' = Append(records, [at |-> Len(seen), rule |-> r,
                                action |-> Plan(Policy, r, last.obs), window |-> w])
      BY <2>3 DEF Handle
    <3>2. w \in Seq(Event)
      BY SliceType, EmptySeq DEF evidence
    <3>3. records' \in Seq(Record)
      BY <3>1, <3>2, PlanKind, AppendProperties DEF Record
    <3>4. host' \in [Pids -> [life : Nat, alive : BOOLEAN]]
      <4>1. Do(Plan(Policy, r, last.obs), last.obs)
        BY <2>3 DEF Handle
      <4>2. \/ UNCHANGED host
            \/ host' = [host EXCEPT ![last.obs.pid].alive = FALSE]
        <5>1. CASE UNCHANGED host
          BY <5>1
        <5>2. CASE kill(last.obs.pid)
          BY <5>2 DEF kill, NoEffect
        <5>3. QED
          BY <4>1, <5>1, <5>2 DEF Do, quarantine, NoEffect
      <4>3. ASSUME host' = [host EXCEPT ![last.obs.pid].alive = FALSE]
            PROVE  host' \in [Pids -> [life : Nat, alive : BOOLEAN]]
        BY <4>3
      <4>4. QED
        BY <4>2, <4>3
    <3>5. PICK good \in SUBSET Sinks :
             /\ sinkLog' = [s \in Sinks |->
                   IF s \in good \cap attempted(good)
                   THEN Append(sinkLog[s], <<Len(seen), r>>) ELSE sinkLog[s]]
             /\ sinkFailed' = sinkFailed \cup (attempted(good) \ good)
      BY <2>3 DEF Handle, Emit
    <3>6. sinkLog' \in [Sinks -> Seq(Nat \X Rules)] /\ sinkFailed' \subseteq Sinks
      BY <3>5 DEF attempted
    <3>7. QED
      BY <2>3, <3>3, <3>4, <3>6 DEF Handle
  <2>4. ASSUME NEW outcome \in {"eof", "error"}, Return(outcome) PROVE TypeOK'
    BY <2>4 DEF Return, outVars
  <2>5. ASSUME NEW p \in Pids, Exit(p) \/ Spawn(p) PROVE TypeOK'
    <3>1. host' \in [Pids -> [life : Nat, alive : BOOLEAN]]
      <4>1. CASE Exit(p)
        BY <4>1 DEF Exit
      <4>2. CASE Spawn(p)
        <5>1. [life |-> host[p].life + 1, alive |-> TRUE] \in [life : Nat, alive : BOOLEAN]
          OBVIOUS
        <5>2. QED
          BY <4>2, <5>1 DEF Spawn
      <4>3. QED
        BY <2>5, <4>1, <4>2
    <3>2. QED
      BY <2>5, <3>1 DEF Exit, Spawn, loopVars, outVars
  <2>6. CASE UNCHANGED vars
    BY <2>6 DEF vars, loopVars, outVars
  <2>7. QED
    BY <2>1, <2>2, <2>3, <2>4, <2>5, <2>6
    DEF Next, Deliver, Settle, Finish, HostStep, Done
<1>3. QED
  BY <1>1, <1>2, PTL DEF Spec

(***************************************************************************)
(* The recent-event window.  The invariant says where each recent event    *)
(* lies in the buffer; the slice in age order follows from it.             *)
(***************************************************************************)
RingInv ==
    /\ ring.n = Len(seen)
    /\ Len(ring.buf) = IF Len(seen) < Size THEN Len(seen) ELSE Size
    /\ \A j \in 1..Len(seen) :
          Len(seen) - Size < j => ring.buf[((j - 1) % Size) + 1] = seen[j]

\* A push keeps every event of the new window in its slot.
LEMMA PushKeepsRing ==
    ASSUME TypeOK, RingInv, NEW ev \in Event,
           seen' = Append(seen, ev), ring' = push(ring, ev)
    PROVE  RingInv'
<1> DEFINE n == Len(seen)
           slot == (n % Size) + 1
<1>1. /\ n \in Nat /\ ring.n = n /\ ring.buf \in Seq(Event) /\ seen \in Seq(Event)
      /\ Size \in Nat /\ Size > 0
  BY SizePositive DEF TypeOK, RingInv
<1>2. Len(seen') = n + 1 /\ seen'[n + 1] = ev /\ \A j \in 1..n : seen'[j] = seen[j]
  BY <1>1, AppendProperties
<1>3. ring'.n = n + 1
  BY <1>1 DEF push
<1>4. CASE n < Size
  <2>1. ring'.buf = Append(ring.buf, ev) /\ Len(ring.buf) = n
    BY <1>1, <1>4 DEF push, RingInv
  <2>2. /\ Len(ring'.buf) = n + 1 /\ ring'.buf[n + 1] = ev
        /\ \A i \in 1..n : ring'.buf[i] = ring.buf[i]
    BY <1>1, <2>1, AppendProperties
  <2>3. ASSUME NEW j \in 1..(n + 1) PROVE ring'.buf[((j - 1) % Size) + 1] = seen'[j]
    <3>1. ((j - 1) % Size) + 1 = j
      <4>1. j - 1 \in Nat /\ j - 1 < Size
        BY <1>1, <1>4
      <4>2. (j - 1) % Size = j - 1
        BY <4>1, <1>1, SlotSmall
      <4>3. QED
        BY <4>1, <4>2
    <3>2. CASE j = n + 1
      BY <3>1, <3>2, <2>2, <1>2
    <3>3. CASE j \in 1..n
      <4>1. ring.buf[((j - 1) % Size) + 1] = seen[j]
        BY <3>3, <1>1, <1>4 DEF RingInv
      <4>2. QED
        BY <4>1, <3>1, <3>3, <2>2, <1>2
    <3>4. QED
      BY <3>2, <3>3, <1>1
  <2>4. QED
    BY <1>1, <1>2, <1>3, <1>4, <2>2, <2>3 DEF RingInv
<1>5. CASE ~(n < Size)
  <2>1. Len(ring.buf) = Size /\ slot \in 1..Size
    BY <1>1, <1>5 DEF RingInv
  <2>2. ring'.buf = [ring.buf EXCEPT ![slot] = ev]
    BY <1>1, <2>1 DEF push
  <2>3. Len(ring'.buf) = Size /\ ring'.buf[slot] = ev
        /\ \A i \in 1..Size : i # slot => ring'.buf[i] = ring.buf[i]
    BY <1>1, <2>1, <2>2, ExceptSeq
  <2>4. ASSUME NEW j \in 1..(n + 1), n + 1 - Size < j
        PROVE  ring'.buf[((j - 1) % Size) + 1] = seen'[j]
    <3>1. CASE j = n + 1
      BY <3>1, <2>3, <1>2, <1>1
    <3>2. CASE j \in 1..n
      <4>1. j - 1 \in Nat /\ j - 1 < n /\ n - (j - 1) < Size
        BY <3>2, <2>4, <1>1
      <4>2. (j - 1) % Size # n % Size
        BY <4>1, <1>1, SlotsDistinct
      <4>3. ((j - 1) % Size) + 1 \in 1..Size /\ ((j - 1) % Size) + 1 # slot
        BY <4>1, <4>2, <1>1
      <4>4. ring.buf[((j - 1) % Size) + 1] = seen[j]
        BY <3>2, <2>4, <1>1 DEF RingInv
      <4>5. QED
        BY <4>3, <4>4, <2>3, <1>2, <3>2
    <3>3. QED
      BY <3>1, <3>2, <1>1
  <2>5. Len(ring'.buf) = IF Len(seen') < Size THEN Len(seen') ELSE Size
    BY <1>1, <1>2, <1>5, <2>3
  <2>6. \A j \in 1..Len(seen') :
           Len(seen') - Size < j => ring'.buf[((j - 1) % Size) + 1] = seen'[j]
    BY <1>1, <1>2, <2>4, SMTT(30)
  <2>7. QED
    BY <1>2, <1>3, <2>5, <2>6 DEF RingInv
<1>6. QED
  BY <1>4, <1>5

\* Read in age order, the ring is the window of most recent events.
LEMMA RingSlice ==
    ASSUME TypeOK, RingInv
    PROVE  RingHoldsRecentWindow
<1> DEFINE n == Len(seen)
<1>1. /\ n \in Nat /\ ring.n = n /\ ring.buf \in Seq(Event) /\ seen \in Seq(Event)
      /\ Size \in Nat /\ Size > 0
  BY SizePositive DEF TypeOK, RingInv
<1>2. CASE n < Size
  <2>1. Len(ring.buf) = n /\ slice(ring) = ring.buf
    BY <1>1, <1>2 DEF slice, RingInv
  <2>2. ASSUME NEW i \in 1..n PROVE ring.buf[i] = seen[n - n + i]
    <3>1. ((i - 1) % Size) + 1 = i
      <4>1. i - 1 \in Nat /\ i - 1 < Size
        BY <1>1, <1>2
      <4>2. (i - 1) % Size = i - 1
        BY <4>1, <1>1, SlotSmall
      <4>3. QED
        BY <4>1, <4>2
    <3>2. QED
      BY <3>1, <1>1, <1>2 DEF RingInv
  <2>3. ring.buf = [i \in 1..n |-> seen[n - n + i]]
    BY <2>1, <2>2, <1>1
  <2>4. QED
    BY <2>1, <2>3, <1>2 DEF RingHoldsRecentWindow, recent
<1>3. CASE ~(n < Size)
  <2>1. slice(ring) = [i \in 1..Size |-> ring.buf[((n + i - 1) % Size) + 1]]
    BY <1>1, <1>3 DEF slice, RingInv
  <2>2. ASSUME NEW i \in 1..Size
        PROVE  ring.buf[((n + i - 1) % Size) + 1] = seen[n - Size + i]
    <3>1. n - Size + i - 1 \in Nat /\ n + i - 1 = (n - Size + i - 1) + Size
      BY <1>1, <1>3
    <3>2. (n + i - 1) % Size = (n - Size + i - 1) % Size
      BY <3>1, <1>1, SlotPeriod
    <3>3. n - Size + i \in 1..n /\ n - Size < n - Size + i
      BY <1>1, <1>3
    <3>4. ring.buf[((n - Size + i - 1) % Size) + 1] = seen[n - Size + i]
      BY <3>3, <1>1 DEF RingInv
    <3>5. QED
      BY <3>2, <3>4
  <2>3. QED
    BY <2>1, <2>2, <1>3 DEF RingHoldsRecentWindow, recent
<1>4. QED
  BY <1>2, <1>3

\* Through every wrap of the ring, the window sealed with a detection is the
\* recent history of the stream.
THEOREM RingCorrect == Spec => []RingHoldsRecentWindow
<1>1. Init => RingInv
  BY SizePositive DEF Init, newEventRing, RingInv
<1>2. ASSUME TypeOK, RingInv, [Next]_vars PROVE RingInv'
  <2>1. ASSUME NEW o \in Catalog, NEW q \in {lastSeq, lastSeq + 1}, Receive(o, q)
        PROVE  RingInv'
    BY <1>2, <2>1, ReceiveEvent, PushKeepsRing
  <2>2. CASE UNCHANGED <<seen, ring>>
    BY <1>2, <2>2 DEF RingInv
  <2>3. QED
    BY <1>2, <2>1, <2>2
    DEF Next, Deliver, Settle, Finish, HostStep, Done, Suppress, Handle, Return, Exit,
        Spawn, vars, loopVars
<1>3. QED
  BY <1>1, <1>2, TypeCorrect, RingSlice, PTL DEF Spec

(***************************************************************************)
(* Detections are settled once.  A detection is named by the event that    *)
(* raised it and its rule; the invariant keeps settled and owed apart.     *)
(***************************************************************************)
LedgerInv ==
    /\ pending # {} => Len(seen) \in 1..MaxEvents /\ status = "running"
    /\ Len(seen) <= MaxEvents
    /\ \A k \in DOMAIN records :
          /\ records[k].at \in 1..Len(seen)
          /\ <<records[k].at, records[k].rule>> \notin suppressed
          /\ records[k].at = Len(seen) => records[k].rule \notin pending
    /\ \A d \in suppressed : d[1] \in 1..Len(seen)
    /\ \A r \in pending : <<Len(seen), r>> \notin suppressed
    /\ \A j, k \in DOMAIN records :
          records[j].at = records[k].at /\ records[j].rule = records[k].rule => j = k

\* The effect of settling a detection by a record, and by an exception.
LEMMA HandleStep ==
    ASSUME TypeOK, NEW r \in Rules, Handle(r)
    PROVE  /\ r \in pending /\ pending' = pending \ {r}
           /\ Len(records') = Len(records) + 1
           /\ records'[Len(records) + 1].at = Len(seen)
           /\ records'[Len(records) + 1].rule = r
           /\ \A k \in 1..Len(records) : records'[k] = records[k]
           /\ UNCHANGED <<seen, st, suppressed, status>>
<1>1. PICK w : records' = Append(records, [at |-> Len(seen), rule |-> r,
                              action |-> Plan(Policy, r, last.obs), window |-> w])
  BY DEF Handle
<1>2. records \in Seq(Record)
  BY DEF TypeOK
<1>3. QED
  BY <1>1, <1>2 DEF Handle, nextDetection

LEMMA SuppressStep ==
    ASSUME NEW r \in Rules, Suppress(r)
    PROVE  /\ r \in pending /\ pending' = pending \ {r}
           /\ Suppressed(Exceptions, r, last.obs)
           /\ suppressed' = suppressed \cup {<<Len(seen), r>>}
           /\ UNCHANGED <<seen, st, records, status>>
BY DEF Suppress, nextDetection

LEMMA LedgerInvStep ==
    ASSUME TypeOK, LedgerInv, [Next]_vars
    PROVE  LedgerInv'
<1>0. /\ seen \in Seq(Event) /\ records \in Seq(Record) /\ Len(seen) \in Nat
      /\ DOMAIN records = 1..Len(records) /\ Len(records) \in Nat /\ MaxEvents \in Nat
      /\ suppressed \subseteq Nat \X Rules
  BY DaemonAssumption DEF TypeOK
<1>1. ASSUME NEW o \in Catalog, NEW q \in {lastSeq, lastSeq + 1}, Receive(o, q)
      PROVE  LedgerInv'
  <2>1. /\ Len(seen') = Len(seen) + 1 /\ Len(seen) < MaxEvents /\ status = "running"
        /\ UNCHANGED <<records, suppressed, status>>
    BY <1>0, <1>1 DEF Receive
  <2>2. ASSUME NEW i \in 1..Len(seen)
        PROVE  i \in 1..Len(seen') /\ i # Len(seen')
    BY <1>0, <2>1
  <2>3. \A d \in suppressed : d[1] # Len(seen')
    BY <2>2 DEF LedgerInv
  <2>4. \A r \in pending' : <<Len(seen'), r>> \notin suppressed
    BY <2>3
  <2>5. \A k \in DOMAIN records :
           records[k].at \in 1..Len(seen') /\ records[k].at # Len(seen')
    BY <2>2 DEF LedgerInv
  <2>6. \A d \in suppressed : d[1] \in 1..Len(seen')
    BY <2>2 DEF LedgerInv
  <2>7. Len(seen') \in 1..MaxEvents /\ Len(seen') <= MaxEvents
    BY <1>0, <2>1
  <2>8. QED
    BY <2>1, <2>4, <2>5, <2>6, <2>7 DEF LedgerInv
<1>2. ASSUME NEW r \in Rules, Suppress(r) PROVE LedgerInv'
  BY <1>0, <1>2, SuppressStep, SMTT(30) DEF LedgerInv
<1>3. ASSUME NEW r \in Rules, Handle(r) PROVE LedgerInv'
  <2>1. TypeOK
    OBVIOUS
  <2>2. /\ r \in pending /\ pending' = pending \ {r}
        /\ Len(records') = Len(records) + 1
        /\ records'[Len(records) + 1].at = Len(seen)
        /\ records'[Len(records) + 1].rule = r
        /\ \A k \in 1..Len(records) : records'[k] = records[k]
        /\ UNCHANGED <<seen, suppressed, status>>
    BY <1>3, <2>1, HandleStep
  <2>3. DOMAIN records' = 1..(Len(records) + 1)
    <3>1. PICK w : records' = Append(records, [at |-> Len(seen), rule |-> r,
                              action |-> Plan(Policy, r, last.obs), window |-> w])
      BY <1>3 DEF Handle
    <3>2. QED
      BY <3>1, <1>0
  <2>4. ASSUME NEW k \in DOMAIN records'
        PROVE  /\ records'[k].at \in 1..Len(seen')
               /\ <<records'[k].at, records'[k].rule>> \notin suppressed'
               /\ records'[k].at = Len(seen') => records'[k].rule \notin pending'
    <3>1. CASE k = Len(records) + 1
      BY <1>0, <2>2, <3>1 DEF LedgerInv
    <3>2. CASE k \in 1..Len(records)
      BY <1>0, <2>2, <3>2 DEF LedgerInv
    <3>3. QED
      BY <2>3, <2>4, <3>1, <3>2, <1>0
  <2>5. ASSUME NEW j \in DOMAIN records', NEW k \in DOMAIN records',
               records'[j].at = records'[k].at, records'[j].rule = records'[k].rule
        PROVE  j = k
    <3>1. CASE j \in 1..Len(records) /\ k \in 1..Len(records)
      BY <1>0, <2>2, <2>5, <3>1 DEF LedgerInv
    <3>2. CASE j = Len(records) + 1 /\ k \in 1..Len(records)
      BY <1>0, <2>2, <2>5, <3>2 DEF LedgerInv
    <3>3. CASE j \in 1..Len(records) /\ k = Len(records) + 1
      BY <1>0, <2>2, <2>5, <3>3 DEF LedgerInv
    <3>4. QED
      BY <2>3, <2>5, <3>1, <3>2, <3>3, <1>0
  <2>6. QED
    BY <1>0, <2>2, <2>4, <2>5 DEF LedgerInv
<1>4. ASSUME NEW outcome \in {"eof", "error"}, Return(outcome) PROVE LedgerInv'
  BY <1>4 DEF Return, LedgerInv
<1>5. CASE UNCHANGED loopVars
  BY <1>5 DEF loopVars, LedgerInv
<1>6. QED
  BY <1>1, <1>2, <1>3, <1>4, <1>5
  DEF Next, Deliver, Settle, Finish, HostStep, Done, Exit, Spawn, vars

LEMMA LedgerInvHolds == Spec => []LedgerInv
<1>1. Init => LedgerInv
  BY DaemonAssumption DEF Init, LedgerInv
<1>2. QED
  BY <1>1, LedgerInvStep, TypeCorrect, PTL DEF Spec

\* The window that ends with an event stays what it is as the stream goes on.
Window(s, n) == LET k == IF n < Size THEN n ELSE Size
                IN [i \in 1..k |-> s[n - k + i]]

LEMMA WindowStable ==
    ASSUME NEW s \in Seq(Event), NEW ev \in Event, NEW n \in 1..Len(s)
    PROVE  Window(Append(s, ev), n) = Window(s, n)
<1> DEFINE k == IF n < Size THEN n ELSE Size
<1>1. Size \in Nat /\ Size > 0 /\ Len(s) \in Nat
  BY SizePositive
<1>2. ASSUME NEW i \in 1..k PROVE Append(s, ev)[n - k + i] = s[n - k + i]
  <2>1. n - k + i \in 1..Len(s)
    BY <1>1
  <2> QED
    BY <2>1, AppendProperties
<1> QED
  BY <1>2 DEF Window

EvidenceIn(s, recs) ==
    \A k \in DOMAIN recs : recs[k].window # <<>> => recs[k].window = Window(s, recs[k].at)

LEMMA EvidenceForm == /\ EvidenceHoldsTrigger <=> EvidenceIn(seen, records)
                      /\ EvidenceHoldsTrigger' <=> EvidenceIn(seen', records')
<1>1. EvidenceHoldsTrigger <=> EvidenceIn(seen, records)
  BY DEF EvidenceHoldsTrigger, EvidenceIn, recent, Window
<1>2. EvidenceHoldsTrigger' <=> EvidenceIn(seen', records')
  BY DEF EvidenceHoldsTrigger, EvidenceIn, recent, Window, Size
<1> QED
  BY <1>1, <1>2

\* What is sealed with a detection is the history that led to it, its own event
\* last, and nothing that came later.
THEOREM EvidenceIsWindow == Spec => []EvidenceHoldsTrigger
<1>1. Init => EvidenceHoldsTrigger
  BY DEF Init, EvidenceHoldsTrigger
<1>2. ASSUME TypeOK, LedgerInv, RingHoldsRecentWindow, EvidenceHoldsTrigger, [Next]_vars
      PROVE  EvidenceHoldsTrigger'
  <2> SUFFICES EvidenceIn(seen', records')
    BY EvidenceForm
  <2>0. EvidenceIn(seen, records) /\ seen \in Seq(Event) /\ records \in Seq(Record)
    BY <1>2, EvidenceForm DEF TypeOK
  <2>1. ASSUME NEW o \in Catalog, NEW q \in {lastSeq, lastSeq + 1}, Receive(o, q)
        PROVE  EvidenceIn(seen', records')
    <3>1. PICK ev \in Event : seen' = Append(seen, ev)
      BY <1>2, <2>1, ReceiveEvent
    <3>2. UNCHANGED records
      BY <2>1 DEF Receive
    <3>3. \A k \in DOMAIN records : records[k].at \in 1..Len(seen)
      BY <1>2 DEF LedgerInv
    <3>4. \A k \in DOMAIN records : Window(seen', records[k].at) = Window(seen, records[k].at)
      BY <2>0, <3>1, <3>3, WindowStable
    <3> QED
      BY <2>0, <3>2, <3>4 DEF EvidenceIn
  <2>2. ASSUME NEW r \in Rules, Handle(r) PROVE EvidenceIn(seen', records')
    <3>1. PICK w \in evidence :
             records' = Append(records, [at |-> Len(seen), rule |-> r,
                              action |-> Plan(Policy, r, last.obs), window |-> w])
      BY <2>2 DEF Handle
    <3>2. w # <<>> => w = Window(seen, Len(seen))
      BY <1>2 DEF evidence, RingHoldsRecentWindow, recent, Window
    <3>3. UNCHANGED seen
      BY <2>2 DEF Handle
    <3>4. /\ Len(records) \in Nat /\ DOMAIN records = 1..Len(records)
          /\ DOMAIN records' = 1..(Len(records) + 1)
          /\ \A k \in 1..Len(records) : records'[k] = records[k]
          /\ records'[Len(records) + 1].at = Len(seen)
          /\ records'[Len(records) + 1].window = w
      BY <2>0, <3>1
    <3>5. ASSUME NEW k \in 1..(Len(records) + 1), records'[k].window # <<>>
          PROVE  records'[k].window = Window(seen, records'[k].at)
      <4>1. CASE k \in 1..Len(records)
        BY <2>0, <3>4, <3>5, <4>1 DEF EvidenceIn
      <4>2. CASE k = Len(records) + 1
        BY <3>2, <3>4, <3>5, <4>2
      <4> QED
        BY <3>4, <4>1, <4>2
    <3> QED
      BY <3>3, <3>4, <3>5 DEF EvidenceIn
  <2>3. CASE UNCHANGED <<seen, records>>
    BY <2>0, <2>3
  <2>4. QED
    BY <1>2, <2>1, <2>2, <2>3
    DEF Next, Deliver, Settle, Finish, HostStep, Done, Suppress, Return, Exit, Spawn,
        vars, loopVars
<1>3. QED
  BY <1>1, <1>2, TypeCorrect, LedgerInvHolds, RingCorrect, PTL DEF Spec

\* The daemon implements the ledger: an event raises fresh detections, each
\* is then alerted or waived once, and the run closes with none owed.
THEOREM LedgerImplemented == Spec => LedgerSpec
<1>1. Init => Ledger!Init
  BY DEF Init, Ledger!Init
<1>2. ASSUME TypeOK, LedgerInv, [Next]_vars
      PROVE  [Ledger!Next]_(Ledger!ledger)
  <2> USE DEF Ledger!ledger
  <2>0. /\ seen \in Seq(Event) /\ records \in Seq(Record) /\ Len(seen) \in Nat
        /\ DOMAIN records = 1..Len(records) /\ Len(records) \in Nat
    BY <1>2 DEF TypeOK
  <2>1. ASSUME NEW o \in Catalog, NEW q \in {lastSeq, lastSeq + 1}, Receive(o, q)
        PROVE  [Ledger!Next]_(Ledger!ledger)
    <3>1. /\ Len(seen') = Len(seen) + 1 /\ Len(seen') \in 1..MaxEvents
          /\ pending = {} /\ status = "running" /\ pending' \subseteq Rules
          /\ UNCHANGED <<records, suppressed, status>>
      BY <2>0, <2>1, DaemonAssumption DEF Receive, Process
    <3>2. CASE pending' = {}
      BY <3>1, <3>2
    <3>3. CASE pending' # {}
      <4>1. ASSUME NEW r \in pending'
            PROVE  /\ <<Len(seen'), r>> \in (1..MaxEvents) \X Rules
                   /\ <<Len(seen'), r>> \notin suppressed
                   /\ \A k \in DOMAIN records :
                        <<Len(seen'), r>> # <<records[k].at, records[k].rule>>
        BY <1>2, <2>0, <3>1, <4>1 DEF LedgerInv
      <4>2. Ledger!Observe
        BY <3>1, <3>3, <4>1 DEF Ledger!Observe
      <4>3. QED
        BY <4>2 DEF Ledger!Next
    <3>4. QED
      BY <3>2, <3>3
  <2>2. ASSUME NEW r \in Rules, Suppress(r) PROVE [Ledger!Next]_(Ledger!ledger)
    <3>1. /\ <<Len(seen), r>> \in {<<Len(seen), x>> : x \in pending}
          /\ {<<Len(seen'), x>> : x \in pending'}
               = {<<Len(seen), x>> : x \in pending} \ {<<Len(seen), r>>}
          /\ suppressed' = suppressed \cup {<<Len(seen), r>>}
          /\ UNCHANGED <<records, status>>
      BY <2>2, SuppressStep
    <3>2. Ledger!Next
      BY <3>1 DEF Ledger!Next, Ledger!Waive
    <3>3. QED
      BY <3>2
  <2>3. ASSUME NEW r \in Rules, Handle(r) PROVE [Ledger!Next]_(Ledger!ledger)
    <3>1. /\ r \in pending /\ pending' = pending \ {r}
          /\ Len(records') = Len(records) + 1
          /\ records'[Len(records) + 1].at = Len(seen)
          /\ records'[Len(records) + 1].rule = r
          /\ \A k \in 1..Len(records) : records'[k] = records[k]
          /\ UNCHANGED <<seen, suppressed, status>>
      BY <1>2, <2>3, HandleStep
    <3>2. DOMAIN records' = 1..(Len(records) + 1)
      <4>1. PICK w : records' = Append(records, [at |-> Len(seen), rule |-> r,
                                action |-> Plan(Policy, r, last.obs), window |-> w])
        BY <2>3 DEF Handle
      <4>2. QED
        BY <4>1, <2>0
    <3>3. {<<records[k].at, records[k].rule>> : k \in DOMAIN records}'
            = {<<records[k].at, records[k].rule>> : k \in DOMAIN records}
              \cup {<<Len(seen), r>>}
      BY <2>0, <3>1, <3>2
    <3>4. /\ <<Len(seen), r>> \in {<<Len(seen), x>> : x \in pending}
          /\ {<<Len(seen'), x>> : x \in pending'}
               = {<<Len(seen), x>> : x \in pending} \ {<<Len(seen), r>>}
      BY <3>1
    <3>5. Ledger!Next
      BY <3>1, <3>3, <3>4 DEF Ledger!Next, Ledger!Alert
    <3>6. QED
      BY <3>5
  <2>4. ASSUME NEW outcome \in {"eof", "error"}, Return(outcome)
        PROVE  [Ledger!Next]_(Ledger!ledger)
    <3>1. Ledger!Close
      BY <2>4 DEF Return, Ledger!Close
    <3>2. QED
      BY <3>1 DEF Ledger!Next
  <2>5. CASE UNCHANGED loopVars
    BY <2>5 DEF loopVars
  <2>6. QED
    BY <1>2, <2>1, <2>2, <2>3, <2>4, <2>5
    DEF Next, Deliver, Settle, Finish, HostStep, Done, Exit, Spawn, vars
<1>3. QED
  BY <1>1, <1>2, TypeCorrect, LedgerInvHolds, PTL DEF Spec, LedgerSpec, Ledger!Spec

(***************************************************************************)
(* Destruction.  The planned action is the only way to an effect, so each  *)
(* effect is justified by the record appended in the same step.            *)
(***************************************************************************)
LEMMA SeverityType ==
    ASSUME NEW r \in Rules, NEW o
    PROVE  Severity(r, o) \in Nat
BY DEF Severity, Critical, High, Medium

LEMMA Effects ==
    ASSUME NEW r \in Rules, Handle(r)
    PROVE  \/ UNCHANGED effects
           \/ /\ Plan(Policy, r, last.obs) = "kill"
              /\ \E p, l : effects' = [effects EXCEPT !.killed = @ \cup {<<Len(seen), p, l>>}]
           \/ /\ Plan(Policy, r, last.obs) # "alert"
              /\ \E id : \E iso \in SUBSET {id} :
                   effects' = [effects EXCEPT !.paused = @ \cup {id}, !.isolated = @ \cup iso]
<1>1. Do(Plan(Policy, r, last.obs), last.obs)
  BY DEF Handle
<1>2. CASE Plan(Policy, r, last.obs) = "alert"
  BY <1>1, <1>2 DEF Do, NoEffect
<1>3. CASE Plan(Policy, r, last.obs) = "kill"
  <2>1. \/ UNCHANGED effects
        \/ effects' = [effects EXCEPT !.killed =
                         @ \cup {<<Len(seen), last.obs.pid, host[last.obs.pid].life>>}]
    BY <1>1, <1>3 DEF Do, kill, NoEffect
  <2>2. QED
    BY <1>3, <2>1
<1>4. CASE Plan(Policy, r, last.obs) = "quarantine"
  BY <1>1, <1>4 DEF Do, quarantine, NoEffect
<1>5. QED
  BY <1>2, <1>3, <1>4, PlanKind

EffectsType == effects = [killed |-> effects.killed, paused |-> effects.paused,
                          isolated |-> effects.isolated]

KillJustified(k) == \E j \in DOMAIN records :
    /\ records[j].at = k[1] /\ records[j].action = "kill"
    /\ records[j].rule \notin {"RT003", "RT008"}
    /\ Severity(records[j].rule, seen[k[1]].obs) >= Policy.killSeverity

LEMMA HandleJustified ==
    ASSUME TypeOK, LedgerInv, EffectsType, DestructionGated, NEW r \in Rules, Handle(r)
    PROVE  EffectsType' /\ DestructionGated'
<1>0. /\ records \in Seq(Record) /\ Len(records) \in Nat /\ DOMAIN records = 1..Len(records)
      /\ Policy.killSeverity \in Nat /\ seen' = seen
  BY DaemonAssumption DEF TypeOK, Handle
<1>1. PICK w : records' = Append(records, [at |-> Len(seen), rule |-> r,
                              action |-> Plan(Policy, r, last.obs), window |-> w])
  BY DEF Handle
<1>2. /\ DOMAIN records' = 1..(Len(records) + 1)
      /\ \A j \in DOMAIN records : j \in DOMAIN records' /\ records'[j] = records[j]
      /\ records'[Len(records) + 1] = [at |-> Len(seen), rule |-> r,
                              action |-> Plan(Policy, r, last.obs), window |-> w]
  BY <1>0, <1>1
<1>3. \A k \in effects.killed : KillJustified(k)
  BY DEF DestructionGated, KillJustified
<1>4. \A k \in effects.killed : KillJustified(k)'
  BY <1>0, <1>2, <1>3 DEF KillJustified
<1>5. Plan(Policy, r, last.obs) # "alert" => Policy.mode = "enforce" /\ Policy.acknowledged
  BY PlanGated DEF armed
<1>6. CASE UNCHANGED effects
  BY <1>4, <1>6 DEF DestructionGated, EffectsType, KillJustified
<1>7. ASSUME Plan(Policy, r, last.obs) = "kill", NEW p, NEW l,
             effects' = [effects EXCEPT !.killed = @ \cup {<<Len(seen), p, l>>}]
      PROVE  EffectsType' /\ DestructionGated'
  <2>1. /\ effects'.killed = effects.killed \cup {<<Len(seen), p, l>>}
        /\ effects'.paused = effects.paused /\ effects'.isolated = effects.isolated
        /\ EffectsType'
    BY <1>7 DEF EffectsType
  <2>2. r \notin {"RT003", "RT008"} /\ Severity(r, last.obs) >= Policy.killSeverity
    BY <1>0, <1>7, PlanGated, SeverityType
  <2>3. ASSUME NEW k, k[1] = Len(seen) PROVE KillJustified(k)'
    <3>1. Len(records) + 1 \in DOMAIN records'
      BY <1>0, <1>2
    <3>2. /\ records'[Len(records) + 1].at = Len(seen)
          /\ records'[Len(records) + 1].action = "kill"
          /\ records'[Len(records) + 1].rule = r
      BY <1>2, <1>7
    <3>3. QED
      BY <1>0, <2>2, <2>3, <3>1, <3>2 DEF KillJustified, last
  <2>4. ASSUME NEW k \in effects'.killed PROVE KillJustified(k)'
    <3>1. CASE k \in effects.killed
      BY <1>4, <3>1 DEF KillJustified
    <3>2. CASE k = <<Len(seen), p, l>>
      <4>1. k[1] = Len(seen)
        BY <3>2
      <4>2. QED
        BY <2>3, <4>1
    <3>3. QED
      BY <2>1, <2>4, <3>1, <3>2
  <2>5. QED
    BY <1>5, <1>7, <2>1, <2>4 DEF DestructionGated, KillJustified
<1>8. ASSUME Plan(Policy, r, last.obs) # "alert", NEW id, NEW iso \in SUBSET {id},
             effects' = [effects EXCEPT !.paused = @ \cup {id}, !.isolated = @ \cup iso]
      PROVE  EffectsType' /\ DestructionGated'
  <2>1. /\ effects'.killed = effects.killed /\ effects'.paused = effects.paused \cup {id}
        /\ effects'.isolated = effects.isolated \cup iso /\ EffectsType'
    BY <1>8 DEF EffectsType
  <2>2. QED
    BY <1>4, <1>5, <1>8, <2>1 DEF DestructionGated, KillJustified
<1>9. QED
  BY <1>6, <1>7, <1>8, Effects

\* Nothing is killed or contained but by an armed policy, for a recorded
\* detection at or above the kill severity; no container is cut off unpaused.
THEOREM DestructionIsGated == Spec => []DestructionGated
<1>1. Init => EffectsType /\ DestructionGated
  BY DEF Init, EffectsType, DestructionGated
<1>2. ASSUME TypeOK, LedgerInv, EffectsType, DestructionGated, [Next]_vars
      PROVE  EffectsType' /\ DestructionGated'
  <2>1. ASSUME NEW o \in Catalog, NEW q \in {lastSeq, lastSeq + 1}, Receive(o, q)
        PROVE  EffectsType' /\ DestructionGated'
    <3>1. PICK ev \in Event : seen' = Append(seen, ev)
      BY <1>2, <2>1, ReceiveEvent
    <3>2. \A j \in DOMAIN records : seen'[records[j].at] = seen[records[j].at]
      <4>1. \A i \in 1..Len(seen) : seen'[i] = seen[i]
        BY <1>2, <3>1, AppendProperties DEF TypeOK
      <4>2. QED
        BY <1>2, <4>1 DEF LedgerInv
    <3>3. UNCHANGED <<records, effects>>
      BY <2>1 DEF Receive, outVars
    <3>4. QED
      BY <1>2, <3>2, <3>3 DEF EffectsType, DestructionGated
  <2>2. ASSUME NEW r \in Rules, Handle(r) PROVE EffectsType' /\ DestructionGated'
    BY <1>2, <2>2, HandleJustified
  <2>3. CASE UNCHANGED <<seen, records, effects>>
    BY <1>2, <2>3 DEF EffectsType, DestructionGated
  <2>4. QED
    BY <1>2, <2>1, <2>2, <2>3
    DEF Next, Deliver, Settle, Finish, HostStep, Done, Suppress, Return, Exit, Spawn,
        vars, loopVars, outVars
<1>3. QED
  BY <1>1, <1>2, TypeCorrect, LedgerInvHolds, PTL DEF Spec

(***************************************************************************)
(* Drift.  The rule fires on the first execution of a binary in a          *)
(* container and marks it.  The marks are those of the executions it fired *)
(* on, however each of them was settled or is about to be.                 *)
(***************************************************************************)
driftMark(o) == Mark(o, "drift")

firedOn ==
    {records[k].at : k \in driftRecords} \cup {i \in DOMAIN seen : <<i, "RT002">> \in suppressed}
      \cup {i \in DOMAIN seen : i = Len(seen) /\ "RT002" \in pending}

DriftInv ==
    /\ \A o \in Catalog : driftMark(o) \in st.execSeen
          => \E j \in firedOn : driftMark(seen[j].obs) = driftMark(o)
    /\ \A i \in DOMAIN seen : drifted(seen[i].obs) => driftMark(seen[i].obs) \in st.execSeen
    /\ \A i, j \in firedOn : driftMark(seen[i].obs) = driftMark(seen[j].obs) => i = j
    /\ \A j \in firedOn : drifted(seen[j].obs)
    /\ \A k \in driftRecords : ~Suppressed(Exceptions, "RT002", seen[records[k].at].obs)
    /\ \A i \in DOMAIN seen : <<i, "RT002">> \in suppressed => Suppressed(Exceptions, "RT002", seen[i].obs)

\* An event adds itself to those the rule fired on, or nothing.
LEMMA ReceiveFires ==
    ASSUME TypeOK, LedgerInv, NEW o \in Catalog, NEW q \in {lastSeq, lastSeq + 1}, Receive(o, q)
    PROVE  /\ Len(seen') = Len(seen) + 1 /\ seen'[Len(seen')].obs = o
           /\ \A i \in 1..Len(seen) : seen'[i] = seen[i]
           /\ firedOn \subseteq 1..Len(seen)
           /\ firedOn' = firedOn \cup (IF driftEvaluate(o, st) THEN {Len(seen')} ELSE {})
<1>1. /\ seen \in Seq(Event) /\ Len(seen) \in Nat /\ suppressed \subseteq Nat \X Rules
      /\ pending = {} /\ UNCHANGED <<records, suppressed>> /\ pending' = Process(o, st)
  BY DEF TypeOK, Receive
<1>2. PICK ev \in Event : ev.obs = o /\ seen' = Append(seen, ev)
  BY ReceiveEvent
<1>3. /\ Len(seen') = Len(seen) + 1 /\ seen'[Len(seen')].obs = o /\ seen' \in Seq(Event)
      /\ \A i \in 1..Len(seen) : seen'[i] = seen[i]
  BY <1>1, <1>2, AppendProperties
<1>4. "RT002" \in pending' <=> driftEvaluate(o, st)
  BY <1>1 DEF Process, Rules, Fires
<1>5. DOMAIN seen = 1..Len(seen) /\ DOMAIN seen' = 1..(Len(seen) + 1) /\ Len(seen) + 1 \notin 1..Len(seen)
  BY <1>1, <1>3
<1>6. \A k \in driftRecords : records[k].at \in 1..Len(seen)
  BY DEF LedgerInv, driftRecords
<1>7. <<Len(seen) + 1, "RT002">> \notin suppressed
  BY <1>1 DEF LedgerInv
<1>8. driftRecords' = driftRecords
  BY <1>1 DEF driftRecords
<1>9. {i \in DOMAIN seen' : <<i, "RT002">> \in suppressed} = {i \in DOMAIN seen : <<i, "RT002">> \in suppressed}
  BY <1>5, <1>7, <1>1
<1>10. {i \in DOMAIN seen' : i = Len(seen') /\ "RT002" \in pending'}
         = IF driftEvaluate(o, st) THEN {Len(seen')} ELSE {}
  BY <1>3, <1>4, <1>5, <1>1
<1>11. firedOn' = firedOn \cup (IF driftEvaluate(o, st) THEN {Len(seen')} ELSE {})
  BY <1>1, <1>8, <1>9, <1>10 DEF firedOn
<1>12. firedOn \subseteq 1..Len(seen)
  BY <1>5, <1>6 DEF firedOn
<1> QED
  BY <1>3, <1>11, <1>12

LEMMA DriftInvReceive ==
    ASSUME TypeOK, LedgerInv, DriftInv, NEW o \in Catalog, NEW q \in {lastSeq, lastSeq + 1}, Receive(o, q)
    PROVE  DriftInv'
<1> DEFINE n == Len(seen')
<1>1. /\ Len(seen) \in Nat /\ n = Len(seen) + 1 /\ seen'[n].obs = o /\ \A i \in 1..Len(seen) : seen'[i] = seen[i]
      /\ firedOn \subseteq 1..Len(seen) /\ n \notin 1..Len(seen)
      /\ firedOn' = firedOn \cup (IF driftEvaluate(o, st) THEN {n} ELSE {})
  BY ReceiveFires DEF TypeOK
<1>2. DOMAIN seen = 1..Len(seen) /\ DOMAIN seen' = 1..n /\ UNCHANGED <<records, suppressed>>
  <2>1. seen \in Seq(Event) /\ \E ev \in Event : seen' = Append(seen, ev)
    BY ReceiveEvent DEF TypeOK
  <2> QED
    BY <2>1, AppendProperties DEF Receive
<1>3. \A p \in Catalog : driftMark(p) \in st'.execSeen <=>
         driftMark(p) \in st.execSeen \/ (drifted(o) /\ driftMark(p) = driftMark(o))
  <2>1. st' = StateAfter(o, st)
    BY DEF Receive
  <2>2. \A p \in Catalog : driftMark(p) # Mark(o, "anomaly")
    BY DEF driftMark, Mark
  <2> QED
    BY <2>1, <2>2 DEF StateAfter, driftMark
<1>4. \A i \in 1..Len(seen) : seen[i].obs \in Catalog
  <2>1. seen \in Seq(Event)
    BY DEF TypeOK
  <2>2. \A i \in 1..Len(seen) : seen[i] \in Event
    BY <2>1, ElementOfSeq
  <2> QED
    BY <2>2 DEF Event
<1>5. driftEvaluate(o, st) <=> drifted(o) /\ driftMark(o) \notin st.execSeen
  BY DEF driftEvaluate, driftMark
<1>6. ASSUME NEW p \in Catalog, driftMark(p) \in st'.execSeen
      PROVE  \E j \in firedOn' : driftMark(seen'[j].obs) = driftMark(p)
  <2>1. CASE driftMark(p) \in st.execSeen
    <3>1. PICK j \in firedOn : driftMark(seen[j].obs) = driftMark(p)
      BY <2>1 DEF DriftInv
    <3> QED
      BY <1>1, <3>1
  <2>2. CASE driftMark(p) \notin st.execSeen
    <3>1. driftMark(p) = driftMark(o) /\ n \in firedOn'
      BY <1>1, <1>3, <1>5, <1>6, <2>2
    <3> QED
      BY <1>1, <3>1
  <2> QED
    BY <2>1, <2>2
<1>7. ASSUME NEW i \in 1..n, drifted(seen'[i].obs) PROVE driftMark(seen'[i].obs) \in st'.execSeen
  <2>1. CASE i = n
    BY <1>1, <1>3, <1>7, <2>1
  <2>2. CASE i \in 1..Len(seen)
    BY <1>1, <1>2, <1>3, <1>4, <1>7, <2>2 DEF DriftInv
  <2> QED
    BY <1>1, <2>1, <2>2
<1>8. ASSUME driftEvaluate(o, st), NEW j \in firedOn PROVE driftMark(seen[j].obs) # driftMark(o)
  <2>1. drifted(seen[j].obs) /\ j \in 1..Len(seen)
    BY <1>1 DEF DriftInv
  <2>2. driftMark(seen[j].obs) \in st.execSeen
    BY <1>2, <2>1 DEF DriftInv
  <2> QED
    BY <1>5, <1>8, <2>2
<1>9. ASSUME NEW i \in firedOn', NEW j \in firedOn', driftMark(seen'[i].obs) = driftMark(seen'[j].obs)
      PROVE  i = j
  <2>1. CASE i \in firedOn /\ j \in firedOn
    BY <1>1, <1>9, <2>1 DEF DriftInv
  <2>2. CASE i \notin firedOn \/ j \notin firedOn
    BY <1>1, <1>8, <1>9, <2>2
  <2> QED
    BY <2>1, <2>2
<1>10. \A j \in firedOn' : drifted(seen'[j].obs)
  BY <1>1, <1>5 DEF DriftInv
<1>11. \A k \in driftRecords' : ~Suppressed(Exceptions, "RT002", seen'[records'[k].at].obs)
  BY <1>1, <1>2 DEF DriftInv, LedgerInv, driftRecords
<1>12. \A i \in 1..n : <<i, "RT002">> \in suppressed' => Suppressed(Exceptions, "RT002", seen'[i].obs)
  <2>1. <<n, "RT002">> \notin suppressed
    BY <1>1 DEF LedgerInv
  <2> QED
    BY <1>1, <1>2, <2>1 DEF DriftInv
<1> QED
  BY <1>2, <1>6, <1>7, <1>9, <1>10, <1>11, <1>12 DEF DriftInv

\* To settle a detection is to move it from one part of firedOn to another.
LEMMA DriftInvSettle ==
    ASSUME TypeOK, LedgerInv, DriftInv, NEW r \in Rules, Handle(r) \/ Suppress(r)
    PROVE  DriftInv'
<1>1. /\ r \in pending /\ pending' = pending \ {r} /\ UNCHANGED <<seen, st>>
      /\ seen \in Seq(Event) /\ DOMAIN seen = 1..Len(seen) /\ Len(seen) \in 1..Len(seen)
  BY HandleStep, SuppressStep DEF TypeOK, LedgerInv
<1>2. CASE Handle(r)
  <2>1. /\ Len(records') = Len(records) + 1 /\ records'[Len(records) + 1].at = Len(seen)
        /\ records'[Len(records) + 1].rule = r /\ \A k \in 1..Len(records) : records'[k] = records[k]
        /\ UNCHANGED suppressed
    BY <1>2, HandleStep
  <2>2. DOMAIN records = 1..Len(records) /\ DOMAIN records' = 1..(Len(records) + 1) /\ Len(records) \in Nat
    <3>1. PICK w : records' = Append(records, [at |-> Len(seen), rule |-> r,
                                               action |-> Plan(Policy, r, last.obs), window |-> w])
      BY <1>2 DEF Handle
    <3> QED
      BY <3>1, AppendProperties DEF TypeOK
  <2>3. driftRecords' = driftRecords \cup (IF r = "RT002" THEN {Len(records) + 1} ELSE {})
    BY <2>1, <2>2 DEF driftRecords
  <2>4. {records'[k].at : k \in driftRecords'}
          = {records[k].at : k \in driftRecords} \cup (IF r = "RT002" THEN {Len(seen)} ELSE {})
    BY <2>1, <2>2, <2>3 DEF driftRecords
  <2>5. firedOn' = firedOn
    BY <1>1, <2>1, <2>4 DEF firedOn
  <2>6. \A k \in driftRecords' : ~Suppressed(Exceptions, "RT002", seen[records'[k].at].obs)
    BY <1>2, <2>1, <2>2, <2>3 DEF DriftInv, Handle, last, driftRecords
  <2> QED
    BY <1>1, <2>1, <2>5, <2>6 DEF DriftInv
<1>3. CASE Suppress(r)
  <2>1. /\ Suppressed(Exceptions, r, last.obs) /\ suppressed' = suppressed \cup {<<Len(seen), r>>}
        /\ UNCHANGED records
    BY <1>3, SuppressStep
  <2>2. firedOn' = firedOn
    BY <1>1, <2>1 DEF firedOn, driftRecords
  <2>3. \A i \in DOMAIN seen : <<i, "RT002">> \in suppressed' => Suppressed(Exceptions, "RT002", seen[i].obs)
    BY <2>1 DEF DriftInv, last
  <2> QED
    BY <1>1, <2>1, <2>2, <2>3 DEF DriftInv, driftRecords
<1> QED
  BY <1>2, <1>3

LEMMA DriftInvHolds == Spec => []DriftInv
<1>1. Init => DriftInv
  BY DEF Init, DriftInv, newState, firedOn, driftRecords
<1>2. ASSUME TypeOK, LedgerInv, DriftInv, [Next]_vars PROVE DriftInv'
  <2>1. CASE UNCHANGED <<seen, st, pending, records, suppressed>>
    <3>1. driftRecords' = driftRecords
      BY <2>1 DEF driftRecords
    <3>2. firedOn' = firedOn
      BY <2>1, <3>1 DEF firedOn
    <3> QED
      BY <1>2, <2>1, <3>1, <3>2 DEF DriftInv
  <2> QED
    BY <1>2, <2>1, DriftInvReceive, DriftInvSettle
    DEF Next, Deliver, Settle, Finish, HostStep, Done, Return, Exit, Spawn, vars, loopVars
<1> QED
  BY <1>1, <1>2, TypeCorrect, LedgerInvHolds, PTL DEF Spec

\* No binary of a container is reported, or its report suppressed, more than once.
LEMMA DriftOnce ==
    ASSUME LedgerInv, DriftInv
    PROVE  OneDriftPerBinary
<1>1. \A o1, o2 : sameBinary(o1, o2) => driftMark(o1) = driftMark(o2)
  BY DEF sameBinary, driftMark, Mark
<1>2. ASSUME NEW j \in driftRecords, NEW k \in driftRecords,
             sameBinary(seen[records[j].at].obs, seen[records[k].at].obs)
      PROVE  j = k
  <2>1. records[j].at = records[k].at
    BY <1>1, <1>2 DEF DriftInv, firedOn
  <2> QED
    BY <2>1 DEF LedgerInv, driftRecords
<1>3. ASSUME NEW i \in DOMAIN seen, NEW j \in DOMAIN seen, <<i, "RT002">> \in suppressed,
             <<j, "RT002">> \in suppressed, sameBinary(seen[i].obs, seen[j].obs)
      PROVE  i = j
  BY <1>1, <1>3 DEF DriftInv, firedOn
<1>4. ASSUME NEW k \in driftRecords, NEW i \in DOMAIN seen, <<i, "RT002">> \in suppressed,
             sameBinary(seen[records[k].at].obs, seen[i].obs)
      PROVE  FALSE
  <2>1. records[k].at \in firedOn /\ i \in firedOn
    BY <1>4 DEF firedOn
  <2>2. records[k].at = i
    BY <1>1, <1>4, <2>1 DEF DriftInv
  <2> QED
    BY <1>4, <2>2 DEF LedgerInv, driftRecords
<1> QED
  BY <1>2, <1>3, <1>4 DEF OneDriftPerBinary

THEOREM DriftIsNoStorm == Spec => []OneDriftPerBinary
BY DriftOnce, LedgerInvHolds, DriftInvHolds, PTL

(***************************************************************************)
(* That drift is never silent needs more: a mark is shared by containers   *)
(* of one key, and an exception is consulted after the mark is made.       *)
(***************************************************************************)
KeysTellContainersApart ==
    \A o1, o2 \in Catalog : containerKey(o1.cont) = containerKey(o2.cont) => o1.cont = o2.cont

\* Exceptions for drift name binaries and containers, not arguments.
ExceptionsCoverBinaries ==
    \A o1, o2 \in Catalog : sameBinary(o1, o2) /\ Suppressed(Exceptions, "RT002", o1)
                              => Suppressed(Exceptions, "RT002", o2)

\* A drifted binary is reported, and reported once, if containers have keys of
\* their own and each exception covers all executions of a binary or none.
THEOREM DriftIsReportedOnce ==
    ASSUME KeysTellContainersApart, ExceptionsCoverBinaries
    PROVE  Spec => []DriftReportedOnce
<1>1. ASSUME TypeOK, LedgerInv, DriftInv PROVE DriftNeverSilent
  <2> SUFFICES ASSUME NEW i \in DOMAIN seen, drifted(seen[i].obs),
                      ~Suppressed(Exceptions, "RT002", seen[i].obs)
               PROVE  \/ \E k \in driftRecords : sameBinary(seen[records[k].at].obs, seen[i].obs)
                      \/ "RT002" \in pending /\ sameBinary(last.obs, seen[i].obs)
    BY DEF DriftNeverSilent
  <2>1. \A n \in DOMAIN seen : seen[n].obs \in Catalog
    <3>1. seen \in Seq(Event) /\ DOMAIN seen = 1..Len(seen)
      BY <1>1 DEF TypeOK
    <3>2. \A n \in 1..Len(seen) : seen[n] \in Event
      BY <3>1, ElementOfSeq
    <3> QED
      BY <3>1, <3>2 DEF Event
  <2>2. PICK j \in firedOn : driftMark(seen[j].obs) = driftMark(seen[i].obs)
    BY <1>1, <2>1 DEF DriftInv
  <2>3. ASSUME j \in DOMAIN seen PROVE sameBinary(seen[j].obs, seen[i].obs)
    BY <2>1, <2>2, <2>3 DEF driftMark, Mark, sameBinary, KeysTellContainersApart
  <2>4. ASSUME j \in DOMAIN seen PROVE <<j, "RT002">> \notin suppressed
    BY <1>1, <2>1, <2>3, <2>4 DEF DriftInv, ExceptionsCoverBinaries
  <2>5. CASE \E k \in driftRecords : records[k].at = j
    <3>1. PICK k \in driftRecords : records[k].at = j
      BY <2>5
    <3>2. j \in DOMAIN seen
      <4>1. seen \in Seq(Event) /\ records[k].at \in 1..Len(seen)
        BY <1>1 DEF LedgerInv, driftRecords, TypeOK
      <4> QED
        BY <3>1, <4>1
    <3> QED
      BY <2>3, <3>1, <3>2
  <2>6. CASE j \in DOMAIN seen /\ j = Len(seen) /\ "RT002" \in pending
    BY <2>3, <2>6 DEF last
  <2> QED
    BY <2>4, <2>5, <2>6 DEF firedOn
<1>2. TypeOK /\ LedgerInv /\ DriftInv => DriftReportedOnce
  BY <1>1, DriftOnce DEF DriftReportedOnce
<1> QED
  BY <1>2, TypeCorrect, LedgerInvHolds, DriftInvHolds, PTL

(***************************************************************************)
(* The sinks.                                                              *)
(***************************************************************************)
LEMMA HealthySinksStep ==
    ASSUME TypeOK, HealthySinkSeesAll, [Next]_vars
    PROVE  HealthySinkSeesAll'
<1>1. ASSUME NEW r \in Rules, Handle(r) PROVE HealthySinkSeesAll'
  <2> DEFINE n == Len(records)
  <2>1. PICK good \in SUBSET Sinks :
           /\ sinkLog' = [s \in Sinks |->
                 IF s \in good \cap attempted(good) THEN Append(sinkLog[s], <<Len(seen), r>>) ELSE sinkLog[s]]
           /\ sinkFailed' = sinkFailed \cup (attempted(good) \ good)
    BY <1>1 DEF Handle, Emit
  <2>2. /\ n \in Nat /\ DOMAIN records = 1..n /\ DOMAIN records' = 1..(n + 1)
        /\ records'[n + 1].at = Len(seen) /\ records'[n + 1].rule = r
        /\ \A k \in 1..n : records'[k] = records[k]
    <3>1. PICK w : records' = Append(records, [at |-> Len(seen), rule |-> r,
                                               action |-> Plan(Policy, r, last.obs), window |-> w])
      BY <1>1 DEF Handle
    <3> QED
      BY <3>1, AppendProperties DEF TypeOK
  <2>3. ASSUME NEW s \in Sinks \ sinkFailed'
        PROVE  sinkLog'[s] = [k \in DOMAIN records' |-> <<records'[k].at, records'[k].rule>>]
    <3>1. s \in good /\ s \in Sinks \ sinkFailed
      BY <2>1, <2>3 DEF attempted
    <3>2. sinkLog'[s] = Append(sinkLog[s], <<Len(seen), r>>)
      BY <2>1, <3>1 DEF attempted
    <3>3. sinkLog[s] = [k \in 1..n |-> <<records[k].at, records[k].rule>>]
      BY <2>2, <3>1 DEF HealthySinkSeesAll
    <3>4. sinkLog[s] \in Seq(Nat \X Rules) /\ Len(sinkLog[s]) = n
      BY <2>2, <3>1, <3>3 DEF TypeOK
    <3>5. /\ sinkLog'[s] = [k \in 1..(n + 1) |-> sinkLog'[s][k]] /\ sinkLog'[s][n + 1] = <<Len(seen), r>>
          /\ \A k \in 1..n : sinkLog'[s][k] = sinkLog[s][k]
      BY <2>2, <3>2, <3>4, AppendProperties
    <3>6. ASSUME NEW k \in 1..(n + 1) PROVE sinkLog'[s][k] = <<records'[k].at, records'[k].rule>>
      <4>1. CASE k = n + 1
        BY <2>2, <3>5, <4>1
      <4>2. CASE k \in 1..n
        <5>1. sinkLog[s][k] = <<records[k].at, records[k].rule>>
          BY <3>3, <4>2
        <5> QED
          BY <2>2, <3>5, <4>2, <5>1
      <4> QED
        BY <2>2, <4>1, <4>2
    <3> QED
      BY <2>2, <3>5, <3>6
  <2> QED
    BY <2>3 DEF HealthySinkSeesAll
<1>2. CASE UNCHANGED <<records, sinkLog, sinkFailed>>
  BY <1>2 DEF HealthySinkSeesAll
<1> QED
  BY <1>1, <1>2 DEF Next, Deliver, Settle, Finish, HostStep, Done, Receive, Suppress, Return, Exit, Spawn,
                    vars, loopVars, outVars

(***************************************************************************)
(* The sort.  precedes orders the records strictly and totally, so that    *)
(* each has a place of its own and every place is taken.                   *)
(***************************************************************************)
LEMMA RuleIDsDiffer ==
    /\ \A r \in Rules : RuleIDOrder[r] \in Nat
    /\ \A q, r \in Rules : RuleIDOrder[q] = RuleIDOrder[r] => q = r
BY DEF Rules, RuleIDOrder

sortable(s) ==
    \A i \in 1..Len(s) : seen[s[i].at].seq \in Nat /\ RuleIDOrder[s[i].rule] \in Nat

LEMMA PrecedesIsOrder ==
    ASSUME NEW s, sortable(s), Len(s) \in Nat
    PROVE  /\ \A i \in 1..Len(s) : ~precedes(s, i, i)
           /\ \A i, j \in 1..Len(s) : i # j => precedes(s, i, j) \/ precedes(s, j, i)
           /\ \A i, j, k \in 1..Len(s) : precedes(s, i, j) /\ precedes(s, j, k) => precedes(s, i, k)
BY SMTT(30) DEF precedes, sortable

before(s, i) == {j \in 1..Len(s) : precedes(s, j, i)}

place(s, i) == Cardinality(before(s, i)) + 1

LEMMA PlacesInOrder ==
    ASSUME NEW s, sortable(s), Len(s) \in Nat
    PROVE  /\ \A i \in 1..Len(s) : place(s, i) \in 1..Len(s)
           /\ \A i, j \in 1..Len(s) : precedes(s, i, j) => place(s, i) < place(s, j)
           /\ \A i, j \in 1..Len(s) : place(s, i) = place(s, j) => i = j
<1> DEFINE n == Len(s)
<1>1. IsFiniteSet(1..n) /\ Cardinality(1..n) = n
  BY FS_Interval, SMTT(30)
<1>2. ASSUME NEW i \in 1..n
      PROVE  /\ IsFiniteSet(before(s, i)) /\ Cardinality(before(s, i)) \in Nat
             /\ place(s, i) \in Nat /\ place(s, i) >= 1 /\ Cardinality(before(s, i)) < place(s, i)
             /\ IsFiniteSet(before(s, i) \cup {i})
             /\ Cardinality(before(s, i) \cup {i}) = place(s, i)
  <2>1. before(s, i) \in SUBSET (1..n) /\ i \notin before(s, i)
    BY PrecedesIsOrder DEF before
  <2>2. IsFiniteSet(before(s, i)) /\ Cardinality(before(s, i)) \in Nat
    BY <1>1, <2>1, FS_Subset, FS_CardinalityType
  <2> QED
    BY <2>1, <2>2, FS_AddElement DEF place
<1>3. ASSUME NEW i \in 1..n PROVE place(s, i) \in 1..n
  <2>1. before(s, i) \cup {i} \in SUBSET (1..n)
    BY DEF before
  <2>2. Cardinality(before(s, i) \cup {i}) <= n
    BY <1>1, <2>1, FS_Subset
  <2>3. place(s, i) <= n
    BY <1>2, <2>2
  <2>4. place(s, i) \in Nat /\ place(s, i) >= 1
    BY <1>2
  <2> QED
    BY <2>3, <2>4
<1>4. ASSUME NEW i \in 1..n, NEW j \in 1..n, precedes(s, i, j) PROVE place(s, i) < place(s, j)
  <2>1. before(s, i) \cup {i} \in SUBSET before(s, j)
    BY <1>4, PrecedesIsOrder DEF before
  <2>2. Cardinality(before(s, i) \cup {i}) <= Cardinality(before(s, j))
    BY <1>2, <2>1, FS_Subset
  <2>3. place(s, i) <= Cardinality(before(s, j))
    BY <1>2, <2>2
  <2>4. Cardinality(before(s, j)) < place(s, j) /\ Cardinality(before(s, j)) \in Nat
    BY <1>2
  <2>5. place(s, i) \in Nat /\ place(s, j) \in Nat
    BY <1>2
  <2> QED
    BY <2>3, <2>4, <2>5
<1>5. ASSUME NEW i \in 1..n, NEW j \in 1..n, place(s, i) = place(s, j) PROVE i = j
  <2>1. place(s, i) \in 1..n /\ place(s, j) \in 1..n
    BY <1>3
  <2>2. ~precedes(s, i, j) /\ ~precedes(s, j, i)
    BY <1>4, <1>5, <2>1
  <2> QED
    BY <2>2, PrecedesIsOrder
<1> QED
  BY <1>3, <1>4, <1>5

\* Every place is taken.
LEMMA PlacesAreTaken ==
    ASSUME NEW s, sortable(s), Len(s) \in Nat, NEW k \in 1..Len(s)
    PROVE  \E i \in 1..Len(s) : place(s, i) = k
<1> DEFINE n == Len(s)
           f == [i \in 1..n |-> place(s, i)]
<1>1. IsFiniteSet(1..n)
  BY FS_Interval
<1>2. f \in Injection(1..n, 1..n)
  BY PlacesInOrder DEF Injection, IsInjective
<1>3. f \in Surjection(1..n, 1..n)
  BY <1>1, <1>2, FS_Injection
<1> QED
  BY <1>3 DEF Surjection

\* The record in place k is the one whose place is k.
LEMMA SortedByPlace ==
    ASSUME NEW s, sortable(s), Len(s) \in Nat
    PROVE  /\ canonicalOrder(s) = [k \in 1..Len(s) |-> canonicalOrder(s)[k]]
           /\ \A k \in 1..Len(s) : \E i \in 1..Len(s) : canonicalOrder(s)[k] = s[i] /\ place(s, i) = k
<1> DEFINE n == Len(s)
           first(k) == CHOOSE i \in 1..n : Cardinality({j \in 1..n : precedes(s, j, i)}) = k - 1
<1>1. canonicalOrder(s) = [k \in 1..n |-> s[first(k)]]
  BY DEF canonicalOrder
<1>2. ASSUME NEW k \in 1..n PROVE first(k) \in 1..n /\ place(s, first(k)) = k
  <2>1. PICK i \in 1..n : place(s, i) = k
    BY PlacesAreTaken
  <2>2. Cardinality(before(s, i)) \in Nat
    <3>1. IsFiniteSet(1..n) /\ before(s, i) \in SUBSET (1..n)
      BY FS_Interval DEF before
    <3> QED
      BY <3>1, FS_Subset, FS_CardinalityType
  <2>3. Cardinality(before(s, i)) = k - 1
    BY <2>1, <2>2 DEF place
  <2>4. Cardinality({j \in 1..n : precedes(s, j, i)}) = k - 1
    BY <2>3 DEF before
  <2>5. first(k) \in 1..n /\ Cardinality({j \in 1..n : precedes(s, j, first(k))}) = k - 1
    BY <2>4
  <2>6. Cardinality(before(s, first(k))) = k - 1
    BY <2>5 DEF before
  <2> QED
    BY <2>5, <2>6 DEF place
<1> HIDE DEF first
<1>3. \A k \in 1..n : canonicalOrder(s)[k] = s[first(k)]
  BY <1>1
<1> QED
  BY <1>1, <1>2, <1>3

\* Records come in the order of their events, and stay with what is returned.
ResultInv ==
    /\ \A j, k \in DOMAIN records : j < k => records[j].at <= records[k].at
    /\ status # "running" => returned = canonicalOrder(records)

LEMMA ResultInvStep ==
    ASSUME TypeOK, LedgerInv, ResultInv, [Next]_vars
    PROVE  ResultInv'
<1>0. /\ seen \in Seq(Event) /\ Len(seen) \in Nat /\ Len(records) \in Nat /\ DOMAIN records = 1..Len(records)
      /\ \A k \in DOMAIN records : records[k].at \in 1..Len(seen)
  <2>1. seen \in Seq(Event) /\ records \in Seq(Record)
    BY DEF TypeOK
  <2>2. \A k \in DOMAIN records : records[k].at \in 1..Len(seen)
    BY DEF LedgerInv
  <2> QED
    BY <2>1, <2>2, LenProperties
<1>1. ASSUME NEW r \in Rules, Handle(r) PROVE ResultInv'
  <2>1. /\ status = "running" /\ UNCHANGED status
        /\ records'[Len(records) + 1].at = Len(seen) /\ \A k \in 1..Len(records) : records'[k] = records[k]
    BY <1>1, HandleStep DEF LedgerInv
  <2>2. DOMAIN records' = 1..(Len(records) + 1)
    <3>1. PICK w : records' = Append(records, [at |-> Len(seen), rule |-> r,
                                               action |-> Plan(Policy, r, last.obs), window |-> w])
      BY <1>1 DEF Handle
    <3> QED
      BY <3>1, AppendProperties DEF TypeOK
  <2>3. ASSUME NEW j \in DOMAIN records', NEW k \in DOMAIN records', j < k
        PROVE  records'[j].at <= records'[k].at
    <3>1. CASE k = Len(records) + 1
      BY <1>0, <2>1, <2>2, <2>3, <3>1
    <3>2. CASE k \in 1..Len(records)
      BY <1>0, <2>1, <2>2, <2>3, <3>2 DEF ResultInv
    <3> QED
      BY <1>0, <2>2, <3>1, <3>2
  <2> QED
    BY <2>1, <2>3 DEF ResultInv
<1>2. ASSUME NEW o \in Catalog, NEW q \in {lastSeq, lastSeq + 1}, Receive(o, q) PROVE ResultInv'
  BY <1>2 DEF Receive, ResultInv
<1>3. ASSUME NEW r \in Rules, Suppress(r) PROVE ResultInv'
  BY <1>3 DEF Suppress, nextDetection, LedgerInv, ResultInv
<1>4. ASSUME NEW outcome \in {"eof", "error"}, Return(outcome) PROVE ResultInv'
  <2>1. canonicalOrder(records)' = canonicalOrder(records)
    BY <1>4 DEF Return, canonicalOrder, precedes
  <2> QED
    BY <1>4, <2>1 DEF Return, ResultInv
<1>5. CASE UNCHANGED <<seen, records, status, returned>>
  <2>1. canonicalOrder(records)' = canonicalOrder(records)
    BY <1>5 DEF canonicalOrder, precedes
  <2> QED
    BY <1>5, <2>1 DEF ResultInv
<1> QED
  BY <1>1, <1>2, <1>3, <1>4, <1>5 DEF Next, Deliver, Settle, Finish, HostStep, Done, Exit, Spawn, vars, loopVars

LEMMA ResultIsCanonical ==
    ASSUME TypeOK, LedgerInv, ResultInv
    PROVE  ResultCanonical
<1> DEFINE n == Len(records)
<1> SUFFICES ASSUME status # "running"
             PROVE  /\ Len(returned) = n
                    /\ \A k \in DOMAIN records : \E j \in DOMAIN returned : returned[j] = records[k]
                    /\ \A j \in 1..(Len(returned) - 1) :
                          LET a == returned[j]  b == returned[j + 1]
                              qa == seen[a.at].seq  qb == seen[b.at].seq
                          IN \/ qa < qb
                             \/ qa = qb /\ RuleIDOrder[a.rule] < RuleIDOrder[b.rule]
                             \/ qa = qb /\ a.rule = b.rule /\ a.at < b.at
  BY DEF ResultCanonical
<1>1. records \in Seq(Record) /\ n \in Nat /\ DOMAIN records = 1..n /\ returned = canonicalOrder(records)
  BY DEF TypeOK, ResultInv
<1>2. ASSUME NEW i \in 1..n
      PROVE  seen[records[i].at].seq \in Nat /\ records[i].rule \in Rules /\ records[i].at \in Nat
  <2>1. records[i].at \in 1..Len(seen) /\ seen \in Seq(Event)
    BY <1>1 DEF LedgerInv, TypeOK
  <2>2. seen[records[i].at] \in Event
    BY <2>1, ElementOfSeq
  <2>3. records[i] \in Record
    BY <1>1, ElementOfSeq
  <2> QED
    BY <2>2, <2>3 DEF Event, Record
<1>3. sortable(records)
  BY <1>2, RuleIDsDiffer DEF sortable
<1>4. /\ returned = [k \in 1..n |-> returned[k]]
      /\ \A k \in 1..n : \E i \in 1..n : returned[k] = records[i] /\ place(records, i) = k
  BY <1>1, <1>3, SortedByPlace
<1>5. Len(returned) = n /\ DOMAIN returned = 1..n
  <2>1. \A k \in 1..n : returned[k] \in Record
    BY <1>1, <1>4, ElementOfSeq
  <2>2. returned \in Seq(Record)
    BY <1>1, <1>4, <2>1, IsASeq
  <2> QED
    BY <1>1, <1>4, <2>2, LenProperties
<1>6. ASSUME NEW k \in 1..n PROVE \E j \in 1..n : returned[j] = records[k]
  <2>1. place(records, k) \in 1..n
    BY <1>1, <1>3, PlacesInOrder
  <2>2. PICK i \in 1..n : returned[place(records, k)] = records[i] /\ place(records, i) = place(records, k)
    BY <1>4, <2>1
  <2>3. i = k
    BY <1>1, <1>3, <2>2, PlacesInOrder
  <2> QED
    BY <2>1, <2>2, <2>3
<1>7. ASSUME NEW j \in 1..(n - 1)
      PROVE  LET a == returned[j]  b == returned[j + 1]
                 qa == seen[a.at].seq  qb == seen[b.at].seq
             IN \/ qa < qb
                \/ qa = qb /\ RuleIDOrder[a.rule] < RuleIDOrder[b.rule]
                \/ qa = qb /\ a.rule = b.rule /\ a.at < b.at
  <2>1. j \in 1..n /\ j + 1 \in 1..n /\ ~(j + 1 < j) /\ j # j + 1
    BY <1>1
  <2>2. PICK x \in 1..n : returned[j] = records[x] /\ place(records, x) = j
    BY <1>4, <2>1
  <2>3. PICK y \in 1..n : returned[j + 1] = records[y] /\ place(records, y) = j + 1
    BY <1>4, <2>1
  <2>4. x # y /\ ~precedes(records, y, x)
    BY <1>1, <1>3, <2>1, <2>2, <2>3, PlacesInOrder
  <2>5. precedes(records, x, y)
    BY <1>1, <1>3, <2>4, PrecedesIsOrder
  <2>6. CASE x < y /\ RuleIDOrder[records[x].rule] = RuleIDOrder[records[y].rule]
    <3>1. records[x].rule = records[y].rule
      BY <1>2, <2>6, RuleIDsDiffer
    <3>2. records[x].at # records[y].at
      BY <1>1, <2>4, <3>1 DEF LedgerInv
    <3>3. records[x].at < records[y].at
      BY <1>1, <1>2, <2>6, <3>2 DEF ResultInv
    <3> QED
      BY <2>2, <2>3, <2>5, <3>1, <3>3 DEF precedes
  <2>7. CASE ~(x < y /\ RuleIDOrder[records[x].rule] = RuleIDOrder[records[y].rule])
    BY <2>2, <2>3, <2>5, <2>7 DEF precedes
  <2> QED
    BY <2>6, <2>7
<1> QED
  BY <1>1, <1>5, <1>6, <1>7

\* Every record reaches the caller once, in the canonical order, and every sink
\* that never failed, in the order of handling.
THEOREM RecordsReachEveryone == Spec => []RecordsReachAll
<1>1. Init => HealthySinkSeesAll /\ ResultInv
  BY DEF Init, HealthySinkSeesAll, ResultInv
<1>2. TypeOK /\ LedgerInv /\ HealthySinkSeesAll /\ ResultInv /\ [Next]_vars => (HealthySinkSeesAll /\ ResultInv)'
  BY HealthySinksStep, ResultInvStep
<1>3. TypeOK /\ LedgerInv /\ HealthySinkSeesAll /\ ResultInv => RecordsReachAll
  BY ResultIsCanonical DEF RecordsReachAll
<1> QED
  BY <1>1, <1>2, <1>3, TypeCorrect, LedgerInvHolds, PTL DEF Spec
=============================================================================
