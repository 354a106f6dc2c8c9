---------------------------- MODULE BackendsProofs ----------------------------
(***************************************************************************)
(* What the backends promise, proved for any number of clients, ids,       *)
(* scans, sensors, bundles, sessions and faults.                           *)
(*                                                                         *)
(* A behaviour of BackendsSpec is one of each backend's own specification  *)
(* (BackendsImplementComponents), so that what holds of a component holds  *)
(* of the composition.                                                     *)
(***************************************************************************)
EXTENDS Backends, Integers, FiniteSetTheorems, FunctionTheorems, WellFoundedInduction, TLAPS

(***************************************************************************)
(*                             The composition                             *)
(***************************************************************************)
LEMMA BackendsInitMaps ==
  BackendsInit => Init /\ Forensics!Init /\ Registry!Init /\ Agents!AgentInit
BY DEF BackendsInit

LEMMA BackendsStepMaps ==
  [BackendsNext]_<<vars, forensicsVars, registryVars, agentVars, backend>> =>
    /\ [Next]_vars /\ [Forensics!Next]_(Forensics!vars)
    /\ [Registry!Next]_(Registry!vars) /\ [Agents!AgentNext]_(Agents!agentVars)
<1> SUFFICES ASSUME [BackendsNext]_<<vars, forensicsVars, registryVars, agentVars, backend>>
             PROVE  /\ [Next]_vars /\ [Forensics!Next]_(Forensics!vars)
                    /\ [Registry!Next]_(Registry!vars) /\ [Agents!AgentNext]_(Agents!agentVars)
  OBVIOUS
<1> USE DEF forensicsVars, registryVars, agentVars, Forensics!vars, Registry!vars, Agents!agentVars
<1>1. CASE ScanStep
  BY <1>1 DEF ScanStep
<1>2. CASE ForensicsStep
  BY <1>2 DEF ForensicsStep
<1>3. CASE RegistryStep
  BY <1>3 DEF RegistryStep
<1>4. CASE AgentStep
  BY <1>4 DEF AgentStep
<1>5. CASE AgentsDone \/ UNCHANGED <<vars, forensicsVars, registryVars, agentVars, backend>>
  BY <1>5 DEF AgentsDone
<1> QED
  BY <1>1, <1>2, <1>3, <1>4, <1>5 DEF BackendsNext

\* Whichever backend is at work, each of them behaves as its own module says: the
\* scan store, the forensics directory, the registry and the agents' server share
\* no state.
THEOREM BackendsImplementComponents ==
  BackendsSpec => /\ Spec /\ Forensics!Spec /\ Registry!Spec
                  /\ Agents!AgentInit /\ [][Agents!AgentNext]_(Agents!agentVars)
BY BackendsInitMaps, BackendsStepMaps, PTL DEF BackendsSpec, Spec, Forensics!Spec, Registry!Spec

(***************************************************************************)
(*                             The scan store                              *)
(*                                                                         *)
(* StoreInv says what the temporary files and the directory hold at each   *)
(* step of a Put, and that every record of the directory has an index      *)
(* entry while the store serves.                                           *)
(***************************************************************************)
\* A client about to rename holds its whole scan, and one about to return has
\* put a record there.
PutsInv ==
    \A c \in Clients :
       /\ pc[c] = "rename" => temp[c] = job[c].scan
       /\ pc[c] = "return" => disk[job[c].id] \in Scans

\* The directory never holds a torn record, and holds one for every
\* acknowledged id.
DiskInv ==
    /\ disk \in [IDs -> Scans \cup {NoScan}]
    /\ \A id \in acked : disk[id] \in Scans

\* A client works only while the process serves, and whatever is on disk, or
\* on its way there, is in the index.
IndexInv ==
    /\ phase # "serving" => \A c \in Clients : pc[c] = "idle"
    /\ phase = "serving" =>
          /\ \A c \in Clients : pc[c] # "idle" => scans[job[c].id] # NoScan
          /\ \A id \in IDs : disk[id] \in Scans => scans[id] # NoScan

StoreInv == TypeOK /\ PutsInv /\ DiskInv /\ IndexInv

-----------------------------------------------------------------------------
\* Every reachable state is well typed.
THEOREM TypeCorrect == Spec => []TypeOK
<1> USE StoreAssumption
<1>1. Init => TypeOK
  BY DEF Init, TypeOK, Empty, File
<1>2. TypeOK /\ [Next]_vars => TypeOK'
  <2> SUFFICES ASSUME TypeOK, [Next]_vars PROVE TypeOK'
    OBVIOUS
  <2> USE DEF TypeOK, File
  <2>1. CASE Crash
    BY <2>1 DEF Crash, Empty
  <2>2. CASE Open
    BY <2>2 DEF Open, loaded, readable
  <2>3. ASSUME NEW c \in Clients, WriteTemp(c) PROVE TypeOK'
    BY <2>3 DEF WriteTemp
  <2>4. ASSUME NEW c \in Clients, Rename(c) PROVE TypeOK'
    BY <2>4 DEF Rename
  <2>5. ASSUME NEW c \in Clients, Return(c) PROVE TypeOK'
    BY <2>5 DEF Return
  <2>6. ASSUME NEW c \in Clients, SaveFails(c) PROVE TypeOK'
    BY <2>6 DEF SaveFails
  <2>7. ASSUME NEW c \in Clients, NEW id \in IDs, NEW sc \in Scans, Put(c, id, sc)
        PROVE  TypeOK'
    BY <2>7 DEF Put, indexed
  <2>8. CASE UNCHANGED vars
    BY <2>8 DEF vars
  <2> QED
    BY <2>1, <2>2, <2>3, <2>4, <2>5, <2>6, <2>7, <2>8 DEF Next
<1> QED
  BY <1>1, <1>2, PTL DEF Spec

-----------------------------------------------------------------------------
\* Without records load would refuse, the invariant is inductive.
THEOREM StoreInvariant ==
    ASSUME Oversized = {} PROVE Spec => []StoreInv
<1> USE StoreAssumption
<1>1. Init => StoreInv
  BY DEF Init, StoreInv, TypeOK, PutsInv, DiskInv, IndexInv, Empty, File
<1>2. StoreInv /\ TypeOK' /\ [Next]_vars => StoreInv'
  <2> SUFFICES ASSUME StoreInv, TypeOK', [Next]_vars
               PROVE  PutsInv' /\ DiskInv' /\ IndexInv'
    BY DEF StoreInv
  <2> USE DEF StoreInv, TypeOK, PutsInv, DiskInv, IndexInv
  <2>1. CASE Crash
    BY <2>1 DEF Crash
  <2>2. CASE Open
    <3>1. \A id \in IDs : disk[id] \in Scans => readable(id)
      BY DEF readable
    <3>2. \A id \in IDs : disk[id] \in Scans => scans'[id] = disk[id]
      BY <2>2, <3>1 DEF Open, loaded
    <3>3. UNCHANGED <<disk, pc, job, temp, acked>> /\ \A c \in Clients : pc[c] = "idle"
      BY <2>2 DEF Open
    <3> QED
      BY <3>2, <3>3
  <2>3. ASSUME NEW c \in Clients, WriteTemp(c)
        PROVE  PutsInv' /\ DiskInv' /\ IndexInv'
    BY <2>3 DEF WriteTemp
  <2>4. ASSUME NEW c \in Clients, Rename(c)
        PROVE  PutsInv' /\ DiskInv' /\ IndexInv'
    <3>1. /\ disk' = [disk EXCEPT ![job[c].id] = job[c].scan]
          /\ job[c].id \in IDs /\ job[c].scan \in Scans
      BY <2>4 DEF Rename
    <3>2. PutsInv'
      BY <2>4, <3>1 DEF Rename
    <3>3. DiskInv'
      BY <2>4, <3>1 DEF Rename
    <3>4. IndexInv'
      BY <2>4, <3>1 DEF Rename
    <3> QED
      BY <3>2, <3>3, <3>4
  <2>5. ASSUME NEW c \in Clients, Return(c)
        PROVE  PutsInv' /\ DiskInv' /\ IndexInv'
    BY <2>5 DEF Return
  <2>6. ASSUME NEW c \in Clients, SaveFails(c)
        PROVE  PutsInv' /\ DiskInv' /\ IndexInv'
    BY <2>6 DEF SaveFails
  <2>7. ASSUME NEW c \in Clients, NEW id \in IDs, NEW sc \in Scans, Put(c, id, sc)
        PROVE  PutsInv' /\ DiskInv' /\ IndexInv'
    <3>1. PutsInv'
      BY <2>7 DEF Put
    <3>2. DiskInv'
      BY <2>7 DEF Put
    <3>3. IndexInv'
      BY <2>7 DEF Put, indexed
    <3> QED
      BY <3>1, <3>2, <3>3
  <2>8. CASE UNCHANGED vars
    BY <2>8 DEF vars
  <2> QED
    BY <2>1, <2>2, <2>3, <2>4, <2>5, <2>6, <2>7, <2>8 DEF Next
<1> QED
  BY <1>1, <1>2, TypeCorrect, PTL DEF Spec

\* An acknowledged scan is in the index whenever the store serves.
THEOREM AcknowledgedIsServed ==
    ASSUME Oversized = {} PROVE Spec => []AckedIsServed
<1>1. StoreInv => AckedIsServed
  BY DEF StoreInv, TypeOK, DiskInv, IndexInv, AckedIsServed
<1> QED
  BY <1>1, StoreInvariant, PTL

-----------------------------------------------------------------------------
\* What keeps memory and directory together: an id that is not unsettled has at
\* most one Put under way, whose scan the index holds already and, once renamed,
\* the file holds too.
working(c, id) == pc[c] # "idle" /\ job[c].id = id

AgreeInv ==
    phase = "serving" =>
       \A id \in IDs \ unsettled :
          /\ \A c, d \in Clients : working(c, id) /\ working(d, id) => c = d
          /\ \A c \in Clients : working(c, id) => scans[id] = job[c].scan
          /\ \A c \in Clients : working(c, id) /\ pc[c] = "return" => disk[id] = job[c].scan
          /\ (\A c \in Clients : ~working(c, id)) => scans[id] = disk[id]

LEMMA AgreeStep ==
    ASSUME Oversized = {}, StoreInv, AgreeInv, [Next]_vars PROVE AgreeInv'
<1> USE StoreAssumption DEF TypeOK, PutsInv, AgreeInv, working
<1>0. TypeOK /\ PutsInv /\ DiskInv /\ IndexInv
  BY DEF StoreInv
<1>1. CASE Crash
  BY <1>1 DEF Crash
<1>2. CASE Open
  <2>1. \A id \in IDs : scans'[id] = disk[id]
    BY <1>0, <1>2 DEF Open, loaded, readable, DiskInv
  <2>2. UNCHANGED <<disk, pc, job>> /\ \A c \in Clients : pc[c] = "idle"
    BY <1>0, <1>2 DEF Open, IndexInv
  <2> QED
    BY <2>1, <2>2
<1>3. ASSUME NEW c \in Clients, WriteTemp(c) PROVE AgreeInv'
  BY <1>0, <1>3 DEF WriteTemp
<1>4. ASSUME NEW c \in Clients, Rename(c) PROVE AgreeInv'
  <2>1. /\ disk' = [disk EXCEPT ![job[c].id] = job[c].scan]
        /\ job[c].id \in IDs /\ working(c, job[c].id)
        /\ pc' = [pc EXCEPT ![c] = "return"]
        /\ UNCHANGED <<phase, scans, job, unsettled>>
    BY <1>0, <1>4 DEF Rename
  <2>2. disk \in [IDs -> Scans \cup {NoScan}]
    BY <1>0 DEF DiskInv
  <2> QED
    BY <1>0, <2>1, <2>2
<1>5. ASSUME NEW c \in Clients, Return(c) PROVE AgreeInv'
  BY <1>0, <1>5 DEF Return
<1>6. ASSUME NEW c \in Clients, SaveFails(c) PROVE AgreeInv'
  BY <1>0, <1>6 DEF SaveFails
<1>7. ASSUME NEW c \in Clients, NEW id \in IDs, NEW sc \in Scans, Put(c, id, sc)
      PROVE  AgreeInv'
  BY <1>0, <1>7 DEF Put, indexed, inFlight
<1>8. CASE UNCHANGED vars
  BY <1>8 DEF vars
<1> QED
  BY <1>1, <1>2, <1>3, <1>4, <1>5, <1>6, <1>7, <1>8 DEF Next

\* Memory and directory agree on every id whose last saves succeeded and did
\* not overlap, and which no Put is under way for, whatever crashes went before.
THEOREM MemoryAgrees ==
    ASSUME Oversized = {} PROVE Spec => []MemoryAgreesWithDisk
<1>1. Init => AgreeInv
  BY DEF Init, AgreeInv, Empty, working
<1>2. StoreInv /\ AgreeInv /\ [Next]_vars => AgreeInv'
  BY AgreeStep
<1>3. AgreeInv => MemoryAgreesWithDisk
  BY DEF AgreeInv, working, MemoryAgreesWithDisk, inFlight
<1> QED
  BY <1>1, <1>2, <1>3, StoreInvariant, PTL DEF Spec

-----------------------------------------------------------------------------
\* The store implements the durable map: a rename commits, a return
\* acknowledges, and every other step, crash and restart included, stutters.
THEOREM StoreImplementsInventory ==
    ASSUME Oversized = {} PROVE Spec => InventorySpec
<1> USE StoreAssumption
<1> DEFINE held == [id \in IDs |-> IF readable(id) THEN disk[id] ELSE NoScan]
<1>1. Init => Inventory!Init
  BY DEF Init, Inventory!Init, readable, Empty
<1>2. StoreInv /\ [Next]_vars => [Inventory!Next]_<<held, acked>>
  <2> SUFFICES ASSUME StoreInv, [Next]_vars
               PROVE  Inventory!Next \/ UNCHANGED <<held, acked>>
    BY DEF readable
  <2> USE DEF StoreInv, TypeOK, PutsInv, DiskInv
  <2>1. UNCHANGED disk => UNCHANGED held
    BY DEF readable
  <2>2. ASSUME NEW c \in Clients, Rename(c) PROVE Inventory!Next
    <3>1. /\ job[c].id \in IDs /\ job[c].scan \in Scans
          /\ disk' = [disk EXCEPT ![job[c].id] = job[c].scan] /\ UNCHANGED acked
      BY <2>2 DEF Rename
    <3>2. held' = [held EXCEPT ![job[c].id] = job[c].scan]
      BY <3>1 DEF readable
    <3> QED
      BY <3>1, <3>2 DEF Inventory!Next, Inventory!Commit
  <2>3. ASSUME NEW c \in Clients, Return(c) PROVE Inventory!Next
    <3>1. /\ job[c].id \in IDs /\ disk[job[c].id] \in Scans
          /\ acked' = acked \cup {job[c].id} /\ UNCHANGED disk
      BY <2>3 DEF Return
    <3>2. held[job[c].id] # NoScan
      BY <3>1 DEF readable
    <3> QED
      BY <2>1, <3>1, <3>2 DEF Inventory!Next, Inventory!Ack
  <2>4. CASE \/ Crash \/ Open \/ UNCHANGED vars
             \/ \E c \in Clients : \/ WriteTemp(c) \/ SaveFails(c)
                                   \/ \E id \in IDs, sc \in Scans : Put(c, id, sc)
    BY <2>1, <2>4 DEF Crash, Open, WriteTemp, SaveFails, Put, vars
  <2> QED
    BY <2>2, <2>3, <2>4 DEF Next
<1> QED
  BY <1>1, <1>2, StoreInvariant, PTL DEF Spec, InventorySpec, Inventory!Spec

(***************************************************************************)
(*                        The forensics directory                          *)
(*                                                                         *)
(* A sealed bundle could only be written over by a sensor that holds its   *)
(* file open.  The exclusive create gives the file to one sensor, and      *)
(* nothing but that sensor's write changes what it holds: HolderInv.       *)
(***************************************************************************)
HolderInv ==
  /\ file \in [IDs -> {"absent", "empty", "torn", "sealed"}]
  /\ stage \in [Clients -> {"idle", "stat", "create", "write"}]
  /\ bundle \in [Clients -> IDs]
  /\ \A w \in Clients : stage[w] = "write" => file[bundle[w]] = "empty"
  /\ \A v, w \in Clients :
        stage[v] = "write" /\ stage[w] = "write" /\ bundle[v] = bundle[w] => v = w

SealedStays == \A e \in IDs : file[e] = "sealed" => file'[e] = "sealed"

LEMMA HolderInit == Forensics!Init => HolderInv
BY DEF Forensics!Init, HolderInv

LEMMA HolderStep ==
  ASSUME HolderInv, [Forensics!Next]_(Forensics!vars) PROVE HolderInv' /\ SealedStays
<1> USE DEF HolderInv, SealedStays
<1>1. ASSUME NEW w \in Clients, NEW e \in IDs, Forensics!Call(w, e)
      PROVE  HolderInv' /\ SealedStays
  BY <1>1 DEF Forensics!Call
<1>2. ASSUME NEW w \in Clients, Forensics!StatFound(w) PROVE HolderInv' /\ SealedStays
  BY <1>2 DEF Forensics!StatFound, Forensics!Return
<1>3. ASSUME NEW w \in Clients, Forensics!StatMissing(w) PROVE HolderInv' /\ SealedStays
  BY <1>3 DEF Forensics!StatMissing
<1>4. ASSUME NEW w \in Clients, Forensics!Create(w) PROVE HolderInv' /\ SealedStays
  BY <1>4 DEF Forensics!Create, Forensics!creates
<1>5. ASSUME NEW w \in Clients, Forensics!CreateLoses(w) PROVE HolderInv' /\ SealedStays
  BY <1>5 DEF Forensics!CreateLoses, Forensics!Return
<1>6. ASSUME NEW w \in Clients, Forensics!Write(w) PROVE HolderInv' /\ SealedStays
  BY <1>6 DEF Forensics!Write, Forensics!Return
<1>7. ASSUME NEW w \in Clients, Forensics!WriteFails(w) PROVE HolderInv' /\ SealedStays
  BY <1>7 DEF Forensics!WriteFails
<1>8. ASSUME NEW w \in Clients, Forensics!Crash(w) PROVE HolderInv' /\ SealedStays
  <2>1. PICK left \in {"empty", "torn", file[bundle[w]]} :
           /\ file' = [file EXCEPT ![bundle[w]] = left]
           /\ stage[w] = "write" \/ left = file[bundle[w]]
    BY <1>8 DEF Forensics!Crash
  <2>2. stage' = [stage EXCEPT ![w] = "idle"] /\ UNCHANGED bundle
    BY <1>8 DEF Forensics!Crash
  <2> QED
    BY <2>1, <2>2
<1>9. CASE UNCHANGED Forensics!vars
  BY <1>9 DEF Forensics!vars
<1> QED
  BY <1>1, <1>2, <1>3, <1>4, <1>5, <1>6, <1>7, <1>8, <1>9 DEF Forensics!Next, Forensics!Step

\* A sealed bundle keeps its content, whatever races, failed writes, crashes and
\* retries of WriteToDir follow (forensics.go).
THEOREM SealedIsKept == BackendsSpec => WriteOnce
<1>1. HolderInv /\ [Forensics!Next]_(Forensics!vars) => [SealedStays]_file
  BY HolderStep
<1>2. HolderInv /\ [Forensics!Next]_(Forensics!vars) => HolderInv'
  BY HolderStep
<1>3. SealedStays <=> (\A e \in IDs : file[e] = "sealed" => file'[e] = "sealed")
  BY DEF SealedStays
<1>4. Forensics!Spec => [][\A e \in IDs : file[e] = "sealed" => file'[e] = "sealed"]_file
  BY <1>1, <1>2, <1>3, HolderInit, PTL DEF Forensics!Spec
<1> QED
  BY <1>4, BackendsImplementComponents, PTL DEF WriteOnce

(***************************************************************************)
(*                              The registry                               *)
(*                                                                         *)
(* RegistryInv says what a push has stored at each of its steps; FetchInv  *)
(* that a reader has every bundle it looks for still ahead of it, unless a *)
(* fault hid it.                                                           *)
(***************************************************************************)
Artifacts == Bundles \cup Foreign

RegistryInv ==
  /\ hasAPI \in BOOLEAN /\ bearer \in BOOLEAN /\ config \in BOOLEAN
  /\ push \in [Bundles -> Registry!PushSteps]
  /\ Foreign \subseteq manifests /\ manifests \subseteq blobs /\ blobs \subseteq Artifacts
  /\ tagged = IF hasAPI THEN {} ELSE Foreign
  /\ (\E b \in manifests : b \in Bundles) => config
  /\ \A b \in Bundles :
       /\ push[b] \in {"config", "upload config", "manifest", "done"} => b \in blobs
       /\ push[b] \in {"manifest", "done"} => config
       /\ push[b] = "done" => b \in manifests

\* What a reader must not take for absent.
sought == IF hasAPI THEN fetch.acked ELSE fetch.acked \cap Foreign

ahead(todo) == {todo[i] : i \in 1..Len(todo)}

FetchInv ==
  /\ fetch \in [step : Registry!FetchSteps, todo : Seq(Artifacts), result : Registry!Results,
                acked : SUBSET Artifacts, hidden : SUBSET Artifacts]
  /\ fetch.acked \subseteq manifests
  /\ fetch.step = "tag" => ~hasAPI
  /\ fetch.step # "idle" => fetch.result = "none yet"
  /\ fetch.step \in {"manifest", "blob"} =>
        /\ fetch.todo # <<>> /\ ahead(fetch.todo) \subseteq manifests
        /\ sought \subseteq ahead(fetch.todo) \cup fetch.hidden
  /\ fetch.result = NoBundle => sought \subseteq fetch.hidden

LEMMA Counted ==
  ASSUME NEW n \in Nat PROVE IsFiniteSet(1..n) /\ Cardinality(1..n) = n
BY FS_Interval

LEMMA EnumerationCovers ==
  ASSUME NEW S, IsFiniteSet(S), NEW order \in Registry!SetToSeqs(S)
  PROVE  order \in Seq(S) /\ Len(order) = Cardinality(S) /\ {order[i] : i \in 1..Len(order)} = S
<1> DEFINE D == 1..Cardinality(S)
<1>1. Cardinality(S) \in Nat /\ Registry!Cardinality(S) = Cardinality(S)
  BY FS_CardinalityType DEF Registry!Cardinality, Cardinality
<1>2. IsFiniteSet(D) /\ Cardinality(D) = Cardinality(S)
  BY <1>1, FS_Interval
<1>3. order \in [D -> S] /\ \A i, j \in D : i # j => order[i] # order[j]
  BY <1>1 DEF Registry!SetToSeqs
<1>4. order \in Injection(D, S)
  BY <1>3 DEF Injection, IsInjective
<1>5. order \in Surjection(D, S)
  BY <1>2, <1>4, FS_Injection
<1> QED
  BY <1>1, <1>3, <1>5 DEF Surjection

LEMMA RegistryInit == Registry!Init => RegistryInv /\ FetchInv
<1>0. <<>> \in Seq(Artifacts)
  OBVIOUS
<1> SUFFICES ASSUME Registry!Init PROVE RegistryInv /\ FetchInv
  OBVIOUS
<1> USE BackendsAssumption DEF BackendsAssumption, Registry!Init, Artifacts
<1>1. RegistryInv
  BY DEF RegistryInv, Registry!PushSteps
<1>2. fetch \in [step : Registry!FetchSteps, todo : Seq(Artifacts), result : Registry!Results,
                 acked : SUBSET Artifacts, hidden : SUBSET Artifacts]
  BY <1>0 DEF Registry!FetchSteps, Registry!Results
<1>3. fetch.step = "idle" /\ fetch.result = "none yet" /\ fetch.acked = {}
  OBVIOUS
<1> QED
  BY <1>1, <1>2, <1>3 DEF FetchInv

LEMMA PushStep ==
  ASSUME RegistryInv, [Registry!Next]_(Registry!vars) PROVE RegistryInv'
<1> USE BackendsAssumption DEF BackendsAssumption, RegistryInv, Registry!PushSteps, Artifacts
<1>1. ASSUME NEW b \in Bundles, Registry!PutStep(b) PROVE RegistryInv'
  <2>1. /\ push' = [push EXCEPT ![b] = Registry!nextStep(push[b])]
        /\ push[b] \notin {"done", "failed"}
        /\ blobs' = IF push[b] = "upload artifact" THEN blobs \cup {b} ELSE blobs
        /\ config' = (config \/ push[b] = "upload config")
        /\ manifests' = IF push[b] = "manifest" THEN manifests \cup {b} ELSE manifests
        /\ UNCHANGED <<hasAPI, bearer, tagged>>
    BY <1>1 DEF Registry!PutStep, Registry!advance
  <2>2. CASE push[b] = "new"
    BY <2>1, <2>2 DEF Registry!nextStep
  <2>3. CASE push[b] = "artifact"
    BY <2>1, <2>3 DEF Registry!nextStep
  <2>4. CASE push[b] = "upload artifact"
    BY <2>1, <2>4 DEF Registry!nextStep
  <2>5. CASE push[b] = "config"
    BY <2>1, <2>5 DEF Registry!nextStep
  <2>6. CASE push[b] = "upload config"
    BY <2>1, <2>6 DEF Registry!nextStep
  <2>7. CASE push[b] = "manifest"
    BY <2>1, <2>7 DEF Registry!nextStep
  <2> QED
    BY <2>1, <2>2, <2>3, <2>4, <2>5, <2>6, <2>7
<1>2. ASSUME NEW b \in Bundles, Registry!PutRefused(b) PROVE RegistryInv'
  BY <1>2 DEF Registry!PutRefused, Registry!advance
<1>3. ASSUME NEW b \in Bundles, Registry!PutFault(b) PROVE RegistryInv'
  <2>1. /\ push' = [push EXCEPT ![b] = "failed"]
        /\ blobs' \in {blobs, blobs \cup {b}}
        /\ config' \in {config, TRUE}
        /\ \/ manifests' = manifests
           \/ manifests' = manifests \cup {b} /\ push[b] = "manifest"
        /\ UNCHANGED <<hasAPI, bearer, tagged>>
    BY <1>3 DEF Registry!PutFault, Registry!advance
  <2>2. config => config' = TRUE
    BY <2>1
  <2>3. CASE manifests' = manifests
    BY <2>1, <2>2, <2>3
  <2>4. CASE manifests' = manifests \cup {b} /\ push[b] = "manifest"
    <3>1. b \in blobs /\ config
      BY <2>4
    <3> QED
      BY <2>1, <2>2, <2>4, <3>1
  <2> QED
    BY <2>1, <2>3, <2>4
<1>4. CASE UNCHANGED <<hasAPI, bearer, blobs, config, manifests, tagged, push>>
  BY <1>4
<1> QED
  BY <1>1, <1>2, <1>3, <1>4
  DEF Registry!Next, Registry!vars, Registry!StartFetch, Registry!GetReferrers,
      Registry!NoReferrersAPI, Registry!GetTag, Registry!GetManifest, Registry!GetBlob,
      Registry!ListFault, Registry!TagFault, Registry!ContentFault

LEMMA AheadSplits ==
  ASSUME NEW todo \in Seq(Artifacts), todo # <<>>
  PROVE  /\ Head(todo) \in Artifacts /\ Tail(todo) \in Seq(Artifacts)
         /\ ahead(todo) = {Head(todo)} \cup ahead(Tail(todo))
         /\ Len(todo) = 1 => ahead(todo) = {Head(todo)}
         /\ Len(todo) # 1 => Tail(todo) # <<>>
<1>1. /\ Len(todo) \in Nat \ {0} /\ Len(Tail(todo)) = Len(todo) - 1 /\ Head(todo) = todo[1]
      /\ \A i \in 1..Len(Tail(todo)) : Tail(todo)[i] = todo[i + 1]
      /\ Tail(todo) \in Seq(Artifacts) /\ Head(todo) \in Artifacts
  OBVIOUS
<1>2. \A i \in 1..Len(todo) : i = 1 \/ (i - 1 \in 1..Len(Tail(todo)) /\ todo[i] = Tail(todo)[i - 1])
  BY <1>1
<1>3. ahead(todo) \subseteq {Head(todo)} \cup ahead(Tail(todo))
  BY <1>1, <1>2 DEF ahead
<1>4. {Head(todo)} \cup ahead(Tail(todo)) \subseteq ahead(todo)
  BY <1>1 DEF ahead
<1>5. Len(todo) = 1 => ahead(Tail(todo)) = {}
  BY <1>1 DEF ahead
<1>6. Len(todo) # 1 => Tail(todo) # <<>>
  BY <1>1
<1> QED
  BY <1>1, <1>3, <1>4, <1>5, <1>6

\* A reader that is not touched keeps what it has, whatever is pushed meanwhile.
LEMMA FetchKept ==
  ASSUME FetchInv, UNCHANGED <<hasAPI, fetch>>, manifests \subseteq manifests'
  PROVE  FetchInv'
BY DEF FetchInv, sought

\* The descriptors of an index are ahead of the reader, all of them.
LEMMA ListedStep ==
  ASSUME RegistryInv, FetchInv, NEW index \in SUBSET manifests, Registry!listed(index),
         sought \subseteq index, fetch.step \in {"referrers", "tag"}, UNCHANGED <<hasAPI, manifests>>
  PROVE  FetchInv'
<1> USE DEF Registry!Results, Registry!FetchSteps
<1>1. manifests \subseteq Artifacts
  BY DEF RegistryInv
<1>2. CASE index = {}
  <2>1. fetch' = [fetch EXCEPT !.step = "idle", !.todo = <<>>, !.result = NoBundle,
                               !.hidden = fetch.hidden]
    BY <1>2 DEF Registry!listed, Registry!answer, Registry!answerWithout
  <2>2. <<>> \in Seq(Artifacts)
    OBVIOUS
  <2>3. sought = {} /\ sought' = {}
    BY <1>2, <2>1 DEF FetchInv, sought
  <2> QED
    BY <2>1, <2>2, <2>3 DEF FetchInv
<1>3. CASE index # {}
  <2>1. PICK order \in Registry!SetToSeqs(index) :
           fetch' = [fetch EXCEPT !.step = "manifest", !.todo = order]
    BY <1>3 DEF Registry!listed
  <2>2. IsFiniteSet(index)
    BY <1>1, FS_Subset, BackendsAssumption DEF BackendsAssumption, Artifacts
  <2>3. order \in Seq(Artifacts) /\ ahead(order) = index /\ order # <<>>
    BY <1>1, <1>3, <2>2, EnumerationCovers DEF ahead
  <2>4. sought' = sought /\ fetch.result = "none yet"
    BY <2>1 DEF FetchInv, sought
  <2>5. NoBundle # "none yet"
    BY BackendsAssumption DEF BackendsAssumption
  <2> QED
    BY <2>1, <2>3, <2>4, <2>5 DEF FetchInv
<1> QED
  BY <1>2, <1>3

\* Passing over a descriptor leaves the rest ahead; whose it was is noted.
LEMMA SkipStep ==
  ASSUME RegistryInv, FetchInv, fetch.step \in {"manifest", "blob"},
         Registry!skip(fetch.hidden \cup {Head(fetch.todo)}), UNCHANGED <<hasAPI, manifests>>
  PROVE  FetchInv'
<1> DEFINE h == fetch.hidden \cup {Head(fetch.todo)}
<1> USE DEF Registry!Results, Registry!FetchSteps
<1>1. fetch.todo \in Seq(Artifacts) /\ fetch.todo # <<>> /\ ahead(fetch.todo) \subseteq manifests
  BY DEF FetchInv
<1>2. /\ Head(fetch.todo) \in Artifacts /\ Tail(fetch.todo) \in Seq(Artifacts)
      /\ ahead(fetch.todo) = {Head(fetch.todo)} \cup ahead(Tail(fetch.todo))
      /\ Len(fetch.todo) = 1 => ahead(fetch.todo) = {Head(fetch.todo)}
      /\ Len(fetch.todo) # 1 => Tail(fetch.todo) # <<>>
  BY <1>1, AheadSplits
<1>3. sought \subseteq ahead(fetch.todo) \cup fetch.hidden
  BY DEF FetchInv
<1>4. h \in SUBSET Artifacts
  BY <1>2 DEF FetchInv
<1>5. CASE Len(fetch.todo) = 1
  <2>1. fetch' = [fetch EXCEPT !.step = "idle", !.todo = <<>>, !.result = NoBundle, !.hidden = h]
    BY <1>5 DEF Registry!skip, Registry!answerWithout
  <2>2. <<>> \in Seq(Artifacts)
    OBVIOUS
  <2>3. sought' = sought
    BY <2>1 DEF FetchInv, sought
  <2>4. sought \subseteq h
    BY <1>2, <1>3, <1>5
  <2> QED
    BY <1>4, <2>1, <2>2, <2>3, <2>4 DEF FetchInv
<1>6. CASE Len(fetch.todo) # 1
  <2>1. fetch' = [fetch EXCEPT !.step = "manifest", !.todo = Tail(fetch.todo), !.hidden = h]
    BY <1>6 DEF Registry!skip
  <2>2. sought' = sought
    BY <2>1 DEF FetchInv, sought
  <2>3. sought \subseteq ahead(Tail(fetch.todo)) \cup h
    BY <1>2, <1>3
  <2>4. fetch.result = "none yet" /\ NoBundle # "none yet"
    BY BackendsAssumption DEF BackendsAssumption, FetchInv
  <2> QED
    BY <1>1, <1>2, <1>4, <1>6, <2>1, <2>2, <2>3, <2>4 DEF FetchInv
<1> QED
  BY <1>5, <1>6

LEMMA FetchStep ==
  ASSUME RegistryInv, FetchInv, [Registry!Next]_(Registry!vars) PROVE FetchInv'
<1> USE DEF Registry!Results, Registry!FetchSteps
<1>0. NoBundle \notin Artifacts \cup {"error", "none yet"} /\ <<>> \in Seq(Artifacts)
  <2>1. NoBundle \notin Artifacts \cup {"error", "none yet"}
    BY BackendsAssumption DEF BackendsAssumption, Artifacts
  <2>2. <<>> \in Seq(Artifacts)
    OBVIOUS
  <2> QED
    BY <2>1, <2>2
<1>1. ASSUME NEW b \in Bundles, Registry!PutStep(b) \/ Registry!PutRefused(b) \/ Registry!PutFault(b)
      PROVE  FetchInv'
  <2>1. manifests \subseteq manifests' /\ UNCHANGED <<hasAPI, fetch>>
    BY <1>1 DEF Registry!PutStep, Registry!PutRefused, Registry!PutFault
  <2> QED
    BY <2>1, FetchKept
<1>2. CASE Registry!StartFetch
  <2>1. fetch' = [step |-> "referrers", todo |-> <<>>, result |-> "none yet",
                  acked |-> Registry!acked, hidden |-> {}] /\ UNCHANGED manifests
    BY <1>2 DEF Registry!StartFetch
  <2>2. Registry!acked \subseteq manifests /\ manifests \subseteq Artifacts
    BY DEF Registry!acked, RegistryInv
  <2>3. fetch' \in [step : Registry!FetchSteps, todo : Seq(Artifacts), result : Registry!Results,
                    acked : SUBSET Artifacts, hidden : SUBSET Artifacts]
    BY <1>0, <2>1, <2>2
  <2> QED
    BY <1>0, <2>1, <2>2, <2>3 DEF FetchInv
<1>3. CASE Registry!GetReferrers
  <2>1. /\ fetch.step = "referrers" /\ hasAPI /\ Registry!listed(manifests)
        /\ UNCHANGED <<hasAPI, manifests>>
    BY <1>3 DEF Registry!GetReferrers
  <2>2. sought \subseteq manifests
    BY <2>1 DEF FetchInv, sought
  <2> QED
    BY <2>1, <2>2, ListedStep
<1>4. CASE Registry!NoReferrersAPI
  <2>1. ~hasAPI /\ fetch.step = "referrers" /\ fetch' = [fetch EXCEPT !.step = "tag"]
        /\ UNCHANGED <<hasAPI, manifests>>
    BY <1>4 DEF Registry!NoReferrersAPI
  <2> QED
    BY <1>0, <2>1 DEF FetchInv, sought
<1>5. CASE Registry!GetTag
  <2>1. fetch.step = "tag" /\ Registry!listed(tagged) /\ UNCHANGED <<hasAPI, manifests>>
    BY <1>5 DEF Registry!GetTag
  <2>2. sought \subseteq tagged /\ tagged \in SUBSET manifests
    BY <2>1 DEF FetchInv, sought, RegistryInv
  <2> QED
    BY <2>1, <2>2, ListedStep
<1>6. CASE Registry!GetManifest
  <2>1. /\ fetch.step = "manifest" /\ fetch' = [fetch EXCEPT !.step = "blob"]
        /\ UNCHANGED <<hasAPI, manifests>>
    BY <1>6 DEF Registry!GetManifest
  <2> QED
    BY <1>0, <2>1 DEF FetchInv, sought
<1>7. CASE Registry!GetBlob
  <2>1. fetch.step = "blob" /\ UNCHANGED <<hasAPI, manifests>>
    BY <1>7 DEF Registry!GetBlob
  <2>2. fetch.todo \in Seq(Artifacts) /\ fetch.todo # <<>> /\ ahead(fetch.todo) \subseteq manifests
    BY <2>1 DEF FetchInv
  <2>3. Head(fetch.todo) \in Artifacts /\ Head(fetch.todo) \in blobs
    BY <2>2, AheadSplits DEF RegistryInv
  <2>4. fetch' = [fetch EXCEPT !.step = "idle", !.todo = <<>>, !.result = Head(fetch.todo),
                               !.hidden = fetch.hidden]
    BY <1>7, <2>3 DEF Registry!GetBlob, Registry!answer, Registry!answerWithout
  <2> QED
    BY <1>0, <2>1, <2>3, <2>4 DEF FetchInv, sought, Artifacts
<1>8. CASE Registry!ListFault
  <2>1. fetch' = [fetch EXCEPT !.step = "idle", !.todo = <<>>, !.result = "error",
                               !.hidden = fetch.hidden] /\ UNCHANGED <<hasAPI, manifests>>
    BY <1>8 DEF Registry!ListFault, Registry!answer, Registry!answerWithout
  <2> QED
    BY <1>0, <2>1 DEF FetchInv, sought
<1>9. CASE Registry!TagFault
  <2>1. /\ fetch.step = "tag" /\ UNCHANGED <<hasAPI, manifests>>
        /\ fetch' = [fetch EXCEPT !.step = "idle", !.todo = <<>>, !.result = NoBundle,
                                  !.hidden = tagged]
    BY <1>9 DEF Registry!TagFault, Registry!answerWithout
  <2>2. tagged = Foreign /\ ~hasAPI
    BY <2>1 DEF FetchInv, RegistryInv
  <2> QED
    BY <1>0, <2>1, <2>2 DEF FetchInv, sought, Artifacts
<1>10. CASE Registry!ContentFault
  BY <1>10, SkipStep DEF Registry!ContentFault
<1>11. CASE UNCHANGED Registry!vars
  BY <1>11, FetchKept DEF Registry!vars
<1> QED
  BY <1>1, <1>2, <1>3, <1>4, <1>5, <1>6, <1>7, <1>8, <1>9, <1>10, <1>11 DEF Registry!Next

\* What anyone can list is whole, a push that succeeded is listed, and a reader is
\* only told that nothing is attached when it is so or a fault hid what is
\* (referrers.go, verify/module.go).
THEOREM AttachedBundlesAreFound == BackendsSpec => []BundlesAreFound
<1>1. RegistryInv /\ FetchInv => BundlesAreFound
  <2> SUFFICES ASSUME RegistryInv, FetchInv
               PROVE  Registry!ListedIsComplete /\ Registry!AttachedIsFound
    BY DEF BundlesAreFound
  <2>1. Registry!ListedIsComplete
    BY DEF RegistryInv, Registry!ListedIsComplete
  <2>2. Registry!AttachedIsFound
    BY DEF FetchInv, sought, Registry!AttachedIsFound, Registry!NilMeans
  <2> QED
    BY <2>1, <2>2
<1>2. Registry!Spec => [](RegistryInv /\ FetchInv)
  BY RegistryInit, PushStep, FetchStep, PTL DEF Registry!Spec
<1> QED
  BY <1>1, <1>2, BackendsImplementComponents, PTL

(***************************************************************************)
(*                           The agents' server                            *)
(*                                                                         *)
(* AgentShape says what the state is made of; AuditInv that the log has    *)
(* exactly the attempts that got past the gate, that a scan under way is   *)
(* only kept when its entry allows it, and that a scan in the store has a  *)
(* finished entry of its own.                                              *)
(***************************************************************************)
AgentShape ==
  /\ server \in [stdio : BOOLEAN, mutations : BOOLEAN, hasStore : BOOLEAN, up : BOOLEAN]
  /\ inbox \in [Sessions -> Seq(Inbound)]
  /\ DOMAIN work = Sessions
  /\ \A c \in Sessions :
       /\ DOMAIN work[c] = {"at", "persist", "left", "scan"}
       /\ work[c].at \in {"idle", "gate", "scan", "put"} /\ work[c].persist \in BOOLEAN
  /\ audit \in Seq([session : Sessions, message : Nat, allowed : BOOLEAN])
  /\ IsFiniteSet(stored)

\* A message that starts a scan: scans, without the tools it is not.
Scanning(m) ==
  /\ m.parses /\ m.version /\ m.method = "tools/call" /\ m.tool = "scan_target"
  /\ DOMAIN m.args # {} /\ m.args.target # ""

inLog(log, c, i) == \E k \in 1..Len(log) : log[k].session = c /\ log[k].message = i

\* Session c asked for the scan of its i-th message to be kept, and the gate has seen it.
attempted(box, w, c, i) ==
  /\ i \in 1..Len(box[c]) /\ Scanning(box[c][i]) /\ box[c][i].args.persist
  /\ i < Len(box[c]) \/ w[c].at # "gate"

\* The entries whose scan has come to its end.
finished(log, box, w) ==
  {k \in 1..Len(log) : \/ log[k].message < Len(box[log[k].session])
                       \/ w[log[k].session].at = "idle"}

\* A session at work has a message to scan, and keeps the scan if that asked for it,
\* in a store, where mutations are on.
WorkInv ==
  \A c \in Sessions :
    /\ work[c].at # "idle" => Len(inbox[c]) # 0 /\ Scanning(inbox[c][Len(inbox[c])])
    /\ work[c].at \in {"scan", "put"} /\ work[c].persist =>
         server.mutations /\ server.hasStore /\ inbox[c][Len(inbox[c])].args.persist

LogInv ==
  \A c \in Sessions, i \in Nat :
    inLog(audit, c, i) <=> attempted(inbox, work, c, i) /\ ~(server.mutations /\ ~server.hasStore)

EntryInv ==
  \A k \in 1..Len(audit) :
    /\ audit[k].allowed = server.mutations
    /\ \A l \in 1..Len(audit) :
         audit[k].session = audit[l].session /\ audit[k].message = audit[l].message => k = l

KeptInv ==
  /\ ~server.mutations => stored = {}
  /\ Cardinality(stored) <= Cardinality(finished(audit, inbox, work))

AuditInv == WorkInv /\ LogInv /\ EntryInv /\ KeptInv

LEMMA AgentInitInv == Agents!AgentInit => AgentShape /\ AuditInv
<1> SUFFICES ASSUME Agents!AgentInit PROVE AgentShape /\ AuditInv
  OBVIOUS
<1>1. /\ audit = <<>> /\ stored = {} /\ inbox = [c \in Sessions |-> <<>>]
      /\ work = [c \in Sessions |-> [at |-> "idle", persist |-> FALSE, left |-> FALSE, scan |-> <<>>]]
      /\ server \in [stdio : BOOLEAN, mutations : BOOLEAN, hasStore : BOOLEAN, up : BOOLEAN]
  BY DEF Agents!AgentInit, Agents!Idle
<1>2. <<>> \in Seq(Inbound) /\ <<>> \in Seq([session : Sessions, message : Nat, allowed : BOOLEAN])
  OBVIOUS
<1>3. IsFiniteSet({}) /\ Cardinality({}) = 0
  BY FS_EmptySet
<1>4. AgentShape
  BY <1>1, <1>2, <1>3 DEF AgentShape
<1>5. finished(audit, inbox, work) = {} /\ \A c, i : ~inLog(audit, c, i)
  BY <1>1 DEF finished, inLog
<1>6. \A c \in Sessions, i \in Nat : ~attempted(inbox, work, c, i)
  BY <1>1 DEF attempted
<1>7. WorkInv
  BY <1>1 DEF WorkInv
<1>8. LogInv
  BY <1>5, <1>6 DEF LogInv
<1>9. EntryInv
  BY <1>1 DEF EntryInv
<1>10. KeptInv
  <2>1. Cardinality(stored) = 0 /\ Cardinality(finished(audit, inbox, work)) = 0
    BY <1>1, <1>3, <1>5
  <2> QED
    BY <1>1, <2>1 DEF KeptInv
<1> QED
  BY <1>4, <1>7, <1>8, <1>9, <1>10 DEF AuditInv

LEMMA ScansAreScanning ==
  ASSUME NEW m PROVE Agents!scans(m) <=> Scanning(m)
BY DEF Agents!scans, Agents!toolFails, Agents!decodes, Agents!fromStore, Scanning

\* What a step of session c leaves of the work of all.
WorkShape(w, c) ==
  /\ DOMAIN w = Sessions
  /\ \A d \in Sessions \ {c} : w[d] = work[d]
  /\ \A d \in Sessions :
       /\ DOMAIN w[d] = {"at", "persist", "left", "scan"}
       /\ w[d].at \in {"idle", "gate", "scan", "put"} /\ w[d].persist \in BOOLEAN

LEMMA WorkStep ==
  ASSUME AgentShape, NEW c \in Sessions, NEW r, work' = [work EXCEPT ![c] = r],
         DOMAIN r = {"at", "persist", "left", "scan"},
         r.at \in {"idle", "gate", "scan", "put"}, r.persist \in BOOLEAN
  PROVE  WorkShape(work', c) /\ work'[c] = r
BY DEF AgentShape, WorkShape

LEMMA IdleShape ==
  /\ DOMAIN Agents!Idle = {"at", "persist", "left", "scan"}
  /\ Agents!Idle.at = "idle" /\ Agents!Idle.persist = FALSE
BY DEF Agents!Idle

LEMMA EntryShape ==
  ASSUME AgentShape
  PROVE  \A k \in 1..Len(audit) :
           /\ audit[k].session \in Sessions /\ audit[k].message \in Nat
           /\ audit[k].allowed \in BOOLEAN
<1> DEFINE Entries == [session : Sessions, message : Nat, allowed : BOOLEAN]
<1>1. audit \in Seq(Entries)
  BY DEF AgentShape
<1>2. \A k \in 1..Len(audit) : audit[k] \in Entries
  <2> HIDE DEF Entries
  <2> QED
    BY <1>1
<1> QED
  BY <1>2

\* A log has finitely many finished entries, and more of them as entries finish.
LEMMA FinishedGrow ==
  ASSUME AgentShape, AgentShape',
         finished(audit, inbox, work) \subseteq finished(audit', inbox', work')
  PROVE  /\ IsFiniteSet(finished(audit, inbox, work)) /\ IsFiniteSet(finished(audit', inbox', work'))
         /\ Cardinality(finished(audit, inbox, work)) \in Nat
         /\ Cardinality(finished(audit', inbox', work')) \in Nat
         /\ Cardinality(finished(audit, inbox, work)) <= Cardinality(finished(audit', inbox', work'))
<1>1. Len(audit) \in Nat /\ Len(audit') \in Nat
  BY DEF AgentShape
<1>2. IsFiniteSet(1..Len(audit)) /\ IsFiniteSet(1..Len(audit'))
  BY <1>1, FS_Interval
<1>3. /\ finished(audit, inbox, work) \subseteq 1..Len(audit)
      /\ finished(audit', inbox', work') \subseteq 1..Len(audit')
  BY DEF finished
<1>4. IsFiniteSet(finished(audit, inbox, work)) /\ IsFiniteSet(finished(audit', inbox', work'))
  BY <1>2, <1>3, FS_Subset
<1> QED
  BY <1>4, FS_Subset, FS_CardinalityType

\* Nothing is stored, and no entry becomes unfinished.
LEMMA KeptGrows ==
  ASSUME AgentShape, AgentShape', AuditInv, UNCHANGED <<stored, server.mutations>>,
         finished(audit, inbox, work) \subseteq finished(audit', inbox', work')
  PROVE  KeptInv'
<1>1. Cardinality(stored) \in Nat
  BY FS_CardinalityType DEF AgentShape
<1> QED
  BY <1>1, FinishedGrow DEF AuditInv, KeptInv

\* A message is read and answered at once, or begins a scan.
LEMMA ReceiveStep ==
  ASSUME AgentShape, AuditInv, NEW c \in Sessions, Agents!Receive(c)
  PROVE  AgentShape' /\ AuditInv'
<1>1. PICK m \in Inbound :
         /\ inbox' = [inbox EXCEPT ![c] = Append(@, m)]
         /\ \/ work' = [work EXCEPT ![c] = [Agents!Idle EXCEPT !.at = "gate"]] /\ Agents!scans(m)
            \/ work' = work /\ ~Agents!scans(m)
  BY DEF Agents!Receive
<1>2. work[c].at = "idle" /\ UNCHANGED <<server, audit, stored>>
  BY DEF Agents!Receive
<1>3. /\ inbox' \in [Sessions -> Seq(Inbound)]
      /\ Len(inbox'[c]) = Len(inbox[c]) + 1 /\ Len(inbox[c]) \in Nat
      /\ inbox'[c][Len(inbox'[c])] = m
      /\ \A i \in 1..Len(inbox[c]) : inbox'[c][i] = inbox[c][i]
      /\ \A d \in Sessions \ {c} : inbox'[d] = inbox[d]
  BY <1>1 DEF AgentShape
<1>4. WorkShape(work', c) /\ work'[c].at = IF Scanning(m) THEN "gate" ELSE "idle"
  <2>1. CASE work' = work /\ ~Agents!scans(m)
    BY <1>2, <2>1, ScansAreScanning DEF AgentShape, WorkShape
  <2>2. CASE work' = [work EXCEPT ![c] = [Agents!Idle EXCEPT !.at = "gate"]] /\ Agents!scans(m)
    <3> DEFINE r == [Agents!Idle EXCEPT !.at = "gate"]
    <3>1. /\ DOMAIN r = {"at", "persist", "left", "scan"}
          /\ r.at = "gate" /\ r.persist = FALSE
      BY IdleShape
    <3>2. work' = [work EXCEPT ![c] = r] /\ Scanning(m)
      BY <2>2, ScansAreScanning
    <3> HIDE DEF r
    <3> QED
      BY <3>1, <3>2, WorkStep
  <2> QED
    BY <1>1, <2>1, <2>2
<1>5. AgentShape'
  BY <1>2, <1>3, <1>4 DEF AgentShape, WorkShape
<1>6. WorkInv'
  BY <1>2, <1>3, <1>4 DEF AuditInv, WorkInv, WorkShape
<1>7. LogInv'
  <2> SUFFICES ASSUME NEW d \in Sessions, NEW i \in Nat
               PROVE  inLog(audit, d, i) <=>
                        attempted(inbox', work', d, i) /\ ~(server.mutations /\ ~server.hasStore)
    BY <1>2 DEF LogInv
  <2>1. attempted(inbox', work', d, i) <=> attempted(inbox, work, d, i)
    <3>1. CASE d # c
      BY <1>3, <1>4, <3>1 DEF attempted, WorkShape
    <3>2. CASE d = c /\ i # Len(inbox[c]) + 1
      BY <1>2, <1>3, <3>2 DEF attempted
    <3>3. CASE d = c /\ i = Len(inbox[c]) + 1
      BY <1>3, <1>4, <3>3 DEF attempted
    <3> QED
      BY <3>1, <3>2, <3>3
  <2> QED
    BY <2>1 DEF AuditInv, LogInv
<1>8. EntryInv'
  BY <1>2 DEF AuditInv, EntryInv
<1>9. KeptInv'
  <2>1. finished(audit, inbox, work) \subseteq finished(audit, inbox', work')
    <3> SUFFICES ASSUME NEW k \in finished(audit, inbox, work)
                 PROVE  k \in finished(audit, inbox', work')
      OBVIOUS
    <3>1. k \in 1..Len(audit) /\ audit[k].session \in Sessions /\ audit[k].message \in Nat
      BY EntryShape DEF finished
    <3>2. CASE audit[k].session # c
      BY <1>3, <1>4, <3>1, <3>2 DEF finished, WorkShape
    <3>3. CASE audit[k].session = c
      <4>1. inLog(audit, c, audit[k].message)
        BY <3>1, <3>3 DEF inLog
      <4>2. audit[k].message \in 1..Len(inbox[c])
        BY <3>1, <4>1 DEF AuditInv, LogInv, attempted
      <4> QED
        BY <1>3, <3>1, <3>3, <4>2 DEF finished
    <3> QED
      BY <3>2, <3>3
  <2> QED
    BY <1>2, <1>5, <2>1, KeptGrows
<1> QED
  BY <1>5, <1>6, <1>7, <1>8, <1>9 DEF AuditInv

LEMMA ToScan ==
  ASSUME AgentShape, NEW c \in Sessions, NEW persist \in BOOLEAN, Agents!toScan(c, persist)
  PROVE  WorkShape(work', c) /\ work'[c].at = "scan" /\ work'[c].persist = persist
BY DEF AgentShape, Agents!toScan, WorkShape

\* What the gate does: of the messages that want their scan kept it logs those it
\* does not refuse, and lets none keep it that the log does not allow.
LEMMA GateEffect ==
  ASSUME AgentShape, AuditInv, NEW c \in Sessions, Agents!Gate(c),
         NEW m, m = inbox[c][Len(inbox[c])],
         NEW logs, logs <=> m.args.persist /\ ~(server.mutations /\ ~server.hasStore)
  PROVE  /\ WorkShape(work', c) /\ work'[c].at \in {"scan", "idle"}
         /\ work'[c].persist => m.args.persist /\ server.mutations /\ server.hasStore
         /\ logs => audit' = Append(audit, [session |-> c, message |-> Len(inbox[c]),
                                            allowed |-> server.mutations])
         /\ ~logs => audit' = audit
<1> USE DEF Agents!Gate, Agents!current, Agents!entry
<1>0. server.mutations \in BOOLEAN /\ server.hasStore \in BOOLEAN
  BY DEF AgentShape
<1>1. CASE ~m.args.persist
  BY <1>1, ToScan
<1>2. CASE m.args.persist /\ ~server.mutations
  <2>1. audit' = Append(audit, [session |-> c, message |-> Len(inbox[c]), allowed |-> FALSE])
        /\ Agents!toScan(c, FALSE)
    BY <1>2
  <2>2. server.mutations = FALSE
    BY <1>0, <1>2
  <2> QED
    BY <1>2, <2>1, <2>2, ToScan
<1>3. CASE m.args.persist /\ server.mutations /\ ~server.hasStore
  <2>1. work' = [work EXCEPT ![c] = Agents!Idle] /\ audit' = audit
    BY <1>3
  <2> QED
    BY <1>3, <2>1, IdleShape, WorkStep
<1>4. CASE m.args.persist /\ server.mutations /\ server.hasStore
  <2>1. audit' = Append(audit, [session |-> c, message |-> Len(inbox[c]), allowed |-> TRUE])
        /\ Agents!toScan(c, TRUE)
    BY <1>4
  <2>2. server.mutations = TRUE
    BY <1>0, <1>4
  <2> QED
    BY <1>4, <2>1, <2>2, ToScan
<1> QED
  BY <1>1, <1>2, <1>3, <1>4

LEMMA GateStep ==
  ASSUME AgentShape, AuditInv, NEW c \in Sessions, Agents!Gate(c)
  PROVE  AgentShape' /\ AuditInv'
<1> DEFINE n == Len(inbox[c])
           m == inbox[c][n]
           logs == m.args.persist /\ ~(server.mutations /\ ~server.hasStore)
           e == [session |-> c, message |-> n, allowed |-> server.mutations]
           Entries == [session : Sessions, message : Nat, allowed : BOOLEAN]
<1>1. /\ WorkShape(work', c) /\ work'[c].at \in {"scan", "idle"}
      /\ work'[c].persist => m.args.persist /\ server.mutations /\ server.hasStore
      /\ logs => audit' = Append(audit, e)
      /\ ~logs => audit' = audit
  BY GateEffect
<1>2. work[c].at = "gate" /\ UNCHANGED <<server, inbox, stored>>
  BY DEF Agents!Gate
<1>3. n \in Nat \ {0} /\ Scanning(m)
  BY <1>2 DEF AgentShape, AuditInv, WorkInv
<1>4. e \in Entries
  BY <1>3 DEF AgentShape
<1>5. e.session = c /\ e.message = n /\ e.allowed = server.mutations
  OBVIOUS
<1>6. Len(audit) \in Nat /\ audit \in Seq(Entries)
  BY DEF AgentShape
<1>7. /\ audit' \in Seq(Entries)
      /\ Len(audit') = IF logs THEN Len(audit) + 1 ELSE Len(audit)
      /\ \A k \in 1..Len(audit) : audit'[k] = audit[k]
      /\ logs => audit'[Len(audit) + 1] = e
  <2> HIDE DEF Entries, e, logs
  <2>1. CASE logs
    BY <1>1, <1>4, <1>6, <2>1
  <2>2. CASE ~logs
    BY <1>1, <1>6, <2>2
  <2> QED
    BY <2>1, <2>2
<1>8. AgentShape'
  BY <1>1, <1>2, <1>7 DEF AgentShape, WorkShape
<1>9. ~inLog(audit, c, n)
  BY <1>2, <1>3 DEF AuditInv, LogInv, attempted
<1>10. \A d \in Sessions, i \in Nat :
         inLog(audit', d, i) <=> inLog(audit, d, i) \/ (logs /\ d = c /\ i = n)
  <2> SUFFICES ASSUME NEW d \in Sessions, NEW i \in Nat
               PROVE  inLog(audit', d, i) <=> inLog(audit, d, i) \/ (logs /\ d = c /\ i = n)
    OBVIOUS
  <2> HIDE DEF n, logs, e
  <2>1. CASE logs
    <3>1. \A k : k \in 1..Len(audit') <=> k \in 1..Len(audit) \/ k = Len(audit) + 1
      BY <1>6, <1>7, <2>1
    <3>2. inLog(audit', d, i) <=> inLog(audit, d, i) \/ (e.session = d /\ e.message = i)
      BY <1>7, <2>1, <3>1 DEF inLog
    <3> QED
      BY <1>5, <2>1, <3>2
  <2>2. CASE ~logs
    BY <1>1, <2>2
  <2> QED
    BY <2>1, <2>2
<1>11. WorkInv'
  BY <1>1, <1>2, <1>3 DEF AuditInv, WorkInv, WorkShape
<1>12. LogInv'
  <2> SUFFICES ASSUME NEW d \in Sessions, NEW i \in Nat
               PROVE  inLog(audit', d, i) <=>
                        attempted(inbox, work', d, i) /\ ~(server.mutations /\ ~server.hasStore)
    BY <1>2 DEF LogInv
  <2>1. inLog(audit, d, i) <=>
          attempted(inbox, work, d, i) /\ ~(server.mutations /\ ~server.hasStore)
    BY DEF AuditInv, LogInv
  <2>2. attempted(inbox, work', d, i) <=>
          attempted(inbox, work, d, i) \/ (d = c /\ i = n /\ m.args.persist)
    <3>1. CASE d # c
      BY <1>1, <3>1 DEF attempted, WorkShape
    <3>2. CASE d = c /\ i # n
      BY <1>1, <1>2, <1>3, <3>2 DEF attempted
    <3>3. CASE d = c /\ i = n
      BY <1>1, <1>2, <1>3, <3>3 DEF attempted
    <3> QED
      BY <3>1, <3>2, <3>3
  <2> QED
    BY <1>10, <2>1, <2>2
<1>13. EntryInv'
  <2> SUFFICES ASSUME NEW k \in 1..Len(audit')
               PROVE  /\ audit'[k].allowed = server.mutations
                      /\ \A l \in 1..Len(audit') :
                           audit'[k].session = audit'[l].session
                             /\ audit'[k].message = audit'[l].message => k = l
    BY <1>2 DEF EntryInv
  <2> HIDE DEF n, m, logs, e
  <2>1. \A l \in 1..Len(audit) : ~(audit[l].session = c /\ audit[l].message = n)
    BY <1>9 DEF inLog
  <2>2. EntryInv
    BY DEF AuditInv
  <2>3. CASE ~logs
    BY <1>7, <2>2, <2>3 DEF EntryInv
  <2>4. CASE logs
    <3>1. \A l \in 1..Len(audit') : l \in 1..Len(audit) \/ l = Len(audit) + 1
      BY <1>6, <1>7
    <3> QED
      BY <1>5, <1>6, <1>7, <2>1, <2>2, <2>4, <3>1 DEF EntryInv
  <2> QED
    BY <2>3, <2>4
<1>14. KeptInv'
  <2>1. finished(audit, inbox, work) \subseteq finished(audit', inbox', work')
    <3> SUFFICES ASSUME NEW k \in finished(audit, inbox, work)
                 PROVE  k \in finished(audit', inbox, work')
      BY <1>2
    <3>1. k \in 1..Len(audit) /\ audit[k].session \in Sessions
      BY EntryShape DEF finished
    <3>2. audit'[k] = audit[k] /\ k \in 1..Len(audit')
      BY <1>6, <1>7, <3>1
    <3>3. CASE audit[k].session # c
      BY <1>1, <3>1, <3>2, <3>3 DEF finished, WorkShape
    <3>4. CASE audit[k].session = c
      BY <1>2, <3>1, <3>2, <3>4 DEF finished
    <3> QED
      BY <3>3, <3>4
  <2> QED
    BY <1>2, <1>8, <2>1, KeptGrows
<1> QED
  BY <1>8, <1>11, <1>12, <1>13, <1>14 DEF AuditInv

\* A scan under way goes on: it is run, or its client leaves.
LEMMA WorkGoesOn ==
  ASSUME AgentShape, AuditInv, NEW c \in Sessions, WorkShape(work', c),
         work'[c].persist = work[c].persist, work[c].at # "idle",
         \/ work'[c].at = work[c].at
         \/ work[c].at = "scan" /\ work'[c].at = "put",
         UNCHANGED <<server, inbox, audit, stored>>
  PROVE  AgentShape' /\ AuditInv'
<1>1. AgentShape'
  BY DEF AgentShape, WorkShape
<1>2. WorkInv'
  BY DEF AuditInv, WorkInv, WorkShape
<1>3. LogInv'
  <2> SUFFICES ASSUME NEW d \in Sessions, NEW i \in Nat
               PROVE  attempted(inbox, work', d, i) <=> attempted(inbox, work, d, i)
    BY DEF AuditInv, LogInv
  <2> QED
    BY DEF attempted, WorkShape
<1>4. EntryInv'
  BY DEF AuditInv, EntryInv
<1>5. finished(audit, inbox, work) \subseteq finished(audit, inbox, work')
  <2> SUFFICES ASSUME NEW k \in finished(audit, inbox, work)
               PROVE  k \in finished(audit, inbox, work')
    OBVIOUS
  <2>1. k \in 1..Len(audit) /\ audit[k].session \in Sessions
    BY EntryShape DEF finished
  <2> QED
    BY <2>1 DEF finished, WorkShape
<1>6. KeptInv'
  BY <1>1, <1>5, KeptGrows
<1> QED
  BY <1>1, <1>2, <1>3, <1>4, <1>6 DEF AuditInv

LEMMA RunStep ==
  ASSUME AgentShape, AuditInv, NEW c \in Sessions, Agents!RunAndBuild(c)
  PROVE  AgentShape' /\ AuditInv'
<1>1. /\ work[c].at = "scan" /\ UNCHANGED <<server, inbox, audit, stored>>
      /\ \E x : work' = [work EXCEPT ![c].at = "put", ![c].scan = x]
  BY DEF Agents!RunAndBuild
<1>2. PICK x : work' = [work EXCEPT ![c].at = "put", ![c].scan = x]
  BY <1>1
<1>3. WorkShape(work', c) /\ work'[c].persist = work[c].persist /\ work'[c].at = "put"
  BY <1>2 DEF AgentShape, WorkShape
<1> QED
  BY <1>1, <1>3, WorkGoesOn

LEMMA LeaveStep ==
  ASSUME AgentShape, AuditInv, NEW c \in Sessions, Agents!Leave(c)
  PROVE  AgentShape' /\ AuditInv'
<1>1. /\ work[c].at # "idle" /\ UNCHANGED <<server, inbox, audit, stored>>
      /\ work' = [work EXCEPT ![c].left = TRUE]
  BY DEF Agents!Leave
<1>2. WorkShape(work', c) /\ work'[c].persist = work[c].persist /\ work'[c].at = work[c].at
  BY <1>1 DEF AgentShape, WorkShape
<1> QED
  BY <1>1, <1>2, WorkGoesOn

\* A scan that is kept finishes an entry of its own.
LEMMA PutStep ==
  ASSUME AgentShape, AuditInv, NEW c \in Sessions, Agents!Put(c)
  PROVE  AgentShape' /\ AuditInv'
<1> DEFINE n == Len(inbox[c])
<1>1. /\ work[c].at = "put" /\ UNCHANGED <<server, inbox, audit>>
      /\ work' = [work EXCEPT ![c] = Agents!Idle]
      /\ stored' = IF work[c].persist
                     THEN {s \in stored : s.id # work[c].scan.id} \cup {work[c].scan} ELSE stored
  BY DEF Agents!Put
<1>2. WorkShape(work', c) /\ work'[c].at = "idle" /\ work'[c].persist = FALSE
  BY <1>1, IdleShape, WorkStep
<1>3. /\ IsFiniteSet(stored') /\ Cardinality(stored) \in Nat /\ Cardinality(stored') \in Nat
      /\ Cardinality(stored') <= Cardinality(stored) + 1
  <2> DEFINE S == {s \in stored : s.id # work[c].scan.id}
  <2>1. IsFiniteSet(stored) /\ S \in SUBSET stored
    BY DEF AgentShape
  <2>2. IsFiniteSet(S) /\ Cardinality(S) <= Cardinality(stored)
    BY <2>1, FS_Subset
  <2>3. Cardinality(S) \in Nat /\ Cardinality(stored) \in Nat
    BY <2>1, <2>2, FS_CardinalityType
  <2>4. /\ IsFiniteSet(S \cup {work[c].scan})
        /\ Cardinality(S \cup {work[c].scan}) \in {Cardinality(S), Cardinality(S) + 1}
    BY <2>2, FS_AddElement
  <2>5. CASE stored' = stored
    BY <2>1, <2>3, <2>5
  <2>6. CASE stored' = S \cup {work[c].scan}
    <3>1. /\ IsFiniteSet(stored')
          /\ Cardinality(stored') = Cardinality(S) \/ Cardinality(stored') = Cardinality(S) + 1
      BY <2>4, <2>6
    <3> HIDE DEF S
    <3> QED
      BY <2>2, <2>3, <3>1
  <2> QED
    BY <1>1, <2>5, <2>6
<1>4. AgentShape'
  BY <1>1, <1>2, <1>3 DEF AgentShape, WorkShape
<1>5. WorkInv'
  BY <1>1, <1>2 DEF AuditInv, WorkInv, WorkShape
<1>6. LogInv'
  <2> SUFFICES ASSUME NEW d \in Sessions, NEW i \in Nat
               PROVE  attempted(inbox, work', d, i) <=> attempted(inbox, work, d, i)
    BY <1>1 DEF AuditInv, LogInv
  <2> QED
    BY <1>1, <1>2 DEF attempted, WorkShape
<1>7. EntryInv'
  BY <1>1 DEF AuditInv, EntryInv
<1>8. finished(audit, inbox, work) \subseteq finished(audit, inbox, work')
  <2> SUFFICES ASSUME NEW k \in finished(audit, inbox, work)
               PROVE  k \in finished(audit, inbox, work')
    OBVIOUS
  <2>1. k \in 1..Len(audit) /\ audit[k].session \in Sessions
    BY EntryShape DEF finished
  <2> QED
    BY <1>1, <1>2, <2>1 DEF finished, WorkShape
<1>9. CASE ~work[c].persist
  <2>1. KeptInv'
    BY <1>1, <1>4, <1>8, <1>9, KeptGrows
  <2> QED
    BY <1>4, <1>5, <1>6, <1>7, <2>1 DEF AuditInv
<1>10. CASE work[c].persist
  <2>1. server.mutations /\ server.hasStore /\ n \in Nat /\ inLog(audit, c, n)
    <3>1. /\ n \in Nat \ {0} /\ Scanning(inbox[c][n])
          /\ server.mutations /\ server.hasStore /\ inbox[c][n].args.persist
      BY <1>1, <1>10 DEF AgentShape, AuditInv, WorkInv
    <3>2. attempted(inbox, work, c, n)
      BY <1>1, <3>1 DEF attempted
    <3> QED
      BY <3>1, <3>2 DEF AuditInv, LogInv
  <2>2. PICK k \in 1..Len(audit) : audit[k].session = c /\ audit[k].message = n
    BY <2>1 DEF inLog
  <2>3. k \notin finished(audit, inbox, work)
    BY <1>1, <2>1, <2>2 DEF finished
  <2>4. k \in finished(audit, inbox, work')
    BY <1>2, <2>2 DEF finished
  <2> DEFINE Old == finished(audit, inbox, work)
             Now == finished(audit', inbox', work')
  <2>5. Old \cup {k} \subseteq Now /\ k \notin Old
    BY <1>1, <1>8, <2>3, <2>4
  <2>6. IsFiniteSet(Old) /\ IsFiniteSet(Now) /\ Cardinality(Old) \in Nat /\ Cardinality(Now) \in Nat
    BY <1>1, <1>4, <1>8, FinishedGrow
  <2>7. Cardinality(stored) <= Cardinality(Old)
    BY DEF AuditInv, KeptInv
  <2> HIDE DEF Old, Now
  <2>8. Cardinality(Old \cup {k}) = Cardinality(Old) + 1
    BY <2>5, <2>6, FS_AddElement
  <2>9. Cardinality(Old \cup {k}) <= Cardinality(Now)
    BY <2>5, <2>6, FS_Subset
  <2>10. Cardinality(stored') <= Cardinality(Now)
    BY <1>3, <2>6, <2>7, <2>8, <2>9
  <2>11. KeptInv'
    BY <1>1, <2>1, <2>10 DEF KeptInv, Now
  <2> QED
    BY <1>4, <1>5, <1>6, <1>7, <2>11 DEF AuditInv
<1> QED
  BY <1>9, <1>10

LEMMA AgentsKeepInv ==
  ASSUME AgentShape, AuditInv, [Agents!AgentNext]_(Agents!agentVars)
  PROVE  AgentShape' /\ AuditInv'
<1>1. CASE UNCHANGED <<server.mutations, server.hasStore, inbox, work, audit, stored>>
           /\ server' \in [stdio : BOOLEAN, mutations : BOOLEAN, hasStore : BOOLEAN, up : BOOLEAN]
  <2>1. AgentShape'
    BY <1>1 DEF AgentShape
  <2>2. WorkInv' /\ LogInv' /\ EntryInv' /\ KeptInv'
    BY <1>1 DEF AuditInv, WorkInv, LogInv, EntryInv, KeptInv
  <2> QED
    BY <2>1, <2>2 DEF AuditInv
<1>2. ASSUME NEW c \in Sessions, Agents!Overlong(c) PROVE AgentShape' /\ AuditInv'
  <2>1. server' = [server EXCEPT !.up = FALSE] /\ UNCHANGED <<inbox, work, audit, stored>>
    BY <1>2 DEF Agents!Overlong
  <2>2. /\ server' \in [stdio : BOOLEAN, mutations : BOOLEAN, hasStore : BOOLEAN, up : BOOLEAN]
        /\ UNCHANGED <<server.mutations, server.hasStore>>
    BY <2>1 DEF AgentShape
  <2> QED
    BY <1>1, <2>1, <2>2
<1>3. CASE Agents!Tick \/ UNCHANGED Agents!agentVars
  BY <1>1, <1>3 DEF Agents!Tick, Agents!agentVars, AgentShape
<1> QED
  BY <1>2, <1>3, ReceiveStep, GateStep, RunStep, PutStep, LeaveStep DEF Agents!AgentNext

\* The invariant says of the state what PersistIsAudited says of the log as a set.
LEMMA AuditedFromInv ==
  ASSUME AgentShape, AuditInv PROVE Agents!PersistIsAudited
<1> DEFINE pairs == {<<e.session, e.message>> : e \in Agents!Range(audit)}
<1>0. Len(audit) \in Nat /\ DOMAIN audit = 1..Len(audit)
  BY DEF AgentShape
<1>1. Agents!Range(audit) = {audit[k] : k \in 1..Len(audit)}
  BY <1>0 DEF Agents!Range
<1>2. \A c, i : <<c, i>> \in pairs <=> inLog(audit, c, i)
  BY <1>1 DEF inLog
<1>3. \A c, i : <<c, i>> \in Agents!attempts <=> c \in Sessions /\ attempted(inbox, work, c, i)
  <2>1. \A c \in Sessions : DOMAIN inbox[c] = 1..Len(inbox[c])
    BY DEF AgentShape
  <2>2. \A c, i : <<c, i>> \in Agents!attempts <=>
          /\ c \in Sessions /\ i \in DOMAIN inbox[c]
          /\ Agents!scans(inbox[c][i]) /\ inbox[c][i].args.persist
          /\ i < Len(inbox[c]) \/ work[c].at # "gate"
    BY DEF Agents!attempts
  <2> QED
    BY <2>1, <2>2, ScansAreScanning DEF attempted
<1>4. \A c, i : inLog(audit, c, i) <=>
         c \in Sessions /\ attempted(inbox, work, c, i) /\ ~(server.mutations /\ ~server.hasStore)
  <2>1. \A c, i : inLog(audit, c, i) => c \in Sessions /\ i \in Nat
    BY EntryShape DEF inLog
  <2>2. \A c, i : c \in Sessions /\ attempted(inbox, work, c, i) => i \in Nat
    BY DEF attempted, AgentShape
  <2> QED
    BY <2>1, <2>2 DEF AuditInv, LogInv
<1>5. pairs = IF server.mutations /\ ~server.hasStore THEN {} ELSE Agents!attempts
  <2>1. \A x \in pairs : \E c, i : x = <<c, i>>
    OBVIOUS
  <2>2. \A x \in Agents!attempts : \E c, i : x = <<c, i>>
    BY DEF Agents!attempts
  <2> HIDE DEF pairs
  <2>3. \A c, i : <<c, i>> \in pairs <=>
           <<c, i>> \in Agents!attempts /\ ~(server.mutations /\ ~server.hasStore)
    BY <1>2, <1>3, <1>4
  <2> QED
    BY <2>1, <2>2, <2>3
<1>6. \A k, l \in 1..Len(audit) : audit[k] = audit[l] => k = l
  BY DEF AuditInv, EntryInv
<1>7. /\ IsFiniteSet(Agents!Range(audit)) /\ Cardinality(Agents!Range(audit)) = Len(audit)
      /\ \A S : Agents!Cardinality(S) = Cardinality(S)
  <2>1. audit \in Bijection(1..Len(audit), Agents!Range(audit))
    BY <1>0, <1>1, <1>6 DEF Bijection, Injection, Surjection, IsInjective, AgentShape
  <2>2. ExistsBijection(1..Len(audit), Agents!Range(audit))
    BY <2>1 DEF ExistsBijection
  <2>3. IsFiniteSet(1..Len(audit)) /\ Cardinality(1..Len(audit)) = Len(audit)
    BY <1>0, Counted
  <2>4. \A S : Agents!Cardinality(S) = Cardinality(S)
    BY DEF Agents!Cardinality, Cardinality
  <2> QED
    BY <2>2, <2>3, <2>4, FS_Bijection
<1>8. \A e \in Agents!Range(audit) : e.allowed <=> server.mutations
  BY <1>1 DEF AuditInv, EntryInv
<1> DEFINE permitted == {e \in Agents!Range(audit) : e.allowed}
<1>9. Cardinality(stored) <= Cardinality(permitted)
  <2>1. IsFiniteSet(permitted) /\ Cardinality(permitted) \in Nat
    BY <1>7, FS_Subset, FS_CardinalityType
  <2>2. CASE server.mutations
    <3>1. permitted = Agents!Range(audit)
      BY <1>8, <2>2
    <3>2. finished(audit, inbox, work) \in SUBSET (1..Len(audit))
      BY DEF finished
    <3>3. IsFiniteSet(1..Len(audit)) /\ Cardinality(1..Len(audit)) = Len(audit)
      BY <1>0, Counted
    <3>4. /\ Cardinality(finished(audit, inbox, work)) <= Len(audit)
          /\ Cardinality(finished(audit, inbox, work)) \in Nat
      BY <3>2, <3>3, FS_Subset, FS_CardinalityType
    <3>5. Cardinality(stored) \in Nat
      BY FS_CardinalityType DEF AgentShape
    <3>6. Cardinality(stored) <= Cardinality(finished(audit, inbox, work))
      BY DEF AuditInv, KeptInv
    <3> HIDE DEF permitted
    <3> QED
      BY <1>0, <1>7, <3>1, <3>4, <3>5, <3>6
  <2>3. CASE ~server.mutations
    <3>1. Cardinality(stored) = 0
      BY <2>3, FS_EmptySet DEF AuditInv, KeptInv
    <3> HIDE DEF permitted
    <3> QED
      BY <2>1, <3>1
  <2> QED
    BY <2>2, <2>3
<1>10. ASSUME NEW c \in Sessions, work[c].at = "put", work[c].persist
       PROVE  \E e \in Agents!Range(audit) :
                e.allowed /\ e.session = c /\ e.message = Len(inbox[c])
  <2>1. /\ Len(inbox[c]) \in Nat \ {0} /\ Scanning(inbox[c][Len(inbox[c])])
        /\ server.mutations /\ server.hasStore /\ inbox[c][Len(inbox[c])].args.persist
    BY <1>10 DEF AgentShape, AuditInv, WorkInv
  <2>2. attempted(inbox, work, c, Len(inbox[c]))
    BY <1>10, <2>1 DEF attempted
  <2>3. inLog(audit, c, Len(inbox[c]))
    BY <1>4, <2>1, <2>2
  <2> QED
    BY <1>1, <1>8, <2>1, <2>3 DEF inLog
<1> QED
  BY <1>5, <1>7, <1>8, <1>9, <1>10 DEF Agents!PersistIsAudited

\* Every attempt of an agent to keep a scan is in the audit log once, as it was
\* decided, whatever became of it and however the sessions interleave, and nothing
\* is in the store that the log does not allow (mcp.go, mutations.go).
THEOREM KeptScansAreAudited == BackendsSpec => []PersistIsAudited
<1>1. AgentShape /\ AuditInv => PersistIsAudited
  BY AuditedFromInv DEF PersistIsAudited
<1>2. BackendsSpec => [](AgentShape /\ AuditInv)
  BY AgentInitInv, AgentsKeepInv, BackendsImplementComponents, PTL
<1> QED
  BY <1>1, <1>2, PTL

(***************************************************************************)
(*                           What agents read                              *)
(*                                                                         *)
(* A query joins what it finds in each scan and sorts it.  Neither loses   *)
(* nor adds anything, and before it the newest scan of each image was      *)
(* chosen.  First joining: by the least place at which it would go wrong.  *)
(***************************************************************************)
LEMMA Least ==
  ASSUME NEW S, S \subseteq Nat, S # {}
  PROVE  \E m \in S : \A k \in S : m <= k
<1>1. PICK m \in S : \A k \in S : ~(<<k, m>> \in OpToRel(<, Nat))
  BY NatLessThanWellFounded, WFMin
<1>2. ASSUME NEW k \in S, ~(m <= k) PROVE FALSE
  <2>1. k < m /\ k \in Nat /\ m \in Nat
    BY <1>2
  <2> QED
    BY <1>1, <2>1 DEF OpToRel
<1> QED
  BY <1>2

\* The recursion by which sequences are joined defines a function.
LEMMA JoinIsDefined ==
  ASSUME NEW s, NEW n \in Nat \ {0}
  PROVE  \E f : f = [i \in 1..n |-> IF i = 1 THEN s[i] ELSE f[i - 1] \o s[i]]
<1> DEFINE joins(f, m) == f = [i \in 1..m |-> IF i = 1 THEN s[i] ELSE f[i - 1] \o s[i]]
           joined(m) == \E f : joins(f, m)
           bad == {m \in 1..n : ~joined(m)}
<1> HIDE DEF joins, joined
<1>1. ASSUME bad # {} PROVE FALSE
  <2>1. PICK m \in 1..n : m \in bad /\ \A k \in bad : m <= k
    <3>1. bad \subseteq Nat /\ bad \subseteq 1..n
      OBVIOUS
    <3> HIDE DEF bad
    <3> QED
      BY <1>1, <3>1, Least
  <2>2. CASE m = 1
    <3>1. joins([i \in 1..1 |-> s[i]], 1)
      BY DEF joins
    <3> QED
      BY <2>1, <2>2, <3>1 DEF joined
  <2>3. CASE m # 1
    <3>1. m - 1 \in 1..n /\ m \in 1..m /\ m - 1 \in 1..m /\ m - 1 \notin bad
      <4>1. m - 1 \in 1..n /\ m \in 1..m /\ m - 1 \in 1..m /\ ~(m <= m - 1)
        BY <2>3
      <4> HIDE DEF bad
      <4> QED
        BY <2>1, <4>1
    <3>2. PICK g : joins(g, m - 1)
      BY <3>1 DEF joined
    <3> DEFINE f == [i \in 1..m |-> IF i = m THEN g[m - 1] \o s[m] ELSE g[i]]
    <3>3. ASSUME NEW i \in 1..m
          PROVE  f[i] = IF i = 1 THEN s[i] ELSE f[i - 1] \o s[i]
      <4>1. CASE i = m
        <5>1. m - 1 # m
          OBVIOUS
        <5>2. f[m - 1] = g[m - 1] /\ f[m] = g[m - 1] \o s[m]
          BY <3>1, <5>1
        <5> QED
          BY <2>3, <4>1, <5>2
      <4>2. CASE i # m
        <5>1. i \in 1..(m - 1) /\ f[i] = g[i] /\ (i # 1 => f[i - 1] = g[i - 1])
          BY <3>1, <4>2
        <5> HIDE DEF f
        <5> QED
          BY <3>2, <5>1 DEF joins
      <4> QED
        BY <4>1, <4>2
    <3>4. joins(f, m)
      <4>1. f = [i \in 1..m |-> f[i]]
        OBVIOUS
      <4> HIDE DEF f
      <4> QED
        BY <3>3, <4>1 DEF joins
    <3> QED
      BY <2>1, <3>4 DEF joined
  <2> QED
    BY <2>2, <2>3
<1>2. n \in 1..n
  OBVIOUS
<1>3. joined(n)
  BY <1>1, <1>2
<1> QED
  BY <1>3 DEF joined, joins

elements(s) == {s[i] : i \in 1..Len(s)}

LEMMA JoinTwo ==
  ASSUME NEW V, NEW a \in Seq(V), NEW b \in Seq(V)
  PROVE  a \o b \in Seq(V) /\ \A v : v \in elements(a \o b) <=> v \in elements(a) \/ v \in elements(b)
<1>1. /\ a \o b \in Seq(V) /\ Len(a) \in Nat /\ Len(b) \in Nat /\ Len(a \o b) = Len(a) + Len(b)
      /\ \A i \in 1..(Len(a) + Len(b)) :
           (a \o b)[i] = IF i <= Len(a) THEN a[i] ELSE b[i - Len(a)]
  OBVIOUS
<1>2. ASSUME NEW v, v \in elements(a \o b) PROVE v \in elements(a) \/ v \in elements(b)
  <2>1. PICK i \in 1..(Len(a) + Len(b)) : v = (a \o b)[i]
    BY <1>1, <1>2 DEF elements
  <2>2. CASE i <= Len(a)
    BY <1>1, <2>1, <2>2 DEF elements
  <2>3. CASE ~(i <= Len(a))
    <3>1. i - Len(a) \in 1..Len(b) /\ v = b[i - Len(a)]
      BY <1>1, <2>1, <2>3
    <3> QED
      BY <3>1 DEF elements
  <2> QED
    BY <2>2, <2>3
<1>3. ASSUME NEW v, v \in elements(a) PROVE v \in elements(a \o b)
  <2>1. PICK i \in 1..Len(a) : v = a[i]
    BY <1>3 DEF elements
  <2>2. i \in 1..Len(a \o b) /\ v = (a \o b)[i]
    BY <1>1, <2>1
  <2> QED
    BY <2>2 DEF elements
<1>4. ASSUME NEW v, v \in elements(b) PROVE v \in elements(a \o b)
  <2>1. PICK i \in 1..Len(b) : v = b[i]
    BY <1>4 DEF elements
  <2>2. Len(a) + i \in 1..Len(a \o b) /\ v = (a \o b)[Len(a) + i]
    BY <1>1, <2>1
  <2> QED
    BY <2>2 DEF elements
<1> QED
  BY <1>1, <1>2, <1>3, <1>4

\* What joined sequences have: the elements of each.
LEMMA JoinHas ==
  ASSUME NEW V, NEW n \in Nat, NEW s \in [1..n -> Seq(V)]
  PROVE  /\ Agents!FlattenSeq(s) \in Seq(V)
         /\ \A v : v \in elements(Agents!FlattenSeq(s)) <=> \E i \in 1..n : v \in elements(s[i])
<1>0. s \in Seq(Seq(V)) /\ Len(s) = n
  OBVIOUS
<1>1. CASE n = 0
  <2>1. Agents!FlattenSeq(s) = s /\ s = <<>>
    BY <1>0, <1>1 DEF Agents!FlattenSeq
  <2> QED
    BY <1>1, <2>1 DEF elements
<1>2. CASE n # 0
  <2> DEFINE flatten == CHOOSE f : f = [i \in 1..n |-> IF i = 1 THEN s[i] ELSE f[i - 1] \o s[i]]
             has(f, m) == /\ f \in Seq(V)
                          /\ \A v : v \in elements(f) <=> \E i \in 1..m : v \in elements(s[i])
             bad == {m \in 1..n : ~has(flatten[m], m)}
  <2>1. flatten = [i \in 1..n |-> IF i = 1 THEN s[i] ELSE flatten[i - 1] \o s[i]]
    <3>1. n \in Nat \ {0}
      BY <1>2
    <3>2. \E f : f = [i \in 1..n |-> IF i = 1 THEN s[i] ELSE f[i - 1] \o s[i]]
      BY <3>1, JoinIsDefined
    <3> QED
      BY <3>2
  <2>2. Agents!FlattenSeq(s) = flatten[n]
    BY <1>0, <1>2 DEF Agents!FlattenSeq
  <2> HIDE DEF flatten
  <2>3. ASSUME bad # {} PROVE FALSE
    <3>1. PICK m \in 1..n : m \in bad /\ \A k \in bad : m <= k
      <4>1. bad \subseteq Nat /\ bad \subseteq 1..n
        OBVIOUS
      <4> HIDE DEF bad
      <4> QED
        BY <2>3, <4>1, Least
    <3>2. m # 1
      <4>1. flatten[1] = s[1] /\ s[1] \in Seq(V) /\ 1 \in 1..n
        BY <1>2, <2>1
      <4>2. \A i \in 1..1 : i = 1
        OBVIOUS
      <4>3. has(flatten[1], 1)
        BY <4>1, <4>2
      <4> QED
        BY <3>1, <4>3
    <3>3. m - 1 \in 1..n /\ ~(m <= m - 1)
      BY <3>2
    <3>4. has(flatten[m - 1], m - 1)
      <4> HIDE DEF has
      <4> QED
        BY <3>1, <3>3
    <3>5. flatten[m] = flatten[m - 1] \o s[m] /\ s[m] \in Seq(V)
      BY <2>1, <3>2
    <3>6. /\ flatten[m] \in Seq(V)
          /\ \A v : v \in elements(flatten[m]) <=> v \in elements(flatten[m - 1]) \/ v \in elements(s[m])
      BY <3>4, <3>5, JoinTwo
    <3>7. \A v : (\E i \in 1..m : v \in elements(s[i])) <=>
                 (\E i \in 1..(m - 1) : v \in elements(s[i])) \/ v \in elements(s[m])
      <4>1. \A i : i \in 1..m <=> i \in 1..(m - 1) \/ i = m
        BY <3>2
      <4> QED
        BY <4>1
    <3>8. has(flatten[m], m)
      BY <3>4, <3>6, <3>7
    <3> QED
      BY <3>1, <3>8
  <2>4. n \in 1..n
    BY <1>2
  <2> HIDE DEF has
  <2>5. has(flatten[n], n)
    BY <2>3, <2>4
  <2> QED
    BY <2>2, <2>5 DEF has
<1> QED
  BY <1>1, <1>2

\* SetToSeq: each element of a finite set, once.
LEMMA SetIsListed ==
  ASSUME NEW S, IsFiniteSet(S)
  PROVE  /\ Agents!SetToSeq(S) \in Seq(S) /\ elements(Agents!SetToSeq(S)) = S
         /\ Agents!SetToSeq(S) \in [1..Cardinality(S) -> S] /\ Cardinality(S) \in Nat
<1> DEFINE n == Cardinality(S)
           f == Agents!SetToSeq(S)
<1>1. n \in Nat /\ ExistsBijection(1..n, S) /\ Agents!Cardinality(S) = n
  BY FS_CardinalityType DEF Agents!Cardinality, Cardinality
<1>2. PICK g : g \in Bijection(1..n, S)
  BY <1>1 DEF ExistsBijection
<1>3. g \in [1..n -> S] /\ Agents!IsInjective(g)
  BY <1>2 DEF Bijection, Injection, IsInjective, Agents!IsInjective
<1>4. f \in [1..n -> S] /\ Agents!IsInjective(f)
  BY <1>1, <1>3 DEF Agents!SetToSeq
<1> HIDE DEF f
<1>5. f \in Injection(1..n, S)
  BY <1>4 DEF Injection, IsInjective, Agents!IsInjective
<1>6. f \in Surjection(1..n, S)
  <2>1. IsFiniteSet(1..n) /\ Cardinality(1..n) = n
    BY <1>1, FS_Interval
  <2> QED
    BY <1>5, <2>1, FS_Injection
<1>7. f \in Seq(S) /\ Len(f) = n
  BY <1>1, <1>4
<1>8. elements(f) = S
  BY <1>6, <1>7 DEF elements, Surjection
<1> QED
  BY <1>1, <1>4, <1>7, <1>8 DEF f

(***************************************************************************)
(* Then sorting.  A stable sort by numbers loses nothing and repeats       *)
(* nothing: an element's place counts those in front of it, and of any two *)
(* one is in front of the other.                                           *)
(***************************************************************************)
inFront(x, y, z, j, i) ==
  \/ x[j] < x[i]
  \/ x[j] = x[i] /\ y[j] < y[i]
  \/ x[j] = x[i] /\ y[j] = y[i] /\ z[j] < z[i]
  \/ x[j] = x[i] /\ y[j] = y[i] /\ z[j] = z[i] /\ j < i

allInFront(n, x, y, z, i) == {j \in 1..n : inFront(x, y, z, j, i)}
placeOf(n, x, y, z, i) == 1 + Cardinality(allInFront(n, x, y, z, i))

\* n elements and their keys
Keyed(n, x, y, z) == n \in Nat /\ {x, y, z} \subseteq [1..n -> Int]

LEMMA FrontIsOrder ==
  ASSUME NEW n, NEW x, NEW y, NEW z, Keyed(n, x, y, z)
  PROVE  /\ \A i \in 1..n : ~inFront(x, y, z, i, i)
         /\ \A i, j \in 1..n : i # j => inFront(x, y, z, i, j) \/ inFront(x, y, z, j, i)
         /\ \A i, j, k \in 1..n : inFront(x, y, z, i, j) /\ inFront(x, y, z, j, k) => inFront(x, y, z, i, k)
<1>1. \A i \in 1..n : x[i] \in Int /\ y[i] \in Int /\ z[i] \in Int
  BY DEF Keyed
<1>2. \A i \in 1..n : ~inFront(x, y, z, i, i)
  BY <1>1 DEF inFront
<1>3. ASSUME NEW i \in 1..n, NEW j \in 1..n, i # j
      PROVE  inFront(x, y, z, i, j) \/ inFront(x, y, z, j, i)
  BY <1>1, <1>3 DEF inFront
<1>4. ASSUME NEW i \in 1..n, NEW j \in 1..n, NEW k \in 1..n, inFront(x, y, z, i, j), inFront(x, y, z, j, k)
      PROVE  inFront(x, y, z, i, k)
  BY <1>1, <1>4 DEF inFront
<1> QED
  BY <1>2, <1>3, <1>4

LEMMA PlacesDiffer ==
  ASSUME NEW n, NEW x, NEW y, NEW z, Keyed(n, x, y, z)
  PROVE  /\ \A i \in 1..n : placeOf(n, x, y, z, i) \in 1..n
         /\ \A i, j \in 1..n : placeOf(n, x, y, z, i) = placeOf(n, x, y, z, j) => i = j
<1> DEFINE front(i) == allInFront(n, x, y, z, i)
           place(i) == placeOf(n, x, y, z, i)
<1>1. IsFiniteSet(1..n) /\ Cardinality(1..n) = n /\ n \in Nat
  BY Counted DEF Keyed
<1>2. ASSUME NEW i \in 1..n
      PROVE  /\ IsFiniteSet(front(i)) /\ Cardinality(front(i)) \in Nat
             /\ IsFiniteSet(front(i) \cup {i}) /\ Cardinality(front(i) \cup {i}) = place(i)
             /\ place(i) \in 1..n
  <2>1. front(i) \in SUBSET (1..n) /\ i \notin front(i) /\ front(i) \cup {i} \in SUBSET (1..n)
    BY FrontIsOrder DEF allInFront
  <2>2. IsFiniteSet(front(i)) /\ Cardinality(front(i)) \in Nat
    BY <1>1, <2>1, FS_Subset, FS_CardinalityType
  <2>3. IsFiniteSet(front(i) \cup {i}) /\ Cardinality(front(i) \cup {i}) = Cardinality(front(i)) + 1
    BY <2>1, <2>2, FS_AddElement
  <2>4. Cardinality(front(i) \cup {i}) <= n
    BY <1>1, <2>1, FS_Subset
  <2>5. place(i) = Cardinality(front(i)) + 1
    BY <2>2 DEF placeOf
  <2> HIDE DEF front, place
  <2> QED
    BY <2>2, <2>3, <2>4, <2>5
<1>3. ASSUME NEW i \in 1..n, NEW j \in 1..n, inFront(x, y, z, i, j) PROVE place(i) < place(j)
  <2>1. front(i) \cup {i} \in SUBSET front(j)
    BY <1>3, FrontIsOrder DEF allInFront
  <2>2. Cardinality(front(i) \cup {i}) <= Cardinality(front(j))
    BY <1>2, <2>1, FS_Subset
  <2>3. Cardinality(front(i) \cup {i}) = place(i) /\ Cardinality(front(j)) \in Nat /\ place(i) \in 1..n
    BY <1>2
  <2>4. place(j) = 1 + Cardinality(front(j))
    BY DEF placeOf
  <2> HIDE DEF front, place
  <2> QED
    BY <2>2, <2>3, <2>4
<1>4. ASSUME NEW i \in 1..n, NEW j \in 1..n, place(i) = place(j) PROVE i = j
  <2>1. place(i) \in 1..n /\ place(j) \in 1..n
    BY <1>2
  <2>2. ~inFront(x, y, z, i, j) /\ ~inFront(x, y, z, j, i)
    BY <1>3, <1>4, <2>1
  <2> QED
    BY <2>2, FrontIsOrder
<1> QED
  BY <1>2, <1>4

\* t is s by its keys: at k is the element whose place that is, if there is one.
isSorted(n, x, y, z, s, t) ==
  \A k \in 1..n : (\E i \in 1..n : placeOf(n, x, y, z, i) = k) =>
    \E i \in 1..n : placeOf(n, x, y, z, i) = k /\ t[k] = s[i]

sameElements(n, s, t) ==
  /\ \A k \in 1..n : \E i \in 1..n : t[k] = s[i]
  /\ \A i \in 1..n : \E k \in 1..n : s[i] = t[k]

LEMMA SortKeeps ==
  ASSUME NEW n, NEW x, NEW y, NEW z, Keyed(n, x, y, z),
         NEW s, NEW t, isSorted(n, x, y, z, s, t)
  PROVE  sameElements(n, s, t)
<1> DEFINE place(i) == placeOf(n, x, y, z, i)
           places == [i \in 1..n |-> place(i)]
<1>0. n \in Nat
  BY DEF Keyed
<1>1. \A i \in 1..n : place(i) \in 1..n
  BY PlacesDiffer
<1>2. \A i, j \in 1..n : place(i) = place(j) => i = j
  BY PlacesDiffer
<1>3. places \in Surjection(1..n, 1..n)
  <2>1. places \in Injection(1..n, 1..n)
    BY <1>1, <1>2 DEF Injection, IsInjective
  <2> QED
    BY <1>0, <2>1, Counted, FS_Injection
<1> HIDE DEF place
<1>4. \A k \in 1..n : \E i \in 1..n : place(i) = k
  BY <1>3 DEF Surjection
<1>5. \A k \in 1..n : \E i \in 1..n : place(i) = k /\ t[k] = s[i]
  BY <1>4 DEF place, isSorted
<1>6. ASSUME NEW i \in 1..n PROVE place(i) \in 1..n /\ s[i] = t[place(i)]
  <2>1. place(i) \in 1..n
    BY <1>1
  <2>2. PICK j \in 1..n : place(j) = place(i) /\ t[place(i)] = s[j]
    BY <1>5, <2>1
  <2> QED
    BY <1>2, <2>1, <2>2
<1> QED
  BY <1>5, <1>6 DEF sameElements

\* p is the place of each element, t what is picked by place.
placed(n, x, y, z, p) == \A i \in 1..n : p[i] = placeOf(n, x, y, z, i)
picked(n, p, s, t) == t = [k \in 1..n |-> s[CHOOSE i \in 1..n : p[i] = k]]

\* A sorted sequence has the elements it had.
LEMMA SortedStay ==
  ASSUME NEW n, NEW x, NEW y, NEW z, Keyed(n, x, y, z), NEW V, NEW s \in Seq(V), Len(s) = n,
         NEW p, placed(n, x, y, z, p), NEW t, picked(n, p, s, t)
  PROVE  t \in Seq(V) /\ elements(t) = elements(s)
<1>1. n \in Nat /\ DOMAIN s = 1..n /\ \A i \in 1..n : s[i] \in V
  OBVIOUS
<1>2. t = [k \in 1..n |-> s[CHOOSE i \in 1..n : p[i] = k]]
  BY DEF picked
<1>3. isSorted(n, x, y, z, s, t)
  <2> SUFFICES ASSUME NEW k \in 1..n, \E i \in 1..n : placeOf(n, x, y, z, i) = k
               PROVE  \E i \in 1..n : placeOf(n, x, y, z, i) = k /\ t[k] = s[i]
    BY DEF isSorted
  <2>1. \E i \in 1..n : p[i] = k
    BY DEF placed
  <2>2. PICK i \in 1..n : p[i] = k /\ t[k] = s[i]
    BY <1>2, <2>1
  <2> QED
    BY <2>2 DEF placed
<1>4. sameElements(n, s, t)
  BY <1>3, SortKeeps
<1>5. t \in Seq(V) /\ Len(t) = n
  <2>1. \A k \in 1..n : t[k] \in V
    BY <1>1, <1>4 DEF sameElements
  <2>2. t \in [1..n -> V]
    BY <1>2, <2>1
  <2> QED
    BY <1>1, <2>2
<1>6. {t[k] : k \in 1..n} = {s[i] : i \in 1..n}
  <2>1. ASSUME NEW k \in 1..n PROVE t[k] \in {s[i] : i \in 1..n}
    BY <1>4 DEF sameElements
  <2>2. ASSUME NEW i \in 1..n PROVE s[i] \in {t[k] : k \in 1..n}
    BY <1>4 DEF sameElements
  <2> QED
    BY <2>1, <2>2
<1> QED
  BY <1>5, <1>6 DEF elements

\* sortScans: what it sorts is still there.
agesBefore(a, b) == a.at > b.at \/ (a.at = b.at /\ a.id < b.id)
goesFirst(s, j, i) == agesBefore(s[j], s[i]) \/ (j < i /\ ~agesBefore(s[i], s[j]))

LEMMA ScansStay ==
  ASSUME NEW V, NEW s \in Seq(V), \A sc \in V : sc.at \in Nat /\ sc.id \in Nat
  PROVE  Agents!sortScans(s) \in Seq(V) /\ elements(Agents!sortScans(s)) = elements(s)
<1> DEFINE n == Len(s)
           p == [i \in DOMAIN s |-> 1 + Agents!Cardinality({j \in DOMAIN s : goesFirst(s, j, i)})]
           t == Agents!sortScans(s)
           x == [i \in 1..n |-> 0 - s[i].at]
           y == [i \in 1..n |-> s[i].id]
           z == [i \in 1..n |-> 0]
<1>1. n \in Nat /\ DOMAIN s = 1..n /\ \A i \in 1..n : s[i] \in V
  OBVIOUS
<1>2. picked(n, p, s, t)
  <2>1. t = [k \in DOMAIN s |-> s[CHOOSE i \in DOMAIN s :
               1 + Agents!Cardinality({j \in DOMAIN s : goesFirst(s, j, i)}) = k]]
    BY DEF Agents!sortScans, Agents!stableSort, Agents!newestFirst, goesFirst, agesBefore
  <2> QED
    BY <1>1, <2>1 DEF picked
<1>3. Keyed(n, x, y, z)
  BY <1>1 DEF Keyed
<1>4. ASSUME NEW i \in 1..n, NEW j \in 1..n PROVE goesFirst(s, j, i) <=> inFront(x, y, z, j, i)
  <2>1. /\ s[i].at \in Nat /\ s[j].at \in Nat /\ s[i].id \in Nat /\ s[j].id \in Nat
        /\ x[i] = 0 - s[i].at /\ x[j] = 0 - s[j].at /\ y[i] = s[i].id /\ y[j] = s[j].id
        /\ z[i] = 0 /\ z[j] = 0
    BY <1>1
  <2> HIDE DEF x, y, z
  <2> QED
    BY <2>1 DEF goesFirst, agesBefore, inFront
<1> HIDE DEF x, y, z
<1>5. placed(n, x, y, z, p)
  <2> SUFFICES ASSUME NEW i \in 1..n PROVE p[i] = placeOf(n, x, y, z, i)
    BY DEF placed
  <2>1. {j \in DOMAIN s : goesFirst(s, j, i)} = allInFront(n, x, y, z, i)
    BY <1>1, <1>4 DEF allInFront
  <2>2. \A S : Agents!Cardinality(S) = Cardinality(S)
    BY DEF Agents!Cardinality, Cardinality
  <2> QED
    BY <1>1, <2>1, <2>2 DEF placeOf
<1> HIDE DEF p, t
<1> QED
  BY <1>1, <1>2, <1>3, <1>5, SortedStay DEF t

\* Compare the first of two keys that differ.
keyBefore(u, v) == \E k \in DOMAIN u : u[k] < v[k] /\ \A j \in 1..(k - 1) : u[j] = v[j]

LEMMA BeforeIsOrder ==
  ASSUME NEW a1 \in Nat, NEW a2 \in Nat, NEW b1 \in Nat, NEW b2 \in Nat
  PROVE  keyBefore(<<a1, a2>>, <<b1, b2>>) <=> a1 < b1 \/ (a1 = b1 /\ a2 < b2)
<1>1. DOMAIN <<a1, a2>> = {1, 2}
  OBVIOUS
<1>2. 1..(1 - 1) = {} /\ 1..(2 - 1) = {1}
  OBVIOUS
<1> QED
  BY <1>1, <1>2 DEF keyBefore

(***************************************************************************)
(* Names are ordered by number.                                            *)
(***************************************************************************)
OrderIsList == Len(NameOrder) \in Nat /\ DOMAIN NameOrder = 1..Len(NameOrder)

LEMMA OrderIsASequence == OrderIsList
<1>1. aSequence(NameOrder)
  BY EstateAssumption DEF EstateAssumption
<1>2. NameOrder \in Seq({NameOrder[i] : i \in DOMAIN NameOrder})
  BY <1>1 DEF aSequence
<1> QED
  BY <1>2 DEF OrderIsList

LEMMA RankIsNat ==
  ASSUME OrderIsList, NEW v PROVE Agents!Rank(v) \in Nat
<1> DEFINE n == Len(NameOrder)
           S == {i \in DOMAIN NameOrder : NameOrder[i] = v} \cup {0}
           below == {n - i : i \in S}
<1>1. n \in Nat /\ S \subseteq 0..n /\ 0 \in S
  BY DEF OrderIsList
<1> HIDE DEF S, n
<1>2. below \subseteq Nat /\ below # {}
  BY <1>1
<1>3. PICK m \in below : \A k \in below : m <= k
  <2> HIDE DEF below
  <2> QED
    BY <1>2, Least
<1>4. PICK i \in S : m = n - i
  BY <1>3
<1>5. ASSUME NEW j \in S PROVE i >= j
  <2>1. n - i <= n - j /\ i \in 0..n /\ j \in 0..n
    BY <1>1, <1>3, <1>4
  <2> QED
    BY <1>1, <2>1
<1>6. Agents!Max(S) \in S
  BY <1>5 DEF Agents!Max
<1> QED
  BY <1>1, <1>6 DEF Agents!Rank, S

(***************************************************************************)
(* The queries: the newest scans of each image, and what is found in them. *)
(***************************************************************************)
\* A later scan of the image, or of two of one time the one of the greater id.
outdoes(t, s) == s.image = t.image /\ (s.at < t.at \/ (s.at = t.at /\ s.id < t.id))
latest(S) == {s \in S : \A t \in S : ~outdoes(t, s)}

LEMMA LatestStay ==
  ASSUME NEW S, IsFiniteSet(S), \A sc \in S : sc.at \in Nat /\ sc.id \in Nat,
         NEW order \in Seq(S), elements(order) = S
  PROVE  /\ Agents!latestPerImage(order) \in Seq(latest(S))
         /\ elements(Agents!latestPerImage(order)) = latest(S)
<1>1. Agents!Range(order) = S
  BY DEF Agents!Range, elements
<1>2. Agents!latestPerImage(order) = Agents!sortScans(Agents!SetToSeq(latest(S)))
  BY <1>1 DEF Agents!latestPerImage, latest, outdoes
<1>3. latest(S) \in SUBSET S
  BY DEF latest
<1>4. IsFiniteSet(latest(S))
  BY <1>3, FS_Subset
<1>5. /\ Agents!SetToSeq(latest(S)) \in Seq(latest(S))
      /\ elements(Agents!SetToSeq(latest(S))) = latest(S)
  BY <1>4, SetIsListed
<1>6. \A sc \in latest(S) : sc.at \in Nat /\ sc.id \in Nat
  BY <1>3
<1> QED
  BY <1>2, <1>5, <1>6, ScansStay

\* What a query finds in one scan.
found(sc, q) == {c \in sc.components : Agents!matches(q, c)}
listed(sc, q) == Agents!SetToSeq(found(sc, q))
hits(sc, q) ==
  [i \in DOMAIN listed(sc, q) |-> [image |-> sc.image, version |-> listed(sc, q)[i].version,
                                   scan |-> sc.id, at |-> sc.at, owner |-> sc.owner]]

LEMMA HitsAreOfScan ==
  ASSUME NEW sc, NEW q, IsFiniteSet(sc.components)
  PROVE  /\ \E n \in Nat : DOMAIN hits(sc, q) = 1..n
         /\ \A i \in DOMAIN hits(sc, q) : hits(sc, q)[i].scan = sc.id /\ hits(sc, q)[i].at = sc.at
         /\ DOMAIN hits(sc, q) # {} <=> found(sc, q) # {}
<1>1. found(sc, q) \in SUBSET sc.components
  BY DEF found
<1>2. IsFiniteSet(found(sc, q))
  BY <1>1, FS_Subset
<1> DEFINE n == Cardinality(found(sc, q))
<1>3. /\ listed(sc, q) \in [1..n -> found(sc, q)] /\ n \in Nat
      /\ listed(sc, q) \in Seq(found(sc, q)) /\ elements(listed(sc, q)) = found(sc, q)
  BY <1>2, SetIsListed DEF listed
<1>4. DOMAIN hits(sc, q) = 1..n /\ Len(listed(sc, q)) = n
  BY <1>3 DEF hits
<1>5. 1..n # {} <=> found(sc, q) # {}
  BY <1>3, <1>4 DEF elements
<1>6. \A i \in DOMAIN hits(sc, q) : hits(sc, q)[i].scan = sc.id /\ hits(sc, q)[i].at = sc.at
  BY DEF hits
<1> QED
  BY <1>3, <1>4, <1>5, <1>6

\* What it finds in all, as QueryComponent sorts it.
hitKeys(h) == <<Agents!Rank(h.image), Agents!Rank(h.version)>>
hitBefore(a, b) ==
  \/ keyBefore(hitKeys(a), hitKeys(b))
  \/ hitKeys(a) = hitKeys(b) /\ a.at > b.at
hitFirst(s, j, i) == hitBefore(s[j], s[i]) \/ (j < i /\ ~hitBefore(s[i], s[j]))
hitsSorted(s) ==
  [k \in DOMAIN s |-> s[CHOOSE i \in DOMAIN s :
                          1 + Agents!Cardinality({j \in DOMAIN s : hitFirst(s, j, i)}) = k]]
hitsOf(pool, q) == [i \in DOMAIN pool |-> hits(pool[i], q)]

LEMMA QueryIs ==
  ASSUME NEW scs, NEW q
  PROVE  q.latest => Agents!QueryComponent(scs, q) =
                       hitsSorted(Agents!FlattenSeq(hitsOf(Agents!latestPerImage(scs), q)))
<1> DEFINE parts(pool) == Agents!FlattenSeq(hitsOf(pool, q))
<1>1. Agents!QueryComponent(scs, q) =
        hitsSorted(parts(IF q.latest THEN Agents!latestPerImage(scs) ELSE scs))
  BY DEF Agents!QueryComponent, Agents!stableSort, Agents!before, hitsSorted, hitsOf, hits, listed, found,
         hitFirst, hitBefore, keyBefore, hitKeys
<1> QED
  BY <1>1

LEMMA HitsStay ==
  ASSUME OrderIsList, NEW V, NEW s \in Seq(V), \A h \in V : h.at \in Nat
  PROVE  hitsSorted(s) \in Seq(V) /\ elements(hitsSorted(s)) = elements(s)
<1> DEFINE n == Len(s)
           p == [i \in DOMAIN s |-> 1 + Agents!Cardinality({j \in DOMAIN s : hitFirst(s, j, i)})]
           t == hitsSorted(s)
           x == [i \in 1..n |-> Agents!Rank(s[i].image)]
           y == [i \in 1..n |-> Agents!Rank(s[i].version)]
           z == [i \in 1..n |-> 0 - s[i].at]
<1>1. n \in Nat /\ DOMAIN s = 1..n /\ \A i \in 1..n : s[i] \in V
  OBVIOUS
<1>2. picked(n, p, s, t)
  <2>1. t = [k \in DOMAIN s |-> s[CHOOSE i \in DOMAIN s :
               1 + Agents!Cardinality({j \in DOMAIN s : hitFirst(s, j, i)}) = k]]
    BY DEF hitsSorted
  <2> QED
    BY <1>1, <2>1 DEF picked
<1>3. Keyed(n, x, y, z)
  BY <1>1, RankIsNat DEF Keyed
<1>4. ASSUME NEW i \in 1..n, NEW j \in 1..n PROVE hitFirst(s, j, i) <=> inFront(x, y, z, j, i)
  <2> DEFINE a1 == Agents!Rank(s[j].image)
             a2 == Agents!Rank(s[j].version)
             b1 == Agents!Rank(s[i].image)
             b2 == Agents!Rank(s[i].version)
  <2>1. a1 \in Nat /\ a2 \in Nat /\ b1 \in Nat /\ b2 \in Nat
    BY RankIsNat
  <2>2. hitKeys(s[j]) = <<a1, a2>> /\ hitKeys(s[i]) = <<b1, b2>>
    BY DEF hitKeys
  <2>3. /\ s[i].at \in Nat /\ s[j].at \in Nat
        /\ x[i] = b1 /\ x[j] = a1 /\ y[i] = b2 /\ y[j] = a2
        /\ z[i] = 0 - s[i].at /\ z[j] = 0 - s[j].at
    BY <1>1
  <2> HIDE DEF x, y, z, a1, a2, b1, b2
  <2>0. <<a1, a2>> = <<b1, b2>> <=> a1 = b1 /\ a2 = b2
    OBVIOUS
  <2>6. /\ keyBefore(<<a1, a2>>, <<b1, b2>>) <=> a1 < b1 \/ (a1 = b1 /\ a2 < b2)
        /\ keyBefore(<<b1, b2>>, <<a1, a2>>) <=> b1 < a1 \/ (b1 = a1 /\ b2 < a2)
    BY <2>1, BeforeIsOrder
  <2>4. hitBefore(s[j], s[i]) <=> a1 < b1 \/ (a1 = b1 /\ a2 < b2) \/ (a1 = b1 /\ a2 = b2 /\ s[j].at > s[i].at)
    BY <2>0, <2>2, <2>6 DEF hitBefore
  <2>5. hitBefore(s[i], s[j]) <=> b1 < a1 \/ (b1 = a1 /\ b2 < a2) \/ (b1 = a1 /\ b2 = a2 /\ s[i].at > s[j].at)
    BY <2>0, <2>2, <2>6 DEF hitBefore
  <2> QED
    BY <2>1, <2>3, <2>4, <2>5 DEF hitFirst, inFront
<1> HIDE DEF x, y, z
<1>5. placed(n, x, y, z, p)
  <2> SUFFICES ASSUME NEW i \in 1..n PROVE p[i] = placeOf(n, x, y, z, i)
    BY DEF placed
  <2>1. {j \in DOMAIN s : hitFirst(s, j, i)} = allInFront(n, x, y, z, i)
    BY <1>1, <1>4 DEF allInFront
  <2>2. \A S : Agents!Cardinality(S) = Cardinality(S)
    BY DEF Agents!Cardinality, Cardinality
  <2> QED
    BY <1>1, <2>1, <2>2 DEF placeOf
<1> HIDE DEF p, t
<1> QED
  BY <1>1, <1>2, <1>3, <1>5, SortedStay DEF t

\* A scan as the store keeps it.
Whole(sc) == sc.at \in Nat /\ sc.id \in Nat /\ IsFiniteSet(sc.components)
AllWhole(S) == IsFiniteSet(S) /\ \A sc \in S : Whole(sc)

\* The scans a query names, and those it should.
named(order, q) == {h.scan : h \in Agents!Range(Agents!QueryComponent(order, q))}
having(S, q) == {sc.id : sc \in {sc \in latest(S) : found(sc, q) # {}}}

LEMMA QueryNames ==
  ASSUME OrderIsList, NEW S, AllWhole(S),
         NEW order \in Seq(S), elements(order) = S, NEW q, q.latest
  PROVE  named(order, q) = having(S, q)
<1> DEFINE pool == Agents!latestPerImage(order)
           n == Len(pool)
           hs == hitsOf(pool, q)
           V == UNION {{hits(sc, q)[k] : k \in DOMAIN hits(sc, q)} : sc \in latest(S)}
           P == Agents!FlattenSeq(hs)
           R == Agents!QueryComponent(order, q)
<1>1. latest(S) \in SUBSET S /\ IsFiniteSet(S) /\ \A sc \in S : sc.at \in Nat /\ sc.id \in Nat
  BY DEF latest, AllWhole, Whole
<1>2. pool \in Seq(latest(S)) /\ elements(pool) = latest(S)
  BY <1>1, LatestStay
<1>3. R = hitsSorted(P)
  BY QueryIs
<1> HIDE DEF R, P, pool
<1>4. n \in Nat /\ DOMAIN pool = 1..n /\ \A i \in 1..n : pool[i] \in latest(S)
  BY <1>2
<1>5. ASSUME NEW sc \in latest(S)
      PROVE  /\ hits(sc, q) \in Seq(V)
             /\ elements(hits(sc, q)) # {} <=> found(sc, q) # {}
             /\ \A v \in elements(hits(sc, q)) : v.scan = sc.id /\ v.at \in Nat
  <2>1. IsFiniteSet(sc.components) /\ sc.at \in Nat
    BY <1>1, <1>5 DEF AllWhole, Whole
  <2>2. /\ \E k \in Nat : DOMAIN hits(sc, q) = 1..k
        /\ \A i \in DOMAIN hits(sc, q) : hits(sc, q)[i].scan = sc.id /\ hits(sc, q)[i].at = sc.at
        /\ DOMAIN hits(sc, q) # {} <=> found(sc, q) # {}
    BY <2>1, HitsAreOfScan
  <2>3. PICK k \in Nat : DOMAIN hits(sc, q) = 1..k
    BY <2>2
  <2>4. ASSUME NEW i \in 1..k PROVE hits(sc, q)[i] \in V
    <3>1. hits(sc, q)[i] \in {hits(sc, q)[j] : j \in DOMAIN hits(sc, q)}
      BY <2>3
    <3> QED
      BY <1>5, <3>1
  <2>5. hits(sc, q) = [i \in 1..k |-> hits(sc, q)[i]]
    <3>1. hits(sc, q) = [i \in DOMAIN hits(sc, q) |-> hits(sc, q)[i]]
      BY DEF hits
    <3> QED
      BY <2>3, <3>1
  <2> HIDE DEF V
  <2>6. hits(sc, q) \in Seq(V) /\ Len(hits(sc, q)) = k
    BY <2>4, <2>5
  <2>7. elements(hits(sc, q)) = {hits(sc, q)[i] : i \in 1..k}
    BY <2>6 DEF elements
  <2>8. elements(hits(sc, q)) # {} <=> found(sc, q) # {}
    BY <2>2, <2>3, <2>7
  <2>9. \A v \in elements(hits(sc, q)) : v.scan = sc.id /\ v.at \in Nat
    BY <2>1, <2>2, <2>3, <2>7
  <2> QED
    BY <2>6, <2>8, <2>9
<1>6. \A h \in V : h.at \in Nat
  <2> SUFFICES ASSUME NEW h \in V PROVE h.at \in Nat
    OBVIOUS
  <2>1. PICK sc \in latest(S) : h \in {hits(sc, q)[k] : k \in DOMAIN hits(sc, q)}
    OBVIOUS
  <2> HIDE DEF V
  <2>2. hits(sc, q) \in Seq(V)
    BY <1>5
  <2>3. h \in elements(hits(sc, q))
    BY <2>1, <2>2 DEF elements
  <2> QED
    BY <1>5, <2>3
<1> HIDE DEF V
<1>7. hs \in [1..n -> Seq(V)] /\ \A i \in 1..n : hs[i] = hits(pool[i], q)
  BY <1>4, <1>5 DEF hitsOf
<1> HIDE DEF hs
<1>8. P \in Seq(V) /\ \A v : v \in elements(P) <=> \E i \in 1..n : v \in elements(hs[i])
  <2> HIDE DEF n
  <2> QED
    BY <1>4, <1>7, JoinHas DEF P
<1>9. R \in Seq(V) /\ elements(R) = elements(P)
  BY <1>3, <1>6, <1>8, HitsStay
<1>10. Agents!Range(R) = elements(R)
  BY <1>9 DEF Agents!Range, elements
<1>11. \A v : v \in Agents!Range(R) <=> \E sc \in latest(S) : v \in elements(hits(sc, q))
  <2>1. \A sc : sc \in latest(S) <=> \E i \in 1..n : sc = pool[i]
    BY <1>2 DEF elements
  <2> QED
    BY <1>4, <1>7, <1>8, <1>9, <1>10, <2>1
<1>12. ASSUME NEW id, NEW h \in Agents!Range(R), id = h.scan
       PROVE  \E sc \in latest(S) : sc.id = id /\ found(sc, q) # {}
  <2>1. PICK sc \in latest(S) : h \in elements(hits(sc, q))
    BY <1>11
  <2> QED
    BY <1>5, <1>12, <2>1
<1>13. ASSUME NEW sc \in latest(S), found(sc, q) # {}
       PROVE  \E h \in Agents!Range(R) : sc.id = h.scan
  <2>1. PICK h : h \in elements(hits(sc, q))
    BY <1>5, <1>13
  <2> QED
    BY <1>5, <1>11, <2>1
<1>14. \A id : id \in having(S, q) <=> \E sc \in latest(S) : sc.id = id /\ found(sc, q) # {}
  BY DEF having
<1>15. \A id : id \in named(order, q) <=> \E h \in Agents!Range(R) : id = h.scan
  BY DEF named, R
<1>16. \A id : id \in having(S, q) <=> id \in named(order, q)
  BY <1>12, <1>13, <1>14, <1>15
<1>17. (\A id \in having(S, q) : id \in named(order, q)) /\ (\A id \in named(order, q) : id \in having(S, q))
  BY <1>16
<1> QED
  BY <1>17

LEMMA ReverseStays ==
  ASSUME NEW S, NEW s \in Seq(S)
  PROVE  Agents!Reverse(s) \in Seq(S) /\ elements(Agents!Reverse(s)) = elements(s)
<1> DEFINE n == Len(s)
           r == Agents!Reverse(s)
<1>1. n \in Nat /\ \A i \in 1..n : s[i] \in S
  OBVIOUS
<1>2. r = [i \in 1..n |-> s[(n - i) + 1]]
  BY DEF Agents!Reverse
<1>3. r \in Seq(S) /\ Len(r) = n
  BY <1>1, <1>2
<1> HIDE DEF r, n
<1>4. ASSUME NEW i \in 1..n
      PROVE  /\ (n - i) + 1 \in 1..n /\ r[i] = s[(n - i) + 1]
             /\ r[(n - i) + 1] = s[i]
  <2>1. (n - i) + 1 \in 1..n /\ (n - ((n - i) + 1)) + 1 = i
    BY <1>1
  <2> QED
    BY <1>2, <2>1
<1>5. ASSUME NEW i \in 1..n PROVE r[i] \in {s[k] : k \in 1..n} /\ s[i] \in {r[k] : k \in 1..n}
  BY <1>4
<1>6. {r[i] : i \in 1..n} = {s[i] : i \in 1..n}
  BY <1>5
<1> QED
  BY <1>3, <1>6 DEF elements, n, r

\* What agents read, of scans that are whole.
LEMMA RadiusFromWhole ==
  ASSUME OrderIsList, AllWhole(stored)
  PROVE  Agents!BlastRadiusIsLatest
<1> SUFFICES ASSUME NEW order \in {Agents!SetToSeq(stored), Agents!Reverse(Agents!SetToSeq(stored))},
                    NEW any \in BOOLEAN
             PROVE  LET q == [any |-> any, name |-> [word |-> "openssl", upper |-> TRUE],
                              version |-> "", latest |-> TRUE]
                        newest == {s \in stored : \A t \in stored : t.image = s.image => t.at <= s.at}
                        told == {h.scan : h \in Agents!Range(Agents!QueryComponent(order, q))}
                    IN /\ \A id \in told : \E s \in newest : s.id = id /\ \E c \in s.components : Agents!matches(q, c)
                       /\ \A s \in newest : (\E c \in s.components : Agents!matches(q, c)) =>
                            \/ s.id \in told
                            \/ \E t \in newest : t # s /\ t.image = s.image
  BY DEF Agents!BlastRadiusIsLatest
<1> DEFINE q == [any |-> any, name |-> [word |-> "openssl", upper |-> TRUE], version |-> "", latest |-> TRUE]
           newest == {s \in stored : \A t \in stored : t.image = s.image => t.at <= s.at}
<1>1. order \in Seq(stored) /\ elements(order) = stored
  BY SetIsListed, ReverseStays DEF AllWhole
<1>2. q.latest
  OBVIOUS
<1> HIDE DEF q
<1>3. named(order, q) = having(stored, q)
  BY <1>1, <1>2, QueryNames
<1>10. \A id : id \in having(stored, q) <=> \E sc \in latest(stored) : sc.id = id /\ found(sc, q) # {}
  BY DEF having
<1>4. \A sc : found(sc, q) # {} <=> \E c \in sc.components : Agents!matches(q, c)
  BY DEF found
<1>5. \A sc \in stored : sc.at \in Nat /\ sc.id \in Nat
  BY DEF AllWhole, Whole
<1>6. ASSUME NEW s \in latest(stored) PROVE s \in newest
  <2>1. s \in stored /\ \A t \in stored : t.image = s.image => ~(s.at < t.at)
    BY <1>6 DEF latest, outdoes
  <2>2. \A t \in stored : ~(s.at < t.at) => t.at <= s.at
    BY <1>5, <2>1
  <2> QED
    BY <2>1, <2>2
<1>7. ASSUME NEW s \in newest, \A t \in newest : t = s \/ t.image # s.image
      PROVE  s \in latest(stored)
  <2>1. s \in stored /\ \A t \in stored : t.image = s.image => t.at <= s.at
    OBVIOUS
  <2>2. ASSUME NEW t \in stored, outdoes(t, s) PROVE FALSE
    <3>1. t.image = s.image /\ t.at <= s.at /\ (s.at < t.at \/ (s.at = t.at /\ s.id < t.id))
      BY <2>1, <2>2 DEF outdoes
    <3>2. s.at = t.at /\ s.id < t.id
      BY <1>5, <2>1, <3>1
    <3>3. t \in newest
      BY <2>1, <3>1, <3>2
    <3>4. t = s
      BY <1>7, <3>1, <3>3
    <3> QED
      BY <1>5, <2>1, <3>2, <3>4
  <2> QED
    BY <2>1, <2>2 DEF latest
<1> HIDE DEF newest
<1>8. \A id \in named(order, q) : \E s \in newest : s.id = id /\ \E c \in s.components : Agents!matches(q, c)
  BY <1>3, <1>10, <1>4, <1>6
<1>9. ASSUME NEW s \in newest, \E c \in s.components : Agents!matches(q, c), s.id \notin named(order, q)
      PROVE  \E t \in newest : t # s /\ t.image = s.image
  BY <1>3, <1>10, <1>4, <1>7, <1>9
<1> QED
  BY <1>8, <1>9 DEF newest, named, q

(***************************************************************************)
(* The store: what agents keep has a time and an id that can be compared.  *)
(***************************************************************************)
\* What is stored or about to be has a time, an id and finitely many components.
ScanInv ==
  /\ clock \in Nat
  /\ \A sc \in stored : Whole(sc)
  /\ \A c \in Sessions : work[c].at = "put" => Whole(work[c].scan)

\* A scan that is built, of a target there is.
LEMMA BuiltIsWhole ==
  ASSUME clock \in Nat, NEW target \in DOMAIN Estate, NEW image, NEW owner, NEW n \in 0..Len(Estate[target].findings),
         NEW report, report \in {Estate[target].findings, SubSeq(Estate[target].findings, 1, n)},
         NEW parts, parts \in {{}, Estate[target].components}
  PROVE  Whole(Agents!normalize([id |-> Agents!idOf(image, clock, report), image |-> image, at |-> clock,
                                 owner |-> owner, findings |-> report, components |-> parts]))
<1> DEFINE id == Agents!idOf(image, clock, report)
           sc == [id |-> id, image |-> image, at |-> clock, owner |-> owner, findings |-> report, components |-> parts]
           lowered(c) == [c EXCEPT !.name = Agents!lower(@)]
           fold == [c \in parts |-> lowered(c)]
<1>1. Len(report) \in Nat
  <2>1. aSequence(Estate[target].findings)
    BY EstateAssumption DEF EstateAssumption
  <2> QED
    BY <2>1 DEF aSequence
<1>2. id \in Nat
  BY <1>1, OrderIsASequence, RankIsNat DEF Agents!idOf
<1>3. IsFiniteSet(parts)
  BY EstateAssumption, FS_EmptySet DEF EstateAssumption
<1> HIDE DEF id
<1>4. Agents!normalize(sc) = [sc EXCEPT !.components = {lowered(c) : c \in parts}]
  BY DEF Agents!normalize
<1> HIDE DEF lowered
<1>5. IsFiniteSet({lowered(c) : c \in parts})
  <2>1. fold \in Surjection(parts, {lowered(c) : c \in parts})
    BY DEF Surjection
  <2> QED
    BY <1>3, <2>1, FS_Surjection
<1>6. /\ Agents!normalize(sc).at = clock /\ Agents!normalize(sc).id = id
      /\ Agents!normalize(sc).components = {lowered(c) : c \in parts}
  BY <1>4
<1> QED
  BY <1>2, <1>5, <1>6 DEF Whole, id

\* A step that neither builds nor stores a scan.
LEMMA ScansUntouched ==
  ASSUME ScanInv, UNCHANGED stored, clock' \in Nat,
         \A d \in Sessions : work'[d].at = "put" => work[d].at = "put" /\ work'[d].scan = work[d].scan
  PROVE  ScanInv'
BY DEF ScanInv, Whole

LEMMA AgentsKeepScans ==
  ASSUME AgentShape, AuditInv, ScanInv, [Agents!AgentNext]_(Agents!agentVars)
  PROVE  ScanInv'
<1>1. clock \in Nat /\ DOMAIN work = Sessions /\ \A c \in Sessions : DOMAIN work[c] = {"at", "persist", "left", "scan"}
  BY DEF ScanInv, AgentShape
<1>2. ASSUME NEW c \in Sessions, Agents!Receive(c) PROVE ScanInv'
  <2>1. /\ UNCHANGED <<stored, clock>>
        /\ work' = work \/ work' = [work EXCEPT ![c] = [Agents!Idle EXCEPT !.at = "gate"]]
    BY <1>2 DEF Agents!Receive
  <2>2. [Agents!Idle EXCEPT !.at = "gate"].at = "gate"
    BY DEF Agents!Idle
  <2> QED
    BY <1>1, <2>1, <2>2, ScansUntouched
<1>3. ASSUME NEW c \in Sessions, Agents!Gate(c) PROVE ScanInv'
  <2>1. /\ UNCHANGED <<stored, clock>>
        /\ \/ work' = [work EXCEPT ![c] = Agents!Idle]
           \/ \E kept \in BOOLEAN : work' = [work EXCEPT ![c].at = "scan", ![c].persist = kept]
    BY <1>3 DEF Agents!Gate, Agents!toScan
  <2>2. \A d \in Sessions : work'[d].at = "put" => work[d].at = "put" /\ work'[d].scan = work[d].scan
    BY <1>1, <2>1, IdleShape
  <2> QED
    BY <1>1, <2>1, <2>2, ScansUntouched
<1>4. ASSUME NEW c \in Sessions, Agents!Put(c) PROVE ScanInv'
  <2>1. /\ work[c].at = "put" /\ UNCHANGED clock /\ work' = [work EXCEPT ![c] = Agents!Idle]
        /\ stored' \subseteq stored \cup {work[c].scan}
    BY <1>4 DEF Agents!Put
  <2>2. \A sc \in stored' : Whole(sc)
    BY <2>1 DEF ScanInv
  <2>3. \A d \in Sessions : work'[d].at = "put" => Whole(work'[d].scan)
    BY <1>1, <2>1, IdleShape DEF ScanInv
  <2> QED
    BY <1>1, <2>1, <2>2, <2>3 DEF ScanInv, Whole
<1>5. ASSUME NEW c \in Sessions, Agents!RunAndBuild(c) PROVE ScanInv'
  <2> DEFINE m == inbox[c][Len(inbox[c])]
             a == m.args
             all == Estate[a.target].findings
  <2>1. /\ work[c].at = "scan" /\ UNCHANGED <<stored, clock>>
        /\ \E n \in 0..Len(all) :
             work' = [work EXCEPT ![c].at = "put",
               ![c].scan = LET report == IF work[c].left THEN SubSeq(all, 1, n) ELSE all
                               parts == IF work[c].left \/ ~work[c].persist THEN {} ELSE Estate[a.target].components
                           IN Agents!normalize([id |-> Agents!idOf(a.target, clock, report), image |-> a.target,
                                at |-> clock, owner |-> a.owner, findings |-> report, components |-> parts])]
    BY <1>5 DEF Agents!RunAndBuild, Agents!current
  <2>2. a.target \in DOMAIN Estate
    <3>1. Scanning(m) /\ Len(inbox[c]) # 0 /\ inbox[c] \in Seq(Inbound)
      BY <2>1 DEF AuditInv, WorkInv, AgentShape
    <3>2. m \in Inbound
      BY <3>1
    <3> QED
      BY <3>1, <3>2, EstateAssumption DEF Scanning, EstateAssumption
  <2> HIDE DEF a, all
  <2>3. \E sc : Whole(sc) /\ work' = [work EXCEPT ![c].at = "put", ![c].scan = sc]
    <3>1. PICK n \in 0..Len(all) :
             work' = [work EXCEPT ![c].at = "put",
               ![c].scan = LET report == IF work[c].left THEN SubSeq(all, 1, n) ELSE all
                               parts == IF work[c].left \/ ~work[c].persist THEN {} ELSE Estate[a.target].components
                           IN Agents!normalize([id |-> Agents!idOf(a.target, clock, report), image |-> a.target,
                                at |-> clock, owner |-> a.owner, findings |-> report, components |-> parts])]
      BY <2>1
    <3> DEFINE report == IF work[c].left THEN SubSeq(all, 1, n) ELSE all
               parts == IF work[c].left \/ ~work[c].persist THEN {} ELSE Estate[a.target].components
               sc == Agents!normalize([id |-> Agents!idOf(a.target, clock, report), image |-> a.target,
                       at |-> clock, owner |-> a.owner, findings |-> report, components |-> parts])
    <3>2. report \in {all, SubSeq(all, 1, n)} /\ parts \in {{}, Estate[a.target].components}
      OBVIOUS
    <3> HIDE DEF report, parts
    <3>3. Whole(sc)
      BY <1>1, <2>2, <3>2, BuiltIsWhole DEF all
    <3> HIDE DEF sc
    <3>4. work' = [work EXCEPT ![c].at = "put", ![c].scan = sc]
      BY <3>1 DEF sc, report, parts
    <3> QED
      BY <3>3, <3>4
  <2>4. PICK sc : Whole(sc) /\ work' = [work EXCEPT ![c].at = "put", ![c].scan = sc]
    BY <2>3
  <2>5. work'[c].scan = sc /\ \A d \in Sessions \ {c} : work'[d] = work[d]
    BY <1>1, <2>4
  <2> QED
    BY <1>1, <2>1, <2>4, <2>5 DEF ScanInv, Whole
<1>6. ASSUME NEW c \in Sessions, Agents!Leave(c) PROVE ScanInv'
  <2>1. UNCHANGED <<stored, clock>> /\ work' = [work EXCEPT ![c].left = TRUE]
    BY <1>6 DEF Agents!Leave
  <2>2. \A d \in Sessions : work'[d].at = work[d].at /\ work'[d].scan = work[d].scan
    BY <1>1, <2>1
  <2> QED
    BY <1>1, <2>1, <2>2, ScansUntouched
<1>7. ASSUME UNCHANGED <<stored, work>>, clock' = clock \/ clock' = clock + 1 PROVE ScanInv'
  BY <1>1, <1>7, ScansUntouched
<1> QED
  BY <1>2, <1>3, <1>4, <1>5, <1>6, <1>7 DEF Agents!AgentNext, Agents!Overlong, Agents!Tick, Agents!agentVars

LEMMA AgentInitScans == Agents!AgentInit => ScanInv
BY DEF Agents!AgentInit, Agents!Idle, ScanInv

\* Whatever agents kept, in whatever order the index is iterated, a query of the
\* latest scans names the images whose newest scan has the component, and none that
\* lost it (query.go:38-104).
THEOREM AgentsReadTheLatest == BackendsSpec => []BlastRadiusIsLatest
<1>1. AgentShape /\ ScanInv => BlastRadiusIsLatest
  BY RadiusFromWhole, OrderIsASequence DEF BlastRadiusIsLatest, AgentShape, ScanInv, AllWhole
<1>2. BackendsSpec => [](AgentShape /\ AuditInv /\ ScanInv)
  BY AgentInitInv, AgentsKeepInv, AgentInitScans, AgentsKeepScans, BackendsImplementComponents, PTL
<1> QED
  BY <1>1, <1>2, PTL
=============================================================================
