------------------------------ MODULE ScanStore ------------------------------
(***************************************************************************)
(* The scan store behind `dsecrat serve --store` and the MCP server        *)
(* (store.go, filestore.go): Put indexes a scan in memory under the lock,  *)
(* then saves it outside the lock through a temporary file of its own and  *)
(* a rename; Open rebuilds the index from the directory.  The process may  *)
(* crash at any step and is started again.                                 *)
(***************************************************************************)
EXTENDS Naturals

CONSTANTS
    Clients,    \* concurrent requests that store a scan
    IDs, Scans, NoScan,
    Oversized,  \* the scans whose record exceeds maxRecordBytes
    MaxFaults   \* bound: failed saves and crashes

ASSUME StoreAssumption ==
    NoScan \notin Scans /\ Oversized \subseteq Scans /\ MaxFaults \in Nat

VARIABLES
    phase,   \* of the process: down, serving, refused
    scans,   \* the index: id -> scan or NoScan
    disk,    \* <id>.json: NoScan, a scan, or Torn
    pc, job, \* client -> step of its Put, and the id and scan it puts
    temp,    \* client -> its temporary file: NoScan, a scan, or Torn
    acked,   \* ids whose Put returned without an error
    unsettled, \* ids of which, since the last load, a save failed or two overlapped
    faults   \* faults so far

vars == <<phase, scans, disk, pc, job, temp, acked, unsettled, faults>>

Torn == <<>>
Empty == [id \in IDs |-> NoScan]
File == Scans \cup {NoScan, Torn}

\* readOne: a record that decodes and is not too large.
readable(id) == disk[id] \in Scans \ Oversized

Init ==
    /\ phase = "serving" /\ scans = Empty /\ disk = Empty
    /\ pc = [c \in Clients |-> "idle"]
    /\ job \in [Clients -> [id : IDs, scan : Scans]]
    /\ temp = [c \in Clients |-> NoScan]
    /\ acked = {} /\ unsettled = {} /\ faults = 0

(***************************************************************************)
(*                                  Put                                    *)
(***************************************************************************)
indexed(id, sc) == sc

inFlight(id) == \E c \in Clients : pc[c] # "idle" /\ job[c].id = id

\* The index is replaced under the lock.
Put(c, id, sc) ==
    /\ phase = "serving" /\ pc[c] = "idle"
    /\ job' = [job EXCEPT ![c] = [id |-> id, scan |-> sc]]
    /\ scans' = [scans EXCEPT ![id] = indexed(id, sc)]
    /\ pc' = [pc EXCEPT ![c] = "save"]
    /\ unsettled' = IF inFlight(id) THEN unsettled \cup {id} ELSE unsettled
    /\ UNCHANGED <<phase, disk, temp, acked, faults>>

\* CreateTemp, whose name no other save shares, and Write.
WriteTemp(c) ==
    /\ pc[c] = "save" /\ pc' = [pc EXCEPT ![c] = "rename"]
    /\ temp' = [temp EXCEPT ![c] = job[c].scan]
    /\ UNCHANGED <<phase, scans, disk, job, acked, unsettled, faults>>

\* Variant: the record is written in place, and a failure leaves it torn.
RenameTears(c) ==
    /\ pc[c] = "rename" /\ pc' = [pc EXCEPT ![c] = "return"]
    /\ disk' = [disk EXCEPT ![job[c].id] = Torn]
    /\ temp' = [temp EXCEPT ![c] = NoScan]
    /\ UNCHANGED <<phase, scans, job, acked, unsettled, faults>>

Rename(c) ==
    /\ pc[c] = "rename" /\ pc' = [pc EXCEPT ![c] = "return"]
    /\ disk' = [disk EXCEPT ![job[c].id] = temp[c]]
    /\ temp' = [temp EXCEPT ![c] = NoScan]
    /\ UNCHANGED <<phase, scans, job, acked, unsettled, faults>>

Return(c) ==
    /\ pc[c] = "return" /\ pc' = [pc EXCEPT ![c] = "idle"]
    /\ acked' = acked \cup {job[c].id}
    /\ UNCHANGED <<phase, scans, disk, job, temp, unsettled, faults>>

\* A step of the save fails: the temporary file is removed, Put returns the
\* error, and the index keeps the scan.
SaveFails(c) ==
    /\ pc[c] \in {"save", "rename"} /\ pc' = [pc EXCEPT ![c] = "idle"]
    /\ faults < MaxFaults /\ faults' = faults + 1
    /\ temp' = [temp EXCEPT ![c] = NoScan]
    /\ unsettled' = unsettled \cup {job[c].id}
    /\ UNCHANGED <<phase, scans, disk, job, acked>>

(***************************************************************************)
(*                           Crash and restart                             *)
(***************************************************************************)
\* Temporary files stay behind, under names load does not read.
Crash ==
    /\ phase = "serving" /\ phase' = "down"
    /\ faults < MaxFaults /\ faults' = faults + 1
    /\ scans' = Empty /\ pc' = [c \in Clients |-> "idle"]
    /\ temp' = [c \in Clients |-> NoScan] /\ unsettled' = {}
    /\ UNCHANGED <<disk, job, acked>>

\* Variant: the directory is not read back.
loadedNone(id) == FALSE

loaded(id) == readable(id)

\* Open skips what it cannot read and reports it; MountStore and the MCP
\* command take any report for a failure and do not serve.
Open ==
    /\ phase = "down"
    /\ scans' = [id \in IDs |-> IF loaded(id) THEN disk[id] ELSE NoScan]
    /\ phase' = IF \A id \in IDs : disk[id] = NoScan \/ readable(id) THEN "serving" ELSE "refused"
    /\ UNCHANGED <<disk, pc, job, temp, acked, unsettled, faults>>

Next ==
    \/ Crash \/ Open
    \/ \E c \in Clients :
          \/ WriteTemp(c) \/ Rename(c) \/ Return(c) \/ SaveFails(c)
          \/ \E id \in IDs, sc \in Scans : Put(c, id, sc)

Spec == Init /\ [][Next]_vars

(***************************************************************************)
(*                               Properties                                *)
(***************************************************************************)
\* Every variable keeps its type.
TypeOK ==
    /\ phase \in {"down", "serving", "refused"}
    /\ scans \in [IDs -> Scans \cup {NoScan}] /\ disk \in [IDs -> File]
    /\ pc \in [Clients -> {"idle", "save", "rename", "return"}]
    /\ job \in [Clients -> [id : IDs, scan : Scans]]
    /\ temp \in [Clients -> File]
    /\ acked \subseteq IDs /\ unsettled \subseteq IDs
    /\ faults \in 0..MaxFaults

\* The store is a durable map: saves of several clients, failures and crashes
\* never lose or tear a record, and only stored records are acknowledged.
Inventory == INSTANCE ScanInventory WITH
    stored <- [id \in IDs |-> IF readable(id) THEN disk[id] ELSE NoScan]
InventorySpec == Inventory!Spec

\* An acknowledged scan is in the index whenever the store serves, restarts
\* included.
AckedIsServed ==
    phase = "serving" => \A id \in acked : scans[id] # NoScan

\* filestore.go: "reads are served from memory and writes go to both": memory and
\* directory agree on an id no Put is under way for, unless a save of it failed or
\* was overlapped by another: the index is replaced before, and in another order
\* than, the file.
MemoryAgreesWithDisk ==
    phase = "serving" =>
       \A id \in IDs \ unsettled : ~inFlight(id) => scans[id] = disk[id]

\* Open: "one bad file never blocks the whole inventory".
OneRecordNeverBlocksTheRest == phase # "refused"
=============================================================================
