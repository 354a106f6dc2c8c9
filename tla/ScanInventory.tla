---------------------------- MODULE ScanInventory ----------------------------
(***************************************************************************)
(* What the scan store promises its users (store.go, filestore.go): a      *)
(* durable map from ids to scans.  A scan replaces the scan of its id in   *)
(* one step, nothing else changes or removes it, and an id is acknowledged *)
(* only while a scan of it is stored.                                      *)
(***************************************************************************)
CONSTANTS IDs, Scans, NoScan

VARIABLES
    stored,  \* id -> what a reader of the directory finds
    acked    \* ids some Put reported as recorded

Init == stored = [id \in IDs |-> NoScan] /\ acked = {}

Commit(id, sc) == stored' = [stored EXCEPT ![id] = sc] /\ UNCHANGED acked

Ack(id) ==
    /\ stored[id] # NoScan
    /\ acked' = acked \cup {id} /\ UNCHANGED stored

Next == \E id \in IDs : Ack(id) \/ \E sc \in Scans : Commit(id, sc)

Spec == Init /\ [][Next]_<<stored, acked>>
=============================================================================
