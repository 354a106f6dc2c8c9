------------------------ MODULE ContainerAttribution ------------------------
(***************************************************************************)
(* Which container an event of the eBPF source belongs to: the kernel      *)
(* stamps a record with the id of a cgroup, and the pump looks the id up   *)
(* when it gets to the record, in the cgroup file system and then with the *)
(* container runtime's command line, each behind a cache that is never     *)
(* invalidated (ebpf_linux.go, runtimeevents.go).  By then the cgroup may  *)
(* be gone, and its id, which is an inode number, another's.               *)
(***************************************************************************)
EXTENDS Naturals, Sequences

CONSTANTS
  Cgroups,     \* cgroup ids
  Containers,
  MaxEvents,   \* bound: records of one run
  MaxChanges   \* bound: cgroups that come or go

Host == "host"      \* a cgroup whose path names no container
Nobody == "nobody"  \* no directory, ContainerInfo{}

VARIABLES
  owner,          \* cgroup id -> whose directory has it now
  owners,         \* whose it was so far: <<cgroup, container>>
  unread,         \* cgroup ids of the records in the ring buffer
  cgroupCache,    \* cgroupAttributor.cache
  resolverCache,  \* ContainerResolver.cache
  attributed,     \* the events with their cgroup and what they were attributed to
  cli,            \* a runtime's command line is on PATH
  changes

attributionVars == <<owner, owners, unread, cgroupCache, resolverCache, attributed, cli, changes>>

\* [id, detail]: the detail is "full" when the runtime answered, "id" when only
\* the id of the path is known, and "" when nothing is.
Nothing == [id |-> Nobody, detail |-> ""]

AttributionInit ==
  /\ owner = [c \in Cgroups |-> Nobody] /\ owners = {} /\ unread = <<>>
  /\ cgroupCache = <<>> /\ resolverCache = <<>> /\ attributed = <<>>
  /\ cli \in BOOLEAN /\ changes = 0

\* A container or a service starts in a new cgroup, or a cgroup is removed.
Start(c, who) ==
  /\ owner[c] = Nobody /\ changes < MaxChanges
  /\ owner' = [owner EXCEPT ![c] = who] /\ owners' = owners \cup {<<c, who>>}
  /\ changes' = changes + 1
  /\ UNCHANGED <<unread, cgroupCache, resolverCache, attributed, cli>>

Remove(c) ==
  /\ owner[c] # Nobody /\ changes < MaxChanges
  /\ owner' = [owner EXCEPT ![c] = Nobody]
  /\ changes' = changes + 1
  /\ UNCHANGED <<owners, unread, cgroupCache, resolverCache, attributed, cli>>

Emit(c) ==
  /\ owner[c] # Nobody /\ Len(unread) + Len(attributed) < MaxEvents
  /\ unread' = Append(unread, c)
  /\ UNCHANGED <<owner, owners, cgroupCache, resolverCache, attributed, cli, changes>>

put(cache, key, info) == [k \in DOMAIN cache \cup {key} |-> IF k = key THEN info ELSE cache[k]]

\* cliInspector: a command that fails, or prints what does not decode, is no error.
inspected(id) == {[id |-> id, detail |-> d] : d \in IF cli THEN {"full", "id"} ELSE {"id"}}

\* Variant: only what the runtime answered is remembered.
rememberedWhenFull(cache, key, info) == IF info.detail = "full" THEN put(cache, key, info) ELSE cache

\* ByCgroup remembers every answer.
remembered(cache, key, info) == put(cache, key, info)

\* cgroupAttributor.lookup, misses cached: of the event's cgroup, of the directory
\* that has its id by now, of the container whose id is in the path.
Lookup ==
  /\ unread # <<>>
  /\ LET c == Head(unread)
         found == owner[c]
         answer(info) == attributed' = Append(attributed, [cgroup |-> c, info |-> info])
         learn(info) == cgroupCache' = put(cgroupCache, c, info) /\ answer(info)
     IN \/ /\ c \in DOMAIN cgroupCache
           /\ answer(cgroupCache[c]) /\ UNCHANGED <<cgroupCache, resolverCache>>
        \/ /\ c \notin DOMAIN cgroupCache /\ found \in {Nobody, Host}
           /\ learn(Nothing) /\ UNCHANGED resolverCache
        \/ /\ c \notin DOMAIN cgroupCache /\ found \in DOMAIN resolverCache
           /\ learn(resolverCache[found]) /\ UNCHANGED resolverCache
        \/ /\ c \notin DOMAIN cgroupCache /\ found \in Containers \ DOMAIN resolverCache
           /\ \E info \in inspected(found) :
                learn(info) /\ resolverCache' = remembered(resolverCache, found, info)
  /\ unread' = Tail(unread)
  /\ UNCHANGED <<owner, owners, cli, changes>>

AttributionNext ==
  \/ \E c \in Cgroups : (\E who \in Containers \cup {Host} : Start(c, who)) \/ Remove(c) \/ Emit(c)
  \/ Lookup

AttributionSpec == AttributionInit /\ [][AttributionNext]_attributionVars

(***************************************************************************)
(*                               Properties                                *)
(***************************************************************************)
\* The detector's marks and inventories are by container: events of one cgroup
\* are attributed alike for the life of the sensor, and events of one container
\* carry one image whichever of its cgroups they come from, however often the
\* runtime's command line fails; and nobody is named who never had the cgroup.
AttributionIsSteady ==
  \A i, j \in DOMAIN attributed :
    LET e == attributed[i]  f == attributed[j] IN
    /\ e.cgroup = f.cgroup \/ (e.info.id = f.info.id /\ e.info.id # Nobody) => e.info = f.info
    /\ e.info.id # Nobody => <<e.cgroup, e.info.id>> \in owners

-----------------------------------------------------------------------------
(* What an operator expects and the code does not do *)

\* An event is attributed to the container that had its cgroup: not when the
\* record is read after the cgroup is gone, nor once its id is another's.
OwnerIsNamed ==
  \A i \in DOMAIN attributed :
    LET e == attributed[i] IN
    \A who \in Containers : <<e.cgroup, who>> \in owners => e.info.id = who
=============================================================================
