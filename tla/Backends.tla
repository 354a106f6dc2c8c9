------------------------------ MODULE Backends ------------------------------
(***************************************************************************)
(* Four places in which the program puts what must last: the scan          *)
(* inventory of `dsecrat serve --store` (ScanStore), the forensics         *)
(* directory of the sensor (ForensicsStore), the registry a signature's    *)
(* bundle is attached in and found again (ReferrerClient) and the scans    *)
(* that agents have kept and query through `dsecrat mcp` (AgentServer).    *)
(* They share no state, so a behaviour works with one of them.  The fifth, *)
(* the transparency log, is computed from its entries: Analyses has it.    *)
(***************************************************************************)
EXTENDS ScanStore, Sequences, FiniteSets

CONSTANTS
    Bundles, Foreign, APIs, Bearers, NoBundle, MaxRequestFaults, \* ReferrerClient
    Sessions, Inbound, Estate, NameOrder, MaxMessages, MaxTime, MaxAgentFaults  \* AgentServer

ASSUME BackendsAssumption ==
    /\ Sessions # {} /\ IsFiniteSet(Bundles \cup Foreign)
    /\ APIs \subseteq BOOLEAN /\ Bearers \subseteq BOOLEAN /\ Bundles \cap Foreign = {}
    /\ NoBundle \notin Bundles \cup Foreign \cup {"error", "none yet"}
    /\ {MaxRequestFaults, MaxMessages, MaxTime, MaxAgentFaults} \subseteq Nat

aSequence(s) == s \in Seq({s[i] : i \in DOMAIN s})

\* What a target has is a scan report, and a scan is asked of a target there is.
ASSUME EstateAssumption ==
    /\ aSequence(NameOrder)
    /\ \A t \in DOMAIN Estate : aSequence(Estate[t].findings) /\ IsFiniteSet(Estate[t].components)
    /\ \A m \in Inbound : m.tool = "scan_target" /\ DOMAIN m.args # {} => m.args.target \in DOMAIN Estate \cup {""}

VARIABLES
    backend,                  \* "scans", "forensics", "registry" or "agents"
    file, mayWrite, stage,    \* ForensicsStore, whose pc is stage, whose job is
    bundle,                   \* bundle and whose faults are losses
    reported, denied, losses,
    hasAPI, bearer, blobs, config, manifests, tagged, push, fetch,
    refusals,                 \* ReferrerClient's faults
    server, inbox, replies, work, audit, stored, clock, failed  \* AgentServer

forensicsVars == <<file, mayWrite, stage, bundle, reported, denied, losses>>
registryVars == <<hasAPI, bearer, blobs, config, manifests, tagged, push, fetch, refusals>>
agentVars == <<server, inbox, replies, work, audit, stored, clock, failed>>

Forensics == INSTANCE ForensicsStore WITH
    Writers <- Clients, Evidence <- IDs, pc <- stage, job <- bundle, faults <- losses
Registry == INSTANCE ReferrerClient WITH MaxFaults <- MaxRequestFaults, faults <- refusals
Agents == INSTANCE AgentServer WITH MaxFailures <- MaxAgentFaults

chosen(S) == CHOOSE x \in S : TRUE

\* An idle component is in one of its initial states.
BackendsInit ==
    /\ backend \in {"scans", "forensics", "registry", "agents"}
    /\ Init /\ Forensics!Init /\ Registry!Init /\ Agents!AgentInit
    /\ backend # "scans" => job = chosen([Clients -> [id : IDs, scan : Scans]])
    /\ backend # "forensics" => bundle = chosen([Clients -> IDs])
    /\ backend # "registry" => hasAPI = chosen(APIs) /\ bearer = chosen(Bearers)
    /\ backend # "agents" => ~server.stdio /\ server.mutations /\ server.hasStore

ScanStep ==
    backend = "scans" /\ Next /\ UNCHANGED <<forensicsVars, registryVars, agentVars>>
ForensicsStep ==
    backend = "forensics" /\ Forensics!Next /\ UNCHANGED <<vars, registryVars, agentVars>>
RegistryStep ==
    backend = "registry" /\ Registry!Next /\ UNCHANGED <<vars, forensicsVars, agentVars>>
AgentStep ==
    backend = "agents" /\ Agents!AgentNext /\ UNCHANGED <<vars, forensicsVars, registryVars>>

\* The agents have sent what the bounds allow, or their server is gone.
AgentsDone ==
    /\ backend = "agents" /\ Agents!AgentsAreDone
    /\ UNCHANGED <<vars, forensicsVars, registryVars, agentVars>>

BackendsNext ==
    /\ ScanStep \/ ForensicsStep \/ RegistryStep \/ AgentStep \/ AgentsDone
    /\ UNCHANGED backend

BackendsSpec ==
    BackendsInit /\ [][BackendsNext]_<<vars, forensicsVars, registryVars, agentVars, backend>>

(***************************************************************************)
(*                               Properties                                *)
(***************************************************************************)
\* Write-once: a sealed bundle keeps its content, whatever races, failed
\* writes, crashes and retries of WriteToDir follow.
WriteOnce == [][\A e \in IDs : file[e] = "sealed" => file'[e] = "sealed"]_file

\* A referrer anyone can list has its blobs, whatever became of the push, and a
\* push that reported success is listed (referrers.go:83-120).  "Nothing is
\* signed" is only answered when it is so or a fault hid what is attached
\* (referrers.go:30-31), but for what PutReferrer attached in a registry without
\* the referrers API.
BundlesAreFound == Registry!ListedIsComplete /\ Registry!AttachedIsFound

\* mcp.go:7-12: an attempt of an agent to keep a scan is in the audit log, and
\* nothing is kept that the log does not allow.
PersistIsAudited == backend = "agents" => Agents!PersistIsAudited

\* query.go:104-105: what agents read of the latest scans of each image names the
\* images whose newest scan has the component.
BlastRadiusIsLatest == backend = "agents" => Agents!BlastRadiusIsLatest

(***************************************************************************)
(* The instance that is checked: what agents send and what their scans     *)
(* find.  One scan is kept, one asks for it in a notification, one is not  *)
(* kept; a query over everything; a plan from a scan that may be stored;   *)
(* and a line that does not parse.                                         *)
(***************************************************************************)
finding(rule, area, severity, resource, fix, line) ==
  [rule |-> rule, area |-> area, severity |-> severity, resource |-> resource, fix |-> fix, line |-> line]
openssl == [name |-> [word |-> "openssl", upper |-> TRUE], version |-> "3"]
zlib == [name |-> [word |-> "zlib", upper |-> FALSE], version |-> "1"]

Images ==
  [api |-> [findings |-> <<finding("V1", "VULN", 5, "openssl", "", 0),
                           finding("S1", "SEC", 4, "", "rotate", 3)>>,
            components |-> {openssl, zlib}],
   web |-> [findings |-> <<finding("V1", "OTHER", 3, "", "", 0)>>, components |-> {zlib}]]

Ordered == <<"api", "web", "1", "3", "S1", "V1", "openssl", "zlib">>

NoArgs ==
  [target |-> "", persist |-> FALSE, owner |-> "", scan |-> 0, image |-> "", rule |-> "", min |-> 0,
   any |-> FALSE, name |-> [word |-> "openssl", upper |-> FALSE], version |-> "", latest |-> TRUE,
   findings |-> <<>>]
call(id, tool, args) ==
  [parses |-> TRUE, version |-> TRUE, id |-> id, method |-> "tools/call", tool |-> tool, args |-> args]
keep(target) == [NoArgs EXCEPT !.target = target, !.persist = TRUE, !.owner = "team"]

Messages ==
  {call(1, "scan_target", keep("api")), call(0, "scan_target", keep("web")),
   call(2, "scan_target", [NoArgs EXCEPT !.target = "api"]),
   call(4, "query_inventory", [NoArgs EXCEPT !.any = TRUE, !.latest = FALSE]),
   call(5, "suggest_remediation", [NoArgs EXCEPT !.scan = 112]), call(6, "scan_target", <<>>),
   [call(0, "", NoArgs) EXCEPT !.parses = FALSE]}
=============================================================================
