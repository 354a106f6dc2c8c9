---------------------------- MODULE AgentServer ----------------------------
(***************************************************************************)
(* The MCP server (mcp): JSON-RPC over stdio, one message after another,   *)
(* or over HTTP, a goroutine for each.  Its tools scan, query the store    *)
(* and explain; keeping a scan is the one thing that changes state, off    *)
(* unless the operator turned it on and written to the audit log.          *)
(*                                                                         *)
(* A message is [parses, version, id, method, tool, args]: id 0 marks a    *)
(* notification, tool "" a call that names no known tool and args the      *)
(* decoded arguments of that tool, <<>> when they do not decode.           *)
(***************************************************************************)
EXTENDS ScanQueries, Folds, Functions

CONSTANTS
  Sessions,     \* the connections of agents; stdio has one
  Inbound,      \* what an agent may send
  Estate,       \* target -> the sequence of findings and the components a full scan reports
  MaxMessages,  \* bound: messages of all sessions
  MaxTime,      \* bound: the clock
  MaxFailures   \* bound: saves that fail and clients that go away

VARIABLES
  server,   \* [stdio, mutations, hasStore, up], fixed at start but for up
  inbox,    \* session -> the messages read
  replies,  \* session -> what was written back
  work,     \* session -> the scan under way: its step, whether to keep it, whether its client left
  audit,    \* AuditLog.entries, each with the message it is about
  stored,   \* Store.scans
  clock, failed

agentVars == <<server, inbox, replies, work, audit, stored, clock, failed>>

Idle == [at |-> "idle", persist |-> FALSE, left |-> FALSE, scan |-> <<>>]
received == FoldFunction(LAMBDA box, n : Len(box) + n, 0, inbox)
current(c) == inbox[c][Len(inbox[c])]

(***************************************************************************)
(*                              handleMessage                              *)
(***************************************************************************)
isNotification(m) == m.id = 0

\* What is written for m when its outcome is kind, if anything is.
written(m, kind) ==
  IF ~m.parses THEN <<[id |-> 0, kind |-> "parse error"]>>
  ELSE IF isNotification(m) THEN <<>>
  ELSE IF ~m.version THEN <<[id |-> m.id, kind |-> "invalid request"]>>
  ELSE <<[id |-> m.id, kind |-> kind]>>

\* The tools that answer at once.  The store is a map that is iterated in any order.
queried(m, scans) ==
  CASE m.tool = "list_modules" -> "result"
    [] m.tool = "get_findings" -> QueryFindings(scans, m.args)
    [] m.tool = "query_inventory" -> QueryComponent(scans, m.args)
    [] m.tool = "explain_finding" ->
         [i \in DOMAIN m.args.findings |-> Explain(m.args.findings[i])]
    [] m.tool = "suggest_remediation" -> BuildPlan(m.args.target, m.args.findings)

\* A scan that is named is explained or planned for in place of inline findings.
fromStore(m) == m.tool \in {"explain_finding", "suggest_remediation"} /\ m.args.scan # 0
resolved(m) ==
  IF ~fromStore(m) THEN m
  ELSE LET sc == CHOOSE s \in stored : s.id = m.args.scan
       IN [m EXCEPT !.args.findings = sc.findings, !.args.target = sc.image]

\* unmarshalArgs; arguments that are absent decode to an empty call.
decodes(m) == DOMAIN m.args # {}

\* A tool that cannot do its work says so in a result of its own.
toolFails(m) ==
  \/ m.tool # "list_modules" /\ ~decodes(m)
  \/ m.tool \in {"get_findings", "query_inventory"} /\ ~server.hasStore
  \/ fromStore(m) /\ (~server.hasStore \/ \A s \in stored : s.id # m.args.scan)
  \/ m.tool \in {"explain_finding", "suggest_remediation"} /\ m.args.scan = 0 /\ m.args.findings = <<>>
  \/ m.tool = "scan_target" /\ m.args.target = ""

scans(m) == m.parses /\ m.version /\ m.method = "tools/call" /\ m.tool = "scan_target" /\ ~toolFails(m)

\* dispatch, for all but a scan.
outcome(m, order) ==
  CASE m.method \in {"initialize", "ping", "tools/list"} -> "result"
    [] m.method = "notifications/initialized" -> "null"
    [] m.method = "tools/call" /\ m.tool = "" -> "invalid params"
    [] m.method = "tools/call" /\ m.tool # "" ->
         IF toolFails(m) THEN "tool error" ELSE queried(resolved(m), order)
    [] OTHER -> "method not found"

Reply(c, m, kind) == replies' = [replies EXCEPT ![c] = @ \o written(m, kind)]

\* A message is read; all but a scan is answered before the next step.
Receive(c) ==
  /\ server.up /\ work[c].at = "idle" /\ received < MaxMessages
  /\ \E m \in Inbound, order \in SetToSeqs(stored) :
       /\ inbox' = [inbox EXCEPT ![c] = Append(@, m)]
       /\ IF scans(m)
            THEN work' = [work EXCEPT ![c] = [Idle EXCEPT !.at = "gate"]] /\ UNCHANGED replies
            ELSE /\ Reply(c, m, IF m.parses /\ m.version THEN outcome(m, order) ELSE "")
                 /\ UNCHANGED work
  /\ UNCHANGED <<server, audit, stored, clock, failed>>

\* A line over the limit ends the stdio server.
Overlong(c) ==
  /\ server.up /\ server.stdio /\ work[c].at = "idle"
  /\ server' = [server EXCEPT !.up = FALSE]
  /\ UNCHANGED <<inbox, replies, work, audit, stored, clock, failed>>

(***************************************************************************)
(*                             toolScanTarget                              *)
(***************************************************************************)
entry(c, permitted) == [session |-> c, message |-> Len(inbox[c]), allowed |-> permitted]
toScan(c, keep) == work' = [work EXCEPT ![c].at = "scan", ![c].persist = keep]

\* Variant: a denied scan is kept.
GateKeeps(c) ==
  /\ work[c].at = "gate"
  /\ LET m == current(c) IN
     /\ audit' = IF m.args.persist THEN Append(audit, entry(c, server.mutations)) ELSE audit
     /\ toScan(c, m.args.persist /\ server.hasStore)
  /\ UNCHANGED <<server, inbox, replies, stored, clock, failed>>

\* The gate: keeping is dropped where mutations are off, and refused without a store.
Gate(c) ==
  /\ work[c].at = "gate"
  /\ LET m == current(c) IN
     \/ /\ ~m.args.persist
        /\ toScan(c, FALSE) /\ UNCHANGED <<audit, replies>>
     \/ /\ m.args.persist /\ ~server.mutations
        /\ audit' = Append(audit, entry(c, FALSE))
        /\ toScan(c, FALSE) /\ UNCHANGED replies
     \/ /\ m.args.persist /\ server.mutations /\ ~server.hasStore
        /\ Reply(c, m, "tool error")
        /\ work' = [work EXCEPT ![c] = Idle] /\ UNCHANGED audit
     \/ /\ m.args.persist /\ server.mutations /\ server.hasStore
        /\ audit' = Append(audit, entry(c, TRUE))
        /\ toScan(c, TRUE) /\ UNCHANGED replies
  /\ UNCHANGED <<server, inbox, stored, clock, failed>>

\* computeID: a number for the image, the time and the findings, and not the
\* components.
idOf(image, at, findings) == 100 * Rank(image) + 10 * at + Len(findings)

\* RunAndBuild: every module, and the inventory only of a scan that is kept.  One
\* whose client is gone stops before some module and has no inventory.
RunAndBuild(c) ==
  /\ work[c].at = "scan"
  /\ \E n \in 0..Len(Estate[current(c).args.target].findings) :
     LET a == current(c).args
         found == IF work[c].left THEN SubSeq(Estate[a.target].findings, 1, n) ELSE Estate[a.target].findings
         parts == IF work[c].left \/ ~work[c].persist THEN {} ELSE Estate[a.target].components
     IN work' = [work EXCEPT ![c].at = "put",
          ![c].scan = normalize([id |-> idOf(a.target, clock, found), image |-> a.target, at |-> clock,
                                 owner |-> a.owner, findings |-> found, components |-> parts])]
  /\ UNCHANGED <<server, inbox, replies, audit, stored, clock, failed>>

\* Put replaces the scan of that id.  The index keeps one whose save failed.
Put(c) ==
  /\ work[c].at = "put"
  /\ LET sc == work[c].scan IN
     /\ stored' = IF work[c].persist THEN {s \in stored : s.id # sc.id} \cup {sc} ELSE stored
     /\ \E saved \in BOOLEAN :
          /\ ~saved => work[c].persist /\ failed < MaxFailures
          /\ failed' = IF saved THEN failed ELSE failed + 1
          /\ IF work[c].left THEN UNCHANGED replies
             ELSE Reply(c, current(c), IF saved THEN "result" ELSE "tool error")
  /\ work' = [work EXCEPT ![c] = Idle]
  /\ UNCHANGED <<server, inbox, audit, clock>>

\* The client of an HTTP request goes away; the handler goes on.
Leave(c) ==
  /\ ~server.stdio /\ work[c].at # "idle" /\ ~work[c].left /\ failed < MaxFailures
  /\ work' = [work EXCEPT ![c].left = TRUE]
  /\ failed' = failed + 1
  /\ UNCHANGED <<server, inbox, replies, audit, stored, clock>>

Tick == clock < MaxTime /\ clock' = clock + 1 /\ UNCHANGED <<server, inbox, replies, work, audit, stored, failed>>

\* dsecrat mcp.
AgentInit ==
  /\ server \in [stdio : BOOLEAN, mutations : BOOLEAN, hasStore : BOOLEAN, up : {TRUE}]
  /\ inbox = [c \in Sessions |-> <<>>] /\ replies = [c \in Sessions |-> <<>>]
  /\ work = [c \in Sessions |-> Idle]
  /\ audit = <<>> /\ stored = {} /\ clock = 1 /\ failed = 0

\* Over stdio one session does everything.
active(c) == server.stdio => \A d \in Sessions \ {c} : inbox[d] = <<>>

AgentNext ==
  \/ \E c \in Sessions : /\ active(c)
                         /\ \/ Receive(c) \/ Overlong(c) \/ Gate(c) \/ RunAndBuild(c) \/ Put(c) \/ Leave(c)
  \/ Tick

\* Nothing is left to do within the bounds.
AgentsAreDone ==
  /\ clock = MaxTime /\ \A c \in Sessions : work[c].at = "idle"
  /\ received = MaxMessages \/ ~server.up

(***************************************************************************)
(*                               Properties                                *)
(***************************************************************************)
\* The messages that got past the gate and asked for their scan to be kept.
attempts ==
  UNION {{c} \X {i \in DOMAIN inbox[c] :
                    /\ scans(inbox[c][i]) /\ inbox[c][i].args.persist
                    /\ i < Len(inbox[c]) \/ work[c].at # "gate"} : c \in Sessions}

\* mcp.go:7-12: every attempt to keep a scan is in the audit log once, as it was
\* decided, whatever became of it and however sessions interleave, and nothing is
\* in the store that the log does not allow.  (An attempt without a store is
\* refused before the log.)
PersistIsAudited ==
  /\ {<<e.session, e.message>> : e \in Range(audit)} =
       IF server.mutations /\ ~server.hasStore THEN {} ELSE attempts
  /\ Cardinality(Range(audit)) = Len(audit)
  /\ \A e \in Range(audit) : e.allowed <=> server.mutations
  /\ Cardinality(stored) <= Cardinality({e \in Range(audit) : e.allowed})
  /\ \A c \in Sessions : work[c].at = "put" /\ work[c].persist =>
       \E e \in Range(audit) : e.allowed /\ e.session = c /\ e.message = Len(inbox[c])

\* query.go:104-105: whatever was stored and in whatever order the index is
\* iterated, a query of the latest scans names the images whose newest scan has the
\* component, and no image that lost it.
BlastRadiusIsLatest ==
  \A order \in {SetToSeq(stored), Reverse(SetToSeq(stored))}, any \in BOOLEAN :
    LET q == [any |-> any, name |-> [word |-> "openssl", upper |-> TRUE], version |-> "", latest |-> TRUE]
        newest == {s \in stored : \A t \in stored : t.image = s.image => t.at <= s.at}
        named == {h.scan : h \in Range(QueryComponent(order, q))}
    IN /\ \A id \in named : \E s \in newest : s.id = id /\ \E c \in s.components : matches(q, c)
       /\ \A s \in newest : (\E c \in s.components : matches(q, c)) =>
            \/ s.id \in named
            \/ \E t \in newest : t # s /\ t.image = s.image
=============================================================================
