--------------------------- MODULE Authorization ---------------------------
(***************************************************************************)
(* The authorization plugin of the Docker daemon (authz): an HTTP server   *)
(* that answers each proxied API request from one Policy.  net/http serves *)
(* every request on a goroutine of its own and they share the Policy,      *)
(* whose set of denied capabilities is filled in by the first Evaluate     *)
(* without a lock.                                                         *)
(*                                                                         *)
(* A path is what strings.Split(path, "/") makes of it; a capability is a  *)
(* record of its name and of how it is spelled; the body of a request is   *)
(* NoBody or its HostConfig.                                               *)
(***************************************************************************)
EXTENDS Naturals, Sequences, SequencesExt, FiniteSetsExt

CONSTANTS Callers,   \* the goroutines of net/http
          Policies,  \* what `authz serve` may be started with
          Messages   \* what the daemon may send

VARIABLES
  policy,    \* Server.policy
  denyCaps,  \* Policy.denyCaps: whether the map is made, and its keys
  caller,    \* the goroutines: where they are, their message, what is left to index, the answer
  serving    \* FALSE once the runtime has thrown

authorizationVars == <<policy, denyCaps, caller, serving>>

Unset == [made |-> FALSE, keys |-> {}]
NoAnswer == [allow |-> FALSE, rule |-> ""]

\* What a body without a HostConfig decodes to.
NoBody == [privileged |-> FALSE, hostModes |-> {}, binds |-> <<>>, mounts |-> <<>>, capAdd |-> <<>>]

(***************************************************************************)
(*                                Evaluate                                 *)
(***************************************************************************)
allow == [allow |-> TRUE, rule |-> ""]
deny(rule) == [allow |-> FALSE, rule |-> rule]

isMutating(method) == method \in {"POST", "PUT", "DELETE", "PATCH"}

\* createPathRe is not anchored at the start of the path.
isCreate(path) ==
  Len(path) > 2 /\ SubSeq(path, Len(path) - 1, Len(path)) = <<"containers", "create">>

normalizeCap(c) == c.name

hostSrcFromBind(b) == b.src

\* strings.TrimRight(src, "/"): the root and the empty path are both <<>>.
trimmed(src) == SubSeq(src, 1, Max({i \in DOMAIN src : src[i] # ""} \cup {0}))

dockerSocketPaths == {<<"", "var", "run", "docker.sock">>, <<"", "run", "docker.sock">>}
isDockerSocket(src) == trimmed(src) \in dockerSocketPaths

SensitiveHostPaths ==
  {<<"", "">>, <<"", "etc">>, <<"", "var", "run">>, <<"", "run">>, <<"", "proc">>, <<"", "sys">>,
   <<"", "dev">>, <<"", "var", "lib", "docker">>, <<"", "root">>, <<"", "home">>}
isSensitiveHostPath(src) ==
  trimmed(src) = <<>> \/ \E p \in SensitiveHostPaths : IsPrefix(p, trimmed(src))

isBind(m) == m.type \in {"", "bind"}
\* The list of sources: the binds, then the mounts, of which only bind mounts count.
source(c, i) ==
  IF i \in DOMAIN c.binds THEN hostSrcFromBind(c.binds[i]) ELSE c.mounts[i - Len(c.binds)].src
sources(c) == DOMAIN c.binds \cup {Len(c.binds) + j : j \in {k \in DOMAIN c.mounts : isBind(c.mounts[k])}}

\* The rule a host path falls under, "" if none.
sourceRule(p, src) ==
  IF (p.denySocket \/ p.denyHostPaths) /\ isDockerSocket(src) THEN "AUTHZ-DOCKERSOCK"
  ELSE IF p.denyHostPaths /\ isSensitiveHostPath(src) THEN "AUTHZ-HOSTPATH"
  ELSE ""

\* The first deny that matches; the capabilities are looked up in what the index holds.
evalCreate(p, index, c) ==
  LET hit == {i \in sources(c) : sourceRule(p, source(c, i)) # ""} IN
  IF p.denyPrivileged /\ c.privileged THEN deny("AUTHZ-PRIVILEGED")
  ELSE IF p.denyHostNamespaces /\ c.hostModes # {} THEN deny("AUTHZ-HOSTNS")
  ELSE IF hit # {} THEN deny(sourceRule(p, source(c, Min(hit))))
  ELSE IF \E i \in DOMAIN c.capAdd : normalizeCap(c.capAdd[i]) \in index THEN deny("AUTHZ-CAPADD")
  ELSE allow

Evaluate(p, index, r) ==
  IF p.readOnly /\ isMutating(r.method) THEN deny("AUTHZ-READONLY")
  ELSE IF r.method = "POST" /\ isCreate(r.path) THEN evalCreate(p, index, r.body)
  ELSE allow

(***************************************************************************)
(*                               The server                                *)
(***************************************************************************)
\* authz serve: the flags make the Policy, whose index is nil.
AuthorizationInit ==
  /\ policy \in Policies /\ denyCaps = Unset /\ serving = TRUE
  /\ caller = [c \in Callers |-> [at |-> "idle", req |-> NoBody, todo |-> <<>>, answer |-> NoAnswer]]

Move(c, at) == caller' = [caller EXCEPT ![c].at = at]

\* A handler is called: the handshake and the post-response hook are answered at
\* once, and so is a request hook whose message is no JSON or is too large.
Handle(c) ==
  /\ caller[c].at = "idle"
  /\ \E m \in Messages :
       caller' = [caller EXCEPT ![c] =
         [at |-> IF m.hook = "AuthZReq" /\ m.parses THEN "index" ELSE "answered",
          req |-> m.req, todo |-> <<>>,
          answer |-> IF m.hook = "AuthZReq" THEN NoAnswer ELSE allow]]
  /\ UNCHANGED <<policy, denyCaps, serving>>

\* Policy.index: the test, the assignment of an empty map, one entry after another.
TestIndex(c) ==
  /\ caller[c].at = "index"
  /\ Move(c, IF denyCaps.made THEN "evaluate" ELSE "make")
  /\ UNCHANGED <<policy, denyCaps, serving>>

MakeIndex(c) ==
  /\ caller[c].at = "make"
  /\ denyCaps' = [made |-> TRUE, keys |-> {}]
  /\ caller' = [caller EXCEPT ![c].at = "fill", ![c].todo = policy.denyCapAdd]
  /\ UNCHANGED <<policy, serving>>

\* Variant: the index keeps the spelling of the flag.
FillIndexAsSpelled(c) ==
  /\ caller[c].at = "fill"
  /\ IF caller[c].todo = <<>>
       THEN Move(c, "evaluate") /\ UNCHANGED denyCaps
       ELSE /\ denyCaps' = [denyCaps EXCEPT !.keys = @ \cup
                 {h.name : h \in {x \in {Head(caller[c].todo)} : x.spelled = "plain"}}]
            /\ caller' = [caller EXCEPT ![c].todo = Tail(@)]
  /\ UNCHANGED <<policy, serving>>

FillIndex(c) ==
  /\ caller[c].at = "fill"
  /\ IF caller[c].todo = <<>>
       THEN Move(c, "evaluate") /\ UNCHANGED denyCaps
       ELSE /\ denyCaps' = [denyCaps EXCEPT !.keys = @ \cup {normalizeCap(Head(caller[c].todo))}]
            /\ caller' = [caller EXCEPT ![c].todo = Tail(@)]
  /\ UNCHANGED <<policy, serving>>

Answer(c) ==
  /\ caller[c].at = "evaluate"
  /\ caller' = [caller EXCEPT ![c].at = "answered",
                              ![c].answer = Evaluate(policy, denyCaps.keys, caller[c].req)]
  /\ UNCHANGED <<policy, denyCaps, serving>>

Return(c) == caller[c].at = "answered" /\ Move(c, "idle") /\ UNCHANGED <<policy, denyCaps, serving>>

\* A map that is written while another goroutine reads or writes it may be found
\* out by the runtime, which then ends the process.
Throw(c, d) ==
  /\ c # d
  /\ caller[c].at = "fill" /\ caller[d].at \in {"fill", "evaluate"}
  /\ serving' = FALSE
  /\ UNCHANGED <<policy, denyCaps, caller>>

AuthorizationNext ==
  /\ serving
  /\ \/ \E c \in Callers : \/ Handle(c) \/ TestIndex(c) \/ MakeIndex(c) \/ FillIndex(c)
                           \/ Answer(c) \/ Return(c)
     \/ \E c, d \in Callers : Throw(c, d)

AuthorizationSpec == AuthorizationInit /\ [][AuthorizationNext]_authorizationVars

(***************************************************************************)
(*                               Properties                                *)
(***************************************************************************)
\* The rules of the policy a request breaks, by what each field of Policy is
\* said to deny (authz.go:42-60).
Broken(p, r) ==
  LET c == r.body
      create == r.method = "POST" /\ isCreate(r.path)
      src == {b.src : b \in Range(c.binds)} \cup {m.src : m \in {n \in Range(c.mounts) : isBind(n)}}
      socket == \E s \in src : isDockerSocket(s)
      denied == {d.name : d \in Range(p.denyCapAdd)} \cap {a.name : a \in Range(c.capAdd)}
  IN {rule \in {"AUTHZ-READONLY"} : p.readOnly /\ r.method \in {"POST", "PUT", "DELETE", "PATCH"}}
     \cup {rule \in {"AUTHZ-PRIVILEGED"} : create /\ p.denyPrivileged /\ c.privileged}
     \cup {rule \in {"AUTHZ-HOSTNS"} : create /\ p.denyHostNamespaces /\ c.hostModes # {}}
     \cup {rule \in {"AUTHZ-DOCKERSOCK"} : create /\ (p.denySocket \/ p.denyHostPaths) /\ socket}
     \cup {rule \in {"AUTHZ-HOSTPATH"} : create /\ p.denyHostPaths /\ \E s \in src : isSensitiveHostPath(s)}
     \cup {rule \in {"AUTHZ-CAPADD"} : create /\ denied # {}}

filling(d) == caller[d].at \in {"make", "fill"}

\* However requests interleave, a denial names a rule the request breaks, and a
\* request that breaks one is permitted only for its capabilities, and only while
\* another goroutine is between the test and the last entry of Policy.index.
decidesAsWritten(c) ==
  (caller[c].at = "evaluate" /\ caller'[c].at = "answered") =>
    LET broken == Broken(policy, caller[c].req)
        said == caller'[c].answer
    IN /\ ~said.allow => said.rule \in broken
       /\ said.allow => broken \subseteq {"AUTHZ-CAPADD"}
       /\ said.allow /\ broken # {} => \E d \in Callers \ {c} : filling(d)
DecidesAsWritten == [][\A c \in Callers : decidesAsWritten(c)]_authorizationVars

\* authz.go:55: "DenyCapAdd denies adding any capability in this set".  It does
\* not while the first requests of the daemon race to fill the index.
AddedCapIsDenied ==
  \A c \in Callers :
    caller[c].at = "answered" /\ caller[c].answer.allow =>
      "AUTHZ-CAPADD" \notin Broken(policy, caller[c].req)
=============================================================================
