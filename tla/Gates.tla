-------------------------------- MODULE Gates --------------------------------
(***************************************************************************)
(* What stands between an image and a host that runs it: the signing flow  *)
(* with the verdict of `dsecrat verify` (SigningFlow), the admission       *)
(* webhook, and the authorization plugin of the Docker daemon              *)
(* (Authorization).  They share no state; a behaviour is one of them at    *)
(* work.                                                                   *)
(***************************************************************************)
EXTENDS AdmissionGate

(***************************************************************************)
(* The admission webhook.  Enforcing a policy has three parts: a rule's    *)
(* condition from the author to the gate (PolicyLanguage, which Analyses   *)
(* runs), the reduction of an object to what conditions see (Workload),    *)
(* and the review that puts the results of all rules and images together   *)
(* (AdmissionGate).  The parts pass values, never state: what the first    *)
(* two yield is arbitrary data of the third, so a behaviour exercises one. *)
(***************************************************************************)
CONSTANTS Kinds, MaxContainers

VARIABLES
  part,  \* the one exercised: "object" or "review"
  object

Extraction == INSTANCE Workload

\* A part that is not exercised rests.
atRest ==
  /\ part # "object" => object = [kind |-> "Namespace", pod |-> Extraction!EmptyPod]
  /\ part # "review" => effect = [r \in Rules |-> "deny"] /\ mode = "enforce" /\ ~failOpen

EnforcementInit ==
  /\ part \in {"object", "review"}
  /\ Extraction!ObjectInit /\ Init
  /\ atRest

ObjectStep == part = "object" /\ Extraction!ObjectNext /\ UNCHANGED vars
ReviewStep == part = "review" /\ Next /\ UNCHANGED object

EnforcementNext == (ObjectStep \/ ReviewStep) /\ UNCHANGED part

EnforcementSpec == EnforcementInit /\ [][EnforcementNext]_<<vars, object, part>>

(***************************************************************************)
(* The webhook, the signing flow and the plugin.                           *)
(***************************************************************************)
CONSTANTS
    Keys, Digests, Predicates, AgentAction, Procs, Commands, NoFile, Unreadable, NoCommand,
    VerifyGates, MaxRuns, MaxFaults,  \* SigningFlow
    Callers, Policies, Messages       \* Authorization

VARIABLES
    gate,  \* "admission", "signing" or "daemon"
    file, registry, pc, cmd, held, issued, finished, raced, runs, faults,
    served,  \* Authorization's policy
    denyCaps, caller, serving

Signing == INSTANCE SigningFlow WITH Gates <- VerifyGates
Plugin == INSTANCE Authorization WITH policy <- served

ASSUME SigningAssumption ==
    /\ AgentAction \in Predicates
    /\ \A c \in Commands :
         /\ c.op \in {"sign", "attest"} /\ c.key \in Keys /\ c.digest \in Digests
         /\ c.predicate \in Predicates /\ c.log \in {"none", "ours", "other"}
         /\ c.file \in BOOLEAN /\ c.push \in BOOLEAN
    /\ \A g \in VerifyGates :
         /\ g.trusted \subseteq Keys /\ g.allowed \subseteq Keys /\ g.require \subseteq Predicates
         /\ {g.logKey, g.requireLog, g.agents} \subseteq BOOLEAN
    /\ {MaxRuns, MaxFaults} \subseteq Nat
    /\ NoFile # Unreadable /\ NoCommand \notin Commands
    /\ NoFile \notin [subject : Digests \cup {Signing!NoDigest}, entries : Seq(Signing!Entries)]

\* A flag of `authz serve` and the lists of a decoded body are sequences.
ASSUME PluginAssumption ==
    /\ \A p \in Policies : p.denyCapAdd \in Seq(Plugin!Range(p.denyCapAdd))
    /\ \A m \in Messages : /\ m.req.body.binds \in Seq(Plugin!Range(m.req.body.binds))
                          /\ m.req.body.mounts \in Seq(Plugin!Range(m.req.body.mounts))

admissionVars == <<vars, object, part>>
signingVars == <<file, registry, pc, cmd, held, issued, finished, raced, runs, faults>>
pluginVars == <<served, denyCaps, caller, serving>>

\* A gate that is not at work rests as it was set up.
AdmissionRests ==
    /\ part = "object" /\ object = [kind |-> "Namespace", pod |-> Extraction!EmptyPod]
    /\ mode = "enforce"
PluginRests == served = CHOOSE p \in Policies : TRUE

GatesInit ==
    /\ gate \in {"admission", "signing", "daemon"}
    /\ EnforcementInit /\ Signing!Init /\ Plugin!AuthorizationInit
    /\ gate # "admission" => AdmissionRests
    /\ gate # "daemon" => PluginRests

\* The bound on commands is reached and all of them have ended, or the plugin's
\* process has.
AllRun == runs = MaxRuns /\ (\A p \in Procs : pc[p] = "idle") /\ UNCHANGED signingVars
Thrown == ~serving /\ UNCHANGED pluginVars

GatesNext ==
    /\ UNCHANGED gate
    /\ \/ /\ gate = "admission" /\ EnforcementNext
          /\ UNCHANGED <<signingVars, pluginVars>>
       \/ /\ gate = "signing" /\ (Signing!Next \/ AllRun)
          /\ UNCHANGED <<admissionVars, pluginVars>>
       \/ /\ gate = "daemon" /\ (Plugin!AuthorizationNext \/ Thrown)
          /\ UNCHANGED <<admissionVars, signingVars>>

allVars == <<gate, admissionVars, signingVars, pluginVars>>

GatesSpec == GatesInit /\ [][GatesNext]_allVars

(***************************************************************************)
(*                               Properties                                *)
(***************************************************************************)
\* workload.go:17-18: what any container may do, the policy is told, and each
\* image is evaluated.
FlattenIsConservative == Extraction!FlattenIsConservative

\* A verify verdict that passes is backed by an accepted signature of that very
\* digest and by each attestation the gate requires (verifier.go:42-47, 223-231).
PassIsVouchedFor == Signing!PassIsVouchedFor

\* commandhelpers.go:72-75, command.go:81-90: a bundle never mixes subjects, and
\* what a command that ended with 0 was asked to push or to append is in it.
BundleIsKept == Signing!BundleKeepsItsSubject /\ Signing!ExitZeroIsKept

\* authz.go:42-60: a request is denied by a rule it breaks, and one that breaks a
\* rule passes only while the capability index is being filled.
DecidesAsWritten == Plugin!DecidesAsWritten

(***************************************************************************)
(* The instance that is checked: commands and verify configurations of     *)
(* the signing flow, policies and daemon messages of the plugin.           *)
(***************************************************************************)
CONSTANTS ci, dev, d1, d2, sbom

\* Shorthands: `inFile` is --bundle-out with a path, `push` is --push.
Sign(key, digest, log, inFile, push) ==
  [op |-> "sign", key |-> key, digest |-> digest, log |-> log,
   predicate |-> sbom, file |-> inFile, push |-> push]
Attest(key, digest, predicate, inFile, push) ==
  [op |-> "attest", key |-> key, digest |-> digest, log |-> "none",
   predicate |-> predicate, file |-> inFile, push |-> push]

\* A pipeline's commands, one by a key the policy does not list, one for another
\* image, one logged with a key of its own.
PipelineCommands ==
  {Sign(ci, d1, "ours", TRUE, TRUE), Sign(ci, d1, "none", FALSE, TRUE),
   Sign(dev, d1, "other", TRUE, FALSE), Sign(ci, d2, "none", TRUE, FALSE),
   Attest(ci, d1, sbom, TRUE, TRUE), Attest(dev, d1, sbom, FALSE, TRUE),
   Attest(ci, d1, AgentAction, TRUE, FALSE)}

\* Gates that trust both keys or none, that list one or any, with every
\* combination of the log and agent options.
PipelineGates ==
  [trusted : {{}, {ci, dev}}, allowed : {{ci}, Keys}, logKey : BOOLEAN,
   requireLog : BOOLEAN, require : {{}, {sbom}}, agents : BOOLEAN]

\* ------------------------------------------------------------------------
\* `authz serve` with every combination of its switches, and read-only.
capability(name, spelled) == [name |-> name, spelled |-> spelled]
PermissivePolicy ==
  [readOnly |-> FALSE, denyPrivileged |-> FALSE, denyHostNamespaces |-> FALSE, denySocket |-> FALSE,
   denyHostPaths |-> FALSE, denyCapAdd |-> <<capability("BPF", "plain")>>]
ServePolicies ==
  {[PermissivePolicy EXCEPT !.denyPrivileged = g, !.denyHostNamespaces = g, !.denySocket = s,
        !.denyHostPaths = h,
        !.denyCapAdd = <<capability("SYS_ADMIN", "prefixed"), capability("BPF", "plain")>>] :
     g \in BOOLEAN, s \in BOOLEAN, h \in BOOLEAN}
  \cup {[PermissivePolicy EXCEPT !.readOnly = TRUE]}

\* Containers to create: one with nothing to object to, one for each rule, and
\* near misses: a volume named like a host path, a path that shares only a prefix.
bind(path) == [src |-> path]
mount(path, type) == [src |-> path, type |-> type]
PlainConfig == [privileged |-> FALSE, hostModes |-> {}, binds |-> <<>>, mounts |-> <<>>, capAdd |-> <<>>]
HostConfigs ==
  {PlainConfig, [PlainConfig EXCEPT !.privileged = TRUE],
   [PlainConfig EXCEPT !.hostModes = {"pid"}],
   [PlainConfig EXCEPT !.binds = <<bind(<<"", "home", "">>), bind(<<"", "run", "docker.sock">>)>>],
   [PlainConfig EXCEPT !.binds = <<bind(<<"", "var", "run", "docker.sock", "">>)>>],
   [PlainConfig EXCEPT !.binds = <<bind(<<"cache">>)>>, !.mounts = <<mount(<<"", "">>, "")>>],
   [PlainConfig EXCEPT !.mounts = <<mount(<<"", "etc">>, "volume")>>],
   [PlainConfig EXCEPT !.capAdd = <<capability("CHOWN", "plain"), capability("SYS_ADMIN", "plain")>>],
   [PlainConfig EXCEPT !.capAdd = <<capability("BPF", "prefixed")>>,
                         !.mounts = <<mount(<<"", "etcetera">>, "bind")>>]}

createPath == <<"", "v1.43", "containers", "create">>
proxied(method, path, body) ==
  [hook |-> "AuthZReq", parses |-> TRUE, req |-> [method |-> method, path |-> path, body |-> body]]
DaemonMessages ==
  {proxied("POST", createPath, b) : b \in HostConfigs}
  \cup {proxied("POST", <<"", "containers", "web", "start">>, PlainConfig),
        proxied("DELETE", createPath, PlainConfig), proxied("GET", createPath, PlainConfig),
        [proxied("", <<>>, PlainConfig) EXCEPT !.parses = FALSE],
        [proxied("", <<>>, PlainConfig) EXCEPT !.hook = "AuthZRes"]}
==============================================================================
