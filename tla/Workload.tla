------------------------------ MODULE Workload ------------------------------
(***************************************************************************)
(* How the webhook reduces an admitted object to what a policy sees        *)
(* (admission/workload.go): the pod spec is found in the object, and the   *)
(* security contexts of its containers, under the defaults of the pod, are *)
(* flattened into one workload.  "nil" is a field that is not set.         *)
(***************************************************************************)
EXTENDS Naturals, Sequences, FiniteSets

CONSTANTS
  Kinds,         \* kinds of object sent to the webhook
  MaxContainers  \* bound: containers of an object

VARIABLE object  \* [kind, pod]; pod is [containers, init, ephemeral, context, hostPath]

PodKinds == {"Pod", "Deployment", "CronJob"}
Optional == {"nil", "true", "false"}
OptionalUser == {"nil", "0", "1"}

NoContext == [privileged |-> "nil", nonRoot |-> "nil", user |-> "nil", readOnly |-> "nil",
              escalation |-> "nil", caps |-> {}]

\* Contexts that differ in what they say about the user, or in the rest.
Contexts ==
  {[NoContext EXCEPT !.nonRoot = n, !.user = u] : n \in Optional, u \in OptionalUser}
  \cup {[NoContext EXCEPT !.nonRoot = "true", !.privileged = p, !.readOnly = r, !.escalation = e] :
           p \in {"nil", "true"}, r \in {"nil", "true"}, e \in {"nil", "false"}}
  \cup {[NoContext EXCEPT !.caps = {"NET_ADMIN"}]}

PodContexts == [nonRoot : Optional, user : OptionalUser]

Container == [image : {"", "i1"}, sc : Contexts]

EmptyPod == [containers |-> <<>>, init |-> <<>>, ephemeral |-> <<>>,
             context |-> [nonRoot |-> "nil", user |-> "nil"], hostPath |-> FALSE]

(***************************************************************************)
(*                           extractWorkload                               *)
(***************************************************************************)
\* locatePodSpec: an object of any other kind has no pod.
hasPodSpec(o) == o.kind \in PodKinds

all(pod) == pod.containers \o pod.init \o pod.ephemeral

\* containerBool and containerInt: the container overrides the pod.
inherited(c, pod) == IF c = "nil" THEN pod ELSE c

\* Variant: the pod's user is not a default of the container's.
guaranteedNonRootByContainer(sc, ctx) ==
  inherited(sc.nonRoot, ctx.nonRoot) = "true" \/ sc.user = "1" \/ ctx.user = "1"

guaranteedNonRoot(sc, ctx) ==
  inherited(sc.nonRoot, ctx.nonRoot) = "true" \/ inherited(sc.user, ctx.user) = "1"

allowsEscalation(sc) == sc.escalation # "false"

Absent == [present |-> FALSE, privileged |-> FALSE, runAsRoot |-> FALSE, readOnlyRootFS |-> FALSE,
           escalation |-> FALSE, hostPath |-> FALSE, caps |-> {}, images |-> {}]

\* flatten: one container of each kind of risk makes the workload risky, and
\* the read-only root needs them all.
flatten(pod) ==
  LET some(P(_)) == \E i \in DOMAIN all(pod) : P(all(pod)[i].sc)
      scs == {all(pod)[i].sc : i \in DOMAIN all(pod)}
  IN [present |-> TRUE,
      privileged |-> some(LAMBDA sc : sc.privileged = "true"),
      runAsRoot |-> some(LAMBDA sc : ~guaranteedNonRoot(sc, pod.context)),
      readOnlyRootFS |-> Len(all(pod)) > 0 /\ ~some(LAMBDA sc : sc.readOnly # "true"),
      escalation |-> some(allowsEscalation),
      hostPath |-> pod.hostPath,
      caps |-> UNION {sc.caps : sc \in scs},
      images |-> {all(pod)[i].image : i \in DOMAIN all(pod)} \ {""}]

workload(o) == IF hasPodSpec(o) THEN flatten(o.pod) ELSE Absent

\* The images Reviewer.decide evaluates.
judged(w) == IF w.images = {} THEN {""} ELSE w.images

-----------------------------------------------------------------------------
(* Objects, larger and larger.                                             *)
bare == [kind : Kinds, pod : {[EmptyPod EXCEPT !.context = c] : c \in PodContexts}]

ObjectInit == object \in bare

AddContainer ==
  /\ hasPodSpec(object) /\ Len(all(object.pod)) < MaxContainers
  /\ \E list \in {"containers", "init", "ephemeral"}, c \in Container :
        object' = [object EXCEPT !.pod[list] = Append(@, c)]

AddHostPath ==
  /\ hasPodSpec(object) /\ ~object.pod.hostPath
  /\ object' = [object EXCEPT !.pod.hostPath = TRUE]

\* The webhook keeps nothing of an object.
NextObject == object' \in bare

ObjectNext == AddContainer \/ AddHostPath \/ NextObject

(***************************************************************************)
(* What Kubernetes makes of a container: an unset field of the container   *)
(* takes the pod's, an unset user is the image's, whichever that is, and   *)
(* user 0 is refused under runAsNonRoot.                                   *)
(***************************************************************************)
mayRunAsRoot(sc, ctx) ==
  \E imageUser \in {"0", "1"} :
     /\ inherited(inherited(sc.user, ctx.user), imageUser) = "0"
     /\ inherited(sc.nonRoot, ctx.nonRoot) # "true"

\* Every variable keeps its type.
ObjectTypeOK == object.kind \in Kinds /\ \A i \in DOMAIN all(object.pod) : all(object.pod)[i] \in Container

\* workload.go:17-18: "where a field is ambiguous we err toward unsafe so the
\* policy sees the risk".  What any container of the pod may do, whichever list
\* it is in and whatever it leaves to defaults, the policy is told, and each
\* image is evaluated.
FlattenIsConservative ==
  hasPodSpec(object) =>
    LET w == workload(object) IN
    \A i \in DOMAIN all(object.pod) :
      LET c == all(object.pod)[i] IN
      /\ mayRunAsRoot(c.sc, object.pod.context) => w.runAsRoot
      /\ c.sc.readOnly # "true" => ~w.readOnlyRootFS
      /\ c.sc.escalation # "false" => w.escalation
      /\ c.sc.privileged = "true" => w.privileged
      /\ c.sc.caps \subseteq w.caps
      /\ object.pod.hostPath => w.hostPath
      /\ c.image # "" => c.image \in judged(w)
=============================================================================
