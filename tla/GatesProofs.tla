------------------------------ MODULE GatesProofs ------------------------------
(***************************************************************************)
(* What the gates promise, proved for every policy, every number of rules, *)
(* images and containers, every set of commands and verify configurations, *)
(* and every outcome of the conditions; and what the transparency log in   *)
(* which the signing flow records what was signed promises, for every log. *)
(*                                                                         *)
(* A behaviour of GatesSpec is one of each gate's own specification        *)
(* (GatesImplementComponents), so that what holds of a component holds of  *)
(* the composition.  The log is a specification of its own (LogSpec).      *)
(***************************************************************************)
EXTENDS Gates, TransparencyLog, Integers, FiniteSetTheorems, WellFoundedInduction, TLAPS

(***************************************************************************)
(*                             The composition                             *)
(***************************************************************************)
LEMMA GatesInitMaps ==
  GatesInit => Init /\ Extraction!ObjectInit /\ Signing!Init /\ Plugin!AuthorizationInit
BY DEF GatesInit, EnforcementInit

LEMMA GatesStepMaps ==
  [GatesNext]_allVars =>
    /\ [Next]_vars /\ [Extraction!ObjectNext]_object
    /\ [Signing!Next]_(Signing!vars) /\ [Plugin!AuthorizationNext]_(Plugin!authorizationVars)
<1> SUFFICES ASSUME [GatesNext]_allVars
             PROVE  /\ [Next]_vars /\ [Extraction!ObjectNext]_object
                    /\ [Signing!Next]_(Signing!vars)
                    /\ [Plugin!AuthorizationNext]_(Plugin!authorizationVars)
  OBVIOUS
<1> USE DEF allVars, admissionVars, signingVars, pluginVars, Signing!vars, Plugin!authorizationVars
<1>1. CASE GatesNext /\ gate = "admission"
  <2>1. EnforcementNext /\ UNCHANGED <<signingVars, pluginVars>>
    BY <1>1 DEF GatesNext
  <2>2. (Extraction!ObjectNext /\ UNCHANGED vars) \/ (Next /\ UNCHANGED object)
    BY <2>1 DEF EnforcementNext, ObjectStep, ReviewStep
  <2> QED
    BY <2>1, <2>2
<1>2. CASE GatesNext /\ gate = "signing"
  <2>1. (Signing!Next \/ AllRun) /\ UNCHANGED <<admissionVars, pluginVars>>
    BY <1>2 DEF GatesNext
  <2> QED
    BY <2>1 DEF AllRun
<1>3. CASE GatesNext /\ gate = "daemon"
  <2>1. (Plugin!AuthorizationNext \/ Thrown) /\ UNCHANGED <<admissionVars, signingVars>>
    BY <1>3 DEF GatesNext
  <2> QED
    BY <2>1 DEF Thrown
<1>4. CASE UNCHANGED allVars
  BY <1>4
<1> QED
  BY <1>1, <1>2, <1>3, <1>4 DEF GatesNext

\* Whichever gate is at work, each of them behaves as its own module says: review.go,
\* workload.go, verify/command.go and authz.go share no state.
THEOREM GatesImplementComponents ==
  GatesSpec => /\ Spec /\ Extraction!ObjectInit /\ [][Extraction!ObjectNext]_object
               /\ Signing!Spec /\ Plugin!AuthorizationSpec
BY GatesInitMaps, GatesStepMaps, PTL DEF GatesSpec, Spec, Signing!Spec, Plugin!AuthorizationSpec

(***************************************************************************)
(*                               The review                                *)
(***************************************************************************)

\* The images a review has still to evaluate.
Pending == {todo[k] : k \in DOMAIN todo}

\* An image already evaluated that the policy denies has denied the workload, and
\* an answer that was decided follows the verdict.
JudgedInv ==
  /\ phase = "deciding" =>
       \A i \in Images : i \in Pending \/ (decide(i) = "deny" => verdict = "deny")
  /\ evaluated =>
       /\ \A i \in Images : decide(i) = "deny" => verdict = "deny"
       /\ verdict = "deny" /\ ~failOpen => ~answer.allowed

\* The types JudgedInv needs.
QueueType == todo \in Seq(Images) /\ phase \in {"idle", "deciding", "answered"}

ReviewInv == QueueType /\ JudgedInv

\* An error denies the image before any effect is looked at (engine.go:185).
LEMMA ErrorDenies ==
  ASSUME NEW i, errored(i) # {}, mode = "enforce"
  PROVE  decide(i) = "deny"
BY DEF decide

\* A rule that denies an image denies it unless another one allows it.
LEMMA CleanDenialDenies ==
  ASSUME NEW i, cleanlyDenied(i), mode = "enforce"
  PROVE  decide(i) = "deny"
BY DEF decide, cleanlyDenied

\* A verdict is never taken back (review.go:145-152).
LEMMA DenialStays ==
  ASSUME NEW old, NEW new
  PROVE  /\ new = "deny" => merge(old, new) = "deny"
         /\ old = "deny" => merge(old, new) = "deny"
BY DEF merge

\* The images of a review are a sequence.
LEMMA ReceivedIsSequence ==
  ASSUME Receive
  PROVE  todo' \in Seq(Images) /\ \A i \in Images : i \in Pending'
<1>1. Cardinality(Images) \in Nat
  BY GateAssumption, FS_CardinalityType
<1>2. /\ todo' \in [1..Cardinality(Images) -> Images]
      /\ \A i \in Images : \E k \in DOMAIN todo' : todo'[k] = i
  BY DEF Receive
<1>3. todo' \in Seq(Images)
  BY <1>1, <1>2
<1>4. \A i \in Images : i \in Pending'
  BY <1>2 DEF Pending
<1> QED
  BY <1>3, <1>4

\* Evaluating the first image takes no other one off the queue.
LEMMA OthersStayPending ==
  ASSUME todo \in Seq(Images), todo # <<>>, todo' = Tail(todo),
         NEW i \in Pending, i # Head(todo)
  PROVE  i \in Pending'
<1>1. PICK k \in DOMAIN todo : todo[k] = i
  BY DEF Pending
<1>2. k \in 1..Len(todo) /\ k # 1
  BY <1>1
<1>3. k - 1 \in DOMAIN Tail(todo) /\ Tail(todo)[k - 1] = i
  BY <1>1, <1>2
<1> QED
  BY <1>3 DEF Pending

-----------------------------------------------------------------------------
LEMMA ReviewInit == Init => ReviewInv
BY DEF Init, ReviewInv, QueueType, JudgedInv, evaluated

LEMMA ReviewStepKeeps == ReviewInv /\ [Next]_vars => ReviewInv'
<1> SUFFICES ASSUME ReviewInv, [Next]_vars PROVE ReviewInv'
  OBVIOUS
<1> USE DEF ReviewInv
<1>1. CASE BadReview
  <2>1. ~evaluated' /\ phase' = "answered" /\ todo' = todo
    BY <1>1 DEF BadReview, Respond, evaluated
  <2> QED
    BY <2>1 DEF QueueType, JudgedInv
<1>2. CASE Receive
  <2>1. phase' = "deciding"
    BY <1>2 DEF Receive
  <2> QED
    BY <1>2, <2>1, ReceivedIsSequence DEF QueueType, JudgedInv, evaluated
<1>3. CASE EvaluateImage
  <2> DEFINE first == Head(todo)
  <2>1. /\ todo \in Seq(Images) /\ todo # <<>> /\ todo' = Tail(todo)
        /\ phase = "deciding" /\ phase' = "deciding"
        /\ verdict' = merge(verdict, decide(first))
    BY <1>3 DEF EvaluateImage, QueueType
  <2>2. QueueType'
    BY <2>1 DEF QueueType
  <2>3. \A i \in Images : decide(i)' = decide(i)
    BY <1>3 DEF EvaluateImage, policy, request, decide, errored, fires, waived
  <2>4. ASSUME NEW i \in Images, i \notin Pending', decide(i) = "deny"
        PROVE  verdict' = "deny"
    <3>1. CASE i = first
      BY <2>1, <2>4, <3>1, DenialStays
    <3>2. CASE i # first
      <4>1. i \notin Pending
        BY <2>1, <2>4, <3>2, OthersStayPending
      <4>2. verdict = "deny"
        BY <2>1, <2>4, <4>1 DEF JudgedInv
      <4> QED
        BY <2>1, <4>2, DenialStays
    <3> QED
      BY <3>1, <3>2
  <2> QED
    BY <2>1, <2>2, <2>3, <2>4 DEF JudgedInv, evaluated
<1>4. CASE Answer
  <2>1. /\ phase = "deciding" /\ todo = <<>> /\ todo' = todo /\ phase' = "answered"
        /\ verdict' = verdict /\ failOpen' = failOpen
        /\ answer' = IF rescued THEN [allowed |-> TRUE, reason |-> "rescued"]
                     ELSE [allowed |-> verdict # "deny", reason |-> "decided"]
    BY <1>4 DEF Answer, Respond, decision, policy
  <2>2. \A i \in Images : decide(i)' = decide(i)
    BY <1>4 DEF Answer, policy, request, decide, errored, fires, waived
  <2>3. Pending = {}
    BY <2>1 DEF Pending
  <2>4. \A i \in Images : decide(i)' = "deny" => verdict' = "deny"
    BY <2>1, <2>2, <2>3 DEF JudgedInv
  <2>5. verdict' = "deny" /\ ~failOpen' => ~answer'.allowed
    BY <2>1 DEF rescued
  <2> QED
    BY <2>1, <2>4, <2>5 DEF JudgedInv, QueueType
<1>5. CASE Return
  BY <1>5 DEF Return, JudgedInv, QueueType, evaluated
<1>6. CASE UNCHANGED vars
  BY <1>6 DEF vars, policy, request, decision, JudgedInv, QueueType, evaluated, Pending,
              decide, errored, fires, waived
<1> QED
  BY <1>1, <1>2, <1>3, <1>4, <1>5, <1>6 DEF Next

THEOREM ReviewInvariant == GatesSpec => []ReviewInv
BY ReviewInit, ReviewStepKeeps, GatesImplementComponents, PTL DEF Spec

\* A policy that could not be evaluated for one image denies the workload, in
\* enforce mode without --fail-open, however many images and rules there are.
THEOREM ErrorsDeny == GatesSpec => []ErrorsFailClosed
<1>1. ReviewInv => ErrorsFailClosed
  BY ErrorDenies DEF ReviewInv, JudgedInv, ErrorsFailClosed, evaluated
<1> QED
  BY <1>1, ReviewInvariant, PTL

\* One denied image denies the workload, in whatever order the images come.
THEOREM OneDenialDenies == GatesSpec => []OneDeniedImageDenies
<1>1. ReviewInv => OneDeniedImageDenies
  BY CleanDenialDenies DEF ReviewInv, JudgedInv, OneDeniedImageDenies, evaluated
<1> QED
  BY <1>1, ReviewInvariant, PTL

(***************************************************************************)
(*                              The workload                               *)
(***************************************************************************)
Containers == Seq(Extraction!Container)
Pods == [containers : Containers, init : Containers, ephemeral : Containers,
         context : Extraction!PodContexts, hostPath : BOOLEAN]

\* The three lists hold containers, and the pod's context what the API allows in it.
ObjectInv == object \in [kind : Kinds, pod : Pods]

LEMMA BareIsTyped == \A o \in Extraction!bare : o \in [kind : Kinds, pod : Pods]
<1> SUFFICES ASSUME NEW k \in Kinds, NEW c \in Extraction!PodContexts
             PROVE  [kind |-> k, pod |-> [Extraction!EmptyPod EXCEPT !.context = c]]
                      \in [kind : Kinds, pod : Pods]
  BY DEF Extraction!bare
<1>1. <<>> \in Containers
  BY DEF Containers
<1>2. Extraction!EmptyPod \in Pods
  BY <1>1 DEF Extraction!EmptyPod, Pods, Extraction!PodContexts, Extraction!Optional,
              Extraction!OptionalUser
<1>3. [Extraction!EmptyPod EXCEPT !.context = c] \in Pods
  BY <1>2 DEF Pods
<1> QED
  BY <1>3

LEMMA ObjectStepKeeps == ObjectInv /\ [Extraction!ObjectNext]_object => ObjectInv'
<1> SUFFICES ASSUME ObjectInv, [Extraction!ObjectNext]_object PROVE ObjectInv'
  OBVIOUS
<1>1. CASE Extraction!AddContainer
  <2>1. PICK list \in {"containers", "init", "ephemeral"}, c \in Extraction!Container :
          object' = [object EXCEPT !.pod[list] = Append(@, c)]
    BY <1>1 DEF Extraction!AddContainer
  <2>2. object.pod \in Pods /\ object.kind \in Kinds
    BY DEF ObjectInv
  <2>3. \A s \in Containers : Append(s, c) \in Containers
    BY DEF Containers
  <2>4. object'.kind = object.kind /\ object'.pod = [object.pod EXCEPT ![list] = Append(@, c)]
        /\ object' = [kind |-> object'.kind, pod |-> object'.pod]
    BY <2>1 DEF ObjectInv
  <2>5. [object.pod EXCEPT ![list] = Append(@, c)] \in Pods
    BY <2>2, <2>3 DEF Pods
  <2> QED
    BY <2>2, <2>4, <2>5 DEF ObjectInv
<1>2. CASE Extraction!AddHostPath
  BY <1>2 DEF Extraction!AddHostPath, ObjectInv, Pods
<1>3. CASE Extraction!NextObject
  BY <1>3, BareIsTyped DEF Extraction!NextObject, ObjectInv
<1>4. CASE UNCHANGED object
  BY <1>4 DEF ObjectInv
<1> QED
  BY <1>1, <1>2, <1>3, <1>4 DEF Extraction!ObjectNext

LEMMA ContextsAreOptional ==
  ASSUME NEW sc \in Extraction!Contexts
  PROVE  /\ sc.nonRoot \in Extraction!Optional /\ sc.user \in Extraction!OptionalUser
<1> DEFINE T == [privileged : {"nil", "true"}, nonRoot : Extraction!Optional,
                  user : Extraction!OptionalUser, readOnly : {"nil", "true"},
                  escalation : {"nil", "false"}, caps : SUBSET {"NET_ADMIN"}]
<1> USE DEF Extraction!Optional, Extraction!OptionalUser
<1>1. Extraction!NoContext \in T
  BY DEF Extraction!NoContext
<1>2. \A n \in Extraction!Optional, u \in Extraction!OptionalUser :
        [Extraction!NoContext EXCEPT !.nonRoot = n, !.user = u] \in T
  BY <1>1
<1>3. \A p \in {"nil", "true"}, r \in {"nil", "true"}, e \in {"nil", "false"} :
        [Extraction!NoContext EXCEPT !.nonRoot = "true", !.privileged = p, !.readOnly = r,
                                     !.escalation = e] \in T
  BY <1>1
<1>4. [Extraction!NoContext EXCEPT !.caps = {"NET_ADMIN"}] \in T
  BY <1>1
<1> HIDE DEF T
<1>5. sc \in T
  BY <1>2, <1>3, <1>4 DEF Extraction!Contexts
<1> QED
  BY <1>5 DEF T

\* A container that Kubernetes may run as root is not one the webhook takes for
\* guaranteed not to be, for whatever it and its pod leave unset.
LEMMA RootIsSeen ==
  ASSUME NEW sc \in Extraction!Contexts, NEW ctx \in Extraction!PodContexts,
         Extraction!mayRunAsRoot(sc, ctx)
  PROVE  ~Extraction!guaranteedNonRoot(sc, ctx)
BY ContextsAreOptional
   DEF Extraction!mayRunAsRoot, Extraction!guaranteedNonRoot, Extraction!inherited,
       Extraction!PodContexts, Extraction!Optional, Extraction!OptionalUser

\* Whatever any container of the pod may do the policy is told, for pods of any size.
THEOREM FlattenedConservatively == GatesSpec => []FlattenIsConservative
<1>1. ASSUME ObjectInv, Extraction!hasPodSpec(object),
             NEW i \in DOMAIN Extraction!all(object.pod)
      PROVE  LET w == Extraction!flatten(object.pod)
                 c == Extraction!all(object.pod)[i]
             IN /\ Extraction!mayRunAsRoot(c.sc, object.pod.context) => w.runAsRoot
                /\ c.sc.readOnly # "true" => ~w.readOnlyRootFS
                /\ c.sc.escalation # "false" => w.escalation
                /\ c.sc.privileged = "true" => w.privileged
                /\ c.sc.caps \subseteq w.caps
                /\ object.pod.hostPath => w.hostPath
                /\ c.image # "" => c.image \in Extraction!judged(w)
  <2> DEFINE c == Extraction!all(object.pod)[i]
             w == Extraction!flatten(object.pod)
  <2>1. c.sc \in Extraction!Contexts /\ object.pod.context \in Extraction!PodContexts
    <3>1. Extraction!all(object.pod) \in Containers
      BY <1>1 DEF Extraction!all, ObjectInv, Pods, Containers
    <3>2. c \in Extraction!Container
      BY <1>1, <3>1 DEF Containers
    <3> QED
      BY <1>1, <3>2 DEF Extraction!Container, ObjectInv, Pods
  <2>2. Extraction!mayRunAsRoot(c.sc, object.pod.context) =>
          ~Extraction!guaranteedNonRoot(c.sc, object.pod.context)
    BY <2>1, RootIsSeen
  <2>3. c.image # "" => c.image \in w.images
    BY <1>1 DEF Extraction!flatten
  <2>4. /\ ~Extraction!guaranteedNonRoot(c.sc, object.pod.context) => w.runAsRoot
        /\ c.sc.readOnly # "true" => ~w.readOnlyRootFS
        /\ c.sc.privileged = "true" => w.privileged
    BY <1>1 DEF Extraction!flatten
  <2>5. /\ c.sc.escalation # "false" => w.escalation
        /\ c.sc.caps \subseteq w.caps
        /\ object.pod.hostPath => w.hostPath
    BY <1>1 DEF Extraction!flatten, Extraction!allowsEscalation
  <2> QED
    BY <2>2, <2>3, <2>4, <2>5 DEF Extraction!judged
<1>2. ObjectInv => FlattenIsConservative
  BY <1>1 DEF FlattenIsConservative, Extraction!FlattenIsConservative, Extraction!workload
<1>3. Extraction!ObjectInit => ObjectInv
  BY BareIsTyped DEF Extraction!ObjectInit, ObjectInv
<1> QED
  BY <1>2, <1>3, ObjectStepKeeps, GatesImplementComponents, PTL

(***************************************************************************)
(*                            The signing flow                             *)
(***************************************************************************)
BundleType == [subject : Digests \cup {Signing!NoDigest}, entries : Seq(Signing!Entries)]

Has(b, e) == \E i \in DOMAIN b.entries : b.entries[i] = e

\* A bundle of material about one digest, all of it among the pieces.
About(b, d, pieces) ==
  /\ b \in BundleType /\ b.subject = d
  /\ \A i \in DOMAIN b.entries : b.entries[i] \in pieces /\ b.entries[i].envelope.digest = d

\* The steps between the load of a bundle and the end of the command.
Working == {"push", "print", "open", "write"}

FlowType ==
  /\ pc \in [Procs -> {"idle", "load"} \cup Working]
  /\ cmd \in [Procs -> Commands \cup {NoCommand}]
  /\ held \in [Procs -> BundleType]
  /\ \A p \in Procs : pc[p] # "idle" => cmd[p] \in Commands
  /\ \A p \in Procs : /\ pc[p] \in {"open", "write"} => cmd[p].file
                      /\ pc[p] = "print" => ~cmd[p].file
  /\ \A e \in issued : \E c \in Commands : e = Signing!entryOf(c)
  /\ finished \subseteq Commands /\ raced \in BOOLEAN

\* Wherever a bundle is, in memory, in the file or in the registry, it is about one
\* digest, and in memory it holds what its command was to add.
AboutInv ==
  /\ \A p \in Procs : pc[p] # "idle" => Signing!entryOf(cmd[p]) \in issued
  /\ \A p \in Procs : pc[p] \in Working =>
       About(held[p], cmd[p].digest, issued) /\ Has(held[p], Signing!entryOf(cmd[p]))
  /\ file \notin {NoFile, Unreadable} => About(file, file.subject, issued)
  /\ \A r \in registry : About(r[2], r[1], issued)

\* What a command pushed is in the registry, before and after it ends.
PushedInv ==
  /\ \A p \in Procs : pc[p] \in {"print", "open", "write"} /\ cmd[p].push =>
       <<cmd[p].digest, held[p]>> \in registry
  /\ \A c \in finished : c.push =>
       \E r \in registry : r[1] = c.digest /\ Has(r[2], Signing!entryOf(c))

\* Without a race one command at a time has the file, and what it holds in memory
\* continues what the finished ones wrote.
AppendedInv ==
  ~raced =>
    /\ \A p, q \in Procs :
         p # q /\ pc[p] # "idle" /\ pc[q] # "idle" /\ cmd[p].file => ~cmd[q].file
    /\ \A c \in finished : c.file =>
         file # NoFile /\ (file # Unreadable => Has(file, Signing!entryOf(c)))
    /\ \A p \in Procs : pc[p] \in {"push", "open", "write"} /\ cmd[p].file =>
         \A c \in finished : c.file => Has(held[p], Signing!entryOf(c))

FlowInv == FlowType /\ AboutInv /\ PushedInv /\ AppendedInv

\* What a command signs is an entry about the digest it was given.
LEMMA EntryIsTyped ==
  ASSUME NEW c \in Commands
  PROVE  /\ Signing!entryOf(c) \in Signing!Entries
         /\ Signing!entryOf(c).envelope.digest = c.digest
         /\ c.digest \in Digests /\ c.file \in BOOLEAN /\ c.push \in BOOLEAN
<1> DEFINE env(type, predicate) ==
      [type |-> type, signers |-> {c.key}, digest |-> c.digest, predicate |-> predicate]
<1>1. /\ c.op \in {"sign", "attest"} /\ c.key \in Keys /\ c.digest \in Digests
      /\ c.predicate \in Predicates /\ c.log \in {"none", "ours", "other"}
      /\ c.file \in BOOLEAN /\ c.push \in BOOLEAN
  BY SigningAssumption DEF SigningAssumption
<1>2. /\ env("simple-signing", Signing!NoPredicate) \in Signing!Envelopes
      /\ env("in-toto", c.predicate) \in Signing!Envelopes
  <2>1. {c.key} \in (SUBSET Keys) \ {{}}
    BY <1>1
  <2> QED
    BY <1>1, <2>1 DEF Signing!Envelopes, Signing!PayloadTypes
<1> QED
  BY <1>1, <1>2 DEF Signing!entryOf, Signing!Entries, Signing!EntryKinds, Signing!Logs

\* Appending adds one entry and loses none.
LEMMA EntryIsAdded ==
  ASSUME NEW b \in BundleType, NEW e \in Signing!Entries
  PROVE  LET n == Signing!addEntry(b, e)
         IN /\ n \in BundleType /\ n.subject = b.subject /\ Has(n, e)
            /\ \A x : Has(b, x) => Has(n, x)
            /\ \A i \in DOMAIN n.entries : n.entries[i] = e \/ \E j \in DOMAIN b.entries : n.entries[i] = b.entries[j]
<1> DEFINE n == Signing!addEntry(b, e)
<1>1. b.entries \in Seq(Signing!Entries)
  BY DEF BundleType
<1>2. n \in BundleType /\ n.subject = b.subject /\ n.entries = Append(b.entries, e)
  BY <1>1 DEF BundleType, Signing!addEntry
<1>3. /\ Append(b.entries, e)[Len(b.entries) + 1] = e
      /\ DOMAIN Append(b.entries, e) = 1..(Len(b.entries) + 1)
      /\ \A j \in DOMAIN b.entries : Append(b.entries, e)[j] = b.entries[j]
      /\ DOMAIN b.entries = 1..Len(b.entries) /\ Len(b.entries) \in Nat
  BY <1>1
<1> QED
  BY <1>2, <1>3 DEF Has

\* A new bundle is about its digest.
LEMMA NewIsAbout ==
  ASSUME NEW d \in Digests, NEW pieces
  PROVE  About(Signing!newBundle(d), d, pieces)
<1>1. <<>> \in Seq(Signing!Entries)
  OBVIOUS
<1> QED
  BY <1>1 DEF About, BundleType, Signing!newBundle

\* What was signed stays signed.
LEMMA AboutGrows ==
  ASSUME NEW b, NEW d, NEW S, NEW T, About(b, d, S), S \subseteq T
  PROVE  About(b, d, T)
BY DEF About

\* A command starts.
LEMMA StartKeeps ==
  ASSUME FlowInv, NEW p \in Procs, NEW c \in Commands, Signing!Start(p, c)
  PROVE  FlowInv'
<1>1. /\ pc[p] = "idle" /\ pc' = [pc EXCEPT ![p] = "load"] /\ cmd' = [cmd EXCEPT ![p] = c]
      /\ issued' = issued \cup {Signing!entryOf(c)}
      /\ raced' = (raced \/ (c.file /\ \E q \in Procs : pc[q] # "idle" /\ cmd[q].file))
      /\ UNCHANGED <<file, registry, held, finished>>
  BY DEF Signing!Start
<1>2. FlowType'
  BY <1>1, EntryIsTyped DEF FlowInv, FlowType, Working
<1>3. AboutInv'
  BY <1>1, AboutGrows DEF FlowInv, FlowType, AboutInv, Working
<1>4. PushedInv'
  BY <1>1 DEF FlowInv, FlowType, PushedInv
<1>5. AppendedInv'
  BY <1>1, EntryIsTyped DEF FlowInv, FlowType, AppendedInv
<1> QED
  BY <1>2, <1>3, <1>4, <1>5 DEF FlowInv

\* A command ends without having put anything anywhere.
LEMMA ExitKeeps ==
  ASSUME FlowInv, NEW p \in Procs, Signing!exit(p), UNCHANGED <<file, registry, issued, finished, raced>>
  PROVE  FlowInv'
<1>1. /\ pc' = [pc EXCEPT ![p] = "idle"] /\ cmd' = [cmd EXCEPT ![p] = NoCommand]
      /\ held' = [held EXCEPT ![p] = Signing!NoBundle]
  BY DEF Signing!exit
<1>2. Signing!NoBundle \in BundleType
  BY DEF Signing!NoBundle, BundleType
<1>3. FlowType'
  BY <1>1, <1>2 DEF FlowInv, FlowType, Working
<1>4. AboutInv'
  BY <1>1 DEF FlowInv, FlowType, AboutInv, Working
<1>5. PushedInv'
  BY <1>1 DEF FlowInv, FlowType, PushedInv
<1>6. AppendedInv'
  BY <1>1 DEF FlowInv, FlowType, AppendedInv
<1> QED
  BY <1>3, <1>4, <1>5, <1>6 DEF FlowInv

\* A command loads the bundle file, or starts a bundle, and adds its entry.
LEMMA LoadKeeps ==
  ASSUME FlowInv, NEW p \in Procs, Signing!Load(p)
  PROVE  FlowInv'
<1> DEFINE b == Signing!loaded(p)
           e == Signing!entryOf(cmd[p])
<1>1. /\ pc[p] = "load" /\ ~(cmd[p].file /\ Signing!refused(file, cmd[p].digest))
      /\ held' = [held EXCEPT ![p] = Signing!addEntry(b, e)]
      /\ pc' = [pc EXCEPT ![p] = "push"]
      /\ UNCHANGED <<file, registry, cmd, issued, finished, raced>>
  BY DEF Signing!Load
<1>2. /\ cmd[p] \in Commands /\ e \in issued /\ e \in Signing!Entries
      /\ e.envelope.digest = cmd[p].digest /\ cmd[p].digest \in Digests
  BY <1>1, EntryIsTyped DEF FlowInv, FlowType, AboutInv
<1>3. /\ About(b, cmd[p].digest, issued)
      /\ cmd[p].file => \/ file = NoFile
                        \/ file # Unreadable /\ b = file
  BY <1>1, <1>2, NewIsAbout DEF Signing!loaded, Signing!refused, FlowInv, AboutInv
<1>4. b \in BundleType
  BY <1>3 DEF About
<1> DEFINE n == Signing!addEntry(b, e)
<1>5. /\ n \in BundleType /\ n.subject = b.subject /\ Has(n, e)
      /\ \A x : Has(b, x) => Has(n, x)
      /\ \A i \in DOMAIN n.entries : n.entries[i] = e \/ \E j \in DOMAIN b.entries : n.entries[i] = b.entries[j]
  BY <1>2, <1>4, EntryIsAdded
<1> HIDE DEF b, n, e
<1>6. About(n, cmd[p].digest, issued)
  BY <1>2, <1>3, <1>5 DEF About
<1>7. /\ held'[p] = n /\ \A q \in Procs : q # p => held'[q] = held[q] /\ pc'[q] = pc[q]
      /\ pc'[p] = "push" /\ held' \in [Procs -> BundleType] /\ cmd' = cmd
  BY <1>1, <1>5 DEF FlowInv, FlowType, n
<1>8. FlowType'
  BY <1>1, <1>7 DEF FlowInv, FlowType, Working
<1>9. AboutInv'
  BY <1>1, <1>5, <1>6, <1>7 DEF FlowInv, FlowType, AboutInv, Working, e
<1>10. PushedInv'
  BY <1>1, <1>7 DEF FlowInv, PushedInv
<1>11. AppendedInv'
  BY <1>1, <1>3, <1>5, <1>7 DEF FlowInv, FlowType, AppendedInv
<1> QED
  BY <1>8, <1>9, <1>10, <1>11 DEF FlowInv

\* The bundle becomes a referrer of its subject.
LEMMA PushKeeps ==
  ASSUME FlowInv, NEW p \in Procs, Signing!Push(p)
  PROVE  FlowInv'
<1>1. /\ pc[p] = "push" /\ cmd[p] \in Commands
      /\ registry' = IF cmd[p].push THEN registry \cup {<<cmd[p].digest, held[p]>>} ELSE registry
      /\ pc' = [pc EXCEPT ![p] = IF cmd[p].file THEN "open" ELSE "print"]
      /\ UNCHANGED <<file, cmd, held, issued, finished, raced>>
  BY DEF Signing!Push, FlowInv, FlowType
<1>2. FlowType'
  BY <1>1, EntryIsTyped DEF FlowInv, FlowType, Working
<1>3. AboutInv'
  BY <1>1 DEF FlowInv, FlowType, AboutInv, Working
<1>4. PushedInv'
  BY <1>1 DEF FlowInv, FlowType, PushedInv
<1>5. AppendedInv'
  BY <1>1 DEF FlowInv, FlowType, AppendedInv
<1> QED
  BY <1>2, <1>3, <1>4, <1>5 DEF FlowInv

\* os.WriteFile opens and truncates the file.
LEMMA TruncateKeeps ==
  ASSUME FlowInv, NEW p \in Procs, Signing!Truncate(p)
  PROVE  FlowInv'
<1>1. /\ pc[p] = "open" /\ file' = Unreadable /\ pc' = [pc EXCEPT ![p] = "write"]
      /\ NoFile # Unreadable
      /\ UNCHANGED <<registry, cmd, held, issued, finished, raced>>
  BY SigningAssumption DEF Signing!Truncate, SigningAssumption
<1>2. FlowType'
  BY <1>1 DEF FlowInv, FlowType, Working
<1>3. AboutInv'
  BY <1>1 DEF FlowInv, FlowType, AboutInv, Working
<1>4. PushedInv'
  BY <1>1 DEF FlowInv, FlowType, PushedInv
<1>5. AppendedInv'
  BY <1>1 DEF FlowInv, FlowType, AppendedInv
<1> QED
  BY <1>2, <1>3, <1>4, <1>5 DEF FlowInv

\* The bundle is written, over what another process left there or not, or printed.
LEMMA WriteKeeps ==
  ASSUME FlowInv, NEW p \in Procs, Signing!WriteFile(p) \/ Signing!WriteOut(p)
  PROVE  FlowInv'
<1> DEFINE c == cmd[p]
<1>1. /\ pc[p] \in {"print", "write"} /\ c \in Commands
      /\ pc[p] = "write" => file' \in {held[p], Unreadable}
      /\ pc[p] = "print" => file' = file
      /\ finished' = finished \cup {c}
      /\ pc' = [pc EXCEPT ![p] = "idle"] /\ cmd' = [cmd EXCEPT ![p] = NoCommand]
      /\ held' = [held EXCEPT ![p] = Signing!NoBundle]
      /\ UNCHANGED <<registry, issued, raced>>
  BY DEF Signing!WriteFile, Signing!WriteOut, Signing!exit, FlowInv, FlowType
<1>2. /\ About(held[p], c.digest, issued) /\ Has(held[p], Signing!entryOf(c))
      /\ held[p].subject = c.digest
  BY <1>1 DEF FlowInv, AboutInv, Working, About
<1>3. held[p] # NoFile /\ Unreadable # NoFile
  BY SigningAssumption, <1>2 DEF SigningAssumption, About, BundleType
<1>4. Signing!NoBundle \in BundleType
  BY DEF Signing!NoBundle, BundleType
<1>5. FlowType'
  BY <1>1, <1>4 DEF FlowInv, FlowType, Working
<1>6. AboutInv'
  BY <1>1, <1>2 DEF FlowInv, FlowType, AboutInv, Working
<1>7. PushedInv'
  <2>1. c.push => <<c.digest, held[p]>> \in registry
    BY <1>1 DEF FlowInv, PushedInv
  <2>2. c.push => \E r \in registry : r[1] = c.digest /\ Has(r[2], Signing!entryOf(c))
    BY <1>2, <2>1
  <2> QED
    BY <1>1, <2>2 DEF FlowInv, FlowType, PushedInv
<1>8. AppendedInv'
  <2> SUFFICES ASSUME ~raced' PROVE AppendedInv'
    BY DEF AppendedInv
  <2>1. \A q, r \in Procs :
          q # r /\ pc'[q] # "idle" /\ pc'[r] # "idle" /\ cmd'[q].file => ~cmd'[r].file
    BY <1>1 DEF FlowInv, FlowType, AppendedInv
  <2>2. CASE pc[p] = "write"
    <3>1. c.file /\ \A q \in Procs \ {p} : pc[q] # "idle" => ~cmd[q].file
      BY <1>1, <2>2 DEF FlowInv, FlowType, AppendedInv
    <3>2. \A d \in finished' : d.file => Has(held[p], Signing!entryOf(d))
      BY <1>1, <1>2, <2>2, <3>1 DEF FlowInv, AppendedInv
    <3>3. \A d \in finished' : d.file =>
            file' # NoFile /\ (file' # Unreadable => Has(file', Signing!entryOf(d)))
      BY <1>1, <1>3, <2>2, <3>2
    <3> QED
      BY <1>1, <2>1, <3>1, <3>3 DEF FlowInv, FlowType, AppendedInv
  <2>3. CASE pc[p] = "print"
    <3>1. ~c.file
      BY <1>1, <2>3 DEF FlowInv, FlowType
    <3> QED
      BY <1>1, <2>1, <2>3, <3>1 DEF FlowInv, FlowType, AppendedInv
  <2> QED
    BY <1>1, <2>2, <2>3
<1> QED
  BY <1>5, <1>6, <1>7, <1>8 DEF FlowInv

LEMMA FlowInit == Signing!Init => FlowInv
<1> SUFFICES ASSUME Signing!Init PROVE FlowInv
  OBVIOUS
<1>1. Signing!NoBundle \in BundleType
  BY DEF Signing!NoBundle, BundleType
<1>2. FlowType
  BY <1>1 DEF Signing!Init, FlowType
<1> QED
  BY <1>2 DEF Signing!Init, FlowInv, AboutInv, PushedInv, AppendedInv, Working

LEMMA FlowStepKeeps == FlowInv /\ [Signing!Next]_(Signing!vars) => FlowInv'
<1> SUFFICES ASSUME FlowInv, [Signing!Next]_(Signing!vars) PROVE FlowInv'
  OBVIOUS
<1>1. ASSUME NEW p \in Procs, NEW c \in Commands, Signing!Start(p, c) PROVE FlowInv'
  BY <1>1, StartKeeps
<1>2. ASSUME NEW p \in Procs, Signing!Load(p) PROVE FlowInv'
  BY <1>2, LoadKeeps
<1>3. ASSUME NEW p \in Procs, Signing!LoadRefused(p) \/ Signing!PushFails(p) \/ Signing!Crash(p)
      PROVE  FlowInv'
  <2>1. Signing!exit(p) /\ UNCHANGED <<file, registry, issued, finished, raced>>
    BY <1>3 DEF Signing!LoadRefused, Signing!PushFails, Signing!Crash
  <2> QED
    BY <2>1, ExitKeeps
<1>4. ASSUME NEW p \in Procs, Signing!Push(p) PROVE FlowInv'
  BY <1>4, PushKeeps
<1>5. ASSUME NEW p \in Procs, Signing!Truncate(p) PROVE FlowInv'
  BY <1>5, TruncateKeeps
<1>6. ASSUME NEW p \in Procs, Signing!WriteFile(p) \/ Signing!WriteOut(p) PROVE FlowInv'
  BY <1>6, WriteKeeps
<1>7. CASE UNCHANGED Signing!vars
  BY <1>7 DEF Signing!vars, FlowInv, FlowType, AboutInv, PushedInv, AppendedInv
<1> QED
  BY <1>1, <1>2, <1>3, <1>4, <1>5, <1>6, <1>7 DEF Signing!Next

\* Every bundle anywhere is about one digest and was signed by commands, whatever
\* races, crashes and failed pushes (verify/commandhelpers.go:72-99).
THEOREM FlowInvariant == GatesSpec => []FlowInv
BY FlowInit, FlowStepKeeps, GatesImplementComponents, PTL DEF Signing!Spec

\* A bundle never mixes subjects, and what a command that ended with 0 was to push or
\* to append is there.
THEOREM BundlesAreKept == GatesSpec => []BundleIsKept
<1>1. \A b, e : Has(b, e) => e \in Signing!Range(b.entries)
  BY DEF Has, Signing!Range
<1>2. FlowInv => Signing!BundleKeepsItsSubject
  <2> SUFFICES ASSUME FlowInv, NEW b \in Signing!AllBundles, NEW e \in Signing!Range(b.entries)
               PROVE  e.envelope.digest = b.subject
    BY DEF Signing!BundleKeepsItsSubject
  <2>1. \E d : About(b, d, issued)
    BY DEF Signing!AllBundles, Signing!Readable, FlowInv, AboutInv
  <2> QED
    BY <2>1 DEF About, Signing!Range
<1>3. FlowInv => Signing!ExitZeroIsKept
  <2> SUFFICES ASSUME FlowInv, NEW c \in finished
               PROVE  /\ c.push => \E r \in registry : /\ r[1] = c.digest
                                                       /\ Signing!entryOf(c) \in Signing!Range(r[2].entries)
                      /\ c.file /\ ~raced =>
                           /\ file # NoFile
                           /\ file # Unreadable => Signing!entryOf(c) \in Signing!Range(file.entries)
    BY DEF Signing!ExitZeroIsKept
  <2> QED
    BY <1>1 DEF FlowInv, PushedInv, AppendedInv
<1>4. FlowInv => BundleIsKept
  BY <1>2, <1>3 DEF BundleIsKept
<1> QED
  BY <1>4, FlowInvariant, PTL

\* The two outcomes of trust that are not "ok" are reported as HIGH or worse.
LEMMA DistrustFails ==
  ASSUME NEW e, NEW cfg, NEW s,
         \A f \in Signing!verifySignature(e, cfg, s).findings : f[2] \notin {"HIGH", "CRITICAL"}
  PROVE  Signing!trust(e.envelope, cfg) = "ok" /\ e.envelope.digest = s
<1>1. /\ <<"policy-violation", "HIGH">> \in Signing!Finds("policy-violation", "HIGH").findings
      /\ <<"signature-invalid", "CRITICAL">> \in Signing!Finds("signature-invalid", "CRITICAL").findings
      /\ <<"digest-mismatch", "CRITICAL">> \in Signing!Finds("digest-mismatch", "CRITICAL").findings
  BY DEF Signing!Finds, Signing!Nothing
<1>2. <<"a", "HIGH">>[2] = "HIGH"
  OBVIOUS
<1>3. ASSUME Signing!trust(e.envelope, cfg) # "ok" PROVE FALSE
  <2>1. Signing!verifySignature(e, cfg, s) \in
          {Signing!Finds("policy-violation", "HIGH"), Signing!Finds("signature-invalid", "CRITICAL")}
    BY <1>3 DEF Signing!verifySignature, Signing!signatureError
  <2> QED
    BY <1>1, <2>1
<1>4. ASSUME Signing!trust(e.envelope, cfg) = "ok", e.envelope.digest # s PROVE FALSE
  <2>1. Signing!verifySignature(e, cfg, s) = Signing!Finds("digest-mismatch", "CRITICAL")
    BY <1>4 DEF Signing!verifySignature
  <2> QED
    BY <1>1, <2>1
<1> QED
  BY <1>3, <1>4

\* So is an attestation that does not hold.
LEMMA BadAttestationFails ==
  ASSUME NEW e, NEW cfg, NEW s,
         \A f \in Signing!verifyAttestation(e, cfg, s).findings : f[2] \notin {"HIGH", "CRITICAL"}
  PROVE  Signing!attestationHolds(e, cfg, s)
<1>1. /\ <<"policy-violation", "HIGH">> \in Signing!Finds("policy-violation", "HIGH").findings
      /\ <<"signature-invalid", "HIGH">> \in Signing!Finds("signature-invalid", "HIGH").findings
  BY DEF Signing!Finds, Signing!Nothing
<1>2. ASSUME ~Signing!attestationHolds(e, cfg, s) PROVE FALSE
  <2>1. Signing!verifyAttestation(e, cfg, s) \in
          {Signing!Finds("policy-violation", "HIGH"), Signing!Finds("signature-invalid", "HIGH")}
    BY <1>2 DEF Signing!verifyAttestation, Signing!attestationError
  <2> QED
    BY <1>1, <2>1
<1> QED
  BY <1>2

\* A signature that counts is one an accepted key made over the subject.
LEMMA CountedIsTrusted ==
  ASSUME NEW e, NEW cfg, NEW s, Signing!verifySignature(e, cfg, s).counted
  PROVE  Signing!trust(e.envelope, cfg) = "ok" /\ e.envelope.digest = s
<1>1. \A rule, severity : Signing!Finds(rule, severity).counted = FALSE
  BY DEF Signing!Finds, Signing!Nothing
<1> QED
  BY <1>1 DEF Signing!verifySignature, Signing!signatureError

LEMMA TrustedIsAccepted ==
  ASSUME NEW env, NEW cfg, Signing!trust(env, cfg) = "ok"
  PROVE  env.signers \cap Signing!accepted(cfg) # {}
BY DEF Signing!trust, Signing!verifying, Signing!accepted

\* What a configured gate found when it passed a bundle.
LEMMA PassMeans ==
  ASSUME NEW b, NEW cfg, NEW d, cfg.trusted # {}, Signing!verifyBundle(b, cfg, d).passed
  PROVE  LET s == Signing!subjectOf(b, d)
         IN /\ \A x \in Signing!checks(b, cfg, s) : \A f \in x.findings : f[2] \notin {"HIGH", "CRITICAL"}
            /\ Signing!signedBySomeone(b, cfg, s)
            /\ cfg.require \subseteq Signing!predicatesSeen(b, cfg, s)
<1> DEFINE s == Signing!subjectOf(b, d)
           missing == cfg.require \ Signing!predicatesSeen(b, cfg, s)
           F == (UNION {c.findings : c \in Signing!checks(b, cfg, s)})
                  \cup (IF b.subject # s THEN {<<"digest-mismatch", "CRITICAL">>} ELSE {})
                  \cup (IF Signing!signedBySomeone(b, cfg, s) THEN {} ELSE {<<"unsigned", "HIGH">>})
                  \cup {<<"attestation-missing", "HIGH">> : p \in missing}
<1>1. ~Signing!failing(F)
  BY DEF Signing!verifyBundle
<1>2. \A f \in F : f[2] \notin {"HIGH", "CRITICAL"}
  BY <1>1 DEF Signing!failing
<1> HIDE DEF s
<1>3. \A x \in Signing!checks(b, cfg, s) : \A f \in x.findings : f \in F
  OBVIOUS
<1>4. ~Signing!signedBySomeone(b, cfg, s) => <<"unsigned", "HIGH">> \in F
  OBVIOUS
<1>5. \A p \in missing : <<"attestation-missing", "HIGH">> \in F
  OBVIOUS
<1>6. <<"unsigned", "HIGH">>[2] = "HIGH" /\ <<"attestation-missing", "HIGH">>[2] = "HIGH"
  OBVIOUS
<1> HIDE DEF F
<1>7. \A p \in cfg.require : p \in Signing!predicatesSeen(b, cfg, s)
  BY <1>2, <1>5, <1>6
<1> QED
  BY <1>2, <1>3, <1>4, <1>6, <1>7 DEF s

\* A signature and each required attestation behind every pass, for any set of
\* commands, keys, digests and configurations (verifier.go:42-47, 223-231).
THEOREM PassesAreVouchedFor == GatesSpec => []PassIsVouchedFor
<1>1. ASSUME FlowInv, NEW b \in Signing!AllBundles, NEW g \in VerifyGates, NEW s,
             g.trusted # {},
             \A x \in Signing!checks(b, g, s) : \A f \in x.findings : f[2] \notin {"HIGH", "CRITICAL"},
             Signing!signedBySomeone(b, g, s), g.require \subseteq Signing!predicatesSeen(b, g, s)
      PROVE  /\ \E e \in issued : /\ e.kind = "signature" /\ e.envelope.digest = s
                                  /\ e.envelope.signers \cap Signing!accepted(g) # {}
             /\ \A e \in Signing!Range(b.entries) :
                  /\ e.envelope.digest = s
                  /\ e.envelope.signers \cap Signing!accepted(g) # {}
             /\ \A p \in g.require :
                  \E e \in issued : /\ e.kind = "attestation" /\ e.envelope.predicate = p
                                    /\ e.envelope.digest = s
                                    /\ e.envelope.signers \cap Signing!accepted(g) # {}
  <2>1. \A e \in Signing!Range(b.entries) : e \in issued
    <3>1. \E d : About(b, d, issued)
      BY <1>1 DEF Signing!AllBundles, Signing!Readable, FlowInv, AboutInv
    <3> QED
      BY <3>1 DEF About, Signing!Range
  <2>2. \A e \in issued : \/ e.kind = "signature" /\ e.envelope.type = "simple-signing"
                          \/ e.kind = "attestation"
    <3>1. \A c \in Commands : \/ /\ Signing!entryOf(c).kind = "signature"
                                 /\ Signing!entryOf(c).envelope.type = "simple-signing"
                              \/ Signing!entryOf(c).kind = "attestation"
      BY DEF Signing!entryOf
    <3> QED
      BY <1>1, <3>1 DEF FlowInv, FlowType
  <2>3. \A e \in Signing!signatureEntries(b) :
          e.envelope.digest = s /\ e.envelope.signers \cap Signing!accepted(g) # {}
    BY <1>1, DistrustFails, TrustedIsAccepted DEF Signing!checks
  <2>4. \A e \in Signing!attestationEntries(b) : Signing!attestationHolds(e, g, s)
    BY <1>1, BadAttestationFails DEF Signing!checks
  <2>5. \A e : Signing!attestationHolds(e, g, s) =>
          e.envelope.digest = s /\ e.envelope.signers \cap Signing!accepted(g) # {}
    BY TrustedIsAccepted DEF Signing!attestationHolds
  <2>6. PICK e0 \in Signing!signatureEntries(b) : TRUE
    BY <1>1 DEF Signing!signedBySomeone
  <2>7. e0 \in issued /\ e0.kind = "signature"
    BY <2>1 DEF Signing!signatureEntries
  <2>8. \A e \in Signing!Range(b.entries) :
          e \in Signing!signatureEntries(b) \/ e \in Signing!attestationEntries(b)
    BY <2>1, <2>2 DEF Signing!signatureEntries, Signing!attestationEntries
  <2>9. \A p \in g.require :
          \E e \in issued : /\ e.kind = "attestation" /\ e.envelope.predicate = p
                            /\ Signing!attestationHolds(e, g, s)
    BY <1>1, <2>1 DEF Signing!predicatesSeen, Signing!attestationEntries
  <2> QED
    BY <2>3, <2>4, <2>5, <2>6, <2>7, <2>8, <2>9
<1>2. ASSUME FlowInv, NEW v \in Signing!Verdicts, v.result.passed, v.gate.trusted # {}
      PROVE  /\ \E e \in issued : /\ e.kind = "signature" /\ e.envelope.digest = v.subject
                                  /\ e.envelope.signers \cap Signing!accepted(v.gate) # {}
             /\ \A e \in Signing!Range(v.bundle.entries) :
                  /\ e.envelope.digest = v.subject
                  /\ e.envelope.signers \cap Signing!accepted(v.gate) # {}
             /\ \A p \in v.gate.require :
                  \E e \in issued : /\ e.kind = "attestation" /\ e.envelope.predicate = p
                                    /\ e.envelope.digest = v.subject
                                    /\ e.envelope.signers \cap Signing!accepted(v.gate) # {}
  <2>1. PICK b \in Signing!AllBundles, g \in VerifyGates, d \in Digests \cup {Signing!NoDigest} :
          v = [bundle |-> b, gate |-> g, subject |-> Signing!subjectOf(b, d),
               result |-> Signing!verifyBundle(b, g, d)]
    BY <1>2 DEF Signing!Verdicts
  <2>2. /\ v.bundle = b /\ v.gate = g /\ v.subject = Signing!subjectOf(b, d)
        /\ Signing!verifyBundle(b, g, d).passed
    BY <1>2, <2>1
  <2> QED
    BY <1>1, <1>2, <2>2, PassMeans
<1>3. FlowInv => PassIsVouchedFor
  BY <1>2 DEF PassIsVouchedFor, Signing!PassIsVouchedFor, Signing!PassedIsSigned,
              Signing!RequirementsAreMet
<1> QED
  BY <1>3, FlowInvariant, PTL

(***************************************************************************)
(*                        The authorization plugin                         *)
(***************************************************************************)
\* Any non-empty set of numbers has its minimum.
LEMMA MinIsMember ==
  ASSUME NEW S, S \subseteq Nat, S # {}
  PROVE  Plugin!Min(S) \in S
<1>1. \E x \in S : \A y \in S : ~(<<y, x>> \in OpToRel(<, Nat))
  BY NatLessThanWellFounded, WFMin
<1>2. PICK x \in S : \A y \in S : ~(<<y, x>> \in OpToRel(<, Nat))
  BY <1>1
<1>3. \A y \in S : x <= y
  <2> SUFFICES ASSUME NEW y \in S, ~(x <= y) PROVE FALSE
    OBVIOUS
  <2>1. y < x /\ y \in Nat /\ x \in Nat
    OBVIOUS
  <2>2. <<y, x>> \in OpToRel(<, Nat)
    BY <2>1 DEF OpToRel
  <2> QED
    BY <1>2, <2>2
<1> QED
  BY <1>2, <1>3 DEF Plugin!Min

SourceRules == {"AUTHZ-DOCKERSOCK", "AUTHZ-HOSTPATH"}
\* The body of a request: two lists.
BodyOK(c) ==
  c.binds \in Seq(Plugin!Range(c.binds)) /\ c.mounts \in Seq(Plugin!Range(c.mounts))
hostSources(c) ==
  {b.src : b \in Plugin!Range(c.binds)}
    \cup {m.src : m \in {n \in Plugin!Range(c.mounts) : Plugin!isBind(n)}}

\* The list that is searched holds the sources of the binds and of the bind mounts.
LEMMA SourcesAreListed ==
  ASSUME NEW c, BodyOK(c)
  PROVE  /\ Plugin!sources(c) \subseteq Nat
         /\ \A i \in Plugin!sources(c) : Plugin!source(c, i) \in hostSources(c)
         /\ \A s \in hostSources(c) : \E i \in Plugin!sources(c) : Plugin!source(c, i) = s
<1>1. /\ Len(c.binds) \in Nat /\ DOMAIN c.binds = 1..Len(c.binds)
      /\ Len(c.mounts) \in Nat /\ DOMAIN c.mounts = 1..Len(c.mounts)
  BY DEF BodyOK
<1>2. \A i \in DOMAIN c.binds : Plugin!source(c, i) = c.binds[i].src
  BY DEF Plugin!source, Plugin!hostSrcFromBind
<1>3. \A j \in DOMAIN c.mounts : Plugin!source(c, Len(c.binds) + j) = c.mounts[j].src
  <2> TAKE j \in DOMAIN c.mounts
  <2>1. Len(c.binds) + j \notin DOMAIN c.binds /\ (Len(c.binds) + j) - Len(c.binds) = j
    BY <1>1
  <2> QED
    BY <2>1 DEF Plugin!source
<1>4. \A i \in Plugin!sources(c) :
        i \in DOMAIN c.binds \/ \E j \in DOMAIN c.mounts : i = Len(c.binds) + j /\ Plugin!isBind(c.mounts[j])
  BY DEF Plugin!sources
<1>5. \A i \in Plugin!sources(c) : i \in Nat /\ Plugin!source(c, i) \in hostSources(c)
  BY <1>1, <1>2, <1>3, <1>4 DEF hostSources, Plugin!Range
<1>6. \A s \in hostSources(c) : \E i \in Plugin!sources(c) : Plugin!source(c, i) = s
  <2> SUFFICES ASSUME NEW s \in hostSources(c)
               PROVE  \E i \in Plugin!sources(c) : Plugin!source(c, i) = s
    OBVIOUS
  <2>1. CASE \E k \in DOMAIN c.binds : s = c.binds[k].src
    BY <1>2, <2>1 DEF Plugin!sources
  <2>2. CASE \E k \in DOMAIN c.mounts : s = c.mounts[k].src /\ Plugin!isBind(c.mounts[k])
    BY <1>3, <2>2 DEF Plugin!sources
  <2> QED
    BY <2>1, <2>2 DEF hostSources, Plugin!Range
<1> QED
  BY <1>5, <1>6

\* A host path falls under a rule only if its policy has it.
LEMMA SourceRuleMeans ==
  ASSUME NEW p, NEW s
  PROVE  /\ Plugin!sourceRule(p, s) = "AUTHZ-DOCKERSOCK" <=>
              (p.denySocket \/ p.denyHostPaths) /\ Plugin!isDockerSocket(s)
         /\ Plugin!sourceRule(p, s) = "AUTHZ-HOSTPATH" =>
              p.denyHostPaths /\ Plugin!isSensitiveHostPath(s)
         /\ p.denyHostPaths /\ Plugin!isSensitiveHostPath(s) => Plugin!sourceRule(p, s) # ""
         /\ Plugin!sourceRule(p, s) \in SourceRules \cup {""}
BY DEF Plugin!sourceRule, SourceRules

Decisions ==
  [allow : BOOLEAN,
   rule : {"", "AUTHZ-READONLY", "AUTHZ-PRIVILEGED", "AUTHZ-HOSTNS", "AUTHZ-CAPADD"} \cup SourceRules]

\* The first rule that matches is one that is broken, and none matches only if none
\* is, as far as the index of capabilities goes.
LEMMA CreateIsJudged ==
  ASSUME NEW p, NEW index, NEW c, BodyOK(c)
  PROVE  LET d == Plugin!evalCreate(p, index, c)
             socket == (p.denySocket \/ p.denyHostPaths)
                         /\ \E s \in hostSources(c) : Plugin!isDockerSocket(s)
             path == p.denyHostPaths /\ \E s \in hostSources(c) : Plugin!isSensitiveHostPath(s)
             capable == \E i \in DOMAIN c.capAdd : c.capAdd[i].name \in index
         IN /\ d \in Decisions
            /\ ~d.allow => \/ d.rule = "AUTHZ-PRIVILEGED" /\ p.denyPrivileged /\ c.privileged
                           \/ d.rule = "AUTHZ-HOSTNS" /\ p.denyHostNamespaces /\ c.hostModes # {}
                           \/ d.rule = "AUTHZ-DOCKERSOCK" /\ socket
                           \/ d.rule = "AUTHZ-HOSTPATH" /\ path
                           \/ d.rule = "AUTHZ-CAPADD" /\ capable
            /\ d.allow => /\ ~(p.denyPrivileged /\ c.privileged)
                          /\ ~(p.denyHostNamespaces /\ c.hostModes # {})
                          /\ ~socket /\ ~path /\ ~capable
<1> DEFINE hit == {i \in Plugin!sources(c) : Plugin!sourceRule(p, Plugin!source(c, i)) # ""}
           first == Plugin!sourceRule(p, Plugin!source(c, Plugin!Min(hit)))
           socket == (p.denySocket \/ p.denyHostPaths)
                       /\ \E s \in hostSources(c) : Plugin!isDockerSocket(s)
           path == p.denyHostPaths /\ \E s \in hostSources(c) : Plugin!isSensitiveHostPath(s)
           capable == \E i \in DOMAIN c.capAdd : c.capAdd[i].name \in index
           d == Plugin!evalCreate(p, index, c)
<1>1. /\ \A i \in Plugin!sources(c) : Plugin!source(c, i) \in hostSources(c)
      /\ \A s \in hostSources(c) : \E i \in Plugin!sources(c) : Plugin!source(c, i) = s
      /\ Plugin!sources(c) \subseteq Nat
  BY SourcesAreListed
<1>2. ASSUME hit # {}
      PROVE  /\ \/ first = "AUTHZ-DOCKERSOCK" /\ socket
                \/ first = "AUTHZ-HOSTPATH" /\ path
             /\ first \in SourceRules
  <2>1. Plugin!Min(hit) \in hit
    BY <1>1, <1>2, MinIsMember
  <2>2. Plugin!Min(hit) \in Plugin!sources(c) /\ first # ""
    BY <2>1
  <2>3. first \in SourceRules
    BY <2>2, SourceRuleMeans
  <2> QED
    BY <1>1, <2>2, <2>3, SourceRuleMeans DEF SourceRules
<1>3. ASSUME hit = {} PROVE ~socket /\ ~path
  <2>1. \A i \in Plugin!sources(c) : Plugin!sourceRule(p, Plugin!source(c, i)) = ""
    BY <1>3
  <2>2. \A s \in hostSources(c) : Plugin!sourceRule(p, s) = ""
    BY <1>1, <2>1
  <2> QED
    BY <2>2, SourceRuleMeans
<1>4. d = IF p.denyPrivileged /\ c.privileged THEN Plugin!deny("AUTHZ-PRIVILEGED")
          ELSE IF p.denyHostNamespaces /\ c.hostModes # {} THEN Plugin!deny("AUTHZ-HOSTNS")
          ELSE IF hit # {} THEN Plugin!deny(first)
          ELSE IF capable THEN Plugin!deny("AUTHZ-CAPADD")
          ELSE Plugin!allow
  BY DEF Plugin!evalCreate, Plugin!normalizeCap
<1>5. /\ \A r : Plugin!deny(r).allow = FALSE /\ Plugin!deny(r).rule = r
      /\ \A r \in {"AUTHZ-PRIVILEGED", "AUTHZ-HOSTNS", "AUTHZ-CAPADD"} \cup SourceRules :
           Plugin!deny(r) \in Decisions
      /\ Plugin!allow \in Decisions /\ Plugin!allow.allow = TRUE
  BY DEF Plugin!deny, Plugin!allow, Decisions
<1> HIDE DEF hit, first, socket, path, capable, d
<1>6. /\ d \in Decisions
      /\ ~d.allow => \/ d.rule = "AUTHZ-PRIVILEGED" /\ p.denyPrivileged /\ c.privileged
                     \/ d.rule = "AUTHZ-HOSTNS" /\ p.denyHostNamespaces /\ c.hostModes # {}
                     \/ d.rule = "AUTHZ-DOCKERSOCK" /\ socket
                     \/ d.rule = "AUTHZ-HOSTPATH" /\ path
                     \/ d.rule = "AUTHZ-CAPADD" /\ capable
      /\ d.allow => /\ ~(p.denyPrivileged /\ c.privileged)
                    /\ ~(p.denyHostNamespaces /\ c.hostModes # {})
                    /\ ~socket /\ ~path /\ ~capable
  BY <1>2, <1>3, <1>4, <1>5
<1> QED
  BY <1>6 DEF d, socket, path, capable

capNames(s) == {s[i].name : i \in DOMAIN s}

\* Evaluate, against the rules a request breaks, with an index that holds no more
\* than the policy's capabilities.
LEMMA EvaluateIsJudged ==
  ASSUME NEW p, NEW index, NEW r, BodyOK(r.body), index \subseteq capNames(p.denyCapAdd)
  PROVE  LET d == Plugin!Evaluate(p, index, r)
         IN /\ d \in Decisions
            /\ ~d.allow => d.rule \in Plugin!Broken(p, r)
            /\ d.allow => Plugin!Broken(p, r) \subseteq {"AUTHZ-CAPADD"}
            /\ d.allow /\ capNames(p.denyCapAdd) \subseteq index => Plugin!Broken(p, r) = {}
<1> DEFINE c == r.body
           create == r.method = "POST" /\ Plugin!isCreate(r.path)
           socket == (p.denySocket \/ p.denyHostPaths)
                       /\ \E s \in hostSources(c) : Plugin!isDockerSocket(s)
           path == p.denyHostPaths /\ \E s \in hostSources(c) : Plugin!isSensitiveHostPath(s)
           capable == \E i \in DOMAIN c.capAdd : c.capAdd[i].name \in index
           denied == {x.name : x \in Plugin!Range(p.denyCapAdd)} \cap {x.name : x \in Plugin!Range(c.capAdd)}
           e == Plugin!evalCreate(p, index, c)
           d == Plugin!Evaluate(p, index, r)
           B == Plugin!Broken(p, r)
<1>1. /\ e \in Decisions
      /\ ~e.allow => \/ e.rule = "AUTHZ-PRIVILEGED" /\ p.denyPrivileged /\ c.privileged
                     \/ e.rule = "AUTHZ-HOSTNS" /\ p.denyHostNamespaces /\ c.hostModes # {}
                     \/ e.rule = "AUTHZ-DOCKERSOCK" /\ socket
                     \/ e.rule = "AUTHZ-HOSTPATH" /\ path
                     \/ e.rule = "AUTHZ-CAPADD" /\ capable
      /\ e.allow => /\ ~(p.denyPrivileged /\ c.privileged)
                    /\ ~(p.denyHostNamespaces /\ c.hostModes # {})
                    /\ ~socket /\ ~path /\ ~capable
  BY CreateIsJudged
<1>2. /\ capable => denied # {}
      /\ denied # {} /\ capNames(p.denyCapAdd) \subseteq index => capable
  BY DEF capNames, Plugin!Range
<1>3. /\ "AUTHZ-READONLY" \in B <=> p.readOnly /\ Plugin!isMutating(r.method)
      /\ "AUTHZ-PRIVILEGED" \in B <=> create /\ p.denyPrivileged /\ c.privileged
      /\ "AUTHZ-HOSTNS" \in B <=> create /\ p.denyHostNamespaces /\ c.hostModes # {}
      /\ "AUTHZ-DOCKERSOCK" \in B <=> create /\ socket
      /\ "AUTHZ-HOSTPATH" \in B <=> create /\ path
      /\ "AUTHZ-CAPADD" \in B <=> create /\ denied # {}
      /\ B \subseteq {"AUTHZ-READONLY", "AUTHZ-PRIVILEGED", "AUTHZ-HOSTNS", "AUTHZ-DOCKERSOCK",
                      "AUTHZ-HOSTPATH", "AUTHZ-CAPADD"}
  BY DEF Plugin!Broken, Plugin!isMutating, hostSources
<1>4. d = IF p.readOnly /\ Plugin!isMutating(r.method) THEN Plugin!deny("AUTHZ-READONLY")
          ELSE IF create THEN e ELSE Plugin!allow
  BY DEF Plugin!Evaluate
<1>5. /\ Plugin!deny("AUTHZ-READONLY").allow = FALSE
      /\ Plugin!deny("AUTHZ-READONLY").rule = "AUTHZ-READONLY"
      /\ Plugin!deny("AUTHZ-READONLY") \in Decisions
      /\ Plugin!allow \in Decisions /\ Plugin!allow.allow = TRUE
  BY DEF Plugin!deny, Plugin!allow, Decisions
<1> HIDE DEF c, create, socket, path, capable, denied, e, d, B
<1>6. /\ d \in Decisions
      /\ ~d.allow => d.rule \in B
      /\ d.allow => B \subseteq {"AUTHZ-CAPADD"}
      /\ d.allow /\ capNames(p.denyCapAdd) \subseteq index => B = {}
  BY <1>1, <1>2, <1>3, <1>4, <1>5
<1> QED
  BY <1>6 DEF d, B

-----------------------------------------------------------------------------
Requests == {Plugin!NoBody} \cup {m.req : m \in Messages}
Capabilities == UNION {Plugin!Range(p.denyCapAdd) : p \in Policies}
Steps == {"idle", "index", "make", "fill", "evaluate", "answered"}
Caller == [at : Steps, req : Requests, todo : Seq(Capabilities), answer : Decisions]

PluginType ==
  /\ served \in Policies
  /\ caller \in [Callers -> Caller]
  /\ denyCaps \in [made : BOOLEAN, keys : SUBSET capNames(served.denyCapAdd)]
  /\ \A c \in Callers : caller[c].at \in {"index", "make", "fill", "evaluate"} =>
       BodyOK(caller[c].req.body)
  /\ \A c \in Callers : capNames(caller[c].todo) \subseteq capNames(served.denyCapAdd)

\* Whoever evaluates does so with an index that was made; and an index that was made
\* is complete, or one of those at work on it has all that is missing left to enter.
IndexInv ==
  /\ \A c \in Callers : caller[c].at \in {"fill", "evaluate"} => denyCaps.made
  /\ denyCaps.made =>
       \/ capNames(served.denyCapAdd) \subseteq denyCaps.keys
       \/ \E d \in Callers : /\ caller[d].at = "fill"
                             /\ capNames(served.denyCapAdd) \subseteq
                                  denyCaps.keys \cup capNames(caller[d].todo)

PluginInv == PluginType /\ IndexInv

LEMMA PolicyIsListed ==
  ASSUME NEW p \in Policies
  PROVE  p.denyCapAdd \in Seq(Capabilities)
<1>1. p.denyCapAdd \in Seq(Plugin!Range(p.denyCapAdd))
  BY PluginAssumption DEF PluginAssumption
<1>2. Plugin!Range(p.denyCapAdd) \subseteq Capabilities
  BY DEF Capabilities
<1> QED
  BY <1>1, <1>2

\* What is entered is what is taken off the list.
LEMMA OneIsEntered ==
  ASSUME NEW s \in Seq(Capabilities), s # <<>>
  PROVE  Tail(s) \in Seq(Capabilities) /\ capNames(s) = {Head(s).name} \cup capNames(Tail(s))
<1>1. Len(s) \in Nat /\ Len(s) >= 1 /\ DOMAIN s = 1..Len(s)
  OBVIOUS
<1>2. /\ Tail(s) \in Seq(Capabilities) /\ DOMAIN Tail(s) = 1..(Len(s) - 1)
      /\ Head(s) = s[1] /\ \A i \in 1..(Len(s) - 1) : Tail(s)[i] = s[i + 1]
  BY <1>1
<1>3. \A x \in capNames(s) : x \in {Head(s).name} \cup capNames(Tail(s))
  <2> SUFFICES ASSUME NEW i \in DOMAIN s, i # 1 PROVE s[i].name \in capNames(Tail(s))
    BY <1>2 DEF capNames
  <2>1. i - 1 \in DOMAIN Tail(s) /\ Tail(s)[i - 1] = s[i]
    BY <1>1, <1>2
  <2> QED
    BY <2>1 DEF capNames
<1>4. \A x \in capNames(Tail(s)) : x \in capNames(s)
  <2> SUFFICES ASSUME NEW i \in DOMAIN Tail(s) PROVE Tail(s)[i].name \in capNames(s)
    BY DEF capNames
  <2>1. i + 1 \in DOMAIN s /\ Tail(s)[i] = s[i + 1]
    BY <1>1, <1>2
  <2> QED
    BY <2>1 DEF capNames
<1>5. Head(s).name \in capNames(s)
  BY <1>1, <1>2 DEF capNames
<1> QED
  BY <1>2, <1>3, <1>4, <1>5

LEMMA NothingIsEmpty == capNames(<<>>) = {} /\ <<>> \in Seq(Capabilities)
BY DEF capNames

LEMMA PluginInit == Plugin!AuthorizationInit => PluginInv
<1> SUFFICES ASSUME Plugin!AuthorizationInit PROVE PluginInv
  OBVIOUS
<1> DEFINE resting == [at |-> "idle", req |-> Plugin!NoBody, todo |-> <<>>, answer |-> Plugin!NoAnswer]
<1>1. resting \in Caller
  BY NothingIsEmpty DEF Caller, Requests, Steps, Decisions, Plugin!NoAnswer
<1>2. /\ served \in Policies /\ denyCaps = [made |-> FALSE, keys |-> {}]
      /\ caller = [c \in Callers |-> resting]
  BY DEF Plugin!AuthorizationInit, Plugin!Unset
<1>3. \A c \in Callers : caller[c].at = "idle" /\ caller[c].todo = <<>>
  BY <1>2
<1> QED
  BY <1>1, <1>2, <1>3, NothingIsEmpty DEF PluginInv, PluginType, IndexInv

\* A goroutine moves on without touching the index.
LEMMA MoveKeeps ==
  ASSUME PluginInv, NEW c \in Callers, NEW at \in Steps, Plugin!Move(c, at),
         UNCHANGED <<served, denyCaps>>, caller[c].at # "fill",
         at # "fill", at = "evaluate" => denyCaps.made,
         at \in {"index", "make", "evaluate"} =>
           caller[c].at \in {"index", "make", "fill", "evaluate"}
  PROVE  PluginInv'
<1>1. /\ caller' = [caller EXCEPT ![c].at = at] /\ served' = served /\ denyCaps' = denyCaps
      /\ caller \in [Callers -> Caller]
  BY DEF Plugin!Move, PluginInv, PluginType
<1>2. caller' \in [Callers -> Caller]
  BY <1>1 DEF Caller
<1>3. /\ caller'[c].at = at /\ caller'[c].req = caller[c].req /\ caller'[c].todo = caller[c].todo
      /\ \A d \in Callers : d # c => caller'[d] = caller[d]
  BY <1>1 DEF Caller
<1>4. \A d \in Callers : caller'[d].todo = caller[d].todo /\ caller'[d].req = caller[d].req
  BY <1>3
<1>5. PluginType'
  BY <1>1, <1>2, <1>3, <1>4 DEF PluginInv, PluginType
<1>6. IndexInv'
  <2>1. \A d \in Callers : caller[d].at = "fill" => caller'[d] = caller[d]
    BY <1>3
  <2> QED
    BY <1>1, <1>3, <2>1 DEF PluginInv, IndexInv
<1> QED
  BY <1>5, <1>6 DEF PluginInv

LEMMA HandleKeeps ==
  ASSUME PluginInv, NEW c \in Callers, Plugin!Handle(c)
  PROVE  PluginInv'
<1>1. PICK m \in Messages :
        caller' = [caller EXCEPT ![c] =
          [at |-> IF m.hook = "AuthZReq" /\ m.parses THEN "index" ELSE "answered",
           req |-> m.req, todo |-> <<>>,
           answer |-> IF m.hook = "AuthZReq" THEN Plugin!NoAnswer ELSE Plugin!allow]]
  BY DEF Plugin!Handle
<1>2. /\ caller[c].at = "idle" /\ served' = served /\ denyCaps' = denyCaps
      /\ caller \in [Callers -> Caller]
  BY DEF Plugin!Handle, PluginInv, PluginType
<1>3. /\ caller'[c].at \in {"index", "answered"} /\ caller'[c].req = m.req /\ caller'[c].todo = <<>>
      /\ \A d \in Callers : d # c => caller'[d] = caller[d]
  BY <1>1, <1>2
<1>4. BodyOK(m.req.body)
  BY PluginAssumption DEF PluginAssumption, BodyOK
<1>5. caller'[c] \in Caller /\ caller' \in [Callers -> Caller]
  BY <1>1, <1>2, NothingIsEmpty DEF Caller, Requests, Steps, Decisions, Plugin!NoAnswer, Plugin!allow
<1>6. PluginType'
  BY <1>2, <1>3, <1>4, <1>5, NothingIsEmpty DEF PluginInv, PluginType
<1>7. IndexInv'
  <2>1. \A d \in Callers : caller[d].at = "fill" => caller'[d] = caller[d]
    BY <1>2, <1>3
  <2> QED
    BY <1>2, <1>3, <2>1 DEF PluginInv, IndexInv
<1> QED
  BY <1>6, <1>7 DEF PluginInv

\* The map is made anew, also over one another goroutine has filled in; whoever does
\* it has every entry before it.
LEMMA MakeKeeps ==
  ASSUME PluginInv, NEW c \in Callers, Plugin!MakeIndex(c)
  PROVE  PluginInv'
<1>1. /\ caller[c].at = "make" /\ denyCaps' = [made |-> TRUE, keys |-> {}] /\ served' = served
      /\ caller' = [caller EXCEPT ![c].at = "fill", ![c].todo = served.denyCapAdd]
      /\ caller \in [Callers -> Caller] /\ served \in Policies
  BY DEF Plugin!MakeIndex, PluginInv, PluginType
<1>2. served.denyCapAdd \in Seq(Capabilities)
  BY <1>1, PolicyIsListed
<1>3. caller' \in [Callers -> Caller]
  BY <1>1, <1>2 DEF Caller, Steps
<1>4. /\ caller'[c].at = "fill" /\ caller'[c].req = caller[c].req
      /\ caller'[c].todo = served.denyCapAdd
      /\ \A d \in Callers : d # c => caller'[d] = caller[d]
  BY <1>1 DEF Caller
<1>5. PluginType'
  BY <1>1, <1>3, <1>4 DEF PluginInv, PluginType
<1>6. IndexInv'
  BY <1>1, <1>4 DEF IndexInv
<1> QED
  BY <1>5, <1>6 DEF PluginInv

LEMMA FillKeeps ==
  ASSUME PluginInv, NEW c \in Callers, Plugin!FillIndex(c)
  PROVE  PluginInv'
<1>1. /\ caller[c].at = "fill" /\ served' = served /\ caller \in [Callers -> Caller]
      /\ served \in Policies /\ denyCaps.made
      /\ denyCaps \in [made : BOOLEAN, keys : SUBSET capNames(served.denyCapAdd)]
      /\ caller[c].todo \in Seq(Capabilities)
  BY DEF Plugin!FillIndex, PluginInv, PluginType, IndexInv, Caller
<1>2. CASE caller[c].todo = <<>>
  <2>1. caller' = [caller EXCEPT ![c].at = "evaluate"] /\ denyCaps' = denyCaps
    BY <1>2 DEF Plugin!FillIndex, Plugin!Move
  <2>2. caller' \in [Callers -> Caller]
    BY <1>1, <2>1 DEF Caller, Steps
  <2>3. /\ caller'[c].at = "evaluate" /\ caller'[c].req = caller[c].req
        /\ caller'[c].todo = caller[c].todo
        /\ \A d \in Callers : d # c => caller'[d] = caller[d]
    BY <1>1, <2>1 DEF Caller
  <2>4. PluginType'
    BY <1>1, <2>1, <2>2, <2>3 DEF PluginInv, PluginType
  <2>5. IndexInv'
    BY <1>1, <1>2, <2>1, <2>3, NothingIsEmpty DEF PluginInv, IndexInv
  <2> QED
    BY <2>4, <2>5 DEF PluginInv
<1>3. CASE caller[c].todo # <<>>
  <2> DEFINE h == Head(caller[c].todo).name
             rest == Tail(caller[c].todo)
  <2>1. caller' = [caller EXCEPT ![c].todo = rest]
        /\ denyCaps' = [denyCaps EXCEPT !.keys = @ \cup {h}]
    BY <1>1, <1>3 DEF Plugin!FillIndex, Plugin!normalizeCap, Caller
  <2>2. rest \in Seq(Capabilities) /\ capNames(caller[c].todo) = {h} \cup capNames(rest)
    BY <1>1, <1>3, OneIsEntered
  <2> HIDE DEF h, rest
  <2>3. h \in capNames(served.denyCapAdd) /\ capNames(rest) \subseteq capNames(served.denyCapAdd)
    BY <2>2 DEF PluginInv, PluginType
  <2>4. caller' \in [Callers -> Caller]
    BY <1>1, <2>1, <2>2 DEF Caller
  <2>5. /\ caller'[c].at = "fill" /\ caller'[c].req = caller[c].req /\ caller'[c].todo = rest
        /\ \A d \in Callers : d # c => caller'[d] = caller[d]
    BY <1>1, <2>1 DEF Caller
  <2>6. /\ denyCaps'.made /\ denyCaps'.keys = denyCaps.keys \cup {h}
        /\ denyCaps' \in [made : BOOLEAN, keys : SUBSET capNames(served.denyCapAdd)]
    BY <1>1, <2>1, <2>3
  <2>7. PluginType'
    BY <1>1, <2>3, <2>4, <2>5, <2>6 DEF PluginInv, PluginType
  <2>8. capNames(served.denyCapAdd) \subseteq denyCaps.keys =>
          capNames(served.denyCapAdd) \subseteq denyCaps'.keys
    BY <2>6
  <2>9. ASSUME NEW d \in Callers, caller[d].at = "fill",
               capNames(served.denyCapAdd) \subseteq denyCaps.keys \cup capNames(caller[d].todo)
        PROVE  /\ caller'[d].at = "fill"
               /\ capNames(served.denyCapAdd) \subseteq denyCaps'.keys \cup capNames(caller'[d].todo)
    BY <2>2, <2>5, <2>6, <2>9
  <2>10. \A d \in Callers : caller'[d].at \in {"fill", "evaluate"} => denyCaps'.made
    BY <2>6
  <2>11. IndexInv'
    BY <1>1, <2>8, <2>9, <2>10 DEF PluginInv, IndexInv
  <2> QED
    BY <2>7, <2>11 DEF PluginInv
<1> QED
  BY <1>2, <1>3

\* What an answer is made from.
LEMMA AnswerMeans ==
  ASSUME PluginInv, NEW c \in Callers, Plugin!Answer(c)
  PROVE  LET d == Plugin!Evaluate(served, denyCaps.keys, caller[c].req)
         IN /\ caller' = [caller EXCEPT ![c].at = "answered", ![c].answer = d]
            /\ caller'[c].answer = d /\ d \in Decisions
            /\ ~d.allow => d.rule \in Plugin!Broken(served, caller[c].req)
            /\ d.allow => Plugin!Broken(served, caller[c].req) \subseteq {"AUTHZ-CAPADD"}
            /\ d.allow /\ capNames(served.denyCapAdd) \subseteq denyCaps.keys =>
                 Plugin!Broken(served, caller[c].req) = {}
<1> DEFINE d == Plugin!Evaluate(served, denyCaps.keys, caller[c].req)
<1>1. caller' = [caller EXCEPT ![c].at = "answered", ![c].answer = d]
      /\ caller[c].at = "evaluate" /\ caller \in [Callers -> Caller]
  BY DEF Plugin!Answer, PluginInv, PluginType
<1>2. caller'[c].answer = d
  BY <1>1 DEF Caller
<1>3. BodyOK(caller[c].req.body) /\ denyCaps.keys \subseteq capNames(served.denyCapAdd)
  BY <1>1 DEF PluginInv, PluginType
<1> QED
  BY <1>1, <1>2, <1>3, EvaluateIsJudged

LEMMA AnswerKeeps ==
  ASSUME PluginInv, NEW c \in Callers, Plugin!Answer(c)
  PROVE  PluginInv'
<1> DEFINE d == Plugin!Evaluate(served, denyCaps.keys, caller[c].req)
<1>1. /\ caller' = [caller EXCEPT ![c].at = "answered", ![c].answer = d] /\ d \in Decisions
      /\ caller[c].at = "evaluate" /\ served' = served /\ denyCaps' = denyCaps
      /\ caller \in [Callers -> Caller]
  BY AnswerMeans DEF Plugin!Answer, PluginInv, PluginType
<1> HIDE DEF d
<1>2. caller' \in [Callers -> Caller]
  BY <1>1 DEF Caller, Steps
<1>3. /\ caller'[c].at = "answered" /\ caller'[c].todo = caller[c].todo
      /\ \A e \in Callers : e # c => caller'[e] = caller[e]
  BY <1>1 DEF Caller
<1>4. PluginType'
  BY <1>1, <1>2, <1>3 DEF PluginInv, PluginType
<1>5. \A e \in Callers : caller[e].at = "fill" => caller'[e] = caller[e]
  BY <1>1, <1>3
<1>6. IndexInv'
  BY <1>1, <1>3, <1>5 DEF PluginInv, IndexInv
<1> QED
  BY <1>4, <1>6 DEF PluginInv

LEMMA PluginStepKeeps ==
  PluginInv /\ [Plugin!AuthorizationNext]_(Plugin!authorizationVars) => PluginInv'
<1> SUFFICES ASSUME PluginInv, [Plugin!AuthorizationNext]_(Plugin!authorizationVars)
             PROVE  PluginInv'
  OBVIOUS
<1>1. ASSUME NEW c \in Callers, Plugin!Handle(c) PROVE PluginInv'
  BY <1>1, HandleKeeps
<1>2. ASSUME NEW c \in Callers, Plugin!TestIndex(c) PROVE PluginInv'
  BY <1>2, MoveKeeps DEF Plugin!TestIndex, Steps
<1>3. ASSUME NEW c \in Callers, Plugin!MakeIndex(c) PROVE PluginInv'
  BY <1>3, MakeKeeps
<1>4. ASSUME NEW c \in Callers, Plugin!FillIndex(c) PROVE PluginInv'
  BY <1>4, FillKeeps
<1>5. ASSUME NEW c \in Callers, Plugin!Answer(c) PROVE PluginInv'
  BY <1>5, AnswerKeeps
<1>6. ASSUME NEW c \in Callers, Plugin!Return(c) PROVE PluginInv'
  BY <1>6, MoveKeeps DEF Plugin!Return, Steps
<1>7. ASSUME NEW c \in Callers, NEW d \in Callers, Plugin!Throw(c, d) PROVE PluginInv'
  BY <1>7 DEF Plugin!Throw, PluginInv, PluginType, IndexInv
<1>8. CASE UNCHANGED Plugin!authorizationVars
  BY <1>8 DEF Plugin!authorizationVars, PluginInv, PluginType, IndexInv
<1> QED
  BY <1>1, <1>2, <1>3, <1>4, <1>5, <1>6, <1>7, <1>8 DEF Plugin!AuthorizationNext

THEOREM PluginInvariant == GatesSpec => []PluginInv
BY PluginInit, PluginStepKeeps, GatesImplementComponents, PTL DEF Plugin!AuthorizationSpec

\* A step that answers a request as its policy is written, for every set of requests
\* that race to fill the index, every policy and every body.
LEMMA StepDecides ==
  ASSUME PluginInv, [Plugin!AuthorizationNext]_(Plugin!authorizationVars),
         NEW c \in Callers
  PROVE  Plugin!decidesAsWritten(c)
<1> SUFFICES ASSUME caller[c].at = "evaluate", caller'[c].at = "answered"
             PROVE  /\ ~caller'[c].answer.allow =>
                         caller'[c].answer.rule \in Plugin!Broken(served, caller[c].req)
                    /\ caller'[c].answer.allow =>
                         Plugin!Broken(served, caller[c].req) \subseteq {"AUTHZ-CAPADD"}
                    /\ caller'[c].answer.allow /\ Plugin!Broken(served, caller[c].req) # {} =>
                         \E d \in Callers \ {c} : Plugin!filling(d)
  BY DEF Plugin!decidesAsWritten
<1>1. caller \in [Callers -> Caller]
  BY DEF PluginInv, PluginType
<1>2. \A d \in Callers :
        Plugin!Handle(d) \/ Plugin!TestIndex(d) \/ Plugin!MakeIndex(d) \/ Plugin!FillIndex(d)
        \/ Plugin!Return(d) => caller[d].at # "evaluate" /\ \A e \in Callers \ {d} : caller'[e] = caller[e]
  BY <1>1 DEF Plugin!Handle, Plugin!TestIndex, Plugin!MakeIndex, Plugin!FillIndex, Plugin!Return,
              Plugin!Move
<1>3. \A d \in Callers : Plugin!Answer(d) => \A e \in Callers \ {d} : caller'[e] = caller[e]
  BY <1>1 DEF Plugin!Answer
<1>4. \A d, e \in Callers : Plugin!Throw(d, e) => caller' = caller
  BY DEF Plugin!Throw
<1>5. caller' # caller
  OBVIOUS
<1>6. Plugin!Answer(c)
  BY <1>2, <1>3, <1>4, <1>5 DEF Plugin!AuthorizationNext, Plugin!authorizationVars
<1>7. denyCaps.made
  BY DEF PluginInv, IndexInv
<1>8. ASSUME ~(capNames(served.denyCapAdd) \subseteq denyCaps.keys)
      PROVE  \E d \in Callers \ {c} : Plugin!filling(d)
  <2>1. PICK d \in Callers : caller[d].at = "fill"
    BY <1>7, <1>8 DEF PluginInv, IndexInv
  <2> QED
    BY <2>1 DEF Plugin!filling
<1> QED
  BY <1>6, <1>8, AnswerMeans

\* Denied means a rule was broken, allowed that none was but for capabilities while
\* the index is filled (authz.go:42-60).
THEOREM DecisionsAsWritten == GatesSpec => DecidesAsWritten
<1>1. PluginInv /\ [Plugin!AuthorizationNext]_(Plugin!authorizationVars) =>
        [\A c \in Callers : Plugin!decidesAsWritten(c)]_(Plugin!authorizationVars)
  BY StepDecides
<1> QED
  BY <1>1, PluginInvariant, GatesImplementComponents, PTL
     DEF DecidesAsWritten, Plugin!DecidesAsWritten, Plugin!AuthorizationSpec

(***************************************************************************)
(*                          The transparency log                           *)
(*                                                                         *)
(* What verifies is what was logged.                                       *)
(***************************************************************************)
\* A set of numbers has a least one.
LEMMA LeastOf ==
  ASSUME NEW S, S \subseteq Nat, S # {}
  PROVE  \E m \in S : \A k \in S : m <= k
<1>1. PICK m \in S : \A k \in S : ~(<<k, m>> \in OpToRel(<, Nat))
  BY NatLessThanWellFounded, WFMin
<1>2. ASSUME NEW k \in S, ~(m <= k) PROVE FALSE
  <2>1. k < m /\ k \in Nat /\ m \in Nat
    BY <1>2
  <2> QED
    BY <1>1, <2>1 DEF OpToRel
<1> QED
  BY <1>2

\* Induction over the numbers up to n, for a set of them.
LEMMA Induct ==
  ASSUME NEW n \in Nat, NEW good, 0 \in good, \A k \in 1..n : k - 1 \in good => k \in good
  PROVE  0..n \subseteq good
<1> DEFINE wrong == {k \in 0..n : k \notin good}
<1>1. ASSUME wrong # {} PROVE FALSE
  <2>1. PICK k \in 0..n : k \in wrong /\ \A j \in wrong : k <= j
    <3>1. wrong \subseteq Nat /\ wrong \subseteq 0..n
      OBVIOUS
    <3> HIDE DEF wrong
    <3> QED
      BY <1>1, <3>1, LeastOf
  <2>2. k # 0 /\ k \notin good
    BY <2>1
  <2>3. k - 1 \in 0..n /\ k \in 1..n /\ ~(k <= k - 1)
    BY <2>2
  <2>4. k - 1 \in good
    BY <2>1, <2>3
  <2> QED
    BY <2>2, <2>3, <2>4
<1> QED
  BY <1>1

(***************************************************************************)
(* The recursions of merkle.go.  Each one defines a function, for each     *)
(* calls itself on smaller arguments only: the doubling up to c, the       *)
(* ascent of the spine, a walk along c.proof from c.start, the roots and   *)
(* the audit paths.                                                        *)
(***************************************************************************)
arguments(which, c) ==
  CASE which = "doubled" -> 1..c
    [] which = "spine"   -> Nat
    [] which = "walk"    -> 0..Len(c.proof)
    [] OTHER             -> Seq(Data)

size(which, c, x) ==
  CASE which = "doubled" -> c - x
    [] which = "spine"   -> x
    [] which = "walk"    -> x
    [] OTHER             -> Len(x)

calls(which, c, x) ==
  CASE which = "doubled" -> IF 2 * x < c THEN {2 * x} ELSE {}
    [] which = "spine"   -> IF x \div 2 = 0 THEN {} ELSE {x \div 2}
    [] which = "walk"    -> IF x = 0 THEN {} ELSE {x - 1}
    [] OTHER             -> IF Len(x) <= 1 THEN {} ELSE {leftOf(x), rightOf(x)}

rootOf(x, f) ==
  CASE Len(x) = 0 -> hashEmpty
    [] Len(x) = 1 -> hashLeaf(x[1])
    [] OTHER -> hashChildren(f[leftOf(x)], f[rightOf(x)])

pathsOf(x, f) ==
  LET k == largestPowerOfTwoLessThan(Len(x))
  IN  [index \in 0 .. Len(x) - 1 |->
         IF Len(x) = 1 THEN <<>>
         ELSE IF index < k THEN Append(f[leftOf(x)][index], merkleRoot[rightOf(x)])
              ELSE Append(f[rightOf(x)][index - k], merkleRoot[leftOf(x)])]

result(which, c, x, f) ==
  CASE which = "doubled" -> IF 2 * x < c THEN f[2 * x] ELSE x
    [] which = "spine"   -> IF Odd(x \div 2) \/ x \div 2 = 0 THEN x \div 2 ELSE f[x \div 2]
    [] which = "walk"    -> IF x = 0 THEN c.start ELSE ascend(f[x - 1], c.proof[x])
    [] which = "root"    -> rootOf(x, f)
    [] OTHER             -> pathsOf(x, f)

\* Every call is on a smaller argument.
descends(which, c) ==
  \A x \in arguments(which, c) :
    /\ size(which, c, x) \in Nat
    /\ \A y \in calls(which, c, x) :
         y \in arguments(which, c) /\ size(which, c, y) < size(which, c, x)

LEMMA FewOrMore == \A n \in Nat : n = 0 \/ n = 1 \/ n > 1
  OBVIOUS

LEMMA MoreIsNeither == \A n \in Nat : n > 1 => n # 0 /\ n # 1
  OBVIOUS

LEMMA ResultReadsCalls ==
  ASSUME NEW which, NEW c, NEW x \in arguments(which, c), NEW f, NEW g,
         \A y \in calls(which, c, x) : f[y] = g[y]
  PROVE  result(which, c, x, f) = result(which, c, x, g)
<1>1. CASE which = "doubled"
  BY <1>1 DEF calls, result
<1>2. CASE which = "spine"
  BY <1>2 DEF calls, result
<1>3. CASE which = "walk"
  BY <1>3 DEF calls, result
<1>4. CASE which = "root"
  <2>1. x \in Seq(Data) /\ Len(x) \in Nat
    BY <1>4 DEF arguments
  <2>2. Len(x) > 1 => f[leftOf(x)] = g[leftOf(x)] /\ f[rightOf(x)] = g[rightOf(x)]
    BY <1>4, <2>1 DEF calls
  <2>3. rootOf(x, f) = rootOf(x, g)
    <3>1. CASE Len(x) = 0
      BY <3>1 DEF rootOf
    <3>2. CASE Len(x) = 1
      BY <3>2 DEF rootOf
    <3>3. CASE Len(x) > 1
      BY <3>3, <2>1, <2>2 DEF rootOf
    <3> QED
      BY <2>1, <3>1, <3>2, <3>3, FewOrMore
  <2> QED
    BY <1>4, <2>3 DEF result
<1>5. CASE which \notin {"doubled", "spine", "walk", "root"}
  <2>1. x \in Seq(Data) /\ Len(x) \in Nat
    BY <1>5 DEF arguments
  <2>2. Len(x) > 1 => f[leftOf(x)] = g[leftOf(x)] /\ f[rightOf(x)] = g[rightOf(x)]
    BY <1>5, <2>1 DEF calls
  <2> DEFINE k == largestPowerOfTwoLessThan(Len(x))
             path(h, index) ==
               IF Len(x) = 1 THEN <<>>
               ELSE IF index < k THEN Append(h[leftOf(x)][index], merkleRoot[rightOf(x)])
                    ELSE Append(h[rightOf(x)][index - k], merkleRoot[leftOf(x)])
  <2>3. pathsOf(x, f) = pathsOf(x, g)
    <3>1. \A h : pathsOf(x, h) = [index \in 0 .. Len(x) - 1 |-> path(h, index)]
      BY DEF pathsOf
    <3>2. \A index \in 0 .. Len(x) - 1 : path(f, index) = path(g, index)
      <4>1. ASSUME NEW index \in 0 .. Len(x) - 1, Len(x) > 1
            PROVE  path(f, index) = path(g, index)
        BY <4>1, <2>2
      <4>3. Len(x) = 0 => 0 .. Len(x) - 1 = {}
        OBVIOUS
      <4>2. ASSUME NEW index \in 0 .. Len(x) - 1, Len(x) = 1
            PROVE  path(f, index) = path(g, index)
        BY <4>2
      <4> HIDE DEF path
      <4> QED
        BY <2>1, <4>1, <4>2, <4>3, FewOrMore
    <3> HIDE DEF path
    <3> QED
      BY <3>1, <3>2
  <2> QED
    BY <1>5, <2>3 DEF result
<1> QED
  BY <1>1, <1>2, <1>3, <1>4, <1>5

LEMMA RecursionIsDefined ==
  ASSUME NEW which, NEW c, descends(which, c)
  PROVE  \E f : f = [x \in arguments(which, c) |-> result(which, c, x, f)]
<1> DEFINE upTo(m) == {x \in arguments(which, c) : size(which, c, x) <= m}
           partial(m, f) == f = [x \in upTo(m) |-> result(which, c, x, f)]
<1>1. \A x \in arguments(which, c) :
        /\ size(which, c, x) \in Nat
        /\ \A y \in calls(which, c, x) :
             y \in arguments(which, c) /\ size(which, c, y) < size(which, c, x)
  BY DEF descends
<1>2. ASSUME NEW m \in Nat, m = 0 \/ \E f : partial(m - 1, f)
      PROVE  \E f : partial(m, f)
  <2>1. PICK g : m = 0 \/ partial(m - 1, g)
    BY <1>2
  <2> DEFINE f == [x \in upTo(m) |-> result(which, c, x, g)]
  <2>2. ASSUME NEW x \in upTo(m)
        PROVE  result(which, c, x, g) = result(which, c, x, f)
    <3>1. ASSUME NEW y \in calls(which, c, x)
          PROVE  g[y] = f[y]
      <4>1. y \in arguments(which, c) /\ size(which, c, y) < m /\ size(which, c, y) \in Nat
        BY <1>1
      <4>2. y \in upTo(m) /\ y \in upTo(m - 1) /\ m # 0
        BY <4>1
      <4>3. g[y] = result(which, c, y, g)
        BY <2>1, <4>2
      <4> QED
        BY <4>2, <4>3
    <3> HIDE DEF f
    <3> QED
      BY <3>1, ResultReadsCalls
  <2>3. f = [x \in upTo(m) |-> result(which, c, x, f)]
    BY <2>2
  <2> HIDE DEF f
  <2> QED
    BY <2>3
<1>3. ASSUME NEW n \in Nat
      PROVE  \E f : partial(n, f)
  <2> DEFINE good == {m \in 0..n : \E f : partial(m, f)}
  <2> HIDE DEF partial
  <2>1. 0 \in good
    BY <1>2
  <2>2. \A m \in 1..n : m - 1 \in good => m \in good
    BY <1>2
  <2>3. n \in 0..n
    OBVIOUS
  <2>4. 0..n \subseteq good
    <3> HIDE DEF good
    <3> QED
      BY <2>1, <2>2, Induct
  <2> QED
    BY <2>3, <2>4
<1>4. ASSUME NEW m \in Nat, NEW n \in Nat, NEW f, NEW g, partial(m, f), partial(n, g), m <= n
      PROVE  \A x \in upTo(m) : f[x] = g[x]
  <2> DEFINE good == {j \in 0..m : \A x \in upTo(j) : f[x] = g[x]}
  <2>1. ASSUME NEW j \in 0..m, j = 0 \/ j - 1 \in good
        PROVE  j \in good
    <3>1. ASSUME NEW x \in upTo(j)
          PROVE  f[x] = g[x]
      <4>1. x \in upTo(m) /\ x \in upTo(n)
        BY <1>1, <1>4
      <4>2. f[x] = result(which, c, x, f) /\ g[x] = result(which, c, x, g)
        BY <1>4, <4>1
      <4>3. ASSUME NEW y \in calls(which, c, x)
            PROVE  f[y] = g[y]
        <5>1. y \in arguments(which, c) /\ size(which, c, y) < j /\ size(which, c, y) \in Nat
          BY <1>1
        <5>2. y \in upTo(j - 1) /\ j # 0
          BY <5>1
        <5> QED
          BY <2>1, <5>2
      <4> QED
        BY <4>2, <4>3, ResultReadsCalls
    <3> QED
      BY <3>1
  <2>2. 0 \in good /\ \A j \in 1..m : j - 1 \in good => j \in good
    <3>1. 0 \in 0..m /\ 1..m \subseteq 0..m
      OBVIOUS
    <3> HIDE DEF good
    <3> QED
      BY <2>1, <3>1
  <2>3. m \in 0..m
    OBVIOUS
  <2>4. 0..m \subseteq good
    <3> HIDE DEF good
    <3> QED
      BY <2>2, Induct
  <2> QED
    BY <2>3, <2>4
<1> DEFINE at(x) == CHOOSE f : partial(size(which, c, x), f)
           F == [x \in arguments(which, c) |-> at(x)[x]]
<1>5. ASSUME NEW x \in arguments(which, c)
      PROVE  at(x)[x] = result(which, c, x, F)
  <2>1. partial(size(which, c, x), at(x))
    <3> HIDE DEF partial
    <3> QED
      BY <1>1, <1>3
  <2>2. x \in upTo(size(which, c, x))
    BY <1>1
  <2>3. at(x)[x] = result(which, c, x, at(x))
    <3> HIDE DEF at
    <3> QED
      BY <2>1, <2>2
  <2>4. ASSUME NEW y \in calls(which, c, x)
        PROVE  at(x)[y] = F[y]
    <3>1. /\ y \in arguments(which, c) /\ size(which, c, y) < size(which, c, x)
          /\ size(which, c, y) \in Nat /\ size(which, c, x) \in Nat /\ y \in upTo(size(which, c, y))
      BY <1>1
    <3>2. partial(size(which, c, y), at(y))
      <4> HIDE DEF partial
      <4> QED
        BY <3>1, <1>3
    <3>3. at(y)[y] = at(x)[y]
      <4> HIDE DEF partial, at, upTo
      <4> QED
        BY <3>1, <3>2, <2>1, <1>4
    <3> HIDE DEF at
    <3> QED
      BY <3>1, <3>3
  <2> HIDE DEF at, F
  <2> QED
    BY <2>3, <2>4, ResultReadsCalls
<1>6. F = [x \in arguments(which, c) |-> result(which, c, x, F)]
  <2> HIDE DEF at
  <2> QED
    BY <1>5
<1> HIDE DEF F
<1> QED
  BY <1>6

-----------------------------------------------------------------------------
(* The split point is the power of two below.                              *)
closedUnderDoubling(S) == S \in SUBSET Nat /\ 1 \in S /\ \A x \in S : 2 * x \in S
Powers == {k \in Nat : \A S : closedUnderDoubling(S) => k \in S}

LEMMA PowersAreLeast ==
  ASSUME NEW S, closedUnderDoubling(S)
  PROVE  Powers \subseteq S
BY DEF Powers

LEMMA PowersAre ==
  /\ closedUnderDoubling(Powers)
  /\ \A k \in Powers : k >= 1 /\ (k = 1 \/ \E m \in Powers : k = 2 * m)
<1>1. closedUnderDoubling(Powers)
  <2>1. 1 \in Powers
    BY DEF Powers, closedUnderDoubling
  <2>2. ASSUME NEW x \in Powers
        PROVE  2 * x \in Powers
    <3>1. x \in Nat /\ 2 * x \in Nat
      BY DEF Powers
    <3>2. ASSUME NEW S, closedUnderDoubling(S)
          PROVE  2 * x \in S
      <4>1. x \in S
        BY <3>2, PowersAreLeast
      <4> QED
        BY <4>1, <3>2 DEF closedUnderDoubling
    <3> QED
      BY <3>1, <3>2 DEF Powers
  <2>3. Powers \in SUBSET Nat
    BY DEF Powers
  <2> QED
    BY <2>1, <2>2, <2>3 DEF closedUnderDoubling
<1> DEFINE S == {1} \cup {2 * m : m \in Powers}
<1>2. closedUnderDoubling(S)
  <2>1. \A x \in S : x \in Nat /\ x \in Powers
    BY <1>1 DEF closedUnderDoubling
  <2>2. \A x \in S : 2 * x \in S
    BY <2>1
  <2>3. 1 \in S
    OBVIOUS
  <2> HIDE DEF S
  <2> QED
    BY <2>1, <2>2, <2>3 DEF closedUnderDoubling
<1>3. Powers \subseteq S
  <2> HIDE DEF S
  <2> QED
    BY <1>2, PowersAreLeast
<1>4. \A k \in Powers : k = 1 \/ \E m \in Powers : k = 2 * m
  BY <1>3
<1>5. \A k \in Powers : k >= 1
  <2> DEFINE T == {k \in Nat : k >= 1}
  <2>1. closedUnderDoubling(T)
    BY DEF closedUnderDoubling
  <2>2. Powers \subseteq T
    <3> HIDE DEF T
    <3> QED
      BY <2>1, PowersAreLeast
  <2> QED
    BY <2>2
<1> QED
  BY <1>1, <1>4, <1>5

LEMMA DoubledIsDefined ==
  ASSUME NEW n \in Nat
  PROVE  \E f : f = [k \in 1..n |-> IF 2 * k < n THEN f[2 * k] ELSE k]
<1>1. descends("doubled", n)
  BY DEF descends, arguments, size, calls
<1>2. PICK f : f = [x \in arguments("doubled", n) |-> result("doubled", n, x, f)]
  BY <1>1, RecursionIsDefined
<1>3. f = [k \in 1..n |-> IF 2 * k < n THEN f[2 * k] ELSE k]
  BY <1>2 DEF arguments, result
<1> QED
  BY <1>3

\* The split point of a tree (merkle.go:129-137).
LEMMA SplitIs ==
  ASSUME NEW n \in Nat, n > 1
  PROVE  LET k == largestPowerOfTwoLessThan(n) IN k \in Powers /\ k \in Nat /\ k < n /\ n <= 2 * k
<1> DEFINE rule(f) == f = [k \in 1..n |-> IF 2 * k < n THEN f[2 * k] ELSE k]
           d == CHOOSE f : rule(f)
<1>1. largestPowerOfTwoLessThan(n) = d[1]
  BY DEF largestPowerOfTwoLessThan
<1>2. rule(d)
  <2>1. \E f : rule(f)
    BY DoubledIsDefined
  <2> HIDE DEF rule
  <2> QED
    BY <2>1
<1>3. \A k \in 1..n : d[k] = IF 2 * k < n THEN d[2 * k] ELSE k
  <2> HIDE DEF d
  <2> QED
    BY <1>2
<1> HIDE DEF d
<1> DEFINE split(k) == d[k] \in Powers /\ d[k] \in Nat /\ d[k] < n /\ n <= 2 * d[k]
           good == {j \in 0..n : \A k \in 1..n : n - k <= j /\ k \in Powers /\ k < n => split(k)}
<1>4. ASSUME NEW j \in 0..n, j = 0 \/ j - 1 \in good
      PROVE  j \in good
  <2>1. ASSUME NEW k \in 1..n, n - k <= j, k \in Powers, k < n
        PROVE  split(k)
    <3>1. CASE 2 * k < n
      <4>1. j # 0 /\ 2 * k \in 1..n /\ n - 2 * k <= j - 1 /\ d[k] = d[2 * k]
        BY <2>1, <3>1, <1>3
      <4>2. 2 * k \in Powers
        BY <2>1, PowersAre DEF closedUnderDoubling
      <4>3. split(2 * k)
        <5> HIDE DEF split
        <5> QED
          BY <4>1, <4>2, <3>1, <1>4
      <4> QED
        BY <4>1, <4>3
    <3>2. CASE ~(2 * k < n)
      <4>1. d[k] = k
        BY <3>2, <1>3
      <4> QED
        BY <4>1, <3>2, <2>1
    <3> QED
      BY <3>1, <3>2
  <2> HIDE DEF split
  <2> QED
    BY <2>1
<1>5. 0 \in good /\ \A j \in 1..n : j - 1 \in good => j \in good
  <2>1. 0 \in 0..n /\ 1..n \subseteq 0..n
    OBVIOUS
  <2> HIDE DEF good
  <2> QED
    BY <1>4, <2>1
<1>6. 0..n \subseteq good
  <2> HIDE DEF good
  <2> QED
    BY <1>5, Induct
<1>7. n \in good /\ 1 \in 1..n /\ n - 1 <= n
  BY <1>6
<1>8. split(1)
  <2> HIDE DEF split
  <2> QED
    BY <1>7, PowersAre DEF closedUnderDoubling
<1> QED
  BY <1>1, <1>8

\* The entries left and right of the split point.
LEMMA HalvesAre ==
  ASSUME NEW log \in Seq(Data), Len(log) > 1
  PROVE  LET k == largestPowerOfTwoLessThan(Len(log))
         IN  /\ leftOf(log) \in Seq(Data) /\ Len(leftOf(log)) = k
             /\ rightOf(log) \in Seq(Data) /\ Len(rightOf(log)) = Len(log) - k
             /\ \A i \in 1..k : leftOf(log)[i] = log[i]
             /\ \A i \in 1..(Len(log) - k) : rightOf(log)[i] = log[k + i]
<1> DEFINE k == largestPowerOfTwoLessThan(Len(log))
           n == Len(log)
<1>1. n \in Nat /\ log = [i \in 1..n |-> log[i]] /\ \A i \in 1..n : log[i] \in Data
  OBVIOUS
<1>2. k \in Nat /\ k >= 1 /\ k < n
  <2> HIDE DEF k, n
  <2>1. k \in Powers /\ k \in Nat /\ k < n
    BY <1>1, SplitIs DEF k, n
  <2> QED
    BY <2>1, PowersAre
<1>3. leftOf(log) = SubSeq(log, 1, k) /\ rightOf(log) = SubSeq(log, k + 1, n)
  BY DEF leftOf, rightOf
<1> HIDE DEF k, n
<1>4. /\ SubSeq(log, 1, k) = [i \in 1..k |-> log[i]]
      /\ SubSeq(log, k + 1, n) = [i \in 1..(n - k) |-> log[k + i]]
  BY <1>1, <1>2
<1> QED
  BY <1>1, <1>2, <1>3, <1>4 DEF k, n

-----------------------------------------------------------------------------
(* The right spine.  An index under the lone right subtree is its index in *)
(* that subtree and a power of two, which no step below the subtree's root *)
(* can tell.                                                               *)
LEMMA HalfOf ==
  /\ \A n \in Nat : n \div 2 \in Nat /\ (n > 0 => n \div 2 < n) /\ (n > 1 => n \div 2 > 0)
  /\ \A n, m \in Nat : (2 * m + n) \div 2 = m + n \div 2 /\ (Odd(2 * m + n) <=> Odd(n))
BY DEF Odd

LEMMA SpineIsDefined == \E f : f = [n \in Nat |-> IF Odd(n \div 2) \/ n \div 2 = 0 THEN n \div 2 ELSE f[n \div 2]]
<1>1. \A n \in Nat : n \div 2 # 0 => n \div 2 < n
  BY HalfOf
<1>2. descends("spine", 0)
  <2>1. \A n \in Nat : n \div 2 \in Nat
    BY HalfOf
  <2> QED
    BY <1>1, <2>1 DEF descends, arguments, size, calls
<1>3. PICK f : f = [x \in arguments("spine", 0) |-> result("spine", 0, x, f)]
  BY <1>2, RecursionIsDefined
<1>4. f = [n \in Nat |-> IF Odd(n \div 2) \/ n \div 2 = 0 THEN n \div 2 ELSE f[n \div 2]]
  BY <1>3 DEF arguments, result
<1> QED
  BY <1>4

LEMMA SpineIs ==
  \A n \in Nat : ascendSpine[n] = IF Odd(n \div 2) \/ n \div 2 = 0 THEN n \div 2 ELSE ascendSpine[n \div 2]
<1> DEFINE rule(f) == f = [n \in Nat |-> IF Odd(n \div 2) \/ n \div 2 = 0 THEN n \div 2 ELSE f[n \div 2]]
<1>1. rule(ascendSpine)
  <2>1. \E f : rule(f)
    BY SpineIsDefined
  <2>2. ascendSpine = CHOOSE f : rule(f)
    BY DEF ascendSpine
  <2> HIDE DEF rule
  <2> QED
    BY <2>1, <2>2
<1> QED
  BY <1>1

\* From a power of two the ascent ends at the root's last left child.
LEMMA SpineOfPower ==
  ASSUME NEW k \in Powers, k > 1
  PROVE  ascendSpine[k] = 1
<1> DEFINE S == {x \in Powers : x = 1 \/ ascendSpine[x] = 1}
<1>1. ASSUME NEW x \in S
      PROVE  2 * x \in S
  <2>1. x \in Nat /\ x >= 1 /\ 2 * x \in Nat /\ 2 * x \in Powers
    BY PowersAre DEF closedUnderDoubling
  <2>2. (2 * x) \div 2 = x
    BY <2>1
  <2>3. ascendSpine[2 * x] = IF Odd(x) \/ x = 0 THEN x ELSE ascendSpine[x]
    BY <2>1, <2>2, SpineIs
  <2>4. CASE x = 1
    BY <2>1, <2>3, <2>4 DEF Odd
  <2>5. CASE x # 1
    <3>1. PICK m \in Powers : x = 2 * m
      BY <2>5, PowersAre
    <3>2. ~Odd(x)
      <4>1. m \in Nat
        BY PowersAre DEF closedUnderDoubling
      <4> QED
        BY <3>1, <4>1 DEF Odd
    <3> QED
      BY <2>1, <2>3, <2>5, <3>2
  <2> QED
    BY <2>4, <2>5
<1>2. closedUnderDoubling(S)
  <2>1. 1 \in S /\ S \in SUBSET Nat
    BY PowersAre DEF closedUnderDoubling
  <2> HIDE DEF S
  <2> QED
    BY <1>1, <2>1 DEF closedUnderDoubling
<1>3. k \in S
  <2> HIDE DEF S
  <2> QED
    BY <1>2, PowersAreLeast
<1> QED
  BY <1>3, PowersAre DEF closedUnderDoubling

\* s is an index in a subtree, s + k the one in the tree.
shifts(s, k) ==
  \E q \in Powers : /\ ascendSpine[s] \in Nat /\ ascendSpine[s] > 0
                    /\ ascendSpine[s + k] = ascendSpine[s] + q /\ ascendSpine[s] < q

LEMMA SpineShifts ==
  ASSUME NEW n \in Nat
  PROVE  \A s \in 1..n, k \in Powers : s < k /\ ~Odd(s) => shifts(s, k)
<1> DEFINE good == {j \in 0..n : \A s \in 1..j, k \in Powers : s < k /\ ~Odd(s) => shifts(s, k)}
<1>1. 0 \in good
  <2>1. 1..0 = {}
    OBVIOUS
  <2> QED
    BY <2>1
<1>2. ASSUME NEW j \in 1..n, j - 1 \in good
      PROVE  j \in good
  <2>1. ASSUME NEW s \in 1..j, NEW k \in Powers, s < k, ~Odd(s)
        PROVE  shifts(s, k)
    <3>1. k # 1 /\ s \in Nat /\ k \in Nat
      BY <2>1, PowersAre DEF closedUnderDoubling
    <3>2. PICK m \in Powers : k = 2 * m
      BY <3>1, PowersAre
    <3>3. m \in Nat /\ m >= 1
      BY PowersAre DEF closedUnderDoubling
    <3> DEFINE t == s \div 2
    <3>4. s = 2 * t /\ t \in Nat /\ t > 0 /\ t < j /\ t < m
      BY <2>1, <3>1, <3>2, <3>3 DEF Odd
    <3>5. (s + k) \div 2 = t + m /\ s + k \in Nat
      BY <3>2, <3>3, <3>4
    <3> HIDE DEF t
    <3>6. PICK l \in Powers : m = 2 * l
      BY <3>3, <3>4, PowersAre
    <3>7. l \in Nat
      BY PowersAre DEF closedUnderDoubling
    <3>8. Odd(t + m) <=> Odd(t)
      BY <3>4, <3>6, <3>7 DEF Odd
    <3>9. t + m # 0
      BY <3>3, <3>4
    <3>10. /\ ascendSpine[s] = IF Odd(t) \/ t = 0 THEN t ELSE ascendSpine[t]
           /\ ascendSpine[s + k] = IF Odd(t + m) \/ t + m = 0 THEN t + m ELSE ascendSpine[t + m]
      <4>1. s \div 2 = t
        BY DEF t
      <4> QED
        BY <3>1, <3>5, <4>1, SpineIs
    <3>11. CASE Odd(t)
      BY <3>3, <3>4, <3>8, <3>10, <3>11 DEF shifts
    <3>12. CASE ~Odd(t)
      <4>1. t \in 1..(j - 1)
        BY <3>4
      <4>2. shifts(t, m)
        BY <1>2, <3>4, <3>12, <4>1
      <4>3. ascendSpine[s] = ascendSpine[t] /\ ascendSpine[s + k] = ascendSpine[t + m]
        BY <3>4, <3>8, <3>9, <3>10, <3>12
      <4> QED
        BY <4>2, <4>3 DEF shifts
    <3> QED
      BY <3>11, <3>12
  <2> QED
    BY <2>1
<1>3. 0..n \subseteq good
  <2> HIDE DEF good
  <2> QED
    BY <1>1, <1>2, Induct
<1>4. n \in 0..n
  OBVIOUS
<1> QED
  BY <1>3, <1>4

-----------------------------------------------------------------------------
(* A walk in a tree and the walk in the subtree that holds the leaf go up  *)
(* side by side until the subtree's root.                                  *)
isPosition(at) ==
  at = [r |-> at.r, fn |-> at.fn, sn |-> at.sn, fits |-> at.fits] /\ at.fits \in BOOLEAN

above(at, n) ==
  IF IsRightSibling(at.fn, at.sn) /\ ~Odd(at.fn) THEN ascendSpine[n] \div 2 ELSE n \div 2

LEMMA AscendIs ==
  ASSUME NEW at, NEW p, isPosition(at)
  PROVE  LET up == ascend(at, p)
         IN  /\ isPosition(up)
             /\ ~at.fits \/ at.sn = 0 => ~up.fits /\ up.sn = at.sn
             /\ at.fits /\ at.sn # 0 =>
                  /\ up.fits /\ up.fn = above(at, at.fn) /\ up.sn = above(at, at.sn)
                  /\ up.r = IF IsRightSibling(at.fn, at.sn) THEN hashChildren(p, at.r)
                            ELSE hashChildren(at.r, p)
<1> DEFINE next == [r    |-> IF IsRightSibling(at.fn, at.sn) THEN hashChildren(p, at.r)
                             ELSE hashChildren(at.r, p),
                    fn   |-> above(at, at.fn), sn |-> above(at, at.sn), fits |-> TRUE]
<1>1. ascend(at, p) = IF ~at.fits \/ at.sn = 0 THEN [at EXCEPT !.fits = FALSE] ELSE next
  BY DEF ascend, above
<1>2. CASE ~at.fits \/ at.sn = 0
  <2> DEFINE stop == [at EXCEPT !.fits = FALSE]
  <2>1. stop = [r |-> at.r, fn |-> at.fn, sn |-> at.sn, fits |-> FALSE]
    <3> DEFINE from == [r |-> at.r, fn |-> at.fn, sn |-> at.sn, fits |-> at.fits]
               to == [from EXCEPT !.fits = FALSE]
               end == [r |-> at.r, fn |-> at.fn, sn |-> at.sn, fits |-> FALSE]
               fields == {"r", "fn", "sn", "fits"}
    <3>1. DOMAIN from = fields /\ from.r = at.r /\ from.fn = at.fn /\ from.sn = at.sn
      OBVIOUS
    <3>2. /\ end.r = at.r /\ end.fn = at.fn /\ end.sn = at.sn /\ end.fits = FALSE
          /\ end = [i \in fields |-> end[i]]
      OBVIOUS
    <3> HIDE DEF from, end
    <3>3. /\ to.r = at.r /\ to.fn = at.fn /\ to.sn = at.sn /\ to.fits = FALSE
          /\ to = [i \in fields |-> to[i]]
      BY <3>1
    <3> HIDE DEF to
    <3>4. to = end
      BY <3>2, <3>3
    <3>5. at = from
      BY DEF isPosition, from
    <3> HIDE DEF stop
    <3>6. stop = to
      BY <3>5 DEF stop, to
    <3> QED
      BY <3>4, <3>6 DEF end
  <2>2. isPosition(stop) /\ ~stop.fits /\ stop.sn = at.sn
    BY <2>1 DEF isPosition
  <2>3. ascend(at, p) = stop
    BY <1>1, <1>2
  <2> HIDE DEF stop
  <2> QED
    BY <1>2, <2>2, <2>3
<1>3. CASE at.fits /\ at.sn # 0
  <2>1. isPosition(next) /\ next.fits /\ next.fn = above(at, at.fn) /\ next.sn = above(at, at.sn)
    BY DEF isPosition
  <2>2. next.r = IF IsRightSibling(at.fn, at.sn) THEN hashChildren(p, at.r)
                 ELSE hashChildren(at.r, p)
    OBVIOUS
  <2>3. ascend(at, p) = next
    BY <1>1, <1>3
  <2> HIDE DEF next
  <2> QED
    BY <1>3, <2>1, <2>2, <2>3
<1> QED
  BY <1>2, <1>3

\* at in a tree, inner in its left subtree of k leaves at the level, or in its right one.
besideLeft(at, inner, k) ==
  inner.sn = k - 1 /\ at.fn = inner.fn /\ at.sn \in Nat /\ k <= at.sn /\ at.sn < 2 * k
besideRight(at, inner, k) ==
  inner.sn < k /\ at.fn = inner.fn + k /\ at.sn = inner.sn + k

abreast(left, at, inner) ==
  /\ at.fits /\ inner.fits /\ at.r = inner.r
  /\ inner.fn \in Nat /\ inner.sn \in Nat /\ inner.fn <= inner.sn
  /\ \E k \in Powers : IF left THEN besideLeft(at, inner, k) ELSE besideRight(at, inner, k)

LEMMA PowerIsEven ==
  ASSUME NEW k \in Powers, k > 1
  PROVE  \E m \in Powers : k = 2 * m /\ m \in Nat /\ m >= 1
BY PowersAre DEF closedUnderDoubling

LEMMA LeftClimbs ==
  ASSUME NEW at, NEW inner, NEW p, isPosition(at), isPosition(inner),
         abreast(TRUE, at, inner), inner.sn # 0
  PROVE  abreast(TRUE, ascend(at, p), ascend(inner, p))
<1>1. PICK k \in Powers : besideLeft(at, inner, k)
  BY DEF abreast
<1>2. k \in Nat /\ k > 1
  BY <1>1, PowersAre DEF closedUnderDoubling, besideLeft, abreast
<1>3. PICK m \in Powers : k = 2 * m /\ m \in Nat /\ m >= 1
  BY <1>2, PowerIsEven
<1> DEFINE f == inner.fn
           s == at.sn
<1>4. /\ f \in Nat /\ f <= 2 * m - 1 /\ at.fn = f /\ inner.sn = 2 * m - 1
      /\ s \in Nat /\ 2 * m <= s /\ s < 4 * m
  BY <1>1, <1>3 DEF abreast, besideLeft
<1> HIDE DEF f, s
<1>5. /\ Odd(2 * m - 1) /\ (2 * m - 1) \div 2 = m - 1
      /\ m <= s \div 2 /\ s \div 2 < 2 * m /\ s \div 2 \in Nat
      /\ f \div 2 \in Nat /\ f \div 2 <= m - 1 /\ f # s
  BY <1>3, <1>4 DEF Odd
<1>6. /\ IsRightSibling(at.fn, at.sn) <=> Odd(f)
      /\ IsRightSibling(inner.fn, inner.sn) <=> Odd(f)
  BY <1>4, <1>5 DEF IsRightSibling, f, s
<1>7. /\ above(at, at.fn) = f \div 2 /\ above(at, at.sn) = s \div 2
      /\ above(inner, inner.fn) = f \div 2 /\ above(inner, inner.sn) = m - 1
  BY <1>4, <1>5, <1>6 DEF above, f, s
<1>8. at.sn # 0 /\ at.fits /\ inner.fits /\ at.r = inner.r
  BY <1>3, <1>4 DEF abreast, s
<1> DEFINE a == ascend(at, p)
           u == ascend(inner, p)
<1>9. /\ a.fits /\ a.fn = f \div 2 /\ a.sn = s \div 2
      /\ a.r = IF Odd(f) THEN hashChildren(p, at.r) ELSE hashChildren(at.r, p)
      /\ u.fits /\ u.fn = f \div 2 /\ u.sn = m - 1
      /\ u.r = IF Odd(f) THEN hashChildren(p, inner.r) ELSE hashChildren(inner.r, p)
  BY <1>6, <1>7, <1>8, AscendIs
<1> HIDE DEF a, u
<1>10. besideLeft(a, u, m)
  BY <1>5, <1>9 DEF besideLeft
<1>11. abreast(TRUE, a, u)
  BY <1>3, <1>5, <1>8, <1>9, <1>10 DEF abreast
<1> QED
  BY <1>11 DEF a, u

LEMMA LeftTops ==
  ASSUME NEW at, NEW inner, NEW p, isPosition(at), isPosition(inner),
         abreast(TRUE, at, inner), inner.sn = 0
  PROVE  LET up == ascend(at, p) IN up.fits /\ up.sn = 0 /\ up.r = hashChildren(inner.r, p)
<1>1. PICK k \in Powers : besideLeft(at, inner, k)
  BY DEF abreast
<1>2. k \in Nat
  BY PowersAre DEF closedUnderDoubling
<1>3. k = 1 /\ at.fn = 0 /\ at.sn = 1 /\ at.fits /\ at.r = inner.r
  BY <1>1, <1>2 DEF besideLeft, abreast
<1>4. ~IsRightSibling(0, 1) /\ 1 \div 2 = 0
  BY DEF IsRightSibling, Odd
<1>5. above(at, at.sn) = 0
  BY <1>3, <1>4 DEF above
<1> QED
  BY <1>3, <1>4, <1>5, AscendIs

LEMMA RightClimbs ==
  ASSUME NEW at, NEW inner, NEW p, isPosition(at), isPosition(inner),
         abreast(FALSE, at, inner), inner.sn # 0
  PROVE  abreast(FALSE, ascend(at, p), ascend(inner, p))
<1>1. PICK k \in Powers : besideRight(at, inner, k)
  BY DEF abreast
<1>2. k \in Nat /\ k > 1
  BY <1>1, PowersAre DEF closedUnderDoubling, besideRight, abreast
<1>3. PICK m \in Powers : k = 2 * m /\ m \in Nat /\ m >= 1
  BY <1>2, PowerIsEven
<1> DEFINE f == inner.fn
           s == inner.sn
<1>4. /\ f \in Nat /\ s \in Nat /\ f <= s /\ s # 0 /\ s < 2 * m
      /\ at.fn = 2 * m + f /\ at.sn = 2 * m + s
  BY <1>1, <1>3 DEF abreast, besideRight
<1> HIDE DEF f, s
<1>5. /\ f \div 2 \in Nat /\ s \div 2 \in Nat /\ f \div 2 <= s \div 2 /\ s \div 2 < m
      /\ 2 * m + f = 2 * m + s <=> f = s
      /\ 2 * m + s # 0
  BY <1>3, <1>4
<1>6. /\ (2 * m + f) \div 2 = m + f \div 2 /\ (2 * m + s) \div 2 = m + s \div 2
      /\ Odd(2 * m + f) <=> Odd(f)
  BY <1>3, <1>4, HalfOf
<1>7. at.fits /\ inner.fits /\ at.r = inner.r /\ at.sn # 0 /\ inner.sn = s /\ inner.fn = f
  BY <1>4, <1>5 DEF abreast, f, s
<1>8. IsRightSibling(at.fn, at.sn) <=> IsRightSibling(f, s)
  BY <1>4, <1>5, <1>6 DEF IsRightSibling
<1> DEFINE a == ascend(at, p)
           u == ascend(inner, p)
<1>9. /\ a.fits /\ a.fn = above(at, at.fn) /\ a.sn = above(at, at.sn)
      /\ u.fits /\ u.fn = above(inner, f) /\ u.sn = above(inner, s) /\ a.r = u.r
  BY <1>4, <1>7, <1>8, AscendIs
<1> HIDE DEF a, u
<1>10. \E l \in Powers : /\ above(inner, f) \in Nat /\ above(inner, s) \in Nat
                         /\ above(inner, f) <= above(inner, s) /\ above(inner, s) < l
                         /\ above(at, at.fn) = above(inner, f) + l
                         /\ above(at, at.sn) = above(inner, s) + l
  <2>1. CASE IsRightSibling(f, s) /\ ~Odd(f)
    <3>1. f = s /\ ~Odd(s)
      BY <2>1 DEF IsRightSibling
    <3>2. s \in 1..s /\ s < k
      BY <1>3, <1>4
    <3>3. shifts(s, k)
      BY <3>1, <3>2, <1>4, SpineShifts
    <3> DEFINE x == ascendSpine[s]
    <3>4. PICK q \in Powers : x \in Nat /\ x > 0 /\ ascendSpine[s + k] = x + q /\ x < q
      BY <3>3 DEF shifts
    <3>5. s + k = at.sn /\ at.fn = at.sn
      BY <1>3, <1>4, <3>1
    <3>6. above(at, at.fn) = (x + q) \div 2 /\ above(at, at.sn) = (x + q) \div 2
      BY <2>1, <1>4, <1>6, <1>8, <3>4, <3>5 DEF above
    <3>7. above(inner, f) = x \div 2 /\ above(inner, s) = x \div 2
      BY <2>1, <1>7, <3>1 DEF above
    <3> HIDE DEF x
    <3>8. q \in Nat /\ q > 1
      BY <3>4, PowersAre DEF closedUnderDoubling
    <3>9. PICK l \in Powers : q = 2 * l /\ l \in Nat /\ l >= 1
      BY <3>8, PowerIsEven
    <3>10. x \div 2 \in Nat /\ x \div 2 < l /\ (x + q) \div 2 = x \div 2 + l
      BY <3>4, <3>9
    <3> QED
      BY <3>6, <3>7, <3>10
  <2>2. CASE ~(IsRightSibling(f, s) /\ ~Odd(f))
    <3>1. /\ above(at, at.fn) = m + f \div 2 /\ above(at, at.sn) = m + s \div 2
          /\ above(inner, f) = f \div 2 /\ above(inner, s) = s \div 2
      BY <2>2, <1>4, <1>6, <1>7, <1>8 DEF above
    <3> QED
      BY <3>1, <1>3, <1>5
  <2> QED
    BY <2>1, <2>2
<1>11. PICK l \in Powers : /\ u.fn \in Nat /\ u.sn \in Nat /\ u.fn <= u.sn /\ u.sn < l
                           /\ a.fn = u.fn + l /\ a.sn = u.sn + l
  BY <1>9, <1>10
<1>12. abreast(FALSE, a, u)
  BY <1>9, <1>11 DEF abreast, besideRight
<1> QED
  BY <1>12 DEF a, u

LEMMA RightTops ==
  ASSUME NEW at, NEW inner, NEW p, isPosition(at), isPosition(inner),
         abreast(FALSE, at, inner), inner.sn = 0
  PROVE  LET up == ascend(at, p) IN up.fits /\ up.sn = 0 /\ up.r = hashChildren(p, inner.r)
<1>1. PICK k \in Powers : besideRight(at, inner, k)
  BY DEF abreast
<1>2. k \in Nat /\ k >= 1
  BY PowersAre DEF closedUnderDoubling
<1>3. at.fn = k /\ at.sn = k /\ at.fits /\ at.r = inner.r
  BY <1>1, <1>2 DEF besideRight, abreast
<1>4. IsRightSibling(k, k)
  BY DEF IsRightSibling
<1>5. above(at, at.sn) = 0
  <2>1. CASE k = 1
    BY <1>3, <2>1 DEF above, Odd
  <2>2. CASE k # 1
    <3>1. k > 1
      BY <1>2, <2>2
    <3>2. ~Odd(k)
      BY <3>1, PowerIsEven DEF Odd
    <3>3. ascendSpine[k] = 1 /\ 1 \div 2 = 0
      BY <3>1, SpineOfPower
    <3> QED
      BY <1>3, <1>4, <3>2, <3>3 DEF above
  <2> QED
    BY <2>1, <2>2
<1> QED
  BY <1>2, <1>3, <1>4, <1>5, AscendIs

\* The walk's positions, and where it begins.
positions(from, proof) ==
  CHOOSE f : f = [j \in 0..Len(proof) |-> IF j = 0 THEN from ELSE ascend(f[j - 1], proof[j])]
leafAt(leafHash, index, n) == [r |-> leafHash, fn |-> index, sn |-> n - 1, fits |-> TRUE]

\* What a walk yields.
yield(at) == IF at.fits /\ at.sn = 0 THEN <<at.r>> ELSE <<>>

LEMMA PositionsAre ==
  ASSUME NEW S, NEW proof \in Seq(S), NEW from, isPosition(from)
  PROVE  LET at == positions(from, proof)
         IN  /\ at[0] = from
             /\ \A j \in 1..Len(proof) : at[j] = ascend(at[j - 1], proof[j])
             /\ \A j \in 0..Len(proof) : isPosition(at[j])
<1> DEFINE n == Len(proof)
           rule(f) == f = [j \in 0..n |-> IF j = 0 THEN from ELSE ascend(f[j - 1], proof[j])]
           at == positions(from, proof)
           c == [start |-> from, proof |-> proof]
<1>1. n \in Nat
  OBVIOUS
<1>2. \E f : rule(f)
  <2>1. c.start = from /\ c.proof = proof
    OBVIOUS
  <2> HIDE DEF c
  <2>2. descends("walk", c)
    BY <1>1, <2>1 DEF descends, arguments, size, calls
  <2>3. PICK f : f = [x \in arguments("walk", c) |-> result("walk", c, x, f)]
    BY <2>2, RecursionIsDefined
  <2>4. rule(f)
    BY <2>1, <2>3 DEF arguments, result
  <2> HIDE DEF rule
  <2> QED
    BY <2>4
<1>3. at = CHOOSE f : rule(f)
  BY DEF positions
<1>4. rule(at)
  <2> HIDE DEF rule, at
  <2> QED
    BY <1>2, <1>3
<1> HIDE DEF at, n
<1>5. at[0] = from /\ \A j \in 1..n : at[j] = ascend(at[j - 1], proof[j])
  BY <1>1, <1>4
<1> DEFINE good == {j \in 0..n : isPosition(at[j])}
<1>6. 0 \in good
  BY <1>1, <1>5
<1>7. ASSUME NEW j \in 1..n, j - 1 \in good
      PROVE  j \in good
  <2>1. at[j] = ascend(at[j - 1], proof[j]) /\ isPosition(at[j - 1]) /\ j \in 0..n
    BY <1>1, <1>5, <1>7
  <2> QED
    BY <2>1, AscendIs
<1>8. 0..n \subseteq good
  <2> HIDE DEF good
  <2> QED
    BY <1>1, <1>6, <1>7, Induct
<1> QED
  BY <1>5, <1>8 DEF at, n

LEMMA RecomputeIs ==
  ASSUME NEW leafHash, NEW index, NEW n, NEW proof
  PROVE  recomputeRoot(leafHash, index, n, proof)
           = IF index < n THEN yield(positions(leafAt(leafHash, index, n), proof)[Len(proof)]) ELSE <<>>
<1> DEFINE from == [r |-> leafHash, fn |-> index, sn |-> n - 1, fits |-> TRUE]
           at == CHOOSE f : f = [j \in 0..Len(proof) |-> IF j = 0 THEN from ELSE ascend(f[j - 1], proof[j])]
           top == at[Len(proof)]
<1>1. recomputeRoot(leafHash, index, n, proof) = IF index < n /\ top.fits /\ top.sn = 0 THEN <<top.r>> ELSE <<>>
  BY DEF recomputeRoot
<1>2. at = positions(leafAt(leafHash, index, n), proof)
  BY DEF positions, leafAt
<1> HIDE DEF at
<1> QED
  BY <1>1, <1>2 DEF yield

\* The walk in the tree and the one in the subtree: abreast, or past its root.
related(left, at, inner) ==
  /\ isPosition(at) /\ isPosition(inner)
  /\ abreast(left, at, inner) \/ (~inner.fits /\ (~at.fits \/ at.sn = 0))

LEMMA StayRelated ==
  ASSUME NEW left \in BOOLEAN, NEW at, NEW inner, NEW p, related(left, at, inner)
  PROVE  related(left, ascend(at, p), ascend(inner, p))
<1>1. isPosition(ascend(at, p)) /\ isPosition(ascend(inner, p))
  BY AscendIs DEF related
<1>2. CASE abreast(left, at, inner) /\ inner.sn # 0
  BY <1>1, <1>2, LeftClimbs, RightClimbs DEF related
<1>3. CASE abreast(left, at, inner) /\ inner.sn = 0
  <2>1. ~ascend(inner, p).fits
    BY <1>3, AscendIs DEF related
  <2>2. ascend(at, p).sn = 0
    BY <1>3, LeftTops, RightTops DEF related
  <2> QED
    BY <1>1, <2>1, <2>2 DEF related
<1>4. CASE ~inner.fits /\ (~at.fits \/ at.sn = 0)
  <2>1. ~ascend(inner, p).fits /\ ~ascend(at, p).fits
    BY <1>4, AscendIs DEF related
  <2> QED
    BY <1>1, <2>1 DEF related
<1> QED
  BY <1>2, <1>3, <1>4 DEF related

\* One more element takes the tree's walk to its root if and only if the subtree's
\* is at its own.
LEMMA LastStep ==
  ASSUME NEW left \in BOOLEAN, NEW at, NEW inner, NEW p, related(left, at, inner)
  PROVE  yield(ascend(at, p)) =
           IF yield(inner) = <<>> THEN <<>>
           ELSE IF left THEN <<hashChildren(inner.r, p)>> ELSE <<hashChildren(p, inner.r)>>
<1>1. <<inner.r>> # <<>>
  OBVIOUS
<1>2. CASE abreast(left, at, inner) /\ inner.sn # 0
  <2>1. abreast(left, ascend(at, p), ascend(inner, p))
    BY <1>2, LeftClimbs, RightClimbs DEF related
  <2>2. ascend(at, p).sn # 0
    <3> DEFINE a == ascend(at, p)
               u == ascend(inner, p)
    <3>1. PICK k \in Powers : IF left THEN besideLeft(a, u, k) ELSE besideRight(a, u, k)
      BY <2>1 DEF abreast
    <3>2. k \in Nat /\ k >= 1 /\ u.sn \in Nat
      BY <2>1, PowersAre DEF closedUnderDoubling, abreast
    <3> HIDE DEF a, u
    <3>3. a.sn # 0
      BY <3>1, <3>2 DEF besideLeft, besideRight
    <3> QED
      BY <3>3 DEF a
  <2> QED
    BY <1>2, <2>2 DEF yield
<1>3. CASE abreast(left, at, inner) /\ inner.sn = 0
  <2>1. inner.fits
    BY <1>3 DEF abreast
  <2>2. ascend(at, p).fits /\ ascend(at, p).sn = 0
        /\ ascend(at, p).r = IF left THEN hashChildren(inner.r, p) ELSE hashChildren(p, inner.r)
    <3>1. CASE left = TRUE
      BY <1>3, <3>1, LeftTops DEF related
    <3>2. CASE left = FALSE
      BY <1>3, <3>2, RightTops DEF related
    <3> QED
      BY <3>1, <3>2
  <2> QED
    BY <1>1, <1>3, <2>1, <2>2 DEF yield
<1>4. CASE ~inner.fits /\ (~at.fits \/ at.sn = 0)
  <2>1. ~ascend(at, p).fits
    BY <1>4, AscendIs DEF related
  <2> QED
    BY <1>4, <2>1 DEF yield
<1> QED
  BY <1>2, <1>3, <1>4 DEF related

\* What a path verifies in a tree is what it verifies, but for its last element, in
\* the subtree that holds the leaf (merkle.go:90-127).
LEMMA WalksOfHalf ==
  ASSUME NEW S, NEW q \in Seq(S), NEW last \in S, NEW leafHash,
         NEW n \in Nat, n > 1, NEW i \in 0..(n - 1)
  PROVE  LET k    == largestPowerOfTwoLessThan(n)
             half == recomputeRoot(leafHash, IF i < k THEN i ELSE i - k, IF i < k THEN k ELSE n - k, q)
         IN  recomputeRoot(leafHash, i, n, Append(q, last)) =
               IF half = <<>> THEN <<>>
               ELSE IF i < k THEN <<hashChildren(half[1], last)>> ELSE <<hashChildren(last, half[1])>>
<1> DEFINE k    == largestPowerOfTwoLessThan(n)
           left == i < k
           i2   == IF left THEN i ELSE i - k
           n2   == IF left THEN k ELSE n - k
           whole == leafAt(leafHash, i, n)
           branch  == leafAt(leafHash, i2, n2)
           proof == Append(q, last)
           at    == positions(whole, proof)
           inner == positions(branch, q)
           len   == Len(q)
<1>1. k \in Powers /\ k \in Nat /\ k < n /\ n <= 2 * k
  BY SplitIs
<1>2. len \in Nat /\ proof \in Seq(S) /\ Len(proof) = len + 1 /\ proof[len + 1] = last
      /\ \A j \in 1..len : proof[j] = q[j]
  OBVIOUS
<1> HIDE DEF k, proof, len
<1>3. /\ left \in BOOLEAN /\ i2 \in Nat /\ n2 \in Nat /\ i2 < n2 /\ i \in Nat /\ i < n
      /\ left => i2 = i /\ n2 = k
      /\ ~left => i = i2 + k /\ n = n2 + k /\ n2 <= k
  BY <1>1
<1> HIDE DEF left, i2, n2
<1>4. /\ isPosition(whole) /\ isPosition(branch)
      /\ whole.r = leafHash /\ whole.fn = i /\ whole.sn = n - 1 /\ whole.fits
      /\ branch.r = leafHash /\ branch.fn = i2 /\ branch.sn = n2 - 1 /\ branch.fits
  BY DEF isPosition, leafAt
<1> HIDE DEF whole, branch
<1>5. related(left, whole, branch)
  <2>1. CASE left
    <3>1. besideLeft(whole, branch, k)
      BY <1>1, <1>3, <1>4, <2>1 DEF besideLeft
    <3> QED
      BY <1>1, <1>3, <1>4, <2>1, <3>1 DEF related, abreast
  <2>2. CASE ~left
    <3>1. besideRight(whole, branch, k)
      BY <1>1, <1>3, <1>4, <2>2 DEF besideRight
    <3> QED
      BY <1>1, <1>3, <1>4, <2>2, <3>1 DEF related, abreast
  <2> QED
    BY <2>1, <2>2
<1>6. /\ at[0] = whole /\ \A j \in 1..(len + 1) : at[j] = ascend(at[j - 1], proof[j])
      /\ inner[0] = branch /\ \A j \in 1..len : inner[j] = ascend(inner[j - 1], q[j])
  <2>1. at[0] = whole /\ \A j \in 1..Len(proof) : at[j] = ascend(at[j - 1], proof[j])
    <3>1. proof \in Seq(S) /\ isPosition(whole)
      BY <1>2, <1>4
    <3> QED
      BY <3>1, PositionsAre
  <2>2. inner[0] = branch /\ \A j \in 1..Len(q) : inner[j] = ascend(inner[j - 1], q[j])
    BY <1>4, PositionsAre
  <2> HIDE DEF at, inner
  <2> QED
    BY <1>2, <2>1, <2>2 DEF len
<1> HIDE DEF at, inner
<1> DEFINE good == {j \in 0..len : related(left, at[j], inner[j])}
<1>7. 0 \in good
  BY <1>2, <1>5, <1>6
<1>8. ASSUME NEW j \in 1..len, j - 1 \in good
      PROVE  j \in good
  <2>1. /\ j \in 0..len /\ at[j] = ascend(at[j - 1], q[j]) /\ inner[j] = ascend(inner[j - 1], q[j])
        /\ related(left, at[j - 1], inner[j - 1])
    BY <1>2, <1>6, <1>8
  <2> QED
    BY <2>1, <1>3, StayRelated
<1>9. 0..len \subseteq good
  <2> HIDE DEF good
  <2> QED
    BY <1>2, <1>7, <1>8, Induct
<1>10. related(left, at[len], inner[len])
  <2>1. len \in 0..len
    BY <1>2
  <2> QED
    BY <1>9, <2>1
<1>11. at[len + 1] = ascend(at[len], last)
  <2>1. len + 1 \in 1..(len + 1) /\ (len + 1) - 1 = len
    BY <1>2
  <2> QED
    BY <1>2, <1>6, <2>1
<1> DEFINE half == recomputeRoot(leafHash, i2, n2, q)
<1>12. /\ recomputeRoot(leafHash, i, n, proof) = yield(at[len + 1])
       /\ half = yield(inner[len])
  BY <1>2, <1>3, RecomputeIs DEF at, inner, whole, branch, len
<1>13. yield(inner[len]) # <<>> => yield(inner[len]) = <<inner[len].r>> /\ <<inner[len].r>>[1] = inner[len].r
  BY DEF yield
<1> HIDE DEF half
<1>14. recomputeRoot(leafHash, i, n, proof) =
         IF half = <<>> THEN <<>>
         ELSE IF left THEN <<hashChildren(half[1], last)>> ELSE <<hashChildren(last, half[1])>>
  <2>1. recomputeRoot(leafHash, i, n, proof) =
         IF half = <<>> THEN <<>>
         ELSE IF left THEN <<hashChildren(inner[len].r, last)>> ELSE <<hashChildren(last, inner[len].r)>>
    BY <1>3, <1>10, <1>11, <1>12, LastStep
  <2>2. half # <<>> => half[1] = inner[len].r
    BY <1>12, <1>13
  <2> QED
    BY <2>1, <2>2
<1> QED
  BY <1>14 DEF half, proof, i2, n2, left, k

\* At the root an element too many is refused, and below it one too few is
\* (merkle.go:96-99 and 121-124).
LEMMA WalksOfOne ==
  ASSUME NEW S, NEW proof \in Seq(S), NEW leafHash
  PROVE  recomputeRoot(leafHash, 0, 1, proof) = IF proof = <<>> THEN <<leafHash>> ELSE <<>>
<1> DEFINE from == leafAt(leafHash, 0, 1)
           at   == positions(from, proof)
           n    == Len(proof)
<1>1. isPosition(from) /\ from.r = leafHash /\ from.sn = 0 /\ from.fits
  BY DEF isPosition, leafAt
<1> HIDE DEF from
<1>2. n \in Nat /\ (proof = <<>> <=> n = 0)
  OBVIOUS
<1>3. /\ at[0] = from /\ \A j \in 1..n : at[j] = ascend(at[j - 1], proof[j])
      /\ \A j \in 0..n : isPosition(at[j])
  BY <1>1, PositionsAre
<1>4. recomputeRoot(leafHash, 0, 1, proof) = yield(at[n])
  BY RecomputeIs DEF from
<1> HIDE DEF at, n
<1>5. CASE proof = <<>>
  BY <1>1, <1>2, <1>3, <1>4, <1>5 DEF yield
<1>6. CASE proof # <<>>
  <2> DEFINE good == {j \in 0..n : j # 0 => ~at[j].fits}
  <2>1. 0 \in good
    BY <1>2
  <2>2. ASSUME NEW j \in 1..n, j - 1 \in good
        PROVE  j \in good
    <3>1. at[j] = ascend(at[j - 1], proof[j]) /\ isPosition(at[j - 1]) /\ j \in 0..n
      BY <1>2, <1>3
    <3>2. ~at[j - 1].fits \/ at[j - 1].sn = 0
      <4>1. CASE j - 1 = 0
        BY <4>1, <1>1, <1>3
      <4>2. CASE j - 1 # 0
        BY <4>2, <2>2
      <4> QED
        BY <4>1, <4>2
    <3>3. ~at[j].fits
      BY <3>1, <3>2, AscendIs
    <3> QED
      BY <3>1, <3>3
  <2>3. 0..n \subseteq good
    <3> HIDE DEF good
    <3> QED
      BY <1>2, <2>1, <2>2, Induct
  <2>4. ~at[n].fits
    <3>1. n \in 0..n /\ n # 0
      BY <1>2, <1>6
    <3> QED
      BY <2>3, <3>1
  <2> QED
    BY <1>4, <1>6, <2>4 DEF yield
<1> QED
  BY <1>5, <1>6

LEMMA WalksOfNone ==
  ASSUME NEW leafHash, NEW n \in Nat, n > 1, NEW i \in 0..(n - 1)
  PROVE  recomputeRoot(leafHash, i, n, <<>>) = <<>>
<1> DEFINE from == leafAt(leafHash, i, n)
<1>1. isPosition(from) /\ from.sn = n - 1 /\ n - 1 # 0 /\ i < n
  BY DEF isPosition, leafAt
<1> HIDE DEF from
<1>2. <<>> \in Seq({}) /\ Len(<<>>) = 0
  OBVIOUS
<1>3. positions(from, <<>>)[0] = from
  BY <1>1, <1>2, PositionsAre
<1>4. recomputeRoot(leafHash, i, n, <<>>) = yield(positions(from, <<>>)[0])
  BY <1>1, <1>2, RecomputeIs DEF from
<1> QED
  BY <1>1, <1>3, <1>4 DEF yield

-----------------------------------------------------------------------------
(* Roots and audit paths.                                                  *)
LEMMA HalvingDescends ==
  ASSUME NEW which, which \in {"root", "paths"}, NEW c
  PROVE  descends(which, c) /\ arguments(which, c) = Seq(Data)
<1>1. arguments(which, c) = Seq(Data)
  BY DEF arguments
<1>2. ASSUME NEW x \in Seq(Data)
      PROVE  /\ size(which, c, x) \in Nat
             /\ \A y \in calls(which, c, x) : y \in Seq(Data) /\ size(which, c, y) < size(which, c, x)
  <2>1. Len(x) \in Nat /\ \A y : size(which, c, y) = Len(y)
    BY DEF size
  <2>2. CASE Len(x) <= 1
    <3>1. calls(which, c, x) = {}
      BY <2>2 DEF calls
    <3> QED
      BY <2>1, <3>1
  <2>3. CASE Len(x) > 1
    <3> DEFINE k == largestPowerOfTwoLessThan(Len(x))
    <3>1. k \in Nat /\ k >= 1 /\ k < Len(x)
      BY <2>1, <2>3, SplitIs, PowersAre
    <3>2. /\ leftOf(x) \in Seq(Data) /\ Len(leftOf(x)) = k
          /\ rightOf(x) \in Seq(Data) /\ Len(rightOf(x)) = Len(x) - k
      BY <2>3, HalvesAre
    <3> HIDE DEF k
    <3>3. calls(which, c, x) = {leftOf(x), rightOf(x)}
      BY <2>1, <2>3 DEF calls
    <3>4. k < Len(x) /\ Len(x) - k < Len(x)
      BY <2>1, <3>1
    <3> QED
      BY <2>1, <3>2, <3>3, <3>4
  <2> QED
    BY <2>1, <2>2, <2>3
<1> QED
  BY <1>1, <1>2 DEF descends

LEMMA RootIs == \A log \in Seq(Data) : merkleRoot[log] = rootOf(log, merkleRoot)
<1> DEFINE rule(f) == f = [log \in Seq(Data) |->
                             CASE Len(log) = 0 -> hashEmpty
                               [] Len(log) = 1 -> hashLeaf(log[1])
                               [] OTHER -> hashChildren(f[leftOf(log)], f[rightOf(log)])]
<1>1. PICK f : f = [x \in Seq(Data) |-> result("root", 0, x, f)]
  <2>1. descends("root", 0) /\ arguments("root", 0) = Seq(Data)
    BY HalvingDescends
  <2> QED
    BY <2>1, RecursionIsDefined
<1>2. rule(f)
  <2>1. \A x : result("root", 0, x, f) = rootOf(x, f)
    BY DEF result
  <2> QED
    BY <1>1, <2>1 DEF rootOf
<1>3. merkleRoot = CHOOSE g : rule(g)
  BY DEF merkleRoot
<1>4. rule(merkleRoot)
  <2> HIDE DEF rule
  <2> QED
    BY <1>2, <1>3
<1> QED
  BY <1>4 DEF rootOf

LEMMA PathsAre == \A log \in Seq(Data) : auditPaths[log] = pathsOf(log, auditPaths)
<1> DEFINE rule(f) == f = [log \in Seq(Data) |-> pathsOf(log, f)]
<1>1. PICK f : f = [x \in Seq(Data) |-> result("paths", 0, x, f)]
  <2>1. descends("paths", 0) /\ arguments("paths", 0) = Seq(Data)
    BY HalvingDescends
  <2> QED
    BY <2>1, RecursionIsDefined
<1>2. rule(f)
  <2>1. \A x : result("paths", 0, x, f) = pathsOf(x, f)
    BY DEF result
  <2> QED
    BY <1>1, <2>1
<1>3. auditPaths = CHOOSE g : rule(g)
  BY DEF auditPaths, pathsOf
<1>4. rule(auditPaths)
  <2> HIDE DEF rule
  <2> QED
    BY <1>2, <1>3
<1> QED
  BY <1>4

Roots == {merkleRoot[log] : log \in Seq(Data)}

LEMMA HashesAreTerms ==
  /\ \A a, b : hashLeaf(a) = hashLeaf(b) => a = b
  /\ \A a, b, c, d : hashChildren(a, b) = hashChildren(c, d) => a = c /\ b = d
BY DEF hashLeaf, hashChildren

LEMMA LastOf ==
  ASSUME NEW S, NEW p \in Seq(S), p # <<>>
  PROVE  \E q \in Seq(S), last \in S : p = Append(q, last)
<1> DEFINE m == Len(p)
           l == m - 1
           q == [j \in 1..l |-> p[j]]
<1>1. m \in Nat /\ m # 0 /\ p = [j \in 1..m |-> p[j]] /\ \A j \in 1..m : p[j] \in S
  OBVIOUS
<1> HIDE DEF m
<1>2. l \in Nat /\ m = l + 1 /\ 1..l \subseteq 1..m /\ m \in 1..m
  BY <1>1
<1> HIDE DEF l
<1>3. \A j \in 1..l : p[j] \in S
  BY <1>1, <1>2
<1>4. q \in Seq(S) /\ Len(q) = l /\ \A j \in 1..l : q[j] = p[j]
  BY <1>2, <1>3
<1> HIDE DEF q
<1>5. p[m] \in S
  BY <1>1, <1>2
<1>6. /\ Append(q, p[m]) \in Seq(S) /\ Len(Append(q, p[m])) = m /\ Append(q, p[m])[m] = p[m]
      /\ \A j \in 1..l : Append(q, p[m])[j] = p[j]
  BY <1>2, <1>4, <1>5
<1>7. \A j \in 1..m : Append(q, p[m])[j] = p[j]
  BY <1>1, <1>2, <1>6
<1>8. Append(q, p[m]) = [j \in 1..m |-> Append(q, p[m])[j]]
  BY <1>6
<1>9. Append(q, p[m]) = p
  BY <1>1, <1>7, <1>8
<1> QED
  BY <1>4, <1>5, <1>9

\* In a log, at each index the audit path verifies the entry, and nothing verifies
\* anything else.
exact(log) ==
  \A i \in 0..(Len(log) - 1) :
    /\ inclusionProof(log, i) \in Seq(Roots)
    /\ recomputeRoot(hashLeaf(log[i + 1]), i, Len(log), inclusionProof(log, i)) = <<merkleRoot[log]>>
    /\ \A d, p : p \in Seq(Roots) /\ recomputeRoot(hashLeaf(d), i, Len(log), p) = <<merkleRoot[log]>>
                 => d = log[i + 1] /\ p = inclusionProof(log, i)

LEMMA ExactOfOne ==
  ASSUME NEW log \in Seq(Data), Len(log) = 1
  PROVE  exact(log)
<1>1. merkleRoot[log] = hashLeaf(log[1])
  BY RootIs DEF rootOf
<1>2. inclusionProof(log, 0) = <<>>
  <2>1. 0 \in 0 .. Len(log) - 1
    OBVIOUS
  <2>2. pathsOf(log, auditPaths)[0] = <<>>
    BY <2>1 DEF pathsOf
  <2> QED
    BY <2>1, <2>2, PathsAre DEF inclusionProof
<1>3. <<>> \in Seq(Roots)
  OBVIOUS
<1>4. ASSUME NEW d, NEW p \in Seq(Roots)
      PROVE  recomputeRoot(hashLeaf(d), 0, 1, p) = IF p = <<>> THEN <<hashLeaf(d)>> ELSE <<>>
  BY WalksOfOne
<1>5. \A a, b : <<a>> = <<b>> => a = b
  OBVIOUS
<1>6. \A a : <<a>> # <<>>
  OBVIOUS
<1>7. 0..(Len(log) - 1) = {0} /\ 0 + 1 = 1
  OBVIOUS
<1>8. /\ inclusionProof(log, 0) \in Seq(Roots)
      /\ recomputeRoot(hashLeaf(log[1]), 0, 1, inclusionProof(log, 0)) = <<merkleRoot[log]>>
  BY <1>1, <1>2, <1>3, <1>4
<1>9. ASSUME NEW d, NEW p \in Seq(Roots), recomputeRoot(hashLeaf(d), 0, 1, p) = <<merkleRoot[log]>>
      PROVE  d = log[1] /\ p = inclusionProof(log, 0)
  <2>1. p = <<>> /\ <<hashLeaf(d)>> = <<hashLeaf(log[1])>>
    BY <1>1, <1>4, <1>6, <1>9
  <2>2. hashLeaf(d) = hashLeaf(log[1])
    BY <2>1, <1>5
  <2> QED
    BY <1>2, <2>1, <2>2, HashesAreTerms
<1> QED
  BY <1>7, <1>8, <1>9 DEF exact

LEMMA ExactOfMore ==
  ASSUME NEW log \in Seq(Data), Len(log) > 1, exact(leftOf(log)), exact(rightOf(log))
  PROVE  exact(log)
<1> DEFINE n  == Len(log)
           k  == largestPowerOfTwoLessThan(n)
           lo == leftOf(log)
           hi == rightOf(log)
<1>1. n \in Nat /\ n > 1 /\ k \in Nat /\ k >= 1 /\ k < n
  <2>1. n \in Nat /\ n > 1
    OBVIOUS
  <2> QED
    BY <2>1, SplitIs, PowersAre
<1>2. /\ lo \in Seq(Data) /\ Len(lo) = k /\ hi \in Seq(Data) /\ Len(hi) = n - k
      /\ \A i \in 1..k : lo[i] = log[i]
      /\ \A i \in 1..(n - k) : hi[i] = log[k + i]
  BY HalvesAre
<1>3. merkleRoot[log] = hashChildren(merkleRoot[lo], merkleRoot[hi])
  <2>1. n # 0 /\ n # 1
    BY <1>1, MoreIsNeither
  <2> QED
    BY <2>1, RootIs DEF rootOf
<1>4. \A i \in 0..(n - 1) :
        inclusionProof(log, i) = IF i < k THEN Append(auditPaths[lo][i], merkleRoot[hi])
                                 ELSE Append(auditPaths[hi][i - k], merkleRoot[lo])
  <2>1. n # 1
    BY <1>1, MoreIsNeither
  <2> QED
    BY <2>1, PathsAre DEF inclusionProof, pathsOf
<1>5. merkleRoot[lo] \in Roots /\ merkleRoot[hi] \in Roots
  BY <1>2 DEF Roots
<1>6. exact(lo) /\ exact(hi)
  OBVIOUS
<1> HIDE DEF n, k, lo, hi
<1>7. ASSUME NEW i \in 0..(n - 1)
      PROVE  /\ inclusionProof(log, i) \in Seq(Roots)
             /\ recomputeRoot(hashLeaf(log[i + 1]), i, n, inclusionProof(log, i)) = <<merkleRoot[log]>>
             /\ \A d, p : p \in Seq(Roots) /\ recomputeRoot(hashLeaf(d), i, n, p) = <<merkleRoot[log]>>
                          => d = log[i + 1] /\ p = inclusionProof(log, i)
  <2> DEFINE half == IF i < k THEN lo ELSE hi
             rest == IF i < k THEN hi ELSE lo
             h    == IF i < k THEN i ELSE i - k
             path == inclusionProof(half, h)
             joined(r, l) == IF i < k THEN hashChildren(r, l) ELSE hashChildren(l, r)
  <2>1. /\ h \in 0..(Len(half) - 1) /\ half[h + 1] = log[i + 1]
        /\ Len(half) = IF i < k THEN k ELSE n - k
    <3>1. CASE i < k
      <4>1. i + 1 \in 1..k
        BY <3>1, <1>1
      <4> QED
        BY <3>1, <4>1, <1>1, <1>2
    <3>2. CASE ~(i < k)
      <4>1. (i - k) + 1 \in 1..(n - k) /\ k + ((i - k) + 1) = i + 1
        BY <3>2, <1>1
      <4> QED
        BY <3>2, <4>1, <1>1, <1>2
    <3> QED
      BY <3>1, <3>2
  <2>2. /\ exact(half) /\ merkleRoot[rest] \in Roots
        /\ merkleRoot[log] = joined(merkleRoot[half], merkleRoot[rest])
    BY <1>3, <1>5, <1>6
  <2>3. inclusionProof(log, i) = Append(path, merkleRoot[rest])
    <3>1. path = auditPaths[half][h]
      BY <2>1 DEF inclusionProof
    <3> QED
      BY <1>4, <3>1
  <2>4. ASSUME NEW d, NEW q \in Seq(Roots), NEW last \in Roots
        PROVE  LET sub == recomputeRoot(hashLeaf(d), h, Len(half), q)
               IN  recomputeRoot(hashLeaf(d), i, n, Append(q, last)) =
                     IF sub = <<>> THEN <<>> ELSE <<joined(sub[1], last)>>
    <3> DEFINE sub == recomputeRoot(hashLeaf(d), h, Len(half), q)
    <3>1. sub = recomputeRoot(hashLeaf(d), IF i < k THEN i ELSE i - k, IF i < k THEN k ELSE n - k, q)
      BY <2>1
    <3>2. recomputeRoot(hashLeaf(d), i, n, Append(q, last)) =
            IF sub = <<>> THEN <<>>
            ELSE IF i < k THEN <<hashChildren(sub[1], last)>> ELSE <<hashChildren(last, sub[1])>>
      <4> HIDE DEF sub
      <4> QED
        BY <1>1, <3>1, WalksOfHalf DEF k
    <3> HIDE DEF sub
    <3> QED
      BY <3>2 DEF sub
  <2>5. \A a : <<a>>[1] = a /\ <<a>> # <<>>
    OBVIOUS
  <2>6. /\ path \in Seq(Roots)
        /\ recomputeRoot(hashLeaf(log[i + 1]), h, Len(half), path) = <<merkleRoot[half]>>
        /\ \A d, p : p \in Seq(Roots) /\ recomputeRoot(hashLeaf(d), h, Len(half), p) = <<merkleRoot[half]>>
                     => d = log[i + 1] /\ p = path
    BY <2>1, <2>2 DEF exact
  <2>7. \A a, b, c, d : joined(a, b) = joined(c, d) => a = c /\ b = d
    BY HashesAreTerms
  <2> HIDE DEF half, rest, h, path, joined
  <2>8. recomputeRoot(hashLeaf(log[i + 1]), i, n, inclusionProof(log, i)) = <<merkleRoot[log]>>
    BY <2>2, <2>3, <2>4, <2>5, <2>6
  <2>9. inclusionProof(log, i) \in Seq(Roots)
    BY <2>2, <2>3, <2>6
  <2>10. ASSUME NEW d, NEW p \in Seq(Roots), recomputeRoot(hashLeaf(d), i, n, p) = <<merkleRoot[log]>>
         PROVE  d = log[i + 1] /\ p = inclusionProof(log, i)
    <3>1. p # <<>>
      <4>1. recomputeRoot(hashLeaf(d), i, n, <<>>) = <<>>
        BY <1>1, WalksOfNone
      <4> QED
        BY <2>5, <2>10, <4>1
    <3>2. PICK q \in Seq(Roots), last \in Roots : p = Append(q, last)
      BY <3>1, LastOf
    <3> DEFINE sub == recomputeRoot(hashLeaf(d), h, Len(half), q)
    <3>3. recomputeRoot(hashLeaf(d), i, n, p) = IF sub = <<>> THEN <<>> ELSE <<joined(sub[1], last)>>
      BY <2>4, <3>2
    <3>4. sub = <<>> \/ sub = <<sub[1]>>
      BY <2>5, RecomputeIs DEF yield
    <3> HIDE DEF sub
    <3>5. sub # <<>> /\ joined(sub[1], last) = joined(merkleRoot[half], merkleRoot[rest])
      BY <2>2, <2>5, <2>10, <3>3
    <3>6. sub = <<merkleRoot[half]>> /\ last = merkleRoot[rest]
      BY <2>7, <3>4, <3>5
    <3>7. d = log[i + 1] /\ q = path
      BY <2>6, <3>6 DEF sub
    <3> QED
      BY <2>3, <3>2, <3>6, <3>7
  <2> QED
    BY <2>8, <2>9, <2>10
<1> QED
  BY <1>7 DEF exact, n

LEMMA LogsAreExact == \A log \in Seq(Data) : exact(log)
<1> DEFINE upTo(m) == \A log \in Seq(Data) : Len(log) <= m => exact(log)
<1>1. ASSUME NEW log \in Seq(Data), Len(log) = 0
      PROVE  exact(log)
  <2>1. 0..(Len(log) - 1) = {}
    BY <1>1
  <2> QED
    BY <2>1 DEF exact
<1>2. ASSUME NEW m \in Nat, m = 0 \/ upTo(m - 1)
      PROVE  upTo(m)
  <2>1. ASSUME NEW log \in Seq(Data), Len(log) <= m
        PROVE  exact(log)
    <3>1. Len(log) \in Nat
      OBVIOUS
    <3>2. CASE Len(log) > 1
      <4> DEFINE k == largestPowerOfTwoLessThan(Len(log))
      <4>1. k \in Nat /\ k >= 1 /\ k < Len(log)
        BY <3>1, <3>2, SplitIs, PowersAre
      <4>2. /\ leftOf(log) \in Seq(Data) /\ Len(leftOf(log)) = k
            /\ rightOf(log) \in Seq(Data) /\ Len(rightOf(log)) = Len(log) - k
        BY <3>2, HalvesAre
      <4> HIDE DEF k
      <4>3. m # 0 /\ k <= m - 1 /\ Len(log) - k <= m - 1
        BY <2>1, <3>1, <3>2, <4>1
      <4>4. exact(leftOf(log)) /\ exact(rightOf(log))
        BY <1>2, <4>2, <4>3
      <4> QED
        BY <3>2, <4>4, ExactOfMore
    <3>3. CASE Len(log) = 1
      BY <3>3, ExactOfOne
    <3>4. CASE Len(log) = 0
      BY <3>4, <1>1
    <3> QED
      BY <3>1, <3>2, <3>3, <3>4, FewOrMore
  <2> QED
    BY <2>1
<1>3. ASSUME NEW n \in Nat
      PROVE  upTo(n)
  <2> DEFINE good == {m \in 0..n : upTo(m)}
  <2> HIDE DEF upTo
  <2>1. 0 \in good /\ \A m \in 1..n : m - 1 \in good => m \in good
    BY <1>2
  <2>2. n \in 0..n
    OBVIOUS
  <2>3. 0..n \subseteq good
    <3> HIDE DEF good
    <3> QED
      BY <2>1, Induct
  <2> QED
    BY <2>2, <2>3
<1> QED
  <2>1. \A log \in Seq(Data) : Len(log) \in Nat /\ Len(log) <= Len(log)
    OBVIOUS
  <2> QED
    BY <1>3, <2>1

-----------------------------------------------------------------------------
(* The log's states.                                                       *)
\* A record is of a log that was signed: its last entry, with its path.
handedOut(r, log, heads) ==
  /\ log \in Seq(Data) /\ Len(log) > 0 /\ CheckpointOf(log) \in heads
  /\ r.checkpoint = CheckpointOf(log) /\ r.data = log[Len(log)]
  /\ r.index = Len(log) - 1 /\ r.proof = inclusionProof(log, Len(log) - 1)

LogInv ==
  /\ entries \in Seq(Data)
  /\ \A r \in records : \E log : handedOut(r, log, signed)

LEMMA LogInvInit == LogInit => LogInv
BY DEF LogInit, LogInv

LEMMA LogInvStep == LogInv /\ [LogNext]_logVars => LogInv'
<1> SUFFICES ASSUME LogInv, [LogNext]_logVars PROVE LogInv'
  OBVIOUS
<1> USE DEF LogInv
<1>1. ASSUME signed \subseteq signed'
      PROVE  \A r, log : handedOut(r, log, signed) => handedOut(r, log, signed')
  BY <1>1 DEF handedOut, CheckpointOf
<1>2. CASE UNCHANGED logVars
  BY <1>1, <1>2 DEF logVars
<1>3. ASSUME NEW d \in Data, AppendEntry(d)
      PROVE  LogInv'
  <2> DEFINE log == Append(entries, d)
             r == [data |-> d, index |-> Len(entries), checkpoint |-> CheckpointOf(log),
                   proof |-> inclusionProof(log, Len(entries))]
  <2>1. /\ entries' = log /\ signed' = signed \cup {CheckpointOf(log)}
        /\ records' = records \cup {r}
    BY <1>3 DEF AppendEntry
  <2>2. /\ log \in Seq(Data) /\ Len(log) > 0 /\ Len(entries) = Len(log) - 1 /\ log[Len(log)] = d
    OBVIOUS
  <2>3. /\ r.data = d /\ r.index = Len(entries) /\ r.checkpoint = CheckpointOf(log)
        /\ r.proof = inclusionProof(log, Len(entries))
    OBVIOUS
  <2> HIDE DEF log, r
  <2>4. handedOut(r, log, signed')
    <3>1. CheckpointOf(log) \in signed'
      BY <2>1
    <3> QED
      BY <3>1, <2>2, <2>3 DEF handedOut
  <2>5. ASSUME NEW x \in records'
        PROVE  \E l : handedOut(x, l, signed')
    BY <1>1, <2>1, <2>4, <2>5
  <2> QED
    BY <2>1, <2>2, <2>5
<1>4. ASSUME NEW d \in Data, AppendUnsigned(d)
      PROVE  LogInv'
  <2>1. entries' = Append(entries, d) /\ signed' = signed /\ records' = records
    BY <1>4 DEF AppendUnsigned
  <2>2. Append(entries, d) \in Seq(Data)
    OBVIOUS
  <2> QED
    BY <1>1, <2>1, <2>2
<1>5. CASE SignHead
  BY <1>1, <1>5 DEF SignHead
<1>6. CASE Reopen
  <2>1. entries' = <<>> /\ signed' = signed /\ records' = records
    BY <1>6 DEF Reopen
  <2> QED
    BY <1>1, <2>1
<1> QED
  BY <1>2, <1>3, <1>4, <1>5, <1>6 DEF LogNext

LEMMA CheckpointIs ==
  ASSUME NEW log
  PROVE  CheckpointOf(log).size = Len(log) /\ CheckpointOf(log).root = merkleRoot[log]
BY DEF CheckpointOf

LEMMA LoggedVerify == LogInv => EveryRecordVerifies
<1> SUFFICES ASSUME LogInv, NEW r \in records PROVE VerifyInclusion(r, r.data)
  BY DEF EveryRecordVerifies
<1>1. PICK log : handedOut(r, log, signed)
  BY DEF LogInv
<1> DEFINE n == Len(log)
           i == n - 1
<1>2. log \in Seq(Data) /\ n \in Nat /\ n > 0 /\ i \in 0..(n - 1) /\ i + 1 = n
  BY <1>1 DEF handedOut
<1>3. recomputeRoot(hashLeaf(log[i + 1]), i, n, inclusionProof(log, i)) = <<merkleRoot[log]>>
  <2>1. exact(log)
    BY <1>2, LogsAreExact
  <2> QED
    BY <1>2, <2>1 DEF exact
<1>4. /\ r.checkpoint \in signed /\ r.checkpoint.size = n /\ r.checkpoint.root = merkleRoot[log]
      /\ r.data = log[n] /\ r.index = i /\ r.proof = inclusionProof(log, i)
  BY <1>1, CheckpointIs DEF handedOut
<1> HIDE DEF n, i
<1>5. verifyInclusion(r.data, r.index, r.checkpoint.size, r.proof, r.checkpoint.root)
  BY <1>2, <1>3, <1>4 DEF verifyInclusion
<1> QED
  BY <1>4, <1>5 DEF VerifyInclusion

LEMMA OthersDoNot == LogInv => OnlyTheLoggedVerifies
<1> SUFFICES ASSUME LogInv, NEW d, NEW i \in 0 .. Len(entries), NEW p \in BoundedSeq(SubtreeHashes, 3),
                    verifyInclusion(d, i, Len(entries), p, merkleRoot[entries])
             PROVE  i < Len(entries) /\ entries[i + 1] = d /\ p = inclusionProof(entries, i)
  BY DEF OnlyTheLoggedVerifies
<1> DEFINE n == Len(entries)
<1>1. entries \in Seq(Data) /\ n \in Nat /\ exact(entries)
  BY LogsAreExact DEF LogInv
<1>2. SubtreeHashes \subseteq Roots
  <2>1. \A a \in 1..n, b \in 1..n : SubSeq(entries, a, b) \in Seq(Data)
    BY <1>1
  <2>2. \A l \in Seq(Data) : merkleRoot[l] \in Roots
    BY DEF Roots
  <2>3. ASSUME NEW x \in SubtreeHashes
        PROVE  x \in Roots
    <3>1. PICK a \in 1..n, b \in 1..n : x = merkleRoot[SubSeq(entries, a, b)]
      BY DEF SubtreeHashes
    <3> QED
      BY <2>1, <2>2, <3>1
  <2> QED
    BY <2>3
<1>3. p \in Seq(Roots)
  <2>1. PICK m \in 0..3 : p \in [1..m -> SubtreeHashes]
    BY DEF BoundedSeq, SeqOf
  <2>2. m \in Nat /\ p \in [1..m -> Roots]
    BY <1>2, <2>1
  <2> QED
    BY <2>2
<1>4. i \in 0..(n - 1) /\ recomputeRoot(hashLeaf(d), i, n, p) = <<merkleRoot[entries]>>
  BY DEF verifyInclusion
<1>5. d = entries[i + 1] /\ p = inclusionProof(entries, i)
  BY <1>1, <1>3, <1>4 DEF exact
<1> QED
  BY <1>1, <1>4, <1>5

\* For every log, whatever is appended, fails to be signed or is started anew: what
\* the log hands out verifies, and under a signed head nothing else does, in any tree
\* (merkle.go, translog.go:75 and 119-125).
THEOREM InclusionsAreExact == LogSpec => []InclusionIsExact
<1>1. LogInv => InclusionIsExact
  BY LoggedVerify, OthersDoNot DEF InclusionIsExact
<1> QED
  BY <1>1, LogInvInit, LogInvStep, PTL DEF LogSpec
=============================================================================
