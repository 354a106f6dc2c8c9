---------------------------- MODULE AdmissionGate ----------------------------
(***************************************************************************)
(* The validating webhook (admission/server.go, review.go) over a compiled *)
(* policy (policy/engine.go, decision.go, waiver.go).  A review evaluates  *)
(* the policy once per container image and aggregates the results.  What a *)
(* match expression yields for an image, and which active waiver covers    *)
(* which rule for which image, is data of the request.                     *)
(***************************************************************************)
EXTENDS Naturals, Sequences, FiniteSets

CONSTANTS
    Rules,   \* the rule ids of the policy
    Images,  \* image references; the empty reference of a workload without images is one
    Modes, FailOpen  \* policy modes and values of --fail-open considered

ASSUME GateAssumption ==
    IsFiniteSet(Images) /\ Modes \subseteq {"enforce", "audit"} /\ FailOpen \subseteq BOOLEAN

VARIABLES
    effect, mode, failOpen,  \* the compiled policy and the flag
    yields,   \* image -> rule -> "match", "no" or "error"
    waives,   \* image -> the rules an active waiver in scope covers
    phase,    \* idle, deciding, answered
    todo,     \* images still to evaluate
    verdict, denials, evalErr,  \* the aggregate decision
    answer    \* the response: none, admit, deny, and how it was reached

policy == <<effect, mode, failOpen>>
request == <<yields, waives>>
decision == <<verdict, denials, evalErr>>
vars == <<policy, request, phase, todo, decision, answer>>

NoYield == [i \in Images |-> [r \in Rules |-> "no"]]
NoWaiver == [i \in Images |-> {}]
NoAnswer == [allowed |-> FALSE, reason |-> "none"]

Init ==
    /\ effect \in [Rules -> {"deny", "warn", "allow"}]
    /\ mode \in Modes /\ failOpen \in FailOpen
    /\ yields = NoYield /\ waives = NoWaiver /\ phase = "idle" /\ todo = <<>>
    /\ verdict = "allow" /\ denials = {} /\ evalErr = FALSE /\ answer = NoAnswer

(***************************************************************************)
(*                     Engine.Evaluate, for one image                      *)
(***************************************************************************)
errored(i) == {r \in Rules : yields[i][r] = "error"}

\* Waivers.apply: only a matched deny or warn rule can be waived.
waived(i) == {r \in waives[i] : yields[i][r] = "match" /\ effect[r] # "allow"}

fires(i, e) == \E r \in Rules \ waived(i) : yields[i][r] = "match" /\ effect[r] = e

\* Variant: an explicit allow is looked at first.
decideAllowFirst(i) ==
    IF fires(i, "allow") THEN IF fires(i, "warn") THEN "warn" ELSE "allow"
    ELSE IF errored(i) # {} THEN IF mode = "enforce" THEN "deny" ELSE "warn"
    ELSE IF mode = "enforce" /\ fires(i, "deny") THEN "deny"
    ELSE IF fires(i, "warn") \/ fires(i, "deny") THEN "warn" ELSE "allow"

\* decide: the first of these that holds.
decide(i) ==
    IF errored(i) # {} THEN IF mode = "enforce" THEN "deny" ELSE "warn"
    ELSE IF fires(i, "allow") THEN IF fires(i, "warn") THEN "warn" ELSE "allow"
    ELSE IF mode = "enforce" /\ fires(i, "deny") THEN "deny"
    ELSE IF fires(i, "warn") \/ fires(i, "deny") THEN "warn" ELSE "allow"

\* RuleResult.blocking: an unwaived deny, or an error.
blocking(i) ==
    {r \in Rules \ waived(i) : yields[i][r] = "error" \/ (yields[i][r] = "match" /\ effect[r] = "deny")}

Denials(i) == IF decide(i) = "deny" THEN blocking(i) ELSE {}

(***************************************************************************)
(*                        Reviewer.Review, by steps                        *)
(***************************************************************************)
Respond(allowed, reason) == answer' = [allowed |-> allowed, reason |-> reason]

\* onError: a body too large, not a review, without a request, or with an
\* object that does not parse.
BadReview ==
    /\ phase = "idle" /\ phase' = "answered"
    /\ Respond(failOpen, "unreadable")
    /\ UNCHANGED <<policy, request, todo, decision>>

startVerdict == "allow"

Receive ==
    /\ phase = "idle" /\ phase' = "deciding"
    /\ yields' \in [Images -> [Rules -> {"match", "no", "error"}]]
    /\ waives' \in [Images -> SUBSET Rules]
    /\ todo' \in {s \in [1..Cardinality(Images) -> Images] : \A i \in Images : \E k \in DOMAIN s : s[k] = i}
    /\ verdict' = startVerdict /\ denials' = {} /\ evalErr' = FALSE
    /\ Respond(FALSE, "none")
    /\ UNCHANGED policy

\* Variant: the last image decides.
mergeLast(old, new) == new

\* decision: a warning does not replace a denial.
merge(old, new) ==
    IF new = "deny" \/ (new = "warn" /\ old # "deny") THEN new ELSE old

\* One image of the loop in Reviewer.decide.
EvaluateImage ==
    /\ phase = "deciding" /\ todo # <<>>
    /\ LET i == Head(todo) IN
       /\ verdict' = merge(verdict, decide(i))
       /\ denials' = denials \cup {<<i, r>> : r \in Denials(i)}
       /\ evalErr' = (evalErr \/ Denials(i) \cap errored(i) # {})
    /\ todo' = Tail(todo)
    /\ UNCHANGED <<policy, request, phase, answer>>

\* toResponse: fail-open turns a denial with an evaluation error into an
\* admission.
rescued == verdict = "deny" /\ evalErr /\ failOpen

Answer ==
    /\ phase = "deciding" /\ todo = <<>> /\ phase' = "answered"
    /\ IF rescued THEN Respond(TRUE, "rescued") ELSE Respond(verdict # "deny", "decided")
    /\ UNCHANGED <<policy, request, todo, decision>>

\* The handler returns; the reviewer keeps nothing of the request.
Return ==
    /\ phase = "answered" /\ phase' = "idle"
    /\ yields' = NoYield /\ waives' = NoWaiver /\ answer' = NoAnswer
    /\ verdict' = "allow" /\ denials' = {} /\ evalErr' = FALSE
    /\ UNCHANGED <<policy, todo>>

Next == BadReview \/ Receive \/ EvaluateImage \/ Answer \/ Return

Spec == Init /\ [][Next]_vars

(***************************************************************************)
(*                               Properties                                *)
(***************************************************************************)
evaluated == phase = "answered" /\ answer.reason # "unreadable"
cleanlyDenied(i) == errored(i) = {} /\ ~fires(i, "allow") /\ fires(i, "deny")

\* Every variable keeps its type.
TypeOK ==
    /\ effect \in [Rules -> {"deny", "warn", "allow"}] /\ mode \in Modes /\ failOpen \in FailOpen
    /\ yields \in [Images -> [Rules -> {"match", "no", "error"}]]
    /\ waives \in [Images -> SUBSET Rules]
    /\ phase \in {"idle", "deciding", "answered"}
    /\ todo \in Seq(Images) /\ verdict \in {"allow", "warn", "deny"}
    /\ denials \subseteq Images \X Rules /\ evalErr \in BOOLEAN
    /\ answer \in [allowed : BOOLEAN, reason : {"none", "unreadable", "rescued", "decided"}]

\* A policy that could not be evaluated for one image denies the workload: no
\* waiver, explicit allow or later image rescues it, only --fail-open.
ErrorsFailClosed ==
    evaluated /\ mode = "enforce" /\ ~failOpen /\ (\E i \in Images : errored(i) # {})
       => ~answer.allowed

\* One denied image denies the workload, in whatever order the images come.
OneDeniedImageDenies ==
    evaluated /\ mode = "enforce" /\ ~failOpen /\ (\E i \in Images : cleanlyDenied(i))
       => ~answer.allowed

\* toResponse: "Fail-open only rescues internal evaluation errors, never a
\* clean deny".
CleanDenyIsNeverAdmitted ==
    evaluated /\ mode = "enforce" /\ (\E i \in Images : cleanlyDenied(i)) => ~answer.allowed
=============================================================================
