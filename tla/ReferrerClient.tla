-------------------------- MODULE ReferrerClient --------------------------
(***************************************************************************)
(* Attaching a bundle to an image and finding it again: the registry       *)
(* client's PutReferrer and Referrers (internal/registry/referrers.go,     *)
(* client.go) and the verify module's fetchBundleFromRegistry, request by  *)
(* request, against a registry that answers, loses requests or serves      *)
(* damaged content.                                                        *)
(*                                                                         *)
(* One subject image.  A bundle stands for its blob, for the manifest that *)
(* refers to it and for their digests.  The registry is modelled after     *)
(* internal/registry/memory.go, which lists the referrers by digest.       *)
(***************************************************************************)
EXTENDS Naturals, Sequences, SequencesExt

CONSTANTS
  Bundles,    \* what is pushed
  Foreign,    \* bundles another tool attached, with the fallback tag
  APIs,       \* whether the registry answers GET .../referrers/: BOOLEAN or a part of it
  Bearers,    \* whether it wants a bearer token: likewise
  NoBundle,   \* nil
  MaxFaults   \* bound: requests lost or answered with an error

VARIABLES
  hasAPI, bearer, \* the registry
  blobs,      \* artifact blobs the registry holds
  config,     \* it holds the empty config blob
  manifests,  \* bundles whose referrer manifest it holds
  tagged,     \* the index under the fallback tag
  push,       \* per bundle, where PutReferrer is
  fetch,      \* the reader: its step, the descriptors left, its result, which
              \* bundles were attached when it began and which a fault hid since
  faults

vars == <<hasAPI, bearer, blobs, config, manifests, tagged, push, fetch, faults>>

PushSteps == {"new", "artifact", "upload artifact", "config", "upload config",
              "manifest", "done", "failed"}
FetchSteps == {"idle", "referrers", "tag", "manifest", "blob"}
Results == Bundles \cup Foreign \cup {NoBundle, "error", "none yet"}

Init ==
  /\ hasAPI \in APIs /\ bearer \in Bearers
  /\ blobs = Foreign /\ config = FALSE /\ manifests = Foreign
  /\ tagged = IF hasAPI THEN {} ELSE Foreign
  /\ push = [b \in Bundles |-> "new"]
  /\ fetch = [step |-> "idle", todo |-> <<>>, result |-> "none yet", acked |-> {}, hidden |-> {}]
  /\ faults = 0

-----------------------------------------------------------------------------
(* PutReferrer *)

\* The artifact blob, the config blob and the manifest, in this order; a blob is
\* a POST for an upload location and a PUT to it.
nextStep(s) ==
  CASE s = "new" -> "artifact"
    [] s = "artifact" -> "upload artifact"
    [] s = "upload artifact" -> "config"
    [] s = "config" -> "upload config"
    [] s = "upload config" -> "manifest"
    [] s = "manifest" -> "done"

\* do() answers a bearer challenge; the PUT of a blob and of a manifest are sent
\* without, so a registry that wants a token refuses them.
refusedPut(s) == bearer /\ s \in {"upload artifact", "upload config", "manifest"}

advance(b, s) == push' = [push EXCEPT ![b] = s]

\* One request of PutReferrer, answered as asked.
PutStep(b) ==
  LET s == push[b]
  IN  /\ s \notin {"done", "failed"} /\ ~refusedPut(s)
      /\ advance(b, nextStep(s))
      /\ blobs' = IF s = "upload artifact" THEN blobs \cup {b} ELSE blobs
      /\ config' = (config \/ s = "upload config")
      /\ manifests' = IF s = "manifest" THEN manifests \cup {b} ELSE manifests
      /\ UNCHANGED <<hasAPI, bearer, tagged, fetch, faults>>

PutRefused(b) ==
  /\ push[b] \notin {"done", "failed"} /\ refusedPut(push[b])
  /\ advance(b, "failed")
  /\ UNCHANGED <<hasAPI, bearer, blobs, config, manifests, tagged, fetch, faults>>

\* A request fails, before or after it took effect: PutReferrer returns the error.
PutFault(b) ==
  /\ push[b] \notin {"new", "done", "failed"} /\ faults < MaxFaults
  /\ faults' = faults + 1
  /\ advance(b, "failed")
  /\ blobs' \in {blobs} \cup {blobs \cup {b} : s \in {push[b]} \cap {"upload artifact"}}
  /\ config' \in {config, config \/ push[b] = "upload config"}
  /\ manifests' \in {manifests} \cup {manifests \cup {b} : s \in {push[b]} \cap {"manifest"}}
  /\ UNCHANGED <<hasAPI, bearer, tagged, fetch>>

-----------------------------------------------------------------------------
(* fetchBundleFromRegistry *)

acked == {b \in Bundles : push[b] = "done"} \cup Foreign

StartFetch ==
  /\ fetch.step = "idle"
  /\ fetch' = [step |-> "referrers", todo |-> <<>>, result |-> "none yet", acked |-> acked,
                hidden |-> {}]
  /\ UNCHANGED <<hasAPI, bearer, blobs, config, manifests, tagged, push, faults>>

answerWithout(hidden, result) ==
  fetch' = [fetch EXCEPT !.step = "idle", !.todo = <<>>, !.result = result, !.hidden = hidden]
answer(result) == answerWithout(fetch.hidden, result)

\* The descriptors of an index, in the order of their digests, which may be any;
\* an empty index is nil.
listed(index) ==
  IF index = {} THEN answer(NoBundle)
  ELSE \E order \in SetToSeqs(index) :
         fetch' = [fetch EXCEPT !.step = "manifest", !.todo = order]

\* The referrers API.
GetReferrers ==
  /\ fetch.step = "referrers" /\ hasAPI
  /\ listed(manifests)
  /\ UNCHANGED <<hasAPI, bearer, blobs, config, manifests, tagged, push, faults>>

\* Variant: 404 is an empty list.
NoReferrersAPIMeansNone ==
  /\ fetch.step = "referrers" /\ ~hasAPI
  /\ answer(NoBundle)
  /\ UNCHANGED <<hasAPI, bearer, blobs, config, manifests, tagged, push, faults>>

\* 404: the fallback tag.
NoReferrersAPI ==
  /\ fetch.step = "referrers" /\ ~hasAPI
  /\ fetch' = [fetch EXCEPT !.step = "tag"]
  /\ UNCHANGED <<hasAPI, bearer, blobs, config, manifests, tagged, push, faults>>

GetTag ==
  /\ fetch.step = "tag"
  /\ listed(tagged)
  /\ UNCHANGED <<hasAPI, bearer, blobs, config, manifests, tagged, push, faults>>

\* The next descriptor; without one, nil.
skip(hidden) ==
  IF Len(fetch.todo) = 1 THEN answerWithout(hidden, NoBundle)
  ELSE fetch' = [fetch EXCEPT !.step = "manifest", !.todo = Tail(@), !.hidden = hidden]

GetManifest ==
  /\ fetch.step = "manifest"
  /\ fetch' = [fetch EXCEPT !.step = "blob"]
  /\ UNCHANGED <<hasAPI, bearer, blobs, config, manifests, tagged, push, faults>>

GetBlob ==
  /\ fetch.step = "blob"
  /\ IF Head(fetch.todo) \in blobs THEN answer(Head(fetch.todo)) ELSE skip(fetch.hidden)
  /\ UNCHANGED <<hasAPI, bearer, blobs, config, manifests, tagged, push, faults>>

\* The referrers request fails: an error.
ListFault ==
  /\ fetch.step = "referrers" /\ faults < MaxFaults
  /\ faults' = faults + 1
  /\ answer("error")
  /\ UNCHANGED <<hasAPI, bearer, blobs, config, manifests, tagged, push>>

\* Any error of the tag request is taken for a subject without referrers.
TagFault ==
  /\ fetch.step = "tag" /\ faults < MaxFaults
  /\ faults' = faults + 1
  /\ answerWithout(tagged, NoBundle)
  /\ UNCHANGED <<hasAPI, bearer, blobs, config, manifests, tagged, push>>

\* A manifest or blob that is not served, or does not hash to its digest, is
\* passed over.
ContentFault ==
  /\ fetch.step \in {"manifest", "blob"} /\ faults < MaxFaults
  /\ faults' = faults + 1
  /\ skip(fetch.hidden \cup {Head(fetch.todo)})
  /\ UNCHANGED <<hasAPI, bearer, blobs, config, manifests, tagged, push>>

Next ==
  \/ \E b \in Bundles : PutStep(b) \/ PutRefused(b) \/ PutFault(b)
  \/ StartFetch \/ GetReferrers \/ NoReferrersAPI \/ GetTag
  \/ GetManifest \/ GetBlob \/ ListFault \/ TagFault \/ ContentFault

Spec == Init /\ [][Next]_vars

-----------------------------------------------------------------------------
TypeOK ==
  /\ hasAPI \in BOOLEAN /\ bearer \in BOOLEAN
  /\ blobs \subseteq Bundles \cup Foreign /\ manifests \subseteq Bundles \cup Foreign
  /\ tagged \subseteq Foreign /\ config \in BOOLEAN
  /\ push \in [Bundles -> PushSteps]
  /\ fetch.step \in FetchSteps /\ fetch.result \in Results
  /\ Range(fetch.todo) \subseteq manifests \cup tagged
  /\ fetch.step \in {"manifest", "blob"} <=> fetch.todo # <<>>
  /\ fetch.acked \subseteq Bundles \cup Foreign /\ fetch.hidden \subseteq Bundles \cup Foreign
  /\ faults \in 0 .. MaxFaults

\* A referrer anyone can list has its blobs, whatever became of the push: a reader
\* between two requests of it never finds half an artifact (referrers.go:83-95).  And
\* a push that reported success is listed (referrers.go:112-120).
ListedIsComplete ==
  /\ manifests \subseteq blobs
  /\ manifests \cap Bundles # {} => config
  /\ \A b \in Bundles : push[b] = "done" => b \in manifests

\* "Nothing is signed" is only answered when it is so (referrers.go:30-31, "a valid,
\* and security-relevant, answer"): when a fetch ends with nil, each of the bundles
\* that were attached when it began was hidden from it by a fault since ...
NilMeans(attached) == fetch.result = NoBundle => attached \subseteq fetch.hidden

NilMeansNone == NilMeans(fetch.acked)

\* ... where the registry has the referrers API.  Where it has not, a bundle the
\* fallback tag lists is found (referrers.go:17-20, "verification works against old
\* and new registries alike"), and what PutReferrer attached is not.
AttachedIsFound == NilMeans(IF hasAPI THEN fetch.acked ELSE fetch.acked \cap Foreign)

\* Without a fault a push succeeds (client.go:72-74, do "transparently" handles a
\* bearer challenge, and 98-99, "PUT paths pass a fresh reader via the higher-level
\* helpers").
PushFailsOnlyOnFaults == (\E b \in Bundles : push[b] = "failed") => faults > 0
=============================================================================
