---------------------------- MODULE ScanQueries ----------------------------
(***************************************************************************)
(* What the scan store answers from its index (query.go): where a          *)
(* component is, which findings there are, what was last seen of an image  *)
(* and how that changed.  The index is a Go map, which is iterated in any  *)
(* order: a query takes the scans as a sequence, one of their             *)
(* enumerations.                                                           *)
(*                                                                         *)
(* A scan is [id, image, at, owner, findings, components]; an id stands    *)
(* for the hash computeID makes and is ordered as a number.                *)
(***************************************************************************)
EXTENDS Naturals, Sequences, SequencesExt, FiniteSets, FiniteSetsExt

CONSTANT NameOrder  \* images, rules, versions and resources, in the order of Go's strings

Rank(n) == Max({i \in DOMAIN NameOrder : NameOrder[i] = n} \cup {0})

\* sort.SliceStable: an element goes behind those that are less and behind the
\* equal ones it followed.
stableSort(s, less(_, _)) ==
  LET place(i) == 1 + Cardinality({j \in DOMAIN s :
                        less(s[j], s[i]) \/ (j < i /\ ~less(s[i], s[j]))})
  IN [k \in DOMAIN s |-> s[CHOOSE i \in DOMAIN s : place(i) = k]]

\* Compare the first of two keys that differ.
before(a, b, keys(_)) ==
  \E k \in DOMAIN keys(a) : keys(a)[k] < keys(b)[k] /\ \A j \in 1..(k - 1) : keys(a)[j] = keys(b)[j]

\* sortScans: the newest first, then by id.
newestFirst(a, b) == a.at > b.at \/ (a.at = b.at /\ a.id < b.id)
sortScans(scans) == stableSort(scans, newestFirst)

\* Component names are matched in lower case: Put stores them so.
lower(name) == [name EXCEPT !.upper = FALSE]
normalize(sc) == [sc EXCEPT !.components = {[c EXCEPT !.name = lower(@)] : c \in @}]

(***************************************************************************)
(*                                 Queries                                 *)
(***************************************************************************)
\* Variant: the first scan of an image that the iteration meets is kept.
firstPerImage(scans) ==
  LET best == {i \in DOMAIN scans : \A j \in 1..(i - 1) : scans[j].image # scans[i].image}
  IN sortScans(SetToSeq({scans[i] : i \in best}))

\* The newest scan of each image, of several with one time the one with the
\* greatest id.
latestPerImage(scans) ==
  LET worse(a, b) == a.image = b.image /\ (a.at < b.at \/ (a.at = b.at /\ a.id < b.id))
      best == {s \in Range(scans) : \A t \in Range(scans) : ~worse(s, t)}
  IN sortScans(SetToSeq(best))

\* q = [any, name, version, latest]; any stands for an empty name.
matches(q, c) == (q.any \/ c.name = lower(q.name)) /\ (q.version = "" \/ c.version = q.version)

QueryComponent(scans, q) ==
  LET pool == IF q.latest THEN latestPerImage(scans) ELSE scans
      hits(sc) == LET found == SetToSeq({c \in sc.components : matches(q, c)})
                  IN [i \in DOMAIN found |-> [image |-> sc.image, version |-> found[i].version,
                                              scan |-> sc.id, at |-> sc.at, owner |-> sc.owner]]
      keys(h) == <<Rank(h.image), Rank(h.version)>>
      less(a, b) == before(a, b, keys) \/ (keys(a) = keys(b) /\ a.at > b.at)
  IN stableSort(FlattenSeq([i \in DOMAIN pool |-> hits(pool[i])]), less)

\* q = [image, rule, min]: "" and 0 filter nothing.  0 is also what a severity
\* that is not a known name parses to.
QueryFindings(scans, q) ==
  LET wanted(sc) == q.image \in {"", sc.image}
      chosen(f) == q.rule \in {"", f.rule} /\ f.severity >= q.min
      hits(sc) == LET found == SelectSeq(sc.findings, chosen)
                  IN [i \in DOMAIN found |-> [image |-> sc.image, scan |-> sc.id, finding |-> found[i]]]
      pool == SelectSeq(scans, wanted)
      keys(h) == <<9 - h.finding.severity, Rank(h.image), Rank(h.finding.rule)>>
      less(a, b) == before(a, b, keys)
  IN stableSort(FlattenSeq([i \in DOMAIN pool |-> hits(pool[i])]), less)

severityCounts(sc) == [s \in 1..5 |-> Cardinality({i \in DOMAIN sc.findings : sc.findings[i].severity = s})]

\* One row per image from its newest scan, those with most critical and high
\* findings first.
Inventory(scans) ==
  LET of(image) == LET mine(sc) == sc.image = image IN sortScans(SelectSeq(scans, mine))
      row(image) == [image |-> image, owner |-> of(image)[1].owner, at |-> of(image)[1].at,
                     scans |-> Len(of(image)), components |-> Cardinality(of(image)[1].components),
                     counts |-> severityCounts(of(image)[1])]
      rows == {row(sc.image) : sc \in Range(scans)}
      keys(r) == <<99 - r.counts[5] - r.counts[4], Rank(r.image)>>
      less(a, b) == before(a, b, keys)
  IN stableSort(SetToSeq(rows), less)

\* The scans of an image, the oldest first.
Trends(scans, image) ==
  LET mine(sc) == image \in {"", sc.image}
      older(a, b) == a.at < b.at \/ (a.at = b.at /\ a.id < b.id)
      line == stableSort(SelectSeq(scans, mine), older)
  IN [i \in DOMAIN line |-> [scan |-> line[i].id, at |-> line[i].at, counts |-> severityCounts(line[i])]]

(***************************************************************************)
(*                         Explanations and plans                          *)
(***************************************************************************)
\* explain.go: the family of rules an id belongs to by its prefix, which decides
\* the default fix and the effort.
effortOf == [DF |-> "low", IMG |-> "medium", VULN |-> "medium", SBOM |-> "low", SEC |-> "high",
             CIS |-> "medium", K8S |-> "medium", RBAC |-> "medium", ATK |-> "high", SIG |-> "medium",
             NET |-> "medium", PLT |-> "low"]
classify(area) == IF area \in DOMAIN effortOf THEN area ELSE "generic"

\* What a finding says itself about its repair comes first.
Explain(f) ==
  LET class == classify(f.area) IN
  [rule |-> f.rule, severity |-> f.severity, category |-> class,
   steps |-> IF f.fix = "" THEN class ELSE f.fix,
   effort |-> IF class \in DOMAIN effortOf THEN effortOf[class] ELSE "medium",
   confidence |-> IF f.line > 0 THEN "high" ELSE IF f.resource # "" THEN "medium" ELSE "low"]

\* The worst first; the priority is the place.
BuildPlan(target, findings) ==
  LET keys(f) == <<9 - f.severity, Rank(f.rule), Rank(f.resource)>>
      less(a, b) == before(a, b, keys)
      sorted == stableSort(findings, less)
  IN [target |-> target,
      actions |-> [i \in DOMAIN sorted |-> [priority |-> i, explained |-> Explain(sorted[i])]]]
=============================================================================
