-------------------------- MODULE VulnerabilityScan --------------------------
(***************************************************************************)
(* The vulnerability module of the scanner over the advisory database it   *)
(* reads: Update folds the records of the feeds into advisories, and a     *)
(* scan matches the components of an SBOM against them one after the       *)
(* other, leaves out what VEX statements and waivers cover, and proposes a *)
(* fix for the rest.  Versions are numbers; VersionOrder says how those of *)
(* each ecosystem are compared.                                            *)
(***************************************************************************)
EXTENDS Integers, Sequences, FiniteSets

CONSTANTS
  Feeds,          \* what Update reads: sequences of OSV records
  SBOMs,          \* sequences of components
  Postures,       \* [now, vex, waivers, symbols, kev, epss] of a scan
  CVEs,           \* the identifiers that are CVE numbers
  Spelling,       \* package name -> the name feeds key it by
  MaxComponents   \* maxComponents

VARIABLES
  feed, sbom, posture,
  database,       \* the advisories, in their order
  position,       \* components matched so far
  findings,
  quieted,        \* matches a statement or waiver keeps out of the report
  outcome         \* "update", "scan", "done", "truncated" or "cancelled"

scanInputs == <<feed, sbom, posture>>
vulnerabilityVars == <<scanInputs, database, position, findings, quieted, outcome>>

Unset == 0       \* no bound, no version, no clock
elements(s) == {s[i] : i \in DOMAIN s}

(***************************************************************************)
(*                          Update: records to advisories                  *)
(***************************************************************************)
aList(s) == s \in Seq(elements(s))

\* A document of a feed and a statement of OpenVEX, reduced to what is read of them;
\* a statement that names no product is about all.
anOSVRecord(r) ==
  /\ DOMAIN r = {"parses", "id", "aliases", "ecosystem", "package", "range", "severity", "symbols"}
  /\ r.parses \in BOOLEAN /\ r.severity \in Nat /\ DOMAIN r.range = {"type", "events"}
  /\ aList(r.aliases) /\ aList(r.range.events)
  /\ \A i \in DOMAIN r.range.events :
       LET e == r.range.events[i] IN DOMAIN e = {"kind", "at"} /\ e.kind \in {"introduced", "fixed", "last"} /\ e.at \in Nat

aStatement(st) ==
  /\ DOMAIN st = {"vuln", "products", "status"}
  /\ st.status \in {"not_affected", "affected", "fixed", "under_investigation"}

\* A range opens at "introduced" and closes at "fixed" or "last_affected", in the
\* order the record lists them; one left open has no upper bound.
Range(introduced, fixed, last) == [introduced |-> introduced, fixed |-> fixed, last |-> last]
NoRange == Range(Unset, Unset, Unset)

event(acc, e) ==
  CASE e.kind = "introduced" ->
         [done |-> IF acc.open THEN Append(acc.done, acc.cur) ELSE acc.done,
          cur |-> [NoRange EXCEPT !.introduced = e.at], open |-> TRUE]
    [] e.kind = "fixed" ->
         [done |-> Append(acc.done, [acc.cur EXCEPT !.fixed = e.at]), cur |-> NoRange, open |-> FALSE]
    [] e.kind = "last" ->
         [done |-> Append(acc.done, [acc.cur EXCEPT !.last = e.at]), cur |-> NoRange, open |-> FALSE]

convertOSVRanges(r) ==
  LET after[i \in 0 .. Len(r.events)] ==
        IF i = 0 THEN [done |-> <<>>, cur |-> NoRange, open |-> FALSE] ELSE event(after[i - 1], r.events[i])
      end == after[Len(r.events)]
  IN  IF r.type = "GIT" THEN {}
      ELSE elements(end.done) \cup (IF end.open THEN {end.cur} ELSE {})

mapOSVEcosystem(e) ==
  CASE e \in {"Red Hat", "AlmaLinux", "Rocky Linux"} -> "rhel"
    [] e \in {"Wolfi", "Chainguard"} -> "wolfi"
    [] e = "PyPI" -> "pypi"
    [] OTHER -> e

\* Package names of PyPI are folded; others are taken as they are.
packageName(eco, name) == IF eco = "pypi" THEN Spelling[name] ELSE name

\* A record that does not parse or has no id is skipped; so is an affected
\* package without name, ecosystem or comparable range.
usable(rec) == rec.parses /\ rec.id # ""
normalizeOSV(rec) ==
  LET eco == mapOSVEcosystem(rec.ecosystem)
      ranges == convertOSVRanges(rec.range)
  IN  IF ~usable(rec) \/ eco = "" \/ rec.package = "" \/ ranges = {} THEN <<>>
      ELSE <<[id |-> rec.id, aliases |-> rec.aliases, eco |-> eco, package |-> packageName(eco, rec.package),
              ranges |-> ranges, severity |-> rec.severity, symbols |-> rec.symbols]>>

ids(adv) == <<adv.id>> \o adv.aliases

\* The first CVE number among the ids of an advisory, else its own id.
canonicalID(names) ==
  IF elements(names) \cap CVEs = {} THEN names[1]
  ELSE names[CHOOSE i \in DOMAIN names : names[i] \in CVEs /\ \A j \in 1 .. i - 1 : names[j] \notin CVEs]

groupOf(adv) == <<adv.eco, adv.package, canonicalID(ids(adv))>>

maximum(m, n) == IF m >= n THEN m ELSE n

\* Variant: the first record of a vulnerability decides what it affects.
mergeAdvisoryFirst(dst, src) ==
  [dst EXCEPT !.aliases = @ \o ids(src), !.severity = maximum(@, src.severity)]

\* A CVE number takes the place of a primary id that is none.
mergeAdvisory(dst, src) ==
  LET promote == dst.id \notin CVEs /\ src.id \in CVEs
  IN  [dst EXCEPT !.id = IF promote THEN src.id ELSE @,
                  !.aliases = @ \o ids(src) \o (IF promote THEN <<dst.id>> ELSE <<>>),
                  !.ranges = @ \cup src.ranges,
                  !.severity = maximum(@, src.severity),
                  !.symbols = @ \cup src.symbols]

\* Groups keep their key while their primary id changes.
place(groups, adv) ==
  LET same == {i \in DOMAIN groups : groups[i].key = groupOf(adv)}
  IN  IF same = {} THEN Append(groups, [key |-> groupOf(adv), adv |-> adv])
      ELSE [i \in DOMAIN groups |->
              IF i \in same THEN [groups[i] EXCEPT !.adv = mergeAdvisory(@, adv)] ELSE groups[i]]

mergeByAlias(records) ==
  LET after[i \in 0 .. Len(records)] ==
        IF i = 0 THEN <<>>
        ELSE LET adv == normalizeOSV(records[i])
             IN  IF adv = <<>> THEN after[i - 1] ELSE place(after[i - 1], adv[1])
      groups == after[Len(records)]
  IN  [i \in DOMAIN groups |-> groups[i].adv]

Update ==
  /\ outcome = "update"
  /\ database' = mergeByAlias(feed) /\ outcome' = "scan"
  /\ UNCHANGED <<scanInputs, position, findings, quieted>>

(***************************************************************************)
(*                          The scan of an SBOM                            *)
(***************************************************************************)
NoCoord == [eco |-> "", package |-> "", version |-> Unset]

\* A component of an SBOM, with its PURL taken apart.  A PURL of a type that ParsePURL
\* does not know counts as none: the code looks such a component up by its name as
\* well, but tells it from others by the PURL.
aComponent(c) ==
  /\ DOMAIN c = {"purl", "foundBy", "name", "version", "distro"}
  /\ DOMAIN c.purl = {"eco", "package", "version"} /\ {c.version, c.purl.version} \subseteq Nat

\* Without a PURL the cataloger tells the ecosystem, or nothing can be looked up.
FromCataloger(c) ==
  IF c.foundBy \notin {"apk-db", "npm", "python"} \/ c.name = "" THEN NoCoord
  ELSE LET eco == CASE c.foundBy = "npm" -> "npm" [] c.foundBy = "python" -> "pypi" [] OTHER -> c.distro
       IN  [eco |-> eco, package |-> packageName(eco, c.name), version |-> c.version]

\* A PURL without a version takes that of the component.
coordFor(c) ==
  IF c.purl = NoCoord THEN FromCataloger(c)
  ELSE [c.purl EXCEPT !.package = packageName(c.purl.eco, @),
                      !.version = IF @ = Unset THEN c.version ELSE @]

componentIdentity(c) == IF c.purl # NoCoord THEN <<"purl", c.purl.eco, c.purl.package, c.purl.version>> ELSE <<"name", c.name, c.version>>

inRange(v, r) ==
  /\ v >= r.introduced
  /\ CASE r.fixed # Unset -> v < r.fixed
       [] r.last # Unset  -> v <= r.last
       [] OTHER -> TRUE

\* What has no version is never judged.
Vulnerable(v, ranges) == v # Unset /\ \E r \in ranges : inRange(v, r)

IndicesFor(coord) ==
  {i \in DOMAIN database : database[i].eco = coord.eco /\ database[i].package = packageName(coord.eco, coord.package)}

\* A product covers every PURL its text is a prefix of: any version if it names
\* none, and version 10 if it names version 1.  (PURLs are records here, so that a
\* package whose name extends another's is left out.)
productMatches(p, purl) ==
  p.eco = purl.eco /\ p.package = purl.package /\ p.version \in {Unset, purl.version, purl.version \div 10}

\* The first statement about one of the ids and the product decides.
about(st, adv, c) ==
  /\ st.vuln \in elements(ids(adv))
  /\ st.products = {} \/ (c.purl # NoCoord /\ \E p \in st.products : productMatches(p, c.purl))
matchVEX(adv, c) ==
  LET found == {i \in DOMAIN posture.vex : about(posture.vex[i], adv, c)}
  IN  found # {} /\ posture.vex[CHOOSE i \in found : \A j \in found : i <= j].status \in {"not_affected", "fixed"}

\* An expiry that does not parse is no expiry; without a clock none has passed.
waiverExpired(w) == w.expires # Unset /\ posture.now # Unset /\ posture.now > w.expires
matchWaiver(adv, coord) ==
  \E w \in posture.waivers :
    /\ w.vuln \in {""} \cup elements(ids(adv))
    /\ w.package \in {"", coord.package}
    /\ ~waiverExpired(w)

\* The smallest fixed version of all ranges.
FixedVersion(adv) ==
  LET fixes == {r.fixed : r \in adv.ranges} \ {Unset}
  IN  IF fixes = {} THEN Unset ELSE CHOOSE v \in fixes : \A w \in fixes : v <= w

\* Without symbols on both sides everything is reached.
NoSymbols == [have |-> FALSE, used |-> {}]
symbolsFor(c) == IF c.name \in DOMAIN posture.symbols THEN [have |-> TRUE, used |-> posture.symbols[c.name]] ELSE NoSymbols
Reached(adv, s) == adv.symbols = {} \/ ~s.have \/ adv.symbols \cap s.used # {}

isKEV(adv) == elements(ids(adv)) \cap posture.kev # {}

\* Known exploitation makes a vulnerability at least High (4 of 5).
engineSeverity(sev, kev) == IF kev /\ sev < 4 THEN 4 ELSE sev

\* The score of the first id that has one, in hundredths.
EPSSFor(names) ==
  LET scored == {i \in DOMAIN names : names[i] \in DOMAIN posture.epss}
  IN  IF scored = {} THEN 0 ELSE posture.epss[names[CHOOSE i \in scored : \A j \in scored : i <= j]]

\* In hundredths: 10 a rank, 40 for KEV, 30 times EPSS; a quarter if unreached.
computePriority(adv, reached) ==
  LET score == 1000 * adv.severity + (IF isKEV(adv) THEN 4000 ELSE 0) + 30 * EPSSFor(ids(adv))
  IN  CASE ~reached       -> "deprioritized"
        [] score >= 7000  -> "urgent"
        [] score >= 4500  -> "high"
        [] score >= 2500  -> "medium"
        [] OTHER          -> "low"

project(c, coord, adv) ==
  LET reached == Reached(adv, symbolsFor(c))
  IN  [component |-> componentIdentity(c), ids |-> elements(ids(adv)), id |-> adv.id,
       installed |-> coord.version, fix |-> FixedVersion(adv), reached |-> reached,
       severity |-> engineSeverity(adv.severity, isKEV(adv)), priority |-> computePriority(adv, reached)]

\* Of the advisories of one id that match a component the first is taken.
reported(c, i) == <<componentIdentity(c), database[i].id>>
seen == {<<f.component, f.id>> : f \in findings \cup quieted}
matchesOf(c, coord) ==
  LET hit == {i \in IndicesFor(coord) : Vulnerable(coord.version, database[i].ranges) /\ reported(c, i) \notin seen}
  IN  {i \in hit : ~\E j \in hit : j < i /\ database[j].id = database[i].id}

MatchComponent ==
  /\ outcome = "scan" /\ position < Len(sbom) /\ position < MaxComponents
  /\ LET c == sbom[position + 1]
         coord == coordFor(c)
         hits == IF coord = NoCoord THEN {} ELSE matchesOf(c, coord)
         quiet == {i \in hits : matchVEX(database[i], c) \/ matchWaiver(database[i], coord)}
     IN  /\ findings' = findings \cup {project(c, coord, database[i]) : i \in hits \ quiet}
         /\ quieted' = quieted \cup {project(c, coord, database[i]) : i \in quiet}
  /\ position' = position + 1
  /\ UNCHANGED <<scanInputs, database, outcome>>

Finish ==
  /\ outcome = "scan" /\ (position = Len(sbom) \/ position = MaxComponents)
  /\ outcome' = IF position < Len(sbom) THEN "truncated" ELSE "done"
  /\ UNCHANGED <<scanInputs, database, position, findings, quieted>>

\* A cancelled scan is an error, and its findings are dropped.
Cancelled ==
  /\ outcome = "scan" /\ position < Len(sbom)
  /\ outcome' = "cancelled" /\ findings' = {} /\ quieted' = {}
  /\ UNCHANGED <<scanInputs, database, position>>

-----------------------------------------------------------------------------
VulnerabilityInit ==
  /\ feed \in Feeds /\ sbom \in SBOMs /\ posture \in Postures
  /\ database = <<>> /\ position = 0 /\ findings = {} /\ quieted = {} /\ outcome = "update"

VulnerabilityNext == Update \/ MatchComponent \/ Finish \/ Cancelled

VulnerabilitySpec == VulnerabilityInit /\ [][VulnerabilityNext]_vulnerabilityVars

(***************************************************************************)
(*                               Properties                                *)
(***************************************************************************)
\* A record read by the rules of OSV: of the events up to a version the last
\* decides, whatever their order in the record.  The last affected version is
\* itself affected, so that its event comes after it.
moment(e) == 2 * e.at + (IF e.kind = "last" THEN 1 ELSE 0)

affects(rec, v) ==
  LET past == {e \in elements(rec.range.events) : moment(e) <= 2 * v}
  IN  \E e \in past : e.kind = "introduced" /\ \A d \in past : moment(d) <= moment(e)

sameName(rec, coord) ==
  LET eco == mapOSVEcosystem(rec.ecosystem)
  IN  /\ eco # "" /\ rec.package # "" /\ coord.eco = eco
      /\ packageName(eco, coord.package) = packageName(eco, rec.package)

\* What a record opens it does not close before.
closesAbove(rec) ==
  \A i \in DOMAIN rec.range.events \ {1} :
    LET d == rec.range.events[i - 1]
        e == rec.range.events[i]
    IN  d.kind = "introduced" /\ e.kind # "introduced" => moment(d) < moment(e)

\* The views of the feeds on one id agree on the CVE number that it goes by.
feedsAgree ==
  \A r, s \in elements(feed) : r.id = s.id => canonicalID(ids(r)) = canonicalID(ids(s))

\* No component of another package has the identity of this one.
identified(c) ==
  \A d \in elements(sbom) :
    coordFor(d) # NoCoord /\ componentIdentity(d) = componentIdentity(c)
      => coordFor(d).eco = coordFor(c).eco /\ coordFor(d).package = coordFor(c).package

\* A readable record that says of a component that it is affected.
concerns(rec, c) ==
  LET coord == coordFor(c)
  IN  /\ usable(rec) /\ rec.range.type # "GIT" /\ closesAbove(rec)
      /\ coord # NoCoord /\ coord.version # Unset /\ identified(c)
      /\ sameName(rec, coord) /\ affects(rec, coord.version)

\* update.go:361-364 folds the views of the feeds on one vulnerability into one
\* record: none of them is lost on the way.  A component that a readable record
\* affects has, once all of the SBOM is matched, a finding or a suppressed match
\* that goes by the id of the record, among others.
NoRecordIsLost ==
  outcome = "done" /\ feedsAgree =>
    \A rec \in elements(feed), c \in elements(sbom) :
      concerns(rec, c) => \E f \in findings \cup quieted : f.component = componentIdentity(c) /\ rec.id \in f.ids

\* advisory.go:160-162 calls the fix "the concrete upgrade target an operator - or
\* an AI agent - should move to": of one advisory whose events ascend, it is a
\* later version than the one installed.
FixIsAnUpgrade ==
  LET events == feed[1].range.events
      ascending == /\ elements(feed) = {feed[1]}
                   /\ \A i, j \in DOMAIN events : i < j => events[i].at < events[j].at
  IN \A f \in findings : ascending /\ f.fix # Unset => f.fix > f.installed
=============================================================================
