---------------------------- MODULE VersionOrder ----------------------------
(***************************************************************************)
(* The version comparators of internal/vulndb and the ranges of advisories *)
(* they decide.  A version is a sequence of symbols: digits, letters,      *)
(* words a scheme knows, and punctuation.  A word is one symbol, for the   *)
(* comparators look at words as a whole; Deb's, which looks at letters,    *)
(* gets letters.                                                           *)
(***************************************************************************)
EXTENDS Integers, Sequences, FiniteSets

LOCAL INSTANCE SequencesExt
LOCAL INSTANCE FiniteSetsExt

CONSTANTS
  Schemes,  \* schemes to check, among the domain of Symbols
  MaxLen    \* bound: symbols of a version; Longer holds some longer ones

VARIABLES
  scheme, installed,  \* a package of an ecosystem, at a version
  verdict             \* what Compare says of any two versions

vars == <<scheme, installed, verdict>>

\* Symbols in the order of their bytes.
Collation == <<"!", "+", "-", "-r", ".", "0", "1", "2", ":", "^", "_", "a", "alpha", "b", "dev", "ga",
               "p", "post", "rc", "sp", "x", "~">>
place == [c \in ToSet(Collation) |-> CHOOSE i \in DOMAIN Collation : Collation[i] = c]
byte(c) == place[c]

Digits == {"0", "1", "2"}
Letters == {"a", "b", "x"}
Words == Letters \cup {"alpha", "dev", "ga", "p", "post", "rc", "sp"}

isDigit(c) == c \in Digits
isAlpha(c) == c \in Words
isAlnum(c) == isDigit(c) \/ isAlpha(c)
allDigits(s) == s # <<>> /\ \A i \in DOMAIN s : isDigit(s[i])

sign(n) == IF n < 0 THEN -1 ELSE IF n > 0 THEN 1 ELSE 0

\* The first of several comparisons that decides.
first(cs) ==
  LET D == {i \in DOMAIN cs : cs[i] # 0} IN IF D = {} THEN 0 ELSE cs[Min(D)]

\* strings.Compare
lex(s, t) ==
  LET n == Min({Len(s), Len(t)})
  IN  first([i \in 1 .. n |-> sign(byte(s[i]) - byte(t[i]))] \o <<sign(Len(s) - Len(t))>>)

takeWhile(s, P(_)) ==
  LET K == {i \in DOMAIN s : ~P(s[i])} IN IF K = {} THEN s ELSE SubSeq(s, 1, Min(K) - 1)
dropWhile(s, P(_)) == SubSeq(s, Len(takeWhile(s, P)) + 1, Len(s))

has(s, c) == \E i \in DOMAIN s : s[i] = c
before(s, c) == takeWhile(s, LAMBDA d : d # c)
after(s, c) == SubSeq(s, Len(before(s, c)) + 2, Len(s))

split(s, c) ==
  LET cuts == <<0>> \o SetToSortSeq({i \in DOMAIN s : s[i] = c}, <) \o <<Len(s) + 1>>
  IN  [k \in 1 .. Len(cuts) - 1 |-> SubSeq(s, cuts[k] + 1, cuts[k + 1] - 1)]

\* The maximal runs of digits and of letters, punctuation dropped.
runs(s) ==
  LET alike(i, j) == isDigit(s[i]) = isDigit(s[j])
      starts == {i \in DOMAIN s : isAlnum(s[i]) /\ (i = 1 \/ ~isAlnum(s[i - 1]) \/ ~alike(i, i - 1))}
      order == SetToSortSeq(starts, <)
  IN  [k \in DOMAIN order |->
         takeWhile(SubSeq(s, order[k], Len(s)),
                   LAMBDA c : isAlnum(c) /\ isDigit(c) = isDigit(s[order[k]]))]

at(s, i, default) == IF i <= Len(s) THEN s[i] ELSE default
longer(s, t) == Max({Len(s), Len(t)})

\* By length without the zeros in front, then as text.  A length is one in symbols:
\* of what is no number, as a malformed apk component, the code compares the bytes.
compareNumeric(s, t) ==
  LET trim(u) == dropWhile(u, LAMBDA c : c = "0")
      a == trim(s)  b == trim(t)
  IN  first(<<sign(Len(a) - Len(b)), lex(a, b)>>)

(***************************************************************************)
(*                                 Semver                                  *)
(***************************************************************************)
\* Numeric fields by magnitude, a missing one is 0; odd fields as text.
compareField(s, t) == IF allDigits(s) /\ allDigits(t) THEN compareNumeric(s, t) ELSE lex(s, t)

compareDotted(a, b) ==
  LET s == split(a, ".")  t == split(b, ".")
      field(u, i) == IF at(u, i, <<>>) = <<>> THEN <<"0">> ELSE u[i]
  IN  first([i \in 1 .. longer(s, t) |-> compareField(field(s, i), field(t, i))])

\* Variant: a numeric identifier and a name are compared as text.
comparePreReleaseAsText(a, b) ==
  LET s == split(a, ".")  t == split(b, ".")
  IN  first([i \in 1 .. Min({Len(s), Len(t)}) |-> compareField(s[i], t[i])]
            \o <<sign(Len(s) - Len(t))>>)

comparePreRelease(a, b) ==
  LET s == split(a, ".")  t == split(b, ".")
      rank(u) == IF allDigits(u) THEN 0 ELSE 1
  IN  first([i \in 1 .. Min({Len(s), Len(t)}) |->
               first(<<sign(rank(s[i]) - rank(t[i])), compareField(s[i], t[i])>>)]
            \o <<sign(Len(s) - Len(t))>>)

compareSemver(a, b) ==
  LET core(v) == before(before(v, "+"), "-")
      pre(v) == after(before(v, "+"), "-")
      released(v) == IF pre(v) = <<>> THEN 1 ELSE 0
  IN  first(<<compareDotted(core(a), core(b)), released(a) - released(b),
              comparePreRelease(pre(a), pre(b))>>)

(***************************************************************************)
(*                                Generic                                  *)
(***************************************************************************)
compareToken(s, t) ==
  CASE allDigits(s) /\ allDigits(t) -> compareNumeric(s, t)
    [] allDigits(s)                 -> 1
    [] allDigits(t)                 -> -1
    [] OTHER                        -> lex(s, t)

compareGeneric(a, b) ==
  LET s == runs(a)  t == runs(b)
  IN  first([i \in 1 .. Min({Len(s), Len(t)}) |-> compareToken(s[i], t[i])]
            \o <<sign(Len(s) - Len(t))>>)

(***************************************************************************)
(*                                 Debian                                  *)
(***************************************************************************)
\* debOrder; the end of the string weighs 0.
weight(s) ==
  IF s = <<>> THEN 0
  ELSE CASE s[1] = "~"    -> -1
         [] isAlpha(s[1]) -> byte(s[1])
         [] OTHER         -> byte(s[1]) + 256

rest(s) == IF s = <<>> THEN s ELSE Tail(s)
startsNonDigit(s) == s # <<>> /\ ~isDigit(s[1])

RECURSIVE debVerRevCmp(_, _)
debVerRevCmp(s, t) ==
  IF s = <<>> /\ t = <<>> THEN 0
  ELSE IF startsNonDigit(s) \/ startsNonDigit(t)
  THEN IF weight(s) # weight(t) THEN sign(weight(s) - weight(t)) ELSE debVerRevCmp(rest(s), rest(t))
  ELSE first(<<compareNumeric(takeWhile(s, isDigit), takeWhile(t, isDigit)),
               debVerRevCmp(dropWhile(s, isDigit), dropWhile(t, isDigit))>>)

epochOf(v) == IF has(v, ":") /\ allDigits(before(v, ":")) THEN before(v, ":") ELSE <<"0">>

splitDeb(v) ==
  LET body == IF has(v, ":") /\ allDigits(before(v, ":")) THEN after(v, ":") ELSE v
      tail == Reverse(before(Reverse(body), "-"))
  IN  IF has(body, "-")
        THEN [upstream |-> SubSeq(body, 1, Len(body) - Len(tail) - 1), revision |-> tail]
        ELSE [upstream |-> body, revision |-> <<"0">>]

compareDeb(a, b) ==
  first(<<compareNumeric(epochOf(a), epochOf(b)),
          debVerRevCmp(splitDeb(a).upstream, splitDeb(b).upstream),
          debVerRevCmp(splitDeb(a).revision, splitDeb(b).revision)>>)

(***************************************************************************)
(*                                  RPM                                    *)
(***************************************************************************)
marks(c) == c \in {"~", "^"}
separates(c) == ~isAlnum(c) /\ ~marks(c)
hasMoreRPM(s) == \E i \in DOMAIN s : ~separates(s[i])

\* Whichever has something left decides, a '~' there against it.
rpmRest(s, t) ==
  CASE hasMoreRPM(s) /\ s[1] = "~"       -> -1
    [] hasMoreRPM(t) /\ t[1] = "~"       -> 1
    [] hasMoreRPM(s) /\ ~hasMoreRPM(t)   -> 1
    [] ~hasMoreRPM(s) /\ hasMoreRPM(t)   -> -1
    [] OTHER                             -> 0

\* A maximal run of digits or of letters.
rpmSegment(s) == takeWhile(s, LAMBDA c : isAlnum(c) /\ isDigit(c) = isDigit(s[1]))
beyond(s) == SubSeq(s, Len(rpmSegment(s)) + 1, Len(s))

RECURSIVE rpmVerCmp(_, _)
rpmVerCmp(s, t) ==
  IF s = <<>> \/ t = <<>> THEN rpmRest(s, t)
  ELSE CASE s[1] = t[1] /\ marks(s[1]) -> rpmVerCmp(Tail(s), Tail(t))
         [] s[1] = "~" /\ t[1] # "~" -> -1
         [] t[1] = "~" /\ s[1] # "~" -> 1
         [] s[1] = "^" /\ t[1] \notin {"^", "~"} -> 1
         [] t[1] = "^" /\ s[1] \notin {"^", "~"} -> -1
         [] OTHER ->
              LET u == dropWhile(s, separates)  w == dropWhile(t, separates) IN
              IF u = <<>> \/ w = <<>> THEN rpmRest(u, w)
              ELSE IF marks(u[1]) \/ marks(w[1]) THEN rpmVerCmp(u, w)
              ELSE first(<<compareToken(rpmSegment(u), rpmSegment(w)),
                           rpmVerCmp(beyond(u), beyond(w))>>)

splitEVR(v) ==
  LET body == IF has(v, ":") THEN after(v, ":") ELSE v
  IN  [version |-> before(body, "-"), release |-> after(body, "-")]

compareRPM(a, b) ==
  first(<<compareNumeric(epochOf(a), epochOf(b)),
          rpmVerCmp(splitEVR(a).version, splitEVR(b).version),
          rpmVerCmp(splitEVR(a).release, splitEVR(b).release)>>)

(***************************************************************************)
(*                                 Alpine                                  *)
(***************************************************************************)
apkReleaseRank == 4
apkSuffixRank(name) ==
  CASE name = <<"alpha">> -> 0 [] name = <<"rc">> -> 3 [] name = <<"p">> -> 9
    [] OTHER -> apkReleaseRank

parseAPKSuffix(part) ==
  LET num == Reverse(takeWhile(Reverse(part), isDigit))
  IN  [rank |-> apkSuffixRank(SubSeq(part, 1, Len(part) - Len(num))), num |-> num]

parseAPK(v) ==
  LET tail == Reverse(before(Reverse(v), "-r"))
      revised == has(v, "-r") /\ allDigits(tail)
      body == IF revised THEN SubSeq(v, 1, Len(v) - Len(tail) - 1) ELSE v
      main == before(body, "_")
      n == Len(main)
      lettered == n >= 2 /\ main[n] \in Letters /\ (isDigit(main[n - 1]) \/ main[n - 1] = ".")
      dotted == IF lettered THEN Front(main) ELSE main
      isDot(c) == c = "."
      trimmed == Reverse(dropWhile(Reverse(dropWhile(dotted, isDot)), isDot))
      parts == SelectSeq(split(after(body, "_"), "_"), LAMBDA p : p # <<>>)
  IN  [numbers |-> split(trimmed, "."), letter |-> IF lettered THEN <<main[n]>> ELSE <<>>,
       suffixes |-> [k \in DOMAIN parts |-> parseAPKSuffix(parts[k])],
       revision |-> IF revised THEN tail ELSE <<>>]

compareAPKSuffixes(s, t) ==
  LET release == [rank |-> apkReleaseRank, num |-> <<>>]
  IN  first([i \in 1 .. longer(s, t) |->
               LET x == at(s, i, release)  y == at(t, i, release)
               IN  first(<<sign(x.rank - y.rank), compareNumeric(x.num, y.num)>>)])

compareAPK(a, b) ==
  LET x == parseAPK(a)  y == parseAPK(b)
  IN  first([i \in 1 .. longer(x.numbers, y.numbers) |->
               compareNumeric(at(x.numbers, i, <<"0">>), at(y.numbers, i, <<"0">>))]
            \o <<lex(x.letter, y.letter), compareAPKSuffixes(x.suffixes, y.suffixes),
                 compareNumeric(x.revision, y.revision)>>)

(***************************************************************************)
(*                                PEP 440                                  *)
(***************************************************************************)
Kinds == <<"alpha", "rc", "a", "b">>  \* pre-release keywords, in the order they are tried
kindOf(kw) == CASE kw \in {"alpha", "a"} -> 1 [] kw = "b" -> 2 [] kw = "rc" -> 3
preNone == 4

\* atoiSafe: what is no number is 0.
atoiSafe(s) ==
  IF allDigits(s) THEN FoldLeft(LAMBDA n, c : 10 * n + byte(c) - byte("0"), 0, s) ELSE 0

trailingNum(s) == atoiSafe(takeWhile(dropWhile(s, LAMBDA c : c = "."), isDigit))
trimDots(s) == Reverse(dropWhile(Reverse(s), LAMBDA c : c = "."))
\* What is left of a keyword that was taken off, with what follows it.
taken(s, kw) == IF has(s, kw) THEN trimDots(before(s, kw)) ELSE s
preBoundary(s) == s = <<>> \/ isDigit(s[Len(s)]) \/ s[Len(s)] = "."

\* A pre-release keyword, the first of Kinds that stands at a boundary.
preRelease(s) ==
  LET found == {i \in DOMAIN Kinds : has(s, Kinds[i]) /\ preBoundary(before(s, Kinds[i]))}
      cut(kw) == [release |-> taken(s, kw), kind |-> kindOf(kw), num |-> trailingNum(after(s, kw))]
  IN  IF found = {} THEN [release |-> s, kind |-> preNone, num |-> 0] ELSE cut(Kinds[Min(found)])

releaseFields(s) ==
  LET fields == SelectSeq(split(s, "."), LAMBDA f : f # <<>>)
  IN  [k \in DOMAIN fields |-> atoiSafe(fields[k])]

\* Past the epoch, the dev number is taken off, then the post number, then the
\* pre-release; what is left is the release.
parseParts(epoch, body, undev, pre) ==
  [epoch   |-> epoch, release |-> releaseFields(pre.release), preKind |-> pre.kind, preNum |-> pre.num,
   hasPost |-> has(undev, "post"), postNum |-> trailingNum(after(undev, "post")),
   hasDev  |-> has(body, "dev"), devNum |-> trailingNum(after(body, "dev"))]

parseBody(epoch, body) ==
  parseParts(epoch, body, taken(body, "dev"), preRelease(taken(taken(body, "dev"), "post")))

parsePublic(public) ==
  IF has(public, "!") THEN parseBody(atoiSafe(before(public, "!")), after(public, "!"))
  ELSE parseBody(0, public)

parsePEP440(v) == parsePublic(before(v, "+"))

\* comparePresenceNum: present ones by number, else absence decides.
comparePresence(hasA, a, hasB, b, absent) ==
  CASE hasA /\ hasB  -> sign(a - b)
    [] hasA /\ ~hasB -> -absent
    [] ~hasA /\ hasB -> absent
    [] OTHER         -> 0

pep440Phase(p) ==
  CASE p.hasDev /\ p.preKind = preNone -> 0
    [] p.preKind # preNone             -> 1 + p.preKind
    [] OTHER                           -> 5

\* Field by field; a missing one is zero.
compareIntSlices(s, t) ==
  first([i \in 1 .. longer(s, t) |-> sign(at(s, i, 0) - at(t, i, 0))])

comparePEP440(a, b) ==
  LET x == parsePEP440(a)  y == parsePEP440(b)
  IN  first(<<sign(x.epoch - y.epoch), compareIntSlices(x.release, y.release),
              sign(pep440Phase(x) - pep440Phase(y)),
              IF x.preKind = y.preKind THEN sign(x.preNum - y.preNum) ELSE 0,
              comparePresence(x.hasPost, x.postNum, y.hasPost, y.postNum, -1),
              comparePresence(x.hasDev, x.devNum, y.hasDev, y.devNum, 1)>>)

(***************************************************************************)
(*                                 Maven                                   *)
(***************************************************************************)
normalizeMavenQual(q) == IF q = <<"ga">> THEN <<>> ELSE IF q = <<"a">> THEN <<"alpha">> ELSE q
mavenRank(q) ==
  CASE q = <<"alpha">> -> 0 [] q = <<"rc">> -> 3 [] q = <<>> -> 5 [] q = <<"sp">> -> 6 [] OTHER -> 7

tokenizeMaven(v) ==
  LET toks == runs(v)
  IN  [k \in DOMAIN toks |-> IF allDigits(toks[k]) THEN toks[k] ELSE normalizeMavenQual(toks[k])]

compareMavenQual(q, r) ==
  first(<<sign(mavenRank(q) - mavenRank(r)), IF mavenRank(q) = 7 THEN lex(q, r) ELSE 0>>)

compareMavenItem(x, y) ==
  CASE allDigits(x) /\ allDigits(y) -> compareNumeric(x, y)
    [] allDigits(x)                 -> 1
    [] allDigits(y)                 -> -1
    [] OTHER                        -> compareMavenQual(x, y)

\* A missing item is the release beside a qualifier, 0 beside a number.
compareMaven(a, b) ==
  LET s == tokenizeMaven(a)  t == tokenizeMaven(b)
      neutral(y) == IF allDigits(y) THEN <<"0">> ELSE <<>>
      item(u, w, i) == IF i <= Len(u) THEN u[i] ELSE neutral(w[i])
  IN  first([i \in 1 .. longer(s, t) |-> compareMavenItem(item(s, t, i), item(t, s, i))])

-----------------------------------------------------------------------------
Compare(sch, a, b) ==
  CASE sch = "semver"  -> compareSemver(a, b)
    [] sch = "generic" -> compareGeneric(a, b)
    [] sch = "deb"     -> compareDeb(a, b)
    [] sch = "rpm"     -> compareRPM(a, b)
    [] sch = "apk"     -> compareAPK(a, b)
    [] sch = "pep440"  -> comparePEP440(a, b)
    [] sch = "maven"   -> compareMaven(a, b)

(***************************************************************************)
(* Versions of each scheme: every sequence of up to MaxLen of its symbols  *)
(* that begins with a 1, the other digits, and a few longer ones.          *)
(***************************************************************************)
Symbols ==
  [semver  |-> {"0", "1", "2", ".", "-", "a"},
   generic |-> {"0", "1", "2", ".", "a", "b"},
   deb     |-> {"0", "1", ".", "~", "a", "b"},
   rpm     |-> {"0", "1", ".", "~", "^", "a"},
   apk     |-> {"1", ".", "_", "alpha", "p", "b"},
   pep440  |-> {"1", ".", "rc", "dev", "post"},
   maven   |-> {"0", "1", ".", "alpha", "sp", "x"}]

Longer ==
  [semver  |-> {<<"1", "-", "a", ".", "1">>, <<"1", "-", "a", ".", "0">>, <<"1", "-", "1", "a">>,
                <<"1", "-", "a", "+", "b">>, <<"1", ".", "0", "-", "a">>, <<"1", "-", "1", "0">>},
   generic |-> {<<"1", ".", "a", "1">>, <<"1", ".", "1", "0">>},
   deb     |-> {<<"1", ":", "0">>, <<"1", "-", "1">>, <<"1", "-", "0">>, <<"1", "~", "a", "1">>,
                <<"1", ":", "1", "-", "1">>, <<"1", "a", "b", "1">>},
   rpm     |-> {<<"1", ":", "0">>, <<"1", "-", "1">>, <<"1", ".", "1", "~", "a">>, <<"1", "~", "a", "1">>},
   apk     |-> {<<"1", ".", "0">>, <<"1", "_", "alpha", "1">>, <<"1", "_", "p", "1">>, <<"1", "-r", "1">>,
                <<"1", "_", "alpha", "_", "p">>, <<"1", "b", "_", "p">>, <<"1", "-r", "0">>},
   pep440  |-> {<<"1", ".", "0">>, <<"1", "!", "0">>, <<"1", "+", "a">>, <<"1", "rc", "1", "dev">>,
                <<"1", "post", "1", ".", "dev">>, <<"1", "a", "1">>, <<"1", "b", "0">>,
                <<"1", ".", "0", "rc", "1">>},
   maven   |-> {<<"1", "-", "ga">>, <<"1", "-", "sp", "1">>, <<"1", ".", "0", "-", "sp">>,
                <<"1", ".", "0", ".", "1">>, <<"1", "-", "a">>, <<"1", "-", "a", "1">>}]

Written(s) ==
  {v \in UNION {[1 .. n -> Symbols[s]] : n \in 1 .. MaxLen} : v[1] = "1"}
  \cup {<<d>> : d \in Symbols[s] \cap Digits} \cup Longer[s]

Versions == [s \in Schemes |-> Written(s)]

cmp(v, w) == verdict[v][w]

(***************************************************************************)
(* The versions on which each order is one: those of Semver have numeric   *)
(* fields, a Deb fragment does not end in a non-digit, RPM has separators  *)
(* between letters and digits only, Maven's zeros are followed by a number *)
(* greater than zero before anything else.                                 *)
(***************************************************************************)
endsInDigit(s) == s # <<>> /\ isDigit(s[Len(s)])

WellFormed(s, v) ==
  CASE s = "semver" -> LET fields == split(before(before(v, "+"), "-"), ".")
                       IN  \A i \in DOMAIN fields : fields[i] = <<>> \/ allDigits(fields[i])
    [] s = "deb"    -> endsInDigit(splitDeb(v).upstream) /\ endsInDigit(splitDeb(v).revision)
    [] s = "rpm"    -> \A i \in DOMAIN v : v[i] = "." =>
                          i > 1 /\ i < Len(v) /\ isAlnum(v[i - 1]) /\ isAlnum(v[i + 1])
    [] s = "maven"  -> LET toks == tokenizeMaven(v)
                           zero(x) == allDigits(x) /\ \A i \in DOMAIN x : x[i] = "0"
                       IN  \A i \in DOMAIN toks : zero(toks[i]) =>
                             i < Len(toks) /\ allDigits(toks[i + 1])
    [] OTHER        -> TRUE

-----------------------------------------------------------------------------
(* A package is installed, then upgraded and downgraded at will.           *)
Init ==
  /\ scheme \in Schemes
  /\ verdict = [v \in Versions[scheme] |-> [w \in Versions[scheme] |-> Compare(scheme, v, w)]]
  /\ installed \in Versions[scheme]

Upgrade ==
  /\ \E v \in Versions[scheme] : cmp(v, installed) >= 0 /\ installed' = v
  /\ UNCHANGED <<scheme, verdict>>

Downgrade ==
  /\ \E v \in Versions[scheme] : cmp(v, installed) < 0 /\ installed' = v
  /\ UNCHANGED <<scheme, verdict>>

Next == Upgrade \/ Downgrade

Spec == Init /\ [][Next]_vars

(***************************************************************************)
(*                               Properties                                *)
(***************************************************************************)
isOrderedBeside(v, w) ==
  /\ cmp(v, w) = -cmp(w, v)
  /\ cmp(v, w) <= 0 => \A x \in Versions[scheme] :
       WellFormed(scheme, x) /\ cmp(w, x) <= 0 => cmp(v, x) <= 0

\* version.go:7-9: "Comparison is total and deterministic".  Well-formed
\* versions of each scheme are totally ordered: a comparison turns round with
\* its sides, and two comparisons give a third.
CompareIsOrder ==
  WellFormed(scheme, installed) =>
    \A w \in Versions[scheme] : WellFormed(scheme, w) => isOrderedBeside(installed, w)

=============================================================================
