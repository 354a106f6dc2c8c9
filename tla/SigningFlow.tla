----------------------------- MODULE SigningFlow -----------------------------
(***************************************************************************)
(* `dsecrat sign` and `dsecrat attest`                                     *)
(* (internal/modules/verify/command.go, commandhelpers.go), and what       *)
(* `dsecrat verify`, offline and online, then makes of the bundles: the    *)
(* trust root and its policy (internal/sig/trust.go), the check of an      *)
(* attestation (internal/attest/verify.go), the bundle and its verdict     *)
(* (verifier.go).                                                          *)
(***************************************************************************)
EXTENDS Naturals, Sequences, Functions, SequencesExt

(***************************************************************************)
(* The verdict.  A DSSE envelope is the record of what its signatures      *)
(* cover: the payload type, the digest it commits to, the predicate type,  *)
(* and who signed.  Signatures are unforgeable: the signers of an envelope *)
(* are the keys that verify it.  The findings of a verdict are kept as a   *)
(* set of <<rule, severity>>: nothing depends on their order or number.    *)
(***************************************************************************)
CONSTANTS
  Keys,        \* signing keys, trusted by somebody or not
  Digests,     \* image manifest digests
  Predicates,  \* predicate types of attestations
  AgentAction  \* the one predicate type that is off by default

NoDigest == "no digest"
NoPredicate == "no predicate"

EntryKinds == {"signature", "attestation"}
PayloadTypes == {"simple-signing", "in-toto"}
\* The log proof of an entry: none, or by which log key its checkpoint is signed.
Logs == {"none", "ours", "other"}

Envelopes == [type : PayloadTypes, signers : (SUBSET Keys) \ {{}}, digest : Digests,
              predicate : Predicates \cup {NoPredicate}]
Entries == [kind : EntryKinds, envelope : Envelopes, log : Logs]

\* The verify Config.  `allowed` is the set of keys whose identity and issuer
\* the policy admits: all of Keys when its lists are empty.
Configs == [trusted : SUBSET Keys, allowed : SUBSET Keys, logKey : BOOLEAN,
            requireLog : BOOLEAN, require : SUBSET Predicates, agents : BOOLEAN]

Severities == {"INFO", "MEDIUM", "HIGH", "CRITICAL"}

-----------------------------------------------------------------------------
(* TrustRoot.Verify *)

verifying(env, cfg) == env.signers \cap cfg.trusted

trust(env, cfg) ==
  IF verifying(env, cfg) = {} THEN "untrusted"
  ELSE IF verifying(env, cfg) \cap cfg.allowed # {} THEN "ok"
  ELSE "policy"

\* What one check adds to the verdict.
Nothing == [counted |-> FALSE, findings |-> {}, levels |-> {}]
Finds(rule, severity) == [Nothing EXCEPT !.findings = {<<rule, severity>>}]

-----------------------------------------------------------------------------
(* Signatures *)

signatureError(outcome) ==
  IF outcome = "policy" THEN Finds("policy-violation", "HIGH")
                        ELSE Finds("signature-invalid", "CRITICAL")

\* checkInclusion: a proof nobody can check, for want of a log key, is noted and
\* counts even where a proof is required.
checkInclusion(e, cfg) ==
  CASE e.log = "none" /\ cfg.requireLog -> Finds("tlog-missing", "MEDIUM")
    [] e.log = "none" -> [Nothing EXCEPT !.counted = TRUE]
    [] e.log # "none" /\ ~cfg.logKey ->
         [Finds("tlog-missing", "INFO") EXCEPT !.counted = TRUE]
    [] e.log = "other" /\ cfg.logKey ->
         [Finds("tlog-missing", "HIGH") EXCEPT !.counted = ~cfg.requireLog]
    [] OTHER -> [Nothing EXCEPT !.counted = TRUE, !.levels = {"TRANSPARENCY_LOG"}]

verifySignature(e, cfg, subject) ==
  IF trust(e.envelope, cfg) # "ok" THEN signatureError(trust(e.envelope, cfg))
  ELSE IF e.envelope.digest # subject THEN Finds("digest-mismatch", "CRITICAL")
  ELSE LET inc == checkInclusion(e, cfg)
       IN  IF inc.counted
             THEN [inc EXCEPT !.findings = @ \cup {<<"signature-verified", "INFO">>}]
             ELSE inc

\* The entries verifySignatures looks at: by their tag and their payload type.
signatureEntries(bundle) ==
  {e \in Range(bundle.entries) :
     e.kind = "signature" /\ e.envelope.type = "simple-signing"}

-----------------------------------------------------------------------------
(* Attestations *)

\* attest.Verify: trust, then the payload type, then the subject.
attestationHolds(e, cfg, subject) ==
  /\ trust(e.envelope, cfg) = "ok"
  /\ e.envelope.type = "in-toto"
  /\ e.envelope.digest = subject

attestationError(e, cfg) ==
  IF trust(e.envelope, cfg) = "policy" THEN Finds("policy-violation", "HIGH")
                                      ELSE Finds("signature-invalid", "HIGH")

verifyAttestation(e, cfg, subject) ==
  IF ~attestationHolds(e, cfg, subject) THEN attestationError(e, cfg)
  ELSE IF e.envelope.predicate = AgentAction
    THEN IF cfg.agents THEN [Finds("agent-action", "INFO") EXCEPT !.levels = {"AGENT_ATTESTED"}]
                       ELSE Nothing
  ELSE [Finds("attestation-verified", "INFO") EXCEPT !.levels = {e.envelope.predicate}]

attestationEntries(bundle) == {e \in Range(bundle.entries) : e.kind = "attestation"}

\* Variant: a bundle without attestations returns before the requirements.
predicatesSeenIfAny(bundle, cfg, subject) ==
  IF attestationEntries(bundle) = {} THEN cfg.require
  ELSE {e.envelope.predicate :
          e \in {x \in attestationEntries(bundle) : attestationHolds(x, cfg, subject)}}

\* seen: the predicate types that verified.
predicatesSeen(bundle, cfg, subject) ==
  {e.envelope.predicate :
     e \in {x \in attestationEntries(bundle) : attestationHolds(x, cfg, subject)}}

-----------------------------------------------------------------------------
(* verifyBundle *)

failing(findings) == \E f \in findings : f[2] \in {"HIGH", "CRITICAL"}

\* The digest the checks bind to: the image's, or else the bundle's own.
subjectOf(bundle, digest) == IF digest = NoDigest THEN bundle.subject ELSE digest

checks(bundle, cfg, subject) ==
  {verifySignature(e, cfg, subject) : e \in signatureEntries(bundle)}
    \cup {verifyAttestation(e, cfg, subject) : e \in attestationEntries(bundle)}

signedBySomeone(bundle, cfg, subject) ==
  \E e \in signatureEntries(bundle) : verifySignature(e, cfg, subject).counted

verifyBundle(bundle, cfg, digest) ==
  LET subject == subjectOf(bundle, digest)
      done    == checks(bundle, cfg, subject)
      signed  == signedBySomeone(bundle, cfg, subject)
      missing == cfg.require \ predicatesSeen(bundle, cfg, subject)
      findings ==
        (UNION {c.findings : c \in done})
          \cup (IF bundle.subject # subject THEN {<<"digest-mismatch", "CRITICAL">>} ELSE {})
          \cup (IF signed THEN {} ELSE {<<"unsigned", "HIGH">>})
          \cup {<<"attestation-missing", "HIGH">> : p \in missing}
      levels == (UNION {c.levels : c \in done}) \cup (IF signed THEN {"SIGNED"} ELSE {})
  IN  IF cfg.trusted = {}
        THEN [findings |-> {<<"not-configured", "INFO">>}, levels |-> {}, passed |-> TRUE]
        ELSE [findings |-> findings, levels |-> levels, passed |-> ~failing(findings)]

(***************************************************************************)
(* The commands: processes that sign an envelope, append it to the bundle  *)
(* in --bundle-out or start a bundle on standard output, push the bundle   *)
(* to the registry as a referrer of the image, and write it.  One bundle   *)
(* file is shared by all.  os.WriteFile truncates and then writes, so a    *)
(* crash in between leaves an unreadable file.                             *)
(***************************************************************************)
CONSTANTS
  Procs,       \* invocations of the command line that may run side by side
  Commands,    \* the commands an invocation may be given
  NoFile,      \* there is no file at --bundle-out
  Unreadable,  \* the file is there and does not parse
  NoCommand,   \* an invocation between commands
  Gates,       \* the verify configurations the bundles are held against
  MaxRuns,     \* bound: commands started
  MaxFaults    \* bound: crashes, failed pushes and failed writes

VARIABLES
  file,      \* the file at --bundle-out
  registry,  \* the referrers: pairs of a subject digest and a bundle
  pc,        \* where each invocation is
  cmd,       \* the command it runs
  held,      \* the bundle it has in memory
  issued,    \* every entry ever signed
  finished,  \* the commands that ended with exit code 0
  raced,     \* two commands with --bundle-out were ever at work at once
  runs, faults

vars == <<file, registry, pc, cmd, held, issued, finished, raced, runs, faults>>

NoBundle == [subject |-> NoDigest, entries |-> <<>>]
IsBundle(b) == /\ b.subject \in Digests \cup {NoDigest}
               /\ Len(b.entries) <= MaxRuns /\ Range(b.entries) \subseteq Entries

Init ==
  /\ file = NoFile
  /\ registry = {}
  /\ pc = [p \in Procs |-> "idle"]
  /\ cmd = [p \in Procs |-> NoCommand]
  /\ held = [p \in Procs |-> NoBundle]
  /\ issued = {} /\ finished = {} /\ raced = FALSE
  /\ runs = 0 /\ faults = 0

-----------------------------------------------------------------------------
\* The entry a command adds: AddSignature with the log proof, AddAttestation
\* without one.
entryOf(c) ==
  IF c.op = "sign"
    THEN [kind |-> "signature", log |-> c.log,
          envelope |-> [type |-> "simple-signing", signers |-> {c.key},
                        digest |-> c.digest, predicate |-> NoPredicate]]
    ELSE [kind |-> "attestation", log |-> "none",
          envelope |-> [type |-> "in-toto", signers |-> {c.key},
                        digest |-> c.digest, predicate |-> c.predicate]]

newBundle(digest) == [subject |-> digest, entries |-> <<>>]
addEntry(bundle, e) == [bundle EXCEPT !.entries = Append(@, e)]

\* Flags, key, payload, envelope, log record: nothing shared is touched.
Start(p, c) ==
  /\ pc[p] = "idle" /\ runs < MaxRuns
  /\ pc' = [pc EXCEPT ![p] = "load"]
  /\ cmd' = [cmd EXCEPT ![p] = c]
  /\ issued' = issued \cup {entryOf(c)}
  /\ runs' = runs + 1
  /\ raced' = (raced \/ (c.file /\ \E q \in Procs : pc[q] # "idle" /\ cmd[q].file))
  /\ UNCHANGED <<file, registry, held, finished, faults>>

exit(p) ==
  /\ pc' = [pc EXCEPT ![p] = "idle"]
  /\ cmd' = [cmd EXCEPT ![p] = NoCommand]
  /\ held' = [held EXCEPT ![p] = NoBundle]

\* loadOrNewBundle fails: the file does not parse, or is for another image.
refused(content, digest) ==
  \/ content = Unreadable
  \/ content \notin {NoFile, Unreadable} /\ content.subject # digest

\* Variant: every command starts a bundle of its own.
loadedAnew(p) == newBundle(cmd[p].digest)

\* loadOrNewBundle: "-" and a path with no file give a new bundle.  The code takes
\* any error of the read for that; here a file that is there is read.
loaded(p) == IF cmd[p].file /\ file \notin {NoFile, Unreadable} THEN file ELSE newBundle(cmd[p].digest)

Load(p) ==
  /\ pc[p] = "load"
  /\ ~(cmd[p].file /\ refused(file, cmd[p].digest))
  /\ held' = [held EXCEPT ![p] = addEntry(loaded(p), entryOf(cmd[p]))]
  /\ pc' = [pc EXCEPT ![p] = "push"]
  /\ UNCHANGED <<file, registry, cmd, issued, finished, runs, raced, faults>>

LoadRefused(p) ==
  /\ pc[p] = "load"
  /\ cmd[p].file /\ refused(file, cmd[p].digest)
  /\ exit(p)
  /\ UNCHANGED <<file, registry, issued, finished, runs, raced, faults>>

\* pushBundle: the whole bundle, as one referrer of its subject.
Push(p) ==
  /\ pc[p] = "push"
  /\ registry' = IF cmd[p].push THEN registry \cup {<<cmd[p].digest, held[p]>>} ELSE registry
  /\ pc' = [pc EXCEPT ![p] = IF cmd[p].file THEN "open" ELSE "print"]
  /\ UNCHANGED <<file, cmd, held, issued, finished, runs, raced, faults>>

\* A failed push ends the command before anything is written.
PushFails(p) ==
  /\ pc[p] = "push" /\ cmd[p].push /\ faults < MaxFaults
  /\ faults' = faults + 1
  /\ exit(p)
  /\ UNCHANGED <<file, registry, issued, finished, runs, raced>>

\* writeBundle to standard output.
WriteOut(p) ==
  /\ pc[p] = "print"
  /\ finished' = finished \cup {cmd[p]}
  /\ exit(p)
  /\ UNCHANGED <<file, registry, issued, runs, raced, faults>>

\* os.WriteFile: open with O_TRUNC ...
Truncate(p) ==
  /\ pc[p] = "open"
  /\ file' = Unreadable
  /\ pc' = [pc EXCEPT ![p] = "write"]
  /\ UNCHANGED <<registry, cmd, held, issued, finished, runs, raced, faults>>

\* ... and write from the start.  Over a bundle another process wrote in between
\* the longer one's tail may stay behind.
WriteFile(p) ==
  /\ pc[p] = "write"
  /\ file' \in {held[p]} \cup (IF file = Unreadable THEN {} ELSE {Unreadable})
  /\ finished' = finished \cup {cmd[p]}
  /\ exit(p)
  /\ UNCHANGED <<registry, issued, runs, raced, faults>>

\* The process dies, or the write fails after the truncation.
Crash(p) ==
  /\ pc[p] # "idle" /\ faults < MaxFaults
  /\ faults' = faults + 1
  /\ exit(p)
  /\ UNCHANGED <<file, registry, issued, finished, runs, raced>>

Next ==
  \E p \in Procs :
    \/ \E c \in Commands : Start(p, c)
    \/ Load(p) \/ LoadRefused(p) \/ Push(p) \/ PushFails(p)
    \/ WriteOut(p) \/ Truncate(p) \/ WriteFile(p) \/ Crash(p)

Spec == Init /\ [][Next]_vars

-----------------------------------------------------------------------------
(* Verification of what is there *)

Readable == IF file \in {NoFile, Unreadable} THEN {} ELSE {file}
AllBundles == Readable \cup {r[2] : r \in registry}

\* fetchBundleFromRegistry takes the first referrer it can read, in the order of
\* the registry's index, which is that of the digests: any of them.
fetchBundle(digest) == {r[2] : r \in {x \in registry : x[1] = digest}}

\* Every question the gates may ask of a bundle, with the answer.
Verdicts ==
  {[bundle |-> b, gate |-> g, subject |-> subjectOf(b, d), result |-> verifyBundle(b, g, d)] :
     b \in AllBundles, g \in Gates, d \in Digests \cup {NoDigest}}

\* The keys a gate accepts signatures of.
accepted(gate) == gate.trusted \cap gate.allowed

-----------------------------------------------------------------------------
TypeOK ==
  /\ file \in {NoFile, Unreadable} \/ IsBundle(file)
  /\ \A r \in registry : r[1] \in Digests /\ IsBundle(r[2])
  /\ pc \in [Procs -> {"idle", "load", "push", "print", "open", "write"}]
  /\ cmd \in [Procs -> Commands \cup {NoCommand}]
  /\ DOMAIN held = Procs /\ \A p \in Procs : IsBundle(held[p])
  /\ issued \subseteq Entries /\ finished \subseteq Commands
  /\ \A p \in Procs : (cmd[p] = NoCommand) <=> (pc[p] = "idle")
  /\ raced \in BOOLEAN /\ runs \in 0 .. MaxRuns /\ faults \in 0 .. MaxFaults

\* A bundle holds material about its own subject only, however many commands
\* appended to the file and raced for it (commandhelpers.go:72-75,
\* loadOrNewBundle "refuses to mix subjects").
BundleKeepsItsSubject ==
  \A b \in AllBundles : \A e \in Range(b.entries) : e.envelope.digest = b.subject

\* A configured gate that passes an image does so because an accepted key signed
\* that very digest (sig.go:22-27, "a valid signature for image A never
\* authenticates image B"), and no entry beside that signature is about another
\* image or by another key (verifier.go:42-47, 109-114, 196-199).
PassedIsSigned ==
  \A v \in Verdicts :
    v.result.passed /\ v.gate.trusted # {} =>
      /\ \E e \in issued : /\ e.kind = "signature" /\ e.envelope.digest = v.subject
                           /\ e.envelope.signers \cap accepted(v.gate) # {}
      /\ \A e \in Range(v.bundle.entries) :
           /\ e.envelope.digest = v.subject
           /\ e.envelope.signers \cap accepted(v.gate) # {}

\* ... and each attestation the gate requires was made about that digest by an
\* accepted key (verifier.go:223-231).
RequirementsAreMet ==
  \A v \in Verdicts :
    v.result.passed /\ v.gate.trusted # {} =>
      \A p \in v.gate.require :
        \E e \in issued : /\ e.kind = "attestation" /\ e.envelope.predicate = p
                          /\ e.envelope.digest = v.subject
                          /\ e.envelope.signers \cap accepted(v.gate) # {}

\* A pass vouches for the image and for all the gate requires of it.
PassIsVouchedFor == PassedIsSigned /\ RequirementsAreMet

\* What a command that ended with 0 was to push is in the registry
\* (command.go:81-90), and what it put into the file is still there, or the file is
\* visibly damaged (commandhelpers.go:72-73, "so attestations can be appended to a
\* signature bundle"), unless two commands raced for the file: one then writes over
\* what the other appended.
ExitZeroIsKept ==
  \A c \in finished :
    /\ c.push => \E r \in registry : r[1] = c.digest /\ entryOf(c) \in Range(r[2].entries)
    /\ c.file /\ ~raced =>
         /\ file # NoFile
         /\ file # Unreadable => entryOf(c) \in Range(file.entries)

-----------------------------------------------------------------------------
(* What the documents say and the code does not do *)

\* docs/features/supplychain.md:18-21: sign and attest push referrers, and verify
\* fetches "signature + attestations by digest".
OnlineSeesWhatWasPushed ==
  \A d \in Digests : \A b \in fetchBundle(d), c \in finished :
    c.push /\ c.digest = d => entryOf(c) \in Range(b.entries)

\* config.go:36, "RequireTransparencyLog demands a valid inclusion proof for each
\* signature".
RequiredLogIsVerified ==
  \A v \in Verdicts :
    v.result.passed /\ v.gate.trusted # {} /\ v.gate.requireLog =>
      \A e \in signatureEntries(v.bundle) : v.gate.logKey /\ e.log = "ours"

\* module.go:44-45, "With nothing configured it reports "not configured" (INFO) and
\* verifies nothing - never a false pass".
UnconfiguredNeverPasses ==
  \A v \in Verdicts : v.gate.trusted = {} => ~v.result.passed

retag(bundle, kinds) ==
  [bundle EXCEPT !.entries = [i \in DOMAIN @ |-> [@[i] EXCEPT !.kind = kinds[i]]]]

\* bundle.go:30-31, the kind of an entry is "informational; verification keys off
\* the envelope's payload type, not this tag".
TagIsInformational ==
  \A b \in AllBundles, g \in Gates : \A kinds \in [DOMAIN b.entries -> EntryKinds] :
    verifyBundle(retag(b, kinds), g, NoDigest) = verifyBundle(b, g, NoDigest)
==============================================================================
