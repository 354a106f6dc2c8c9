--------------------------- MODULE TransparencyLog ---------------------------
(***************************************************************************)
(* The local transparency log of internal/sig: the RFC 6962 Merkle tree of *)
(* merkle.go, the in-memory log whose head is signed by the log's key      *)
(* (translog.go), the inclusion records it hands out, and their            *)
(* verification.                                                           *)
(***************************************************************************)
EXTENDS Naturals, Sequences, FiniteSets, SequencesExt

CONSTANTS
  Data,        \* what may be logged: marshalled envelopes
  MaxLogged,   \* bound: entries of one log
  MaxReopens,  \* bound: invocations after the first
  MaxFailures, \* bound: failures of the log's signer
  MaxForged    \* bound: entries of a log whose forged paths are tried

(***************************************************************************)
(* The tree.  SHA-256 is taken as free of collisions: a hash is the term   *)
(* it was computed from, and the two prefixes of the code are the tags of  *)
(* the terms.  Entries are numbered from 0, as in the code: entries[i] is  *)
(* log[i+1].                                                               *)
(***************************************************************************)
hashEmpty == <<"empty">>
hashLeaf(entry) == <<"leaf", entry>>
hashChildren(left, right) == <<"node", left, right>>

\* The RFC 6962 split point of a tree of n > 1 entries.
largestPowerOfTwoLessThan(n) ==
  LET doubled[k \in 1 .. n] == IF 2 * k < n THEN doubled[2 * k] ELSE k
  IN  doubled[1]

\* The first entries of a log, and the others.
leftOf(log) == SubSeq(log, 1, largestPowerOfTwoLessThan(Len(log)))
rightOf(log) == SubSeq(log, largestPowerOfTwoLessThan(Len(log)) + 1, Len(log))

merkleRoot[log \in Seq(Data)] ==
  CASE Len(log) = 0 -> hashEmpty
    [] Len(log) = 1 -> hashLeaf(log[1])
    [] OTHER -> hashChildren(merkleRoot[leftOf(log)], merkleRoot[rightOf(log)])

\* The audit paths of the entries, each from the leaf up.
auditPaths[log \in Seq(Data)] ==
  LET k == largestPowerOfTwoLessThan(Len(log))
  IN  [index \in 0 .. Len(log) - 1 |->
         IF Len(log) = 1 THEN <<>>
         ELSE IF index < k THEN Append(auditPaths[leftOf(log)][index], merkleRoot[rightOf(log)])
              ELSE Append(auditPaths[rightOf(log)][index - k], merkleRoot[leftOf(log)])]

inclusionProof(log, index) ==
  IF index \in 0 .. Len(log) - 1 THEN auditPaths[log][index] ELSE <<>>

-----------------------------------------------------------------------------
(* The verifier's walk.  Its state is the running hash r, the index fn of  *)
(* the node in its level, the last index sn of that level, and whether the *)
(* path has fitted so far; the result is a sequence of at most one hash,   *)
(* <<>> for the nil of the code.                                           *)

Odd(n) == n % 2 = 1
\* Variant: The right spine is forgotten.
IsRightSiblingNoSpine(fn, sn) == Odd(fn)

\* A right child, or the lone node on the right spine.
IsRightSibling(fn, sn) == Odd(fn) \/ fn = sn

\* The inner loop on the right spine, where fn = sn = n: up at least once, until
\* a right child or the root.
ascendSpine[n \in Nat] ==
  LET up == n \div 2 IN IF Odd(up) \/ up = 0 THEN up ELSE ascendSpine[up]

\* One element of the path.
ascend(at, p) ==
  LET right == IsRightSibling(at.fn, at.sn)
      up(n) == IF right /\ ~Odd(at.fn) THEN ascendSpine[n] \div 2 ELSE n \div 2
  IN  IF ~at.fits \/ at.sn = 0 THEN [at EXCEPT !.fits = FALSE]
      ELSE [r    |-> IF right THEN hashChildren(p, at.r) ELSE hashChildren(at.r, p),
            fn   |-> up(at.fn),
            sn   |-> up(at.sn),
            fits |-> TRUE]

recomputeRoot(leafHash, index, size, proof) ==
  LET at[j \in 0 .. Len(proof)] ==
        IF j = 0 THEN [r |-> leafHash, fn |-> index, sn |-> size - 1, fits |-> TRUE]
        ELSE ascend(at[j - 1], proof[j])
      top == at[Len(proof)]
  IN  IF index < size /\ top.fits /\ top.sn = 0 THEN <<top.r>> ELSE <<>>

verifyInclusion(entry, index, size, proof, root) ==
  /\ index \in 0 .. size - 1
  /\ recomputeRoot(hashLeaf(entry), index, size, proof) = <<root>>

(***************************************************************************)
(* The log.  `dsecrat sign --tlog` makes a new TransLog with the           *)
(* operator's log key in each invocation                                   *)
(* (modules/verify/command.go:62-69): Reopen. A log key is identified by   *)
(* LogKey; a signature is the fact that a checkpoint is in `signed`, which *)
(* is what an unforgeable signature says.                                  *)
(***************************************************************************)
VARIABLES
  entries,  \* the raw entries of the log of this process, in append order
  signed,   \* every checkpoint the log key ever signed, with what it covers
  records,  \* every inclusion record handed out, with the bytes logged
  reopens, failures

logVars == <<entries, signed, records, reopens, failures>>

LogInit ==
  /\ entries = <<>>
  /\ signed = {}
  /\ records = {}
  /\ reopens = 0 /\ failures = 0

\* Checkpoint: the root over the first Size entries.  `covers` is kept for the
\* properties: it is the log the root was computed over.
CheckpointOf(log) == [size |-> Len(log), root |-> merkleRoot[log], covers |-> log]

\* Append, under the lock.  The entry is in the log before the signature.
AppendEntry(d) ==
  LET log == Append(entries, d)
  IN  /\ Len(entries) < MaxLogged
      /\ entries' = log
      /\ signed' = signed \cup {CheckpointOf(log)}
      /\ records' = records \cup
           {[data |-> d, index |-> Len(entries), checkpoint |-> CheckpointOf(log),
             proof |-> inclusionProof(log, Len(entries))]}
      /\ UNCHANGED <<reopens, failures>>

\* Append whose signCheckpoint fails: no record, but the entry stays.
AppendUnsigned(d) ==
  /\ Len(entries) < MaxLogged /\ failures < MaxFailures
  /\ entries' = Append(entries, d)
  /\ failures' = failures + 1
  /\ UNCHANGED <<signed, records, reopens>>

\* Checkpoint(): a fresh head over the current log.
SignHead ==
  /\ signed' = signed \cup {CheckpointOf(entries)}
  /\ UNCHANGED <<entries, records, reopens, failures>>

\* The next invocation: NewTransLog with the same key, an empty log.
Reopen ==
  /\ reopens < MaxReopens
  /\ reopens' = reopens + 1
  /\ entries' = <<>>
  /\ UNCHANGED <<signed, records, failures>>

LogNext ==
  \/ \E d \in Data : AppendEntry(d)
  \/ \E d \in Data : AppendUnsigned(d)
  \/ SignHead
  \/ Reopen

LogSpec == LogInit /\ [][LogNext]_logVars

-----------------------------------------------------------------------------
\* VerifyInclusion: the checkpoint is signed by the trusted key, the bytes are
\* those of the entry hash, the path leads to the signed root.
VerifyInclusion(rec, loggedBytes) ==
  /\ rec.checkpoint \in signed
  /\ loggedBytes = rec.data
  /\ verifyInclusion(loggedBytes, rec.index, rec.checkpoint.size, rec.proof, rec.checkpoint.root)

-----------------------------------------------------------------------------
LogTypeOK ==
  /\ entries \in BoundedSeq(Data, MaxLogged)
  /\ \A c \in signed : c = CheckpointOf(c.covers)
  /\ \A r \in records : r.checkpoint \in signed /\ r.data \in Data
  /\ reopens \in 0 .. MaxReopens /\ failures \in 0 .. MaxFailures

\* Every record the log ever handed out verifies, for the bytes that were
\* logged and at the size it was made for, whatever was appended, failed to be
\* signed or was started anew since (translog.go:75, "returns an inclusion
\* record proving membership in the resulting checkpoint").
EveryRecordVerifies == \A r \in records : VerifyInclusion(r, r.data)

\* The hashes a prover could put into a path: those of any run of the entries.
SubtreeHashes ==
  {merkleRoot[SubSeq(entries, a, b)] : a \in 1 .. Len(entries), b \in 1 .. Len(entries)}
    \ {hashEmpty}

\* What verifies was logged: a signed head accepts bytes d at index i, with any
\* path made of hashes of the log, only if d is what was logged at i and the
\* path is the one the log gives (translog.go:119-125, the two things both of
\* which must hold, and merkle.go:9-11, no leaf is taken for an inner node).
OnlyTheLoggedVerifies ==
  reopens = 0 /\ CheckpointOf(entries) \in signed /\ Len(entries) <= MaxForged =>
    \A d \in Data, i \in 0 .. Len(entries), p \in BoundedSeq(SubtreeHashes, 3) :
      verifyInclusion(d, i, Len(entries), p, merkleRoot[entries])
        => /\ i < Len(entries) /\ entries[i + 1] = d
           /\ p = inclusionProof(entries, i)

\* A record the log handed out verifies, and nothing verifies that was not logged
\* (merkle.go, translog.go:119-125).
InclusionIsExact == EveryRecordVerifies /\ OnlyTheLoggedVerifies

\* Of any two heads the log key signed, the larger covers the smaller one's entries
\* (translog.go:18-21, "an append-only Merkle log whose head is signed by the log's
\* own key").
NoHeadIsTakenBack ==
  \A a, b \in signed : a.size <= b.size => SubSeq(b.covers, 1, a.size) = a.covers
==============================================================================
