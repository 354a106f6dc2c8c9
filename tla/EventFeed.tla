------------------------------ MODULE EventFeed ------------------------------
(***************************************************************************)
(* The contract of runtime.EventSource: one consumer takes, in order and   *)
(* without gaps, the events the source has observed, until the source ends *)
(* the stream with an error.  Sequence numbers are 1, 2, 3... over the     *)
(* whole stream.  A taken event is never taken back, and what is observed  *)
(* is taken or the stream ends.                                            *)
(***************************************************************************)
EXTENDS Naturals, Sequences

VARIABLES feed, taken, open

feedVars == <<feed, taken, open>>

Init == feed = <<>> /\ taken = 0 /\ open = TRUE

Grow ==
    /\ Len(feed') > Len(feed) /\ SubSeq(feed', 1, Len(feed)) = feed
    /\ \A i \in DOMAIN feed' : feed'[i].seq = i

Observe ==
    /\ Grow
    /\ UNCHANGED <<taken, open>>

Take ==
    /\ open /\ taken < Len(feed)
    /\ taken' = taken + 1
    /\ UNCHANGED <<feed, open>>

\* A poll that answers its caller at once observes and takes in one step.
ObserveAndTake ==
    /\ open /\ taken = Len(feed) /\ Grow
    /\ taken' = taken + 1
    /\ UNCHANGED open

End == open /\ open' = FALSE /\ UNCHANGED <<feed, taken>>

Next == Observe \/ Take \/ ObserveAndTake \/ End

\* What is taken, and when; and that something is.
Safety == Init /\ [][Next]_feedVars
Spec == Safety /\ WF_feedVars(Take)
=============================================================================
