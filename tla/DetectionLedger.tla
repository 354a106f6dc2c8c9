--------------------------- MODULE DetectionLedger ---------------------------
(***************************************************************************)
(* What the runtime sensor promises about detections, whatever its rules,  *)
(* sinks and responders do: each detection is owed once, and before the    *)
(* run closes it is settled exactly once, as an alert or as an operator's  *)
(* waiver.  A run may close early (end of stream, error, cancellation),    *)
(* but never between observing a detection and settling it.                *)
(***************************************************************************)
CONSTANT Detection

VARIABLES owed, alerted, waived, open

ledger == <<owed, alerted, waived, open>>

Init == owed = {} /\ alerted = {} /\ waived = {} /\ open = TRUE

\* A scanned event raises new detections; nothing else is owed meanwhile.
Observe ==
    /\ open /\ owed = {}
    /\ owed' # {} /\ owed' \subseteq Detection \ (alerted \cup waived)
    /\ UNCHANGED <<alerted, waived, open>>

Alert(d) ==
    /\ owed' = owed \ {d} /\ alerted' = alerted \cup {d}
    /\ UNCHANGED <<waived, open>>

Waive(d) ==
    /\ owed' = owed \ {d} /\ waived' = waived \cup {d}
    /\ UNCHANGED <<alerted, open>>

Close ==
    /\ open /\ owed = {}
    /\ open' = FALSE
    /\ UNCHANGED <<owed, alerted, waived>>

Next == Observe \/ (\E d \in owed : Alert(d) \/ Waive(d)) \/ Close

Spec == Init /\ [][Next]_ledger
=============================================================================
