-------------------------- MODULE SourceDayLedger ---------------------------
(***************************************************************************)
(* What the pipeline promises about Source Days, without hours, disks,     *)
(* phases or failures.  Every day has one fate: open, then sealed or       *)
(* abandoned; a sealed day is retired, oldest first, once RetainDays newer *)
(* days are sealed and no public snapshot needs it.  A public snapshot     *)
(* covers consecutive sealed days and its window never moves backwards.    *)
(***************************************************************************)
EXTENDS Integers, FiniteSets, FiniteSetsExt

CONSTANTS Days, Products, RetainDays, AnalysisDays

VARIABLES fate, shown      \* per day its fate, per product the public window

ledger == <<fate, shown>>

Fates == {"open", "sealed", "retired", "abandoned"}
Sealed == { d \in Days : fate[d] = "sealed" }

\* a set of at most AnalysisDays consecutive days
IsWindow(w) ==
    /\ w \subseteq Sealed /\ w # {}
    /\ Cardinality(w) <= AnalysisDays
    /\ w = Min(w) .. Max(w)

LedgerInit ==
    /\ fate = [d \in Days |-> "open"]
    /\ shown = [p \in Products |-> {}]

Seal(d) ==
    /\ fate[d] = "open"
    /\ fate' = [fate EXCEPT ![d] = "sealed"]
    /\ UNCHANGED shown

Abandon(d) ==
    /\ fate[d] = "open"
    /\ fate' = [fate EXCEPT ![d] = "abandoned"]
    /\ UNCHANGED shown

\* the oldest sealed day goes, when RetainDays newer ones stay and no product
\* shows it
Retire(d) ==
    /\ d \in Sealed /\ \A e \in Sealed : d <= e
    /\ Cardinality(Sealed) > RetainDays
    /\ \A p \in Products : d \notin shown[p]
    /\ fate' = [fate EXCEPT ![d] = "retired"]
    /\ UNCHANGED shown

\* a product moves to a window that ends at the newest sealed day
Show(p) ==
    /\ shown' = [shown EXCEPT ![p] = shown'[p]]
    /\ IsWindow(shown'[p]) /\ \A d \in Sealed : d <= Max(shown'[p])
    /\ shown[p] # {} => Max(shown[p]) <= Max(shown'[p])
    /\ UNCHANGED fate

LedgerNext ==
    \/ \E d \in Days : Seal(d) \/ Abandon(d) \/ Retire(d)
    \/ \E p \in Products : Show(p)

LedgerSpec == LedgerInit /\ [][LedgerNext]_ledger

=============================================================================
