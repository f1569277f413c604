----------------------------- MODULE FactStore ------------------------------
(***************************************************************************)
(* The durable facts on disk (fact_store.py): one immutable directory per  *)
(* Source Hour, one seal or one abandonment record per Source Day.         *)
(*                                                                         *)
(* The contents of a committed hour are a value: what matters is whether   *)
(* two commits of an hour have the same bytes, and whether the hour was    *)
(* indexed while its uploads were still arriving (Growing).  An hour       *)
(* directory that shutil.rmtree has begun to delete is Torn: it exists,    *)
(* and every reader of it raises.                                          *)
(*                                                                         *)
(* The operators are the store's operations; each names what it raises on  *)
(* and what it changes, so that a caller composes them with its own steps. *)
(***************************************************************************)
EXTENDS SourceCalendar

CONSTANTS
    Finals,     \* contents of an hour all of whose uploads have arrived
    Growing,    \* contents of an hour indexed too early
    Absent,     \* no directory for the hour
    Torn,       \* a half-deleted directory
    NoSeal      \* no seal file for the day

Contents == Finals \cup {Growing}

ASSUME StoreAssumption ==
    /\ Finals # {}
    /\ Growing \notin Finals
    /\ Absent \notin Contents \cup {Torn}
    /\ Torn \notin Contents
    /\ NoSeal \notin [HourNos -> Contents]

VARIABLES
    hours,      \* facts/hourly: [Days -> [HourNos -> contents, Absent or Torn]]
    seals,      \* facts/sealed/*.seal.json: [Days -> NoSeal or hour contents]
    abandoned   \* facts/sealed/*.abandoned.json: the set of abandoned days

disk == <<hours, seals, abandoned>>

StoreTypeOK ==
    /\ hours \in [Days -> [HourNos -> Contents \cup {Absent, Torn}]]
    /\ seals \in [Days -> [HourNos -> Contents] \cup {NoSeal}]
    /\ abandoned \subseteq Days

StoreInit ==
    /\ hours = [d \in Days |-> [h \in HourNos |-> Absent]]
    /\ seals = [d \in Days |-> NoSeal]
    /\ abandoned = {}

-----------------------------------------------------------------------------
HasSeal(d)  == seals[d] # NoSeal
SealedDays  == { d \in Days : HasSeal(d) }
Undecided_SealOnly(d) == ~HasSeal(d)    \* bug: abandonment records are ignored
Undecided(d) == ~HasSeal(d) /\ d \notin abandoned

\* _read_hour returns instead of raising FactMissing or FactCorrupt
Readable_Exists(d, h) == hours[d][h] # Absent    \* bug: its files are not looked at
Readable(d, h) == hours[d][h] \in Contents

\* missing_hours raises on an hour directory that exists and is not whole
ScanRaises(d)   == \E h \in HourNos : hours[d][h] = Torn
MissingHours(d) == { h \in HourNos : hours[d][h] = Absent }

\* commit_hour: promote the staged directory, reuse the same bytes, or refuse;
\* one run at a time commits only absent hours, runs that overlap (SharedFacts)
\* find hours that another has committed
CommitRaises_Unread(d, h, c) == hours[d][h] = Torn    \* bug: bytes not compared
CommitRaises(d, h, c) == hours[d][h] \notin {Absent, c}
CommitHour(d, h, c) ==
    /\ hours' = [hours EXCEPT ![d][h] = IF @ = Absent THEN c ELSE @]
    /\ UNCHANGED <<seals, abandoned>>

\* seal_day: refuses an abandoned day, an unreadable hour, another seal
SealRaises(d) ==
    \/ d \in abandoned
    \/ \E h \in HourNos : ~Readable(d, h)
    \/ seals[d] \notin {NoSeal, hours[d]}
SealDay(d) ==
    /\ seals' = [seals EXCEPT ![d] = hours[d]]
    /\ UNCHANGED <<hours, abandoned>>

\* abandon_day: refuses a sealed day, and a first record of no missing hours
AbandonRaises(d, missing) ==
    \/ HasSeal(d)
    \/ d \notin abandoned /\ missing = {}
AbandonDay(d) ==
    /\ abandoned' = abandoned \cup {d}
    /\ UNCHANGED <<hours, seals>>

\* hour_paths with verify_hours: the day's seal exists and matches its hours
VerifiedDay(d) == HasSeal(d) /\ hours[d] = seals[d]

-----------------------------------------------------------------------------
\* prune, step by step: seals first, oldest first, then hour directories, each
\* removed by a shutil.rmtree that a crash can interrupt half-way
PruneApplies_More == Cardinality(SealedDays) > RetainDays    \* bug: strict
PruneApplies == Cardinality(SealedDays) >= RetainDays

\* bug: the slice ends one seal early
ExpiredSeals_OneFewer(cutoff) ==
    { d \in SealedDays : d < cutoff /\ \E e \in SealedDays : d < e /\ e < cutoff }
ExpiredSeals(cutoff) == { d \in SealedDays : d < cutoff }
UnlinkSeal(d) ==
    /\ seals' = [seals EXCEPT ![d] = NoSeal]
    /\ UNCHANGED <<hours, abandoned>>

\* bug: the cutoff day itself goes too
ExpiredHours_Inclusive(cutoff) ==
    { dh \in Days \X HourNos : dh[1] <= cutoff /\ hours[dh[1]][dh[2]] # Absent }
ExpiredHours(cutoff) ==
    { dh \in Days \X HourNos : dh[1] < cutoff /\ hours[dh[1]][dh[2]] # Absent }
TearHour(d, h) ==
    /\ hours' = [hours EXCEPT ![d][h] = Torn]
    /\ UNCHANGED <<seals, abandoned>>
RemoveHour(d, h) ==
    /\ hours' = [hours EXCEPT ![d][h] = Absent]
    /\ UNCHANGED <<seals, abandoned>>

=============================================================================
