--------------------------- MODULE MCDirectoryLock --------------------------
(* The run lock for TLC; the bounds are in the configurations. *)
EXTENDS DirectoryLock, TLC

CONSTANT Gone       \* a run that has crashed before the others start

\* runs differ in nothing but their names
RunSymmetry == Permutations(Runs)

\* what crashed runs can leave behind: a lock without or with a heartbeat, and
\* the guard of a takeover
LeftBehindInit ==
    /\ lock \in { NoLock, [NoLock EXCEPT !.there = TRUE],
                  [there |-> TRUE, owner |-> Gone, named |-> TRUE, age |-> 0] }
    /\ guard \in { NoGuard, [there |-> TRUE, age |-> 0] }
    /\ leftover = {}
    /\ pc = [r \in Runs |-> IF r = Gone THEN "dead" ELSE "new"]
    /\ lost = [r \in Runs |-> FALSE] /\ over = [r \in Runs |-> FALSE]
    /\ beat = [r \in Runs |-> "off"] /\ beatAge = [r \in Runs |-> 0]
    /\ idle = [r \in Runs |-> 0]

\* the scene of the test: a stale lock, and two contenders
StaleLockSpec ==
    /\ LeftBehindInit /\ lock.owner = Gone /\ ~guard.there
    /\ [][Next]_vars

\* no run reaches its maximum time here, to keep the liveness check small
LeftBehindNext ==
    \/ Tick
    \/ \E r \in Runs : \/ StartAcquire(r) \/ AcquireStep(r) \/ HoldStep(r)
                       \/ Touch(r) \/ Utime(r) \/ Crash(r)

LeftBehindSpec == LeftBehindInit /\ [][LeftBehindNext]_vars /\ Fairness

=============================================================================
