------------------------------ MODULE MCSetup ------------------------------
(* Instances of Setup, and with it of Backup, for TLC. *)
EXTENDS Setup, TLC

CONSTANTS r1, r2
MCSymmetry == Permutations({r1, r2})

MCSchedule(e, k, f) == [enabled |-> e, interval |-> 2, keep |-> k, local |-> TRUE, ftp |-> f]

(* A package of another installation, with its own key, an enabled         *)
(* schedule and an archive of it.                                          *)
MCForeign ==
    {[db |-> [users |-> TRUE, done |-> TRUE, sched |-> MCSchedule(TRUE, 1, FALSE), last |-> 0,
              secret |-> [s \in {"pass", "ftp"} |-> IF s = "pass" THEN [val |-> "w", key |-> "k2"] ELSE NoSecret],
              rows |-> {[id |-> 2, store |-> "local", name |-> 0, at |-> 1]}],
      key |-> "k2", pass |-> "w"]}

(* Both secrets are stored from the start. *)
MCSecrets == {[s \in {"pass", "ftp"} |-> [val |-> "w", key |-> "k1"]]}

MCSchedules == {MCSchedule(TRUE, 1, TRUE)}
=============================================================================
