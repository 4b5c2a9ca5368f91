------------------------------ MODULE MCRollout ------------------------------
(* Small instances of Grants and of Rollout for TLC. *)
EXTENDS Rollout, TLC

\* Two profiles that share the table t; one version of the code declares tables
\* for both, another none for one and, by mistake, one of the audit log.
TwoProfiles == <<"p", "q">>

Mistaken == {"p" :> {"t"} @@ "q" :> {"t", "u"},
             "p" :> {} @@ "q" :> {"log"}}

\* Bound: two commands and one change, or one command and two changes.
Budget ==
    LET smokes   == IF smoke'.at = "idle" THEN 0 ELSE 1
        commands == Cardinality({r \in Runs : run'[r].at # "idle"}) + smokes
    IN  commands <= 2 /\ commands + changes' <= 3

\* Bound: an INSERT the smoke run does not try plays no part.
Tried == inserts' # inserts => UnderWay /\ smoke.table \in inserts'[p0]

MCSpec == RolloutInit /\ [][RolloutNext /\ Budget /\ Tried]_rolloutVars

Symmetry == Permutations(Runs)
=============================================================================
