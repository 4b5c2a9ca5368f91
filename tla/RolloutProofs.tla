---------------------------- MODULE RolloutProofs ----------------------------
(***************************************************************************)
(* Proofs about the grant runs and the smoke run, for any profiles, tables *)
(* and whitelists, any number of runs and any changes of a DBA.            *)
(***************************************************************************)
EXTENDS Rollout, TLAPS

\* The profiles a run q is through with
Past(q) == IF q.at = "done" THEN Profiles ELSE {ProfileOrder[j] : j \in 1..(q.i - 1)}

Here(q) == ProfileOrder[q.i]

\* What a run holds on to whatever the others do: it works within its mode and
\* its whitelist.
WithinWhitelist(q) ==
    /\ q.at = "idle" => q.i = 1 /\ ~q.apply /\ q.skipped = {}
    /\ q.apply => q.strict
    /\ q.strict => q.skipped = {}
    /\ q.at \in {"role", "membership", "parity", "read", "apply"} =>
          q.declared[Here(q)] \cap AuditTables = {}
    /\ q.at = "apply" =>
          /\ q.apply
          /\ q.report[Here(q)].granted \subseteq q.declared[Here(q)]
          /\ q.report[Here(q)].revoked \cap q.declared[Here(q)] = {}

\* What it knows of the grants g while nobody else changes them
InStep(q, g) ==
    /\ q.apply => \A p \in Past(q) : g[p] = q.declared[p]
    /\ ~q.apply => \A p \in Past(q) \ q.skipped : q.report[p] = Drift(q.declared, p, g[p])
    /\ q.at = "apply" => q.report[Here(q)] = Drift(q.declared, Here(q), g[Here(q)])

RunOK(q) == q \in Run /\ q.i \in DOMAIN ProfileOrder

RunsInv ==
    /\ TypeOK
    /\ \A r \in Runs : WithinWhitelist(run[r])
    /\ \A r \in Runs \ disturbed : InStep(run[r], grants)

-----------------------------------------------------------------------------
(* One run *)

LEMMA OrderTyped ==
    /\ DOMAIN ProfileOrder = 1..Len(ProfileOrder)
    /\ Len(ProfileOrder) \in Nat \ {0}
    /\ \A i \in DOMAIN ProfileOrder : ProfileOrder[i] \in Profiles
    /\ Profiles = {ProfileOrder[j] : j \in 1..Len(ProfileOrder)}
BY GrantsAssumption DEF Profiles

LEMMA AdvancedRun ==
    ASSUME NEW q, RunOK(q)
    PROVE  /\ RunOK(Advanced(q))
           /\ Advanced(q).at \in {"done", "whitelist"}
           /\ Advanced(q).strict = q.strict /\ Advanced(q).apply = q.apply
           /\ Advanced(q).declared = q.declared /\ Advanced(q).report = q.report
           /\ Advanced(q).skipped = q.skipped
           /\ q.at # "done" => Past(Advanced(q)) = Past(q) \cup {Here(q)}
<1>1. q.i \in 1..Len(ProfileOrder) /\ Len(ProfileOrder) \in Nat /\ q.i \in Nat
  BY OrderTyped DEF RunOK
<1>2. CASE q.i = Len(ProfileOrder)
  <2>1. Advanced(q) = [q EXCEPT !.at = "done"]
    BY <1>2 DEF Advanced
  <2>2. 1..Len(ProfileOrder) = 1..(q.i - 1) \cup {q.i}
    BY <1>1, <1>2
  <2>3. Profiles = {ProfileOrder[j] : j \in 1..(q.i - 1)} \cup {Here(q)}
    BY <2>2, OrderTyped DEF Here
  <2> QED
    BY <2>1, <2>3 DEF RunOK, Run, Past
<1>3. CASE q.i # Len(ProfileOrder)
  <2>1. Advanced(q) = [q EXCEPT !.at = "whitelist", !.i = @ + 1]
    BY <1>3 DEF Advanced
  <2>2. q.i + 1 \in DOMAIN ProfileOrder /\ q.i + 1 \in Nat
    BY <1>1, <1>3, OrderTyped
  <2>3. /\ Advanced(q).i = q.i + 1 /\ Advanced(q).at = "whitelist"
        /\ Advanced(q).strict = q.strict /\ Advanced(q).apply = q.apply
        /\ Advanced(q).declared = q.declared /\ Advanced(q).report = q.report
        /\ Advanced(q).skipped = q.skipped
        /\ Advanced(q) \in Run
    BY <2>1, <2>2 DEF RunOK, Run
  <2>4. 1..((q.i + 1) - 1) = 1..(q.i - 1) \cup {q.i}
    BY <1>1
  <2>5. q.at # "done" => Past(Advanced(q)) = Past(q) \cup {Here(q)}
    BY <2>3, <2>4 DEF Past, Here
  <2> QED
    BY <2>2, <2>3, <2>5 DEF RunOK
<1> QED
  BY <1>2, <1>3

\* A step of a run r that leaves the database alone
LEMMA RunStep ==
    ASSUME RunsInv, NEW r \in Runs, NEW q, run' = [run EXCEPT ![r] = q],
           UNCHANGED database,
           RunOK(q), WithinWhitelist(q), r \notin disturbed => InStep(q, grants)
    PROVE  RunsInv'
<1>1. /\ run'[r] = q
      /\ \A s \in Runs : s # r => run'[s] = run[s]
      /\ grants' = grants /\ disturbed' = disturbed
  BY DEF database, RunsInv, TypeOK
<1>2. TypeOK'
  BY <1>1 DEF RunsInv, TypeOK, RunOK, database
<1>3. \A s \in Runs : WithinWhitelist(run'[s])
  BY <1>1 DEF RunsInv
<1>4. \A s \in Runs \ disturbed' : InStep(run'[s], grants')
  BY <1>1 DEF RunsInv
<1> QED
  BY <1>2, <1>3, <1>4 DEF RunsInv, WithinWhitelist, InStep, Past, Here, Drift

\* A step to the next check of the same profile, or to failure
LEMMA PlaceStep ==
    ASSUME RunsInv, NEW r \in Runs, Active(r),
           NEW place \in {"role", "membership", "parity", "read", "failed"},
           run' = [run EXCEPT ![r].at = place], UNCHANGED database,
           place # "failed" => Declared(r) \cap AuditTables = {}
    PROVE  RunsInv'
<1> DEFINE q == [run[r] EXCEPT !.at = place]
<1>1. RunOK(run[r]) /\ run[r].at \notin {"idle", "done"}
  BY DEF RunsInv, TypeOK, RunOK, Active
<1>2. /\ RunOK(q) /\ q.at = place /\ q.i = run[r].i /\ q.strict = run[r].strict
      /\ q.apply = run[r].apply /\ q.declared = run[r].declared
      /\ q.report = run[r].report /\ q.skipped = run[r].skipped
  BY <1>1 DEF RunOK, Run
<1>3. Past(q) = Past(run[r]) /\ Here(q) = Here(run[r])
  BY <1>1, <1>2 DEF Past, Here
<1>4. WithinWhitelist(q)
  BY <1>2, <1>3 DEF RunsInv, WithinWhitelist, Declared, Profile, Here
<1>5. r \notin disturbed => InStep(q, grants)
  BY <1>2, <1>3 DEF RunsInv, InStep
<1> HIDE DEF q
<1> QED
  BY <1>2, <1>4, <1>5, RunStep DEF q

\* A step to the next profile, of one the run reconciled or skipped
LEMMA AdvanceStep ==
    ASSUME RunsInv, NEW r \in Runs, NEW q, RunOK(q), q.at \notin {"idle", "done"},
           WithinWhitelist(q), r \notin disturbed => InStep(q, grants),
           r \notin disturbed =>
              /\ q.apply => grants[Here(q)] = q.declared[Here(q)]
              /\ ~q.apply => Here(q) \in q.skipped \/
                    q.report[Here(q)] = Drift(q.declared, Here(q), grants[Here(q)]),
           run' = [run EXCEPT ![r] = Advanced(q)], UNCHANGED database
    PROVE  RunsInv'
<1>1. WithinWhitelist(Advanced(q))
  BY AdvancedRun DEF WithinWhitelist
<1>2. r \notin disturbed => InStep(Advanced(q), grants)
  BY AdvancedRun DEF InStep
<1> QED
  BY <1>1, <1>2, AdvancedRun, RunStep

LEMMA StartStep ==
    ASSUME RunsInv, NEW r \in Runs, Start(r) PROVE RunsInv'
<1>1. PICK m \in Modes :
        run' = [run EXCEPT ![r].at = "whitelist", ![r].strict = m.strict, ![r].apply = m.apply]
  BY DEF Start
<1> DEFINE q == [run[r] EXCEPT !.at = "whitelist", !.strict = m.strict, !.apply = m.apply]
<1>2. /\ m.strict \in BOOLEAN
      /\ m.apply \in BOOLEAN
      /\ m.apply => m.strict
  <2>1. CASE m = [strict |-> TRUE, apply |-> FALSE]
    BY <2>1
  <2>2. CASE m = [strict |-> TRUE, apply |-> TRUE]
    BY <2>2
  <2>3. CASE m = [strict |-> FALSE, apply |-> FALSE]
    BY <2>3
  <2> QED
    BY <2>1, <2>2, <2>3 DEF Modes
<1>3. RunOK(run[r]) /\ run[r].at = "idle" /\ run[r].i = 1 /\ WithinWhitelist(run[r])
  BY DEF Start, RunsInv, TypeOK, RunOK, WithinWhitelist
<1>4. /\ RunOK(q) /\ q.at = "whitelist" /\ q.i = 1 /\ q.strict = m.strict
      /\ q.apply = m.apply /\ q.skipped = run[r].skipped
  <2> DEFINE placed == [run[r] EXCEPT !.at = "whitelist"]
             strict == [placed EXCEPT !.strict = m.strict]
  <2>1. RunOK(placed) /\ placed.at = "whitelist" /\ placed.i = 1
        /\ placed.skipped = run[r].skipped
    BY <1>3 DEF RunOK, Run
  <2>2. RunOK(strict) /\ strict.at = "whitelist" /\ strict.i = 1
        /\ strict.skipped = run[r].skipped /\ strict.strict = m.strict
    BY <1>2, <2>1 DEF RunOK, Run
  <2>3. q = [strict EXCEPT !.apply = m.apply]
    OBVIOUS
  <2> HIDE DEF q, strict
  <2> QED
    BY <1>2, <2>2, <2>3 DEF RunOK, Run
<1>5. Past(q) = {}
  BY <1>4 DEF Past
<1>6. run[r].skipped = {}
  BY <1>3 DEF WithinWhitelist
<1>7. WithinWhitelist(q)
  BY <1>2, <1>4, <1>6 DEF WithinWhitelist
<1>8. InStep(q, grants)
  BY <1>4, <1>5 DEF InStep
<1>9. run' = [run EXCEPT ![r] = q] /\ UNCHANGED database
  BY <1>1 DEF Start
<1> HIDE DEF q
<1> QED
  BY <1>4, <1>7, <1>8, <1>9, RunStep

\* self_referential_entries, and the preflights
LEMMA CheckStep ==
    ASSUME RunsInv, NEW r \in Runs,
           CheckWhitelist(r) \/ CheckRole(r) \/ CheckMembership(r) \/ CheckParity(r)
    PROVE  RunsInv'
<1>1. RunOK(run[r]) /\ Active(r) /\ UNCHANGED database
  BY DEF CheckWhitelist, CheckRole, CheckMembership, CheckParity, RunsInv, TypeOK, RunOK,
         Active, Goto
<1>2. CASE CheckWhitelist(r)
  BY <1>1, <1>2, PlaceStep DEF CheckWhitelist, Goto
<1>3. Profile(r) = Here(run[r]) /\ Declared(r) = run[r].declared[Here(run[r])]
  BY DEF Profile, Here, Declared
<1>4. CASE CheckParity(r)
  <2>1. Declared(r) \cap AuditTables = {}
    BY <1>3, <1>4 DEF CheckParity, RunsInv, WithinWhitelist
  <2> QED
    BY <1>1, <1>4, <2>1, PlaceStep DEF CheckParity, Goto
<1>5. ASSUME NEW place \in {"membership", "parity"}, run[r].at \in {"role", "membership"},
             \/ run' = [run EXCEPT ![r].at = place]
             \/ run' = [run EXCEPT ![r].at = "failed"]
             \/ ~run[r].strict /\ run' = [run EXCEPT ![r] = Advanced(Skipped(@, Profile(r)))]
      PROVE  RunsInv'
  <2>1. Declared(r) \cap AuditTables = {}
    BY <1>3, <1>5 DEF RunsInv, WithinWhitelist
  <2>2. CASE run' = [run EXCEPT ![r].at = place]
    BY <1>1, <2>1, <2>2, PlaceStep
  <2>3. CASE run' = [run EXCEPT ![r].at = "failed"]
    BY <1>1, <2>3, PlaceStep
  <2>4. CASE ~run[r].strict /\ run' = [run EXCEPT ![r] = Advanced(Skipped(@, Profile(r)))]
    <3> DEFINE q == Skipped(run[r], Profile(r))
    <3>1. run' = [run EXCEPT ![r] = Advanced(q)]
      BY <2>4
    <3>2. Profile(r) \in Profiles
      BY <1>1, OrderTyped DEF Profile, RunOK
    <3>3. /\ RunOK(q) /\ q.at = run[r].at /\ q.i = run[r].i /\ q.strict = run[r].strict
          /\ q.apply = run[r].apply /\ q.declared = run[r].declared
          /\ q.report = run[r].report /\ q.skipped = run[r].skipped \cup {Profile(r)}
      BY <1>1, <3>2 DEF Skipped, RunOK, Run
    <3>4. Past(q) = Past(run[r]) /\ Here(q) = Here(run[r])
      BY <3>3 DEF Past, Here
    <3>5. WithinWhitelist(q)
      BY <1>5, <2>4, <3>3, <3>4 DEF RunsInv, WithinWhitelist
    <3>6. r \notin disturbed => InStep(q, grants)
      BY <3>3, <3>4 DEF RunsInv, InStep
    <3>7. ~q.apply /\ Here(q) \in q.skipped
      BY <1>3, <2>4, <3>3, <3>4 DEF RunsInv, WithinWhitelist
    <3>8. q.at \notin {"idle", "done"}
      BY <1>5, <3>3
    <3> HIDE DEF q
    <3> QED
      BY <1>1, <3>1, <3>3, <3>5, <3>6, <3>7, <3>8, AdvanceStep
  <2> QED
    BY <1>5, <2>2, <2>3, <2>4
<1>6. CASE CheckRole(r)
  <2>1. CASE Profile(r) \in roles
    BY <1>5, <1>6, <2>1 DEF CheckRole, Preflight
  <2>2. CASE Profile(r) \notin roles
    BY <1>5, <1>6, <2>2 DEF CheckRole, Preflight
  <2> QED
    BY <2>1, <2>2
<1>7. CASE CheckMembership(r)
  <2>1. CASE Profile(r) \in members
    BY <1>5, <1>7, <2>1 DEF CheckMembership, Preflight
  <2>2. CASE Profile(r) \notin members
    BY <1>5, <1>7, <2>2 DEF CheckMembership, Preflight
  <2> QED
    BY <2>1, <2>2
<1> QED
  BY <1>2, <1>4, <1>6, <1>7

LEMMA ReadStep ==
    ASSUME RunsInv, NEW r \in Runs, ReadGrants(r) PROVE RunsInv'
<1> DEFINE p     == Profile(r)
           drift == Drift(run[r].declared, p, grants[p])
           q     == [run[r] EXCEPT !.report[p] = drift]
           n     == [q EXCEPT !.at = "apply"]
<1>1. RunOK(run[r]) /\ run[r].at = "read" /\ WithinWhitelist(run[r]) /\ UNCHANGED database
  BY DEF ReadGrants, RunsInv, TypeOK, RunOK
<1>2. p \in Profiles /\ p = Here(run[r])
  BY <1>1, OrderTyped DEF Profile, Here, RunOK
<1>3. grants[p] \subseteq Tables /\ run[r].declared[p] \subseteq Tables
  BY <1>1, <1>2, GrantsAssumption DEF RunsInv, TypeOK, RunOK, Run
<1>4. drift \in Drifts
  BY <1>3 DEF Drift, Drifts
<1>5. drift.granted = run[r].declared[p] \ grants[p] /\ drift.revoked = grants[p] \ run[r].declared[p]
  BY DEF Drift
<1>6. /\ RunOK(q) /\ q.at = "read" /\ q.i = run[r].i /\ q.strict = run[r].strict
      /\ q.apply = run[r].apply /\ q.declared = run[r].declared /\ q.skipped = run[r].skipped
      /\ q.report[p] = drift
      /\ \A o \in Profiles : o # p => q.report[o] = run[r].report[o]
  BY <1>1, <1>2, <1>4 DEF RunOK, Run
<1>7. Past(q) = Past(run[r]) /\ Here(q) = p
  BY <1>2, <1>6 DEF Past, Here
<1>8. Past(run[r]) \subseteq Profiles /\ p \notin Past(run[r])
  <2>1. run[r].i \in 1..Len(ProfileOrder) /\ Len(ProfileOrder) \in Nat
    BY <1>1, OrderTyped DEF RunOK
  <2>2. \A j \in 1..(run[r].i - 1) : j \in DOMAIN ProfileOrder /\ j # run[r].i
    BY <2>1, OrderTyped
  <2>3. Past(run[r]) = {ProfileOrder[j] : j \in 1..(run[r].i - 1)}
    BY <1>1 DEF Past
  <2>4. \A j \in 1..(run[r].i - 1) : ProfileOrder[j] # ProfileOrder[run[r].i]
    BY <1>1, <2>2, GrantsAssumption DEF RunOK
  <2> QED
    BY <1>2, <2>2, <2>3, <2>4, OrderTyped DEF Here
<1>9. WithinWhitelist(q)
  BY <1>1, <1>2, <1>6, <1>7 DEF WithinWhitelist
<1>10. r \notin disturbed => InStep(q, grants)
  BY <1>6, <1>7, <1>8 DEF RunsInv, InStep
<1>11. CASE q.apply /\ drift # NoDrift
  <2>1. run' = [run EXCEPT ![r] = n]
    BY <1>11 DEF ReadGrants
  <2>2. /\ RunOK(n) /\ n.at = "apply" /\ n.i = q.i /\ n.strict = q.strict
        /\ n.apply = q.apply /\ n.declared = q.declared /\ n.skipped = q.skipped
        /\ n.report = q.report
    BY <1>6 DEF RunOK, Run
  <2>3. Past(n) = Past(q) /\ Here(n) = p
    BY <1>6, <1>7, <2>2 DEF Past, Here
  <2>4. WithinWhitelist(n)
    <3>1. q.declared[p] \cap AuditTables = {} /\ (q.strict => q.skipped = {})
      BY <1>6, <1>7, <1>9 DEF WithinWhitelist
    <3>2. /\ drift.granted \subseteq q.declared[p]
          /\ drift.revoked \cap q.declared[p] = {}
      BY <1>5, <1>6
    <3>3. q.apply /\ q.strict
      BY <1>9, <1>11 DEF WithinWhitelist
    <3> HIDE DEF n, q, drift
    <3> QED
      BY <1>6, <2>2, <2>3, <3>1, <3>2, <3>3 DEF WithinWhitelist
  <2>5. r \notin disturbed => InStep(n, grants)
    BY <1>6, <1>7, <1>10, <2>2, <2>3 DEF InStep
  <2> HIDE DEF n
  <2> QED
    BY <1>1, <2>1, <2>2, <2>4, <2>5, RunStep
<1>12. CASE ~(q.apply /\ drift # NoDrift)
  <2>1. run' = [run EXCEPT ![r] = Advanced(q)]
    BY <1>12 DEF ReadGrants
  <2>2. q.apply => grants[p] = q.declared[p]
    <3> SUFFICES ASSUME q.apply PROVE grants[p] = q.declared[p]
      OBVIOUS
    <3>1. drift = NoDrift
      BY <1>12
    <3>2. drift.granted = {} /\ drift.revoked = {}
      BY <3>1 DEF NoDrift
    <3> QED
      BY <1>5, <1>6, <3>2
  <2>3. q.report[p] = Drift(q.declared, p, grants[p])
    BY <1>6
  <2> HIDE DEF q, drift
  <2> QED
    BY <1>1, <1>6, <1>7, <1>9, <1>10, <2>1, <2>2, <2>3, AdvanceStep
<1> QED
  BY <1>11, <1>12

LEMMA IdleInStep ==
    ASSUME NEW q, NEW g, WithinWhitelist(q), q.at = "idle" PROVE InStep(q, g)
<1>1. Past(q) = {}
  BY DEF WithinWhitelist, Past
<1> QED
  BY <1>1 DEF InStep

LEMMA ApplyStep ==
    ASSUME RunsInv, NEW r \in Runs, Apply(r) PROVE RunsInv'
<1> DEFINE q == run[r]
           p == Profile(r)
           g == (grants[p] \cup Todo(r).granted) \ Todo(r).revoked
<1>1. RunOK(q) /\ q.at = "apply" /\ WithinWhitelist(q)
  BY DEF Apply, RunsInv, TypeOK, RunOK
<1>2. p = Here(q) /\ p \in Profiles /\ Todo(r) = q.report[p]
  BY <1>1, OrderTyped DEF Profile, Here, RunOK, Todo
<1>3. grants' = [grants EXCEPT ![p] = g] /\ run' = [run EXCEPT ![r] = Advanced(q)]
  BY DEF Apply
<1>4. /\ run'[r] = Advanced(q)
      /\ \A s \in Runs \ {r} : run'[s] = run[s]
  BY <1>3 DEF RunsInv, TypeOK
<1>5. /\ disturbed \subseteq disturbed' /\ disturbed' \subseteq Runs
      /\ \A s \in Runs \ {r} : s \notin disturbed' => run[s].at = "idle"
  BY DEF Apply, Disturb, RunsInv, TypeOK
<1>6. Todo(r).granted \subseteq Tables
  BY <1>1, <1>2 DEF RunOK, Run, Drifts
<1>7. TypeOK'
  <2>1. g \subseteq Tables
    BY <1>2, <1>6 DEF RunsInv, TypeOK
  <2>2. grants' \in [Profiles -> SUBSET Tables]
    BY <1>2, <1>3, <2>1 DEF RunsInv, TypeOK
  <2>3. run' \in [Runs -> Run] /\ \A s \in Runs : run'[s].i \in DOMAIN ProfileOrder
    BY <1>1, <1>3, <1>4, AdvancedRun DEF RunsInv, TypeOK, RunOK
  <2> QED
    BY <1>5, <2>2, <2>3 DEF RunsInv, TypeOK, Apply
<1>8. \A s \in Runs : WithinWhitelist(run'[s])
  <2>1. WithinWhitelist(Advanced(q))
    BY <1>1, AdvancedRun DEF WithinWhitelist
  <2> QED
    BY <1>4, <2>1 DEF RunsInv
<1>9. \A s \in Runs \ disturbed' : InStep(run'[s], grants')
  <2>1. ASSUME r \notin disturbed' PROVE InStep(Advanced(q), grants')
    <3>1. InStep(q, grants) /\ q.apply
      BY <1>1, <1>5, <2>1 DEF RunsInv, WithinWhitelist
    <3>2. Todo(r) = Drift(q.declared, p, grants[p])
      BY <1>1, <1>2, <3>1 DEF InStep
    <3>3. /\ Todo(r).granted = q.declared[p] \ grants[p]
          /\ Todo(r).revoked = grants[p] \ q.declared[p]
      BY <3>2 DEF Drift
    <3>4. g = q.declared[p]
      BY <3>3
    <3>5. Past(q) \subseteq Profiles
      <4>1. \A j \in 1..(q.i - 1) : j \in DOMAIN ProfileOrder
        BY <1>1, OrderTyped DEF RunOK
      <4> QED
        BY <1>1, <4>1, OrderTyped DEF Past
    <3>6. \A o \in Past(q) \cup {p} : grants'[o] = q.declared[o]
      BY <1>2, <1>3, <3>1, <3>4, <3>5 DEF InStep, RunsInv, TypeOK
    <3> QED
      BY <1>1, <1>2, <3>1, <3>6, AdvancedRun DEF InStep
  <2>2. ASSUME NEW s \in Runs \ {r}, s \notin disturbed' PROVE InStep(run[s], grants')
    BY <1>5, <2>2, IdleInStep DEF RunsInv
  <2> QED
    BY <1>4, <2>1, <2>2
<1> QED
  BY <1>7, <1>8, <1>9 DEF RunsInv, WithinWhitelist, InStep, Past, Here, Drift

LEMMA FailStep ==
    ASSUME RunsInv, NEW r \in Runs, ApplyFails(r) PROVE RunsInv'
<1>1. Active(r) /\ run' = [run EXCEPT ![r].at = "failed"] /\ UNCHANGED database
  BY DEF ApplyFails, Active, Goto
<1> QED
  BY <1>1, PlaceStep

\* The DBA and the migrations: who changes a grant disturbs every run.
LEMMA OtherStep ==
    ASSUME RunsInv, TypeOK', run' = run, disturbed \subseteq disturbed',
           grants' = grants \/ (\A r \in Runs : run[r].at # "idle" => r \in disturbed')
    PROVE  RunsInv'
<1>1. \A r \in Runs : WithinWhitelist(run'[r])
  BY DEF RunsInv
<1>2. \A r \in Runs \ disturbed' : InStep(run'[r], grants')
  BY IdleInStep DEF RunsInv
<1> QED
  BY <1>1, <1>2 DEF RunsInv, WithinWhitelist, InStep, Past, Here, Drift

LEMMA OthersKeepInv ==
    ASSUME RunsInv,
           \/ \E p \in Profiles : \/ CreateRole(p) \/ RevokeMembership(p)
                                  \/ \E t \in Tables : GrantByHand(p, t) \/ GrantInsert(p, t)
           \/ \E named \in SUBSET Profiles : GrantMembership(named)
           \/ \E t \in Tables : Migrate(t)
           \/ RevokeAudit
    PROVE  RunsInv'
<1> USE DEF RunsInv, TypeOK, Change
<1>1. ASSUME NEW p \in Profiles, CreateRole(p) PROVE RunsInv'
  BY <1>1, OtherStep DEF CreateRole
<1>2. ASSUME NEW p \in Profiles, RevokeMembership(p) PROVE RunsInv'
  BY <1>2, OtherStep DEF RevokeMembership
<1>3. ASSUME NEW p \in Profiles, NEW t \in Tables, GrantByHand(p, t) PROVE RunsInv'
  <2>1. /\ grants' \in [Profiles -> SUBSET Tables]
        /\ run' = run /\ disturbed \subseteq disturbed' /\ disturbed' \subseteq Runs
        /\ \A r \in Runs : run[r].at # "idle" => r \in disturbed'
    BY <1>3 DEF GrantByHand, Disturb
  <2>2. TypeOK'
    BY <1>3, <2>1 DEF GrantByHand
  <2> HIDE DEF RunsInv, TypeOK
  <2> QED
    BY <2>1, <2>2, OtherStep
<1>4. ASSUME NEW p \in Profiles, NEW t \in Tables, GrantInsert(p, t) PROVE RunsInv'
  BY <1>4, OtherStep DEF GrantInsert
<1>5. ASSUME NEW named \in SUBSET Profiles, GrantMembership(named) PROVE RunsInv'
  BY <1>5, OtherStep DEF GrantMembership
<1>6. ASSUME NEW t \in Tables, Migrate(t) PROVE RunsInv'
  BY <1>6, OtherStep DEF Migrate
<1>7. CASE RevokeAudit
  <2>1. /\ grants' \in [Profiles -> SUBSET Tables]
        /\ run' = run /\ disturbed \subseteq disturbed' /\ disturbed' \subseteq Runs
        /\ grants' = grants \/ (\A r \in Runs : run[r].at # "idle" => r \in disturbed')
    BY <1>7 DEF RevokeAudit, Disturb
  <2>2. TypeOK'
    BY <1>7, <2>1 DEF RevokeAudit
  <2> HIDE DEF RunsInv, TypeOK
  <2> QED
    BY <2>1, <2>2, OtherStep
<1> QED
  BY <1>1, <1>2, <1>3, <1>4, <1>5, <1>6, <1>7

LEMMA SameGrants == RunsInv /\ UNCHANGED vars => RunsInv'
<1> SUFFICES ASSUME RunsInv, UNCHANGED vars PROVE RunsInv'
  OBVIOUS
<1>1. TypeOK'
  BY DEF vars, RunsInv, TypeOK
<1>2. \A r \in Runs : WithinWhitelist(run'[r])
  BY DEF vars, RunsInv
<1>3. \A r \in Runs \ disturbed' : InStep(run'[r], grants')
  BY DEF vars, RunsInv
<1> QED
  BY <1>1, <1>2, <1>3 DEF RunsInv

LEMMA SmokeLeavesGrants == SmokeStep => UNCHANGED <<vars, inserts>>
BY DEF SmokeStep, SmokeStart, EnterRead, VerifyDrift, SelectTable, EnterAudit, SelectAudit,
       EnterWrite, InsertRow, SmokeAt

LEMMA InitRunsInv == RolloutInit => RunsInv
<1> SUFFICES ASSUME RolloutInit PROVE RunsInv
  OBVIOUS
<1>1. [p \in Profiles |-> NoDrift] \in [Profiles -> Drifts]
  BY DEF NoDrift, Drifts
<1>2. \A r \in Runs : run[r] \in Run /\ run[r].at = "idle" /\ run[r].i = 1
                     /\ run[r].apply = FALSE /\ run[r].skipped = {}
  <2>1. TAKE r \in Runs
  <2>2. run[r] \in [at : {"idle"}, strict : {TRUE}, apply : {FALSE}, declared : Whitelists,
                    i : {1}, report : {[p \in Profiles |-> NoDrift]}, skipped : {{}}]
    BY <2>1 DEF RolloutInit, Init
  <2>3. PICK d \in Whitelists :
           run[r] = [at |-> "idle", strict |-> TRUE, apply |-> FALSE, declared |-> d, i |-> 1,
                     report |-> [p \in Profiles |-> NoDrift], skipped |-> {}]
    BY <2>2
  <2> QED
    BY <1>1, <2>3 DEF Run
<1>3. 1 \in DOMAIN ProfileOrder
  BY OrderTyped
<1>4. TypeOK
  BY <1>2, <1>3 DEF RolloutInit, Init, TypeOK
<1>5. \A r \in Runs : WithinWhitelist(run[r])
  BY <1>2 DEF WithinWhitelist
<1>6. \A r \in Runs : InStep(run[r], grants)
  BY <1>2, <1>5, IdleInStep
<1> QED
  BY <1>4, <1>5, <1>6 DEF RunsInv

LEMMA NextRunsInv == RunsInv /\ [RolloutNext]_rolloutVars => RunsInv'
<1> SUFFICES ASSUME RunsInv, [RolloutNext]_rolloutVars PROVE RunsInv'
  OBVIOUS
<1>1. CASE SmokeStep
  BY <1>1, SmokeLeavesGrants, SameGrants
<1>2. ASSUME NEW r \in Runs, Step(r) PROVE RunsInv'
  BY <1>2, StartStep, CheckStep, ReadStep, ApplyStep, FailStep DEF Step
<1>3. CASE Others
  <2>1. CASE Quiet
    BY <2>1, SameGrants DEF Quiet
  <2>2. \A p \in Profiles : {p} \in SUBSET Profiles
    OBVIOUS
  <2> QED
    BY <1>2, <1>3, <2>1, <2>2, OthersKeepInv DEF Others, Next
<1>4. CASE UNCHANGED rolloutVars
  BY <1>4, SameGrants DEF rolloutVars
<1> QED
  BY <1>1, <1>3, <1>4 DEF RolloutNext

LEMMA RunsInvariance == RolloutSpec => []RunsInv
BY InitRunsInv, NextRunsInv, PTL DEF RolloutSpec

\* For any whitelists, number of runs and changes around them: a profile an --apply
\* run is through with has exactly its declared grants, unless someone else changed
\* one since.
THEOREM ApplySyncs == RolloutSpec => []AppliedProfilesInSync
<1>1. RunsInv => AppliedProfilesInSync
  BY DEF RunsInv, InStep, AppliedProfilesInSync, Past, Behind
<1> QED
  BY <1>1, RunsInvariance, PTL

\* For any whitelists, number of runs and changes around them: a run without --apply
\* reports the drift of every profile it did not skip.
THEOREM ReportsAreDrift == RolloutSpec => []ReportIsDrift
<1>1. RunsInv => ReportIsDrift
  BY DEF RunsInv, InStep, ReportIsDrift, Past, Behind, Drift
<1> QED
  BY <1>1, RunsInvariance, PTL

\* A run changes the grants of no profile but the one it is at, grants nothing but
\* what its whitelist declares, and revokes nothing of that.
THEOREM RunsKeepWithin == RolloutSpec => RunsKeepToTheirProfile
<1> DEFINE Keeps(r) ==
             \A p \in Profiles :
                LET gained == grants'[p] \ grants[p]
                    dropped == grants[p] \ grants'[p]
                IN  gained \cup dropped # {} =>
                      /\ run[r].apply /\ p = Profile(r)
                      /\ gained \subseteq Declared(r) \ AuditTables
                      /\ dropped \cap Declared(r) = {}
<1>1. ASSUME RunsInv, [RolloutNext]_rolloutVars, NEW r \in Runs, run'[r] # run[r]
      PROVE  Keeps(r)
  <2>1. CASE grants' = grants
    BY <2>1
  <2>2. ASSUME NEW s \in Runs, Apply(s) PROVE Keeps(r)
    <3>1. r = s
      BY <1>1, <2>2 DEF Apply, RunsInv, TypeOK
    <3>2. RunOK(run[r]) /\ WithinWhitelist(run[r]) /\ run[r].at = "apply"
      BY <1>1, <2>2, <3>1 DEF Apply, RunsInv, TypeOK, RunOK
    <3>3. /\ run[r].apply
          /\ Todo(r).granted \subseteq Declared(r) \ AuditTables
          /\ Todo(r).revoked \cap Declared(r) = {}
      BY <3>2 DEF WithinWhitelist, Todo, Declared, Profile, Here
    <3>4. \A p \in Profiles :
            grants'[p] = IF p = Profile(r) THEN (grants[p] \cup Todo(r).granted) \ Todo(r).revoked
                         ELSE grants[p]
      BY <1>1, <2>2, <3>1 DEF Apply, RunsInv, TypeOK
    <3> QED
      BY <3>3, <3>4
  <2>3. run' = run \/ grants' = grants \/ \E s \in Runs : Apply(s)
    BY <1>1, SmokeLeavesGrants
    DEF RolloutNext, Others, Next, Step, Start, CheckWhitelist, CheckRole, CheckMembership,
        CheckParity, ReadGrants, ApplyFails, database, CreateRole, GrantMembership, Migrate,
        GrantByHand, RevokeAudit, RevokeMembership, GrantInsert, Quiet, vars, rolloutVars
  <2> QED
    BY <1>1, <2>1, <2>2, <2>3
<1>2. RunsInv /\ [RolloutNext]_rolloutVars
        => [\A r \in Runs : run'[r] # run[r] => Keeps(r)]_vars
  BY <1>1
<1> QED
  BY <1>2, RunsInvariance, PTL DEF RolloutSpec, RunsKeepToTheirProfile
-----------------------------------------------------------------------------
(* The smoke run *)

\* The backend inside a transaction of the smoke run
Entered(p) == PG!enter_readonly_session(PG!BeginTransaction(PG!FreshBackend), p, "none")

Inside == {"drift", "select", "select audit", "insert"}

SeenOK == seen \in [so : SUBSET AllFacts, notSo : SUBSET AllFacts]

\* While it is under way, what is so now has been noted,
NotesNow == UnderWay => Facts \subseteq seen.so /\ AllFacts \ Facts \subseteq seen.notSo

\* what it has passed was so, and its backend is the one of a transaction of its
\* own or a fresh one.
SmokeInv ==
    /\ smoke \in [at : Places, profile : Profiles, table : Tables]
    /\ inserts \in [Profiles -> SUBSET Tables]
    /\ SeenOK
    /\ NotesNow
    /\ backend = IF smoke.at \in Inside THEN Entered(p0) ELSE PG!FreshBackend
    /\ smoke.at \in {"drift", "select"} => "member" \in seen.so
    /\ smoke.at \in {"enter audit", "select audit", "enter write", "insert"} =>
          {"member", "reads"} \subseteq seen.so
    /\ smoke.at \in {"enter write", "insert"} => "hidden" \in seen.so \/ "member" \in seen.notSo
    /\ smoke.at = "ok" => seen.so = AllFacts \/ "member" \in seen.notSo
    /\ smoke.at = "audit readable" =>
          "hidden" \in seen.notSo /\ {"member", "reads"} \subseteq seen.so
    /\ smoke.at = "write accepted" =>
          /\ "refused" \in seen.notSo /\ {"member", "reads"} \subseteq seen.so
          /\ "hidden" \in seen.so \/ "member" \in seen.notSo

LEMMA BackendFacts ==
    ASSUME NEW p \in Profiles
    PROVE  /\ PG!EndTransaction(Entered(p)) = PG!FreshBackend
           /\ PG!EndTransaction(PG!FreshBackend) = PG!FreshBackend
           /\ Entered(p).readOnly = FALSE
           /\ PG!SessionDrift(Entered(p), p) = {}
           /\ Entered(p) \in PG!BackendStates /\ PG!FreshBackend \in PG!BackendStates
<1>1. Entered(p) = [session  |-> PG!LoginSettings,
                    local    |-> [role |-> p, guards |-> PG!Guards, context |-> "none"],
                    readOnly |-> FALSE]
  <2> DEFINE b == PG!BeginTransaction(PG!FreshBackend)
  <2>1. ("default_transaction_read_only" \in PG!LoginSettings.guards) = FALSE
    BY DEF PG!LoginSettings
  <2>2. b.session = PG!LoginSettings /\ b.local = PG!LoginSettings
    BY DEF PG!BeginTransaction, PG!FreshBackend
  <2>3. b.readOnly = FALSE
    BY <2>1, Zenon DEF PG!BeginTransaction, PG!FreshBackend
  <2>4. PG!EnteredSettings(b, p, "none") = [role |-> p, guards |-> PG!Guards, context |-> "none"]
    BY <2>2 DEF PG!EnteredSettings, PG!LoginSettings
  <2> HIDE DEF b
  <2> QED
    BY <2>2, <2>3, <2>4, Zenon DEF b, Entered, PG!enter_readonly_session, PG!SetLocal
<1>2. /\ PG!EndTransaction(Entered(p)) = PG!FreshBackend
      /\ PG!EndTransaction(PG!FreshBackend) = PG!FreshBackend
      /\ Entered(p).readOnly = FALSE
  BY <1>1 DEF PG!EndTransaction, PG!FreshBackend
<1>3. PG!SessionDrift(Entered(p), p) = {}
  BY <1>1 DEF PG!SessionDrift, PG!Effective
<1>4. PG!LoginSettings \in PG!Settings
  BY DEF PG!LoginSettings, PG!Settings
<1>5. [role |-> p, guards |-> PG!Guards, context |-> "none"] \in PG!Settings
  BY DEF PG!Settings
<1>6. Entered(p) \in PG!BackendStates /\ PG!FreshBackend \in PG!BackendStates
  BY <1>1, <1>4, <1>5 DEF PG!BackendStates, PG!FreshBackend
<1> QED
  BY <1>2, <1>3, <1>6

\* The history only grows, and keeps up with a run that is under way.
LEMMA WatchFacts ==
    ASSUME SeenOK, Watch
    PROVE  /\ SeenOK' /\ NotesNow'
           /\ seen.so \subseteq seen'.so /\ seen.notSo \subseteq seen'.notSo
<1>1. Facts' \subseteq AllFacts
  BY DEF Facts, AllFacts
<1>2. CASE UnderWay'
  BY <1>1, <1>2 DEF Watch, SeenOK, NotesNow, AllFacts
<1>3. CASE ~UnderWay'
  BY <1>3 DEF Watch, SeenOK, NotesNow
<1> QED
  BY <1>2, <1>3

LEMMA SmokeStepInv ==
    ASSUME SmokeInv, TypeOK, SmokeStep, Watch PROVE SmokeInv'
<1>1. SeenOK /\ NotesNow /\ p0 \in Profiles /\ smoke \in [at : Places, profile : Profiles, table : Tables]
  BY DEF SmokeInv, p0
<1>2. /\ SeenOK' /\ NotesNow'
      /\ seen.so \subseteq seen'.so /\ seen.notSo \subseteq seen'.notSo
  BY <1>1, WatchFacts
<1>3. inserts' \in [Profiles -> SUBSET Tables]
  BY SmokeLeavesGrants DEF SmokeInv
<1>4. p0 \notin roles => p0 \notin members
  BY DEF TypeOK
<1>5. /\ p0 \in members => "member" \in Facts
      /\ p0 \notin members => "member" \in AllFacts \ Facts
      /\ smoke.table \in grants[p0] => "reads" \in Facts
      /\ smoke.table \notin grants[p0] => "reads" \in AllFacts \ Facts
      /\ AUDIT_TABLE \notin grants[p0] => "hidden" \in Facts
      /\ AUDIT_TABLE \in grants[p0] => "hidden" \in AllFacts \ Facts
      /\ smoke.table \notin inserts[p0] => "refused" \in Facts
      /\ smoke.table \in inserts[p0] => "refused" \in AllFacts \ Facts
  BY DEF Facts, AllFacts
<1>6. ASSUME NEW place \in Places, To(place)
      PROVE  /\ smoke' \in [at : Places, profile : Profiles, table : Tables]
             /\ smoke'.at = place /\ p0' = p0
  BY <1>1, <1>6 DEF To, p0
<1>7. CASE \E p \in Profiles, declared \in Whitelists : SmokeStart(p, declared)
  <2>1. PICK p \in Profiles, declared \in Whitelists : SmokeStart(p, declared)
    BY <1>7
  <2>2. smoke.at = "idle" /\ backend' = PG!FreshBackend
    BY <2>1 DEF SmokeStart, SmokeAt, SmokeInv, Inside
  <2>3. /\ smoke' \in [at : Places, profile : Profiles, table : Tables]
        /\ smoke'.at \in {"enter read", "no table"}
    BY <1>1, <2>1 DEF SmokeStart, To, Places
  <2> QED
    BY <1>2, <1>3, <2>2, <2>3 DEF SmokeInv, Inside
<1>8. CASE EnterRead
  <2>1. smoke.at = "enter read" /\ backend = PG!FreshBackend
    BY <1>8 DEF EnterRead, SmokeAt, SmokeInv, Inside
  <2>2. Facts \subseteq seen.so /\ AllFacts \ Facts \subseteq seen.notSo
    BY <1>1, <2>1 DEF NotesNow, UnderWay, Verdicts
  <2>3. \/ p0 \in members /\ To("drift") /\ backend' = Entered(p0)
        \/ To("failed") /\ backend' = PG!FreshBackend
    BY <1>1, <1>8, <2>1, BackendFacts DEF EnterRead, Enter, Entered, Fails, Leave
  <2> QED
    BY <1>2, <1>3, <1>5, <1>6, <2>2, <2>3 DEF SmokeInv, Inside, Places
<1>9. CASE VerifyDrift
  <2>1. smoke.at = "drift" /\ backend = Entered(p0) /\ "member" \in seen.so
    BY <1>9 DEF VerifyDrift, SmokeAt, SmokeInv, Inside
  <2>2. \/ To("select") /\ backend' = Entered(p0)
        \/ To("failed") /\ backend' = PG!FreshBackend
    BY <1>1, <1>9, <2>1, BackendFacts DEF VerifyDrift, Fails, Leave
  <2> QED
    BY <1>2, <1>3, <1>6, <2>1, <2>2 DEF SmokeInv, Inside, Places
<1>10. CASE SelectTable
  <2>1. smoke.at = "select" /\ backend = Entered(p0) /\ "member" \in seen.so
    BY <1>10 DEF SelectTable, SmokeAt, SmokeInv, Inside
  <2>2. Facts \subseteq seen.so /\ AllFacts \ Facts \subseteq seen.notSo
    BY <1>1, <2>1 DEF NotesNow, UnderWay, Verdicts
  <2>3. backend' = PG!FreshBackend
    BY <1>1, <1>10, <2>1, BackendFacts DEF SelectTable, Fails, Leave
  <2>4. \/ smoke.table \in grants[p0] /\ To("enter audit")
        \/ To("failed")
    BY <1>10 DEF SelectTable, Fails, Leave
  <2> QED
    BY <1>2, <1>3, <1>5, <1>6, <2>1, <2>2, <2>3, <2>4 DEF SmokeInv, Inside, Places
<1>11. CASE EnterAudit
  <2>1. /\ smoke.at = "enter audit" /\ backend = PG!FreshBackend
        /\ {"member", "reads"} \subseteq seen.so
    BY <1>11 DEF EnterAudit, SmokeAt, SmokeInv, Inside
  <2>2. Facts \subseteq seen.so /\ AllFacts \ Facts \subseteq seen.notSo
    BY <1>1, <2>1 DEF NotesNow, UnderWay, Verdicts
  <2>3. \/ To("select audit") /\ backend' = Entered(p0)
        \/ p0 \notin members /\ To("enter write") /\ backend' = PG!FreshBackend
        \/ To("failed") /\ backend' = PG!FreshBackend
    BY <1>1, <1>11, <2>1, BackendFacts DEF EnterAudit, EnterCaught, Enter, Fails, Leave, Entered
  <2> QED
    BY <1>2, <1>3, <1>5, <1>6, <2>1, <2>2, <2>3 DEF SmokeInv, Inside, Places
<1>12. CASE SelectAudit
  <2>1. /\ smoke.at = "select audit" /\ backend = Entered(p0)
        /\ {"member", "reads"} \subseteq seen.so
    BY <1>12 DEF SelectAudit, SmokeAt, SmokeInv, Inside
  <2>2. Facts \subseteq seen.so /\ AllFacts \ Facts \subseteq seen.notSo
    BY <1>1, <2>1 DEF NotesNow, UnderWay, Verdicts
  <2>3. backend' = PG!FreshBackend
    BY <1>1, <1>12, <2>1, BackendFacts DEF SelectAudit, Fails, Leave
  <2>4. \/ AUDIT_TABLE \notin grants[p0] /\ To("enter write")
        \/ AUDIT_TABLE \in grants[p0] /\ To("audit readable")
        \/ To("failed")
    BY <1>12 DEF SelectAudit, Fails, Leave
  <2> QED
    BY <1>2, <1>3, <1>5, <1>6, <2>1, <2>2, <2>3, <2>4 DEF SmokeInv, Inside, Places
<1>13. CASE EnterWrite
  <2>1. /\ smoke.at = "enter write" /\ backend = PG!FreshBackend
        /\ {"member", "reads"} \subseteq seen.so
        /\ "hidden" \in seen.so \/ "member" \in seen.notSo
    BY <1>13 DEF EnterWrite, SmokeAt, SmokeInv, Inside
  <2>2. Facts \subseteq seen.so /\ AllFacts \ Facts \subseteq seen.notSo
    BY <1>1, <2>1 DEF NotesNow, UnderWay, Verdicts
  <2>3. \/ To("insert") /\ backend' = Entered(p0)
        \/ p0 \notin members /\ To("ok") /\ backend' = PG!FreshBackend
        \/ To("failed") /\ backend' = PG!FreshBackend
    BY <1>1, <1>13, <2>1, BackendFacts DEF EnterWrite, EnterCaught, Enter, Fails, Leave, Entered
  <2> QED
    BY <1>2, <1>3, <1>5, <1>6, <2>1, <2>2, <2>3 DEF SmokeInv, Inside, Places
<1>14. CASE InsertRow
  <2>1. /\ smoke.at = "insert" /\ backend = Entered(p0)
        /\ {"member", "reads"} \subseteq seen.so
        /\ "hidden" \in seen.so \/ "member" \in seen.notSo
    BY <1>14 DEF InsertRow, SmokeAt, SmokeInv, Inside
  <2>2. Facts \subseteq seen.so /\ AllFacts \ Facts \subseteq seen.notSo
    BY <1>1, <2>1 DEF NotesNow, UnderWay, Verdicts
  <2>3. backend' = PG!FreshBackend /\ ~backend.readOnly
    BY <1>1, <1>14, <2>1, BackendFacts DEF InsertRow, Fails, Leave
  <2>4. \/ smoke.table \notin inserts[p0] /\ To("ok")
        \/ smoke.table \in inserts[p0] /\ To("write accepted")
        \/ To("failed")
    BY <1>14, <2>3 DEF InsertRow, Fails, Leave, Refused
  <2>5. smoke.table \notin inserts[p0] => seen'.so = AllFacts \/ "member" \in seen'.notSo
    BY <1>2, <1>5, <2>1, <2>2 DEF SeenOK, AllFacts
  <2> QED
    BY <1>2, <1>3, <1>5, <1>6, <2>1, <2>2, <2>3, <2>4, <2>5 DEF SmokeInv, Inside, Places
<1> QED
  BY <1>7, <1>8, <1>9, <1>10, <1>11, <1>12, <1>13, <1>14 DEF SmokeStep

LEMMA NextSmokeInv ==
    RunsInv /\ SmokeInv /\ [RolloutNext]_rolloutVars => SmokeInv'
<1> SUFFICES ASSUME RunsInv, SmokeInv, [RolloutNext]_rolloutVars PROVE SmokeInv'
  OBVIOUS
<1>1. CASE SmokeStep /\ Watch
  BY <1>1, SmokeStepInv DEF RunsInv
<1>2. CASE Others /\ UNCHANGED <<smoke, backend>> /\ Watch
  <2>1. /\ SeenOK' /\ NotesNow'
        /\ seen.so \subseteq seen'.so /\ seen.notSo \subseteq seen'.notSo
    BY <1>2, WatchFacts DEF SmokeInv
  <2>2. inserts' \in [Profiles -> SUBSET Tables]
    <3>1. CASE UNCHANGED inserts
      BY <3>1 DEF SmokeInv
    <3>2. ASSUME NEW p \in Profiles, NEW t \in Tables, GrantInsert(p, t)
          PROVE  inserts' \in [Profiles -> SUBSET Tables]
      BY <3>2 DEF GrantInsert, SmokeInv
    <3> QED
      BY <1>2, <3>1, <3>2 DEF Others, RevokeAudit, RevokeMembership
  <2>3. smoke.at = "ok" /\ seen.so = AllFacts => seen'.so = AllFacts
    BY <2>1 DEF SeenOK
  <2>4. p0' = p0
    BY <1>2 DEF p0
  <2> QED
    BY <1>2, <2>1, <2>2, <2>3, <2>4 DEF SmokeInv
<1>3. CASE UNCHANGED rolloutVars
  BY <1>3 DEF rolloutVars, vars, SmokeInv, SeenOK, NotesNow, UnderWay, Facts, p0
<1> QED
  BY <1>1, <1>2, <1>3 DEF RolloutNext

LEMMA InitSmokeInv == RolloutInit => SmokeInv
<1> SUFFICES ASSUME RolloutInit PROVE SmokeInv
  OBVIOUS
<1>1. AUDIT_TABLE \in Tables /\ DefaultProfile \in Profiles
  BY GrantsAssumption, RolloutAssumption
<1> QED
  BY <1>1 DEF RolloutInit, SmokeInv, SeenOK, NotesNow, UnderWay, Places, Inside

LEMMA SmokeInvariance == RolloutSpec => [](RunsInv /\ SmokeInv)
BY InitRunsInv, NextRunsInv, InitSmokeInv, NextSmokeInv, PTL DEF RolloutSpec

\* Every variable has its type.
THEOREM RolloutTypeCorrect == RolloutSpec => []RolloutTypeOK
<1>1. RunsInv /\ SmokeInv => RolloutTypeOK
  BY BackendFacts DEF RunsInv, SmokeInv, SeenOK, RolloutTypeOK, p0
<1> QED
  BY <1>1, SmokeInvariance, PTL

\* For any profiles and tables, and whatever grants, roles and memberships change
\* while it runs: the pass or the alarm a smoke run ends with was true of its own
\* time, but for a membership revoked in the middle, and its connection goes back
\* without a trace, whatever made it end.
THEOREM SmokeIsRight == RolloutSpec => []SmokeTellsTruth
<1>1. SmokeInv => SmokeTellsTruth
  BY DEF SmokeInv, SmokeTellsTruth, Verdicts, Inside
<1> QED
  BY <1>1, SmokeInvariance, PTL
=============================================================================
