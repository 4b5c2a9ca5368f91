------------------------------- MODULE Grants -------------------------------
(***************************************************************************)
(* reconcile_grants: the SELECT grants of each profile's role against the  *)
(* profile's whitelist.  It is run by the command mcp_sql_grants (strict,  *)
(* with or without --apply) and after every migrate (lenient, without);    *)
(* profiles are taken one after the other, each with reads of its own and  *)
(* a transaction of its own.  Other runs, with the whitelists of other     *)
(* versions of the code, and a DBA work on the same roles meanwhile.       *)
(***************************************************************************)
EXTENDS Naturals, Sequences, FiniteSets

CONSTANTS
    ProfileOrder,   \* the profiles, in the order of MCP_SQL["PROFILES"]
    Tables,
    AuditTables,    \* tables of the mcp_sql models
    Whitelists,     \* whitelists of the versions that run: profile -> tables
    Runs,           \* runs of reconcile_grants, each made once
    MaxChanges      \* bound: changes the DBA and migrations make

Profiles == {ProfileOrder[i] : i \in DOMAIN ProfileOrder}

ASSUME GrantsAssumption ==
    /\ ProfileOrder \in Seq(Profiles)
    /\ \A i, j \in DOMAIN ProfileOrder : ProfileOrder[i] = ProfileOrder[j] => i = j
    /\ ProfileOrder # <<>>
    /\ AuditTables \subseteq Tables
    /\ Whitelists \subseteq [Profiles -> SUBSET Tables]
    /\ MaxChanges \in Nat

VARIABLES
    roles,       \* profiles whose role exists
    members,     \* profiles whose role the application's login is a member of
    broken,      \* curated views that do not have their model's columns
    grants,      \* the tables each profile's role may SELECT
    run,         \* the runs
    disturbed,   \* history: runs some other actor changed a grant under
    changes

vars == <<roles, members, broken, grants, run, disturbed, changes>>

\* ProfileDrift: what a profile's role lacks, and what it has too much
Drifts == [granted : SUBSET Tables, revoked : SUBSET Tables]

NoDrift == [granted |-> {}, revoked |-> {}]

Run == [at       : {"idle", "whitelist", "role", "membership", "parity", "read", "apply",
                    "done", "failed"},
        strict   : BOOLEAN,
        apply    : BOOLEAN,
        declared : Whitelists,
        i        : Nat,                \* the profile it is at
        report   : [Profiles -> Drifts],   \* DriftDiff.per_profile
        skipped  : SUBSET Profiles]

\* How reconcile_grants is called: the command, its --apply, and post_migrate
Modes == {[strict |-> TRUE,  apply |-> FALSE],
          [strict |-> TRUE,  apply |-> TRUE],
          [strict |-> FALSE, apply |-> FALSE]}

Profile(r)  == ProfileOrder[run[r].i]
Declared(r) == run[r].declared[Profile(r)]
Todo(r)     == run[r].report[Profile(r)]
Active(r)   == run[r].at \notin {"idle", "done", "failed"}

Init ==
    /\ roles \in SUBSET Profiles
    /\ members \in SUBSET roles
    /\ broken = {}
    /\ grants = [p \in Profiles |-> {}]
    /\ run \in [Runs -> [at : {"idle"}, strict : {TRUE}, apply : {FALSE},
                         declared : Whitelists, i : {1}, report : {[p \in Profiles |-> NoDrift]},
                         skipped : {{}}]]
    /\ disturbed = {}
    /\ changes = 0

-----------------------------------------------------------------------------
(* One run *)

database == <<roles, members, broken, grants, disturbed, changes>>

Goto(r, place) == run' = [run EXCEPT ![r].at = place]

Start(r) ==
    /\ run[r].at = "idle"
    /\ \E m \in Modes :
          run' = [run EXCEPT ![r].at = "whitelist", ![r].strict = m.strict,
                             ![r].apply = m.apply]
    /\ UNCHANGED database

\* Mutant: one profile too many.
AdvancedPastEnd(q) ==
    IF q.i > Len(ProfileOrder)
    THEN [q EXCEPT !.at = "done"]
    ELSE [q EXCEPT !.at = "whitelist", !.i = @ + 1]

\* The run q at the next profile, or at its end
Advanced(q) ==
    IF q.i = Len(ProfileOrder)
    THEN [q EXCEPT !.at = "done"]
    ELSE [q EXCEPT !.at = "whitelist", !.i = @ + 1]

\* self_referential_entries: refused whatever the mode
CheckWhitelist(r) ==
    /\ run[r].at = "whitelist"
    /\ IF Declared(r) \cap AuditTables = {} THEN Goto(r, "role") ELSE Goto(r, "failed")
    /\ UNCHANGED database

Skipped(q, p) == [q EXCEPT !.skipped = @ \cup {p}]

\* Mutant: a lenient run ends at the first profile it skips.
PreflightStops(r, holds, place) ==
    run' = [run EXCEPT ![r] =
              IF holds THEN [@ EXCEPT !.at = place]
              ELSE IF @.strict THEN [@ EXCEPT !.at = "failed"]
              ELSE [Skipped(@, Profile(r)) EXCEPT !.at = "done"]]

\* A preflight of the environment: a strict run raises, a lenient one skips
\* the profile.
Preflight(r, holds, place) ==
    run' = [run EXCEPT ![r] =
              IF holds THEN [@ EXCEPT !.at = place]
              ELSE IF @.strict THEN [@ EXCEPT !.at = "failed"]
              ELSE Advanced(Skipped(@, Profile(r)))]

CheckRole(r) ==
    /\ run[r].at = "role"
    /\ Preflight(r, Profile(r) \in roles, "membership")
    /\ UNCHANGED database

CheckMembership(r) ==
    /\ run[r].at = "membership"
    /\ Preflight(r, Profile(r) \in members, "parity")
    /\ UNCHANGED database

\* _verify_view_parity, and declared_tables: an error whatever the mode
CheckParity(r) ==
    /\ run[r].at = "parity"
    /\ IF Declared(r) \cap broken = {} THEN Goto(r, "read") ELSE Goto(r, "failed")
    /\ UNCHANGED database

\* Mutant: what any profile declares is left alone.
DriftOfAll(declared, p, current) ==
    [granted |-> declared[p] \ current,
     revoked |-> current \ UNION {declared[o] : o \in Profiles}]

\* Drift is per role: declared for this profile against granted to its role.
Drift(declared, p, current) ==
    [granted |-> declared[p] \ current, revoked |-> current \ declared[p]]

\* granted_tables: the drift, and whether there is anything to apply
ReadGrants(r) ==
    LET drift == Drift(run[r].declared, Profile(r), grants[Profile(r)])
        q     == [run[r] EXCEPT !.report[Profile(r)] = drift]
    IN  /\ run[r].at = "read"
        /\ run' = [run EXCEPT ![r] = IF q.apply /\ drift # NoDrift
                                     THEN [q EXCEPT !.at = "apply"]
                                     ELSE Advanced(q)]
        /\ UNCHANGED database

\* Someone changed a grant; the runs under way notice nothing.
Disturb(others) == disturbed' = disturbed \cup {r \in others : run[r].at # "idle"}

\* Mutant: stale grants are revoked from every role but this one.
ApplyRevokesOthers(r) ==
    /\ run[r].at = "apply"
    /\ grants' = [p \in Profiles |-> IF p = Profile(r)
                                     THEN grants[p] \cup Todo(r).granted
                                     ELSE grants[p] \ Todo(r).revoked]
    /\ run' = [run EXCEPT ![r] = Advanced(@)]
    /\ Disturb(Runs \ {r})
    /\ UNCHANGED <<roles, members, broken, changes>>

\* GRANTs, then REVOKEs, in one transaction
Apply(r) ==
    /\ run[r].at = "apply"
    /\ grants' = [grants EXCEPT ![Profile(r)] = (@ \cup Todo(r).granted) \ Todo(r).revoked]
    /\ run' = [run EXCEPT ![r] = Advanced(@)]
    /\ Disturb(Runs \ {r})
    /\ UNCHANGED <<roles, members, broken, changes>>

\* A statement fails: the transaction is rolled back and the run ends.
ApplyFails(r) ==
    /\ run[r].at = "apply"
    /\ Goto(r, "failed")
    /\ UNCHANGED database

-----------------------------------------------------------------------------
(* The DBA and the migrations *)

Change == changes < MaxChanges /\ changes' = changes + 1

\* CREATE ROLE of role_setup.sql, which may break off after any of them
CreateRole(p) ==
    /\ Change
    /\ roles' = roles \cup {p}
    /\ UNCHANGED <<members, broken, grants, run, disturbed>>

\* Its other transaction grants the application's login the membership in all the
\* roles it names, or in none if one of them is not there.
GrantMembership(named) ==
    /\ Change
    /\ named \subseteq roles
    /\ members' = members \cup named
    /\ UNCHANGED <<roles, broken, grants, run, disturbed>>

\* A migration leaves a view behind its model, or a later one mends it.
Migrate(t) ==
    /\ Change
    /\ broken' \in {broken \cup {t}, broken \ {t}}
    /\ UNCHANGED <<roles, members, grants, run, disturbed>>

GrantByHand(p, t) ==
    /\ Change
    /\ p \in roles
    /\ \E g \in {grants[p] \cup {t}, grants[p] \ {t}} :
          /\ g # grants[p]
          /\ grants' = [grants EXCEPT ![p] = g]
    /\ Disturb(Runs)
    /\ UNCHANGED <<roles, members, broken, run>>

Step(r) ==
    \/ Start(r)      \/ CheckWhitelist(r) \/ CheckRole(r) \/ CheckMembership(r)
    \/ CheckParity(r) \/ ReadGrants(r)    \/ Apply(r)     \/ ApplyFails(r)

\* Nobody has to start a run.
Quiet == (\A r \in Runs : ~Active(r)) /\ UNCHANGED vars

Next ==
    \/ \E r \in Runs : Step(r)
    \/ \E p \in Profiles : CreateRole(p) \/ \E t \in Tables : GrantByHand(p, t)
    \/ \E named \in {Profiles} \cup {{p} : p \in Profiles} : GrantMembership(named)
    \/ \E t \in Tables \ AuditTables : Migrate(t)
    \/ Quiet

Spec == Init /\ [][Next]_vars

-----------------------------------------------------------------------------
(* Properties *)

\* Every variable has its type.
TypeOK ==
    /\ roles \subseteq Profiles
    /\ members \subseteq roles
    /\ broken \subseteq Tables
    /\ grants \in [Profiles -> SUBSET Tables]
    /\ run \in [Runs -> Run]
    /\ \A r \in Runs : run[r].i \in DOMAIN ProfileOrder
    /\ disturbed \subseteq Runs
    /\ changes \in Nat

\* The profiles the run is through with: all of them, when it is done
Behind(r) ==
    IF run[r].at = "done" THEN Profiles ELSE {ProfileOrder[j] : j \in 1..(run[r].i - 1)}

\* What --apply leaves behind: however the run ends, and wherever it fails, each
\* profile it is through with has exactly its declared grants, unless another
\* actor changed a grant since the run began.
AppliedProfilesInSync ==
    \A r \in Runs : run[r].apply /\ r \notin disturbed =>
        \A p \in Behind(r) : grants[p] = run[r].declared[p]

\* A run steps on nobody's toes: a step of a run changes the grants of the
\* profile it is at and of no other, it grants nothing its whitelist does not
\* declare, revokes nothing it does, and never grants a table of the audit log
\* ("a table shared with another profile is never revoked here just because
\* some OTHER profile does not declare it").
RunsKeepToTheirProfile ==
    [][\A r \in Runs : run'[r] # run[r] =>
         \A p \in Profiles :
            LET gained == grants'[p] \ grants[p]
                dropped == grants[p] \ grants'[p]
            IN  gained \cup dropped # {} =>
                  /\ run[r].apply /\ p = Profile(r)
                  /\ gained \subseteq Declared(r) \ AuditTables
                  /\ dropped \cap Declared(r) = {}]_vars

\* What a run without --apply reports is the drift there is, of every profile
\* it did not skip: "exit 0 = in sync", and a profile that is skipped after
\* migrate must not silence the warning for the others.
ReportIsDrift ==
    \A r \in Runs : ~run[r].apply /\ r \notin disturbed =>
        \A p \in Behind(r) \ run[r].skipped :
            run[r].report[p] = [granted |-> run[r].declared[p] \ grants[p],
                                revoked |-> grants[p] \ run[r].declared[p]]
=============================================================================
