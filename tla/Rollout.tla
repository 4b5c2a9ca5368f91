------------------------------ MODULE Rollout -------------------------------
(***************************************************************************)
(* mcp_sql_smoke, which an operator runs after a deploy: it tries the      *)
(* session of one profile in three transactions on the read-only alias.    *)
(* Its statements interleave with the reconciling runs and the DBA of      *)
(* Grants and with the migrations that take the audit tables from          *)
(* mcp_readonly_role.                                                      *)
(***************************************************************************)
EXTENDS Grants

CONSTANTS
    DefaultProfile, \* the profile whose role is mcp_readonly_role
    AUDIT_TABLE,    \* the smoke command's
    AppRole         \* the role the read-only alias connects as

ASSUME RolloutAssumption ==
    /\ DefaultProfile \in Profiles
    /\ AUDIT_TABLE \in AuditTables
    /\ AppRole \notin Profiles

VARIABLES
    inserts,     \* the tables each profile's role may INSERT a row of defaults into
    smoke,       \* the smoke run
    backend,     \* the backend of its connection
    seen         \* history: what was so, and what was not, while it ran

rolloutVars == <<vars, inserts, smoke, backend, seen>>

PG == INSTANCE PgSession WITH Contexts <- {}, NoContext <- "none", LoginRole <- AppRole

\* One place for each statement that may fail, in the three transactions
Places == {"idle", "enter read", "drift", "select", "enter audit", "select audit",
           "enter write", "insert",
           "ok", "audit readable", "write accepted", "failed", "no table"}

RolloutInit ==
    /\ Init
    /\ inserts = [p \in Profiles |-> {}]
    /\ smoke = [at |-> "idle", profile |-> DefaultProfile, table |-> AUDIT_TABLE]
    /\ backend = PG!FreshBackend
    /\ seen = [so |-> {}, notSo |-> {}]

-----------------------------------------------------------------------------
(* mcp_sql_smoke *)

p0 == smoke.profile

SmokeAt(place) == smoke.at = place /\ UNCHANGED <<vars, inserts>>

To(place) == smoke' = [smoke EXCEPT !.at = place]

\* The transaction is over, by commit or by rollback.
Leave(place) == To(place) /\ backend' = PG!EndTransaction(backend)

\* --profile, and --table or the first table of the profile's whitelist; without
\* either the command ends.
SmokeStart(p, declared) ==
    /\ SmokeAt("idle")
    /\ \/ \E t \in Tables :
             smoke' = [smoke EXCEPT !.at = "enter read", !.profile = p, !.table = t]
       \/ declared[p] = {} /\ To("no table")
    /\ UNCHANGED backend

\* Every statement may fail, whatever the grants are: a lock or statement timeout,
\* a lost connection, a table that is not there, a view that takes no INSERT, a NOT
\* NULL column.  The command then ends with that error, or with the unexpected code.
Fails == Leave("failed")

\* transaction.atomic and enter_readonly_session
Enter(place) ==
    /\ backend' = PG!enter_readonly_session(PG!BeginTransaction(backend), p0, "none")
    /\ To(place)

\* The first transaction catches nothing.
EnterRead ==
    /\ SmokeAt("enter read")
    /\ (p0 \in members /\ Enter("drift")) \/ Fails

VerifyDrift ==
    /\ SmokeAt("drift")
    /\ \/ PG!SessionDrift(backend, p0) = {} /\ To("select") /\ UNCHANGED backend
       \/ Fails

SelectTable ==
    /\ SmokeAt("select")
    /\ (smoke.table \in grants[p0] /\ Leave("enter audit")) \/ Fails

\* The other two catch every error of theirs and look at its code: SET ROLE by
\* one who is not a member fails with 42501 as well, for a role that is not
\* there with another code.
EnterCaught(next, passed) ==
    \/ p0 \in members /\ Enter(next)
    \/ p0 \in roles \ members /\ Leave(passed)
    \/ Fails

EnterAudit ==
    /\ SmokeAt("enter audit")
    /\ EnterCaught("select audit", "enter write")

\* Mutant: any error of the SELECT will do, and so will rows.
SelectAuditLax ==
    /\ SmokeAt("select audit")
    /\ Leave("enter write")

\* _verify_audit_unreadable: refused with 42501, as it should be, or the alarm
SelectAudit ==
    /\ SmokeAt("select audit")
    /\ \/ AUDIT_TABLE \notin grants[p0] /\ Leave("enter write")
       \/ AUDIT_TABLE \in grants[p0] /\ Leave("audit readable")
       \/ Fails

EnterWrite ==
    /\ SmokeAt("enter write")
    /\ EnterCaught("insert", "ok")

Refused == backend.readOnly \/ smoke.table \notin inserts[p0]

\* _verify_write_rejected: refused with 25006 or 42501, as it should be, or the
\* alarm, its row rolled back
InsertRow ==
    /\ SmokeAt("insert")
    /\ \/ Refused /\ Leave("ok")
       \/ ~Refused /\ Leave("write accepted")
       \/ Fails

-----------------------------------------------------------------------------
(* Others *)

\* Migrations 0002 and 0008: only mcp_readonly_role's, and only if it is there
RevokeAudit ==
    /\ Change
    /\ DefaultProfile \in roles
    /\ grants' = [grants EXCEPT ![DefaultProfile] = @ \ AuditTables]
    /\ IF grants' # grants THEN Disturb(Runs) ELSE UNCHANGED disturbed
    /\ UNCHANGED <<roles, members, broken, run, inserts>>

\* The DBA gives a role more than SELECT, or takes the membership back.
GrantInsert(p, t) ==
    /\ Change
    /\ p \in roles
    /\ t \notin inserts[p]
    /\ inserts' = [inserts EXCEPT ![p] = @ \cup {t}]
    /\ UNCHANGED <<roles, members, broken, grants, run, disturbed>>

RevokeMembership(p) ==
    /\ Change
    /\ p \in members
    /\ members' = members \ {p}
    /\ UNCHANGED <<roles, broken, grants, run, disturbed, inserts>>

SmokeStep ==
    \/ \E p \in Profiles, declared \in Whitelists : SmokeStart(p, declared)
    \/ EnterRead  \/ VerifyDrift \/ SelectTable
    \/ EnterAudit \/ SelectAudit
    \/ EnterWrite \/ InsertRow

\* What the smoke run is to find out of its profile and table
Facts == {f \in {"member", "reads", "hidden", "refused"} :
            \/ f = "member"  /\ p0 \in members
            \/ f = "reads"   /\ smoke.table \in grants[p0]
            \/ f = "hidden"  /\ AUDIT_TABLE \notin grants[p0]
            \/ f = "refused" /\ smoke.table \notin inserts[p0]}

AllFacts == {"member", "reads", "hidden", "refused"}

Verdicts == {"ok", "audit readable", "write accepted", "failed"}

UnderWay == smoke.at \notin Verdicts \cup {"idle", "no table"}

Watch == seen' = IF UnderWay' THEN [so    |-> seen.so \cup Facts',
                                    notSo |-> seen.notSo \cup (AllFacts \ Facts')]
                 ELSE seen

Others ==
    \/ Next /\ UNCHANGED inserts
    \/ RevokeAudit
    \/ \E p \in Profiles : RevokeMembership(p) \/ \E t \in Tables : GrantInsert(p, t)

RolloutNext ==
    /\ SmokeStep \/ (Others /\ UNCHANGED <<smoke, backend>>)
    /\ Watch

RolloutSpec == RolloutInit /\ [][RolloutNext]_rolloutVars

-----------------------------------------------------------------------------
(* Properties *)

\* Every variable has its type.
RolloutTypeOK ==
    /\ TypeOK
    /\ inserts \in [Profiles -> SUBSET Tables]
    /\ smoke \in [at : Places, profile : Profiles, table : Tables]
    /\ backend \in PG!BackendStates
    /\ seen \in [so : SUBSET AllFacts, notSo : SUBSET AllFacts]

\* What a smoke run says is so, although grants change while it runs.  If it
\* passes, the table could be read, the audit table not, and a write was refused,
\* each at some moment of the run; if it raises an alarm, the audit table could be
\* read, or the table written, at some moment of the run, and what it had passed
\* until then was so.  An error says of the grants nothing: every statement fails
\* for causes of its own as well.  The one gap of a pass: when the membership is
\* revoked in the middle, SET ROLE fails with 42501, which the later two checks take
\* for the refusal they wait for.  A connection given back carries nothing of a
\* session, however the run ends.
SmokeTellsTruth ==
    /\ smoke.at = "ok" => seen.so = AllFacts \/ "member" \in seen.notSo
    /\ smoke.at = "audit readable" =>
          "hidden" \in seen.notSo /\ {"member", "reads"} \subseteq seen.so
    /\ smoke.at = "write accepted" =>
          /\ "refused" \in seen.notSo /\ {"member", "reads"} \subseteq seen.so
          /\ "hidden" \in seen.so \/ "member" \in seen.notSo
    /\ smoke.at \in Verdicts => backend = PG!FreshBackend
=============================================================================
