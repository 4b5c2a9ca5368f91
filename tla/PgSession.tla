----------------------------- MODULE PgSession ------------------------------
(***************************************************************************)
(* The settings of one pooled PostgreSQL backend and what session.py does  *)
(* to them.  A backend has two layers: what its session has, and what the  *)
(* open transaction has put over it.  SET LOCAL and set_config(.., true)   *)
(* write the upper layer, and the end of the transaction drops it.         *)
(*                                                                         *)
(* A setting is [role, guards, context]: the current role, the guard GUCs  *)
(* that are at their expected value, and the mcp_sql.* context GUCs.       *)
(***************************************************************************)
EXTENDS Naturals

CONSTANTS
    Profiles,    \* access tiers; each has a role of its own
    Contexts,    \* what SESSION_CONTEXT hooks return ({guc: value})
    NoContext,   \* no hook, or a hook that returned None
    LoginRole    \* the role the readonly alias connects as

ASSUME PgSessionAssumption ==
    /\ LoginRole \notin Profiles
    /\ NoContext \notin Contexts

\* EXPECTED_SESSION_GUCS, in the order enter_readonly_session sets them
GuardOrder == <<"statement_timeout", "lock_timeout",
                "idle_in_transaction_session_timeout",
                "default_transaction_read_only">>

GuardPrefix(n) == {GuardOrder[i] : i \in 1..n}

Guards == GuardPrefix(4)

Settings == [role    : Profiles \cup {LoginRole},
             guards  : SUBSET Guards,
             context : Contexts \cup {NoContext}]

LoginSettings == [role |-> LoginRole, guards |-> {}, context |-> NoContext]

\* readOnly is the transaction's own read-only flag.
BackendStates == [session : Settings, local : Settings, readOnly : BOOLEAN]

\* A connection just opened by the pool.
FreshBackend ==
    [session |-> LoginSettings, local |-> LoginSettings, readOnly |-> FALSE]

-----------------------------------------------------------------------------

\* BEGIN: the transaction starts from the session's settings and takes its
\* read-only flag from default_transaction_read_only as it is at this moment.
BeginTransaction(b) ==
    [session  |-> b.session,
     local    |-> b.session,
     readOnly |-> "default_transaction_read_only" \in b.session.guards]

\* SET LOCAL of the settings s: the transaction layer only.  The flag of the
\* running transaction does not follow default_transaction_read_only.
SetLocal(b, s) == [session |-> b.session, local |-> s, readOnly |-> b.readOnly]

\* COMMIT and ROLLBACK both pop what was set locally.
EndTransaction(b) ==
    [session |-> b.session, local |-> b.session, readOnly |-> FALSE]

\* What a statement of the open transaction runs under.
Effective(b) == b.local

\* The settings enter_readonly_session leads to ...
EnteredSettings(b, role, context) ==
    [role    |-> role,
     guards  |-> Guards,
     context |-> IF context = NoContext THEN b.local.context ELSE context]

\* ... and those it may have reached when one of its statements fails: the
\* role first, then the guards one by one, then the context.
PartialSettings(b, role, context) ==
    {b.local} \cup {[role    |-> role,
                     guards  |-> b.local.guards \cup GuardPrefix(n),
                     context |-> b.local.context] : n \in 0..4}

\* Mutant: a bare SET writes the session layer too.
EnterBare(b, role, context) ==
    LET s == EnteredSettings(b, role, context)
    IN  [session |-> s, local |-> s, readOnly |-> b.readOnly]

enter_readonly_session(b, role, context) ==
    SetLocal(b, EnteredSettings(b, role, context))

\* session_drift: the settings that are not as the role's session has them
SessionDrift(b, role) ==
    (Guards \ Effective(b).guards)
      \cup IF Effective(b).role = role THEN {} ELSE {"current_user"}
=============================================================================
