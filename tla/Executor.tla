------------------------------ MODULE Executor ------------------------------
(***************************************************************************)
(* executor.run_query and the metadata tools as concurrent calls.  Every   *)
(* tool call runs on a thread of its own (sync_to_async with               *)
(* thread_sensitive=False), reads through one of a small pool of           *)
(* PostgreSQL backends (transaction-mode pooling: a backend belongs to a   *)
(* call from BEGIN to COMMIT or ROLLBACK), and writes its audit row        *)
(* through the unrelated `default` database afterwards.                    *)
(*                                                                         *)
(* One call goes through the stages                                        *)
(*   idle -> validate -> prepare -> begin -> enter -> execute              *)
(*        -> commit | rollback -> audit -> count -> answered               *)
(* and leaves the pipeline early for `audit` at each early return, or for  *)
(* `escaped` where an exception leaves run_query without an audit row.     *)
(***************************************************************************)
EXTENDS Limits, PgSession, Sequences, FiniteSets

CONSTANTS
    Calls,           \* tool calls, each made once
    Backends,        \* server connections of the pool
    NoBackend,
    ToolLimits,      \* values of the tool's `limit` argument
    SqlLimits,       \* LIMITs the SQL may carry
    MaxRows,         \* bound: rows a statement matches
    RejectReasons,   \* reasons parse_and_validate rejects with
    NULL             \* a column left at its NULL default

ASSUME ExecutorAssumption ==
    /\ NoBackend \notin Backends
    /\ ToolLimits \subseteq Int \cup {NoLimit}
    /\ MaxRows \in Nat
    /\ NULL \notin Nat

\* The calls a deployment ever serves
ASSUME FiniteCalls == IsFiniteSet(Calls)

VARIABLES
    stage,     \* where each call is
    query,     \* each call's arguments and what the pipeline learned
    holds,     \* the backend each call's transaction runs on
    backend,   \* the settings of each backend
    draft,     \* the audit row each call is about to write
    result,    \* the QueryResult each call returns, or its exception
    log,       \* MCPQueryLog rows, per call, in the order written
    gaps,      \* failed audit inserts, reported by logger.exception
    sent,      \* calls whose wrapped SQL reached PostgreSQL
    volume     \* record_query_volume's count, per decision

vars == <<stage, query, holds, backend, draft, result, log, gaps, sent, volume>>

-----------------------------------------------------------------------------
(* Types *)

Stages == {"idle", "validate", "prepare", "begin", "enter", "execute", "commit",
           "rollback", "audit", "count", "answered", "escaped"}

Tools     == {"run_query", "list_tables", "describe_table"}
Decisions == {"allowed", "rejected"}

\* OutcomeReason, "" (none) and the metadata tools' whitelist error
Reasons == RejectReasons \cup
           {"", "parse_error", "misconfigured", "timeout", "execution_error",
            "not_whitelisted"}

Query == [tool : Tools \cup {"none"}, profile : Profiles, limit : ToolLimits \cup {NoLimit},
          sqlLimit : SqlLimits \cup {NoLimit}, context : Contexts \cup {NoContext}, total : 0..MaxRows]

Row == [tool : Tools, profile : Profiles, decision : Decisions, reason : Reasons,
        wrapped : BOOLEAN, row_count : Nat \cup {NULL}, truncated : BOOLEAN]

QueryResult == [raised : BOOLEAN, reason : Reasons, row_count : Nat,
                truncated : BOOLEAN]

NoQuery(p) == [tool |-> "none", profile |-> p, limit |-> NoLimit, sqlLimit |-> NoLimit,
               context |-> NoContext, total |-> 0]

EmptyResult(reason, raised) ==
    [raised |-> raised, reason |-> reason, row_count |-> 0, truncated |-> FALSE]

NoResult == EmptyResult("", FALSE)

-----------------------------------------------------------------------------
(* Rows and results the pipeline builds *)

\* The columns of an MCPQueryLog row
LogRow(c, tool, decision, reason, wrapped, row_count, truncated) ==
    [tool |-> tool, profile |-> query[c].profile, decision |-> decision,
     reason |-> reason, wrapped |-> wrapped, row_count |-> row_count,
     truncated |-> truncated]

\* ... with the optional ones at their defaults.
AuditRow(c, decision, reason, wrapped) ==
    LogRow(c, "run_query", decision, reason, wrapped, NULL, FALSE)

\* An early return: the row, the structured result, then the audit.
Finish(c, row, res) ==
    /\ draft'  = [draft EXCEPT ![c] = row]
    /\ result' = [result EXCEPT ![c] = res]
    /\ stage'  = [stage EXCEPT ![c] = "audit"]

Reject(c, reason, wrapped) ==
    Finish(c, AuditRow(c, "rejected", reason, wrapped), EmptyResult(reason, FALSE))

\* _audit_misconfig, then `raise ExecutorMisconfiguredError`
Misconfigured(c) ==
    Finish(c, AuditRow(c, "rejected", "misconfigured", FALSE),
           EmptyResult("misconfigured", TRUE))

\* Mutant: a failed statement is logged as rejected.
DatabaseErrorRejected(c, reason) ==
    /\ draft'  = [draft EXCEPT ![c] = AuditRow(c, "rejected", reason, TRUE)]
    /\ result' = [result EXCEPT ![c] = EmptyResult(reason, FALSE)]

\* `except DatabaseError` around the read transaction
DatabaseErrorResult(c, reason) ==
    /\ draft'  = [draft EXCEPT ![c] = AuditRow(c, "allowed", reason, TRUE)]
    /\ result' = [result EXCEPT ![c] = EmptyResult(reason, FALSE)]

Goto(c, s) == stage' = [stage EXCEPT ![c] = s]

auditVars == <<log, gaps, volume>>
dbVars    == <<holds, backend, sent>>
outVars   == <<draft, result>>

-----------------------------------------------------------------------------

Init ==
    /\ stage   = [c \in Calls |-> "idle"]
    /\ query   \in [Calls -> {NoQuery(p) : p \in Profiles}]
    /\ holds   = [c \in Calls |-> NoBackend]
    /\ backend = [b \in Backends |-> FreshBackend]
    /\ draft   = [c \in Calls |-> AuditRow(c, "allowed", "", FALSE)]
    /\ result  = [c \in Calls |-> NoResult]
    /\ log     = [c \in Calls |-> <<>>]
    /\ gaps    = [c \in Calls |-> 0]
    /\ sent    = {}
    /\ volume  = [d \in Decisions |-> 0]

-----------------------------------------------------------------------------
(* Before the database.  Nothing here is shared between calls, so each of    *)
(* the ways out of a stage stands for the checks before it having passed.    *)

\* The run_query tool is called; its profile was bound by authentication.
RunQuery(c) ==
    /\ stage[c] = "idle"
    /\ \E n \in ToolLimits :
          query' = [query EXCEPT ![c].tool = "run_query", ![c].limit = n]
    /\ Goto(c, "validate")
    /\ UNCHANGED <<outVars, dbVars, auditVars>>

\* DB_ALIAS is not in DATABASES.
AliasAbsent(c) ==
    /\ stage[c] = "validate"
    /\ Misconfigured(c)
    /\ UNCHANGED <<query, dbVars, auditVars>>

\* declared_tables(profile) raises LookupError for an ALLOWED_MODELS entry
\* whose app is not installed, or sqlglot raises what is no ParseError (its
\* tokenizer's TokenError): nothing in run_query catches either.
ValidationEscapes(c) ==
    /\ stage[c] = "validate"
    /\ Goto(c, "escaped")
    /\ UNCHANGED <<query, outVars, dbVars, auditVars>>

ParserRejects(c) ==
    /\ stage[c] = "validate"
    /\ \E reason \in RejectReasons : Reject(c, reason, FALSE)
    /\ UNCHANGED <<query, dbVars, auditVars>>

ParserAccepts(c) ==
    /\ stage[c] = "validate"
    /\ \E n \in SqlLimits \cup {NoLimit} : query' = [query EXCEPT ![c].sqlLimit = n]
    /\ Goto(c, "prepare")
    /\ UNCHANGED <<outVars, dbVars, auditVars>>

LimitOf(c) == EffectiveLimit(query[c].limit, query[c].sqlLimit)

\* An effective limit of 0 asks for no rows: answered without the database.
MetadataOnly(c) ==
    /\ stage[c] = "prepare"
    /\ LimitOf(c) = 0
    /\ Finish(c, LogRow(c, "run_query", "allowed", "", FALSE, 0, FALSE), NoResult)
    /\ UNCHANGED <<query, dbVars, auditVars>>

\* In this order: RecursionError while the LIMIT is injected and serialized;
\* connections[DB_ALIAS] is another alias; the SESSION_CONTEXT hook raises or
\* validate_session_context refuses what it returned.
PrepareFails(c) ==
    /\ stage[c] = "prepare"
    /\ LimitOf(c) # 0
    /\ \/ Reject(c, "parse_error", FALSE)
       \/ Misconfigured(c)
       \/ Reject(c, "misconfigured", TRUE)
    /\ UNCHANGED <<query, dbVars, auditVars>>

HookReturns(c) ==
    /\ stage[c] = "prepare"
    /\ LimitOf(c) # 0
    /\ \E x \in Contexts \cup {NoContext} : query' = [query EXCEPT ![c].context = x]
    /\ Goto(c, "begin")
    /\ UNCHANGED <<outVars, dbVars, auditVars>>

-----------------------------------------------------------------------------
(* The read transaction: transaction.atomic(using=DB_ALIAS) *)

\* COMMIT or ROLLBACK: the transaction ends, the backend returns to the pool.
Release(c) ==
    /\ holds'   = [holds EXCEPT ![c] = NoBackend]
    /\ backend' = [backend EXCEPT ![holds[c]] = EndTransaction(@)]

Free(b) == \A c \in Calls : holds[c] # b

\* Mutant: calls share a connection another call is using.
BeginShared(c) ==
    /\ stage[c] = "begin"
    /\ \E b \in Backends :
          /\ holds'   = [holds EXCEPT ![c] = b]
          /\ backend' = [backend EXCEPT ![b] = BeginTransaction(@)]
    /\ Goto(c, "enter")
    /\ UNCHANGED <<query, outVars, sent, auditVars>>

\* BEGIN is the pool's cue to lend a backend; with none free the call waits.
Begin(c) ==
    /\ stage[c] = "begin"
    /\ \E b \in Backends :
          /\ Free(b)
          /\ holds'   = [holds EXCEPT ![c] = b]
          /\ backend' = [backend EXCEPT ![b] = BeginTransaction(@)]
    /\ Goto(c, "enter")
    /\ UNCHANGED <<query, outVars, sent, auditVars>>

\* No connection: an OperationalError from entering atomic().
BeginFails(c) ==
    /\ stage[c] = "begin"
    /\ DatabaseErrorResult(c, "execution_error")
    /\ Goto(c, "audit")
    /\ UNCHANGED <<query, dbVars, auditVars>>

EnterSession(c) ==
    /\ stage[c] = "enter"
    /\ backend' = [backend EXCEPT ![holds[c]] =
                     enter_readonly_session(@, query[c].profile, query[c].context)]
    /\ Goto(c, "execute")
    /\ UNCHANGED <<query, holds, outVars, sent, auditVars>>

\* One of the SET LOCALs fails (no such role, no membership, connection lost)
EnterFails(c) ==
    /\ stage[c] = "enter"
    /\ \E s \in PartialSettings(backend[holds[c]], query[c].profile, query[c].context) :
          backend' = [backend EXCEPT ![holds[c]] = SetLocal(@, s)]
    /\ DatabaseErrorResult(c, "execution_error")
    /\ Goto(c, "rollback")
    /\ UNCHANGED <<query, holds, sent, auditVars>>

\* The statement runs and every row is fetched.
Execute(c) ==
    /\ stage[c] = "execute"
    /\ \E n \in 0..MaxRows : query' = [query EXCEPT ![c].total = n]
    /\ sent' = sent \cup {c}
    /\ Goto(c, "commit")
    /\ UNCHANGED <<holds, backend, outVars, auditVars>>

\* _classify_db_error: SQLSTATE 57014 is a timeout, the rest is not.
ExecuteFails(c) ==
    /\ stage[c] = "execute"
    /\ \E reason \in {"timeout", "execution_error"} : DatabaseErrorResult(c, reason)
    /\ sent' = sent \cup {c}
    /\ Goto(c, "rollback")
    /\ UNCHANGED <<query, holds, backend, auditVars>>

\* Mutant: an exception that is not a DatabaseError leaves the transaction open.
FetchEscapesHolding(c) ==
    /\ stage[c] = "execute"
    /\ sent' = sent \cup {c}
    /\ Goto(c, "escaped")
    /\ UNCHANGED <<query, holds, backend, outVars, auditVars>>

\* fetchall raises something that is not a DatabaseError (a typecaster's
\* ValueError): atomic() rolls back and nothing in run_query catches it.
FetchEscapes(c) ==
    /\ stage[c] = "execute"
    /\ sent' = sent \cup {c}
    /\ Release(c)
    /\ Goto(c, "escaped")
    /\ UNCHANGED <<query, outVars, auditVars>>

\* The rows after both caps.  _cap_rows keeps the first row whatever its
\* size; how many of the others fit BYTES_LIMIT depends on their bytes
\* (module ResultCap).
Success(c, fetched, kept) ==
    LET q         == query[c]
        truncated == \/ TruncatedByCount(q.limit, q.sqlLimit, fetched)
                     \/ kept < KeptRows(q.limit, q.sqlLimit, fetched)
    IN  Finish(c, LogRow(c, "run_query", "allowed", "", TRUE, kept, truncated),
               [raised |-> FALSE, reason |-> "", row_count |-> kept,
                truncated |-> truncated])

Commit(c) ==
    LET q       == query[c]
        fetched == FetchedRows(q.limit, q.sqlLimit, q.total)
        upto    == KeptRows(q.limit, q.sqlLimit, fetched)
    IN  /\ stage[c] = "commit"
        /\ \E kept \in Lesser(1, upto)..upto : Success(c, fetched, kept)
        /\ Release(c)
        /\ UNCHANGED <<query, sent, auditVars>>

\* The COMMIT itself fails; the fetched rows are dropped.
CommitFails(c) ==
    /\ stage[c] = "commit"
    /\ DatabaseErrorResult(c, "execution_error")
    /\ Goto(c, "rollback")
    /\ UNCHANGED <<query, dbVars, auditVars>>

\* ROLLBACK ends the transaction; a backend whose connection broke is
\* replaced by the pool.
Rollback(c) ==
    /\ stage[c] = "rollback"
    /\ \/ Release(c)
       \/ /\ holds'   = [holds EXCEPT ![c] = NoBackend]
          /\ backend' = [backend EXCEPT ![holds[c]] = FreshBackend]
    /\ Goto(c, "audit")
    /\ UNCHANGED <<query, outVars, sent, auditVars>>

-----------------------------------------------------------------------------
(* The metadata tools and the audit *)

\* audit_tool_call's row: no SQL, no row count.
MetadataRow(c, tool) == LogRow(c, tool, "allowed", "", FALSE, NULL, FALSE)

\* Mutant: describe_table answers a miss before it writes the row.
DescribeAnswersFirst(c) ==
    /\ stage[c] = "idle"
    /\ \E tool \in Tools \ {"run_query"}, reason \in {"", "not_whitelisted"} :
          /\ tool = "list_tables" => reason = ""
          /\ query' = [query EXCEPT ![c].tool = tool]
          /\ IF reason = ""
             THEN Finish(c, MetadataRow(c, tool), NoResult)
             ELSE /\ Goto(c, "answered")
                  /\ result' = [result EXCEPT ![c].reason = reason]
                  /\ UNCHANGED draft
    /\ UNCHANGED <<dbVars, auditVars>>

\* list_tables and describe_table read no rows: declared_tables, then one
\* audit row.  describe_table looks the name up after the row is written.
MetadataTool(c) ==
    /\ stage[c] = "idle"
    /\ \E tool \in Tools \ {"run_query"}, reason \in {"", "not_whitelisted"} :
          /\ tool = "list_tables" => reason = ""
          /\ query' = [query EXCEPT ![c].tool = tool]
          /\ Finish(c, MetadataRow(c, tool), EmptyResult(reason, FALSE))
    /\ UNCHANGED <<dbVars, auditVars>>

MetadataUnresolved(c) ==
    /\ stage[c] = "idle"
    /\ \E tool \in Tools \ {"run_query"} : query' = [query EXCEPT ![c].tool = tool]
    /\ Goto(c, "escaped")
    /\ UNCHANGED <<outVars, dbVars, auditVars>>

\* _audit_safely: the insert commits by itself, outside the read transaction ...
AuditWrites(c) ==
    /\ stage[c] = "audit"
    /\ log' = [log EXCEPT ![c] = Append(@, draft[c])]
    /\ Goto(c, "count")
    /\ UNCHANGED <<query, outVars, dbVars, gaps, volume>>

\* Mutant: a failed insert falls through to the volume counter.
AuditFailsCounted(c) ==
    /\ stage[c] = "audit"
    /\ gaps' = [gaps EXCEPT ![c] = @ + 1]
    /\ Goto(c, "count")
    /\ UNCHANGED <<query, outVars, dbVars, log, volume>>

\* ... or raises DatabaseError, which is logged, not retried, and returns
\* before the volume counter.
AuditFails(c) ==
    /\ stage[c] = "audit"
    /\ gaps' = [gaps EXCEPT ![c] = @ + 1]
    /\ Goto(c, "answered")
    /\ UNCHANGED <<query, outVars, dbVars, log, volume>>

\* record_query_volume, whose every failure is swallowed
CountVolume(c) ==
    /\ stage[c] = "count"
    /\ \/ volume' = [volume EXCEPT ![draft[c].decision] = @ + 1]
       \/ UNCHANGED volume
    /\ Goto(c, "answered")
    /\ UNCHANGED <<query, outVars, dbVars, log, gaps>>

-----------------------------------------------------------------------------

\* The environment makes a call.
Invoke(c) == RunQuery(c) \/ MetadataTool(c) \/ MetadataUnresolved(c)

BeforeDatabase(c) ==
    \/ AliasAbsent(c)   \/ ValidationEscapes(c) \/ ParserRejects(c)
    \/ ParserAccepts(c) \/ MetadataOnly(c)     \/ PrepareFails(c)
    \/ HookReturns(c)

ReadTransaction(c) ==
    \/ Begin(c)   \/ BeginFails(c)   \/ EnterSession(c) \/ EnterFails(c)
    \/ Execute(c) \/ ExecuteFails(c) \/ FetchEscapes(c)
    \/ Commit(c)  \/ CommitFails(c)  \/ Rollback(c)

Audit(c) == AuditWrites(c) \/ AuditFails(c) \/ CountVolume(c)

Progress(c) == BeforeDatabase(c) \/ ReadTransaction(c) \/ Audit(c)

Finished(c) == stage[c] \in {"answered", "escaped"}

AllFinished == (\A c \in Calls : Finished(c)) /\ UNCHANGED vars

Next == (\E c \in Calls : Invoke(c) \/ Progress(c)) \/ AllFinished

Spec == Init /\ [][Next]_vars

\* A thread that can run does.  A statement ends because statement_timeout
\* ends it; a BEGIN that finds a free backend gets one.  Nothing is assumed
\* of the error that would end the wait for a backend.
FairSteps(c) == BeforeDatabase(c) \/ (ReadTransaction(c) /\ ~BeginFails(c)) \/ Audit(c)

FairSpec == Spec /\ \A c \in Calls : WF_vars(FairSteps(c))

-----------------------------------------------------------------------------
(* Properties *)

\* Every variable has its type.
TypeOK ==
    /\ stage   \in [Calls -> Stages]
    /\ query   \in [Calls -> Query]
    /\ holds   \in [Calls -> Backends \cup {NoBackend}]
    /\ backend \in [Backends -> BackendStates]
    /\ draft   \in [Calls -> Row]
    /\ result  \in [Calls -> QueryResult]
    /\ log     \in [Calls -> Seq(Row)]
    /\ gaps    \in [Calls -> Nat]
    /\ sent    \subseteq Calls
    /\ volume  \in [Decisions -> Nat]

\* Whatever calls used the backend before, run_query's statement runs in its
\* own profile's role, under all four guards and with exactly the context its
\* own hook returned (enter_readonly_session before cur.execute).
StatementConfined ==
    \A c \in Calls : stage[c] = "execute" =>
        Effective(backend[holds[c]]) = [role    |-> query[c].profile,
                                        guards  |-> Guards,
                                        context |-> query[c].context]

\* A backend no call holds is as the pool opened it: no role, guard or
\* context of an earlier call is left on it, however that call ended
\* ("only SET LOCAL, never bare SET").
PooledBackendsClean ==
    \A b \in Backends : Free(b) => backend[b] = FreshBackend

\* No two calls ever read on one backend, and a call that has ended, even
\* with an escaping exception, holds none.
BackendsExclusive ==
    /\ \A c, d \in Calls : holds[c] = holds[d] /\ holds[c] # NoBackend => c = d
    /\ \A c \in Calls : Finished(c) => holds[c] = NoBackend

\* The row tells whether PostgreSQL saw the statement: a rejected row, or one
\* without wrapped SQL, belongs to a call that sent nothing, and a call that
\* sent its statement is logged as allowed with the SQL it sent.
DecisionTellsReach ==
    \A c \in Calls : \A i \in 1..Len(log[c]) :
        /\ log[c][i].decision = "rejected" => c \notin sent
        /\ ~log[c][i].wrapped => c \notin sent
        /\ log[c][i].profile = query[c].profile

LoggedCalls(d) == {c \in Calls : \E i \in 1..Len(log[c]) : log[c][i].decision = d}

\* The volume tripwire counts audited calls only: with the cache losing counts
\* or not, no decision's counter is ahead of its rows (_audit_safely returns
\* before the counter when the insert failed).
VolumeNeverAheadOfLog ==
    \A d \in Decisions : volume[d] <= Cardinality(LoggedCalls(d))

\* n rows are among the rows the caller asked for: there are that many, and
\* no limit the caller gave is below n.
AskedFor(q, n) ==
    /\ n <= q.total
    /\ \A m \in ExplicitLimits(q.limit, q.sqlLimit) : n <= Greater(0, m)

ReturnedRows(c) == stage[c] = "answered" /\ c \in sent /\ result[c].reason = ""

\* The rows of a successful answer are rows that were asked for, no more than
\* HARD_LIMIT, and no more than DEFAULT_LIMIT when no limit was given.
AnswerWithinLimits ==
    \A c \in Calls : ReturnedRows(c) =>
        LET q == query[c] n == result[c].row_count
        IN  /\ AskedFor(q, n)
            /\ n <= HARD_LIMIT
            /\ ExplicitLimits(q.limit, q.sqlLimit) = {} => n <= DEFAULT_LIMIT

\* `truncated` is set exactly when the server held back a row the caller asked
\* for, by count or by bytes: an answer without the flag is complete.
TruncatedIffRowsHeldBack ==
    \A c \in Calls : ReturnedRows(c) =>
        (result[c].truncated <=> AskedFor(query[c], result[c].row_count + 1))

\* A call that was made ends: it is answered or its exception leaves the
\* executor, also when it had to wait for a backend.
CallsFinish == \A c \in Calls : (stage[c] # "idle") ~> Finished(c)

-----------------------------------------------------------------------------
(* The audit trail the pipeline implements *)

NoAnswer == [raised |-> FALSE, reason |-> "none", row_count |-> 0, truncated |-> FALSE]

\* A run_query row has its answer's reason, row count and truncation flag; a
\* metadata tool's row says only that the call was made.
RowAgrees(row, res) ==
    \/ row.tool # "run_query"
    \/ /\ row.reason = res.reason
       /\ row.truncated = res.truncated
       /\ IF row.row_count = NULL THEN res.row_count = 0 ELSE res.row_count = row.row_count

Trail == INSTANCE AuditTrail WITH
    Rows     <- Row,
    Answers  <- QueryResult,
    Agrees   <- RowAgrees,
    status   <- [c \in Calls |-> CASE stage[c] = "answered" -> "answered"
                                   [] stage[c] = "escaped"  -> "failed"
                                   [] OTHER                 -> "open"],
    trail    <- log,
    missed   <- {c \in Calls : gaps[c] > 0},
    answer   <- [c \in Calls |-> IF stage[c] = "answered" THEN result[c] ELSE NoAnswer]

\* The executor implements AuditTrail: at most one row per call, written before
\* the answer and agreeing with it, and no answer without a row or a reported
\* failure to write it.
AuditTrailImplemented == Trail!Spec

-----------------------------------------------------------------------------
(* What the repository says and the code does not do *)

\* "every code path writes exactly one `MCPQueryLog` row via `_audit_safely`"
\* (executor.py:2): a run_query call that ended wrote its row, or reported that
\* it could not.
EveryCallAudited ==
    \A c \in Calls : Finished(c) /\ query[c].tool = "run_query" => Len(log[c]) + gaps[c] = 1

\* default_transaction_read_only is one of "the only enforcement/alerting
\* layers" (docs/architecture.md:184-187): the transaction the statement runs
\* in is read-only.
StatementReadOnly ==
    \A c \in Calls : stage[c] = "execute" => backend[holds[c]].readOnly
=============================================================================
