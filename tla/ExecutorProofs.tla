--------------------------- MODULE ExecutorProofs ---------------------------
(***************************************************************************)
(* Proofs about the executor for any set of calls, backends, profiles and  *)
(* contexts, and any limits validation accepts.                            *)
(***************************************************************************)
EXTENDS Executor, TLAPS

-----------------------------------------------------------------------------
(* The limit arithmetic *)

\* The effective limit is a row count no larger than HARD_LIMIT, whatever the
\* tool argument and the SQL LIMIT are.
LEMMA EffectiveLimitType ==
    ASSUME NEW limit \in Int \cup {NoLimit}, NEW sqlLimit
    PROVE  EffectiveLimit(limit, sqlLimit) \in 0..HARD_LIMIT
<1> DEFINE explicit == ExplicitLimits(limit, sqlLimit)
<1>1. explicit \subseteq Int
  BY LimitsAssumption DEF ExplicitLimits, ExtractLimit
<1>2. ASSUME explicit # {} PROVE \E n \in explicit : \A m \in explicit : n <= m
  BY <1>1, <1>2 DEF ExplicitLimits
<1>3. MinExplicitLimit(limit, sqlLimit) \in Int
  <2>1. CASE explicit = {}
    BY <2>1, LimitsAssumption DEF MinExplicitLimit
  <2>2. CASE explicit # {}
    BY <1>1, <1>2, <2>2 DEF MinExplicitLimit
  <2> QED
    BY <2>1, <2>2
<1> QED
  BY <1>3, LimitsAssumption DEF EffectiveLimit, Greater, Lesser

\* The rows fetched and the rows kept are counts.
LEMMA RowCountTypes ==
    ASSUME NEW limit \in Int \cup {NoLimit}, NEW sqlLimit, NEW total \in Nat
    PROVE  /\ FetchedRows(limit, sqlLimit, total) \in Nat
           /\ KeptRows(limit, sqlLimit, FetchedRows(limit, sqlLimit, total)) \in Nat
BY EffectiveLimitType, LimitsAssumption DEF FetchedRows, KeptRows, Lesser

-----------------------------------------------------------------------------
(* Types *)

LEMMA FreshBackendType == FreshBackend \in BackendStates
BY DEF FreshBackend, BackendStates, Settings, LoginSettings

\* What session.py and the end of a transaction make of a backend is a backend.
LEMMA BackendTypes ==
    ASSUME NEW b \in BackendStates, NEW p \in Profiles,
           NEW x \in Contexts \cup {NoContext}
    PROVE  /\ BeginTransaction(b) \in BackendStates
           /\ EndTransaction(b) \in BackendStates
           /\ enter_readonly_session(b, p, x) \in BackendStates
           /\ \A s \in PartialSettings(b, p, x) : SetLocal(b, s) \in BackendStates
<1> USE DEF BackendStates, Settings
<1>1. /\ BeginTransaction(b) \in BackendStates
      /\ EndTransaction(b) \in BackendStates
  BY DEF BeginTransaction, EndTransaction
<1>2. enter_readonly_session(b, p, x) \in BackendStates
  BY DEF enter_readonly_session, SetLocal, EnteredSettings
<1>3. \A n \in 0..4 : GuardPrefix(n) \subseteq Guards
  BY DEF GuardPrefix, Guards
<1>4. ASSUME NEW s \in PartialSettings(b, p, x) PROVE SetLocal(b, s) \in BackendStates
  <2>1. s \in Settings
    BY <1>3 DEF PartialSettings
  <2> QED
    BY <2>1 DEF SetLocal
<1> QED
  BY <1>1, <1>2, <1>4

\* The rows and results the pipeline builds have their types.
LEMMA RowTypes ==
    ASSUME TypeOK, NEW c \in Calls, NEW t \in Tools, NEW d \in Decisions,
           NEW r \in Reasons, NEW w \in BOOLEAN, NEW n \in Nat \cup {NULL},
           NEW b \in BOOLEAN
    PROVE  /\ LogRow(c, t, d, r, w, n, b) \in Row
           /\ EmptyResult(r, b) \in QueryResult
BY DEF TypeOK, LogRow, Row, QueryResult, EmptyResult, Query

\* A call's arguments, taken apart.
LEMMA QueryTypes ==
    ASSUME TypeOK, NEW c \in Calls
    PROVE  /\ query[c] \in Query
           /\ query[c].profile \in Profiles
           /\ query[c].limit \in Int \cup {NoLimit}
           /\ query[c].context \in Contexts \cup {NoContext}
           /\ query[c].total \in Nat
<1>1. query[c] \in Query
  BY DEF TypeOK
<1>2. /\ query[c].profile \in Profiles
      /\ query[c].limit \in ToolLimits \cup {NoLimit}
      /\ query[c].context \in Contexts \cup {NoContext}
      /\ query[c].total \in 0..MaxRows
  BY <1>1 DEF Query
<1>3. ToolLimits \cup {NoLimit} \subseteq Int \cup {NoLimit}
  BY ExecutorAssumption
<1>4. 0..MaxRows \subseteq Nat
  BY ExecutorAssumption
<1> QED
  BY <1>1, <1>2, <1>3, <1>4, Zenon

LEMMA NoQueryType == \A p \in Profiles : NoQuery(p) \in Query
<1>1. 0 \in 0..MaxRows
  BY ExecutorAssumption
<1> QED
  BY <1>1 DEF NoQuery, Query

LEMMA InitType == Init => TypeOK
<1> SUFFICES ASSUME Init PROVE TypeOK
  OBVIOUS
<1>1. query \in [Calls -> Query]
  <2>1. {NoQuery(p) : p \in Profiles} \subseteq Query
    BY NoQueryType
  <2>2. query \in [Calls -> {NoQuery(p) : p \in Profiles}]
    BY DEF Init
  <2> QED
    BY <2>1, <2>2
<1>2. backend \in [Backends -> BackendStates]
  BY FreshBackendType DEF Init
<1>3. draft \in [Calls -> Row]
  <2>1. ASSUME NEW c \in Calls PROVE query[c].profile \in Profiles
    BY <1>1 DEF Query
  <2>2. ASSUME NEW c \in Calls PROVE AuditRow(c, "allowed", "", FALSE) \in Row
    BY <2>1 DEF AuditRow, LogRow, Row, Tools, Decisions, Reasons
  <2> QED
    BY <2>2 DEF Init
<1>4. result \in [Calls -> QueryResult]
  BY DEF Init, NoResult, EmptyResult, QueryResult, Reasons
<1>5. log \in [Calls -> Seq(Row)]
  <2>1. <<>> \in Seq(Row)
    OBVIOUS
  <2>2. log = [c \in Calls |-> <<>>]
    BY DEF Init
  <2> QED
    BY <2>1, <2>2, Zenon
<1>6. /\ stage \in [Calls -> Stages]
      /\ holds \in [Calls -> Backends \cup {NoBackend}]
      /\ sent \subseteq Calls
  BY DEF Init, Stages
<1>7. gaps \in [Calls -> Nat] /\ volume \in [Decisions -> Nat]
  BY DEF Init
<1> QED
  BY <1>1, <1>2, <1>3, <1>4, <1>5, <1>6, <1>7 DEF TypeOK
-----------------------------------------------------------------------------
(* The pool *)

\* The stages in which a call is inside its read transaction
InTransaction(s) == s \in {"enter", "execute", "commit", "rollback"}

\* The strengthening of the pool's invariants: a call holds a backend exactly
\* while it is in its transaction, the session layer of every backend is what
\* it was when the pool opened it, and the layer above it is untouched until
\* the call's own SET LOCALs.
PoolInv ==
    /\ \A c \in Calls : holds[c] # NoBackend <=> InTransaction(stage[c])
    /\ \A c, d \in Calls : holds[c] = holds[d] /\ holds[c] # NoBackend => c = d
    /\ \A b \in Backends : backend[b].session = LoginSettings
    /\ \A b \in Backends : Free(b) => backend[b] = FreshBackend
    /\ \A c \in Calls : stage[c] = "enter" => backend[holds[c]].local = LoginSettings
    /\ StatementConfined

IInv == TypeOK /\ PoolInv

LEMMA HeldBackend ==
    ASSUME IInv, NEW c \in Calls, InTransaction(stage[c])
    PROVE  holds[c] \in Backends /\ backend[holds[c]] \in BackendStates
BY DEF IInv, TypeOK, PoolInv

\* What the actions are built from keeps the types of what it changes.
LEMMA FinishType ==
    ASSUME TypeOK, NEW c \in Calls, NEW row \in Row, NEW res \in QueryResult,
           Finish(c, row, res)
    PROVE  stage' \in [Calls -> Stages] /\ draft' \in [Calls -> Row]
           /\ result' \in [Calls -> QueryResult]
BY DEF TypeOK, Finish, Stages

LEMMA GotoType ==
    ASSUME TypeOK, NEW c \in Calls, NEW s \in Stages, Goto(c, s)
    PROVE  stage' \in [Calls -> Stages]
BY DEF TypeOK, Goto

LEMMA EarlyReturnTypes ==
    ASSUME TypeOK, NEW c \in Calls, NEW r \in Reasons, NEW w \in BOOLEAN,
           Reject(c, r, w) \/ Misconfigured(c)
    PROVE  stage' \in [Calls -> Stages] /\ draft' \in [Calls -> Row]
           /\ result' \in [Calls -> QueryResult]
<1>1. CASE Reject(c, r, w)
  <2>1. /\ AuditRow(c, "rejected", r, w) \in Row
        /\ EmptyResult(r, FALSE) \in QueryResult
    BY RowTypes DEF AuditRow, Tools, Decisions
  <2> QED
    BY <1>1, <2>1, FinishType DEF Reject
<1>2. CASE Misconfigured(c)
  <2>1. "misconfigured" \in Reasons
    BY DEF Reasons
  <2>2. /\ AuditRow(c, "rejected", "misconfigured", FALSE) \in Row
        /\ EmptyResult("misconfigured", TRUE) \in QueryResult
    BY <2>1, RowTypes DEF AuditRow, Tools, Decisions
  <2> QED
    BY <1>2, <2>2, FinishType DEF Misconfigured
<1> QED
  BY <1>1, <1>2

LEMMA DatabaseErrorTypes ==
    ASSUME TypeOK, NEW c \in Calls, NEW r \in {"timeout", "execution_error"},
           DatabaseErrorResult(c, r)
    PROVE  draft' \in [Calls -> Row] /\ result' \in [Calls -> QueryResult]
<1>1. r \in Reasons
  BY DEF Reasons
<1>2. /\ AuditRow(c, "allowed", r, TRUE) \in Row
      /\ EmptyResult(r, FALSE) \in QueryResult
  BY <1>1, RowTypes DEF AuditRow, Tools, Decisions
<1> QED
  BY <1>2 DEF DatabaseErrorResult, TypeOK

LEMMA ReleaseTypes ==
    ASSUME IInv, NEW c \in Calls, InTransaction(stage[c]), Release(c)
    PROVE  /\ holds' \in [Calls -> Backends \cup {NoBackend}]
           /\ backend' \in [Backends -> BackendStates]
<1>1. EndTransaction(backend[holds[c]]) \in BackendStates
  BY HeldBackend DEF EndTransaction, BackendStates
<1> QED
  BY <1>1, HeldBackend DEF Release, IInv, TypeOK
\* A step of any call keeps the types.
LEMMA NextType == IInv /\ [Next]_vars => TypeOK'
<1> SUFFICES ASSUME IInv, [Next]_vars PROVE TypeOK'
  OBVIOUS
<1> USE DEF auditVars, dbVars, outVars
<1>1. TypeOK
  BY DEF IInv
<1>2. ASSUME NEW c \in Calls, Invoke(c) PROVE TypeOK'
  <2>1. CASE RunQuery(c)
    <3>1. query' \in [Calls -> Query]
      <4>1. PICK n \in ToolLimits :
               query' = [query EXCEPT ![c].tool = "run_query", ![c].limit = n]
        BY <2>1 DEF RunQuery
      <4>2. [query[c] EXCEPT !.tool = "run_query", !.limit = n] \in Query
        BY <1>1, QueryTypes DEF Query, Tools
      <4>3. query' = [query EXCEPT ![c] = [query[c] EXCEPT !.tool = "run_query", !.limit = n]]
        BY <1>1, <4>1 DEF TypeOK
      <4> QED
        BY <1>1, <4>2, <4>3 DEF TypeOK
    <3>2. stage' \in [Calls -> Stages]
      BY <1>1, <2>1, GotoType DEF RunQuery, Stages
    <3> QED
      BY <1>1, <2>1, <3>1, <3>2 DEF RunQuery, TypeOK
  <2>2. CASE MetadataTool(c)
    <3>1. PICK tool \in Tools, reason \in {"", "not_whitelisted"} :
             /\ query' = [query EXCEPT ![c].tool = tool]
             /\ Finish(c, MetadataRow(c, tool), EmptyResult(reason, FALSE))
      BY <2>2 DEF MetadataTool
    <3>2. query' \in [Calls -> Query]
      <4>1. [query[c] EXCEPT !.tool = tool] \in Query
        BY <1>1, QueryTypes DEF Query
      <4> QED
        BY <1>1, <3>1, <4>1 DEF TypeOK
    <3>3. /\ MetadataRow(c, tool) \in Row
          /\ EmptyResult(reason, FALSE) \in QueryResult
      <4>1. reason \in Reasons /\ "" \in Reasons
        BY DEF Reasons
      <4> QED
        BY <1>1, <4>1, RowTypes DEF MetadataRow, Decisions
    <3>4. /\ stage' \in [Calls -> Stages] /\ draft' \in [Calls -> Row]
          /\ result' \in [Calls -> QueryResult]
      BY <1>1, <3>1, <3>3, FinishType
    <3> QED
      BY <1>1, <2>2, <3>2, <3>4 DEF MetadataTool, TypeOK
  <2>3. CASE MetadataUnresolved(c)
    <3>1. query' \in [Calls -> Query]
      <4>1. PICK tool \in Tools : query' = [query EXCEPT ![c].tool = tool]
        BY <2>3 DEF MetadataUnresolved
      <4>2. [query[c] EXCEPT !.tool = tool] \in Query
        BY <1>1, QueryTypes DEF Query
      <4> QED
        BY <1>1, <4>1, <4>2 DEF TypeOK
    <3>2. stage' \in [Calls -> Stages]
      BY <1>1, <2>3, GotoType DEF MetadataUnresolved, Stages
    <3> QED
      BY <1>1, <2>3, <3>1, <3>2 DEF MetadataUnresolved, TypeOK
  <2> QED
    BY <1>2, <2>1, <2>2, <2>3 DEF Invoke
<1>3. ASSUME NEW c \in Calls, BeforeDatabase(c) PROVE TypeOK'
  <2>1. CASE AliasAbsent(c)
    <3>1. "" \in Reasons
      BY DEF Reasons
    <3> QED
      BY <1>1, <2>1, <3>1, EarlyReturnTypes DEF AliasAbsent, TypeOK
  <2>2. CASE ValidationEscapes(c)
    BY <1>1, <2>2, GotoType DEF ValidationEscapes, TypeOK, Stages
  <2>3. CASE ParserRejects(c)
    BY <1>1, <2>3, EarlyReturnTypes DEF ParserRejects, TypeOK, Reasons
  <2>4. CASE ParserAccepts(c)
    <3>1. query' \in [Calls -> Query]
      <4>1. PICK m \in SqlLimits \cup {NoLimit} :
               query' = [query EXCEPT ![c].sqlLimit = m]
        BY <2>4 DEF ParserAccepts
      <4>2. [query[c] EXCEPT !.sqlLimit = m] \in Query
        BY <1>1, QueryTypes DEF Query
      <4> QED
        BY <1>1, <4>1, <4>2 DEF TypeOK
    <3>2. stage' \in [Calls -> Stages]
      BY <1>1, <2>4, GotoType DEF ParserAccepts, Stages
    <3> QED
      BY <1>1, <2>4, <3>1, <3>2 DEF ParserAccepts, TypeOK
  <2>5. CASE MetadataOnly(c)
    <3>1. /\ LogRow(c, "run_query", "allowed", "", FALSE, 0, FALSE) \in Row
          /\ NoResult \in QueryResult
      BY <1>1, RowTypes DEF NoResult, Tools, Decisions, Reasons
    <3> QED
      BY <1>1, <2>5, <3>1, FinishType DEF MetadataOnly, TypeOK
  <2>6. CASE PrepareFails(c)
    <3>1. {"", "parse_error", "misconfigured"} \subseteq Reasons
      BY DEF Reasons
    <3>2. /\ stage' \in [Calls -> Stages] /\ draft' \in [Calls -> Row]
          /\ result' \in [Calls -> QueryResult]
      BY <1>1, <2>6, <3>1, EarlyReturnTypes DEF PrepareFails
    <3> QED
      BY <1>1, <2>6, <3>2 DEF PrepareFails, TypeOK
  <2>7. CASE HookReturns(c)
    <3>1. query' \in [Calls -> Query]
      <4>1. PICK x \in Contexts \cup {NoContext} :
               query' = [query EXCEPT ![c].context = x]
        BY <2>7 DEF HookReturns
      <4>2. [query[c] EXCEPT !.context = x] \in Query
        BY <1>1, QueryTypes DEF Query
      <4> QED
        BY <1>1, <4>1, <4>2 DEF TypeOK
    <3>2. stage' \in [Calls -> Stages]
      BY <1>1, <2>7, GotoType DEF HookReturns, Stages
    <3> QED
      BY <1>1, <2>7, <3>1, <3>2 DEF HookReturns, TypeOK
  <2> QED
    BY <1>3, <2>1, <2>2, <2>3, <2>4, <2>5, <2>6, <2>7 DEF BeforeDatabase
<1>4. ASSUME NEW c \in Calls, ReadTransaction(c) PROVE TypeOK'
  <2> {"timeout", "execution_error"} \subseteq Reasons
    BY DEF Reasons
  <2>1. CASE Begin(c)
    <3>1. PICK b \in Backends : /\ holds' = [holds EXCEPT ![c] = b]
                                /\ backend' = [backend EXCEPT ![b] = BeginTransaction(@)]
      BY <2>1 DEF Begin
    <3>2. BeginTransaction(backend[b]) \in BackendStates
      BY <1>1 DEF TypeOK, BackendStates, BeginTransaction
    <3>3. stage' \in [Calls -> Stages]
      BY <1>1, <2>1, GotoType DEF Begin, Stages
    <3> QED
      BY <1>1, <2>1, <3>1, <3>2, <3>3 DEF Begin, TypeOK
  <2>2. CASE BeginFails(c)
    BY <1>1, <2>2, GotoType, DatabaseErrorTypes DEF BeginFails, TypeOK, Stages
  <2>3. CASE EnterSession(c)
    <3>1. holds[c] \in Backends /\ backend[holds[c]] \in BackendStates
      BY <2>3, HeldBackend DEF EnterSession, InTransaction
    <3>2. enter_readonly_session(backend[holds[c]], query[c].profile, query[c].context)
            \in BackendStates
      BY <1>1, <3>1, QueryTypes, BackendTypes
    <3>3. stage' \in [Calls -> Stages]
      BY <1>1, <2>3, GotoType DEF EnterSession, Stages
    <3> QED
      BY <1>1, <2>3, <3>1, <3>2, <3>3 DEF EnterSession, TypeOK
  <2>4. CASE EnterFails(c)
    <3>1. holds[c] \in Backends /\ backend[holds[c]] \in BackendStates
      BY <2>4, HeldBackend DEF EnterFails, InTransaction
    <3>2. PICK s \in PartialSettings(backend[holds[c]], query[c].profile, query[c].context) :
             backend' = [backend EXCEPT ![holds[c]] = SetLocal(@, s)]
      BY <2>4 DEF EnterFails
    <3>3. SetLocal(backend[holds[c]], s) \in BackendStates
      BY <1>1, <3>1, QueryTypes, BackendTypes
    <3>4. stage' \in [Calls -> Stages]
      BY <1>1, <2>4, GotoType DEF EnterFails, Stages
    <3>5. draft' \in [Calls -> Row] /\ result' \in [Calls -> QueryResult]
      BY <1>1, <2>4, DatabaseErrorTypes DEF EnterFails
    <3> QED
      BY <1>1, <2>4, <3>1, <3>2, <3>3, <3>4, <3>5 DEF EnterFails, TypeOK
  <2>5. CASE Execute(c)
    <3>1. query' \in [Calls -> Query]
      <4>1. PICK n \in 0..MaxRows : query' = [query EXCEPT ![c].total = n]
        BY <2>5 DEF Execute
      <4>2. [query[c] EXCEPT !.total = n] \in Query
        BY <1>1, QueryTypes DEF Query
      <4> QED
        BY <1>1, <4>1, <4>2 DEF TypeOK
    <3>2. stage' \in [Calls -> Stages]
      BY <1>1, <2>5, GotoType DEF Execute, Stages
    <3> QED
      BY <1>1, <2>5, <3>1, <3>2 DEF Execute, TypeOK
  <2>6. CASE ExecuteFails(c)
    <3>1. stage' \in [Calls -> Stages]
      BY <1>1, <2>6, GotoType DEF ExecuteFails, Stages
    <3>2. draft' \in [Calls -> Row] /\ result' \in [Calls -> QueryResult]
      BY <1>1, <2>6, DatabaseErrorTypes DEF ExecuteFails
    <3> QED
      BY <1>1, <2>6, <3>1, <3>2 DEF ExecuteFails, TypeOK
  <2>7. CASE FetchEscapes(c)
    <3>1. stage' \in [Calls -> Stages]
      BY <1>1, <2>7, GotoType DEF FetchEscapes, Stages
    <3>2. /\ holds' \in [Calls -> Backends \cup {NoBackend}]
          /\ backend' \in [Backends -> BackendStates]
      BY <2>7, ReleaseTypes DEF FetchEscapes, InTransaction
    <3> QED
      BY <1>1, <2>7, <3>1, <3>2 DEF FetchEscapes, TypeOK
  <2>8. CASE Commit(c)
    <3>1. /\ holds' \in [Calls -> Backends \cup {NoBackend}]
          /\ backend' \in [Backends -> BackendStates]
      BY <2>8, ReleaseTypes DEF Commit, InTransaction
    <3>2. PICK kept \in Nat, fetched \in Nat : Success(c, fetched, kept)
      <4> DEFINE q == query[c]
                 fetched == FetchedRows(q.limit, q.sqlLimit, q.total)
                 upto == KeptRows(q.limit, q.sqlLimit, fetched)
      <4>1. fetched \in Nat /\ upto \in Nat
        BY <1>1, QueryTypes, RowCountTypes
      <4>2. Lesser(1, upto)..upto \subseteq Nat
        BY <4>1 DEF Lesser
      <4>3. \E kept \in Lesser(1, upto)..upto : Success(c, fetched, kept)
        BY <2>8 DEF Commit
      <4> QED
        BY <4>1, <4>2, <4>3
    <3>3. /\ stage' \in [Calls -> Stages] /\ draft' \in [Calls -> Row]
          /\ result' \in [Calls -> QueryResult]
      <4> DEFINE q == query[c]
                 truncated == \/ TruncatedByCount(q.limit, q.sqlLimit, fetched)
                              \/ kept < KeptRows(q.limit, q.sqlLimit, fetched)
      <4>1. truncated \in BOOLEAN
        BY DEF TruncatedByCount
      <4>2. LogRow(c, "run_query", "allowed", "", TRUE, kept, truncated) \in Row
        BY <1>1, <3>2, <4>1, RowTypes DEF Tools, Decisions, Reasons
      <4>3. [raised |-> FALSE, reason |-> "", row_count |-> kept,
             truncated |-> truncated] \in QueryResult
        BY <4>1 DEF QueryResult, Reasons
      <4>4. Finish(c, LogRow(c, "run_query", "allowed", "", TRUE, kept, truncated),
                   [raised |-> FALSE, reason |-> "", row_count |-> kept,
                    truncated |-> truncated])
        BY <3>2 DEF Success
      <4> QED
        BY <1>1, <4>2, <4>3, <4>4, FinishType
    <3> QED
      BY <1>1, <2>8, <3>1, <3>3 DEF Commit, TypeOK
  <2>9. CASE CommitFails(c)
    BY <1>1, <2>9, GotoType, DatabaseErrorTypes DEF CommitFails, TypeOK, Stages
  <2>10. CASE Rollback(c)
    <3>1. /\ holds' \in [Calls -> Backends \cup {NoBackend}]
          /\ backend' \in [Backends -> BackendStates]
      BY <1>1, <2>10, ReleaseTypes, FreshBackendType DEF Rollback, InTransaction, TypeOK
    <3>2. stage' \in [Calls -> Stages]
      BY <1>1, <2>10, GotoType DEF Rollback, Stages
    <3> QED
      BY <1>1, <2>10, <3>1, <3>2 DEF Rollback, TypeOK
  <2> QED
    BY <1>4, <2>1, <2>2, <2>3, <2>4, <2>5, <2>6, <2>7, <2>8, <2>9, <2>10
       DEF ReadTransaction
<1>5. ASSUME NEW c \in Calls, Audit(c) PROVE TypeOK'
  <2>1. CASE AuditWrites(c)
    <3>1. log' \in [Calls -> Seq(Row)]
      <4>1. Append(log[c], draft[c]) \in Seq(Row)
        BY <1>1 DEF TypeOK
      <4> QED
        BY <1>1, <2>1, <4>1 DEF AuditWrites, TypeOK
    <3>2. stage' \in [Calls -> Stages]
      BY <1>1, <2>1, GotoType DEF AuditWrites, Stages
    <3> QED
      BY <1>1, <2>1, <3>1, <3>2 DEF AuditWrites, TypeOK
  <2>2. CASE AuditFails(c)
    BY <1>1, <2>2, GotoType DEF AuditFails, TypeOK, Stages
  <2>3. CASE CountVolume(c)
    <3>1. stage' \in [Calls -> Stages]
      BY <1>1, <2>3, GotoType DEF CountVolume, Stages
    <3>2. volume' \in [Decisions -> Nat]
      <4>1. volume \in [Decisions -> Nat]
        BY <1>1 DEF TypeOK
      <4>2. draft[c].decision \in Decisions
        BY <1>1 DEF TypeOK, Row
      <4>3. ASSUME NEW d \in Decisions, volume' = [volume EXCEPT ![d] = @ + 1]
            PROVE  volume' \in [Decisions -> Nat]
        BY <4>1, <4>3
      <4> QED
        BY <2>3, <4>1, <4>2, <4>3 DEF CountVolume
    <3> QED
      BY <1>1, <2>3, <3>1, <3>2 DEF CountVolume, TypeOK
  <2> QED
    BY <1>5, <2>1, <2>2, <2>3 DEF Audit
<1>6. CASE UNCHANGED vars
  BY <1>1, <1>6 DEF TypeOK, vars
<1> QED
  BY <1>2, <1>3, <1>4, <1>5, <1>6 DEF Next, Progress, AllFinished
-----------------------------------------------------------------------------
(* A step of any call keeps the pool's invariant.  What a step does to the   *)
(* pool is one of five things.                                               *)

\* What ends a transaction on a backend whose session layer is untouched
\* leaves it as the pool opened it.
LEMMA EndedIsFresh ==
    ASSUME NEW b, b.session = LoginSettings
    PROVE  EndTransaction(b) = FreshBackend
BY DEF EndTransaction, FreshBackend

\* 1. The call is outside its transaction before and after the step.
LEMMA OutsideKeepsPool ==
    ASSUME IInv, NEW c \in Calls, NEW s,
           ~InTransaction(stage[c]), ~InTransaction(s), Goto(c, s),
           UNCHANGED <<holds, backend>>,
           \A d \in Calls \ {c} : query'[d] = query[d]
    PROVE  PoolInv'
<1>1. \A d \in Calls : stage'[d] = IF d = c THEN s ELSE stage[d]
  BY DEF IInv, TypeOK, Goto
<1>2. StatementConfined'
  BY <1>1 DEF IInv, PoolInv, StatementConfined, InTransaction
<1> QED
  BY <1>1, <1>2 DEF IInv, PoolInv, Free, InTransaction

\* 2. The call's transaction begins on a free backend.
LEMMA BeginKeepsPool == ASSUME IInv, NEW c \in Calls, Begin(c) PROVE PoolInv'
<1>1. PICK b \in Backends : /\ Free(b)
                            /\ holds' = [holds EXCEPT ![c] = b]
                            /\ backend' = [backend EXCEPT ![b] = BeginTransaction(@)]
  BY DEF Begin
<1>2. \A d \in Calls : /\ stage'[d] = IF d = c THEN "enter" ELSE stage[d]
                       /\ holds'[d] = IF d = c THEN b ELSE holds[d]
  BY <1>1 DEF IInv, TypeOK, Begin, Goto
<1>3. \A a \in Backends : backend'[a] = IF a = b THEN BeginTransaction(backend[b])
                                                  ELSE backend[a]
  BY <1>1 DEF IInv, TypeOK
<1>4. query' = query /\ b # NoBackend
  BY ExecutorAssumption DEF Begin
<1>5. /\ backend'[b].session = LoginSettings
      /\ backend'[b].local = LoginSettings
  BY <1>3 DEF IInv, PoolInv, BeginTransaction
<1>6. \A d \in Calls : holds[d] # b
  BY <1>1 DEF Free
<1>7. \A d \in Calls \ {c} : InTransaction(stage[d]) =>
         holds[d] \in Backends /\ backend'[holds[d]] = backend[holds[d]]
  BY <1>3, <1>6, HeldBackend
<1>8. (\A d \in Calls : holds[d] # NoBackend <=> InTransaction(stage[d]))'
  BY <1>2, <1>4 DEF IInv, PoolInv, InTransaction
<1>9. (\A d, e \in Calls : holds[d] = holds[e] /\ holds[d] # NoBackend => d = e)'
  BY <1>2, <1>6 DEF IInv, PoolInv
<1>10. (\A a \in Backends : backend[a].session = LoginSettings)'
  BY <1>3, <1>5 DEF IInv, PoolInv
<1>11. (\A a \in Backends : Free(a) => backend[a] = FreshBackend)'
  <2> SUFFICES ASSUME NEW a \in Backends, Free(a)' PROVE backend'[a] = FreshBackend
    OBVIOUS
  <2>1. \A d \in Calls : holds'[d] # a
    BY DEF Free
  <2>2. a # b
    BY <1>2, <2>1
  <2>3. holds[c] # a
    BY ExecutorAssumption DEF Begin, IInv, PoolInv, InTransaction
  <2>4. Free(a)
    BY <1>2, <2>1, <2>3 DEF Free
  <2> QED
    BY <1>3, <2>2, <2>4 DEF IInv, PoolInv
<1>12. (\A d \in Calls : stage[d] = "enter" => backend[holds[d]].local = LoginSettings)'
  BY <1>2, <1>5, <1>7 DEF IInv, PoolInv, InTransaction
<1>13. StatementConfined'
  BY <1>2, <1>4, <1>7 DEF IInv, PoolInv, StatementConfined, InTransaction
<1> QED
  BY <1>8, <1>9, <1>10, <1>11, <1>12, <1>13 DEF PoolInv

\* 3. SET LOCALs on the call's own backend, all of them or up to a failure.
LEMMA SetLocalKeepsPool ==
    ASSUME IInv, NEW c \in Calls, NEW s, NEW t,
           stage[c] = "enter", t \in {"execute", "rollback"}, Goto(c, t),
           holds' = holds, query' = query,
           backend' = [backend EXCEPT ![holds[c]] = SetLocal(@, s)],
           t = "execute" => s = [role    |-> query[c].profile,
                                 guards  |-> Guards,
                                 context |-> query[c].context]
    PROVE  PoolInv'
<1>1. holds[c] \in Backends /\ holds[c] # NoBackend
  BY HeldBackend, ExecutorAssumption DEF InTransaction
<1>2. \A d \in Calls : stage'[d] = IF d = c THEN t ELSE stage[d]
  BY DEF IInv, TypeOK, Goto
<1>3. \A a \in Backends : backend'[a] = IF a = holds[c] THEN SetLocal(backend[a], s)
                                                        ELSE backend[a]
  BY <1>1 DEF IInv, TypeOK
<1>4. /\ backend'[holds[c]].session = LoginSettings
      /\ backend'[holds[c]].local = s
  BY <1>1, <1>3 DEF IInv, PoolInv, SetLocal
<1>5. \A d \in Calls \ {c} : InTransaction(stage[d]) =>
         holds[d] \in Backends /\ backend'[holds[d]] = backend[holds[d]]
  BY <1>1, <1>3, HeldBackend DEF IInv, PoolInv
<1>6. (\A d \in Calls : holds[d] # NoBackend <=> InTransaction(stage[d]))'
  BY <1>2 DEF IInv, PoolInv, InTransaction
<1>7. (\A d, e \in Calls : holds[d] = holds[e] /\ holds[d] # NoBackend => d = e)'
  BY DEF IInv, PoolInv
<1>8. (\A a \in Backends : backend[a].session = LoginSettings)'
  BY <1>3, <1>4 DEF IInv, PoolInv
<1>9. (\A a \in Backends : Free(a) => backend[a] = FreshBackend)'
  BY <1>3 DEF IInv, PoolInv, Free
<1>10. (\A d \in Calls : stage[d] = "enter" => backend[holds[d]].local = LoginSettings)'
  BY <1>2, <1>5 DEF IInv, PoolInv, InTransaction
<1>11. StatementConfined'
  BY <1>2, <1>4, <1>5 DEF IInv, PoolInv, StatementConfined, InTransaction, Effective
<1> QED
  BY <1>6, <1>7, <1>8, <1>9, <1>10, <1>11 DEF PoolInv

\* 4. The call goes on in its transaction, to its end.
LEMMA InsideKeepsPool ==
    ASSUME IInv, NEW c \in Calls, NEW s,
           InTransaction(stage[c]), s \in {"commit", "rollback"}, Goto(c, s),
           UNCHANGED <<holds, backend>>,
           \A d \in Calls \ {c} : query'[d] = query[d]
    PROVE  PoolInv'
<1>1. \A d \in Calls : stage'[d] = IF d = c THEN s ELSE stage[d]
  BY DEF IInv, TypeOK, Goto
<1>2. StatementConfined'
  BY <1>1 DEF IInv, PoolInv, StatementConfined, InTransaction
<1> QED
  BY <1>1, <1>2 DEF IInv, PoolInv, Free, InTransaction

\* 5. The transaction ends and its backend returns to the pool.
LEMMA ReleaseKeepsPool ==
    ASSUME IInv, NEW c \in Calls, NEW s,
           InTransaction(stage[c]), ~InTransaction(s), Goto(c, s),
           holds' = [holds EXCEPT ![c] = NoBackend],
           backend' = [backend EXCEPT ![holds[c]] = FreshBackend],
           query' = query
    PROVE  PoolInv'
<1>1. holds[c] \in Backends /\ holds[c] # NoBackend
  BY HeldBackend, ExecutorAssumption
<1>2. \A d \in Calls : /\ stage'[d] = IF d = c THEN s ELSE stage[d]
                       /\ holds'[d] = IF d = c THEN NoBackend ELSE holds[d]
  BY DEF IInv, TypeOK, Goto
<1>3. \A a \in Backends : backend'[a] = IF a = holds[c] THEN FreshBackend ELSE backend[a]
  BY <1>1 DEF IInv, TypeOK
<1>4. \A d \in Calls \ {c} : InTransaction(stage[d]) =>
         holds[d] \in Backends /\ backend'[holds[d]] = backend[holds[d]]
  BY <1>1, <1>3, HeldBackend DEF IInv, PoolInv
<1>5. (\A d \in Calls : holds[d] # NoBackend <=> InTransaction(stage[d]))'
  BY <1>2 DEF IInv, PoolInv
<1>6. (\A d, e \in Calls : holds[d] = holds[e] /\ holds[d] # NoBackend => d = e)'
  BY <1>2 DEF IInv, PoolInv
<1>7. (\A a \in Backends : backend[a].session = LoginSettings)'
  BY <1>3 DEF IInv, PoolInv, FreshBackend
<1>8. (\A a \in Backends : Free(a) => backend[a] = FreshBackend)'
  <2>1. ASSUME NEW a \in Backends, Free(a)', a # holds[c] PROVE Free(a)
    BY <1>2, <2>1 DEF Free
  <2> QED
    BY <1>3, <2>1 DEF IInv, PoolInv
<1>9. (\A d \in Calls : stage[d] = "enter" => backend[holds[d]].local = LoginSettings)'
  BY <1>2, <1>4 DEF IInv, PoolInv, InTransaction
<1>10. StatementConfined'
  BY <1>2, <1>4 DEF IInv, PoolInv, StatementConfined, InTransaction
<1> QED
  BY <1>5, <1>6, <1>7, <1>8, <1>9, <1>10 DEF PoolInv
\* Release of an open transaction is a step of the fifth kind.
LEMMA ReleaseIsFresh ==
    ASSUME IInv, NEW c \in Calls, InTransaction(stage[c]), Release(c)
    PROVE  /\ holds' = [holds EXCEPT ![c] = NoBackend]
           /\ backend' = [backend EXCEPT ![holds[c]] = FreshBackend]
<1>1. EndTransaction(backend[holds[c]]) = FreshBackend
  BY HeldBackend, EndedIsFresh DEF IInv, PoolInv
<1> QED
  BY <1>1 DEF Release

LEMMA NextPool == IInv /\ [Next]_vars => PoolInv'
<1> SUFFICES ASSUME IInv, [Next]_vars PROVE PoolInv'
  OBVIOUS
<1> USE DEF dbVars, InTransaction
<1>1. ASSUME NEW c \in Calls, Invoke(c) PROVE PoolInv'
  <2>1. /\ ~InTransaction(stage[c])
        /\ UNCHANGED <<holds, backend>>
        /\ \A d \in Calls \ {c} : query'[d] = query[d]
    BY <1>1 DEF Invoke, RunQuery, MetadataTool, MetadataUnresolved, IInv, TypeOK
  <2>2. \E s \in {"validate", "audit", "escaped"} : Goto(c, s)
    BY <1>1 DEF Invoke, RunQuery, MetadataTool, MetadataUnresolved, Finish, Goto
  <2> QED
    BY <2>1, <2>2, OutsideKeepsPool
<1>2. ASSUME NEW c \in Calls, BeforeDatabase(c) PROVE PoolInv'
  <2> USE DEF BeforeDatabase, AliasAbsent, ValidationEscapes, ParserRejects,
              ParserAccepts, MetadataOnly, PrepareFails, HookReturns
  <2>1. /\ ~InTransaction(stage[c])
        /\ UNCHANGED <<holds, backend>>
        /\ \A d \in Calls \ {c} : query'[d] = query[d]
    BY <1>2 DEF IInv, TypeOK
  <2>2. \E s \in {"prepare", "begin", "audit", "escaped"} : Goto(c, s)
    BY <1>2 DEF Misconfigured, Reject, Finish, Goto
  <2> QED
    BY <2>1, <2>2, OutsideKeepsPool
<1>3. ASSUME NEW c \in Calls, ReadTransaction(c) PROVE PoolInv'
  <2>1. CASE Begin(c)
    BY <2>1, BeginKeepsPool
  <2>2. CASE BeginFails(c)
    BY <2>2, OutsideKeepsPool DEF BeginFails
  <2>3. CASE EnterSession(c)
    <3>1. backend[holds[c]].local = LoginSettings
      BY <2>3 DEF EnterSession, IInv, PoolInv
    <3>2. EnteredSettings(backend[holds[c]], query[c].profile, query[c].context)
            = [role |-> query[c].profile, guards |-> Guards, context |-> query[c].context]
      BY <3>1 DEF EnteredSettings, LoginSettings
    <3> QED
      BY <2>3, <3>2, SetLocalKeepsPool DEF EnterSession, enter_readonly_session
  <2>4. CASE EnterFails(c)
    BY <2>4, SetLocalKeepsPool DEF EnterFails
  <2>5. CASE Execute(c)
    <3>1. \A d \in Calls \ {c} : query'[d] = query[d]
      BY <2>5 DEF Execute, IInv, TypeOK
    <3> QED
      BY <2>5, <3>1, InsideKeepsPool DEF Execute
  <2>6. CASE ExecuteFails(c)
    BY <2>6, InsideKeepsPool DEF ExecuteFails
  <2>7. CASE FetchEscapes(c)
    BY <2>7, ReleaseIsFresh, ReleaseKeepsPool DEF FetchEscapes
  <2>8. CASE Commit(c)
    <3>1. Goto(c, "audit")
      BY <2>8 DEF Commit, Success, Finish, Goto
    <3> QED
      BY <2>8, <3>1, ReleaseIsFresh, ReleaseKeepsPool DEF Commit
  <2>9. CASE CommitFails(c)
    BY <2>9, InsideKeepsPool DEF CommitFails
  <2>10. CASE Rollback(c)
    BY <2>10, ReleaseIsFresh, ReleaseKeepsPool DEF Rollback
  <2> QED
    BY <1>3, <2>1, <2>2, <2>3, <2>4, <2>5, <2>6, <2>7, <2>8, <2>9, <2>10
       DEF ReadTransaction
<1>4. ASSUME NEW c \in Calls, Audit(c) PROVE PoolInv'
  <2>1. /\ ~InTransaction(stage[c])
        /\ UNCHANGED <<holds, backend, query>>
    BY <1>4 DEF Audit, AuditWrites, AuditFails, CountVolume
  <2>2. \E s \in {"count", "answered"} : Goto(c, s)
    BY <1>4 DEF Audit, AuditWrites, AuditFails, CountVolume
  <2> QED
    BY <2>1, <2>2, OutsideKeepsPool
<1>5. CASE UNCHANGED vars
  BY <1>5 DEF vars, IInv, PoolInv, StatementConfined, Free
<1> QED
  BY <1>1, <1>2, <1>3, <1>4, <1>5 DEF Next, Progress, AllFinished

-----------------------------------------------------------------------------

LEMMA InitIInv == Init => IInv
<1> SUFFICES ASSUME Init PROVE PoolInv
  BY InitType DEF IInv
<1> QED
  BY DEF Init, PoolInv, InTransaction, StatementConfined, FreshBackend

LEMMA IInvHolds == Spec => []IInv
<1>1. IInv /\ [Next]_vars => IInv'
  BY NextType, NextPool DEF IInv
<1> QED
  BY InitIInv, <1>1, PTL DEF Spec

\* Every variable keeps its type through every interleaving of the calls.
THEOREM TypeCorrect == Spec => []TypeOK
BY IInvHolds, PTL DEF IInv

\* However many calls share however few backends, the statement of each runs
\* in its own profile's role, under all four guards and with its own hook's
\* context: enter_readonly_session runs in full, on a backend nobody else has
\* written to, before the statement does.
THEOREM StatementsAreConfined == Spec => []StatementConfined
BY IInvHolds, PTL DEF IInv, PoolInv

\* A backend in the pool carries nothing of the calls that used it, also after
\* a failed SET LOCAL, statement or COMMIT and after an escaped exception.
THEOREM PoolStaysClean == Spec => []PooledBackendsClean
<1>1. IInv => PooledBackendsClean
  BY DEF IInv, PoolInv, PooledBackendsClean
<1> QED
  BY IInvHolds, <1>1, PTL

\* Two calls never read on one backend, and no ended call keeps one.
THEOREM NoBackendShared == Spec => []BackendsExclusive
<1>1. IInv => BackendsExclusive
  BY DEF IInv, PoolInv, BackendsExclusive, Finished, InTransaction
<1> QED
  BY IInvHolds, <1>1, PTL
=============================================================================
