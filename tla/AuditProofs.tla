----------------------------- MODULE AuditProofs -----------------------------
(***************************************************************************)
(* Proofs about what the executor says of a call: its audit row, its       *)
(* answer and the volume counters, for any calls, limits and row counts.   *)
(***************************************************************************)
EXTENDS ExecutorProofs, FiniteSetTheorems

-----------------------------------------------------------------------------
(* The invariant: what is known of one call at each stage *)

Unsent  == {"idle", "validate", "prepare", "begin", "enter", "execute"}
Drafted == {"rollback", "audit", "count", "answered"}

Unwritten(c) == log[c] = <<>> /\ gaps[c] = 0
Written(c)   == log[c] = <<draft[c]>> /\ gaps[c] = 0
Missed(c)    == log[c] = <<>> /\ gaps[c] = 1

\* The row the call is about to write, or wrote, says what happened.
DraftInv(c) ==
    /\ draft[c].profile = query[c].profile
    /\ draft[c].decision = "rejected" => c \notin sent
    /\ ~draft[c].wrapped => c \notin sent
    /\ RowAgrees(draft[c], result[c])

\* n rows and the flag are what both caps make of the rows a query matched.
Capped(q, n, truncated) ==
    LET fetched == FetchedRows(q.limit, q.sqlLimit, q.total)
        upto    == KeptRows(q.limit, q.sqlLimit, fetched)
    IN  /\ n \in Lesser(1, upto)..upto
        /\ truncated <=> \/ TruncatedByCount(q.limit, q.sqlLimit, fetched)
                         \/ n < upto

CallInv(c) ==
    /\ stage[c] \in Unsent => c \notin sent
    /\ stage[c] \in Drafted => DraftInv(c)
    /\ stage[c] = "rollback" => result[c].reason # ""
    /\ stage[c] \notin {"count", "answered"} => Unwritten(c)
    /\ stage[c] = "count" => Written(c)
    /\ stage[c] = "answered" => Written(c) \/ Missed(c)
    /\ stage[c] \in {"audit", "count", "answered"} /\ c \in sent /\ result[c].reason = ""
       => Capped(query[c], result[c].row_count, result[c].truncated)

AuditInv == \A c \in Calls : CallInv(c)

\* A decision has counted no more calls than are past the counter with a row.
CountedCalls(d) == {c \in Calls : stage[c] = "answered" /\ log[c] # <<>> /\ draft[c].decision = d}

VolumeInv == \A d \in Decisions : volume[d] <= Cardinality(CountedCalls(d))

-----------------------------------------------------------------------------
(* A step of one call, and what it leaves of the others *)

\* What the invariant says of a call is said of its own columns.
LEMMA SameCall ==
    ASSUME NEW d, CallInv(d),
           stage'[d] = stage[d], query'[d] = query[d], draft'[d] = draft[d],
           result'[d] = result[d], log'[d] = log[d], gaps'[d] = gaps[d],
           d \in sent' <=> d \in sent
    PROVE  CallInv(d)'
BY DEF CallInv, DraftInv, RowAgrees, Unwritten, Written, Missed, Capped

\* A step of the call c touches no other call.
LEMMA OthersUntouched ==
    ASSUME TypeOK, NEW c \in Calls, Invoke(c) \/ Progress(c), NEW d \in Calls \ {c}
    PROVE  /\ stage'[d] = stage[d] /\ query'[d] = query[d] /\ draft'[d] = draft[d]
           /\ result'[d] = result[d] /\ log'[d] = log[d] /\ gaps'[d] = gaps[d]
           /\ d \in sent' <=> d \in sent
<1> USE DEF TypeOK, outVars, dbVars, auditVars, Goto, Finish, DatabaseErrorResult
<1>1. CASE Invoke(c)
  BY <1>1 DEF Invoke, RunQuery, MetadataTool, MetadataUnresolved
<1>2. CASE BeforeDatabase(c)
  BY <1>2 DEF BeforeDatabase, AliasAbsent, ValidationEscapes, ParserRejects, ParserAccepts,
              MetadataOnly, PrepareFails, HookReturns, Reject, Misconfigured
<1>3. CASE Begin(c) \/ BeginFails(c) \/ EnterSession(c) \/ EnterFails(c)
  BY <1>3 DEF Begin, BeginFails, EnterSession, EnterFails
<1>4. CASE Execute(c) \/ ExecuteFails(c) \/ FetchEscapes(c)
  BY <1>4 DEF Execute, ExecuteFails, FetchEscapes
<1>5. CASE Commit(c)
  BY <1>5 DEF Commit, Success
<1>6. CASE CommitFails(c) \/ Rollback(c)
  BY <1>6 DEF CommitFails, Rollback
<1>7. CASE Audit(c)
  BY <1>7 DEF Audit, AuditWrites, AuditFails, CountVolume
<1> QED
  BY <1>1, <1>2, <1>3, <1>4, <1>5, <1>6, <1>7 DEF Progress, ReadTransaction

\* What a step does to its own call is one of four things.

\* 1. The call moves on, or an exception leaves the executor; nothing is
\*    drafted.
LEMMA MoveKeepsCall ==
    ASSUME TypeOK, NEW c \in Calls, CallInv(c),
           NEW s \in Unsent \cup {"commit", "escaped"}, Goto(c, s),
           stage[c] \in Unsent, UNCHANGED <<log, gaps>>,
           s \in Unsent => sent' = sent
    PROVE  CallInv(c)'
<1>1. stage'[c] = s
  BY DEF TypeOK, Goto
<1>2. Unwritten(c)'
  BY DEF CallInv, Unwritten, Unsent
<1>3. c \notin sent
  BY DEF CallInv
<1> QED
  BY <1>1, <1>2, <1>3 DEF CallInv, Unsent, Drafted

\* 2. An early return: nothing was sent, and the row agrees with the answer.
LEMMA FinishKeepsCall ==
    ASSUME TypeOK, NEW c \in Calls, CallInv(c), NEW row, NEW res, Finish(c, row, res),
           stage[c] \in Unsent, UNCHANGED <<log, gaps, sent>>,
           row.profile = query'[c].profile, RowAgrees(row, res)
    PROVE  CallInv(c)'
<1>1. stage'[c] = "audit" /\ draft'[c] = row /\ result'[c] = res
  BY DEF TypeOK, Finish
<1>2. Unwritten(c)' /\ c \notin sent'
  BY DEF CallInv, Unwritten, Unsent
<1>3. DraftInv(c)'
  BY <1>1, <1>2 DEF DraftInv, RowAgrees
<1> QED
  BY <1>1, <1>2, <1>3 DEF CallInv, Unsent

\* 3. A DatabaseError: whether or not the statement was sent, the row says
\*    "allowed", with the SQL, and the answer has its reason.
LEMMA ErrorKeepsCall ==
    ASSUME TypeOK, NEW c \in Calls, CallInv(c), NEW r \in {"timeout", "execution_error"}, DatabaseErrorResult(c, r),
           NEW s \in {"audit", "rollback"}, Goto(c, s),
           stage[c] \in Unsent \cup {"commit"}, UNCHANGED <<log, gaps, query>>
    PROVE  CallInv(c)'
<1>1. stage'[c] = s
  BY DEF TypeOK, Goto
<1>2. Unwritten(c)'
  BY DEF CallInv, Unwritten, Unsent
<1>3. result'[c] = EmptyResult(r, FALSE) /\ result'[c].reason = r /\ result'[c].row_count = 0
  <2>1. result'[c] = EmptyResult(r, FALSE)
    BY DEF TypeOK, DatabaseErrorResult
  <2> QED
    BY <2>1 DEF EmptyResult
<1>4. /\ draft'[c].tool = "run_query" /\ draft'[c].profile = query[c].profile
      /\ draft'[c].decision = "allowed" /\ draft'[c].reason = r
      /\ draft'[c].wrapped /\ draft'[c].row_count = NULL
      /\ draft'[c].truncated = result'[c].truncated
  <2>1. draft'[c] = AuditRow(c, "allowed", r, TRUE)
    BY DEF TypeOK, DatabaseErrorResult
  <2> QED
    BY <1>3, <2>1 DEF AuditRow, LogRow, EmptyResult
<1>5. DraftInv(c)'
  BY <1>3, <1>4 DEF DraftInv, RowAgrees
<1> QED
  BY <1>1, <1>2, <1>3, <1>5 DEF CallInv, Unsent

\* 4. The row is written, or could not be, or is counted: it stays as drafted.
LEMMA AuditKeepsCall ==
    ASSUME TypeOK, NEW c \in Calls, CallInv(c), Audit(c)
    PROVE  CallInv(c)'
<1>1. UNCHANGED <<query, draft, result, sent>>
  BY DEF Audit, AuditWrites, AuditFails, CountVolume, outVars, dbVars
<1>2. /\ stage[c] \in {"audit", "count"} /\ DraftInv(c)
      /\ c \in sent /\ result[c].reason = ""
         => Capped(query[c], result[c].row_count, result[c].truncated)
  BY DEF Audit, AuditWrites, AuditFails, CountVolume, CallInv, Drafted
<1>3. DraftInv(c)'
  BY <1>1, <1>2 DEF DraftInv, RowAgrees
<1>4. c \in sent' /\ result'[c].reason = ""
      => Capped(query[c], result[c].row_count, result[c].truncated)'
  BY <1>1, <1>2 DEF Capped
<1>5. \/ stage'[c] = "count" /\ Written(c)'
      \/ stage'[c] = "answered" /\ (Written(c)' \/ Missed(c)')
  <2>1. CASE AuditWrites(c)
    <3>1. log[c] = <<>> /\ gaps[c] = 0
      BY <2>1 DEF AuditWrites, CallInv, Unwritten
    <3>2. log'[c] = Append(log[c], draft[c])
      BY <2>1 DEF AuditWrites, TypeOK
    <3>3. Append(<<>>, draft[c]) = <<draft[c]>>
      OBVIOUS
    <3>4. stage'[c] = "count" /\ gaps' = gaps
      BY <2>1 DEF AuditWrites, TypeOK, Goto
    <3> QED
      BY <1>1, <3>1, <3>2, <3>3, <3>4 DEF Written
  <2>2. CASE AuditFails(c)
    <3>1. log'[c] = <<>> /\ gaps[c] = 0
      BY <2>2 DEF AuditFails, CallInv, Unwritten
    <3>2. stage'[c] = "answered" /\ gaps'[c] = gaps[c] + 1
      BY <2>2 DEF AuditFails, Goto, TypeOK
    <3> QED
      BY <3>1, <3>2 DEF Missed
  <2>3. CASE CountVolume(c)
    BY <1>1, <2>3 DEF CountVolume, CallInv, Written, Goto, TypeOK
  <2> QED
    BY <2>1, <2>2, <2>3 DEF Audit
<1> QED
  BY <1>3, <1>4, <1>5 DEF CallInv, Unsent

-----------------------------------------------------------------------------
(* Every action is one of these, or the commit of a successful read *)

LEMMA EarlyRowAgrees ==
    ASSUME NEW c \in Calls, NEW d, NEW r, NEW w, NEW b
    PROVE  /\ AuditRow(c, d, r, w).profile = query[c].profile
           /\ RowAgrees(AuditRow(c, d, r, w), EmptyResult(r, b))
BY DEF AuditRow, LogRow, EmptyResult, RowAgrees

LEMMA RejectKeepsCall ==
    ASSUME TypeOK, NEW c \in Calls, CallInv(c), NEW r, NEW w,
           Reject(c, r, w) \/ Misconfigured(c),
           stage[c] \in Unsent, UNCHANGED <<log, gaps, sent, query>>
    PROVE  CallInv(c)'
BY EarlyRowAgrees, FinishKeepsCall DEF Reject, Misconfigured

LEMMA InvokeKeepsCall ==
    ASSUME TypeOK, NEW c \in Calls, CallInv(c), Invoke(c)
    PROVE  CallInv(c)'
<1> USE DEF auditVars, dbVars, outVars, Unsent
<1>1. CASE RunQuery(c)
  BY <1>1, MoveKeepsCall DEF RunQuery
<1>2. CASE MetadataTool(c)
  <2>1. PICK tool \in Tools \ {"run_query"}, reason \in {"", "not_whitelisted"} :
           /\ query' = [query EXCEPT ![c].tool = tool]
           /\ Finish(c, MetadataRow(c, tool), EmptyResult(reason, FALSE))
    BY <1>2 DEF MetadataTool
  <2>2. /\ MetadataRow(c, tool).tool = tool
        /\ MetadataRow(c, tool).profile = query[c].profile
    BY DEF MetadataRow, LogRow
  <2>3. query'[c].profile = query[c].profile
    BY <2>1 DEF TypeOK, Query
  <2>4. RowAgrees(MetadataRow(c, tool), EmptyResult(reason, FALSE))
    BY <2>2 DEF RowAgrees
  <2> QED
    BY <1>2, <2>1, <2>2, <2>3, <2>4, FinishKeepsCall DEF MetadataTool
<1>3. CASE MetadataUnresolved(c)
  BY <1>3, MoveKeepsCall DEF MetadataUnresolved
<1> QED
  BY <1>1, <1>2, <1>3 DEF Invoke

LEMMA BeforeDatabaseKeepsCall ==
    ASSUME TypeOK, NEW c \in Calls, CallInv(c), BeforeDatabase(c)
    PROVE  CallInv(c)'
<1> USE DEF auditVars, dbVars, outVars, Unsent
<1>1. CASE AliasAbsent(c)
  BY <1>1, RejectKeepsCall DEF AliasAbsent
<1>2. CASE ValidationEscapes(c)
  BY <1>2, MoveKeepsCall DEF ValidationEscapes
<1>3. CASE ParserRejects(c)
  BY <1>3, RejectKeepsCall DEF ParserRejects
<1>4. CASE ParserAccepts(c)
  BY <1>4, MoveKeepsCall DEF ParserAccepts
<1>5. CASE MetadataOnly(c)
  <2>1. /\ Finish(c, LogRow(c, "run_query", "allowed", "", FALSE, 0, FALSE), NoResult)
        /\ stage[c] = "prepare" /\ UNCHANGED <<log, gaps, sent, query>>
    BY <1>5 DEF MetadataOnly
  <2>2. 0 # NULL
    BY ExecutorAssumption
  <2>3. RowAgrees(LogRow(c, "run_query", "allowed", "", FALSE, 0, FALSE), NoResult)
    BY <2>2 DEF RowAgrees, LogRow, NoResult, EmptyResult
  <2>4. LogRow(c, "run_query", "allowed", "", FALSE, 0, FALSE).profile = query[c].profile
    BY DEF LogRow
  <2> QED
    BY <2>1, <2>3, <2>4, FinishKeepsCall
<1>6. CASE PrepareFails(c)
  BY <1>6, RejectKeepsCall DEF PrepareFails
<1>7. CASE HookReturns(c)
  BY <1>7, MoveKeepsCall DEF HookReturns
<1> QED
  BY <1>1, <1>2, <1>3, <1>4, <1>5, <1>6, <1>7 DEF BeforeDatabase

LEMMA SuccessColumns ==
    ASSUME TypeOK, NEW c \in Calls, NEW n, n # NULL, NEW truncated, NEW row, NEW res,
           row = LogRow(c, "run_query", "allowed", "", TRUE, n, truncated),
           res = [raised |-> FALSE, reason |-> "", row_count |-> n, truncated |-> truncated],
           Finish(c, row, res)
    PROVE  /\ draft'[c].profile = query[c].profile
           /\ draft'[c].decision = "allowed" /\ draft'[c].wrapped
           /\ result'[c].row_count = n /\ result'[c].truncated = truncated
           /\ RowAgrees(draft[c], result[c])'
<1>1. draft'[c] = row /\ result'[c] = res
  BY DEF TypeOK, Finish
<1>2. row.profile = query[c].profile /\ row.decision = "allowed" /\ row.wrapped
  BY DEF LogRow
<1>3. res.row_count = n /\ res.truncated = truncated
  OBVIOUS
<1>4. RowAgrees(row, res)
  BY DEF RowAgrees, LogRow
<1> QED
  BY <1>1, <1>2, <1>3, <1>4 DEF RowAgrees

\* The rows are capped as the query's limits say, and the flag says so.
LEMMA CommitKeepsCall ==
    ASSUME TypeOK, NEW c \in Calls, CallInv(c), Commit(c)
    PROVE  CallInv(c)'
<1> DEFINE q       == query[c]
           fetched == FetchedRows(q.limit, q.sqlLimit, q.total)
           upto    == KeptRows(q.limit, q.sqlLimit, fetched)
<1>1. PICK kept \in Lesser(1, upto)..upto : Success(c, fetched, kept)
  BY DEF Commit
<1>2. upto \in Nat /\ kept \in Nat
  <2>1. q.limit \in Int \cup {NoLimit} /\ q.total \in Nat
    BY QueryTypes
  <2>2. upto \in Nat
    <3> HIDE DEF q
    <3> QED
      BY <2>1, RowCountTypes
  <2> HIDE DEF upto
  <2>3. Lesser(1, upto) \in Nat
    BY <2>2 DEF Lesser
  <2> QED
    BY <2>2, <2>3, <1>1
<1>3. kept # NULL
  BY <1>2, ExecutorAssumption
<1> DEFINE truncated == \/ TruncatedByCount(q.limit, q.sqlLimit, fetched)
                        \/ kept < upto
<1>4. Capped(query[c], kept, truncated)
  BY <1>1 DEF Capped
<1>5. Finish(c, LogRow(c, "run_query", "allowed", "", TRUE, kept, truncated),
             [raised |-> FALSE, reason |-> "", row_count |-> kept,
              truncated |-> truncated])
  BY <1>1 DEF Success
<1> HIDE DEF truncated
<1>6. /\ draft'[c].profile = query[c].profile
      /\ draft'[c].decision = "allowed" /\ draft'[c].wrapped
      /\ result'[c].row_count = kept /\ result'[c].truncated = truncated
      /\ RowAgrees(draft[c], result[c])'
  BY <1>3, <1>5, SuccessColumns
<1>7. stage'[c] = "audit"
  BY <1>5 DEF TypeOK, Finish
<1>8. UNCHANGED <<query, log, gaps, sent>> /\ Unwritten(c)
  BY DEF Commit, auditVars, CallInv
<1>9. Unwritten(c)'
  BY <1>8 DEF Unwritten
<1>10. DraftInv(c)'
  BY <1>6, <1>8 DEF DraftInv
<1>11. Capped(query[c], result[c].row_count, result[c].truncated)'
  BY <1>4, <1>6, <1>8 DEF Capped
<1> QED
  BY <1>7, <1>9, <1>10, <1>11 DEF CallInv, Unsent

LEMMA ReadTransactionKeepsCall ==
    ASSUME TypeOK, NEW c \in Calls, CallInv(c), ReadTransaction(c)
    PROVE  CallInv(c)'
<1> USE DEF auditVars, dbVars, outVars, Unsent
<1>1. CASE Begin(c)
  BY <1>1, MoveKeepsCall DEF Begin
<1>2. CASE BeginFails(c)
  BY <1>2, ErrorKeepsCall DEF BeginFails
<1>3. CASE EnterSession(c)
  BY <1>3, MoveKeepsCall DEF EnterSession
<1>4. CASE EnterFails(c)
  BY <1>4, ErrorKeepsCall DEF EnterFails
<1>5. CASE Execute(c)
  BY <1>5, MoveKeepsCall DEF Execute
<1>6. CASE ExecuteFails(c)
  BY <1>6, ErrorKeepsCall DEF ExecuteFails
<1>7. CASE FetchEscapes(c)
  BY <1>7, MoveKeepsCall DEF FetchEscapes
<1>8. CASE Commit(c)
  BY <1>8, CommitKeepsCall
<1>9. CASE CommitFails(c)
  BY <1>9, ErrorKeepsCall DEF CommitFails
<1>10. CASE Rollback(c)
  <2>1. /\ stage[c] = "rollback" /\ stage'[c] = "audit"
        /\ UNCHANGED <<query, draft, result, log, gaps, sent>>
    BY <1>10 DEF Rollback, Goto, TypeOK
  <2> QED
    BY <2>1 DEF CallInv, DraftInv, RowAgrees, Unwritten, Drafted
<1> QED
  BY <1>1, <1>2, <1>3, <1>4, <1>5, <1>6, <1>7, <1>8, <1>9, <1>10 DEF ReadTransaction

LEMMA NextAudit == TypeOK /\ AuditInv /\ [Next]_vars => AuditInv'
<1> SUFFICES ASSUME TypeOK, AuditInv, [Next]_vars, NEW d \in Calls PROVE CallInv(d)'
  BY DEF AuditInv
<1>1. CallInv(d)
  BY DEF AuditInv
<1>2. ASSUME NEW c \in Calls, Invoke(c) \/ Progress(c) PROVE CallInv(d)'
  <2>1. CASE d # c
    BY <1>1, <1>2, <2>1, OthersUntouched, SameCall
  <2>2. CASE d = c
    BY <1>1, <1>2, <2>2, InvokeKeepsCall, BeforeDatabaseKeepsCall,
       ReadTransactionKeepsCall, AuditKeepsCall DEF Progress
  <2> QED
    BY <2>1, <2>2
<1>3. CASE UNCHANGED vars
  BY <1>1, <1>3, SameCall DEF vars
<1> QED
  BY <1>2, <1>3 DEF Next, AllFinished

LEMMA InitAudit == Init => AuditInv
BY DEF Init, AuditInv, CallInv, Unsent, Drafted, Unwritten

LEMMA AuditInvHolds == Spec => []AuditInv
BY InitAudit, NextAudit, TypeCorrect, PTL DEF Spec

-----------------------------------------------------------------------------
(* The log *)

\* Whatever way a call ends, its row tells whether PostgreSQL saw the
\* statement: all that is logged is the row drafted, and each way out drafts
\* one that fits how far the call came.
THEOREM RowsTellReach == Spec => []DecisionTellsReach
<1>1. AuditInv => DecisionTellsReach
  <2> SUFFICES ASSUME AuditInv, NEW c \in Calls, NEW i \in 1..Len(log[c])
               PROVE  /\ log[c][i].decision = "rejected" => c \notin sent
                      /\ ~log[c][i].wrapped => c \notin sent
                      /\ log[c][i].profile = query[c].profile
    BY DEF DecisionTellsReach
  <2>1. log[c] = <<>> \/ (log[c] = <<draft[c]>> /\ DraftInv(c))
    BY DEF AuditInv, CallInv, Unwritten, Written, Missed, Drafted
  <2>2. log[c][i] = draft[c] /\ DraftInv(c)
    BY <2>1
  <2> QED
    BY <2>2 DEF DraftInv
<1> QED
  BY <1>1, AuditInvHolds, PTL

\* An answer's rows were asked for, and its flag is right, if they are what
\* the two caps leave of the rows the query matched.
LEMMA CappedRows ==
    ASSUME NEW q, q.limit \in Int \cup {NoLimit}, q.total \in Nat,
           NEW n \in Nat, NEW truncated, Capped(q, n, truncated)
    PROVE  /\ AskedFor(q, n)
           /\ n <= HARD_LIMIT
           /\ ExplicitLimits(q.limit, q.sqlLimit) = {} => n <= DEFAULT_LIMIT
           /\ truncated <=> AskedFor(q, n + 1)
<1> DEFINE explicit == ExplicitLimits(q.limit, q.sqlLimit)
           least    == MinExplicitLimit(q.limit, q.sqlLimit)
           eff      == EffectiveLimit(q.limit, q.sqlLimit)
           total    == q.total
<1>1. explicit \subseteq Int
  BY LimitsAssumption DEF ExplicitLimits, ExtractLimit
<1>2. AskedFor(q, n) <=> n <= total /\ \A e \in explicit : n <= Greater(0, e)
  BY DEF AskedFor
<1>3. AskedFor(q, n + 1) <=> n + 1 <= total /\ \A e \in explicit : n + 1 <= Greater(0, e)
  BY DEF AskedFor
<1>4. CASE explicit = {}
  <2>1. eff = DEFAULT_LIMIT
    BY <1>4, LimitsAssumption DEF EffectiveLimit, MinExplicitLimit, Lesser, Greater
  <2>2. ~UserConstrained(q.limit, q.sqlLimit)
    BY <1>4 DEF UserConstrained
  <2> QED
    BY <1>2, <1>3, <1>4, <2>1, <2>2, LimitsAssumption
       DEF Capped, FetchedRows, KeptRows, TruncatedByCount, Lesser
<1>5. CASE explicit # {}
  <2>1. least \in explicit /\ \A e \in explicit : least <= e
    <3>1. \E m \in explicit : \A e \in explicit : m <= e
      BY <1>1, <1>5 DEF ExplicitLimits
    <3> QED
      BY <1>5, <3>1 DEF MinExplicitLimit
  <2>2. least \in Int
    BY <1>1, <2>1
  <2>3. eff = Greater(0, Lesser(least, HARD_LIMIT))
    BY DEF EffectiveLimit
  <2>4. UserConstrained(q.limit, q.sqlLimit) <=> least <= HARD_LIMIT
    BY <1>5 DEF UserConstrained
  <2>5. ASSUME NEW m \in Nat
        PROVE  (\A e \in explicit : m <= Greater(0, e)) <=> m <= Greater(0, least)
    BY <1>1, <2>1, <2>2 DEF Greater
  <2> HIDE DEF explicit, least, eff
  <2>6. /\ n <= total /\ n <= Greater(0, least) /\ n <= HARD_LIMIT
        /\ truncated <=> n + 1 <= total /\ n + 1 <= Greater(0, least)
    BY <2>2, <2>3, <2>4, LimitsAssumption
       DEF eff, Capped, FetchedRows, KeptRows, TruncatedByCount, Lesser, Greater
  <2> QED
    BY <1>2, <1>3, <1>5, <2>5, <2>6 DEF explicit
<1> QED
  BY <1>4, <1>5

\* ... which is what the invariant says of every answer with rows.
LEMMA ReturnedRowsCapped ==
    ASSUME TypeOK, AuditInv, NEW c \in Calls, ReturnedRows(c)
    PROVE  /\ AskedFor(query[c], result[c].row_count)
           /\ result[c].row_count <= HARD_LIMIT
           /\ ExplicitLimits(query[c].limit, query[c].sqlLimit) = {}
                => result[c].row_count <= DEFAULT_LIMIT
           /\ result[c].truncated <=> AskedFor(query[c], result[c].row_count + 1)
<1>1. Capped(query[c], result[c].row_count, result[c].truncated)
  BY DEF AuditInv, CallInv, ReturnedRows
<1>2. result[c].row_count \in Nat
  BY DEF TypeOK, QueryResult
<1>3. query[c].limit \in Int \cup {NoLimit} /\ query[c].total \in Nat
  BY QueryTypes
<1> QED
  BY <1>1, <1>2, <1>3, CappedRows

\* No answer has more rows than were asked for, than HARD_LIMIT, or, when no
\* limit was given, than DEFAULT_LIMIT: for any limits, any arguments and any
\* number of matching rows.
THEOREM AnswersKeepLimits == Spec => []AnswerWithinLimits
<1>1. TypeOK /\ AuditInv => AnswerWithinLimits
  BY ReturnedRowsCapped DEF AnswerWithinLimits
<1> QED
  BY <1>1, TypeCorrect, AuditInvHolds, PTL

\* `truncated` tells exactly whether the server held rows back: the row fetched
\* beyond the limit, and the caller's own limit when it is the lower one, are
\* told apart from the server's limits.
THEOREM FlagTellsTruncation == Spec => []TruncatedIffRowsHeldBack
<1>1. TypeOK /\ AuditInv => TruncatedIffRowsHeldBack
  BY ReturnedRowsCapped DEF TruncatedIffRowsHeldBack
<1> QED
  BY <1>1, TypeCorrect, AuditInvHolds, PTL

-----------------------------------------------------------------------------
(* The volume counters *)

\* A call counted stays counted: nothing it is counted by changes any more.
LEMMA CountedStays ==
    ASSUME TypeOK, NEW c \in Calls, Invoke(c) \/ Progress(c), NEW d \in Decisions
    PROVE  CountedCalls(d) \subseteq CountedCalls(d)'
<1> SUFFICES ASSUME NEW e \in CountedCalls(d) PROVE e \in CountedCalls(d)'
  OBVIOUS
<1>1. e # c
  BY DEF CountedCalls, Invoke, RunQuery, MetadataTool, MetadataUnresolved, Progress,
         BeforeDatabase, AliasAbsent, ValidationEscapes, ParserRejects, ParserAccepts,
         MetadataOnly, PrepareFails, HookReturns, ReadTransaction, Begin, BeginFails,
         EnterSession, EnterFails, Execute, ExecuteFails, FetchEscapes, Commit,
         CommitFails, Rollback, Audit, AuditWrites, AuditFails, CountVolume
<1> QED
  BY <1>1, OthersUntouched DEF CountedCalls

LEMMA CountedFinite ==
    ASSUME NEW d
    PROVE  /\ IsFiniteSet(CountedCalls(d)) /\ IsFiniteSet(LoggedCalls(d))
           /\ Cardinality(CountedCalls(d)) \in Nat /\ Cardinality(LoggedCalls(d)) \in Nat
BY FiniteCalls, FS_Subset, FS_CardinalityType DEF CountedCalls, LoggedCalls

\* Only CountVolume counts, and it counts a call that was not counted yet.
LEMMA NextVolume ==
    TypeOK /\ AuditInv /\ VolumeInv /\ TypeOK' /\ [Next]_vars => VolumeInv'
<1> SUFFICES ASSUME TypeOK, AuditInv, VolumeInv, TypeOK', [Next]_vars, NEW d \in Decisions
             PROVE  volume'[d] <= Cardinality(CountedCalls(d)')
  BY DEF VolumeInv
<1>1. volume[d] <= Cardinality(CountedCalls(d)) /\ volume[d] \in Nat /\ volume'[d] \in Nat
  BY DEF VolumeInv, TypeOK
<1>2. /\ IsFiniteSet(CountedCalls(d)) /\ IsFiniteSet(CountedCalls(d)')
      /\ Cardinality(CountedCalls(d)) \in Nat /\ Cardinality(CountedCalls(d)') \in Nat
  <2>1. CountedCalls(d) \subseteq Calls /\ CountedCalls(d)' \subseteq Calls
    BY DEF CountedCalls
  <2> QED
    BY <2>1, FiniteCalls, FS_Subset, FS_CardinalityType
<1>3. ASSUME NEW c \in Calls, Invoke(c) \/ Progress(c), volume' = volume
      PROVE  volume'[d] <= Cardinality(CountedCalls(d)')
  <2>1. CountedCalls(d) \subseteq CountedCalls(d)'
    BY <1>3, CountedStays
  <2>2. Cardinality(CountedCalls(d)) <= Cardinality(CountedCalls(d)')
    BY <1>2, <2>1, FS_Subset
  <2> QED
    BY <1>1, <1>2, <1>3, <2>2
<1>4. ASSUME NEW c \in Calls, CountVolume(c), volume' # volume
      PROVE  volume'[d] <= Cardinality(CountedCalls(d)')
  <2>1. CountedCalls(d) \subseteq CountedCalls(d)'
    BY <1>4, CountedStays DEF Progress, Audit
  <2>2. volume' = [volume EXCEPT ![draft[c].decision] = @ + 1]
    BY <1>4 DEF CountVolume
  <2>3. CASE d # draft[c].decision
    <3>1. volume'[d] = volume[d]
      BY <2>2, <2>3 DEF TypeOK
    <3>2. Cardinality(CountedCalls(d)) <= Cardinality(CountedCalls(d)')
      BY <1>2, <2>1, FS_Subset
    <3> QED
      BY <1>1, <1>2, <3>1, <3>2
  <2>4. CASE d = draft[c].decision
    <3>1. volume'[d] = volume[d] + 1
      BY <2>2, <2>4 DEF TypeOK
    <3>2. c \notin CountedCalls(d)
      BY <1>4 DEF CountVolume, CountedCalls
    <3>3. c \in CountedCalls(d)'
      <4>1. log[c] # <<>>
        <5>1. log[c] = <<draft[c]>>
          BY <1>4 DEF CountVolume, AuditInv, CallInv, Written
        <5> QED
          BY <5>1
      <4>2. stage'[c] = "answered" /\ log' = log /\ draft' = draft
        BY <1>4 DEF CountVolume, Goto, TypeOK, outVars
      <4> QED
        BY <2>4, <4>1, <4>2 DEF CountedCalls
    <3>4. /\ Cardinality(CountedCalls(d) \cup {c}) = Cardinality(CountedCalls(d)) + 1
          /\ Cardinality(CountedCalls(d) \cup {c}) <= Cardinality(CountedCalls(d)')
      <4>1. CountedCalls(d) \cup {c} \subseteq CountedCalls(d)'
        BY <2>1, <3>3
      <4> QED
        BY <1>2, <3>2, <4>1, FS_AddElement, FS_Subset
    <3> QED
      BY <1>1, <1>2, <3>1, <3>4
  <2> QED
    BY <2>3, <2>4
<1>5. CASE UNCHANGED vars
  <2>1. CountedCalls(d)' = CountedCalls(d) /\ volume' = volume
    BY <1>5 DEF vars, CountedCalls
  <2> QED
    BY <1>1, <2>1
<1>6. ASSUME NEW c \in Calls, Invoke(c) \/ Progress(c), volume' # volume PROVE CountVolume(c)
  BY <1>6 DEF Invoke, RunQuery, MetadataTool, MetadataUnresolved, Progress, auditVars,
         BeforeDatabase, AliasAbsent, ValidationEscapes, ParserRejects, ParserAccepts,
         MetadataOnly, PrepareFails, HookReturns, ReadTransaction, Begin, BeginFails,
         EnterSession, EnterFails, Execute, ExecuteFails, FetchEscapes, Commit,
         CommitFails, Rollback, Audit, AuditWrites, AuditFails
<1> QED
  BY <1>3, <1>4, <1>5, <1>6 DEF Next, AllFinished

\* However calls interleave, and whichever inserts and counts are lost, no
\* decision's counter is ahead of the rows of that decision.
THEOREM VolumeFollowsLog == Spec => []VolumeNeverAheadOfLog
<1>1. Init => VolumeInv
  <2>1. ASSUME Init, NEW d \in Decisions PROVE volume[d] = 0
    BY <2>1 DEF Init
  <2> QED
    BY <2>1, CountedFinite DEF VolumeInv
<1>2. AuditInv /\ VolumeInv /\ TypeOK => VolumeNeverAheadOfLog
  <2> SUFFICES ASSUME AuditInv, VolumeInv, TypeOK, NEW d \in Decisions
               PROVE  volume[d] <= Cardinality(LoggedCalls(d))
    BY DEF VolumeNeverAheadOfLog
  <2>1. CountedCalls(d) \subseteq LoggedCalls(d)
    <3> SUFFICES ASSUME NEW c \in Calls, stage[c] = "answered", log[c] # <<>>,
                        draft[c].decision = d
                 PROVE  \E i \in 1..Len(log[c]) : log[c][i].decision = d
      BY DEF CountedCalls, LoggedCalls
    <3>1. log[c] = <<draft[c]>>
      BY DEF AuditInv, CallInv, Written, Missed
    <3> QED
      BY <3>1
  <2>2. Cardinality(CountedCalls(d)) <= Cardinality(LoggedCalls(d))
    BY <2>1, CountedFinite, FS_Subset
  <2> QED
    BY <2>2, CountedFinite DEF VolumeInv, TypeOK
<1> QED
  BY <1>1, <1>2, NextVolume, TypeCorrect, AuditInvHolds, PTL DEF Spec

-----------------------------------------------------------------------------
(* The audit trail *)

\* The abstract variables of AuditTrail, as the refinement maps them
StatusOf == [c \in Calls |-> CASE stage[c] = "answered" -> "answered"
                               [] stage[c] = "escaped"  -> "failed"
                               [] OTHER                 -> "open"]
MissedCalls == {c \in Calls : gaps[c] > 0}
AnswerOf    == [c \in Calls |-> IF stage[c] = "answered" THEN result[c] ELSE NoAnswer]

\* What an abstract step is, said of the executor's variables
LEMMA TrailSteps ==
    ASSUME NEW c \in Calls, StatusOf[c] = "open"
    PROVE  /\ /\ log[c] = <<>> /\ Len(log'[c]) = 1 /\ log'[c][1] \in Row
              /\ log' = [log EXCEPT ![c] = log'[c]]
              /\ UNCHANGED <<StatusOf, MissedCalls, AnswerOf>>
              => Trail!Log(c)
           /\ /\ log[c] # <<>> /\ RowAgrees(log[c][1], AnswerOf'[c])
              /\ AnswerOf' = [AnswerOf EXCEPT ![c] = AnswerOf'[c]]
              /\ AnswerOf'[c] \in QueryResult
              /\ StatusOf' = [StatusOf EXCEPT ![c] = "answered"]
              /\ UNCHANGED <<log, MissedCalls>>
              => Trail!Answer(c)
           /\ /\ log[c] = <<>>
              /\ AnswerOf' = [AnswerOf EXCEPT ![c] = AnswerOf'[c]]
              /\ AnswerOf'[c] \in QueryResult
              /\ StatusOf' = [StatusOf EXCEPT ![c] = "answered"]
              /\ MissedCalls' = MissedCalls \cup {c}
              /\ UNCHANGED log
              => Trail!AnswerUnlogged(c)
           /\ /\ log[c] = <<>>
              /\ StatusOf' = [StatusOf EXCEPT ![c] = "failed"]
              /\ UNCHANGED <<log, MissedCalls, AnswerOf>>
              => Trail!Fail(c)
<1> USE DEF Trail!Open, Trail!Unlogged, Trail!Changes, StatusOf, AnswerOf, MissedCalls
<1>1. /\ log[c] = <<>> /\ Len(log'[c]) = 1 /\ log'[c][1] \in Row
      /\ log' = [log EXCEPT ![c] = log'[c]]
      /\ UNCHANGED <<StatusOf, MissedCalls, AnswerOf>>
      => Trail!Log(c)
  BY Zenon DEF Trail!Log
<1>2. /\ log[c] # <<>> /\ RowAgrees(log[c][1], AnswerOf'[c])
      /\ AnswerOf' = [AnswerOf EXCEPT ![c] = AnswerOf'[c]]
      /\ AnswerOf'[c] \in QueryResult
      /\ StatusOf' = [StatusOf EXCEPT ![c] = "answered"]
      /\ UNCHANGED <<log, MissedCalls>>
      => Trail!Answer(c)
  BY Zenon DEF Trail!Answer
<1>3. /\ log[c] = <<>>
      /\ AnswerOf' = [AnswerOf EXCEPT ![c] = AnswerOf'[c]]
      /\ AnswerOf'[c] \in QueryResult
      /\ StatusOf' = [StatusOf EXCEPT ![c] = "answered"]
      /\ MissedCalls' = MissedCalls \cup {c}
      /\ UNCHANGED log
      => Trail!AnswerUnlogged(c)
  BY Zenon DEF Trail!AnswerUnlogged
<1>4. /\ log[c] = <<>>
      /\ StatusOf' = [StatusOf EXCEPT ![c] = "failed"]
      /\ UNCHANGED <<log, MissedCalls, AnswerOf>>
      => Trail!Fail(c)
  BY Zenon DEF Trail!Fail
<1> HIDE DEF Trail!Open, Trail!Unlogged, Trail!Changes, StatusOf, AnswerOf, MissedCalls
<1> QED
  BY <1>1, <1>2, <1>3, <1>4, Zenon

\* How the mapped variables follow the step of a call
LEMMA MappedStep ==
    ASSUME TypeOK, NEW c \in Calls, Invoke(c) \/ Progress(c),
           NEW s \in Stages, Goto(c, s), ~Finished(c)
    PROVE  /\ StatusOf[c] = "open"
           /\ s \notin {"answered", "escaped"} => StatusOf' = StatusOf
           /\ s = "answered" => StatusOf' = [StatusOf EXCEPT ![c] = "answered"]
           /\ s = "escaped"  => StatusOf' = [StatusOf EXCEPT ![c] = "failed"]
           /\ s # "answered" => AnswerOf' = AnswerOf
           /\ s = "answered" => /\ AnswerOf'[c] = result'[c]
                                /\ AnswerOf' = [AnswerOf EXCEPT ![c] = AnswerOf'[c]]
<1>1. \A d \in Calls : stage'[d] = IF d = c THEN s ELSE stage[d]
  BY DEF TypeOK, Goto
<1>2. \A d \in Calls \ {c} : result'[d] = result[d]
  BY OthersUntouched
<1>3. StatusOf[c] = "open"
  BY DEF StatusOf, Finished
<1>4. /\ s \notin {"answered", "escaped"} => StatusOf' = StatusOf
      /\ s = "answered" => StatusOf' = [StatusOf EXCEPT ![c] = "answered"]
      /\ s = "escaped"  => StatusOf' = [StatusOf EXCEPT ![c] = "failed"]
  BY <1>1 DEF StatusOf, Finished
<1>5. /\ s # "answered" => AnswerOf' = AnswerOf
      /\ s = "answered" => /\ AnswerOf'[c] = result'[c]
                           /\ AnswerOf' = [AnswerOf EXCEPT ![c] = AnswerOf'[c]]
  BY <1>1, <1>2 DEF AnswerOf, Finished
<1> QED
  BY <1>3, <1>4, <1>5

TrailUnchanged == UNCHANGED <<StatusOf, log, MissedCalls, AnswerOf>>

LEMMA UnchangedIsStutter == TrailUnchanged => UNCHANGED Trail!vars
BY Zenon DEF TrailUnchanged, Trail!vars, StatusOf, AnswerOf, MissedCalls

\* A step before the audit is one the trail does not see, but for an exception.
LEMMA EarlyStepIsFailOrStutter ==
    ASSUME TypeOK, AuditInv, NEW c \in Calls,
           Invoke(c) \/ BeforeDatabase(c) \/ ReadTransaction(c)
    PROVE  Trail!Fail(c) \/ TrailUnchanged
<1>1. UNCHANGED <<log, gaps>> /\ stage[c] \notin {"answered", "escaped", "count"}
  BY DEF Invoke, RunQuery, MetadataTool, MetadataUnresolved, auditVars,
         BeforeDatabase, AliasAbsent, ValidationEscapes, ParserRejects, ParserAccepts,
         MetadataOnly, PrepareFails, HookReturns, ReadTransaction, Begin, BeginFails,
         EnterSession, EnterFails, Execute, ExecuteFails, FetchEscapes, Commit,
         CommitFails, Rollback
<1>2. log[c] = <<>> /\ MissedCalls' = MissedCalls
  BY <1>1 DEF AuditInv, CallInv, Unwritten, MissedCalls
<1>3. PICK s \in Stages \ {"answered"} : Goto(c, s)
  BY DEF Invoke, RunQuery, MetadataTool, MetadataUnresolved, Stages, Goto,
         BeforeDatabase, AliasAbsent, ValidationEscapes, ParserRejects, ParserAccepts,
         MetadataOnly, PrepareFails, HookReturns, ReadTransaction, Begin, BeginFails,
         EnterSession, EnterFails, Execute, ExecuteFails, FetchEscapes, Commit,
         CommitFails, Rollback, Success, Finish, Reject, Misconfigured
<1>4. ~Finished(c)
  BY <1>1 DEF Finished
<1>5. CASE s = "escaped"
  <2>1. /\ StatusOf[c] = "open" /\ StatusOf' = [StatusOf EXCEPT ![c] = "failed"]
        /\ AnswerOf' = AnswerOf
    BY <1>3, <1>4, <1>5, MappedStep DEF Progress
  <2> QED
    BY <1>1, <1>2, <2>1, TrailSteps
<1>6. CASE s # "escaped"
  BY <1>1, <1>2, <1>3, <1>4, <1>6, MappedStep DEF Progress, TrailUnchanged
<1> QED
  BY <1>5, <1>6

LEMMA AuditStepIsTrailStep ==
    ASSUME TypeOK, TypeOK', AuditInv, NEW c \in Calls, Audit(c)
    PROVE  Trail!Log(c) \/ Trail!Answer(c) \/ Trail!AnswerUnlogged(c)
<1>1. ~Finished(c) /\ Progress(c)
  BY DEF Audit, AuditWrites, AuditFails, CountVolume, Finished, Progress
<1>2. CASE AuditWrites(c)
  <2>1. log[c] = <<>>
    BY <1>2 DEF AuditWrites, AuditInv, CallInv, Unwritten
  <2>2. log' = [log EXCEPT ![c] = Append(<<>>, draft[c])] /\ log'[c] = Append(<<>>, draft[c])
    BY <1>2, <2>1 DEF AuditWrites, TypeOK
  <2>3. draft[c] \in Row
    BY DEF TypeOK
  <2>4. Len(log'[c]) = 1 /\ log'[c][1] \in Row
    BY <2>2, <2>3
  <2>5. log' = [log EXCEPT ![c] = log'[c]]
    BY <2>2
  <2>6. Goto(c, "count") /\ gaps' = gaps
    BY <1>2 DEF AuditWrites
  <2>7. StatusOf[c] = "open" /\ StatusOf' = StatusOf /\ AnswerOf' = AnswerOf
    BY <1>1, <2>6, MappedStep DEF Stages
  <2>8. MissedCalls' = MissedCalls
    BY <2>6 DEF MissedCalls
  <2> QED
    BY <2>1, <2>4, <2>5, <2>7, <2>8, TrailSteps
<1>3. CASE AuditFails(c)
  <2>1. log[c] = <<>> /\ log' = log /\ gaps[c] = 0
    BY <1>3 DEF AuditFails, AuditInv, CallInv, Unwritten
  <2>2. Goto(c, "answered") /\ gaps' = [gaps EXCEPT ![c] = 1]
    BY <1>3, <2>1 DEF AuditFails
  <2>3. /\ StatusOf[c] = "open" /\ StatusOf' = [StatusOf EXCEPT ![c] = "answered"]
        /\ AnswerOf'[c] = result'[c] /\ AnswerOf' = [AnswerOf EXCEPT ![c] = AnswerOf'[c]]
    BY <1>1, <2>2, MappedStep DEF Stages
  <2>4. AnswerOf'[c] \in QueryResult
    BY <2>3 DEF TypeOK
  <2>5. MissedCalls' = MissedCalls \cup {c}
    BY <2>2 DEF MissedCalls, TypeOK
  <2> QED
    BY <2>1, <2>3, <2>4, <2>5, TrailSteps
<1>4. CASE CountVolume(c)
  <2>1. /\ log[c] = <<draft[c]>> /\ RowAgrees(draft[c], result[c])
        /\ UNCHANGED <<log, gaps, draft, result>>
    BY <1>4 DEF CountVolume, AuditInv, CallInv, Written, Drafted, DraftInv, outVars
  <2>2. Goto(c, "answered")
    BY <1>4 DEF CountVolume
  <2>3. /\ StatusOf[c] = "open" /\ StatusOf' = [StatusOf EXCEPT ![c] = "answered"]
        /\ AnswerOf'[c] = result'[c] /\ AnswerOf' = [AnswerOf EXCEPT ![c] = AnswerOf'[c]]
    BY <1>1, <2>2, MappedStep DEF Stages
  <2>4. AnswerOf'[c] \in QueryResult
    BY <2>3 DEF TypeOK
  <2>5. log[c] # <<>> /\ log[c][1] = draft[c]
    BY <2>1
  <2>6. RowAgrees(log[c][1], AnswerOf'[c])
    BY <2>1, <2>3, <2>5, Zenon
  <2>7. MissedCalls' = MissedCalls /\ log' = log
    BY <2>1 DEF MissedCalls
  <2> QED
    BY <2>3, <2>4, <2>5, <2>6, <2>7, TrailSteps
<1> QED
  BY <1>2, <1>3, <1>4 DEF Audit

\* The executor implements the audit trail of module AuditTrail, step by step:
\* writing the row is its Log, the volume counter and the answer its Answer, a
\* failed insert its AnswerUnlogged, an escaping exception its Fail, and the
\* rest of the pipeline is invisible to it.
THEOREM ExecutorImplementsTrail == Spec => AuditTrailImplemented
<1>1. Init => Trail!Init
  <2> SUFFICES ASSUME Init PROVE Trail!Init
    OBVIOUS
  <2>1. /\ \A c \in Calls : stage[c] = "idle" /\ gaps[c] = 0
        /\ log = [c \in Calls |-> <<>>]
    BY DEF Init
  <2>2. StatusOf = [c \in Calls |-> "open"]
    BY <2>1 DEF StatusOf
  <2>3. MissedCalls = {}
    BY <2>1 DEF MissedCalls
  <2>4. AnswerOf = [c \in Calls |-> NoAnswer]
    BY <2>1 DEF AnswerOf
  <2> QED
    BY <2>1, <2>2, <2>3, <2>4, Zenon DEF Trail!Init, StatusOf, MissedCalls, AnswerOf
<1>2. TypeOK /\ TypeOK' /\ AuditInv /\ [Next]_vars => [Trail!Next]_(Trail!vars)
  <2> SUFFICES ASSUME TypeOK, TypeOK', AuditInv, [Next]_vars
               PROVE  Trail!Next \/ UNCHANGED Trail!vars
    OBVIOUS
  <2>1. ASSUME NEW c \in Calls, Invoke(c) \/ Progress(c)
        PROVE  Trail!Next \/ UNCHANGED Trail!vars
    BY <2>1, EarlyStepIsFailOrStutter, AuditStepIsTrailStep, UnchangedIsStutter
       DEF Progress, Trail!Next
  <2>2. CASE UNCHANGED vars
    <3>1. TrailUnchanged
      BY <2>2 DEF vars, TrailUnchanged, StatusOf, MissedCalls, AnswerOf
    <3> QED
      BY <3>1, UnchangedIsStutter
  <2> QED
    BY <2>1, <2>2 DEF Next, AllFinished
<1> QED
  BY <1>1, <1>2, TypeCorrect, AuditInvHolds, PTL DEF Spec, AuditTrailImplemented, Trail!Spec
=============================================================================
