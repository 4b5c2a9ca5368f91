------------------------ MODULE CappedExecutorProofs ------------------------
(***************************************************************************)
(* The executor with its gate and with the sizes of rows filled in, for    *)
(* any texts, whitelist, calls and rows.  Every step is one of Executor's, *)
(* so what is proved of that one holds here.                               *)
(***************************************************************************)
EXTENDS CappedExecutor, AuditProofs, WellFoundedInduction

\* Every step of GatedExecutor is one of Executor's, the parser's part no more
\* than narrowed: what is proved of Executor holds with the gate in place.
THEOREM GateImplementsExecutor == GatedSpec => Spec
<1>1. GatedInit => Init
  BY DEF GatedInit
<1>2. [GatedNext]_gatedVars => [Next]_vars
  <2> SUFFICES ASSUME [GatedNext]_gatedVars PROVE [Next]_vars
    OBVIOUS
  <2>1. ASSUME NEW c \in Calls, Submit(c) PROVE Next
    BY <2>1 DEF Submit, Next, Invoke
  <2>2. ASSUME NEW c \in Calls, GateRejects(c) \/ GateAccepts(c) PROVE Next
    BY <2>2 DEF GateRejects, GateAccepts, Next, Progress, BeforeDatabase
  <2>3. ASSUME NEW c \in Calls, Beyond(c) PROVE Next
    BY <2>3 DEF Beyond, Next, Invoke, Progress, BeforeDatabase
  <2>4. CASE AllFinished
    BY <2>4 DEF Next
  <2>5. CASE UNCHANGED gatedVars
    BY <2>5 DEF gatedVars
  <2> QED
    BY <2>1, <2>2, <2>3, <2>4, <2>5 DEF GatedNext
<1> QED
  BY <1>1, <1>2, PTL DEF GatedSpec, Spec

\* ... so that, whatever the text, its statement runs in its own profile's
\* role, under all four guards and with its own hook's context.
THEOREM GatedStatementsAreConfined == GatedSpec => []StatementConfined
BY GateImplementsExecutor, StatementsAreConfined, PTL

-----------------------------------------------------------------------------
(* The gate *)

LEMMA LeastNat ==
    ASSUME NEW S \in SUBSET Nat, S # {}
    PROVE  \E m \in S : \A k \in S : m <= k
<1>1. PICK m \in S : \A k \in S : <<k, m>> \notin OpToRel(<, Nat)
  BY WFMin, NatLessThanWellFounded
<1>2. \A k \in S : ~(k < m)
  BY <1>1 DEF OpToRel
<1> QED
  BY <1>2

\* If any check raises, the first that does decides.
LEMMA FirstDecides ==
    ASSUME NEW checks, DOMAIN checks \subseteq Nat,
           \E k \in DOMAIN checks : checks[k] # {}
    PROVE  \E k \in DOMAIN checks : checks[k] # {} /\ FirstRaised(checks) = checks[k]
<1> DEFINE raised == {j \in DOMAIN checks : checks[j] # {}}
           first  == CHOOSE j \in raised : \A l \in raised : j <= l
<1>1. raised # {} /\ raised \in SUBSET Nat
  OBVIOUS
<1>2. \E j \in raised : \A l \in raised : j <= l
  <2> HIDE DEF raised
  <2> QED
    BY <1>1, LeastNat
<1>3. first \in raised
  BY <1>2
<1>4. FirstRaised(checks) = checks[first]
  BY <1>1 DEF FirstRaised
<1> HIDE DEF first
<1> QED
  BY <1>3, <1>4

\* A sequence of checks that raises nothing has no check that would ...
LEMMA NothingRaised ==
    ASSUME NEW checks, DOMAIN checks \subseteq Nat, FirstRaised(checks) = {},
           NEW k \in DOMAIN checks
    PROVE  checks[k] = {}
BY FirstDecides

\* ... and what it raises, one of its checks raises.
LEMMA RaisedBySome ==
    ASSUME NEW checks, DOMAIN checks \subseteq Nat, NEW reason \in FirstRaised(checks)
    PROVE  \E k \in DOMAIN checks : reason \in checks[k]
<1>1. \E k \in DOMAIN checks : checks[k] # {}
  BY DEF FirstRaised
<1> QED
  BY <1>1, FirstDecides

\* In a text that passes, every check passes.
LEMMA PassedChecks ==
    ASSUME NEW sql, Rejections(sql) = {}
    PROVE  /\ CheckTables(sql.trees[1]) = {}
           /\ BAN_SELECT_STAR => /\ CheckNoSelectStar(sql.trees[1]) = {}
                                 /\ CheckNoWholeRowRefs(sql.trees[1]) = {}
<1> DEFINE tree == sql.trees[1]
<1>1. FirstRaised(<<TreeRaises(tree), Raise("parse_error", sql.fault = "serialize")>>) = {}
  BY DEF Rejections
<1>2. TreeRaises(tree) = {}
  BY <1>1, NothingRaised
<1>3. /\ CheckTables(tree) = {}
      /\ (IF BAN_SELECT_STAR THEN CheckNoSelectStar(tree) ELSE {}) = {}
      /\ (IF BAN_SELECT_STAR THEN CheckNoWholeRowRefs(tree) ELSE {}) = {}
  BY <1>2, NothingRaised DEF TreeRaises
<1> QED
  BY <1>3

\* A text that passes has one tree, and each table in it is declared or has
\* the name of a CTE of a query around it.
LEMMA PassedTables ==
    ASSUME NEW sql, Rejections(sql) = {}, NEW t \in Nodes(sql.trees[1], "Table")
    PROVE  \/ sql.trees[1][t].name \in DeclaredTables
           \/ ResolvesToCte(sql.trees[1], t)
<1>1. TableRaises(sql.trees[1], t) = {}
  BY PassedChecks DEF CheckTables
<1> QED
  BY <1>1 DEF TableRaises, Raise

\* A name that is no CTE's in PostgreSQL's scope, nor in the shadow of an
\* out-of-scope namesake, is none for the parser either.
LEMMA ScopesAgree ==
    ASSUME NEW tree \in Tree, NEW t \in Nodes(tree, "Table"),
           ReadsTable(tree, t), ~OutOfScopeNamesake(tree, t)
    PROVE  ~ResolvesToCte(tree, t)
<1> SUFFICES ASSUME NEW c \in Nodes(tree, "CTE"),
                    tree[c].up \in Ancestors(tree, t), tree[c].name = tree[t].name
             PROVE  FALSE
  BY DEF ResolvesToCte
<1>1. ~InScope(tree, c, t)
  BY DEF ReadsTable
<1>2. tree[t].qualifier = ""
  BY DEF OutOfScopeNamesake
<1>3. PICK d \in Ancestors(tree, t) \cap Nodes(tree, "CTE") :
           tree[d].up = tree[c].up /\ ~(c < d)
  BY <1>1, <1>2 DEF InScope
<1>4. c \in Nat /\ d \in Nat
  BY DEF Nodes, Tree
<1>5. d <= c
  BY <1>3, <1>4
<1> QED
  BY <1>3, <1>5 DEF OutOfScopeNamesake

-----------------------------------------------------------------------------
(* From the gate to the statement that runs *)

Accepted == {"prepare", "begin", "enter", "execute"}

Submitted == {"validate"} \cup Accepted

\* A call at the parser or beyond came with a submitted text, and beyond it
\* with one the gate lets pass.
GateInv ==
    /\ statement \in [Calls -> Text]
    /\ \A c \in Calls : stage[c] \in Submitted => \E s \in Submissions : statement[c] = s.sql
    /\ \A c \in Calls : stage[c] \in Accepted =>
          /\ Rejections(statement[c]) = {}
          /\ statement[c].trees # <<>>

\* The call c moves to a place from which only the gate leads on, or was
\* accepted before.
LEMMA MoveKeepsGate ==
    ASSUME TypeOK, GateInv, NEW c \in Calls, NEW s,
           s \notin Submitted \/ (stage[c] \in Accepted /\ s # "validate"),
           Goto(c, s), UNCHANGED statement
    PROVE  GateInv'
BY DEF TypeOK, GateInv, Goto, Submitted

LEMMA FinishIsMove ==
    ASSUME NEW c, NEW row, NEW res, Finish(c, row, res)
    PROVE  Goto(c, "audit")
BY DEF Finish, Goto

LEMMA BeyondKeepsGate ==
    ASSUME TypeOK, GateInv, NEW c \in Calls, Beyond(c)
    PROVE  GateInv'
<1>0. UNCHANGED statement
  BY DEF Beyond
<1> USE DEF Accepted, Submitted
<1>1. CASE MetadataTool(c)
  BY <1>1, <1>0, MoveKeepsGate, FinishIsMove DEF MetadataTool
<1>2. CASE MetadataUnresolved(c)
  BY <1>2, <1>0, MoveKeepsGate DEF MetadataUnresolved
<1>3. CASE AliasAbsent(c)
  BY <1>3, <1>0, MoveKeepsGate, FinishIsMove DEF AliasAbsent, Misconfigured
<1>4. CASE ValidationEscapes(c)
  BY <1>4, <1>0, MoveKeepsGate DEF ValidationEscapes
<1>5. CASE MetadataOnly(c)
  BY <1>5, <1>0, MoveKeepsGate, FinishIsMove DEF MetadataOnly
<1>6. CASE PrepareFails(c)
  BY <1>6, <1>0, MoveKeepsGate, FinishIsMove DEF PrepareFails, Reject, Misconfigured
<1>7. CASE HookReturns(c)
  BY <1>7, <1>0, MoveKeepsGate DEF HookReturns
<1>8. CASE Begin(c) \/ EnterSession(c)
  BY <1>8, <1>0, MoveKeepsGate DEF Begin, EnterSession
<1>9. CASE BeginFails(c) \/ EnterFails(c) \/ Execute(c) \/ ExecuteFails(c)
            \/ FetchEscapes(c) \/ CommitFails(c) \/ Rollback(c)
  <2>1. \E s \in {"audit", "rollback", "commit", "escaped"} : Goto(c, s)
    BY <1>9 DEF BeginFails, EnterFails, Execute, ExecuteFails, FetchEscapes, CommitFails,
                Rollback
  <2> QED
    BY <2>1, <1>0, MoveKeepsGate
<1>10. CASE Commit(c)
  BY <1>10, <1>0, MoveKeepsGate, FinishIsMove DEF Commit, Success
<1>11. CASE Audit(c)
  <2>1. \E s \in {"count", "answered"} : Goto(c, s)
    BY <1>11 DEF Audit, AuditWrites, AuditFails, CountVolume
  <2> QED
    BY <2>1, <1>0, MoveKeepsGate
<1> QED
  BY <1>1, <1>2, <1>3, <1>4, <1>5, <1>6, <1>7, <1>8, <1>9, <1>10, <1>11
     DEF Beyond, ReadTransaction

LEMMA NextKeepsGate == TypeOK /\ GateInv /\ [GatedNext]_gatedVars => GateInv'
<1> SUFFICES ASSUME TypeOK, GateInv, [GatedNext]_gatedVars PROVE GateInv'
  OBVIOUS
<1>1. ASSUME NEW c \in Calls, Submit(c) PROVE GateInv'
  <2>1. PICK x \in Submissions : statement' = [statement EXCEPT ![c] = x.sql]
    BY <1>1 DEF Submit
  <2>2. x.sql \in Text
    BY GatedAssumption
  <2>3. stage' = [stage EXCEPT ![c] = "validate"]
    BY <1>1 DEF Submit, RunQuery, Goto
  <2> QED
    BY <2>1, <2>2, <2>3 DEF GateInv, TypeOK, Accepted, Submitted
<1>2. ASSUME NEW c \in Calls, GateRejects(c) PROVE GateInv'
  BY <1>2, MoveKeepsGate, FinishIsMove DEF GateRejects, ParserRejects, Reject, Accepted, Submitted
<1>3. ASSUME NEW c \in Calls, GateAccepts(c) PROVE GateInv'
  <2>1. statement[c].trees # <<>>
    BY <1>3 DEF GateAccepts, Rejections
  <2>2. stage[c] = "validate" /\ stage' = [stage EXCEPT ![c] = "prepare"]
    BY <1>3 DEF GateAccepts, ParserAccepts, Goto
  <2> QED
    BY <1>3, <2>1, <2>2 DEF GateAccepts, GateInv, TypeOK, Submitted
<1>4. ASSUME NEW c \in Calls, Beyond(c) PROVE GateInv'
  BY <1>4, BeyondKeepsGate
<1>5. CASE UNCHANGED <<stage, statement>>
  BY <1>5 DEF GateInv
<1> QED
  BY <1>1, <1>2, <1>3, <1>4, <1>5 DEF GatedNext, AllFinished, gatedVars, vars

LEMMA GateInvHolds == GatedSpec => []GateInv
<1>1. GatedInit => GateInv
  <2>1. NoStatement \in Text
    BY DEF NoStatement, Text
  <2> QED
    BY <2>1 DEF GatedInit, Init, GateInv, Accepted, Submitted
<1> QED
  BY <1>1, NextKeepsGate, GateImplementsExecutor, TypeCorrect, PTL DEF GatedSpec

\* Whatever the text: every table that a statement on its way to PostgreSQL
\* reads, by PostgreSQL's rules for the scope of CTEs, is on the whitelist of
\* its profile, but for one in the shadow of an out-of-scope namesake.
THEOREM OnlyDeclaredTablesAreRead == GatedSpec => []ReadsDeclaredTables
<1>1. GateInv => ReadsDeclaredTables
  <2> SUFFICES ASSUME GateInv, NEW c \in Calls, stage[c] = "execute",
                      NEW t \in Nodes(Running(c), "Table"),
                      ReadsTable(Running(c), t), ~OutOfScopeNamesake(Running(c), t)
               PROVE  Running(c)[t].name \in DeclaredTables
    BY DEF ReadsDeclaredTables
  <2>1. /\ statement[c] \in Text
        /\ statement[c].trees # <<>>
        /\ Rejections(statement[c]) = {}
    BY DEF GateInv, Accepted
  <2>2. Running(c) \in Tree
    BY <2>1 DEF Running, Text
  <2>3. ~ResolvesToCte(Running(c), t)
    BY <2>2, ScopesAgree
  <2> QED
    BY <2>1, <2>3, PassedTables DEF Running
<1> QED
  BY <1>1, GateInvHolds, PTL

-----------------------------------------------------------------------------
(* What the gate turns away *)

\* Of the checks, the one of the tables alone gives "disallowed_table".
LEMMA TableReasons ==
    ASSUME NEW sql, "disallowed_table" \in Rejections(sql)
    PROVE  "disallowed_table" \in CheckTables(sql.trees[1])
<1> DEFINE tree == sql.trees[1]
           serial == Raise("parse_error", sql.fault = "serialize")
<1>1. "disallowed_table" \in FirstRaised(<<TreeRaises(tree), serial>>)
  BY DEF Rejections
<1>2. PICK k \in 1..2 : "disallowed_table" \in <<TreeRaises(tree), serial>>[k]
  BY <1>1, RaisedBySome
<1>3. "disallowed_table" \notin serial
  BY DEF Raise
<1>4. "disallowed_table" \in TreeRaises(tree)
  BY <1>2, <1>3
<1> DEFINE checks ==
        <<CheckCtesReadOnly(tree), CheckNo(tree, "Recursive"),
          CheckNoSelectInto(tree), CheckNo(tree, "Offset"), CheckNo(tree, "Fetch"),
          CheckNo(tree, "Lock"), CheckTables(tree), CheckNoDeniedFunctions(tree),
          CheckNoBareKeywordColumns(tree),
          IF BAN_SELECT_STAR THEN CheckNoSelectStar(tree) ELSE {},
          IF BAN_SELECT_STAR THEN CheckNoWholeRowRefs(tree) ELSE {}>>
<1>5. PICK l \in 1..11 : "disallowed_table" \in checks[l]
  <2>1. "disallowed_table" \in FirstRaised(checks)
    BY <1>4 DEF TreeRaises
  <2> QED
    BY <2>1, RaisedBySome
<1>6. /\ checks[1] \subseteq {"writeable_cte"} /\ checks[3] \subseteq {"select_into"}
      /\ checks[10] \subseteq {"select_star"}  /\ checks[11] \subseteq {"select_star"}
  BY DEF CheckCtesReadOnly, CheckNoSelectInto, CheckNoSelectStar, CheckNoWholeRowRefs, Raise
<1>7. \A j \in {2, 4, 5, 6} : checks[j] \subseteq {"disallowed_construct"}
  BY DEF CheckNo, Raise
<1>8. checks[8] \subseteq {"disallowed_construct", "disallowed_function"}
  BY DEF CheckNoDeniedFunctions, Raise
<1>9. checks[9] \subseteq {"disallowed_function"}
  BY DEF CheckNoBareKeywordColumns, Raise
<1>10. checks[7] = CheckTables(tree)
  OBVIOUS
<1> HIDE DEF checks, tree
<1>11. l = 7
  BY <1>5, <1>6, <1>7, <1>8, <1>9
<1> QED
  BY <1>5, <1>10, <1>11 DEF tree

\* A text is turned away for a table that no CTE is in scope for.
LEMMA RefusedTable ==
    ASSUME NEW sql, "disallowed_table" \in Rejections(sql)
    PROVE  \E t \in Nodes(sql.trees[1], "Table") :
               /\ ReadsTable(sql.trees[1], t)
               /\ sql.trees[1][t].name \notin DeclaredTables
<1> DEFINE tree == sql.trees[1]
<1>1. PICK t \in Nodes(tree, "Table") : "disallowed_table" \in TableRaises(tree, t)
  BY TableReasons DEF CheckTables
<1>2. ~ResolvesToCte(tree, t) /\ tree[t].name \notin DeclaredTables
  BY <1>1 DEF TableRaises, Raise
<1>3. ReadsTable(tree, t)
  BY <1>2 DEF ReadsTable, InScope, ResolvesToCte
<1> QED
  BY <1>2, <1>3

\* The reason of a drafted row is the gate's, or none a parser gives for a
\* table; a row drafted inside the transaction is never the gate's.
ReasonInv ==
    \A c \in Calls : stage[c] \in {"audit", "rollback"} /\ draft[c].reason = "disallowed_table"
        => stage[c] = "audit" /\ "disallowed_table" \in Rejections(statement[c])

LEMMA DraftReason ==
    ASSUME TypeOK, NEW c \in Calls, NEW tool, NEW decision, NEW reason, NEW wrapped, NEW n,
           NEW truncated,
           draft' = [draft EXCEPT ![c] =
                       LogRow(c, tool, decision, reason, wrapped, n, truncated)]
    PROVE  draft'[c].reason = reason
<1> DEFINE row == LogRow(c, tool, decision, reason, wrapped, n, truncated)
<1>1. draft'[c] = row
  BY DEF TypeOK
<1>2. row.reason = reason
  BY DEF LogRow
<1> QED
  BY <1>1, <1>2

LEMMA FinishReason ==
    ASSUME TypeOK, NEW c \in Calls, NEW tool, NEW decision, NEW reason, NEW wrapped, NEW n,
           NEW truncated, NEW res,
           Finish(c, LogRow(c, tool, decision, reason, wrapped, n, truncated), res)
    PROVE  draft'[c].reason = reason
BY DraftReason DEF Finish

LEMMA RejectReason ==
    ASSUME TypeOK, NEW c \in Calls, NEW reason, NEW wrapped, Reject(c, reason, wrapped)
    PROVE  draft'[c].reason = reason
BY FinishReason DEF Reject, AuditRow

LEMMA ErrorReason ==
    ASSUME TypeOK, NEW c \in Calls, NEW reason, DatabaseErrorResult(c, reason)
    PROVE  draft'[c].reason = reason
BY DraftReason DEF DatabaseErrorResult, AuditRow

\* The reasons that the steps outside the parser give
LEMMA OtherReasons ==
    ASSUME TypeOK, NEW c \in Calls, Beyond(c)
    PROVE  \/ stage'[c] \notin {"audit", "rollback"}
           \/ draft'[c].reason # "disallowed_table"
           \/ Rollback(c)
<1>1. CASE MetadataTool(c)
  <2>1. PICK tool \in Tools, reason \in {"", "not_whitelisted"} :
             Finish(c, MetadataRow(c, tool), EmptyResult(reason, FALSE))
    BY <1>1 DEF MetadataTool
  <2>2. draft'[c].reason = ""
    BY <2>1, FinishReason DEF MetadataRow
  <2> QED
    BY <2>2
<1>2. ASSUME Misconfigured(c) PROVE draft'[c].reason # "disallowed_table"
  <2>1. draft'[c].reason = "misconfigured"
    BY <1>2, FinishReason DEF Misconfigured, AuditRow
  <2> QED
    BY <2>1
<1>3. CASE AliasAbsent(c)
  BY <1>2, <1>3 DEF AliasAbsent
<1>4. CASE PrepareFails(c)
  <2>1. ASSUME NEW reason \in {"parse_error", "misconfigured"}, NEW wrapped \in BOOLEAN,
               Reject(c, reason, wrapped)
        PROVE  draft'[c].reason # "disallowed_table"
    <3>1. draft'[c].reason = reason
      BY <2>1, RejectReason
    <3> QED
      BY <3>1
  <2> QED
    BY <1>2, <1>4, <2>1 DEF PrepareFails
<1>5. CASE MetadataOnly(c)
  <2>1. draft'[c].reason = ""
    BY <1>5, FinishReason DEF MetadataOnly
  <2> QED
    BY <2>1
<1>6. CASE BeginFails(c) \/ EnterFails(c) \/ ExecuteFails(c) \/ CommitFails(c)
  <2>1. PICK reason \in {"timeout", "execution_error"} : DatabaseErrorResult(c, reason)
    BY <1>6 DEF BeginFails, EnterFails, ExecuteFails, CommitFails
  <2>2. draft'[c].reason = reason
    BY <2>1, ErrorReason
  <2> QED
    BY <2>2
<1>7. CASE Commit(c)
  <2>1. PICK fetched, kept : Success(c, fetched, kept)
    BY <1>7 DEF Commit
  <2>2. draft'[c].reason = ""
    BY <2>1, FinishReason DEF Success
  <2> QED
    BY <2>2
<1>8. CASE \/ MetadataUnresolved(c) \/ ValidationEscapes(c) \/ HookReturns(c)
           \/ Begin(c) \/ EnterSession(c) \/ Execute(c) \/ FetchEscapes(c) \/ Audit(c)
  BY <1>8 DEF MetadataUnresolved, ValidationEscapes, HookReturns, Begin, EnterSession, Execute,
     FetchEscapes, Audit, AuditWrites, AuditFails, CountVolume, Goto, TypeOK
<1> QED
  BY <1>1, <1>3, <1>4, <1>5, <1>6, <1>7, <1>8 DEF Beyond, ReadTransaction

LEMMA NextReason == TypeOK /\ ReasonInv /\ GateInv /\ [GatedNext]_gatedVars => ReasonInv'
<1> SUFFICES ASSUME TypeOK, ReasonInv, GateInv, [GatedNext]_gatedVars PROVE ReasonInv'
  OBVIOUS
<1>1. ASSUME NEW c \in Calls, Submit(c) \/ GateRejects(c) \/ GateAccepts(c) \/ Beyond(c)
      PROVE  ReasonInv'
  <2>1. \A d \in Calls \ {c} : /\ stage'[d] = stage[d] /\ draft'[d] = draft[d]
                               /\ statement'[d] = statement[d]
    <3>1. Invoke(c) \/ Progress(c)
      BY <1>1 DEF Submit, GateRejects, GateAccepts, Beyond, Invoke, Progress, BeforeDatabase
    <3>2. \A d \in Calls \ {c} : statement'[d] = statement[d]
      BY <1>1 DEF Submit, GateRejects, GateAccepts, Beyond, GateInv
    <3> QED
      BY <3>1, <3>2, OthersUntouched
  <2>2. ASSUME stage'[c] \in {"audit", "rollback"}, draft'[c].reason = "disallowed_table"
        PROVE  stage'[c] = "audit" /\ "disallowed_table" \in Rejections(statement'[c])
    <3>1. CASE Submit(c)
      BY <2>2, <3>1 DEF Submit, RunQuery, Goto, TypeOK
    <3>2. CASE GateRejects(c)
      BY <2>2, <3>2 DEF GateRejects, ParserRejects, Reject, Finish, TypeOK
    <3>3. CASE GateAccepts(c)
      BY <2>2, <3>3 DEF GateAccepts, ParserAccepts, Goto, TypeOK
    <3>4. CASE Rollback(c)
      <4>1. stage[c] = "rollback" /\ draft' = draft
        BY <3>4 DEF Rollback, outVars
      <4> QED
        BY <2>2, <4>1 DEF ReasonInv
    <3>5. CASE Beyond(c)
      BY <2>2, <3>4, <3>5, OtherReasons
    <3> QED
      BY <1>1, <3>1, <3>2, <3>3, <3>5
  <2> QED
    BY <2>1, <2>2 DEF ReasonInv
<1>2. CASE UNCHANGED <<stage, draft, statement>>
  BY <1>2 DEF ReasonInv
<1> QED
  BY <1>1, <1>2 DEF GatedNext, AllFinished, gatedVars, vars

\* No statement is refused for a name that stands for a CTE in its scope: the
\* reason "disallowed_table" is the gate's alone, and the gate gives it for a
\* table that PostgreSQL would read.
THEOREM OnlyRealTablesAreRefused == GatedSpec => []CteReadsPass
<1>1. GatedInit => ReasonInv
  BY DEF GatedInit, Init, ReasonInv
<1>2. ReasonInv => CteReadsPass
  BY RefusedTable DEF ReasonInv, CteReadsPass, Running
<1> QED
  BY <1>1, <1>2, NextReason, GateInvHolds, GateImplementsExecutor, TypeCorrect, PTL DEF GatedSpec

-----------------------------------------------------------------------------
(* What a statement that runs may return *)

\* The ancestors of the first n nodes, as Ancestors computes them
IsAbove(tree, f, n) ==
    f = [j \in 0..n |-> IF j = 0 \/ tree[j].up = 0 THEN {} ELSE {tree[j].up} \cup f[tree[j].up]]

LEMMA ParentIsBefore ==
    ASSUME NEW tree \in Tree, NEW i \in DOMAIN tree
    PROVE  /\ i \in 1..Len(tree) /\ Len(tree) \in Nat
           /\ tree[i].up \in 0..(i - 1)
           /\ tree[i].up = 0 <=> i = 1
BY DEF Tree

LEMMA AboveExists ==
    ASSUME NEW tree \in Tree
    PROVE  \E f : IsAbove(tree, f, Len(tree))
<1> DEFINE Bad == {n \in 0..Len(tree) : ~\E f : IsAbove(tree, f, n)}
<1> SUFFICES ASSUME Bad # {} PROVE FALSE
  <2>1. Len(tree) \in Nat
    BY DEF Tree
  <2> QED
    BY <2>1
<1>0. Bad \in SUBSET Nat
  BY DEF Tree
<1>1. PICK n \in Bad : \A k \in Bad : n <= k
  <2> HIDE DEF Bad
  <2> QED
    BY <1>0, LeastNat
<1>2. n \in Nat
  BY <1>0
<1>3. CASE n = 0
  <2>1. IsAbove(tree, [j \in 0..0 |-> {}], 0)
    BY DEF IsAbove
  <2> QED
    BY <1>3, <2>1
<1>4. CASE n # 0
  <2>0. n - 1 \in 0..Len(tree) /\ n \in DOMAIN tree /\ ~(n <= n - 1)
    BY <1>2, <1>4 DEF Tree
  <2>1. PICK g : IsAbove(tree, g, n - 1)
    BY <1>1, <2>0
  <2> DEFINE top == IF tree[n].up = 0 THEN {} ELSE {tree[n].up} \cup g[tree[n].up]
             f   == [j \in 0..n |-> IF j = n THEN top ELSE g[j]]
  <2>2. ASSUME NEW j \in 0..n
        PROVE  f[j] = IF j = 0 \/ tree[j].up = 0 THEN {} ELSE {tree[j].up} \cup f[tree[j].up]
    <3>1. CASE j = 0
      BY <1>2, <1>4, <2>1, <3>1 DEF IsAbove
    <3>2. CASE j # 0
      <4>1. j \in DOMAIN tree /\ j \in Nat
        BY <2>0, <3>2
      <4>2. tree[j].up \in 0..(j - 1)
        BY <4>1, ParentIsBefore
      <4>3. tree[j].up \in 0..n /\ tree[j].up # n /\ f[tree[j].up] = g[tree[j].up]
        BY <1>2, <4>1, <4>2
      <4>4. CASE j = n
        BY <1>4, <4>3, <4>4
      <4>5. CASE j # n
        <5>1. j \in 0..(n - 1)
          BY <1>2, <4>5
        <5>2. g[j] = IF j = 0 \/ tree[j].up = 0 THEN {} ELSE {tree[j].up} \cup g[tree[j].up]
          BY <2>1, <5>1 DEF IsAbove
        <5> QED
          BY <4>3, <4>5, <5>2
      <4> QED
        BY <4>4, <4>5
    <3> QED
      BY <3>1, <3>2
  <2>3. IsAbove(tree, f, n)
    BY <2>2 DEF IsAbove
  <2> QED
    BY <2>3
<1> QED
  BY <1>3, <1>4

\* Ancestors is the recursion it is written as: the trees make it well founded.
LEMMA AncestorsUp ==
    ASSUME NEW tree \in Tree, NEW i \in DOMAIN tree
    PROVE  Ancestors(tree, i) =
               IF tree[i].up = 0 THEN {} ELSE {tree[i].up} \cup Ancestors(tree, tree[i].up)
<1> DEFINE above == CHOOSE f : IsAbove(tree, f, Len(tree))
<1>1. IsAbove(tree, above, Len(tree))
  BY AboveExists
<1>2. \A j : Ancestors(tree, j) = above[j]
  BY DEF Ancestors, IsAbove
<1>3. i \in 0..Len(tree) /\ i # 0
  BY ParentIsBefore
<1>4. above[i] = IF tree[i].up = 0 THEN {} ELSE {tree[i].up} \cup above[tree[i].up]
  BY <1>1, <1>3 DEF IsAbove
<1> HIDE DEF above
<1> QED
  BY <1>2, <1>4

\* Going up leads to earlier nodes, to the root in the end, and through every
\* ancestor that lies between.
UpwardsFrom(tree, i) ==
    LET above == Ancestors(tree, i)
    IN  /\ above \subseteq 1..(i - 1)
        /\ i # 1 => 1 \in above
        /\ \A p, q \in above : p < q => p \in Ancestors(tree, q)

LEMMA Upwards ==
    ASSUME NEW tree \in Tree, NEW i \in DOMAIN tree
    PROVE  UpwardsFrom(tree, i)
<1> DEFINE Bad == {j \in DOMAIN tree : ~UpwardsFrom(tree, j)}
<1> SUFFICES ASSUME Bad # {} PROVE FALSE
  OBVIOUS
<1>1. PICK n \in Bad : \A k \in Bad : n <= k
  <2>1. Bad \in SUBSET Nat
    BY ParentIsBefore
  <2> HIDE DEF Bad
  <2> QED
    BY <2>1, LeastNat
<1>2. n \in DOMAIN tree /\ n \in Nat
  BY ParentIsBefore
<1>3. CASE n = 1
  <2>1. Ancestors(tree, n) = {}
    BY <1>2, <1>3, AncestorsUp, ParentIsBefore
  <2>2. UpwardsFrom(tree, n)
    BY <1>3, <2>1 DEF UpwardsFrom
  <2> QED
    BY <2>2
<1>4. CASE n # 1
  <2> DEFINE u == tree[n].up
             A == Ancestors(tree, n)
             U == Ancestors(tree, u)
  <2>1. u \in 1..(n - 1) /\ u \in DOMAIN tree
    <3>1. u \in 0..(n - 1) /\ u # 0
      BY <1>2, <1>4, ParentIsBefore
    <3>2. n <= Len(tree) /\ Len(tree) \in Nat /\ DOMAIN tree = 1..Len(tree)
      BY <1>2 DEF Tree
    <3> HIDE DEF u
    <3> QED
      BY <1>2, <3>1, <3>2
  <2>2. A = {u} \cup U
    BY <1>2, <2>1, AncestorsUp
  <2>3. UpwardsFrom(tree, u)
    BY <1>1, <1>2, <2>1
  <2> HIDE DEF u
  <2>4. U \subseteq 1..(u - 1)
    BY <2>3 DEF UpwardsFrom
  <2>5. A \subseteq 1..(n - 1)
    BY <1>2, <2>1, <2>2, <2>4
  <2>6. 1 \in A
    BY <2>2, <2>3 DEF UpwardsFrom
  <2>7. ASSUME NEW p \in A, NEW q \in A, p < q PROVE p \in Ancestors(tree, q)
    <3>1. p \in 1..(n - 1) /\ q \in 1..(n - 1)
      BY <2>5
    <3>2. CASE q = u
      <4>1. p # u
        BY <2>7, <3>1, <3>2
      <4> QED
        BY <2>2, <3>2, <4>1
    <3>3. CASE q # u
      <4>1. q \in U /\ q \in 1..(u - 1)
        BY <2>2, <2>4, <3>3
      <4>2. p # u
        BY <2>7, <2>1, <3>1, <4>1
      <4>3. p \in U
        BY <2>2, <4>2
      <4> QED
        BY <2>3, <2>7, <4>1, <4>3 DEF UpwardsFrom
    <3> QED
      BY <3>2, <3>3
  <2>8. UpwardsFrom(tree, n)
    BY <1>4, <2>5, <2>6, <2>7 DEF UpwardsFrom
  <2> QED
    BY <2>8
<1> QED
  BY <1>3, <1>4

LEMMA GreatestNat ==
    ASSUME NEW n \in Nat, NEW S \in SUBSET (1..n), S # {}
    PROVE  \E m \in S : \A k \in S : k <= m
<1> DEFINE bounds == {m \in Nat : \A k \in S : k <= m}
<1>1. n \in bounds /\ bounds \in SUBSET Nat
  OBVIOUS
<1>2. PICK m \in bounds : \A b \in bounds : m <= b
  <2> HIDE DEF bounds
  <2> QED
    BY <1>1, LeastNat
<1>3. m \in Nat /\ \A k \in S : k <= m
  OBVIOUS
<1>4. ASSUME m \notin S PROVE FALSE
  <2>1. \A k \in S : k <= m - 1
    BY <1>3, <1>4
  <2>2. m - 1 \in Nat
    <3>1. PICK k \in S : k \in 1..n
      OBVIOUS
    <3> QED
      BY <1>3, <2>1, <3>1
  <2> QED
    BY <1>2, <1>3, <2>1, <2>2
<1> QED
  BY <1>3, <1>4

\* A star in a text that passes stands in a COUNT, below every SELECT around it.
LEMMA PassedStars ==
    ASSUME BAN_SELECT_STAR, NEW sql, sql.trees # <<>>, Rejections(sql) = {},
           sql.trees[1] \in Tree, NEW i \in Nodes(sql.trees[1], "Star")
    PROVE  LET tree == sql.trees[1]
           IN  \E n \in Nodes(tree, "Count") \cap Ancestors(tree, i) :
                   Selects(tree) \cap Ancestors(tree, i) \subseteq Ancestors(tree, n)
<1> DEFINE tree   == sql.trees[1]
           above  == Ancestors(tree, i)
           counts == above \cap Nodes(tree, "Count")
<1>1. i \in DOMAIN tree /\ tree[i].class = "Star" /\ 1 \in DOMAIN tree
  BY ParentIsBefore DEF Nodes
<1>2. tree[1].class = "Query"
  BY DEF Rejections
<1>3. CheckNoSelectStar(tree) = {}
  BY PassedChecks
<1>4. \A q \in above \cap Selects(tree) : \E n \in counts : ~(n < q)
  BY <1>1, <1>3 DEF CheckNoSelectStar, Raise, Nodes
<1>5. i \in Nat /\ above \subseteq 1..(i - 1) /\ 1 \in above
  BY <1>1, <1>2, Upwards, ParentIsBefore DEF UpwardsFrom
<1>6. 1 \in Selects(tree)
  BY <1>1, <1>2 DEF Selects, Nodes
<1>7. PICK n \in counts : \A k \in counts : k <= n
  <2>1. counts # {} /\ counts \in SUBSET (1..i)
    BY <1>4, <1>5, <1>6
  <2> HIDE DEF counts
  <2> QED
    BY <1>5, <2>1, GreatestNat
<1>8. ASSUME NEW q \in Selects(tree) \cap above PROVE q \in Ancestors(tree, n)
  <2>1. PICK m \in counts : ~(m < q)
    BY <1>4
  <2>2. q # n
    BY DEF Selects, Nodes
  <2>3. q < n
    BY <1>5, <1>7, <2>1, <2>2
  <2> QED
    BY <1>1, <2>3, Upwards DEF UpwardsFrom
<1> QED
  BY <1>8

\* An unqualified name in a projection of a text that passes is no table's row.
LEMMA PassedColumns ==
    ASSUME BAN_SELECT_STAR, NEW sql, Rejections(sql) = {},
           NEW i \in Nodes(sql.trees[1], "Column"),
           sql.trees[1][i].qualifier = "", InProjection(sql.trees[1], i),
           NEW r \in RowsNamed(sql.trees[1], i)
    PROVE  ListsItsColumns(sql.trees[1], r) \/ UncollectedAlias(sql.trees[1], r)
<1> DEFINE tree == sql.trees[1]
<1>1. CheckNoWholeRowRefs(tree) = {} /\ CheckTables(tree) = {}
  BY PassedChecks
<1>2. tree[i].name \notin TableAliases(tree)
  BY <1>1 DEF CheckNoWholeRowRefs, Raise
<1>3. ASSUME r \in Nodes(tree, "Table") PROVE FALSE
  <2>1. AliasOrName(tree[r]) = ""
    BY <1>2, <1>3 DEF TableAliases, RowsNamed
  <2>2. tree[r].name = ""
    BY <2>1 DEF AliasOrName
  <2>3. TableRaises(tree, r) = {}
    BY <1>1, <1>3 DEF CheckTables
  <2> QED
    BY <2>2, <2>3 DEF TableRaises
<1>4. r \in FromItems(tree)
  BY DEF RowsNamed, RowsInScope
<1> QED
  BY <1>3, <1>4 DEF FromItems, Nodes, ListsItsColumns, UncollectedAlias

\* No statement that runs returns a row whose columns nothing in it lists, but by
\* the alias of a parenthesised join: by the root, every star has a SELECT above
\* it, and so a COUNT in between; the names of tables are all among those the
\* gate refuses, in whichever query they are used, so that a bare name left in a
\* projection stands for a derived table's row or for such a join's.
THEOREM NoWholeRowLeaves == GatedSpec => []NoWholeRow
<1>1. GateInv => NoWholeRow
  <2> SUFFICES ASSUME GateInv, NEW c \in Calls, stage[c] = "execute", BAN_SELECT_STAR
               PROVE  LET tree == Running(c)
                      IN  /\ \A i \in Nodes(tree, "Star") :
                                 \E n \in Nodes(tree, "Count") \cap Ancestors(tree, i) :
                                     Selects(tree) \cap Ancestors(tree, i)
                                         \subseteq Ancestors(tree, n)
                          /\ \A i \in Nodes(tree, "Column") :
                                 tree[i].qualifier = "" /\ InProjection(tree, i)
                                 => \A r \in RowsNamed(tree, i) :
                                        \/ ListsItsColumns(tree, r)
                                        \/ UncollectedAlias(tree, r)
    BY DEF NoWholeRow
  <2>1. /\ statement[c] \in Text
        /\ statement[c].trees # <<>>
        /\ Rejections(statement[c]) = {}
    BY DEF GateInv, Accepted
  <2>2. statement[c].trees[1] \in Tree
    BY <2>1 DEF Text
  <2>3. \A i \in Nodes(Running(c), "Star") :
            \E n \in Nodes(Running(c), "Count") \cap Ancestors(Running(c), i) :
                Selects(Running(c)) \cap Ancestors(Running(c), i)
                    \subseteq Ancestors(Running(c), n)
    BY <2>1, <2>2, PassedStars DEF Running
  <2>4. \A i \in Nodes(Running(c), "Column") :
            Running(c)[i].qualifier = "" /\ InProjection(Running(c), i)
            => \A r \in RowsNamed(Running(c), i) :
                   \/ ListsItsColumns(Running(c), r)
                   \/ UncollectedAlias(Running(c), r)
    BY <2>1, PassedColumns DEF Running
  <2> QED
    BY <2>3, <2>4
<1> QED
  BY <1>1, GateInvHolds, PTL

-----------------------------------------------------------------------------
(* _cap_rows *)

\* One turn of the loop, and the sizes it adds up
CapStep(sofar, row) ==
    IF \/ sofar.truncated
       \/ sofar.out # <<>> /\ sofar.total + RowBytes(CapCell(row)) > BYTES_LIMIT
    THEN [sofar EXCEPT !.truncated = TRUE]
    ELSE [sofar EXCEPT !.out = Append(@, CapCell(row)), !.total = @ + RowBytes(CapCell(row))]

IsCap(rows, f, n) ==
    f = [i \in 0..n |-> IF i = 0 THEN Nothing ELSE CapStep(f[i - 1], rows[i])]

IsBytes(rows, f, n) ==
    f = [i \in 0..n |-> IF i = 0 THEN 0 ELSE f[i - 1] + RowBytes(CapCell(rows[i]))]

\* Both recursions define functions.
LEMMA CapExists ==
    ASSUME NEW rows, NEW N \in Nat
    PROVE  \E f : IsCap(rows, f, N)
<1> DEFINE Bad == {n \in 0..N : ~\E f : IsCap(rows, f, n)}
<1> SUFFICES ASSUME Bad # {} PROVE FALSE
  OBVIOUS
<1>0. Bad \in SUBSET Nat
  OBVIOUS
<1>1. PICK n \in Bad : \A k \in Bad : n <= k
  <2> HIDE DEF Bad
  <2> QED
    BY <1>0, LeastNat
<1>2. n \in 0..N
  OBVIOUS
<1>3. CASE n = 0
  <2>1. IsCap(rows, [i \in 0..0 |-> Nothing], 0)
    BY DEF IsCap
  <2> QED
    BY <1>3, <2>1
<1>4. CASE n # 0
  <2>0. n - 1 \in 0..N /\ ~(n <= n - 1)
    BY <1>2, <1>4
  <2>1. PICK g : IsCap(rows, g, n - 1)
    BY <1>1, <2>0
  <2> DEFINE f == [i \in 0..n |-> IF i = n THEN CapStep(g[n - 1], rows[n]) ELSE g[i]]
  <2>2. ASSUME NEW i \in 0..n
        PROVE  f[i] = IF i = 0 THEN Nothing ELSE CapStep(f[i - 1], rows[i])
    <3>1. i # 0 => i - 1 \in 0..n /\ f[i - 1] = g[i - 1]
      BY <1>2
    <3>2. i # n => g[i] = IF i = 0 THEN Nothing ELSE CapStep(g[i - 1], rows[i])
      BY <1>2, <2>1 DEF IsCap
    <3> QED
      BY <1>4, <3>1, <3>2
  <2>3. IsCap(rows, f, n)
    BY <2>2 DEF IsCap
  <2> QED
    BY <2>3
<1> QED
  BY <1>3, <1>4

LEMMA BytesExist ==
    ASSUME NEW rows, NEW N \in Nat
    PROVE  \E f : IsBytes(rows, f, N)
<1> DEFINE Bad == {n \in 0..N : ~\E f : IsBytes(rows, f, n)}
<1> SUFFICES ASSUME Bad # {} PROVE FALSE
  OBVIOUS
<1>0. Bad \in SUBSET Nat
  OBVIOUS
<1>1. PICK n \in Bad : \A k \in Bad : n <= k
  <2> HIDE DEF Bad
  <2> QED
    BY <1>0, LeastNat
<1>2. n \in 0..N
  OBVIOUS
<1>3. CASE n = 0
  <2>1. IsBytes(rows, [i \in 0..0 |-> 0], 0)
    BY DEF IsBytes
  <2> QED
    BY <1>3, <2>1
<1>4. CASE n # 0
  <2>0. n - 1 \in 0..N /\ ~(n <= n - 1)
    BY <1>2, <1>4
  <2>1. PICK g : IsBytes(rows, g, n - 1)
    BY <1>1, <2>0
  <2> DEFINE f == [i \in 0..n |-> IF i = n THEN g[n - 1] + RowBytes(CapCell(rows[n])) ELSE g[i]]
  <2>2. ASSUME NEW i \in 0..n
        PROVE  f[i] = IF i = 0 THEN 0 ELSE f[i - 1] + RowBytes(CapCell(rows[i]))
    <3>1. i # 0 => i - 1 \in 0..n /\ f[i - 1] = g[i - 1]
      BY <1>2
    <3>2. i # n => g[i] = IF i = 0 THEN 0 ELSE g[i - 1] + RowBytes(CapCell(rows[i]))
      BY <1>2, <2>1 DEF IsBytes
    <3> QED
      BY <1>4, <3>1, <3>2
  <2>3. IsBytes(rows, f, n)
    BY <2>2 DEF IsBytes
  <2> QED
    BY <2>3
<1> QED
  BY <1>3, <1>4

\* A cell that is cut is a cell, and a row has at least its brackets.
LEMMA CellTypes ==
    ASSUME NEW cell \in Cell
    PROVE  CapCell(cell) \in Cell /\ RowBytes(CapCell(cell)) \in Nat
<1>1. CapCell(cell) \in Cell
  BY ResultCapAssumption DEF CapCell, Cell
<1>2. ASSUME NEW x \in Cell PROVE JsonBytes(x) \in Nat
  <2>1. x.chars \in Nat /\ x.width \in 1..4
    BY DEF Cell
  <2>2. JsonWidth[x.width] \in Nat
    BY <2>1 DEF JsonWidth
  <2>3. x.chars * JsonWidth[x.width] \in Nat
    BY <2>1, <2>2
  <2> HIDE DEF JsonWidth
  <2> QED
    BY <2>3 DEF JsonBytes
<1> QED
  BY <1>1, <1>2 DEF RowBytes

\* After i rows: those kept are the first k, the total is theirs, and if any
\* were kept back it is for want of room behind the first row.
LoopInv(sofar, bytes, i) ==
    /\ sofar.out \in Seq(Cell) /\ Len(sofar.out) \in 0..i
    /\ sofar.total = bytes[Len(sofar.out)]
    /\ Len(sofar.out) > 1 => bytes[Len(sofar.out)] <= BYTES_LIMIT
    /\ ~sofar.truncated => Len(sofar.out) = i
    /\ sofar.truncated => /\ Len(sofar.out) \in 1..(i - 1)
                          /\ bytes[Len(sofar.out) + 1] > BYTES_LIMIT

LEMMA BytesGrow ==
    ASSUME NEW rows \in Seq(Cell), NEW bytes, IsBytes(rows, bytes, Len(rows)),
           NEW i \in 1..Len(rows)
    PROVE  bytes[i] = bytes[i - 1] + RowBytes(CapCell(rows[i]))
BY DEF IsBytes

LEMMA StepKeepsLoop ==
    ASSUME NEW sofar, NEW N \in Nat, NEW bytes \in [0..N -> Nat], NEW i \in 1..N,
           NEW row \in Cell, LoopInv(sofar, bytes, i - 1), bytes[i] = bytes[i - 1] + RowBytes(CapCell(row)),
           DOMAIN sofar = {"out", "total", "truncated"}
    PROVE  LoopInv(CapStep(sofar, row), bytes, i)
<1> DEFINE k    == Len(sofar.out)
           next == CapStep(sofar, row)
           size == RowBytes(CapCell(row))
<1>0. size \in Nat /\ CapCell(row) \in Cell
  BY CellTypes
<1>1. sofar.out \in Seq(Cell) /\ k \in 0..(i - 1) /\ k \in Nat
  BY DEF LoopInv
<1>2. CASE sofar.truncated
  <2>1. next.out = sofar.out /\ next.total = sofar.total
    BY <1>2 DEF CapStep
  <2>2. next.truncated
    BY <1>2 DEF CapStep
  <2> QED
    BY <1>1, <1>2, <2>1, <2>2 DEF LoopInv
<1>3. CASE ~sofar.truncated /\ sofar.out # <<>> /\ sofar.total + size > BYTES_LIMIT
  <2>1. next.out = sofar.out /\ next.total = sofar.total
    BY <1>3 DEF CapStep
  <2>2. next.truncated
    BY <1>3 DEF CapStep
  <2>3. k = i - 1 /\ sofar.total = bytes[k] /\ k # 0
    BY <1>1, <1>3 DEF LoopInv
  <2>4. bytes[k + 1] > BYTES_LIMIT
    BY <1>3, <2>3
  <2>5. k > 1 => bytes[k] <= BYTES_LIMIT
    BY DEF LoopInv
  <2>6. Len(next.out) = k /\ k \in 0..i /\ k \in 1..(i - 1)
    BY <1>1, <2>1, <2>3
  <2>7. next.out \in Seq(Cell) /\ next.total = bytes[Len(next.out)]
    BY <1>1, <2>1, <2>3
  <2>8. Len(next.out) \in 0..i /\ (Len(next.out) > 1 => bytes[Len(next.out)] <= BYTES_LIMIT)
    BY <2>5, <2>6
  <2>9. Len(next.out) \in 1..(i - 1) /\ bytes[Len(next.out) + 1] > BYTES_LIMIT
    BY <2>4, <2>6
  <2>10. LoopInv(next, bytes, i)
    <3> HIDE DEF next, k
    <3> QED
      BY <2>2, <2>7, <2>8, <2>9, Zenon DEF LoopInv
  <2> QED
    BY <2>10
<1>4. CASE ~sofar.truncated /\ ~(sofar.out # <<>> /\ sofar.total + size > BYTES_LIMIT)
  <2>1. next.out = Append(sofar.out, CapCell(row)) /\ next.total = sofar.total + size
    BY <1>4 DEF CapStep
  <2>2. ~next.truncated
    BY <1>4 DEF CapStep
  <2>3. k = i - 1 /\ sofar.total = bytes[k]
    BY <1>4 DEF LoopInv
  <2>4. next.out \in Seq(Cell) /\ Len(next.out) = i
    BY <1>0, <1>1, <2>1, <2>3
  <2>5. next.total = bytes[i]
    BY <2>1, <2>3
  <2>6. i > 1 => bytes[i] <= BYTES_LIMIT
    <3>1. i > 1 => sofar.out # <<>>
      BY <1>1, <2>3
    <3>2. i > 1 => ~(sofar.total + size > BYTES_LIMIT)
      BY <1>4, <3>1
    <3> QED
      BY <3>2, <2>3, ResultCapAssumption
  <2>7. Len(next.out) \in 0..i /\ (Len(next.out) > 1 => bytes[Len(next.out)] <= BYTES_LIMIT)
    BY <2>4, <2>6
  <2>8. next.total = bytes[Len(next.out)]
    BY <2>4, <2>5
  <2>9. LoopInv(next, bytes, i)
    <3> HIDE DEF next
    <3> QED
      BY <2>2, <2>4, <2>7, <2>8, Zenon DEF LoopInv
  <2> QED
    BY <2>9
<1> QED
  BY <1>2, <1>3, <1>4

\* The bytes of the first i rows are a number.
LEMMA BytesType ==
    ASSUME NEW rows \in Seq(Cell), NEW bytes, IsBytes(rows, bytes, Len(rows))
    PROVE  bytes \in [0..Len(rows) -> Nat]
<1> DEFINE N   == Len(rows)
           Bad == {i \in 0..N : bytes[i] \notin Nat}
<1>1. Bad \in SUBSET Nat
  OBVIOUS
<1>2. ASSUME NEW i \in Bad, \A j \in Bad : i <= j PROVE FALSE
  <2>1. CASE i = 0
    BY <2>1 DEF IsBytes
  <2>2. CASE i # 0
    <3>1. i \in 1..N /\ i - 1 \in 0..N /\ ~(i <= i - 1)
      BY <2>2
    <3>2. bytes[i - 1] \in Nat
      BY <1>2, <3>1
    <3>3. bytes[i] = bytes[i - 1] + RowBytes(CapCell(rows[i])) /\ rows[i] \in Cell
      BY <3>1, BytesGrow
    <3>4. bytes[i] \in Nat
      BY <3>2, <3>3, CellTypes
    <3> QED
      BY <3>4
  <2> QED
    BY <2>1, <2>2
<1>3. Bad = {}
  <2> HIDE DEF Bad
  <2> QED
    BY <1>1, <1>2, LeastNat
<1> QED
  BY <1>3 DEF IsBytes

LEMMA CapTurn ==
    ASSUME NEW rows, NEW cap, NEW N \in Nat, IsCap(rows, cap, N), NEW i \in 1..N
    PROVE  cap[i] = CapStep(cap[i - 1], rows[i])
BY DEF IsCap

\* The loop keeps what its turns keep.
LEMMA LoopKeeps ==
    ASSUME NEW rows \in Seq(Cell), NEW cap, IsCap(rows, cap, Len(rows)),
           NEW bytes, IsBytes(rows, bytes, Len(rows)), NEW n \in 0..Len(rows)
    PROVE  LoopInv(cap[n], bytes, n)
<1> DEFINE N    == Len(rows)
           Turn(i) == /\ LoopInv(cap[i], bytes, i)
                      /\ DOMAIN cap[i] = {"out", "total", "truncated"}
           Bad  == {i \in 0..N : ~Turn(i)}
<1>1. Bad \in SUBSET Nat
  OBVIOUS
<1>0. N \in Nat /\ bytes \in [0..N -> Nat]
  BY BytesType
<1>2. bytes[0] = 0
  BY <1>0 DEF IsBytes
<1>3. ASSUME NEW i \in Bad, \A j \in Bad : i <= j PROVE FALSE
  <2>1. CASE i = 0
    <3>1. cap[0] = Nothing
      BY DEF IsCap
    <3>2. Nothing.out = <<>> /\ Nothing.total = 0
      BY DEF Nothing
    <3>3. ~Nothing.truncated /\ DOMAIN Nothing = {"out", "total", "truncated"}
      BY DEF Nothing
    <3>4. LoopInv(Nothing, bytes, 0)
      BY <1>2, <3>2, <3>3 DEF LoopInv
    <3> QED
      BY <2>1, <3>1, <3>3, <3>4
  <2>2. CASE i # 0
    <3>1. i \in 1..N /\ i - 1 \in 0..N /\ ~(i <= i - 1)
      BY <2>2
    <3>2. Turn(i - 1)
      BY <1>3, <3>1
    <3>3. cap[i] = CapStep(cap[i - 1], rows[i]) /\ rows[i] \in Cell
      BY <3>1, CapTurn
    <3>4. bytes[i] = bytes[i - 1] + RowBytes(CapCell(rows[i]))
      BY <3>1, BytesGrow
    <3>5. LoopInv(cap[i], bytes, i)
      <4>1. LoopInv(cap[i - 1], bytes, i - 1) /\ DOMAIN cap[i - 1] = {"out", "total", "truncated"}
        BY <3>2
      <4>2. LoopInv(CapStep(cap[i - 1], rows[i]), bytes, i)
        <5> HIDE DEF N
        <5> QED
          BY <1>0, <3>1, <3>3, <3>4, <4>1, StepKeepsLoop
      <4> QED
        BY <3>3, <4>2
    <3>6. DOMAIN cap[i] = {"out", "total", "truncated"}
      BY <3>2, <3>3 DEF CapStep
    <3> QED
      BY <3>5, <3>6
  <2> QED
    BY <2>1, <2>2
<1>4. Bad = {}
  <2> HIDE DEF Bad
  <2> QED
    BY <1>1, <1>3, LeastNat
<1> QED
  BY <1>4

\* What _cap_rows makes of rows, in the terms of AnswerIsLongestPrefix
LEMMA CapIsLongestPrefix ==
    ASSUME NEW rows \in Seq(Cell)
    PROVE  LET n == Len(CapRows(rows).out)
               bytes[i \in 0..Len(rows)] ==
                   IF i = 0 THEN 0 ELSE bytes[i - 1] + RowBytes(CapCell(rows[i]))
           IN  /\ n \in 0..Len(rows)
               /\ n > 1 => bytes[n] <= BYTES_LIMIT
               /\ n < Len(rows) => n > 0 /\ bytes[n + 1] > BYTES_LIMIT
<1> DEFINE cap == CHOOSE f : IsCap(rows, f, Len(rows))
           b   == CHOOSE f : IsBytes(rows, f, Len(rows))
           n   == Len(CapRows(rows).out)
<1>1. IsCap(rows, cap, Len(rows)) /\ IsBytes(rows, b, Len(rows))
  <2>1. Len(rows) \in Nat
    OBVIOUS
  <2> QED
    BY <2>1, CapExists, BytesExist
<1>2. CapRows(rows) = cap[Len(rows)]
  BY DEF CapRows, IsCap, CapStep
<1>3. LoopInv(cap[Len(rows)], b, Len(rows))
  <2> HIDE DEF cap, b
  <2> QED
    BY <1>1, LoopKeeps
<1>4. LoopInv(CapRows(rows), b, Len(rows))
  <2> HIDE DEF cap, b
  <2> QED
    BY <1>2, <1>3
<1>5. /\ n \in 0..Len(rows)
      /\ n > 1 => b[n] <= BYTES_LIMIT
      /\ n < Len(rows) => n > 0 /\ b[n + 1] > BYTES_LIMIT
  <2> HIDE DEF cap, b
  <2> QED
    BY <1>4 DEF LoopInv
<1> QED
  BY <1>5 DEF IsBytes

-----------------------------------------------------------------------------
(* The sizes of the rows *)

\* _cap_rows only decides how many rows a successful call returns: every step
\* is one of GatedExecutor.
THEOREM CapImplementsGate == CappedSpec => GatedSpec
<1>1. CappedInit => GatedInit
  BY DEF CappedInit
<1>2. [CappedNext]_cappedVars => [GatedNext]_gatedVars
  <2> SUFFICES ASSUME [CappedNext]_cappedVars PROVE [GatedNext]_gatedVars
    OBVIOUS
  <2>1. ASSUME NEW c \in Calls, Find(c) \/ CappedCommit(c) \/ OtherStep(c)
        PROVE  Beyond(c)
    BY <2>1 DEF Find, CappedCommit, OtherStep, Beyond, ReadTransaction
  <2> QED
    BY <2>1 DEF CappedNext, GatedNext, cappedVars
<1> QED
  BY <1>1, <1>2, PTL DEF CappedSpec, GatedSpec

\* Whatever rows it finds, every table a statement that runs reads is on its
\* profile's whitelist, but for one in the shadow of a namesake CTE that is not in
\* its scope (OutOfScopeNamesake).
THEOREM CappedReadsDeclaredTables == CappedSpec => []ReadsDeclaredTables
BY CapImplementsGate, OnlyDeclaredTablesAreRead, PTL

\* Whatever rows it finds, a statement runs in its own profile's role.
THEOREM CappedStatementsAreConfined == CappedSpec => []StatementConfined
BY CapImplementsGate, GatedStatementsAreConfined, PTL

\* ... and the answers keep the limits.
THEOREM CappedAnswersKeepLimits == CappedSpec => []AnswerWithinLimits
BY CapImplementsGate, GateImplementsExecutor, AnswersKeepLimits, PTL

\* ... and their flag tells what the server held back.
THEOREM CappedFlagTellsTruncation == CappedSpec => []TruncatedIffRowsHeldBack
BY CapImplementsGate, GateImplementsExecutor, FlagTellsTruncation, PTL

\* A successful call whose statement ran
Answering(c) ==
    stage[c] \in {"audit", "count", "answered"} /\ c \in sent /\ result[c].reason = ""

\* The rows found are as many as the query matched from the moment it ran, and
\* the answer has those that _cap_rows leaves.
FoundInv ==
    /\ found \in [Calls -> Seq(Cell)]
    /\ \A c \in Calls : stage[c] = "commit" \/ Answering(c) => Len(found[c]) = query[c].total
    /\ \A c \in Calls : Answering(c) => result[c].row_count = Len(CapRows(LeftByCount(c)).out)

\* What the invariant says of the call c is about its own columns.
FoundCall(c) ==
    /\ stage[c] = "commit" \/ Answering(c) => Len(found[c]) = query[c].total
    /\ Answering(c) => result[c].row_count = Len(CapRows(LeftByCount(c)).out)

LEMMA FoundParts == FoundInv <=> /\ found \in [Calls -> Seq(Cell)]
                                 /\ \A c \in Calls : FoundCall(c)
BY DEF FoundInv, FoundCall

LEMMA SameFound ==
    ASSUME NEW d, FoundCall(d), stage'[d] = stage[d], query'[d] = query[d],
           result'[d] = result[d], found'[d] = found[d], d \in sent' <=> d \in sent
    PROVE  FoundCall(d)'
BY DEF FoundCall, Answering, LeftByCount

\* A call that goes on without a successful answer of its own has nothing to
\* account for.
LEMMA NotAnswering ==
    ASSUME NEW c, stage'[c] # "commit", ~Answering(c)'
    PROVE  FoundCall(c)'
BY DEF FoundCall

\* The call's own step: only the commit makes an answer of rows found.
LEMMA OwnStepKeepsFound ==
    ASSUME TypeOK, AuditInv, NEW c \in Calls, FoundCall(c), found' = found,
           \/ Invoke(c) \/ BeforeDatabase(c) \/ Audit(c)
           \/ Begin(c) \/ BeginFails(c) \/ EnterSession(c) \/ EnterFails(c)
           \/ ExecuteFails(c) \/ FetchEscapes(c) \/ CommitFails(c) \/ Rollback(c)
    PROVE  FoundCall(c)'
<1>0. CallInv(c)
  BY DEF AuditInv
<1>1. CASE Invoke(c) \/ BeforeDatabase(c)
  <2>1. stage[c] \in Unsent /\ sent' = sent
    BY <1>1 DEF Invoke, BeforeDatabase, RunQuery, MetadataTool, MetadataUnresolved,
       AliasAbsent, ValidationEscapes, ParserRejects, ParserAccepts, MetadataOnly,
       PrepareFails, HookReturns, dbVars, Unsent
  <2>2. c \notin sent'
    BY <1>0, <2>1 DEF CallInv
  <2>3. stage'[c] # "commit"
    BY <1>1 DEF Invoke, BeforeDatabase, RunQuery, MetadataTool, MetadataUnresolved,
       AliasAbsent, ValidationEscapes, ParserRejects, ParserAccepts, MetadataOnly,
       PrepareFails, HookReturns, Reject, Misconfigured, Finish, Goto, TypeOK
  <2> QED
    BY <2>2, <2>3, NotAnswering DEF Answering
<1>2. CASE Begin(c) \/ EnterSession(c) \/ EnterFails(c) \/ ExecuteFails(c) \/ FetchEscapes(c)
            \/ CommitFails(c)
  <2>1. stage'[c] \in {"enter", "execute", "rollback", "escaped"}
    BY <1>2 DEF Begin, EnterSession, EnterFails, ExecuteFails, FetchEscapes, CommitFails,
       Goto, TypeOK
  <2> QED
    BY <2>1, NotAnswering DEF Answering
<1>3. CASE BeginFails(c)
  <2>1. stage[c] = "begin" /\ sent' = sent /\ stage'[c] = "audit"
    BY <1>3 DEF BeginFails, dbVars, Goto, TypeOK
  <2>2. c \notin sent'
    BY <1>0, <2>1 DEF CallInv, Unsent
  <2> QED
    BY <2>1, <2>2, NotAnswering DEF Answering
<1>4. CASE Rollback(c)
  <2>1. stage[c] = "rollback" /\ result' = result /\ stage'[c] = "audit"
    BY <1>4 DEF Rollback, outVars, Goto, TypeOK
  <2>2. result'[c].reason # ""
    BY <1>0, <2>1 DEF CallInv
  <2> QED
    BY <2>1, <2>2, NotAnswering DEF Answering
<1>5. CASE Audit(c)
  <2>1. /\ stage[c] \in {"audit", "count"} /\ stage'[c] \in {"count", "answered"}
        /\ sent' = sent /\ result' = result /\ query' = query
    BY <1>5 DEF Audit, AuditWrites, AuditFails, CountVolume, outVars, dbVars, Goto, TypeOK
  <2>2. Answering(c)' => Answering(c)
    BY <2>1 DEF Answering
  <2>3. LeftByCount(c)' = LeftByCount(c)
    BY <2>1 DEF LeftByCount
  <2> QED
    BY <2>1, <2>2, <2>3 DEF FoundCall
<1> QED
  BY <1>1, <1>2, <1>3, <1>4, <1>5

LEMMA FindKeepsFound ==
    ASSUME TypeOK, GateInv, FoundInv, NEW c \in Calls, Find(c)
    PROVE  FoundCall(c)' /\ found' \in [Calls -> Seq(Cell)]
<1>1. stage[c] = "execute" /\ stage'[c] = "commit"
  BY DEF Find, Execute, Goto, TypeOK
<1>2. PICK rows \in RowsOf(statement[c]) :
           Len(rows) = query'[c].total /\ found' = [found EXCEPT ![c] = rows]
  BY DEF Find
<1>3. rows \in Seq(Cell)
  <2>1. PICK s \in Submissions : statement[c] = s.sql
    BY <1>1 DEF GateInv, Submitted, Accepted
  <2> QED
    BY <2>1, CappedAssumption
<1>4. found' \in [Calls -> Seq(Cell)] /\ Len(found'[c]) = query'[c].total
  BY <1>2, <1>3 DEF FoundInv
<1>5. ~Answering(c)'
  BY <1>1 DEF Answering
<1> QED
  BY <1>4, <1>5 DEF FoundCall

LEMMA CommitKeepsFound ==
    ASSUME TypeOK, FoundInv, NEW c \in Calls, CappedCommit(c)
    PROVE  FoundCall(c)'
<1>1. stage[c] = "commit" /\ query' = query /\ found' = found
  BY DEF CappedCommit, Commit
<1>2. result'[c].row_count = Len(CapRows(LeftByCount(c)).out)
  BY DEF CappedCommit
<1>3. LeftByCount(c)' = LeftByCount(c)
  BY <1>1 DEF LeftByCount
<1>4. Len(found[c]) = query[c].total
  BY <1>1 DEF FoundInv
<1> QED
  BY <1>1, <1>2, <1>3, <1>4 DEF FoundCall

LEMMA NextFound ==
    TypeOK /\ AuditInv /\ GateInv /\ FoundInv /\ [CappedNext]_cappedVars => FoundInv'
<1> SUFFICES ASSUME TypeOK, AuditInv, GateInv, FoundInv, [CappedNext]_cappedVars
             PROVE  FoundInv'
  OBVIOUS
<1>1. ASSUME NEW c \in Calls, found' \in [Calls -> Seq(Cell)], FoundCall(c)',
             Invoke(c) \/ Progress(c), \A d \in Calls \ {c} : found'[d] = found[d]
      PROVE  FoundInv'
  <2>1. ASSUME NEW d \in Calls \ {c} PROVE FoundCall(d)'
    BY <1>1, <2>1, FoundParts, OthersUntouched, SameFound
  <2>2. \A d \in Calls : FoundCall(d)'
    BY <1>1, <2>1
  <2> QED
    BY <1>1, <2>2 DEF FoundInv, FoundCall
<1>2. ASSUME NEW c \in Calls, Find(c) PROVE FoundInv'
  <2>1. Progress(c)
    BY <1>2 DEF Find, Progress, ReadTransaction
  <2>2. \A d \in Calls \ {c} : found'[d] = found[d]
    BY <1>2 DEF Find, FoundInv
  <2> QED
    BY <1>1, <1>2, <2>1, <2>2, FindKeepsFound
<1>3. ASSUME NEW c \in Calls, CappedCommit(c) PROVE FoundInv'
  <2>1. Progress(c) /\ found' = found
    BY <1>3 DEF CappedCommit, Progress, ReadTransaction
  <2>2. found' \in [Calls -> Seq(Cell)]
    BY <2>1 DEF FoundInv
  <2> QED
    BY <1>1, <1>3, <2>1, <2>2, CommitKeepsFound
<1>4. ASSUME NEW c \in Calls, Submit(c) \/ GateRejects(c) \/ GateAccepts(c) \/ OtherStep(c),
             UNCHANGED found
      PROVE  FoundInv'
  <2>1. \/ Invoke(c) \/ BeforeDatabase(c) \/ Audit(c)
        \/ Begin(c) \/ BeginFails(c) \/ EnterSession(c) \/ EnterFails(c)
        \/ ExecuteFails(c) \/ FetchEscapes(c) \/ CommitFails(c) \/ Rollback(c)
    BY <1>4 DEF Submit, GateRejects, GateAccepts, OtherStep, Invoke, BeforeDatabase
  <2>2. Invoke(c) \/ Progress(c)
    BY <2>1 DEF Progress, ReadTransaction
  <2>3. FoundCall(c)'
    BY <1>4, <2>1, FoundParts, OwnStepKeepsFound
  <2>4. found' \in [Calls -> Seq(Cell)]
    BY <1>4 DEF FoundInv
  <2> QED
    BY <1>1, <1>4, <2>2, <2>3, <2>4
<1>5. CASE UNCHANGED cappedVars
  BY <1>5 DEF cappedVars, gatedVars, vars, FoundInv, Answering, LeftByCount
<1>6. CASE AllFinished /\ UNCHANGED <<statement, found>>
  BY <1>5, <1>6 DEF AllFinished, cappedVars, gatedVars
<1> QED
  BY <1>2, <1>3, <1>4, <1>5, <1>6 DEF CappedNext

\* What the limits leave of the rows found is their beginning.
LEMMA LeftRows ==
    ASSUME TypeOK, FoundInv, NEW c \in Calls, Answering(c)
    PROVE  LeftByCount(c) \in Seq(Cell)
<1> DEFINE q    == query[c]
           upto == KeptRows(q.limit, q.sqlLimit, FetchedRows(q.limit, q.sqlLimit, q.total))
<1>1. found[c] \in Seq(Cell) /\ Len(found[c]) = q.total
  BY DEF FoundInv
<1>2. upto \in 0..q.total
  <2>1. q.limit \in Int \cup {NoLimit} /\ q.total \in Nat
    BY QueryTypes
  <2> HIDE DEF q
  <2>2. EffectiveLimit(q.limit, q.sqlLimit) \in 0..HARD_LIMIT
    BY <2>1, EffectiveLimitType
  <2> QED
    BY <2>1, <2>2, LimitsAssumption DEF upto, FetchedRows, KeptRows, Lesser
<1> HIDE DEF upto, q
<1>3. SubSeq(found[c], 1, upto) \in Seq(Cell)
  BY <1>1, <1>2
<1> QED
  BY <1>3 DEF LeftByCount, upto, q

\* For any rows: an answer is the longest beginning of what the limits leave
\* that fits the byte limit, or its first row alone.
THEOREM AnswersAreLongestPrefixes == CappedSpec => []AnswerIsLongestPrefix
<1>1. CappedInit => FoundInv
  <2>1. <<>> \in Seq(Cell)
    OBVIOUS
  <2> QED
    BY <2>1 DEF CappedInit, GatedInit, Init, FoundInv, Answering
<1>2. TypeOK /\ FoundInv => AnswerIsLongestPrefix
  <2> SUFFICES ASSUME TypeOK, FoundInv, NEW c \in Calls, ReturnedRows(c)
               PROVE  LET rows == LeftByCount(c)
                          n    == result[c].row_count
                          bytes[i \in 0..Len(rows)] ==
                              IF i = 0 THEN 0 ELSE bytes[i - 1] + RowBytes(CapCell(rows[i]))
                      IN  /\ n \in 0..Len(rows)
                          /\ n > 1 => bytes[n] <= BYTES_LIMIT
                          /\ n < Len(rows) => n > 0 /\ bytes[n + 1] > BYTES_LIMIT
    BY DEF AnswerIsLongestPrefix
  <2>1. Answering(c)
    BY DEF ReturnedRows, Answering
  <2>2. result[c].row_count = Len(CapRows(LeftByCount(c)).out)
    BY <2>1 DEF FoundInv
  <2>3. LeftByCount(c) \in Seq(Cell)
    BY <2>1, LeftRows
  <2> QED
    BY <2>2, <2>3, CapIsLongestPrefix
<1> QED
  BY <1>1, <1>2, NextFound, CapImplementsGate, GateImplementsExecutor, GateInvHolds,
     TypeCorrect, AuditInvHolds, PTL DEF CappedSpec
=============================================================================
