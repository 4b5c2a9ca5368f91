--------------------------- MODULE CappedExecutor ---------------------------
(***************************************************************************)
(* GatedExecutor with the sizes of the rows filled in: a statement finds   *)
(* rows, and _cap_rows decides how many of those that the limits leave are *)
(* returned.                                                               *)
(***************************************************************************)
EXTENDS GatedExecutor, ResultCap

CONSTANT RowsOf(_)      \* the tables' rows a text may find

ASSUME CappedAssumption == \A s \in Submissions : RowsOf(s.sql) \subseteq Seq(Cell)

VARIABLE found          \* the rows each call's statement finds, in order

cappedVars == <<gatedVars, found>>

CappedInit == GatedInit /\ found = [c \in Calls |-> <<>>]

\* The statement runs: its rows are what the database holds then.
Find(c) ==
    /\ Execute(c)
    /\ \E rows \in RowsOf(statement[c]) :
          /\ Len(rows) = query'[c].total
          /\ found' = [found EXCEPT ![c] = rows]
    /\ UNCHANGED statement

\* The rows that the count of the limits leaves
LeftByCount(c) ==
    LET q == query[c]
    IN  SubSeq(found[c], 1, KeptRows(q.limit, q.sqlLimit,
                                     FetchedRows(q.limit, q.sqlLimit, q.total)))

CappedCommit(c) ==
    /\ Commit(c)
    /\ result'[c].row_count = Len(CapRows(LeftByCount(c)).out)
    /\ UNCHANGED <<statement, found>>

\* Every other step of a call
OtherStep(c) ==
    /\ \/ MetadataTool(c) \/ MetadataUnresolved(c)
       \/ AliasAbsent(c)  \/ ValidationEscapes(c)
       \/ MetadataOnly(c) \/ PrepareFails(c) \/ HookReturns(c)
       \/ Begin(c) \/ BeginFails(c) \/ EnterSession(c) \/ EnterFails(c)
       \/ ExecuteFails(c) \/ FetchEscapes(c) \/ CommitFails(c) \/ Rollback(c)
       \/ Audit(c)
    /\ UNCHANGED statement

CappedNext ==
    \/ \E c \in Calls :
          \/ Find(c)
          \/ CappedCommit(c)
          \/ /\ Submit(c) \/ GateRejects(c) \/ GateAccepts(c) \/ OtherStep(c)
             /\ UNCHANGED found
    \/ AllFinished /\ UNCHANGED <<statement, found>>

CappedSpec == CappedInit /\ [][CappedNext]_cappedVars

-----------------------------------------------------------------------------
(* Properties *)

\* The answer is the longest beginning of the rows the limits leave that fits
\* BYTES_LIMIT, or their first row alone: no row is left out in between, and
\* none is held back that would have fitted (_cap_rows).
AnswerIsLongestPrefix ==
    \A c \in Calls : ReturnedRows(c) =>
        LET rows == LeftByCount(c)
            n    == result[c].row_count
            bytes[i \in 0..Len(rows)] ==
                IF i = 0 THEN 0 ELSE bytes[i - 1] + RowBytes(CapCell(rows[i]))
        IN  /\ n \in 0..Len(rows)
            /\ n > 1 => bytes[n] <= BYTES_LIMIT
            /\ n < Len(rows) => n > 0 /\ bytes[n + 1] > BYTES_LIMIT
=============================================================================
