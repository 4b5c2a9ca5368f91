------------------------------- MODULE Limits -------------------------------
(***************************************************************************)
(* The row-limit arithmetic of executor.run_query: how the tool's `limit`  *)
(* argument, the LIMIT the caller wrote in SQL and the two configured      *)
(* limits give one effective limit, and when a result counts as truncated. *)
(***************************************************************************)
EXTENDS Integers

CONSTANTS
    DEFAULT_LIMIT,   \* MCP_SQL["LIMITS"]["DEFAULT_LIMIT"]
    HARD_LIMIT,      \* MCP_SQL["LIMITS"]["HARD_LIMIT"]
    NoLimit          \* Python None: no limit given

\* What validation.validate_mcp_sql_settings enforces before Django starts.
ASSUME LimitsAssumption ==
    /\ DEFAULT_LIMIT \in Nat \ {0}
    /\ HARD_LIMIT \in Nat \ {0}
    /\ DEFAULT_LIMIT <= HARD_LIMIT
    /\ NoLimit \notin Int

Lesser(m, n)  == IF m <= n THEN m ELSE n
Greater(m, n) == IF m >= n THEN m ELSE n

\* extract_limit: only an integer literal is read; anything else is None.
ExtractLimit(sqlLimit) == IF sqlLimit \in Nat THEN sqlLimit ELSE NoLimit

ExplicitLimits(limit, sqlLimit) == {limit, ExtractLimit(sqlLimit)} \ {NoLimit}

MinExplicitLimit(limit, sqlLimit) ==
    LET explicit == ExplicitLimits(limit, sqlLimit)
    IN  IF explicit = {}
        THEN DEFAULT_LIMIT
        ELSE CHOOSE n \in explicit : \A m \in explicit : n <= m

EffectiveLimit(limit, sqlLimit) ==
    Greater(0, Lesser(MinExplicitLimit(limit, sqlLimit), HARD_LIMIT))

\* The caller's own cap was binding, so reaching it is not a truncation.
UserConstrained(limit, sqlLimit) ==
    /\ ExplicitLimits(limit, sqlLimit) # {}
    /\ MinExplicitLimit(limit, sqlLimit) <= HARD_LIMIT

\* Mutant: the statement asks for the effective limit and no row more.
FetchedRowsNoPeek(limit, sqlLimit, total) ==
    Lesser(total, EffectiveLimit(limit, sqlLimit))

\* inject_limit: the statement sent asks for one row more than is kept, so
\* that of `total` matching rows the server returns this many.
FetchedRows(limit, sqlLimit, total) ==
    Lesser(total, EffectiveLimit(limit, sqlLimit) + 1)

TruncatedByCount(limit, sqlLimit, fetched) ==
    /\ ~UserConstrained(limit, sqlLimit)
    /\ fetched > EffectiveLimit(limit, sqlLimit)

\* Mutants of KeptRows: every fetched row is kept, and one row too few.
AllFetchedRows(limit, sqlLimit, fetched) == fetched

KeptRowsShort(limit, sqlLimit, fetched) ==
    Lesser(fetched, EffectiveLimit(limit, sqlLimit)) - 1

\* raw_rows[:effective_limit]
KeptRows(limit, sqlLimit, fetched) ==
    Lesser(fetched, EffectiveLimit(limit, sqlLimit))
=============================================================================
