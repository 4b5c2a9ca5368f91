----------------------------- MODULE MCExecutor -----------------------------
(* Small instances of Executor for TLC. *)
EXTENDS Executor

\* The pipeline and the pool are what is explored: a call asks for rows or for
\* none, which skips the database.
RowsOrNone == {NoLimit, 0}
=============================================================================
