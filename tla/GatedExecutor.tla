--------------------------- MODULE GatedExecutor ---------------------------
(***************************************************************************)
(* Executor with the parser's part filled in: a run_query call comes with  *)
(* a text, SqlGate says what parse_and_validate does with it, and the rest *)
(* of the call is Executor's.                                              *)
(***************************************************************************)
EXTENDS Executor, SqlGate

CONSTANT Submissions    \* the arguments of run_query calls: limit and sql

\* A text: the trees sqlglot makes of it, the LIMIT of the root, and whether
\* sqlglot gives up while it parses or while it serializes
Text == [trees : Seq(Tree), limit : SqlLimits \cup {NoLimit},
         fault : {"none", "parse", "serialize"}]

ASSUME GatedAssumption == Submissions \subseteq [limit : ToolLimits, sql : Text]

VARIABLE statement      \* the text each call came with

gatedVars == <<vars, statement>>

NoStatement == [trees |-> <<>>, fault |-> "none", limit |-> NoLimit]

GatedInit == Init /\ statement = [c \in Calls |-> NoStatement]

Submit(c) ==
    /\ RunQuery(c)
    /\ \E s \in Submissions : /\ query'[c].limit = s.limit
                              /\ statement' = [statement EXCEPT ![c] = s.sql]

GateRejects(c) ==
    /\ ParserRejects(c)
    /\ draft'[c].reason \in Rejections(statement[c])
    /\ UNCHANGED statement

\* extract_limit reads the LIMIT of the root alone.
GateAccepts(c) ==
    /\ ParserAccepts(c)
    /\ Rejections(statement[c]) = {}
    /\ query'[c].sqlLimit = statement[c].limit
    /\ UNCHANGED statement

\* The steps that do not look at the text
Beyond(c) ==
    /\ \/ MetadataTool(c) \/ MetadataUnresolved(c)
       \/ AliasAbsent(c)  \/ ValidationEscapes(c)
       \/ MetadataOnly(c) \/ PrepareFails(c) \/ HookReturns(c)
       \/ ReadTransaction(c)
       \/ Audit(c)
    /\ UNCHANGED statement

GatedNext ==
    \/ \E c \in Calls : Submit(c) \/ GateRejects(c) \/ GateAccepts(c) \/ Beyond(c)
    \/ AllFinished /\ UNCHANGED statement

GatedSpec == GatedInit /\ [][GatedNext]_gatedVars

-----------------------------------------------------------------------------
(* Properties *)

\* The tree of the statement that runs
Running(c) == statement[c].trees[1]

\* A CTE of the table's name stands around it out of its scope: the table is
\* in the body of that CTE or of an earlier one, or has its schema with it.
OutOfScopeNamesake(tree, t) ==
    /\ \E c \in Nodes(tree, "CTE") : /\ tree[c].name = tree[t].name
                                     /\ tree[c].up \in Ancestors(tree, t)
    /\ \/ tree[t].qualifier # ""
       \/ \E d \in Nodes(tree, "CTE") \cap Ancestors(tree, t) :
              \E c \in Nodes(tree, "CTE") :
                  tree[c].name = tree[t].name /\ tree[c].up = tree[d].up /\ d <= c

\* Every table PostgreSQL reads for a statement that reached it is on the
\* profile's whitelist, whatever CTEs elsewhere in the statement are called,
\* but for a table in the shadow of a namesake CTE that is not in its scope
\* (_resolves_to_cte: "CTE names are lexically scoped").
ReadsDeclaredTables ==
    \A c \in Calls : stage[c] = "execute" =>
        \A t \in Nodes(Running(c), "Table") :
            /\ ReadsTable(Running(c), t)
            /\ ~OutOfScopeNamesake(Running(c), t)
            => Running(c)[t].name \in DeclaredTables

\* No statement is turned away for its tables when every name in it that is
\* not on the whitelist is one of a CTE in its scope, at whatever depth the
\* name is used.
CteReadsPass ==
    \A c \in Calls : stage[c] = "audit" /\ draft[c].reason = "disallowed_table" =>
        \E t \in Nodes(Running(c), "Table") :
            /\ ReadsTable(Running(c), t)
            /\ Running(c)[t].name \notin DeclaredTables

\* The row of a derived table has the columns that its own SELECT lists.
ListsItsColumns(tree, r) == tree[r].class = "Query"

\* _check_no_whole_row_refs collects the names of tables only, so the alias of a
\* join in parentheses is not among them: SELECT j FROM (a JOIN b ON ...) j.
UncollectedAlias(tree, r) == tree[r].class = "Join"

\* No statement that runs returns a row whose columns nothing in it lists, but
\* by the alias of a parenthesised join: there is no `*` outside COUNT in what a
\* SELECT returns, and every bare name there that stands for a row, of the
\* query's own FROM clause or of a query around it, stands for a derived
\* table's or is such an alias.  (A qualified name is taken for a column's.)
NoWholeRow ==
    \A c \in Calls : stage[c] = "execute" /\ BAN_SELECT_STAR =>
        LET tree == Running(c)
        IN  /\ \A i \in Nodes(tree, "Star") :
                   \E n \in Nodes(tree, "Count") \cap Ancestors(tree, i) :
                       Selects(tree) \cap Ancestors(tree, i) \subseteq Ancestors(tree, n)
            /\ \A i \in Nodes(tree, "Column") :
                   tree[i].qualifier = "" /\ InProjection(tree, i)
                   => \A r \in RowsNamed(tree, i) :
                          ListsItsColumns(tree, r) \/ UncollectedAlias(tree, r)

=============================================================================
