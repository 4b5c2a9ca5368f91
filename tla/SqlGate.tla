------------------------------ MODULE SqlGate ------------------------------
(***************************************************************************)
(* parser.parse_and_validate: which statements pass, and the reason that   *)
(* is given to the others.                                                 *)
(*                                                                         *)
(* A tree stands for sqlglot's: a sequence of nodes, the root first, each  *)
(* naming its parent.  Of sqlglot's classes it keeps what the checks ask   *)
(* for.  A CTE is one node with the query that is its body, and hangs from *)
(* the query its WITH decorates; a Query is a SELECT, or a set operation   *)
(* with its arms below it.  A Join is one in parentheses that has an alias *)
(* of its own, with its tables below it; a Query in a FROM clause is a     *)
(* derived table.  Names are in lower case, as the checks compare them.    *)
(***************************************************************************)
EXTENDS Naturals, Sequences

CONSTANTS
    DeclaredTables,    \* declared_tables(profile): the whitelist
    SystemNames,       \* names in the pg_* namespace
    BareKeywords,      \* DENIED_BARE_KEYWORDS
    BAN_SELECT_STAR    \* MCP_SQL["BAN_SELECT_STAR"]

Classes == {"Query", "CTE", "Write", "Table", "Join", "Column", "Star", "Count", "Func",
            "Into", "Offset", "Fetch", "Lock", "Recursive"}

\* up: the parent, 0 for the root; part: the argument of the parent it is in;
\* qualifier: the schema of a table, the table of a column
TreeNode == [class : Classes, up : Nat, part : STRING, name : STRING,
             qualifier : STRING, alias : STRING]

\* The root has no parent, and every other node comes after its own.
Tree ==
    {tree \in Seq(TreeNode) :
        \A i \in DOMAIN tree : tree[i].up \in (IF i = 1 THEN {0} ELSE 1..(i - 1))}

Nodes(tree, class) == {i \in DOMAIN tree : tree[i].class = class}

\* Node.parent, its parent, and so on up to the root
Ancestors(tree, i) ==
    LET above[j \in 0..Len(tree)] ==
            IF j = 0 \/ tree[j].up = 0 THEN {} ELSE {tree[j].up} \cup above[tree[j].up]
    IN  above[i]

AliasOrName(node) == IF node.alias # "" THEN node.alias ELSE node.name

-----------------------------------------------------------------------------
(* The checks, each as the reasons it may raise: none if it passes.  Where a *)
(* check raises at the first offending node, any of them may be the first.   *)

Raise(reason, fails) == IF fails THEN {reason} ELSE {}

CheckCtesReadOnly(tree) ==
    Raise("writeable_cte", \E i \in Nodes(tree, "CTE") : tree[i].part = "write")

CheckNoSelectInto(tree) == Raise("select_into", Nodes(tree, "Into") # {})

\* WITH RECURSIVE, OFFSET, FETCH and locking reads
CheckNo(tree, class) == Raise("disallowed_construct", Nodes(tree, class) # {})

\* Mutant: a CTE anywhere in the statement lends its name everywhere.
ResolvesAnywhere(tree, t) ==
    \E c \in Nodes(tree, "CTE") : tree[c].name = tree[t].name

\* Mutant: only the query a table stands in is asked for CTEs.
ResolvesHere(tree, t) ==
    \E c \in Nodes(tree, "CTE") : tree[c].up = tree[t].up /\ tree[c].name = tree[t].name

\* _resolves_to_cte: a query around the table has a CTE of its name.
ResolvesToCte(tree, t) ==
    \E c \in Nodes(tree, "CTE") :
        tree[c].up \in Ancestors(tree, t) /\ tree[c].name = tree[t].name

\* In this order: a table function, a system schema, a pg_* name, a CTE, and
\* the whitelist, which is asked for the name alone.
TableRaises(tree, t) ==
    LET name == tree[t].name
        schema == tree[t].qualifier
    IN  IF name = "" THEN {"disallowed_construct"}
        ELSE IF schema = "system" \/ (schema = "" /\ name \in SystemNames)
             THEN {"system_schema"}
        ELSE Raise("disallowed_table", ~ResolvesToCte(tree, t) /\ name \notin DeclaredTables)

CheckTables(tree) == UNION {TableRaises(tree, t) : t \in Nodes(tree, "Table")}

\* The name of a function here is the list it is on.
CheckNoDeniedFunctions(tree) ==
    LET lists == {tree[i].name : i \in Nodes(tree, "Func")}
    IN  Raise("disallowed_construct", "set_returning" \in lists)
          \cup Raise("disallowed_function", "denied" \in lists)

CheckNoBareKeywordColumns(tree) ==
    Raise("disallowed_function",
          \E i \in Nodes(tree, "Column") :
              tree[i].qualifier = "" /\ tree[i].name \in BareKeywords)

Selects(tree) == Nodes(tree, "Query") \cup Nodes(tree, "CTE")

\* Up from the star, a SELECT is met before any COUNT.
CheckNoSelectStar(tree) ==
    Raise("select_star",
          \E s \in Nodes(tree, "Star") :
              LET above == Ancestors(tree, s)
              IN  \E q \in above \cap Selects(tree) :
                      \A n \in above \cap Nodes(tree, "Count") : n < q)

TableAliases(tree) == {AliasOrName(tree[t]) : t \in Nodes(tree, "Table")} \ {""}

InProjection(tree, i) ==
    \E j \in Ancestors(tree, i) \cup {i} : tree[j].part = "projection"

\* Mutant: a name is looked up in the FROM clause next to it only.
WholeRowRefsHere(tree) ==
    Raise("select_star",
          \E i \in Nodes(tree, "Column") :
              /\ tree[i].qualifier = ""
              /\ InProjection(tree, i)
              /\ \E t \in Nodes(tree, "Table") :
                     tree[t].up = tree[i].up /\ AliasOrName(tree[t]) = tree[i].name)

\* The name of a table anywhere in the statement is one of a row.
CheckNoWholeRowRefs(tree) ==
    Raise("select_star",
          \E i \in Nodes(tree, "Column") :
              /\ tree[i].qualifier = ""
              /\ tree[i].name \in TableAliases(tree)
              /\ InProjection(tree, i))

FirstRaised(checks) ==
    LET raised == {k \in DOMAIN checks : checks[k] # {}}
    IN  IF raised = {} THEN {} ELSE checks[CHOOSE k \in raised : \A l \in raised : k <= l]

TreeRaises(tree) ==
    FirstRaised(<<CheckCtesReadOnly(tree), CheckNo(tree, "Recursive"),
                  CheckNoSelectInto(tree), CheckNo(tree, "Offset"), CheckNo(tree, "Fetch"),
                  CheckNo(tree, "Lock"), CheckTables(tree), CheckNoDeniedFunctions(tree),
                  CheckNoBareKeywordColumns(tree),
                  IF BAN_SELECT_STAR THEN CheckNoSelectStar(tree) ELSE {},
                  IF BAN_SELECT_STAR THEN CheckNoWholeRowRefs(tree) ELSE {}>>)

\* parse_and_validate of a text: the statements in it, the root LIMIT, and
\* whether the parser or the generator gives up on it
Rejections(sql) ==
    IF sql.fault = "parse" \/ sql.trees = <<>> THEN {"parse_error"}
    ELSE IF Len(sql.trees) > 1 THEN {"multi_statement"}
    ELSE IF sql.trees[1][1].class # "Query" THEN {"non_select_root"}
    ELSE FirstRaised(<<TreeRaises(sql.trees[1]),
                       Raise("parse_error", sql.fault = "serialize")>>)

-----------------------------------------------------------------------------
(* What PostgreSQL makes of a statement *)

\* A CTE without RECURSIVE is in scope for the later CTEs of its WITH and for
\* the query that the WITH decorates, and hides no qualified name.
InScope(tree, c, t) ==
    LET above == Ancestors(tree, t)
    IN  /\ tree[t].qualifier = ""
        /\ tree[c].name = tree[t].name
        /\ tree[c].up \in above
        /\ \A d \in above \cap Nodes(tree, "CTE") : tree[d].up = tree[c].up => c < d

ReadsTable(tree, t) == ~\E c \in Nodes(tree, "CTE") : InScope(tree, c, t)

\* What a FROM clause takes rows from
FromItems(tree) ==
    Nodes(tree, "Table") \cup Nodes(tree, "Join")
      \cup {q \in Nodes(tree, "Query") : tree[q].part = "from"}

\* The items whose rows an expression may name: those of the FROM clauses of its
\* own query and of the queries around it, as far as the body of a CTE that it
\* is in; a derived table counts as LATERAL.  An item that the expression stands
\* in is not one of them, nor is a table that a parenthesised join hides.
RowsInScope(tree, i) ==
    LET above == Ancestors(tree, i)
    IN  {r \in FromItems(tree) \ above :
            /\ tree[r].up \in above
            /\ \A d \in above \cap Nodes(tree, "CTE") : d <= tree[r].up}

\* The items whose whole row an unqualified name stands for
RowsNamed(tree, i) == {r \in RowsInScope(tree, i) : AliasOrName(tree[r]) = tree[i].name}
=============================================================================
