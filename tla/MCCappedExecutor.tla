------------------------- MODULE MCCappedExecutor -------------------------
(* One call with every text of five families, for TLC; on one of the texts   *)
(* rows of every size, and the limits that tell them apart.                  *)
EXTENDS CappedExecutor

CONSTANT LimitExpr   \* a LIMIT that is not an integer literal

Node(class, part, name, qualifier, alias) ==
    [class |-> class, up |-> 0, part |-> part, name |-> name,
     qualifier |-> qualifier, alias |-> alias]

Root == Node("Query", "root", "", "", "")

\* The trees with one node more, as a child of the last parent or a later one
Grown(trees, Kids(_)) ==
    {Append(pick[1], [pick[3] EXCEPT !.up = pick[2]]) : pick \in
        UNION {{<<tree, i, kid>> : kid \in Kids(tree[i].class)} :
               <<tree, i>> \in {<<tree, i>> \in trees \X (1..5) :
                                    i \in tree[Len(tree)].up..Len(tree) /\ i > 0}}}

\* Scopes: tables a (declared) and b (not), by themselves, with a schema, as
\* CTEs, in subqueries
ScopeKids(class) ==
    IF class \in {"Query", "CTE"}
    THEN {Node("Table", "from", "a", "", ""), Node("Table", "from", "b", "", ""),
          Node("Table", "from", "b", "public", ""), Node("Query", "from", "", "", ""),
          Node("CTE", "with", "a", "", ""), Node("CTE", "with", "b", "", "")}
    ELSE {}

\* What a SELECT returns
RowKids(class) ==
    IF class = "Query"
    THEN {Node("Table", "from", "a", "", ""), Node("Table", "from", "a", "", "t"),
          Node("Column", "projection", "id", "", ""), Node("Column", "projection", "t", "", ""),
          Node("Column", "projection", "id", "t", ""), Node("Column", "where", "t", "", ""),
          Node("Star", "projection", "", "", ""), Node("Count", "projection", "", "", ""),
          Node("Func", "projection", "plain", "", ""),
          Node("Query", "projection", "", "", ""), Node("Query", "where", "", "", ""),
          Node("Query", "from", "", "", "t"), Node("Join", "from", "", "", "t")}
    ELSE IF class = "Join"
    THEN {Node("Table", "from", "a", "", ""), Node("Table", "from", "a", "", "t")}
    ELSE IF class \in {"Count", "Func"}
    THEN {Node("Star", "argument", "", "", ""), Node("Column", "argument", "t", "", ""),
          Node("Func", "argument", "plain", "", "")}
    ELSE {}

\* What a statement may not hold at all
OtherKids(class) ==
    IF class \in {"Query", "CTE"}
    THEN {Node(other, "other", "", "", "") :
             other \in {"Into", "Offset", "Fetch", "Lock", "Recursive"}}
         \cup {Node("CTE", "with", "a", "", ""), Node("CTE", "write", "a", "", ""),
               Node("Table", "from", "", "", ""), Node("Table", "from", "pg_class", "", ""),
               Node("Table", "from", "a", "system", ""), Node("Table", "from", "b", "", ""),
               Node("Star", "projection", "", "", ""),
               Node("Column", "where", "current_user", "", ""),
               Node("Func", "where", "denied", "", ""),
               Node("Func", "projection", "set_returning", "", "")}
    ELSE {}

Trees2(Kids(_)) == Grown({<<Root>>}, Kids)
Trees3(Kids(_)) == Grown(Trees2(Kids), Kids)
Trees4(Kids(_)) == Grown(Trees3(Kids), Kids)
Trees5(Kids(_)) == Grown(Trees4(Kids), Kids)

Trees == {<<Root>>} \cup Trees4(ScopeKids) \cup Trees5(ScopeKids)
           \cup Trees3(RowKids) \cup Trees4(RowKids) \cup Trees3(OtherKids)

Sql(trees, fault, limit) == [trees |-> trees, fault |-> fault, limit |-> limit]

\* Limits below, at and above DEFAULT_LIMIT and HARD_LIMIT, zero, a negative one
ManyToolLimits == {NoLimit, -1, 0, 1, 2, 3, 4}
ManySqlLimits  == {LimitExpr, 0, 1, 2, 3, 4}

OneTable == <<Root, [Node("Table", "from", "a", "", "") EXCEPT !.up = 1]>>

ManySubmissions ==
    {[limit |-> NoLimit, sql |-> Sql(<<tree>>, "none", NoLimit)] : tree \in Trees}
    \cup {[limit |-> m, sql |-> Sql(<<OneTable>>, "none", n)] :
             m \in ManyToolLimits, n \in ManySqlLimits \cup {NoLimit}}
    \cup {[limit |-> NoLimit, sql |-> Sql(trees, fault, NoLimit)] :
             fault \in {"none", "parse", "serialize"},
             trees \in {<<>>, <<<<Root>>>>, <<<<Root>>, <<Root>>>>,
                        <<<<Node("Write", "root", "", "", "")>>>>}}

\* Rows that fit easily, that are cut, that are cut though they are short, and
\* one that is too large by itself
Cells == {String(1, 1), String(4, 1), String(2, 2), String(4, 4), Primitive(5)}

\* The rows beyond the HARD_LIMIT are only counted.
ManyRows(text) ==
    IF text.trees = <<OneTable>>
    THEN UNION {{[i \in 1..n |-> IF i > Len(seen) THEN String(1, 1) ELSE seen[i]] :
                    seen \in [1..(IF n < 3 THEN n ELSE 3) -> Cells]} : n \in 0..MaxRows}
    ELSE {<<>>, <<String(1, 1)>>}

ParserReasons == {"parse_error", "multi_statement", "non_select_root", "writeable_cte",
                  "select_into", "disallowed_construct", "disallowed_function",
                  "disallowed_table", "system_schema", "select_star"}
=============================================================================
