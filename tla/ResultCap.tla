----------------------------- MODULE ResultCap -----------------------------
(***************************************************************************)
(* _cap_rows: how much of a result leaves run_query.  A text is known by   *)
(* its length in characters and the UTF-8 width they all have, a row has   *)
(* one cell, and JSON is json.dumps with its default escapes.              *)
(***************************************************************************)
EXTENDS Naturals, Sequences

CONSTANTS
    PER_CELL_BYTE_CAP,
    BYTES_LIMIT         \* MCP_SQL["LIMITS"]["BYTES_LIMIT"]

ASSUME ResultCapAssumption ==
    /\ PER_CELL_BYTE_CAP \in Nat
    /\ BYTES_LIMIT \in Nat

\* A number, a boolean and None are coerced by nothing and never cut.
String(chars, width) == [chars |-> chars, width |-> width, marked |-> FALSE, text |-> TRUE]
Primitive(chars)   == [chars |-> chars, width |-> 1, marked |-> FALSE, text |-> FALSE]

\* The one cell of a row
Cell == [chars : Nat, width : 1..4, marked : BOOLEAN, text : BOOLEAN]

Utf8Bytes(cell) == cell.chars * cell.width

\* ASCII as it is; \uXXXX for the others, and a pair of them beyond the BMP.
JsonWidth == <<1, 6, 6, 12>>

\* TRUNCATION_MARK is an escaped ellipsis and eleven characters.
JsonBytes(cell) ==
    cell.chars * JsonWidth[cell.width] + (IF cell.text THEN 2 ELSE 0)
                                       + (IF cell.marked THEN 17 ELSE 0)

\* The brackets of the row are counted; the commas between rows are not.
RowBytes(cell) == 2 + JsonBytes(cell)

\* The size is asked in bytes; the cut is made in characters.
CapCell(cell) ==
    IF cell.text /\ Utf8Bytes(cell) > PER_CELL_BYTE_CAP
    THEN [cell EXCEPT !.chars = IF @ > PER_CELL_BYTE_CAP THEN PER_CELL_BYTE_CAP ELSE @,
                      !.marked = TRUE]
    ELSE cell

Nothing == [out |-> <<>>, total |-> 0, truncated |-> FALSE]

\* Mutant: the limit is asked about the rows before this one.
CapRowsLate(rows) ==
    LET cap[i \in 0..Len(rows)] ==
            IF i = 0 THEN Nothing
            ELSE LET sofar == cap[i - 1]
                     cell  == CapCell(rows[i])
                 IN  IF sofar.truncated \/ (sofar.out # <<>> /\ sofar.total > BYTES_LIMIT)
                     THEN [sofar EXCEPT !.truncated = TRUE]
                     ELSE [sofar EXCEPT !.out = Append(@, cell), !.total = @ + RowBytes(cell)]
    IN  cap[Len(rows)]

\* The loop: the first row is kept whatever its size, and the first one after
\* it that does not fit ends the answer.
CapRows(rows) ==
    LET cap[i \in 0..Len(rows)] ==
            IF i = 0 THEN Nothing
            ELSE LET sofar == cap[i - 1]
                     cell  == CapCell(rows[i])
                 IN  IF \/ sofar.truncated
                        \/ sofar.out # <<>> /\ sofar.total + RowBytes(cell) > BYTES_LIMIT
                     THEN [sofar EXCEPT !.truncated = TRUE]
                     ELSE [sofar EXCEPT !.out = Append(@, cell), !.total = @ + RowBytes(cell)]
    IN  cap[Len(rows)]
=============================================================================
