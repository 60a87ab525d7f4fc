----------------------------- MODULE KeyedTable -----------------------------
(***************************************************************************)
(* What SQL promises of one table with an INTEGER PRIMARY KEY and a UNIQUE *)
(* column: the table is a function from primary keys to rows, and a        *)
(* statement maps it to another such function or is rejected.  This is the *)
(* reference that Table is compared with, the counterpart of the in-memory *)
(* model that the property tests of src/src/btree.rs keep beside the tree. *)
(*                                                                         *)
(* A row is [val, added]: the UNIQUE column and the number of columns that *)
(* ADD COLUMN has appended (all NULL).                                     *)
(***************************************************************************)
EXTENDS Integers, Sequences, FiniteSets

CONSTANTS
    Keys,       \* primary keys
    Values,     \* non-NULL values of the UNIQUE column
    Null        \* SQL NULL

Row == [val : Values \cup {Null}, added : Nat]

(* A WHERE clause is a sequence of conditions [col, op, arg] that must all *)
(* hold.  A condition on NULL, or with NULL, never holds.                  *)
Holds(op, a, b) ==
    op \in (IF a = b THEN {"=", "<=", ">="} ELSE IF a < b THEN {"<>", "<", "<="}
           ELSE {"<>", ">", ">="})

Field(k, r, col) == IF col = "key" THEN k ELSE r.val

Matches(w, k, r) ==
    \A i \in DOMAIN w :
        LET v == Field(k, r, w[i].col)
        IN  v # Null /\ w[i].arg # Null /\ Holds(w[i].op, v, w[i].arg)

Matching(rows, w) == {k \in DOMAIN rows : Matches(w, k, rows[k])}

\* UNIQUE: no two rows share a non-NULL value.
Unique(rows) ==
    \A j, k \in DOMAIN rows : rows[j].val = rows[k].val /\ rows[j].val # Null => j = k

NoRows == [k \in {} |-> Null]

WithRow(rows, k, r) ==
    [j \in DOMAIN rows \cup {k} |-> IF j = k THEN r ELSE rows[j]]

(* INSERT (k, v) into a table with `added` extra columns.                  *)
Inserted(rows, k, v, added) == WithRow(rows, k, [val |-> v, added |-> added])
InsertLegal(rows, k, v, added) ==
    k \notin DOMAIN rows /\ Unique(Inserted(rows, k, v, added))

(* DELETE WHERE w.                                                         *)
Deleted(rows, w) == [k \in DOMAIN rows \ Matching(rows, w) |-> rows[k]]

(* UPDATE SET val = v WHERE w.                                             *)
Updated(rows, w, v) ==
    [k \in DOMAIN rows |->
       IF k \in Matching(rows, w) THEN [rows[k] EXCEPT !.val = v] ELSE rows[k]]
UpdateLegal(rows, w, v) == Matching(rows, w) = {} \/ Unique(Updated(rows, w, v))

(* UPDATE SET pk = new WHERE w, for a clause that matches one row.         *)
Rekeyed(rows, w, new) ==
    LET old == CHOOSE k \in Matching(rows, w) : TRUE
    IN  WithRow(Deleted(rows, w), new, rows[old])
RekeyLegal(rows, w, new) == new \notin DOMAIN rows \ Matching(rows, w)

(* SELECT * WHERE w ORDER BY o.col LIMIT n: the answer holds the n first   *)
(* matching rows, or all when there are fewer.  NULL is the last value; the *)
(* primary key decides between equals; DESC reverses the whole order.       *)
Ascending(col, a, b) ==
    LET x == Field(a[1], a[2], col)
        y == Field(b[1], b[2], col)
    IN  IF x = y THEN a[1] < b[1]
        ELSE y = Null \/ (x # Null /\ x < y)
Before(o, a, b) == IF o.asc THEN Ascending(o.col, a, b) ELSE Ascending(o.col, b, a)

IsAnswer(rows, w, o, n, s) ==
    LET all == {<<k, rows[k]>> : k \in Matching(rows, w)}
        got == {s[i] : i \in DOMAIN s}
    IN  /\ got \subseteq all /\ Cardinality(got) = Len(s)
        /\ Len(s) = n \/ (Len(s) < n /\ got = all)
        /\ \A i \in DOMAIN s : \A e \in all \ {s[j] : j \in 1..i} : Before(o, s[i], e)

(* ALTER TABLE ADD COLUMN, DROP COLUMN.                                    *)
Resized(rows, n) == [k \in DOMAIN rows |-> [rows[k] EXCEPT !.added = n]]
=============================================================================
