------------------------------- MODULE Table -------------------------------
(***************************************************************************)
(* The statements that change one table, as the executor runs them         *)
(* (src/src/executor.rs) on the table's B-tree (module BTree).  A          *)
(* statement holds the tree's write lock from its first read to its last   *)
(* write and is undone as a whole when it fails, so it is one step here;   *)
(* Database has the locking and the undoing.                               *)
(*                                                                         *)
(* `model` is the table the same statements make of an ordinary function   *)
(* (module KeyedTable), and `agreed` whether the last statement was        *)
(* accepted by both or rejected by both.                                   *)
(*                                                                         *)
(* The table has a primary key, one UNIQUE column and up to MaxAdded       *)
(* columns from ALTER TABLE ADD COLUMN.  The row of an entry leaves out    *)
(* the key, which the code stores a second time inside the row.            *)
(***************************************************************************)
EXTENDS BTree

CONSTANTS
    Values,     \* non-NULL values of the UNIQUE column
    Null,       \* Value::Null
    Wheres,     \* WHERE clauses: sequences of conditions [col, op, arg]
    Limits,     \* LIMIT clauses
    MaxAdded,   \* bound: columns added by ALTER TABLE
    SplitsSeen  \* TRUE: only behaviours in which insert learns of every
                \* split of the root page

VARIABLES
    tree,       \* the table's BTree
    added,      \* columns in the schema beyond the first two
    model,      \* history: the reference table
    agreed      \* history: the reference took the last statement the same way

vars == <<tree, added, model, agreed>>

K == INSTANCE KeyedTable

Init ==
    /\ tree \in {NewTree(d) : d \in Dimensions} /\ added = 0
    /\ model = K!NoRows /\ agreed = TRUE

\* Runs f on every entry of es in turn; `?` ends the statement at the first
\* error.
ForEach(t, es, f(_, _)) ==
    FoldLeft(LAMBDA u, e : IF u.res = "ok" THEN f(u, e) ELSE u, t, es)

\* Operator::evaluate on integers (texts are named by integers, in order); NULL
\* on either side compares as false.
evaluate(op, a, b) ==
    /\ Null \notin {a, b}
    /\ CASE op = "=" -> a = b
         [] op = "<>" -> a # b
         [] op = ">" -> a > b
         [] op = "<" -> a < b
         [] op = ">=" -> a >= b
         [] op = "<=" -> a <= b

evaluate_where_clause(w, e) ==
    \A i \in DOMAIN w :
        evaluate(w[i].op, IF w[i].col = "key" THEN e[1] ELSE e[2].val, w[i].arg)

\* The rows a statement may touch: one lookup for the first `pk = <integer>`
\* of the clause, else a scan.
candidate_rows(t, w) ==
    LET i == SelectInSeq(w, LAMBDA c : c.col = "key" /\ c.op = "=" /\ c.arg # Null)
    IN  IF i = 0 THEN scan(t) ELSE search(t, w[i].arg)

RowsOf(t, w) == SelectSeq(candidate_rows(t, w), LAMBDA e : evaluate_where_clause(w, e))

check_insert_unique(t, r) ==
    r.val # Null => \A e \in ToSet(scan(t)) : e[2].val # r.val


\* check_unique sorts the values and compares neighbours.
check_unique(es) ==
    \A i, j \in DOMAIN es : i # j /\ es[i][2].val # Null => es[i][2].val # es[j][2].val

Replace(t, old, new, r) ==
    LET u == delete(t, old) IN IF u.res = "ok" THEN insert(u, new, r) ELSE u

-----------------------------------------------------------------------------
execute_insert(t, k, v) ==
    LET r == [val |-> v, added |-> added]
    IN  IF search(t, k) # <<>> \/ ~check_insert_unique(t, r) THEN Fail(t, "err")
        ELSE insert(t, k, r)

\* Every new row is computed before the first is written.
update_val(t, w, v) ==
    LET es  == RowsOf(t, w)
        new == [i \in DOMAIN es |-> <<es[i][1], [es[i][2] EXCEPT !.val = v]>>]
        untouched == SelectSeq(scan(t), LAMBDA e : e[1] \notin ToSet(EntryKeys(es)))
    IN  IF es # <<>> /\ ~check_unique(untouched \o new) THEN Fail(t, "err")
        ELSE ForEach(t, new, LAMBDA u, e : Replace(u, e[1], e[1], e[2]))

update_key(t, w, k) ==
    LET es == RowsOf(t, w)
    IN  IF (\E i \in DOMAIN es : es[i][1] # k) /\ search(t, k) # <<>> THEN Fail(t, "err")
        ELSE ForEach(t, es, LAMBDA u, e : Replace(u, e[1], k, e[2]))

execute_delete(t, w) == ForEach(t, RowsOf(t, w), LAMBDA u, e : delete(u, e[1]))

\* ADD COLUMN and DROP COLUMN rewrite every row in key order.
rewrite_rows(t, n) ==
    ForEach(t, scan(t), LAMBDA u, e : Replace(u, e[1], e[1], [e[2] EXCEPT !.added = n]))

\* NULL after everything else.
compare_values(a, b) ==
    CASE a = b -> 0
      [] a # b /\ a = Null -> 1
      [] a # b /\ b = Null -> -1
      [] a # b /\ Null \notin {a, b} -> IF a < b THEN -1 ELSE 1

\* The closure `cmp`: value, then key; DESC reverses both.
Cmp(o, a, b) ==
    LET primary == IF o.col = "key" THEN compare_values(a[1], b[1])
                   ELSE compare_values(a[2].val, b[2].val)
        combined == IF primary # 0 THEN primary ELSE compare_values(a[1], b[1])
    IN  IF o.asc THEN combined ELSE -combined

\* Mutant: the limit is applied to the rows as they are found.
execute_selectLimitFirst(t, w, order, limit) ==
    LET rows == RowsOf(t, w)
        cut  == IF limit = <<>> THEN rows ELSE SubSeq(rows, 1, Min({limit[1], Len(rows)}))
    IN  IF order = <<>> THEN cut ELSE SortSeq(cut, LAMBDA a, b : Cmp(order[1], a, b) < 0)

\* SELECT * with WHERE, ORDER BY and LIMIT; <<>> stands for a clause that is
\* not there.
execute_select(t, w, order, limit) ==
    LET rows   == RowsOf(t, w)
        sorted == IF order = <<>> THEN rows
                  ELSE SortSeq(rows, LAMBDA a, b : Cmp(order[1], a, b) < 0)
    IN  IF limit = <<>> THEN sorted ELSE SubSeq(sorted, 1, Min({limit[1], Len(sorted)}))

-----------------------------------------------------------------------------
\* The end of a statement: a failed one is undone by the caller, tree and
\* root included.
Finish(u, n, legal, result) ==
    /\ SplitsSeen => ~u.unseen
    /\ agreed' = (legal = (u.res = "ok"))
    /\ IF u.res = "ok"
       THEN tree' = u /\ added' = n /\ model' = result
       ELSE UNCHANGED <<tree, added, model>>

Insert(k, v) ==
    Finish(execute_insert(tree, k, v), added,
           K!InsertLegal(model, k, v, added), K!Inserted(model, k, v, added))

UpdateVal(w, v) ==
    Finish(update_val(tree, w, v), added,
           K!UpdateLegal(model, w, v), K!Updated(model, w, v))

\* Inputs: an UPDATE of the primary key that matches one row.
UpdateKey(w, k) ==
    /\ Len(RowsOf(tree, w)) = 1
    /\ Finish(update_key(tree, w, k), added,
              K!RekeyLegal(model, w, k), K!Rekeyed(model, w, k))

Delete(w) == Finish(execute_delete(tree, w), added, TRUE, K!Deleted(model, w))

AddColumn ==
    /\ added < MaxAdded
    /\ Finish(rewrite_rows(tree, added + 1), added + 1, TRUE, K!Resized(model, added + 1))

DropColumn ==
    /\ added > 0
    /\ Finish(rewrite_rows(tree, added - 1), added - 1, TRUE, K!Resized(model, added - 1))

Next ==
    \/ \E k \in Keys, v \in Values \cup {Null} : Insert(k, v)
    \/ \E w \in Wheres, v \in Values \cup {Null} : UpdateVal(w, v)
    \/ \E w \in Wheres, k \in Keys : UpdateKey(w, k)
    \/ \E w \in Wheres : Delete(w)
    \/ AddColumn
    \/ DropColumn

Spec == Init /\ [][Next]_vars

-----------------------------------------------------------------------------
(* Properties.                                                             *)

RECURSIVE Subtree(_, _)
Subtree(t, p) ==
    {p} \cup IF t.page[p].leaf THEN {}
             ELSE UNION {Subtree(t, c) : c \in ToSet(t.page[p].children)}

RECURSIVE Height(_, _)
Height(t, p) ==
    IF t.page[p].leaf THEN {0}
    ELSE {h + 1 : h \in UNION {Height(t, c) : c \in ToSet(t.page[p].children)}}

\* The variables hold a tree of pages, a column count and a table of rows.
TypeOK ==
    /\ tree.root \in DOMAIN tree.page /\ tree.newRoot = 0 /\ tree.res = "ok"
    /\ \A p \in Subtree(tree, tree.root) :
         LET n == tree.page[p]
         IN  /\ n.parent \in 0..Len(tree.page)
             /\ IF n.leaf THEN ToSet(n.entries) \subseteq Keys \X K!Row
                ELSE /\ ToSet(n.keys) \subseteq Keys
                     /\ Len(n.children) = Len(n.keys) + 1
    /\ added \in 0..MaxAdded
    /\ DOMAIN model \subseteq Keys /\ \A k \in DOMAIN model : model[k] \in K!Row

\* A full scan returns exactly the rows of the reference table, once each
\* and in key order, whatever splits, merges and collapses of the root the
\* statements before it caused.
ScanMatchesModel ==
    LET es == scan(tree)
    IN  /\ ToSet(es) = {<<k, model[k]>> : k \in DOMAIN model}
        /\ \A i \in 1..Len(es) - 1 : es[i][1] < es[i + 1][1]

\* The descent by separator keys finds a row if and only if a scan does: no
\* redistribution or merge leaves a separator on the wrong side of a key.
LookupMatchesScan ==
    \A k \in Keys :
        search(tree, k) = IF k \in DOMAIN model THEN <<<<k, model[k]>>>> ELSE <<>>

\* A query answers what SQL asks of the reference table: the rows that match,
\* in the order asked for, cut at the limit, whether they are found by a
\* lookup or by a scan.  Without ORDER BY they come in key order.
SelectMatchesModel ==
    \A w \in Wheres :
        /\ K!IsAnswer(model, w, [col |-> "key", asc |-> TRUE], Cardinality(Keys),
                      execute_select(tree, w, <<>>, <<>>))
        /\ \A o \in [col : {"key", "val"}, asc : BOOLEAN], n \in Limits :
               K!IsAnswer(model, w, o, n, execute_select(tree, w, <<o>>, <<n>>))

\* Every node below the root points at the node it hangs from (the next
\* split of it inserts there), all leaves are at one depth, and every node
\* below the root keeps its fill: a leaf is not empty and fits its page, an
\* internal node has MIN_KEYS to BTREE_ORDER keys.
ShapeKept ==
    /\ \A p \in Subtree(tree, tree.root) :
         LET n == tree.page[p]
         IN  IF n.leaf
             THEN Fits(tree, n.entries) /\ (p # tree.root => n.entries # <<>>)
             ELSE /\ \A c \in ToSet(n.children) : tree.page[c].parent = p
                  /\ Len(n.keys) <= BTREE_ORDER(tree)
                  /\ p # tree.root => Len(n.keys) >= MIN_KEYS(tree)
    /\ Cardinality(Height(tree, tree.root)) = 1


-----------------------------------------------------------------------------
\* What tells two trees apart: their nodes by position instead of by page
\* id, and whether each parent pointer is right.
RECURSIVE Form(_, _, _)
Form(t, p, up) ==
    LET n == t.page[p]
    IN  IF n.leaf THEN <<n.parent = up, n.entries>>
        ELSE <<n.parent = up, n.keys,
               [i \in DOMAIN n.children |-> Form(t, n.children[i], p)]>>
TreeForm == <<tree.dim, Form(tree, tree.root, 0), added, model, agreed>>
=============================================================================
