------------------------------- MODULE BTree -------------------------------
(***************************************************************************)
(* The B+tree that holds the rows of one table (src/src/btree.rs), as      *)
(* operators from a tree to a tree.  BTree's methods keep the table's      *)
(* lock for the whole call, so a method is one step of its caller; what    *)
(* happens inside, split by split and merge by merge, is the recursion     *)
(* below.  A tree is a record:                                             *)
(*                                                                         *)
(*   dim      the dimensions of the build: order and bytes (below)         *)
(*   page     the pages allocated so far, by page id (pages are never      *)
(*            freed; id 0 is the null parent)                              *)
(*   root     BTree.root_page                                              *)
(*   newRoot  the Option<PageId> that travels back up from                 *)
(*            create_new_root to insert; 0 is None                         *)
(*   res      "ok", "err" (the method returns Err) or "panic"              *)
(*   unseen   history: the root page was split and insert was not told     *)
(*            which page is the new root                                   *)
(*                                                                         *)
(* A leaf holds entries <<key, row>> and is bounded by bytes (PAGE_SIZE    *)
(* less the node header, with SizeOf the serialized size of a row); an     *)
(* internal node holds n keys and n+1 children and is bounded by           *)
(* BTREE_ORDER.  The arithmetic on byte offsets is left out.               *)
(***************************************************************************)
EXTENDS Integers, Sequences, SequencesExt, FiniteSetsExt

CONSTANTS
    Keys,           \* primary keys (i64)
    SizeOf(_),      \* the bytes an entry with this row takes: 12 + data.len()
    Dimensions      \* <<BTREE_ORDER, bytes of a leaf>>; a tree has one of them

ASSUME BTreeConstants ==
    /\ Keys \subseteq Int
    /\ Dimensions \subseteq (Nat \ {0, 1}) \X (Nat \ {0})

BTREE_ORDER(t) == t.dim[1]
MIN_KEYS(t) == BTREE_ORDER(t) \div 2

LeafNode(up, es) == [leaf |-> TRUE, parent |-> up, entries |-> es]
InternalNode(up, ks, cs) ==
    [leaf |-> FALSE, parent |-> up, keys |-> ks, children |-> cs]

\* BTree::new
NewTree(d) ==
    [dim |-> d, page |-> <<LeafNode(0, <<>>)>>, root |-> 1, newRoot |-> 0,
     res |-> "ok", unseen |-> FALSE]

Fail(t, how) == [t EXCEPT !.res = how]

EntryKeys(es) == [i \in DOMAIN es |-> es[i][1]]

\* Where the linear searches of the code stop: at the first key above k,
\* respectively at the first key that is not below k.
FirstAbove(ks, k) == Min({i \in DOMAIN ks : k < ks[i]} \cup {Len(ks) + 1})
FirstNotBelow(ks, k) == Min({i \in DOMAIN ks : k <= ks[i]} \cup {Len(ks) + 1})

find_data_end(es) == FoldLeft(LAMBDA n, e : n + SizeOf(e[2]), 0, es)
Fits(t, es) == find_data_end(es) <= t.dim[2]

-----------------------------------------------------------------------------
(* Descending and reading.                                                 *)

RECURSIVE find_leaf(_, _, _)
find_leaf(t, p, k) ==
    LET n == t.page[p]
    IN  IF n.leaf THEN p ELSE find_leaf(t, n.children[FirstAbove(n.keys, k)], k)

RECURSIVE scan_node(_, _)
scan_node(t, p) ==
    LET n == t.page[p]
    IN  IF n.leaf THEN n.entries
        ELSE FlattenSeq([i \in DOMAIN n.children |-> scan_node(t, n.children[i])])

scan(t) == scan_node(t, t.root)

\* The entries search finds: none, or the first one with the key.
search(t, k) ==
    LET es == t.page[find_leaf(t, t.root, k)].entries
        i  == SelectInSeq(es, LAMBDA e : e[1] = k)
    IN  IF i = 0 THEN <<>> ELSE <<es[i]>>

-----------------------------------------------------------------------------
(* Inserting.                                                              *)

set_parent_pointer(t, p, up) == [t EXCEPT !.page[p].parent = up]
SetParents(t, ps, up) ==
    FoldLeft(LAMBDA u, p : set_parent_pointer(u, p, up), t, ps)

create_new_root(t, left, right, key) ==
    LET top == Len(t.page) + 1
        u   == [t EXCEPT !.page = Append(@, InternalNode(0, <<key>>, <<left, right>>)),
                         !.newRoot = top]
    IN  SetParents(u, <<left, right>>, top)

\* Mutant: the middle key stays in the left node as well.
SplitNodeKeepsMiddle(t, p, ks, cs) ==
    LET mid == Len(ks) \div 2 + 1
        right == SubSeq(cs, mid + 1, Len(cs))
        u == [t EXCEPT !.page[p].keys = SubSeq(ks, 1, mid),
                       !.page[p].children = SubSeq(cs, 1, mid)]
        v == [u EXCEPT
               !.page = Append(@, InternalNode(0, SubSeq(ks, mid + 1, Len(ks)), right))]
    IN  SetParents(v, right, Len(v.page))

\* Splits node p, whose keys and children are given with the new ones
\* already inserted; the middle key moves up.
SplitNode(t, p, ks, cs) ==
    LET mid == Len(ks) \div 2 + 1
        sib == Len(t.page) + 1
        right == SubSeq(cs, mid + 1, Len(cs))
        u == [t EXCEPT
               !.page[p].keys = SubSeq(ks, 1, mid - 1),
               !.page[p].children = SubSeq(cs, 1, mid)]
        v == [u EXCEPT
               !.page = Append(@, InternalNode(0, SubSeq(ks, mid + 1, Len(ks)), right))]
    IN  SetParents(v, right, sib)

RECURSIVE insert_into_parent(_, _, _, _)

split_internal_node(t, p, right, key) ==
    LET n  == t.page[p]
        i  == FirstNotBelow(n.keys, key)
        ks == InsertAt(n.keys, i, key)
        u  == SplitNode(t, p, ks, InsertAt(n.children, i + 1, right))
    IN  insert_into_parent(u, p, Len(u.page), ks[Len(ks) \div 2 + 1])

insert_into_internal(t, p, right, key) ==
    LET u == set_parent_pointer(t, right, p)
        n == t.page[p]
        i == FirstAbove(n.keys, key)
    IN  IF Len(n.keys) >= BTREE_ORDER(t) THEN split_internal_node(u, p, right, key)
        ELSE [u EXCEPT !.page[p].keys = InsertAt(@, i, key),
                       !.page[p].children = InsertAt(@, i + 1, right)]

\* The root is recognised by its null parent pointer.
insert_into_parent(t, left, right, key) ==
    LET up == t.page[left].parent
    IN  IF up = 0 THEN create_new_root(t, left, right, key)
        ELSE insert_into_internal(
               [t EXCEPT !.unseen = @ \/ left = t.root], up, right, key)

\* The upper half of the entries moves to a new page.
split_leaf_node(t, p) ==
    LET es   == t.page[p].entries
        half == Max({Len(es) \div 2, 1})
    IN  [t EXCEPT
          !.page = Append([@ EXCEPT ![p].entries = SubSeq(es, 1, half)],
                          LeafNode(0, SubSeq(es, half + 1, Len(es))))]

\* A leaf of fewer than two entries cannot be split: entries[split_index] is
\* out of bounds.  The new root that a second split reports is dropped.
RECURSIVE insert_into_leaf(_, _, _, _)
insert_into_leaf(t, p, k, r) ==
    LET es  == t.page[p].entries
        es2 == InsertAt(es, FirstAbove(EntryKeys(es), k), <<k, r>>)
    IN  IF Fits(t, es2) THEN [t EXCEPT !.page[p].entries = es2]
        ELSE IF Len(es) < 2 THEN Fail(t, "panic")
        ELSE LET s   == split_leaf_node(t, p)
                 sib == Len(s.page)
                 key == s.page[sib].entries[1][1]
                 u   == insert_into_parent(s, p, sib, key)
                 v   == insert_into_leaf([u EXCEPT !.newRoot = 0],
                                         IF k < key THEN p ELSE sib, k, r)
             IN  [v EXCEPT !.newRoot = u.newRoot,
                           !.unseen = @ \/ v.newRoot # 0]

insert(t, k, r) ==
    LET u == insert_into_leaf(t, find_leaf(t, t.root, k), k, r)
    IN  [u EXCEPT !.root = IF u.newRoot = 0 THEN @ ELSE u.newRoot,
                  !.newRoot = 0]

-----------------------------------------------------------------------------
(* Deleting.                                                               *)

\* The sibling of a child, the separator between them, and whether the
\* sibling is on the left; page 0 when the parent does not know the child.
find_sibling_info(t, up, p) ==
    LET n == t.page[up]
        i == SelectInSeq(n.children, LAMBDA c : c = p)
    IN  CASE i = 0 -> [page |-> 0, sep |-> 0, left |-> FALSE]
          [] i = 1 -> [page |-> n.children[2], sep |-> n.keys[1], left |-> FALSE]
          [] OTHER -> [page |-> n.children[i - 1], sep |-> n.keys[i - 1], left |-> TRUE]

\* Mutant: the separator is left as it was.
update_parent_keySkipped(t, up, old, new) == t

update_parent_key(t, up, old, new) ==
    LET i == SelectInSeq(t.page[up].keys, LAMBDA k : k = old)
    IN  IF i = 0 THEN t ELSE [t EXCEPT !.page[up].keys[i] = new]

redistribute_from_sibling(t, p, s, up) ==
    LET mine   == t.page[p].entries
        theirs == t.page[s.page].entries
        stolen == IF s.left THEN Last(theirs) ELSE Head(theirs)
        rest   == IF s.left THEN Front(theirs) ELSE Tail(theirs)
        both   == IF s.left THEN <<stolen>> \o mine ELSE Append(mine, stolen)
        u == [t EXCEPT !.page[s.page].entries = rest, !.page[p].entries = both]
    IN  IF ~Fits(t, both) THEN Fail(t, "err")
        ELSE update_parent_key(u, up, s.sep, (IF s.left THEN both ELSE rest)[1][1])

redistribute_internal(t, p, s, up) ==
    LET n == t.page[p]
        m == t.page[s.page]
        child == IF s.left THEN Last(m.children) ELSE Head(m.children)
        u == IF s.left
             THEN [t EXCEPT
                    !.page[s.page].keys = Front(@), !.page[s.page].children = Front(@),
                    !.page[p].keys = <<s.sep>> \o @,
                    !.page[p].children = <<child>> \o @]
             ELSE [t EXCEPT
                    !.page[s.page].keys = Tail(@), !.page[s.page].children = Tail(@),
                    !.page[p].keys = Append(@, s.sep),
                    !.page[p].children = Append(@, child)]
    IN  update_parent_key(set_parent_pointer(u, child, p), up, s.sep,
                          IF s.left THEN Last(m.keys) ELSE Head(m.keys))

RECURSIVE remove_child_from_parent(_, _, _)

\* Mutant: the sibling's entries are appended even if it is the left one.
merge_leavesUnordered(t, p, s, up) ==
    LET left  == IF s.left THEN s.page ELSE p
        right == IF s.left THEN p ELSE s.page
        both  == t.page[p].entries \o t.page[s.page].entries
    IN  IF ~Fits(t, both) THEN Fail(t, "err")
        ELSE remove_child_from_parent([t EXCEPT !.page[left].entries = both], up, right)

\* The right page is merged into the left one and leaves the parent.
merge_leaves(t, p, s, up) ==
    LET left  == IF s.left THEN s.page ELSE p
        right == IF s.left THEN p ELSE s.page
        both  == t.page[left].entries \o t.page[right].entries
    IN  IF ~Fits(t, both) THEN Fail(t, "err")
        ELSE remove_child_from_parent([t EXCEPT !.page[left].entries = both], up, right)

\* Mutant: the moved children keep pointing at the emptied node.
merge_internalOrphans(t, p, s, up) ==
    LET left  == IF s.left THEN s.page ELSE p
        right == IF s.left THEN p ELSE s.page
        v == [t EXCEPT !.page[left].keys = (@ \o <<s.sep>>) \o t.page[right].keys,
                       !.page[left].children = @ \o t.page[right].children]
    IN  remove_child_from_parent(v, up, right)

\* The separator comes down between the keys of the two nodes.  They have at
\* most BTREE_ORDER keys together, so the code's size check does not fail.
merge_internal(t, p, s, up) ==
    LET left  == IF s.left THEN s.page ELSE p
        right == IF s.left THEN p ELSE s.page
        moved == t.page[right].children
        u == SetParents(t, Reverse(moved), left)
        v == [u EXCEPT !.page[left].keys = (@ \o <<s.sep>>) \o t.page[right].keys,
                       !.page[left].children = @ \o moved]
    IN  remove_child_from_parent(v, up, right)

handle_leaf_underflow(t, p) ==
    LET up == t.page[p].parent
        s  == find_sibling_info(t, up, p)
    IN  CASE up = 0 -> t
          [] up # 0 /\ s.page = 0 -> Fail(t, "err")
          [] up # 0 /\ s.page # 0 ->
               IF Len(t.page[s.page].entries) > MIN_KEYS(t)
               THEN redistribute_from_sibling(t, p, s, up)
               ELSE merge_leaves(t, p, s, up)

handle_internal_underflow(t, p) ==
    LET up == t.page[p].parent
        s  == find_sibling_info(t, up, p)
    IN  CASE up = 0 \/ p = t.root -> t
          [] up # 0 /\ p # t.root /\ s.page = 0 -> Fail(t, "err")
          [] up # 0 /\ p # t.root /\ s.page # 0 ->
               IF Len(t.page[s.page].keys) > MIN_KEYS(t)
               THEN redistribute_internal(t, p, s, up)
               ELSE merge_internal(t, p, s, up)

\* A root left with one child makes that child the root; the child keeps its
\* parent pointer.  The first child goes with the first key and without a
\* check for underflow.
remove_child_from_parent(t, up, child) ==
    LET i == SelectInSeq(t.page[up].children, LAMBDA c : c = child)
        u == [t EXCEPT !.page[up].keys = RemoveAt(@, Max({i - 1, 1})),
                       !.page[up].children = RemoveAt(@, i)]
        n == u.page[up]
    IN  CASE i = 0 -> t
          [] i > 0 /\ up = t.root /\ n.keys = <<>> -> [u EXCEPT !.root = n.children[1]]
          [] i > 1 /\ up # t.root /\ Len(n.keys) < MIN_KEYS(t) ->
               handle_internal_underflow(u, up)
          [] OTHER -> u

\* A key that is not there is left alone (Ok(false)).
delete(t, k) ==
    LET p  == find_leaf(t, t.root, k)
        es == t.page[p].entries
        i  == SelectInSeq(es, LAMBDA e : e[1] = k)
        u  == [t EXCEPT !.page[p].entries = RemoveAt(@, i)]
    IN  IF i = 0 THEN t
        ELSE IF p # t.root /\ Len(es) - 1 < MIN_KEYS(t) THEN handle_leaf_underflow(u, p)
        ELSE u
=============================================================================
