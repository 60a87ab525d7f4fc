------------------------------ MODULE MCTable ------------------------------
(* Instances of Table for TLC.                                             *)
EXTENDS Table

\* Two units, one more for a text that is not NULL and one per added column.
MCSizeOf(r) == 2 + r.added + IF r.val = Null THEN 0 ELSE 1

MCKeys == 1..6

Condition(c, o, a) == [col |-> c, op |-> o, arg |-> a]

\* No clause, every lookup, scans, a comparison with NULL, and a lookup whose
\* row must also match.
MCWheres ==
    {<<>>} \cup {<<Condition("key", "=", k)>> : k \in MCKeys}
      \cup {<<Condition("val", "=", 1)>>, <<Condition("val", "<>", 1)>>,
            <<Condition("val", "=", Null)>>,
            <<Condition("key", ">", 1), Condition("key", "<=", 4)>>,
            <<Condition("val", ">=", 1), Condition("key", "=", 3)>>}

\* Order 2 on small leaves reaches three levels with six keys; order 4 on
\* larger ones merges leaves that are not empty.  Three rows fit in a leaf of
\* the second.  In a tight one they may not.
MCDimensions == {<<2, 8>>, <<4, 12>>}
MCDeep == {<<2, 8>>}
MCTight == {<<4, 8>>}
=============================================================================
