------------------------------- MODULE MCMVCC -------------------------------
(* Instances of MVCC for TLC.                                              *)
EXTENDS MVCC

(* Timestamps are only compared, so two states whose timestamps have the   *)
(* same order behave alike.  The view numbers them by rank.  It leaves out *)
(* the commit log, which nothing but vacuum reads.                         *)

Stamped == {t \in Txns : pc[t] \in {"list", "insert", "delete"}}

Timestamps ==
    {0, clock, vacuumMin}
      \cup {active[t].timestamp : t \in Registered}
      \cup {reg[t] : t \in Stamped}
      \cup {reg[t].timestamp : t \in {u \in Txns : pc[u] = "register"}}
      \cup UNION {UNION {{v.created, v.deleted} : v \in {store[k][i] : i \in DOMAIN store[k]}}
                   : k \in Keys}

Rank(n) == Cardinality({m \in Timestamps : m < n})

RankedSnapshot(s) == [s EXCEPT !.timestamp = Rank(@)]

RankedState ==
    <<nextTxn, Rank(clock),
      [t \in Txns |-> IF t \in Registered THEN RankedSnapshot(active[t]) ELSE NoSnapshot],
      [k \in Keys |-> [i \in DOMAIN store[k] |->
         [store[k][i] EXCEPT !.created = Rank(@), !.deleted = Rank(@)]]],
      pc,
      [t \in Txns |-> CASE t \in Stamped -> <<Rank(reg[t])>>
                        [] pc[t] = "register" -> <<RankedSnapshot(reg[t])>>
                        [] OTHER -> <<>>],
      writes, vacuumPc, Rank(vacuumMin), historyVars>>
=============================================================================
