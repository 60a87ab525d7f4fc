---------------------------- MODULE AtomicStore ----------------------------
(***************************************************************************)
(* What the pager promises its callers: a store of pages with one write    *)
(* group at a time, one savepoint inside it, and crashes that lose nothing *)
(* that was acknowledged and never expose a part of a group.               *)
(*                                                                         *)
(*   db        the last committed image of the store                       *)
(*   view      what the writer reads: db plus the writes of its group      *)
(*   mark      the image at the savepoint, or NoMark                       *)
(*   outcomes  the images a crash now could leave behind                   *)
(*                                                                         *)
(* A commit makes its image possible first (Prepare) and then the only     *)
(* possibility (Commit).  A commit that fails leaves its image possible    *)
(* until a later step settles the matter: the caller of a failed COMMIT    *)
(* does not know whether a crash will bring the group back, but it comes   *)
(* back whole or not at all.                                               *)
(***************************************************************************)
CONSTANTS Pages, Values, NoPage, NoMark

VARIABLES db, view, mark, outcomes

storeVars == <<db, view, mark, outcomes>>

Empty == [p \in Pages |-> NoPage]

Init ==
    /\ db = Empty /\ view = Empty /\ mark = NoMark /\ outcomes = {Empty}

Write ==
    /\ \E p \in Pages, v \in Values : view' = [view EXCEPT ![p] = v]
    /\ UNCHANGED <<db, mark, outcomes>>

SetMark == mark = NoMark /\ mark' = view /\ UNCHANGED <<db, view, outcomes>>
Release == mark' = NoMark /\ UNCHANGED <<db, view, outcomes>>
RollbackToMark ==
    /\ mark # NoMark
    /\ view' = mark /\ mark' = NoMark
    /\ UNCHANGED <<db, outcomes>>

Abort == view' = db /\ mark' = NoMark /\ UNCHANGED <<db, outcomes>>

Prepare == UNCHANGED <<db, view, mark>> /\ outcomes' = outcomes \cup {view}
Commit ==
    /\ db' = view /\ mark' = NoMark /\ UNCHANGED view
    /\ view \in outcomes /\ outcomes' = {view}

\* Syncing and truncating the files rule out images of failed commits.
Settle ==
    /\ UNCHANGED <<db, view, mark>>
    /\ db \in outcomes' /\ outcomes' \subseteq outcomes

\* The process ends, by a crash or by closing the store.
Restart ==
    /\ view' = db' /\ mark' = NoMark
    /\ db' \in outcomes' /\ outcomes' \subseteq outcomes

Next ==
    \/ Write \/ SetMark \/ Release \/ RollbackToMark \/ Abort
    \/ Prepare \/ Commit \/ Settle \/ Restart

Spec == Init /\ [][Next]_storeVars

=============================================================================
