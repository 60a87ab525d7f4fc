-------------------------- MODULE PagerRefinement --------------------------
(***************************************************************************)
(* The pager implements AtomicStore.  The mapping reads the store off the  *)
(* pager's own state: `view` through read_page (cache included), `mark`    *)
(* through the undo entries of the savepoint, and `outcomes` by replaying  *)
(* every log the disk may hold over every data file it may hold.           *)
(***************************************************************************)
EXTENDS Pager

dbImage == IF IsOpen THEN CommittedImage ELSE Replay(wal, data)

viewImage == IF IsOpen THEN [p \in Pages |-> ReadResult(p)] ELSE dbImage

markImage ==
    IF savepoint = "None" THEN Untouched
    ELSE [p \in Pages |->
            IF p >= sp_pages THEN NoPage
            ELSE IF undo[p] \in Values THEN undo[p]
            ELSE IF undo[p] = Untouched /\ pending[p] # NoPage THEN pending[p]
            ELSE CommittedImage[p]]

outcomeImages == {Replay(w, d) : w \in walDisk, d \in DiskImages}

Store == INSTANCE AtomicStore
    WITH db <- dbImage, view <- viewImage, mark <- markImage,
         outcomes <- outcomeImages, NoMark <- Untouched

(***************************************************************************)
(* Every behaviour of the pager, with failing I/O and crashes at any step, *)
(* is a behaviour of the atomic store: acknowledged groups survive, groups *)
(* are recovered whole, abort_group and rollback_to_savepoint restore      *)
(* exactly what read_page returned before.                                 *)
(***************************************************************************)
ImplementsAtomicStore == Store!Spec

=============================================================================
