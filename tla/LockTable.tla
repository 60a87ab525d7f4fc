----------------------------- MODULE LockTable -----------------------------
(***************************************************************************)
(* One resource of the lock manager (src/src/transaction.rs:205-365): the  *)
(* Vec<LockEntry> of a resource as a map from transactions to the lock     *)
(* they hold.  try_acquire_lock_once only pushes an entry for a            *)
(* transaction that has none left, so there is at most one per             *)
(* transaction, and the order of the entries decides nothing.              *)
(***************************************************************************)

LockTypes == {"Shared", "Exclusive"}
Held == LockTypes \cup {"None"}
Unlocked(Txns) == [x \in Txns |-> "None"]

\* The request is covered by the lock the transaction already has.
Covered(entries, x, lock) ==
    entries[x] = "Exclusive" \/ (entries[x] = "Shared" /\ lock = "Shared")

\* Another transaction's lock stands in the way: Err(Busy).
Busy(entries, x, lock) ==
    /\ ~Covered(entries, x, lock)
    /\ \E y \in DOMAIN entries \ {x} :
         entries[y] = "Exclusive" \/ (entries[y] # "None" /\ lock = "Exclusive")

\* What a successful try_acquire_lock_once leaves: an upgrade replaces the
\* shared entry.
Granted(entries, x, lock) ==
    IF Covered(entries, x, lock) THEN entries ELSE [entries EXCEPT ![x] = lock]

\* retain(|e| e.txn_id != txn_id)
Without(entries, x) == [entries EXCEPT ![x] = "None"]

IsEmpty(entries) == \A x \in DOMAIN entries : entries[x] = "None"

Compatible(entries) ==
    \A x, y \in DOMAIN entries :
       x # y /\ entries[x] = "Exclusive" => entries[y] = "None"

=============================================================================
