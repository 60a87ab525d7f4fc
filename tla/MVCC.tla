-------------------------------- MODULE MVCC --------------------------------
(***************************************************************************)
(* The multi-version store (src/src/mvcc.rs), an experimental module:      *)
(* MvccManager called by one thread per transaction and by a thread that   *)
(* runs vacuum.  Nothing serialises the callers, so every method is split  *)
(* where it goes from one atomic counter or lock to the next; pc[t] is the *)
(* place inside transaction t's current method and reg[t] the value it has *)
(* read and will use there.                                                *)
(*                                                                         *)
(* Transaction ids and timestamps are the integers the code draws.  One    *)
(* table is modelled: tables share no lock and no state but the counters.  *)
(***************************************************************************)
EXTENDS Integers, Sequences, FiniteSets, FiniteSetsExt

CONSTANTS
    Keys,           \* record keys
    NoData,         \* read_version's None
    MaxTxns,        \* bound: transactions begun
    MaxRunning,     \* bound: transactions running at a time
    MaxWrites,      \* bound: writes of all transactions
    NoSnapshot      \* no snapshot registered

ASSUME MVCCConstants == {MaxTxns, MaxRunning, MaxWrites} \subseteq Nat

Txns == 1..MaxTxns

VARIABLES
    nextTxn,        \* GLOBAL_TXN_ID
    clock,          \* current_timestamp
    active,         \* active_snapshots: the snapshot of t, or NoSnapshot
    committed,      \* committed_transactions: commit timestamp, 0 for none
    store,          \* version_store: the versions of each key, oldest first
    pc, reg,        \* the caller of transaction t
    writes,         \* writes made so far
    vacuumPc, vacuumMin,
    begunWith,      \* history: the transactions running when t drew its id,
                    \* until t is registered
    exact           \* history: t's list holds just those transactions, and
                    \* none drew an id until t was registered

txnVars == <<pc, reg, writes>>
vacuumVars == <<vacuumPc, vacuumMin>>
historyVars == <<begunWith, exact>>
vars == <<nextTxn, clock, active, committed, store, txnVars, vacuumVars, historyVars>>

Snapshot == [timestamp : Nat, txn : Txns, running : SUBSET Txns]

Version == [xmin : Txns, xmax : 0..MaxTxns, created : Nat, deleted : Nat]

Registered == {t \in Txns : active[t] # NoSnapshot}

Init ==
    /\ nextTxn = 1 /\ clock = 1
    /\ active = [t \in Txns |-> NoSnapshot]
    /\ committed = [t \in Txns |-> 0]
    /\ store = [k \in Keys |-> <<>>]
    /\ pc = [t \in Txns |-> "new"]
    /\ reg = [t \in Txns |-> 0]
    /\ writes = 0
    /\ vacuumPc = "idle" /\ vacuumMin = 0
    /\ begunWith = [t \in Txns |-> {}] /\ exact = [t \in Txns |-> FALSE]

-----------------------------------------------------------------------------
(* Visibility.                                                             *)

\* Mutants: the list of running transactions is not consulted; transactions
\* that begin later are not told from earlier ones.
is_transaction_visibleIfOlder(s, t) == t = s.txn \/ t < s.txn
is_transaction_visibleUnlessListed(s, t) == t = s.txn \/ t \notin s.running

is_transaction_visible(s, t) == t = s.txn \/ (t < s.txn /\ t \notin s.running)

is_visible(s, v) ==
    /\ v.created <= s.timestamp
    /\ is_transaction_visible(s, v.xmin)
    /\ ~(v.xmax > 0 /\ is_transaction_visible(s, v.xmax))

\* The newest visible version of a key, by position; 0 if there is none.
get_visible_version(s, k) ==
    Max({0} \cup {i \in DOMAIN store[k] : is_visible(s, store[k][i])})

\* Data is told apart by who wrote it and when.
read_version(s, k) ==
    LET i == get_visible_version(s, k)
    IN  IF i = 0 THEN NoData ELSE <<store[k][i].xmin, store[k][i].created>>

-----------------------------------------------------------------------------
(* begin_transaction: two counters, then the list of running transactions  *)
(* under the read lock, then the registration under the write lock.        *)

Running == {t \in Txns : pc[t] \notin {"new", "done"}}

BeginId(t) ==
    /\ t = nextTxn /\ Cardinality(Running) < MaxRunning
    /\ nextTxn' = nextTxn + 1
    /\ pc' = [pc EXCEPT ![t] = "stamp"]
    /\ begunWith' = [begunWith EXCEPT ![t] = Running]
    /\ UNCHANGED <<clock, active, committed, store, reg, writes, vacuumVars, exact>>

\* Mutant: the snapshot's timestamp lies before the clock it read.
BeginStampEarly(t) ==
    /\ pc[t] = "stamp"
    /\ clock' = clock + 1
    /\ reg' = [reg EXCEPT ![t] = clock - 1]
    /\ pc' = [pc EXCEPT ![t] = "list"]
    /\ UNCHANGED <<nextTxn, active, committed, store, writes, vacuumVars, historyVars>>

BeginStamp(t) ==
    /\ pc[t] = "stamp"
    /\ clock' = clock + 1
    /\ reg' = [reg EXCEPT ![t] = clock]
    /\ pc' = [pc EXCEPT ![t] = "list"]
    /\ UNCHANGED <<nextTxn, active, committed, store, writes, vacuumVars, historyVars>>

\* Mutant: the snapshot is given the next id instead of its own.
BeginListNextId(t) ==
    /\ pc[t] = "list"
    /\ reg' = [reg EXCEPT ![t] =
                 [timestamp |-> reg[t], txn |-> nextTxn, running |-> Registered]]
    /\ pc' = [pc EXCEPT ![t] = "register"]
    /\ UNCHANGED <<nextTxn, clock, active, committed, store, writes, vacuumVars, historyVars>>

\* The list is the value that travels from here to the registration.
BeginList(t) ==
    /\ pc[t] = "list"
    /\ reg' = [reg EXCEPT ![t] =
                 [timestamp |-> reg[t], txn |-> t, running |-> Registered]]
    /\ pc' = [pc EXCEPT ![t] = "register"]
    /\ UNCHANGED <<nextTxn, clock, active, committed, store, writes, vacuumVars, historyVars>>

BeginRegister(t) ==
    /\ pc[t] = "register"
    /\ active' = [active EXCEPT ![t] = reg[t]]
    /\ reg' = [reg EXCEPT ![t] = 0]
    /\ pc' = [pc EXCEPT ![t] = "open"]
    /\ exact' = [exact EXCEPT ![t] = nextTxn = t + 1 /\ reg[t].running = begunWith[t]]
    /\ begunWith' = [begunWith EXCEPT ![t] = {}]
    /\ UNCHANGED <<nextTxn, clock, committed, store, writes, vacuumVars>>

-----------------------------------------------------------------------------
(* commit_transaction and abort_transaction.  The commit timestamp and its *)
(* entry in committed_transactions are one step: only vacuum reads them,   *)
(* to drop them.  An abort leaves the versions of the transaction alone.   *)

CommitLog(t) ==
    /\ pc[t] = "open"
    /\ clock' = clock + 1
    /\ committed' = [committed EXCEPT ![t] = clock]
    /\ pc' = [pc EXCEPT ![t] = "end"]
    /\ UNCHANGED <<nextTxn, active, store, reg, writes, vacuumVars, historyVars>>

abort_transaction(t) ==
    /\ pc[t] = "open"
    /\ active' = [active EXCEPT ![t] = NoSnapshot]
    /\ pc' = [pc EXCEPT ![t] = "done"]
    /\ exact' = [exact EXCEPT ![t] = FALSE]
    /\ UNCHANGED <<nextTxn, clock, committed, store, reg, writes, vacuumVars, begunWith>>

CommitEnd(t) ==
    /\ pc[t] = "end"
    /\ active' = [active EXCEPT ![t] = NoSnapshot]
    /\ pc' = [pc EXCEPT ![t] = "done"]
    /\ exact' = [exact EXCEPT ![t] = FALSE]
    /\ UNCHANGED <<nextTxn, clock, committed, store, reg, writes, vacuumVars, begunWith>>

-----------------------------------------------------------------------------
(* insert_version and delete_version: a timestamp, then the table's lock.  *)
(* An insert reads the clock, a delete advances it.                        *)

MayWrite(t) == pc[t] = "open" /\ writes < MaxWrites

InsertStamp(t) ==
    /\ MayWrite(t)
    /\ reg' = [reg EXCEPT ![t] = clock]
    /\ pc' = [pc EXCEPT ![t] = "insert"]
    /\ writes' = writes + 1
    /\ UNCHANGED <<nextTxn, clock, active, committed, store, vacuumVars, historyVars>>

InsertStore(t, k) ==
    /\ pc[t] = "insert"
    /\ store' = [store EXCEPT ![k] = Append(@,
         [xmin |-> t, xmax |-> 0, created |-> reg[t], deleted |-> 0])]
    /\ reg' = [reg EXCEPT ![t] = 0]
    /\ pc' = [pc EXCEPT ![t] = "open"]
    /\ UNCHANGED <<nextTxn, clock, active, committed, writes, vacuumVars, historyVars>>

DeleteStamp(t) ==
    /\ MayWrite(t)
    /\ clock' = clock + 1
    /\ reg' = [reg EXCEPT ![t] = clock]
    /\ pc' = [pc EXCEPT ![t] = "delete"]
    /\ writes' = writes + 1
    /\ UNCHANGED <<nextTxn, active, committed, store, vacuumVars, historyVars>>

\* mark_deleted marks the newest version, whoever wrote or deleted it; a key
\* without versions is NotFound.
DeleteStore(t, k) ==
    /\ pc[t] = "delete"
    /\ store' = IF store[k] = <<>> THEN store
                ELSE [store EXCEPT ![k][Len(store[k])].xmax = t,
                                   ![k][Len(store[k])].deleted = reg[t]]
    /\ reg' = [reg EXCEPT ![t] = 0]
    /\ pc' = [pc EXCEPT ![t] = "open"]
    /\ UNCHANGED <<nextTxn, clock, active, committed, writes, vacuumVars, historyVars>>

-----------------------------------------------------------------------------
(* vacuum: the oldest registered timestamp, then the commit log and the    *)
(* versions older than that.                                               *)

\* Mutant: the present instead of the oldest registered timestamp.
VacuumMinNow ==
    /\ vacuumPc = "idle"
    /\ vacuumMin' = clock
    /\ vacuumPc' = "clean"
    /\ UNCHANGED <<nextTxn, clock, active, committed, store, txnVars, historyVars>>

VacuumMin ==
    /\ vacuumPc = "idle"
    /\ vacuumMin' = IF Registered = {} THEN clock
                    ELSE Min({active[t].timestamp : t \in Registered})
    /\ vacuumPc' = "clean"
    /\ UNCHANGED <<nextTxn, clock, active, committed, store, txnVars, historyVars>>

Kept(v) == v.deleted = 0 \/ v.deleted >= vacuumMin

VacuumClean ==
    /\ vacuumPc = "clean"
    /\ committed' = [t \in Txns |-> IF committed[t] >= vacuumMin THEN committed[t] ELSE 0]
    /\ store' = [k \in Keys |-> SelectSeq(store[k], Kept)]
    /\ vacuumPc' = "idle" /\ vacuumMin' = 0
    /\ UNCHANGED <<nextTxn, clock, active, txnVars, historyVars>>

-----------------------------------------------------------------------------
Next ==
    \/ \E t \in Txns :
         \/ BeginId(t) \/ BeginStamp(t) \/ BeginList(t) \/ BeginRegister(t)
         \/ CommitLog(t) \/ CommitEnd(t) \/ abort_transaction(t)
         \/ InsertStamp(t) \/ DeleteStamp(t)
         \/ \E k \in Keys : InsertStore(t, k) \/ DeleteStore(t, k)
    \/ VacuumMin \/ VacuumClean

Spec == Init /\ [][Next]_vars

-----------------------------------------------------------------------------
(* Properties.                                                             *)

\* Counters, snapshots and versions have their types.
TypeOK ==
    /\ nextTxn \in 1..MaxTxns + 1 /\ clock \in Nat \ {0}
    /\ active \in [Txns -> Snapshot \cup {NoSnapshot}]
    /\ committed \in [Txns -> Nat]
    /\ \A k \in Keys : store[k] \in Seq(Version)
    /\ \A t \in Txns : active[t] # NoSnapshot => active[t].txn = t

\* A transaction never reads a version written by a transaction that is
\* still running, even when their begins overlap and the running one is
\* missing from its list: the creation timestamp decides.
NoDirtyReads ==
    \A s \in Registered, k \in Keys :
        LET i == get_visible_version(active[s], k)
        IN  i # 0 => store[k][i].xmin = s \/ pc[store[k][i].xmin] = "done"

\* A transaction with an exact list of the running ones sees all or none of
\* what another wrote: if it takes a writer for finished, every version of
\* that writer is old enough for its timestamp.
AtomicVisibility ==
    \A s \in Registered, k \in Keys : exact[s] =>
        \A i \in DOMAIN store[k] :
            LET v == store[k][i]
            IN  v.xmin # s /\ is_transaction_visible(active[s], v.xmin)
                  => v.created <= active[s].timestamp

\* Versions of k that this step marked although they were marked already.
Remarked(k) ==
    \E i \in DOMAIN store[k] \cap DOMAIN store'[k] :
        store[k][i].xmax # 0 /\ store'[k][i].xmax # store[k][i].xmax

\* What such a transaction reads of a key changes only by its own steps, by
\* vacuum, and by a second delete of a deleted version, which replaces the
\* first deleter by one the reader may not see.
StableReads ==
    [][\A s \in Registered, k \in Keys :
          exact[s] /\ active'[s] = active[s] /\ pc'[s] = pc[s]
            /\ vacuumPc' = vacuumPc /\ ~Remarked(k)
          => read_version(active[s], k)' = read_version(active[s], k)]_vars

\* Vacuum takes a version away from such a transaction only if its deleter
\* was running when the transaction began: the deletion timestamp is older
\* than the snapshot although the deletion is not part of it.
VacuumKeepsVisible ==
    [][\A s \in Registered, k \in Keys :
          exact[s] /\ vacuumPc = "clean" /\ vacuumPc' = "idle" =>
            \A i \in DOMAIN store[k] :
                LET v == store[k][i]
                IN  is_visible(active[s], v) /\ ~Kept(v)
                      => v.xmax \in active[s].running]_vars
=============================================================================
