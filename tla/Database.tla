------------------------------ MODULE Database ------------------------------
(***************************************************************************)
(* The Database object of VelociDB shared by several threads:              *)
(* Database::execute, query, begin, commit, rollback and close             *)
(* (src/src/storage.rs), the executor they go through and its              *)
(* with_table_lock (src/src/executor.rs), the transaction and lock         *)
(* managers (src/src/transaction.rs) and the staging of change events      *)
(* (src/src/cdc.rs, capture enabled).                                      *)
(*                                                                         *)
(* The pager appears as what module AtomicStore promises of it: a write    *)
(* group becomes durable whole or leaves nothing.  The contents of pages   *)
(* are the sequence of changes that made them: `durable` is committed,     *)
(* `pend` is the active group on top.  There is one table.                 *)
(*                                                                         *)
(* `mem` is the in-memory schema with the B-tree root handles: whether     *)
(* they are loaded, and which statements' schema or root changes they      *)
(* reflect.  A thread's program counter and the local variables of its     *)
(* call are the record me[t].                                              *)
(***************************************************************************)
EXTENDS Integers, Sequences, FiniteSets, SequencesExt, LockTable

CONSTANTS
    Threads,
    Nobody,       \* no executor, no transaction, no owner
    Calls,        \* the API calls threads make (subset of AllCalls)
    MaxCalls,     \* bound: calls made in one behaviour
    Capacity      \* DEFAULT_CDC_CAPACITY

AllCalls == {"dml", "ddl", "query", "begin", "commit", "rollback", "close"}

ASSUME DatabaseConstants ==
    /\ Nobody \notin Threads
    /\ Calls \subseteq AllCalls
    /\ MaxCalls \in Nat
    /\ Capacity \in Nat \ {0}

VARIABLES
    executor,     \* Database::executor
    writer,       \* the thread holding Database::writer
    mem,          \* Database::schema and Database::btrees
    group, savepoint, spMark, pend, durable,    \* the pager
    active,       \* Executor::active_transaction, per executor
    guards,       \* threads holding its read guard
    live,         \* TransactionManager::active_transactions
    locks,        \* the table's entry of LockManager::locks, per executor
    present,      \* the executors whose LockManager has such an entry
    staged, log, next_seq,                      \* CdcManager
    me,           \* per thread: the call it is in
    calls,        \* calls started so far
    outcome,      \* history: what the caller was told of each statement
    disturbed     \* history: a group was closed under its owner, an executor replaced

pagerVars == <<group, savepoint, spMark, pend, durable>>
lockVars == <<active, guards, live, locks, present>>
cdcVars == <<staged, log, next_seq>>
vars == <<executor, writer, mem, pagerVars, lockVars, cdcVars, me, calls, outcome,
          disturbed>>

\* An executor is named after the thread that made it.
Auto(t) == <<"auto", t>>            \* the single-statement transaction of a thread
Explicit(e) == <<"explicit", e>>    \* the BEGIN ... COMMIT transaction of an executor
Txns == {Auto(t) : t \in Threads} \cup {Explicit(e) : e \in Threads}
NoTxn == <<"none", Nobody>>

Statements == 1 .. MaxCalls

\* What one statement adds to the pages: its rows ("split" when a root moved), the
\* page of a new table, the rewritten schema pages.
Changes == [stmt : Statements, kind : {"rows", "split", "ddl", "schema"}]
View == durable \o pend

\* Statements of `s` that changed the schema pages; those that changed rows.
SchemaOf(s) == {s[i].stmt : i \in {j \in DOMAIN s : s[j].kind = "schema"}}
RowChanges(s) == SelectSeq(s, LAMBDA c : c.kind \in {"rows", "split"})
LastOf(s, n) == IF Len(s) <= n THEN s ELSE SubSeq(s, Len(s) - n + 1, Len(s))
StatementsOf(s) == {s[i].stmt : i \in DOMAIN s}

PCs == {"idle", "create", "writer", "begin", "enter", "acquire", "body", "unlock",
        "remove", "schema", "end", "publish", "reload", "load", "end_txn",
        "remove_txn"}
Idle == [pc |-> "idle", call |-> "none", exec |-> Nobody, in_txn |-> FALSE, mark |-> 0,
         stmt |-> 0, txn |-> NoTxn, ok |-> TRUE]

-----------------------------------------------------------------------------
Init ==
    /\ executor = Nobody /\ writer = Nobody
    /\ mem = [loaded |-> TRUE, reflects |-> {}]
    /\ group = FALSE /\ savepoint = FALSE /\ spMark = 0 /\ pend = <<>> /\ durable = <<>>
    /\ active = [e \in Threads |-> NoTxn] /\ guards = {} /\ live = {}
    /\ locks = [e \in Threads |-> Unlocked(Txns)] /\ present = {}
    /\ staged = <<>> /\ log = <<>> /\ next_seq = 1
    /\ me = [t \in Threads |-> Idle]
    /\ calls = 0 /\ outcome = [s \in Statements |-> "none"] /\ disturbed = {}

At(t, pc) == me[t].pc = pc
Goto(t, pc) == me' = [me EXCEPT ![t].pc = pc]
Fail(t, pc) == me' = [me EXCEPT ![t].pc = pc, ![t].ok = FALSE]

Undo(s) == outcome' = [x \in Statements |-> IF x \in s THEN "undone" ELSE outcome[x]]

\* The call returns and drops the writer mutex if it holds it.
Leave(t) ==
    /\ me' = [me EXCEPT ![t] = Idle]
    /\ writer' = IF writer = t THEN Nobody ELSE writer
ReturnOk(t) ==
    /\ Leave(t)
    /\ outcome' = IF me[t].call \in {"dml", "ddl"}
                  THEN [outcome EXCEPT ![me[t].stmt] = "ok"] ELSE outcome
ReturnErr(t) == Leave(t) /\ Undo(IF me[t].call \in {"dml", "ddl"} THEN {me[t].stmt} ELSE {})

-----------------------------------------------------------------------------
(* Entering a call: get_or_create_executor, then the writer mutex.         *)

AfterExecutor(c) == IF c = "query" THEN "enter" ELSE "writer"

Start(t, c) ==
    /\ At(t, "idle") /\ calls < MaxCalls /\ c # "close"
    /\ calls' = calls + 1
    /\ me' = [me EXCEPT ![t] = [Idle EXCEPT
                !.call = c, !.stmt = calls + 1, !.exec = executor,
                !.pc = IF executor = Nobody THEN "create" ELSE AfterExecutor(c)]]
    /\ UNCHANGED <<executor, writer, mem, pagerVars, lockVars, cdcVars, outcome, disturbed>>

\* The slot was empty when it was read; what it holds by now is overwritten.
CreateExecutor(t) ==
    /\ At(t, "create")
    /\ executor' = t
    /\ me' = [me EXCEPT ![t].exec = t, ![t].pc = AfterExecutor(me[t].call)]
    /\ disturbed' = IF executor = Nobody THEN disturbed
                    ELSE disturbed \cup {"executor_replaced"}
    /\ UNCHANGED <<writer, mem, pagerVars, lockVars, cdcVars, calls, outcome>>

InTransaction(t) == active[me[t].exec] # NoTxn

\* writer.lock() with in_transaction() and staged_mark() read under it.  The
\* read guard of in_transaction is taken and dropped at once.
LockWriter(t) ==
    /\ At(t, "writer") /\ writer = Nobody
    /\ writer' = t
    /\ me' = [me EXCEPT ![t].pc = "begin", ![t].in_txn = InTransaction(t),
                        ![t].mark = IF me[t].call \in {"dml", "ddl"} THEN Len(staged) ELSE 0]
    /\ UNCHANGED <<executor, mem, pagerVars, lockVars, cdcVars, calls, outcome, disturbed>>

-----------------------------------------------------------------------------
(* execute: the savepoint or the group of the statement.                   *)

AfterBegin(c) == IF c = "dml" THEN "enter" ELSE "body"

BeginStatement(t) ==
    /\ At(t, "begin") /\ me[t].call \in {"dml", "ddl"}
    /\ \/ /\ me[t].in_txn /\ group /\ ~savepoint
          /\ savepoint' = TRUE /\ spMark' = Len(pend)
          /\ Goto(t, AfterBegin(me[t].call))
          /\ UNCHANGED <<group, writer, outcome>>
       \/ /\ ~me[t].in_txn /\ ~group
          /\ group' = TRUE
          /\ Goto(t, AfterBegin(me[t].call))
          /\ UNCHANGED <<savepoint, spMark, writer, outcome>>
       \/ /\ IF me[t].in_txn THEN ~group \/ savepoint ELSE group
          /\ ReturnErr(t)
          /\ UNCHANGED <<group, savepoint, spMark>>
    /\ UNCHANGED <<executor, mem, pend, durable, lockVars, cdcVars, calls, disturbed>>

-----------------------------------------------------------------------------
(* with_table_lock around a DML statement or a query.                      *)

\* commit_transaction and rollback_transaction keep the write guard of
\* active_transaction until they return.
WriteGuarded(e) == \E u \in Threads : At(u, "remove_txn") /\ me[u].exec = e

\* Mutation: active_transaction is read without keeping the guard.
EnterUnguarded(t) ==
    /\ At(t, "enter") /\ ~WriteGuarded(me[t].exec)
    /\ IF InTransaction(t)
       THEN /\ me' = [me EXCEPT ![t].pc = "acquire", ![t].txn = active[me[t].exec]]
            /\ UNCHANGED live
       ELSE /\ me' = [me EXCEPT ![t].pc = "acquire", ![t].txn = Auto(t)]
            /\ live' = live \cup {Auto(t)}
    /\ UNCHANGED <<executor, writer, mem, pagerVars, active, guards, locks, present,
                   cdcVars, calls, outcome, disturbed>>

\* Join the explicit transaction, keeping the read guard to the end of the
\* statement, or start a single-statement one.
Enter(t) ==
    /\ At(t, "enter") /\ ~WriteGuarded(me[t].exec)
    /\ IF InTransaction(t)
       THEN /\ me' = [me EXCEPT ![t].pc = "acquire", ![t].txn = active[me[t].exec]]
            /\ guards' = guards \cup {t}
            /\ UNCHANGED live
       ELSE /\ me' = [me EXCEPT ![t].pc = "acquire", ![t].txn = Auto(t)]
            /\ live' = live \cup {Auto(t)}
            /\ UNCHANGED guards
    /\ UNCHANGED <<executor, writer, mem, pagerVars, active, locks, present, cdcVars,
                   calls, outcome, disturbed>>

LockOf(t) == IF me[t].call = "query" THEN "Shared" ELSE "Exclusive"
Blocked(t) == Busy(locks[me[t].exec], me[t].txn, LockOf(t))

Acquire(t) ==
    /\ At(t, "acquire") /\ ~Blocked(t)
    /\ locks' = [locks EXCEPT ![me[t].exec] = Granted(@, me[t].txn, LockOf(t))]
    /\ present' = present \cup {me[t].exec}
    /\ Goto(t, "body")
    /\ UNCHANGED <<executor, writer, mem, pagerVars, active, guards, live, cdcVars, calls,
                   outcome, disturbed>>

\* Mutation: no timeout, the loop only ends with the lock.
NoTimeout(t) == At(t, "acquire") /\ FALSE /\ UNCHANGED vars

\* 30 seconds of Err(Busy).
AcquireTimeout(t) ==
    /\ At(t, "acquire") /\ Blocked(t)
    /\ live' = live \ {Auto(t)}
    /\ guards' = guards \ {t}
    /\ IF me[t].call = "query"
       THEN ReturnErr(t)
       ELSE Fail(t, "end") /\ UNCHANGED <<writer, outcome>>
    /\ UNCHANGED <<executor, mem, pagerVars, active, locks, present, cdcVars, calls,
                   disturbed>>

\* execute saves the schema after DDL, or when a root moved.
AfterBody(t, ok, reflects) == IF ok /\ me[t].stmt \in reflects THEN "schema" ELSE "end"

\* The end of f(): a single-statement transaction still has to end.
BodyReturns(t, ok) ==
    IF me[t].txn = Auto(t)
    THEN /\ me' = [me EXCEPT ![t].pc = "unlock", ![t].ok = ok]
         /\ UNCHANGED <<guards, writer, outcome>>
    ELSE /\ guards' = guards \ {t}
         /\ IF me[t].call = "query"
            THEN IF ok THEN ReturnOk(t) ELSE ReturnErr(t)
            ELSE /\ me' = [me EXCEPT ![t].pc = AfterBody(t, ok, mem'.reflects), ![t].ok = ok]
                 /\ UNCHANGED <<writer, outcome>>

\* execute_select on a table that exists: NotFound while the maps are empty.
Select(t) ==
    /\ At(t, "body") /\ me[t].call = "query"
    /\ UNCHANGED mem
    /\ BodyReturns(t, mem.loaded)
    /\ UNCHANGED <<executor, pagerVars, active, live, locks, present, cdcVars, calls,
                   disturbed>>

\* write_page: buffered in the active group, else a durable group of its own.
WriteChange(c) ==
    /\ pend' = IF group THEN Append(pend, c) ELSE pend
    /\ durable' = IF group THEN durable ELSE Append(durable, c)
    /\ UNCHANGED <<group, savepoint, spMark>>

KindsOf(c) == IF c = "ddl" THEN {"ddl"} ELSE {"rows", "split"}
ChangeBy(t, kind) == [stmt |-> me[t].stmt, kind |-> kind]
Reflect(t, kind) ==
    mem' = IF kind = "rows" THEN mem ELSE [mem EXCEPT !.reflects = @ \cup {me[t].stmt}]

\* The statement succeeds; DML stages its change events.
Run(t, kind) ==
    /\ At(t, "body") /\ me[t].call \in {"dml", "ddl"} /\ kind \in KindsOf(me[t].call)
    /\ WriteChange(ChangeBy(t, kind))
    /\ Reflect(t, kind)
    /\ staged' = IF kind = "ddl" THEN staged ELSE Append(staged, me[t].stmt)
    /\ BodyReturns(t, TRUE)
    /\ UNCHANGED <<executor, active, live, locks, present, log, next_seq, calls, disturbed>>

\* It fails before its first write, or after some.
RunFails(t) ==
    /\ At(t, "body") /\ me[t].call \in {"dml", "ddl"}
    /\ \/ UNCHANGED <<pagerVars, mem>>
       \/ \E kind \in KindsOf(me[t].call) :
             WriteChange(ChangeBy(t, kind)) /\ Reflect(t, kind)
    /\ BodyReturns(t, FALSE)
    /\ UNCHANGED <<executor, active, live, locks, present, cdcVars, calls, disturbed>>

-----------------------------------------------------------------------------
(* The end of a single-statement transaction: release_all_locks, whose     *)
(* release_lock lets the entry go before it removes an empty one.          *)

AfterUnlock(t) ==
    IF me[t].call = "query"
    THEN IF me[t].ok THEN ReturnOk(t) ELSE ReturnErr(t)
    ELSE /\ Goto(t, AfterBody(t, me[t].ok, mem.reflects))
         /\ UNCHANGED <<writer, outcome>>

Emptied(e, x) == e \in present /\ IsEmpty(Without(locks[e], x))

EndAuto(t) ==
    /\ At(t, "unlock")
    /\ live' = live \ {Auto(t)}
    /\ locks' = [locks EXCEPT ![me[t].exec] = Without(@, Auto(t))]
    /\ IF Emptied(me[t].exec, Auto(t))
       THEN Goto(t, "remove") /\ UNCHANGED <<writer, outcome>>
       ELSE AfterUnlock(t)
    /\ UNCHANGED <<executor, mem, pagerVars, active, guards, present, cdcVars, calls,
                   disturbed>>

\* locks.remove(resource): with whatever entries were pushed in between.
RemoveKey(e) ==
    /\ locks' = [locks EXCEPT ![e] = Unlocked(Txns)]
    /\ present' = present \ {e}

RemoveEntry(t) ==
    /\ At(t, "remove")
    /\ RemoveKey(me[t].exec)
    /\ AfterUnlock(t)
    /\ UNCHANGED <<executor, mem, pagerVars, active, guards, live, cdcVars, calls,
                   disturbed>>

-----------------------------------------------------------------------------
(* execute: save_schema and the end of the statement.                      *)

\* Buffered writes cannot fail.  Without a group each page commits on its own,
\* and that can.
SaveSchema(t) ==
    /\ At(t, "schema")
    /\ \/ WriteChange(ChangeBy(t, "schema")) /\ Goto(t, "end")
       \/ ~group /\ UNCHANGED pagerVars /\ Fail(t, "end")
    /\ UNCHANGED <<executor, writer, mem, lockVars, cdcVars, calls, outcome, disturbed>>

Discard(mark) == staged' = SubSeq(staged, 1, mark) /\ UNCHANGED <<log, next_seq>>

\* commit_group on success, and as it leaves things when it fails.
GroupCommitted ==
    /\ group
    /\ group' = FALSE /\ savepoint' = FALSE /\ spMark' = 0
    /\ durable' = durable \o pend /\ pend' = <<>>
GroupAborted ==
    /\ group
    /\ group' = FALSE /\ savepoint' = FALSE /\ spMark' = 0 /\ pend' = <<>>
    /\ UNCHANGED durable
CommitGroupFails ==
    \/ pend # <<>> /\ GroupAborted
    \/ ~group /\ UNCHANGED pagerVars

\* Ok inside a transaction: release_savepoint.
Release(t) ==
    /\ At(t, "end") /\ me[t].call \in {"dml", "ddl"} /\ me[t].ok /\ me[t].in_txn
    /\ savepoint' = FALSE /\ spMark' = 0
    /\ ReturnOk(t)
    /\ UNCHANGED <<executor, mem, group, pend, durable, lockVars, cdcVars, calls, disturbed>>

\* Mutation: a failed commit_group leaves the statement's events staged.
CommitKeepsStaged(t) ==
    /\ At(t, "end") /\ me[t].call \in {"dml", "ddl"} /\ me[t].ok /\ ~me[t].in_txn
    /\ \/ GroupCommitted /\ Goto(t, "publish")
       \/ CommitGroupFails /\ Fail(t, "reload")
    /\ UNCHANGED <<executor, writer, mem, lockVars, cdcVars, calls, outcome, disturbed>>

\* Ok outside one: commit_group.
CommitStatement(t) ==
    /\ At(t, "end") /\ me[t].call \in {"dml", "ddl"} /\ me[t].ok /\ ~me[t].in_txn
    /\ \/ GroupCommitted /\ Goto(t, "publish") /\ UNCHANGED cdcVars
       \/ CommitGroupFails /\ Discard(me[t].mark) /\ Fail(t, "reload")
    /\ UNCHANGED <<executor, writer, mem, lockVars, calls, outcome, disturbed>>

\* Mutations: a failed statement aborts the whole group; it skips reload_schema.
UndoAbortsGroup(t) ==
    /\ At(t, "end") /\ me[t].call \in {"dml", "ddl"} /\ ~me[t].ok
    /\ GroupAborted
    /\ Discard(me[t].mark)
    /\ Goto(t, "reload")
    /\ UNCHANGED <<executor, writer, mem, lockVars, calls, outcome, disturbed>>


\* Err: rollback_to_savepoint or abort_group.
UndoStatement(t) ==
    /\ At(t, "end") /\ me[t].call \in {"dml", "ddl"} /\ ~me[t].ok
    /\ IF me[t].in_txn
       THEN savepoint /\ pend' = SubSeq(pend, 1, spMark)
            /\ savepoint' = FALSE /\ spMark' = 0 /\ UNCHANGED <<group, durable>>
       ELSE GroupAborted
    /\ Discard(me[t].mark)
    /\ Goto(t, "reload")
    /\ UNCHANGED <<executor, writer, mem, lockVars, calls, outcome, disturbed>>

\* There is nothing left to undo: the `?` returns before discard and reload.
UndoRefused(t) ==
    /\ At(t, "end") /\ me[t].call \in {"dml", "ddl"} /\ ~me[t].ok
    /\ IF me[t].in_txn THEN ~savepoint ELSE ~group
    /\ ReturnErr(t)
    /\ UNCHANGED <<executor, mem, pagerVars, lockVars, cdcVars, calls, disturbed>>

Numbered == [i \in 1 .. Len(staged) |-> [seq |-> next_seq + i - 1, stmt |-> staged[i]]]
AfterPublish(t) ==
    IF me[t].call = "commit"
    THEN Goto(t, "end_txn") /\ UNCHANGED <<writer, outcome>>
    ELSE ReturnOk(t)

\* Mutation: the log is never cut to its capacity.
PublishUnbounded(t) ==
    /\ At(t, "publish")
    /\ log' = log \o Numbered
    /\ next_seq' = next_seq + Len(staged)
    /\ staged' = <<>>
    /\ AfterPublish(t)
    /\ UNCHANGED <<executor, mem, pagerVars, lockVars, calls, disturbed>>

\* publish_staged: numbered in order, the oldest events dropped beyond capacity.
Publish(t) ==
    /\ At(t, "publish")
    /\ log' = LastOf(log \o Numbered, Capacity)
    /\ next_seq' = next_seq + Len(staged)
    /\ staged' = <<>>
    /\ AfterPublish(t)
    /\ UNCHANGED <<executor, mem, pagerVars, lockVars, calls, disturbed>>

\* reload_schema empties the maps, then load_schema fills them from the pager.
ClearSchema(t) ==
    /\ At(t, "reload")
    /\ mem' = [loaded |-> FALSE, reflects |-> {}]
    /\ Goto(t, "load")
    /\ UNCHANGED <<executor, writer, pagerVars, lockVars, cdcVars, calls, outcome, disturbed>>

LoadSchema(t) ==
    /\ At(t, "load")
    /\ mem' = [loaded |-> TRUE, reflects |-> SchemaOf(View)]
    /\ IF me[t].call = "rollback"
       THEN Goto(t, "end_txn") /\ UNCHANGED <<writer, outcome>>
       ELSE ReturnErr(t)
    /\ UNCHANGED <<executor, pagerVars, lockVars, cdcVars, calls, disturbed>>

-----------------------------------------------------------------------------
(* begin, commit and rollback.                                             *)

\* active_transaction.write() waits for the statements that joined.
Joined(e) == {u \in guards : me[u].exec = e}

BeginTransaction(t) ==
    /\ At(t, "begin") /\ me[t].call = "begin" /\ Joined(me[t].exec) = {}
    /\ IF InTransaction(t)
       THEN ReturnErr(t) /\ UNCHANGED <<active, live>>
       ELSE /\ active' = [active EXCEPT ![me[t].exec] = Explicit(me[t].exec)]
            /\ live' = live \cup {Explicit(me[t].exec)}
            /\ Goto(t, "end")
            /\ UNCHANGED <<writer, outcome>>
    /\ UNCHANGED <<executor, mem, pagerVars, guards, locks, present, cdcVars, calls,
                   disturbed>>

BeginTransactionGroup(t) ==
    /\ At(t, "end") /\ me[t].call = "begin"
    /\ IF group
       THEN Fail(t, "end_txn") /\ UNCHANGED <<group, writer, outcome>>
       ELSE group' = TRUE /\ ReturnOk(t)
    /\ UNCHANGED <<executor, mem, savepoint, spMark, pend, durable, lockVars, cdcVars,
                   calls, disturbed>>


CommitTransaction(t) ==
    /\ At(t, "begin") /\ me[t].call = "commit" /\ me[t].in_txn
    /\ \/ GroupCommitted /\ Goto(t, "publish") /\ UNCHANGED <<cdcVars, outcome>>
       \/ CommitGroupFails /\ Discard(0) /\ Fail(t, "end_txn") /\ Undo(StatementsOf(pend))
    /\ UNCHANGED <<executor, writer, mem, lockVars, calls, disturbed>>

\* With no group, abort_group()? gives up with the transaction still active.
RollbackTransaction(t) ==
    /\ At(t, "begin") /\ me[t].call = "rollback" /\ me[t].in_txn
    /\ IF group
       THEN GroupAborted /\ Discard(0) /\ Goto(t, "reload") /\ Undo(StatementsOf(pend))
            /\ UNCHANGED writer
       ELSE ReturnErr(t) /\ UNCHANGED <<pagerVars, cdcVars>>
    /\ UNCHANGED <<executor, mem, lockVars, calls, disturbed>>

\* "No active transaction to commit", "... to rollback".
NoTransaction(t) ==
    /\ At(t, "begin") /\ me[t].call \in {"commit", "rollback"} /\ ~me[t].in_txn
    /\ ReturnErr(t)
    /\ UNCHANGED <<executor, mem, pagerVars, lockVars, cdcVars, calls, disturbed>>

\* commit_transaction / rollback_transaction have returned.  A failed commit
\* reloads the schema after it has ended the transaction.
AfterEndTxn(t) ==
    IF me[t].ok THEN ReturnOk(t)
    ELSE IF me[t].call = "begin" THEN ReturnErr(t)
    ELSE Goto(t, "reload") /\ UNCHANGED <<writer, outcome>>

EndTransaction(t) ==
    LET e == me[t].exec
    IN  /\ At(t, "end_txn") /\ Joined(e) = {}
        /\ active' = [active EXCEPT ![e] = NoTxn]
        /\ live' = live \ {active[e]}
        /\ locks' = [locks EXCEPT ![e] = Without(@, active[e])]
        /\ IF Emptied(e, active[e])
           THEN Goto(t, "remove_txn") /\ UNCHANGED <<writer, outcome>>
           ELSE AfterEndTxn(t)
        /\ UNCHANGED <<executor, mem, pagerVars, guards, present, cdcVars, calls,
                       disturbed>>

RemoveTxnEntry(t) ==
    /\ At(t, "remove_txn")
    /\ RemoveKey(me[t].exec)
    /\ AfterEndTxn(t)
    /\ UNCHANGED <<executor, mem, pagerVars, active, guards, live, cdcVars, calls,
                   disturbed>>

\* close: flush takes the pager's lock but not the writer mutex.
Close(t) ==
    /\ At(t, "idle") /\ calls < MaxCalls /\ "close" \in Calls
    /\ calls' = calls + 1
    /\ IF group
       THEN GroupAborted /\ disturbed' = disturbed \cup {"group_closed"}
       ELSE UNCHANGED <<pagerVars, disturbed>>
    /\ UNCHANGED <<executor, writer, mem, lockVars, cdcVars, me, outcome>>

-----------------------------------------------------------------------------
\* A step of a call under way.
Step(t) ==
    \/ CreateExecutor(t) \/ LockWriter(t) \/ BeginStatement(t)
    \/ Enter(t) \/ Acquire(t) \/ AcquireTimeout(t)
    \/ Select(t) \/ RunFails(t)
    \/ \E kind \in {"rows", "split", "ddl"} : Run(t, kind)
    \/ EndAuto(t) \/ RemoveEntry(t)
    \/ SaveSchema(t) \/ Release(t) \/ CommitStatement(t)
    \/ UndoStatement(t) \/ UndoRefused(t)
    \/ Publish(t) \/ ClearSchema(t) \/ LoadSchema(t)
    \/ BeginTransaction(t) \/ BeginTransactionGroup(t)
    \/ CommitTransaction(t) \/ RollbackTransaction(t) \/ NoTransaction(t)
    \/ EndTransaction(t) \/ RemoveTxnEntry(t)

Next == \E t \in Threads : (\E c \in Calls : Start(t, c)) \/ Close(t) \/ Step(t)

\* A call that has begun goes on: threads are scheduled, and the mutex and the
\* RwLock (parking_lot) hand over to a waiter in the end.
Fairness == \A t \in Threads : WF_vars(Step(t))

Spec == Init /\ [][Next]_vars /\ Fairness

-----------------------------------------------------------------------------
(* Properties.                                                             *)

\* No thread is inside a writing call.
Quiet == writer = Nobody

(* Every variable keeps its type; the change log stays within its capacity *)
(* (cdc.rs:133-137).                                                       *)
TypeOK ==
    /\ executor \in Threads \cup {Nobody} /\ writer \in Threads \cup {Nobody}
    /\ mem.loaded \in BOOLEAN /\ mem.reflects \subseteq Statements
    /\ group \in BOOLEAN /\ savepoint \in BOOLEAN
    /\ \A i \in DOMAIN View : View[i] \in Changes
    /\ spMark \in 0 .. Len(pend)
    /\ \A e \in Threads : active[e] \in {NoTxn, Explicit(e)}
    /\ guards \subseteq Threads /\ live \subseteq Txns /\ present \subseteq Threads
    /\ locks \in [Threads -> [Txns -> Held]]
    /\ \A i \in DOMAIN staged : staged[i] \in Statements
    /\ Len(log) <= Capacity
    /\ \A t \in Threads : me[t].pc \in PCs



\* Statements of `s` that wrote a moved root or a table; all of them must have
\* their schema pages beside it.
Whole(s) ==
    SchemaOf(s) = {s[i].stmt : i \in {j \in DOMAIN s : s[j].kind \in {"split", "ddl"}}}

(* Between writing calls the pages hold exactly the statements that        *)
(* returned Ok and were not rolled back, each of them whole: "DDL and root *)
(* changes commit atomically with the rows they describe"                  *)
(* (storage.rs:995-996), "a failing statement inside a transaction must    *)
(* undo only itself" (tests/transaction_tests.rs:3-5).                     *)
StatementAtomic ==
    Quiet /\ disturbed = {} =>
       /\ StatementsOf(View) = {s \in Statements : outcome[s] = "ok"}
       /\ Whole(durable)

(* Between writing calls the change log is the row changes of the durable  *)
(* statements, in commit order and numbered without gaps, and what is      *)
(* staged is the open transaction's: "consumers never see gaps or events   *)
(* for changes that were undone" (cdc.rs:17-18).                           *)
CdcExact ==
    Quiet /\ disturbed = {} =>
       LET rows(s) == [i \in DOMAIN RowChanges(s) |-> RowChanges(s)[i].stmt]
           n == Len(rows(durable))
       IN  /\ log = LastOf([i \in 1 .. n |-> [seq |-> i, stmt |-> rows(durable)[i]]],
                           Capacity)
           /\ next_seq = n + 1
           /\ staged = rows(pend)

(* A table lock belongs to a transaction that has not ended, whatever      *)
(* close() and the first calls do: a reader that joined the transaction    *)
(* cannot take a lock on its behalf after COMMIT has released them,        *)
(* because it keeps the guard of active_transaction (executor.rs:116-118). *)
NoLeakedLocks ==
    \A e \in Threads, x \in Txns : locks[e][x] # "None" => x \in live

(* Every call returns: no thread waits for ever on the writer mutex, on    *)
(* the statements that joined a transaction, or on a table lock of a       *)
(* transaction nobody ends (transaction.rs:267-272).                       *)
CallsReturn == \A t \in Threads : ~At(t, "idle") ~> At(t, "idle")

(* "The transaction is database-wide (a Database is one session):          *)
(* statements from any thread join it": storage.rs:1077-1079.  Whoever     *)
(* calls next finds the transaction whose group is open.                   *)
TransactionDatabaseWide ==
    Quiet /\ group => active[executor] # NoTxn

(* "The database is being closed mid-operation, abort it so we don't leave *)
(* partially-applied state behind": storage.rs:447-449.                    *)
NothingPartlyApplied == Whole(durable)

=============================================================================
