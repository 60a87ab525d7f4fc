------------------------------- MODULE Pager -------------------------------
(***************************************************************************)
(* The storage core of VelociDB: the pager (src/src/storage.rs) together   *)
(* with the write-ahead log it drives (src/src/wal.rs), the two files they *)
(* keep, power loss and failing I/O calls.                                 *)
(*                                                                         *)
(* Every Pager method takes `&mut self` behind one RwLock, so methods are  *)
(* atomic towards each other.  They are not atomic towards a crash: the    *)
(* methods that do I/O (commit_group, checkpoint, flush, recover) are      *)
(* split at every system call whose effect a crash can separate from the   *)
(* next one, and `op` is the place inside the method.                      *)
(*                                                                         *)
(* A file is two things.  `data` and `wal` are what the process reads back *)
(* through the operating system.  `dataDisk` and `walDisk` are what the    *)
(* disk may hold if the power fails now: a set of possible contents per    *)
(* page, respectively per log, which a write widens and an fsync narrows   *)
(* to the one content the process sees.                                    *)
(*                                                                         *)
(* The log is a sequence of groups, not of records: append_group puts a    *)
(* whole group down with one write at the offset `len`.  A group whose     *)
(* COMMIT record did not fully arrive, a zero-filled hole, and the         *)
(* misaligned tail of an older, longer group are all TornGroup: the scan   *)
(* of read_committed_groups stops there.                                   *)
(***************************************************************************)
EXTENDS Integers, Sequences, FiniteSets, FiniteSetsExt

CONSTANTS
    MaxPages,       \* bound: pages the file may grow to
    Values,         \* page contents callers write
    Blank,          \* Page::new(): the zeroed page
    NoPage,         \* no such page, no such map entry
    Torn,           \* content of a page whose write was cut off by a crash
    Untouched,      \* no undo entry for a page
    MaxCache,       \* max_cache_size
    CheckpointAt,   \* CHECKPOINT_WAL_BYTES, counted in groups
    Faults,         \* the I/O calls that may fail (subset of FaultKinds)
    MaxFaults       \* bound: I/O failures in one behaviour

FaultKinds == {"append", "append_sync", "set_len", "page_write", "data_sync",
               "truncate", "truncate_sync", "kill"}

ASSUME PagerConstants ==
    /\ MaxPages \in Nat \ {0}
    /\ MaxCache \in Nat \ {0}
    /\ CheckpointAt \in Nat \ {0}
    /\ MaxFaults \in Nat
    /\ Blank \in Values
    /\ NoPage \notin Values /\ Torn \notin Values /\ Untouched \notin Values
    /\ NoPage # Torn /\ NoPage # Untouched /\ Torn # Untouched
    /\ Faults \subseteq FaultKinds

VARIABLES
    \* Pager
    num_pages, cache, active_group, pending, committed, group_start_pages,
    savepoint, undo, sp_pages,
    \* WalManager
    len,
    \* the files
    data, dataDisk, wal, walDisk,
    \* control
    op, caller, faults

pagerVars == <<num_pages, cache, active_group, pending, committed,
               group_start_pages, savepoint, undo, sp_pages>>
fileVars == <<data, dataDisk, wal, walDisk>>
vars == <<pagerVars, len, fileVars, op, caller, faults>>

Pages == 0 .. MaxPages - 1
OptValue == Values \cup {NoPage}            \* an entry of a HashMap<PageId, Page>
OnDisk == Values \cup {NoPage, Torn}        \* what a page of the file may be
PageMap == [Pages -> OptValue]
NoPages == [p \in Pages |-> NoPage]
NoUndo == [p \in Pages |-> Untouched]

\* One group in the log; `ok` says that all its records, COMMIT included, parse.
Group == [ok : BOOLEAN, writes : PageMap]
TornGroup == [ok |-> FALSE, writes |-> NoPages]
CommittedGroup(m) == [ok |-> TRUE, writes |-> m]

Ops == {"closed", "recover", "recover_sync", "idle", "append", "append_sync",
        "checkpoint", "apply_sync", "truncate", "truncate_sync", "sync_all"}
Callers == {"none", "open", "open_failed", "commit", "flush", "drop"}

\* `over` wins where it has an entry: HashMap::extend, and writing pages to a file.
Overlay(over, base) == [p \in Pages |-> IF over[p] # NoPage THEN over[p] ELSE base[p]]

-----------------------------------------------------------------------------
(* The log as the scan of read_committed_groups sees it.                   *)

IntactPrefix(w) == {i \in 1 .. Len(w) : \A j \in 1 .. i : w[j].ok}
Writers(w, p) == {i \in IntactPrefix(w) : w[i].writes[p] # NoPage}

\* Replaying the intact groups in order: the last one that has the page wins.
Replay(w, d) ==
    [p \in Pages |-> LET ws == Writers(w, p)
                     IN  IF ws = {} THEN d[p] ELSE w[Max(ws)].writes[p]]

\* File::set_len(n), and a write at offset n: both fill a gap with zeros.
SetLen(w, n) == [i \in 1 .. n |-> IF i <= Len(w) THEN w[i] ELSE TornGroup]
WriteAt(w, n, g) == Append(SetLen(w, n), g)

\* num_pages as Pager::new derives it from the file length.
IsFileSize(d, n) ==
    /\ n \in 0 .. MaxPages
    /\ \A p \in Pages : d[p] # NoPage => p < n
    /\ n > 0 => d[n - 1] # NoPage

-----------------------------------------------------------------------------
Init ==
    /\ num_pages = 0 /\ cache = NoPages /\ active_group = "None"
    /\ pending = NoPages /\ committed = NoPages /\ group_start_pages = 0
    /\ savepoint = "None" /\ undo = NoUndo /\ sp_pages = 0
    /\ len = 0
    /\ data = NoPages /\ dataDisk = [p \in Pages |-> {NoPage}]
    /\ wal = <<>> /\ walDisk = {<<>>}
    /\ op = "closed" /\ caller = "none" /\ faults = 0

Fault(kind) == kind \in Faults /\ faults < MaxFaults /\ faults' = faults + 1

\* No Pager object: its fields have no value.
NoPager ==
    /\ num_pages' = 0 /\ cache' = NoPages /\ active_group' = "None"
    /\ pending' = NoPages /\ committed' = NoPages /\ group_start_pages' = 0
    /\ savepoint' = "None" /\ undo' = NoUndo /\ sp_pages' = 0
    /\ len' = 0 /\ op' = "closed" /\ caller' = "none"

\* recover()? in Pager::new: the half-built Pager is dropped, and Drop's flush has
\* no group to abort and nothing to checkpoint before its sync_all.
OpenFails ==
    /\ op' = "sync_all" /\ caller' = "open_failed"
    /\ UNCHANGED <<pagerVars, len>>

\* write_page_raw moves num_pages past the pages recovery writes.
GrowTo(written) ==
    \E n \in 0 .. MaxPages :
       /\ num_pages' = n
       /\ num_pages <= n
       /\ \A p \in written : p < n
       /\ n = num_pages \/ n - 1 \in written

ClearSavepoint == savepoint' = "None" /\ undo' = NoUndo /\ sp_pages' = 0

-----------------------------------------------------------------------------
(* Opening: Pager::new, WalManager::open and recover.                      *)

Open ==
    /\ op = "closed"
    /\ \E n \in 0 .. MaxPages :
         IsFileSize(data, n) /\ num_pages' = n /\ group_start_pages' = n
    /\ len' = Len(wal)
    /\ op' = IF Len(wal) = 0 THEN "idle" ELSE "recover"
    /\ caller' = IF Len(wal) = 0 THEN "none" ELSE "open"
    /\ UNCHANGED <<cache, active_group, pending, committed, savepoint, undo,
                   sp_pages, fileVars, faults>>

\* Pages some intact group writes, with every content written on the way.
Replayed(p) == {wal[i].writes[p] : i \in Writers(wal, p)}

\* Mutation: recovery truncates the log without syncing the data file.
RecoverUnsynced ==
    /\ op = "recover"
    /\ data' = Replay(wal, data)
    /\ dataDisk' = [p \in Pages |-> IF Replayed(p) = {} THEN dataDisk[p]
                                    ELSE dataDisk[p] \cup Replayed(p) \cup {Torn}]
    /\ GrowTo({p \in Pages : Replayed(p) # {}})
    /\ op' = "truncate"
    /\ UNCHANGED <<cache, active_group, pending, committed, group_start_pages,
                   savepoint, undo, sp_pages, len, wal, walDisk, caller, faults>>

\* Mutation: the log is left alone when it holds no committed group.
RecoverKeepsTail ==
    /\ op = "recover"
    /\ data' = Replay(wal, data)
    /\ dataDisk' = [p \in Pages |-> IF Replayed(p) = {} THEN dataDisk[p]
                                    ELSE dataDisk[p] \cup Replayed(p) \cup {Torn}]
    /\ GrowTo({p \in Pages : Replayed(p) # {}})
    /\ op' = IF IntactPrefix(wal) = {} THEN "idle" ELSE "recover_sync"
    /\ caller' = IF IntactPrefix(wal) = {} THEN "none" ELSE caller
    /\ UNCHANGED <<cache, active_group, pending, committed, group_start_pages,
                   savepoint, undo, sp_pages, len, wal, walDisk, faults>>

Recover ==
    /\ op = "recover"
    /\ data' = Replay(wal, data)
    /\ dataDisk' = [p \in Pages |-> IF Replayed(p) = {} THEN dataDisk[p]
                                    ELSE dataDisk[p] \cup Replayed(p) \cup {Torn}]
    /\ GrowTo({p \in Pages : Replayed(p) # {}})
    /\ op' = IF IntactPrefix(wal) = {} THEN "truncate" ELSE "recover_sync"
    /\ UNCHANGED <<cache, active_group, pending, committed, group_start_pages,
                   savepoint, undo, sp_pages, len, wal, walDisk, caller, faults>>

\* A write fails part of the way.
RecoverFails ==
    /\ op = "recover"
    /\ Fault("page_write")
    /\ \E d \in [Pages -> OnDisk] :
         /\ \A p \in Pages : d[p] \in {data[p]} \cup Replayed(p)
         /\ data' = d
    /\ dataDisk' = [p \in Pages |-> IF Replayed(p) = {} THEN dataDisk[p]
                                    ELSE dataDisk[p] \cup Replayed(p) \cup {Torn}]
    /\ OpenFails
    /\ UNCHANGED <<wal, walDisk>>

RecoverSync ==
    /\ op = "recover_sync"
    /\ dataDisk' = [p \in Pages |-> {data[p]}]
    /\ op' = "truncate"
    /\ UNCHANGED <<pagerVars, len, data, wal, walDisk, caller, faults>>

RecoverSyncFails ==
    /\ op = "recover_sync"
    /\ Fault("data_sync")
    /\ OpenFails
    /\ UNCHANGED fileVars

-----------------------------------------------------------------------------
(* Write groups and savepoints: in-memory bookkeeping only.                *)

\* Mutation: begin_group forgets to note num_pages.
BeginGroupKeepsStart ==
    /\ op = "idle" /\ active_group = "None"
    /\ active_group' = "Some"
    /\ UNCHANGED <<num_pages, cache, pending, committed, group_start_pages, savepoint,
                   undo, sp_pages, len, fileVars, op, caller, faults>>

BeginGroup ==
    /\ op = "idle" /\ active_group = "None"
    /\ active_group' = "Some"
    /\ group_start_pages' = num_pages
    /\ UNCHANGED <<num_pages, cache, pending, committed, savepoint, undo, sp_pages,
                   len, fileVars, op, caller, faults>>

\* Mutation: abort_group leaves num_pages as the group grew it.
AbortKeepsNumPages ==
    /\ active_group' = "None"
    /\ ClearSavepoint
    /\ pending' = NoPages
    /\ cache' = [p \in Pages |-> IF pending[p] # NoPage THEN NoPage ELSE cache[p]]
    /\ num_pages' = num_pages

\* What abort_group does to the fields, wherever it is called from.
AbortFields ==
    /\ active_group' = "None"
    /\ ClearSavepoint
    /\ pending' = NoPages
    /\ cache' = [p \in Pages |-> IF pending[p] # NoPage THEN NoPage ELSE cache[p]]
    /\ num_pages' = group_start_pages

AbortGroup ==
    /\ op = "idle" /\ active_group = "Some"
    /\ AbortFields
    /\ UNCHANGED <<committed, group_start_pages, len, fileVars, op, caller, faults>>

BeginSavepoint ==
    /\ op = "idle" /\ active_group = "Some" /\ savepoint = "None"
    /\ savepoint' = "Some" /\ undo' = NoUndo /\ sp_pages' = num_pages
    /\ UNCHANGED <<num_pages, cache, active_group, pending, committed,
                   group_start_pages, len, fileVars, op, caller, faults>>

ReleaseSavepoint ==
    /\ op = "idle" /\ savepoint = "Some"
    /\ ClearSavepoint
    /\ UNCHANGED <<num_pages, cache, active_group, pending, committed,
                   group_start_pages, len, fileVars, op, caller, faults>>

\* Mutations of rollback_to_savepoint: the cache is not evicted; pages pending
\* before the savepoint are dropped; every page is restored from `undo`.
RollbackNoEvict ==
    /\ op = "idle" /\ savepoint = "Some"
    /\ pending' = [p \in Pages |-> IF undo[p] = Untouched THEN pending[p] ELSE undo[p]]
    /\ num_pages' = sp_pages
    /\ ClearSavepoint
    /\ UNCHANGED <<cache, active_group, committed, group_start_pages, len, fileVars,
                   op, caller, faults>>

RollbackDropsPrior ==
    /\ op = "idle" /\ savepoint = "Some"
    /\ pending' = [p \in Pages |-> IF undo[p] = Untouched THEN pending[p] ELSE NoPage]
    /\ cache' = [p \in Pages |-> IF undo[p] = Untouched THEN cache[p] ELSE NoPage]
    /\ num_pages' = sp_pages
    /\ ClearSavepoint
    /\ UNCHANGED <<active_group, committed, group_start_pages, len, fileVars, op,
                   caller, faults>>

RollbackRestoresAll ==
    /\ op = "idle" /\ savepoint = "Some"
    /\ pending' = undo
    /\ cache' = NoPages
    /\ num_pages' = sp_pages
    /\ ClearSavepoint
    /\ UNCHANGED <<active_group, committed, group_start_pages, len, fileVars, op,
                   caller, faults>>

RollbackToSavepoint ==
    /\ op = "idle" /\ savepoint = "Some"
    /\ pending' = [p \in Pages |-> IF undo[p] = Untouched THEN pending[p] ELSE undo[p]]
    /\ cache' = [p \in Pages |-> IF undo[p] = Untouched THEN cache[p] ELSE NoPage]
    /\ num_pages' = sp_pages
    /\ ClearSavepoint
    /\ UNCHANGED <<active_group, committed, group_start_pages, len, fileVars, op,
                   caller, faults>>

-----------------------------------------------------------------------------
(* Reading and writing pages.                                              *)

Cached == {p \in Pages : cache[p] # NoPage}

\* Mutation: evict only once the cache is over its limit.
CacheInsertLate(p, v) ==
    /\ Cardinality(Cached) <= MaxCache
    /\ cache' = [cache EXCEPT ![p] = v]

\* Insert into the cache, first evicting any one entry when it is full.  The
\* victim may be the page itself (write_page's `break`).
CacheInsert(p, v) ==
    \/ /\ Cardinality(Cached) < MaxCache
       /\ cache' = [cache EXCEPT ![p] = v]
    \/ /\ Cardinality(Cached) >= MaxCache
       /\ \E victim \in Cached : cache' = [cache EXCEPT ![victim] = NoPage, ![p] = v]

\* What read_page returns; NoPage stands for Err.
ReadResult(p) ==
    IF pending[p] # NoPage THEN pending[p]
    ELSE IF cache[p] # NoPage THEN cache[p]
    ELSE IF committed[p] # NoPage THEN committed[p]
    ELSE IF p < num_pages THEN data[p]
    ELSE NoPage

\* Only a read that misses `pending` and the cache and finds the page changes state.
ReadPage(p) ==
    /\ op = "idle"
    /\ pending[p] = NoPage /\ cache[p] = NoPage
    /\ ReadResult(p) # NoPage
    /\ CacheInsert(p, ReadResult(p))
    /\ UNCHANGED <<num_pages, active_group, pending, committed, group_start_pages,
                   savepoint, undo, sp_pages, len, fileVars, op, caller, faults>>

\* write_page.  With no active group it opens one and goes on to commit it.
Write(p, v) ==
    /\ op = "idle"
    /\ active_group' = "Some"
    /\ group_start_pages' = IF active_group = "None" THEN num_pages ELSE group_start_pages
    /\ undo' = IF savepoint = "Some" /\ undo[p] = Untouched
               THEN [undo EXCEPT ![p] = pending[p]] ELSE undo
    /\ pending' = [pending EXCEPT ![p] = v]
    /\ CacheInsert(p, v)
    /\ num_pages' = IF p >= num_pages THEN p + 1 ELSE num_pages
    /\ op' = IF active_group = "None" THEN "append" ELSE "idle"
    /\ UNCHANGED <<committed, savepoint, sp_pages, len, fileVars, caller, faults>>

\* The engine only writes pages it has allocated.
WritePage(p, v) == p < num_pages /\ Write(p, v)
AllocatePage == num_pages < MaxPages /\ Write(num_pages, Blank)

-----------------------------------------------------------------------------
(* commit_group and WalManager::append_group.                              *)

CommitGroup ==
    /\ op = "idle" /\ active_group = "Some"
    /\ ClearSavepoint
    /\ IF pending = NoPages
       THEN active_group' = "None" /\ op' = op
       ELSE op' = "append" /\ UNCHANGED active_group
    /\ UNCHANGED <<num_pages, cache, pending, committed, group_start_pages, len,
                   fileVars, caller, faults>>

\* seek(len) and write_all: until the fsync the disk may hold all of it or part.
AppendWrite ==
    /\ op = "append"
    /\ wal' = WriteAt(wal, len, CommittedGroup(pending))
    /\ walDisk' = walDisk \cup {WriteAt(wal, len, CommittedGroup(pending)),
                                WriteAt(wal, len, TornGroup)}
    /\ op' = "append_sync"
    /\ UNCHANGED <<pagerVars, len, data, dataDisk, caller, faults>>

\* sync_data succeeds: the commit is durable.
AppendSync ==
    /\ op = "append_sync"
    /\ walDisk' = {wal}
    /\ len' = len + 1
    /\ active_group' = "None"
    /\ committed' = Overlay(pending, committed)
    /\ pending' = NoPages
    /\ op' = IF len + 1 >= CheckpointAt THEN "checkpoint" ELSE "idle"
    /\ caller' = IF len + 1 >= CheckpointAt THEN "commit" ELSE "none"
    /\ UNCHANGED <<num_pages, cache, group_start_pages, savepoint, undo, sp_pages,
                   data, dataDisk, wal, faults>>

\* The best-effort set_len(len) after a failed append to `w`: its result is
\* ignored, and it is not fsynced.
CutBack(w) ==
    \/ /\ wal' = SetLen(w, len)
       /\ walDisk' = walDisk \cup {w, SetLen(w, len)}
    \/ /\ "set_len" \in Faults
       /\ wal' = w
       /\ walDisk' = walDisk \cup {w}

\* write_all fails: at most a part of the group is in the file.
AppendWriteFails ==
    /\ op = "append"
    /\ Fault("append")
    /\ CutBack(wal) \/ CutBack(WriteAt(wal, len, TornGroup))
    /\ AbortFields
    /\ op' = "idle"
    /\ UNCHANGED <<committed, group_start_pages, len, data, dataDisk, caller>>

\* sync_data fails: the disk may hold the group, or part of it, or nothing of it.
AppendSyncFails ==
    /\ op = "append_sync"
    /\ Fault("append_sync")
    /\ CutBack(wal)
    /\ AbortFields
    /\ op' = "idle"
    /\ UNCHANGED <<committed, group_start_pages, len, data, dataDisk, caller>>

-----------------------------------------------------------------------------
(* checkpoint and WalManager::truncate.  `committed` is put back on every  *)
(* error path and the lock is held throughout, so it is emptied at the     *)
(* end.  Recovery shares the truncation.                                   *)

\* Mutation: a failed checkpoint does not put `committed` back.
CheckpointErrForgets ==
    /\ caller \in {"commit", "flush"}
    /\ op' = "idle" /\ caller' = "none" /\ committed' = NoPages
    /\ UNCHANGED <<num_pages, cache, active_group, pending, group_start_pages,
                   savepoint, undo, sp_pages, len>>

\* Where control goes when the checkpoint (or recovery's truncate) returns Err:
\* commit_group only logs it, flush hands it on, Drop ignores it, Pager::new
\* gives up.
CheckpointErr ==
    \/ /\ caller \in {"commit", "flush"}
       /\ op' = "idle" /\ caller' = "none"
       /\ UNCHANGED <<pagerVars, len>>
    \/ caller = "drop" /\ NoPager
    \/ caller = "open" /\ OpenFails

\* Mutation: the log is truncated before the data file is synced.
CheckpointUnsynced ==
    /\ op = "checkpoint" /\ committed # NoPages
    /\ data' = Overlay(committed, data)
    /\ dataDisk' = [p \in Pages |-> IF committed[p] = NoPage THEN dataDisk[p]
                                    ELSE dataDisk[p] \cup {committed[p], Torn}]
    /\ op' = "truncate"
    /\ UNCHANGED <<pagerVars, len, wal, walDisk, caller, faults>>

\* write_page_raw for every committed page.  They all lie below num_pages
\* (CommittedInFile), so it has no num_pages to move.
CheckpointApply ==
    /\ op = "checkpoint"
    /\ IF committed = NoPages
       THEN op' = "sync_all" /\ UNCHANGED <<data, dataDisk>>
       ELSE /\ data' = Overlay(committed, data)
            /\ dataDisk' = [p \in Pages |-> IF committed[p] = NoPage THEN dataDisk[p]
                                            ELSE dataDisk[p] \cup {committed[p], Torn}]
            /\ op' = "apply_sync"
    /\ UNCHANGED <<pagerVars, len, wal, walDisk, caller, faults>>

\* The pages are written in ascending order up to the one that fails.
CheckpointApplyFails ==
    /\ op = "checkpoint" /\ committed # NoPages
    /\ Fault("page_write")
    /\ \E failed \in Pages :
         /\ committed[failed] # NoPage
         /\ data' = [p \in Pages |-> IF p < failed /\ committed[p] # NoPage
                                     THEN committed[p] ELSE data[p]]
         /\ dataDisk' = [p \in Pages |-> IF p <= failed /\ committed[p] # NoPage
                                         THEN dataDisk[p] \cup {committed[p], Torn}
                                         ELSE dataDisk[p]]
    /\ CheckpointErr
    /\ UNCHANGED <<wal, walDisk>>

CheckpointSync ==
    /\ op = "apply_sync"
    /\ dataDisk' = [p \in Pages |-> {data[p]}]
    /\ op' = "truncate"
    /\ UNCHANGED <<pagerVars, len, data, wal, walDisk, caller, faults>>

CheckpointSyncFails ==
    /\ op = "apply_sync"
    /\ Fault("data_sync")
    /\ CheckpointErr
    /\ UNCHANGED fileVars

Truncate ==
    /\ op = "truncate"
    /\ wal' = <<>>
    /\ walDisk' = walDisk \cup {<<>>}
    /\ op' = "truncate_sync"
    /\ UNCHANGED <<pagerVars, len, data, dataDisk, caller, faults>>

TruncateFails ==
    /\ op = "truncate"
    /\ Fault("truncate")
    /\ CheckpointErr
    /\ UNCHANGED fileVars

TruncateSync ==
    /\ op = "truncate_sync"
    /\ walDisk' = {wal}
    /\ len' = 0
    /\ committed' = NoPages
    /\ op' = IF caller \in {"flush", "drop"} THEN "sync_all" ELSE "idle"
    /\ caller' = IF caller \in {"flush", "drop"} THEN caller ELSE "none"
    /\ UNCHANGED <<num_pages, cache, active_group, pending, group_start_pages,
                   savepoint, undo, sp_pages, data, dataDisk, wal, faults>>

\* set_len(0) went through and sync_all did not: `len` keeps its old value.
TruncateSyncFails ==
    /\ op = "truncate_sync"
    /\ Fault("truncate_sync")
    /\ CheckpointErr
    /\ UNCHANGED fileVars

-----------------------------------------------------------------------------
(* flush, Drop, and the end of the process.                                *)

\* Both abort the active group, if there is one, and checkpoint.
StartFlush(who) ==
    /\ op = "idle"
    /\ op' = "checkpoint" /\ caller' = who
    /\ IF active_group = "Some"
       THEN AbortFields
       ELSE UNCHANGED <<active_group, savepoint, undo, sp_pages, pending, cache,
                        num_pages>>
    /\ UNCHANGED <<committed, group_start_pages, len, fileVars, faults>>

Flush == StartFlush("flush")
Drop == StartFlush("drop")

SyncAllReturns ==
    \/ /\ caller = "flush"
       /\ op' = "idle" /\ caller' = "none"
       /\ UNCHANGED <<pagerVars, len>>
    \/ caller \in {"drop", "open_failed"} /\ NoPager

SyncAll ==
    /\ op = "sync_all"
    /\ dataDisk' = [p \in Pages |-> {data[p]}]
    /\ SyncAllReturns
    /\ UNCHANGED <<data, wal, walDisk, faults>>

SyncAllFails ==
    /\ op = "sync_all"
    /\ Fault("data_sync")
    /\ SyncAllReturns
    /\ UNCHANGED fileVars

\* The process is killed: memory is gone, the files are what it last saw of them.
Kill ==
    /\ op # "closed"
    /\ Fault("kill")
    /\ NoPager
    /\ UNCHANGED fileVars

\* Power loss, at any point: each file is whatever the disk may hold.
Crash ==
    /\ \E d \in [Pages -> OnDisk] :
         /\ \A p \in Pages : d[p] \in dataDisk[p]
         /\ data' = d
         /\ dataDisk' = [p \in Pages |-> {d[p]}]
    /\ \E w \in walDisk : wal' = w /\ walDisk' = {w}
    /\ NoPager
    /\ UNCHANGED faults

-----------------------------------------------------------------------------
Next ==
    \/ Open \/ Recover \/ RecoverFails \/ RecoverSync \/ RecoverSyncFails
    \/ BeginGroup \/ AbortGroup
    \/ BeginSavepoint \/ ReleaseSavepoint \/ RollbackToSavepoint
    \/ \E p \in Pages : ReadPage(p)
    \/ \E p \in Pages, v \in Values : WritePage(p, v)
    \/ AllocatePage
    \/ CommitGroup \/ AppendWrite \/ AppendSync
    \/ AppendWriteFails \/ AppendSyncFails
    \/ CheckpointApply \/ CheckpointSync \/ Truncate \/ TruncateSync
    \/ CheckpointApplyFails \/ CheckpointSyncFails
    \/ TruncateFails \/ TruncateSyncFails
    \/ Flush \/ Drop \/ SyncAll \/ SyncAllFails
    \/ Kill \/ Crash

Spec == Init /\ [][Next]_vars

-----------------------------------------------------------------------------
(* What the pager's state says about the store.                            *)

\* A Pager object exists and its recovery is over.
IsOpen == /\ op \notin {"closed", "recover", "recover_sync"}
          /\ caller \notin {"open", "open_failed"}

\* The newest version of every page: pending, else committed, else on disk.
CommittedImage == Overlay(committed, data)
Newest == Overlay(pending, CommittedImage)

DiskImages == {d \in [Pages -> OnDisk] : \A p \in Pages : d[p] \in dataDisk[p]}

-----------------------------------------------------------------------------
(* Properties.                                                             *)

(* Every field keeps its type (storage.rs:76-98, wal.rs:59-66): in         *)
(* particular num_pages and the page numbers a savepoint or an abort       *)
(* restores stay within the file.                                          *)
TypeOK ==
    /\ num_pages \in 0 .. MaxPages /\ group_start_pages \in 0 .. MaxPages
    /\ sp_pages \in 0 .. MaxPages
    /\ cache \in [Pages -> OnDisk]
    /\ pending \in PageMap /\ committed \in PageMap
    /\ undo \in [Pages -> OptValue \cup {Untouched}]
    /\ active_group \in {"None", "Some"} /\ savepoint \in {"None", "Some"}
    /\ len \in Nat
    /\ data \in [Pages -> OnDisk]
    /\ dataDisk \in [Pages -> SUBSET OnDisk]
    /\ wal \in Seq(Group) /\ walDisk \subseteq Seq(Group)
    /\ op \in Ops /\ caller \in Callers /\ faults \in 0 .. MaxFaults

(* "A cached page always equals its newest version (pending, else          *)
(* committed, else on disk)": storage.rs:343-345.  Broken by any path that *)
(* drops or undoes a write and leaves its page cached.                     *)
CacheCoherent ==
    \A p \in Pages : cache[p] # NoPage => cache[p] = Newest[p]

(* The cache never outgrows max_cache_size, although both read_page and    *)
(* write_page insert and abort, rollback and eviction remove.              *)
CacheBounded == Cardinality(Cached) <= MaxCache

(* Between calls, the pages below num_pages are exactly the pages that     *)
(* exist, and none of them is torn: read_page finds every page it is       *)
(* allowed to read (storage.rs:353-366), and abort and rollback give page  *)
(* numbers back together with the pages.                                   *)
PagesReadable ==
    op = "idle" => \A p \in Pages : IF p < num_pages THEN Newest[p] \in Values
                                                     ELSE Newest[p] = NoPage

(* A checkpoint finds every committed page below num_pages: no abort or    *)
(* rollback takes back the number of a page an earlier group committed     *)
(* (storage.rs:275-277, 321), so write_page_raw never grows the file       *)
(* behind the pager's back (storage.rs:194-196).                           *)
CommittedInFile == \A p \in Pages : committed[p] # NoPage => p < num_pages

(* Power loss now, whatever the disk made of the unsynced writes: the      *)
(* recovered store is the committed image, or that image with one whole    *)
(* group on top whose commit was under way or failed.  "A crash at any     *)
(* point leaves either the old state or a replayable committed group":     *)
(* docs/architecture.md:84-88.                                             *)
CrashSafe ==
    IsOpen => \A w \in walDisk, d \in DiskImages :
                 \/ Replay(w, d) = CommittedImage
                 \/ /\ Len(w) = len + 1
                    /\ Replay(w, d) = Overlay(w[len + 1].writes, CommittedImage)

(* Power loss now, in recovery too: replaying the log mends every page     *)
(* whose write was cut off.                                                *)
RecoveryMendsTornPages ==
    \A w \in walDisk, d \in DiskImages, p \in Pages : Replay(w, d)[p] # Torn

(* While the pager is open only the fsync of a commit changes the          *)
(* committed image, and it changes it to what the writer was reading:      *)
(* failing checkpoints, failing flushes, aborts and evictions never show   *)
(* (storage.rs:158-160, 252-255).                                          *)
CommittedChangesOnlyByCommit ==
    [][IsOpen /\ IsOpen' /\ CommittedImage' # CommittedImage
         => op = "append_sync" /\ CommittedImage' = Newest]_vars

(* A commit that returned Err is gone: "If this also fails, recovery still *)
(* ignores the group (no durable COMMIT)", wal.rs:134-137, and "No COMMIT  *)
(* record is durable, so recovery ignores the group", storage.rs:246.      *)
FailedCommitForgotten ==
    [][op = "idle" /\ Crash => Replay(wal', data') = CommittedImage]_vars

(* "After this returns successfully the group is durable": wal.rs:100-101, *)
(* append_group.  When its fsync has returned, every disk the power loss   *)
(* can leave recovers to what the writer was reading.                      *)
AckedCommitDurable ==
    [][AppendSync => \A w \in walDisk', d \in DiskImages' : Replay(w, d) = Newest]_vars

=============================================================================
