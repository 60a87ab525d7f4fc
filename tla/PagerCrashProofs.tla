------------------------- MODULE PagerCrashProofs -------------------------
(***************************************************************************)
(* Crash safety of the pager, for every number of pages, every set of page *)
(* contents, every checkpoint threshold and any number of crashes, under   *)
(* the I/O failures of Benign.  The excluded ones are the failures whose   *)
(* handling the runs pager_truncate_error and pager_killed refute.         *)
(***************************************************************************)
EXTENDS PagerProofs

(* No fsync failure inside WalManager::truncate, no restart on top of a    *)
(* log the disk does not yet hold: the process is not killed before the    *)
(* fsync of a commit, and a group whose fsync failed is cut off again.     *)
Benign ==
    /\ "truncate_sync" \notin Faults
    /\ "kill" \notin Faults
    /\ "append_sync" \notin Faults \/ "set_len" \notin Faults

(* The first n groups of the log w are intact and amount to the page map   *)
(* m: each page of m comes from the last of them that has the page.  One   *)
(* more group may follow, whole or torn.                                   *)
HoldsAt(w, n, m, p) ==
    \/ m[p] = NoPage /\ \A i \in 1 .. n : w[i].writes[p] = NoPage
    \/ /\ m[p] # NoPage
       /\ \E i \in 1 .. n : /\ w[i].writes[p] = m[p]
                            /\ \A j \in 1 .. n : j > i => w[j].writes[p] = NoPage

Holds(w, n, m) ==
    /\ Len(w) = n \/ Len(w) = n + 1
    /\ \A i \in 1 .. n : w[i].ok
    /\ \A p \in Pages : HoldsAt(w, n, m, p)

(* The inductive invariant.  Every log the disk may hold starts with the   *)
(* same committed groups, and a page is uncertain on disk only while those *)
(* groups cover it.                                                        *)
LogIs(n, m) ==
    /\ \A w \in walDisk : Holds(w, n, m) \/ (op = "truncate_sync" /\ w = << >>)
    /\ \A p \in Pages : m[p] = NoPage \/ op \in {"truncate", "truncate_sync"}
                          => dataDisk[p] = {data[p]} /\ data[p] # Torn
    /\ op \in {"recover_sync", "apply_sync", "truncate", "truncate_sync"}
         => \A p \in Pages : m[p] # NoPage => data[p] = m[p]
    /\ op # "append_sync" /\ Len(wal) = n + 1 => ~wal[n + 1].ok

LogInv ==
    /\ wal \in walDisk
    /\ IsOpen => LogIs(len, committed)
    /\ ~IsOpen => \E n \in Nat, m \in PageMap : LogIs(n, m)
    /\ op = "append_sync" => Len(wal) = len + 1 /\ wal[len + 1] = CommittedGroup(pending)
    /\ op = "truncate_sync" => wal = << >>

CrashInv == CacheInv /\ LogInv

-----------------------------------------------------------------------------
(* Replaying such a log.                                                   *)

(* How far recovery reads in a log that holds n groups and perhaps one     *)
(* more.                                                                   *)
LEMMA IntactOfHolds ==
  ASSUME NEW w \in Seq(Group), NEW n \in Nat, NEW m \in PageMap, Holds(w, n, m)
  PROVE  /\ Len(w) = n + 1 /\ w[n + 1].ok => IntactPrefix(w) = 1 .. n + 1
         /\ ~(Len(w) = n + 1 /\ w[n + 1].ok) => IntactPrefix(w) = 1 .. n
<1>1. \A i \in 1 .. n : w[i].ok
  BY DEF Holds
<1>2. ASSUME Len(w) = n + 1, w[n + 1].ok PROVE IntactPrefix(w) = 1 .. n + 1
  BY <1>1, <1>2 DEF IntactPrefix
<1>3. ASSUME ~(Len(w) = n + 1 /\ w[n + 1].ok) PROVE IntactPrefix(w) = 1 .. n
  <2>1. CASE Len(w) = n
    BY <1>1, <2>1 DEF IntactPrefix
  <2>2. CASE Len(w) = n + 1 /\ ~w[n + 1].ok
    BY <1>1, <2>2 DEF IntactPrefix
  <2> QED BY <1>3, <2>1, <2>2 DEF Holds
<1> QED BY <1>2, <1>3

\* The last write to page p in a log that holds (n, m), over what the file has.
LastWrite(w, n, m, p, onDisk) ==
    IF Len(w) = n + 1 /\ w[n + 1].ok /\ w[n + 1].writes[p] # NoPage
    THEN w[n + 1].writes[p]
    ELSE IF m[p] # NoPage THEN m[p] ELSE onDisk

(* What recovery writes to a page.                                         *)
LEMMA ReplayOfHolds ==
  ASSUME NEW w \in Seq(Group), NEW n \in Nat, NEW m \in PageMap, Holds(w, n, m),
         NEW d, NEW p \in Pages
  PROVE  Replay(w, d)[p] = LastWrite(w, n, m, p, d[p])
<1> USE DEF LastWrite
<1>1. Replay(w, d)[p] = IF Writers(w, p) = {} THEN d[p] ELSE w[Max(Writers(w, p))].writes[p]
  BY DEF Replay
<1>2. HoldsAt(w, n, m, p)
  BY DEF Holds
<1>3. CASE Len(w) = n + 1 /\ w[n + 1].ok /\ w[n + 1].writes[p] # NoPage
  <2>1. IntactPrefix(w) = 1 .. n + 1
    BY <1>3, IntactOfHolds
  <2>2. n + 1 \in Writers(w, p) /\ \A i \in Writers(w, p) : i <= n + 1
    BY <1>3, <2>1 DEF Writers
  <2>3. Max(Writers(w, p)) = n + 1
    <3>1. Max(Writers(w, p)) \in Writers(w, p) /\ n + 1 <= Max(Writers(w, p))
      BY <2>2, WritersBounded
    <3>2. Writers(w, p) \subseteq 1 .. n + 1
      BY <2>1 DEF Writers
    <3> QED BY <2>2, <3>1, <3>2
  <2> QED BY <1>1, <1>3, <2>2, <2>3
<1>4. CASE ~(Len(w) = n + 1 /\ w[n + 1].ok /\ w[n + 1].writes[p] # NoPage)
  <2>1. Writers(w, p) = {i \in 1 .. n : w[i].writes[p] # NoPage}
    BY <1>4, IntactOfHolds DEF Writers
  <2>2. CASE m[p] = NoPage
    BY <1>1, <1>2, <1>4, <2>1, <2>2 DEF HoldsAt
  <2>3. CASE m[p] # NoPage
    <3>1. PICK i \in 1 .. n : /\ w[i].writes[p] = m[p]
                              /\ \A j \in 1 .. n : j > i => w[j].writes[p] = NoPage
      BY <1>2, <2>3 DEF HoldsAt
    <3>2. i \in Writers(w, p) /\ \A j \in Writers(w, p) : j <= i
      BY <2>1, <2>3, <3>1
    <3>3. Max(Writers(w, p)) \in Writers(w, p) /\ i <= Max(Writers(w, p))
      BY <3>2, WritersBounded
    <3>4. Max(Writers(w, p)) = i
      BY <2>1, <3>2, <3>3
    <3> QED BY <1>1, <1>4, <2>3, <3>1, <3>2, <3>4
  <2> QED BY <2>2, <2>3
<1> QED BY <1>3, <1>4

-----------------------------------------------------------------------------
(* Building such a log.                                                    *)

(* An empty log, or one with a single group, holds no committed group.     *)
LEMMA HoldsEmpty ==
  \A w \in Seq(Group) : Len(w) \in {0, 1} => Holds(w, 0, NoPages)
BY DEF Holds, HoldsAt, NoPages

(* Only the first n groups count.                                          *)
LEMMA HoldsSamePrefix ==
  ASSUME NEW w \in Seq(Group), NEW v \in Seq(Group), NEW n \in Nat, NEW m \in PageMap,
         Holds(w, n, m), Len(v) \in {n, n + 1}, \A i \in 1 .. n : v[i] = w[i]
  PROVE  Holds(v, n, m)
BY DEF Holds, HoldsAt

(* Appending after n groups, or cutting back to them, keeps them.          *)
LEMMA HoldsWriteAt ==
  ASSUME NEW w \in Seq(Group), NEW n \in Nat, NEW m \in PageMap, NEW g \in Group,
         Holds(w, n, m)
  PROVE  Holds(WriteAt(w, n, g), n, m) /\ Holds(SetLen(w, n), n, m)
<1>1. Len(w) >= n
  BY DEF Holds
<1>2. \A i \in 1 .. n : SetLen(w, n)[i] = w[i]
  BY <1>1, SetLenFacts
<1>3. /\ SetLen(w, n) \in Seq(Group) /\ Len(SetLen(w, n)) = n
      /\ WriteAt(w, n, g) \in Seq(Group) /\ Len(WriteAt(w, n, g)) = n + 1
      /\ \A i \in 1 .. n : WriteAt(w, n, g)[i] = w[i]
  BY <1>2, SetLenFacts, WriteAtFacts
<1>4. Holds(SetLen(w, n), n, m)
  BY <1>2, <1>3, HoldsSamePrefix
<1>5. Holds(WriteAt(w, n, g), n, m)
  BY <1>3, HoldsSamePrefix
<1> QED BY <1>4, <1>5

(* An intact group after the n becomes the next committed one.             *)
LEMMA HoldsExtend ==
  ASSUME NEW w \in Seq(Group), NEW n \in Nat, NEW m \in PageMap,
         Holds(w, n, m), Len(w) = n + 1, w[n + 1].ok
  PROVE  Holds(w, n + 1, Overlay(w[n + 1].writes, m))
<1> DEFINE g == w[n + 1].writes
<1>1. g \in PageMap
  BY GroupTypes
<1>2. \A i \in 1 .. n + 1 : w[i].ok
  BY DEF Holds
<1>3. ASSUME NEW p \in Pages PROVE HoldsAt(w, n + 1, Overlay(g, m), p)
  <2>1. Overlay(g, m)[p] = IF g[p] # NoPage THEN g[p] ELSE m[p]
    BY DEF Overlay
  <2>2. HoldsAt(w, n, m, p)
    BY DEF Holds
  <2>3. CASE g[p] # NoPage
    <3>1. n + 1 \in 1 .. n + 1 /\ \A j \in 1 .. n + 1 : ~(j > n + 1)
      OBVIOUS
    <3> QED BY <2>1, <2>3, <3>1 DEF HoldsAt
  <2>4. CASE g[p] = NoPage
    <3>1. \A j \in 1 .. n + 1 : j \in 1 .. n \/ w[j].writes[p] = NoPage
      BY <2>4
    <3> QED BY <2>1, <2>2, <2>4, <3>1 DEF HoldsAt
  <2> QED BY <2>3, <2>4
<1> QED BY <1>2, <1>3 DEF Holds

-----------------------------------------------------------------------------
(* The invariant holds initially and every step keeps it.                  *)

(* A new database has an empty log.                                        *)
LEMMA InitCrashInv == Init => CrashInv
<1> SUFFICES ASSUME Init PROVE LogInv
  BY InitCacheInv DEF CrashInv
<1>1. << >> \in Seq(Group) /\ Len(<< >>) = 0
  OBVIOUS
<1>2. Holds(<< >>, 0, NoPages)
  BY <1>1, HoldsEmpty
<1>3. LogIs(0, NoPages)
  BY <1>1, <1>2, PagerConstants DEF Init, LogIs, NoPages
<1>4. NoPages \in PageMap
  BY DEF NoPages, PageMap, OptValue
<1> QED BY <1>3, <1>4 DEF Init, LogInv, IsOpen

(* Calls that only touch memory, and the entry of commit_group and flush.  *)
LEMMA QuietStep ==
  ASSUME CrashInv, UNCHANGED <<fileVars, len, committed>>, op = "idle",
         op' \in {"idle", "append", "checkpoint"}, caller' \notin {"open", "open_failed"}
  PROVE  LogInv'
<1>1. IsOpen /\ IsOpen'
  BY DEF CrashInv, CacheInv, Control, IsOpen
<1>2. LogIs(len, committed)
  BY <1>1 DEF CrashInv, LogInv
<1>3. LogIs(len, committed)'
  BY <1>2 DEF LogIs, fileVars
<1> QED BY <1>1, <1>3 DEF CrashInv, LogInv, fileVars

(* The end of the process, when the files did not change in a way that     *)
(* matters to LogIs.                                                       *)
LEMMA ClosingStep ==
  ASSUME NEW n \in Nat, NEW m \in PageMap, LogIs(n, m)', NoPager, (wal \in walDisk)'
  PROVE  LogInv'
BY DEF NoPager, LogInv, IsOpen

(* Every operation and every power loss keeps the invariant, one case per  *)
(* action.                                                                 *)
LEMMA NextCrashInv == Benign /\ CrashInv /\ [Next]_vars => CrashInv'
<1> SUFFICES ASSUME Benign, CrashInv, [Next]_vars PROVE LogInv'
  BY NextCacheInv DEF CrashInv
<1> USE DEF CrashInv
<1>t. TypeOK /\ TypeOK' /\ Control /\ Control' /\ CacheInv'
  BY NextCacheInv DEF CacheInv
<1>n. NoPages \in PageMap /\ << >> \in Seq(Group) /\ Len(<< >>) = 0
  BY DEF NoPages, PageMap, OptValue
<1>1. CASE Open
  <2>1. PICK n \in Nat, m \in PageMap : LogIs(n, m)
    BY <1>1 DEF Open, LogInv, IsOpen
  <2>2. CASE Len(wal) = 0
    <3>1. wal \in Seq(Group) /\ Holds(wal, n, m)
      BY <1>1, <1>t, <2>1 DEF Open, LogIs, LogInv, TypeOK
    <3>2. n = 0
      BY <2>2, <3>1 DEF Holds
    <3>3. \A p \in Pages : m[p] = NoPage
      BY <3>1, <3>2 DEF Holds, HoldsAt
    <3>4. \A w \in walDisk : Holds(w, 0, NoPages)
      BY <1>1, <1>t, <2>1, <3>2, HoldsEmpty DEF Open, LogIs, Holds, TypeOK
    <3>5. /\ op' = "idle" /\ caller' = "none" /\ len' = 0 /\ UNCHANGED fileVars
          /\ \A p \in Pages : committed'[p] = NoPage
      BY <1>1, <2>2 DEF Open, CacheInv, ClosedIsEmpty, IsOpen
    <3>6. committed' = NoPages
      BY <1>t, <3>5 DEF NoPages, TypeOK, PageMap
    <3>7. LogIs(len, committed)'
      BY <2>1, <2>2, <3>3, <3>4, <3>5, <3>6 DEF LogIs, fileVars
    <3> QED BY <3>5, <3>7 DEF LogInv, IsOpen, fileVars
  <2>3. CASE Len(wal) # 0
    <3>1. op = "closed" /\ op' = "recover" /\ caller' = "open" /\ UNCHANGED fileVars
      BY <1>1, <2>3 DEF Open
    <3>2. LogIs(n, m)'
      BY <2>1, <3>1 DEF LogIs, fileVars
    <3> QED BY <3>1, <3>2 DEF LogInv, IsOpen, fileVars
  <2> QED BY <2>2, <2>3
<1>r. ASSUME op = "recover"
      PROVE  \E n \in Nat, m \in PageMap :
                /\ LogIs(n, m)
                /\ \A p \in Pages : m[p] = NoPage => Replayed(p) = {}
                /\ \A p \in Pages : Replay(wal, data)[p] = IF m[p] # NoPage THEN m[p] ELSE data[p]
                /\ IntactPrefix(wal) = {} => \A p \in Pages : m[p] = NoPage
  <2>1. PICK n \in Nat, m \in PageMap : LogIs(n, m)
    BY <1>r DEF LogInv, IsOpen
  <2>2. /\ wal \in Seq(Group) /\ Holds(wal, n, m) /\ data \in [Pages -> OnDisk]
        /\ ~(Len(wal) = n + 1 /\ wal[n + 1].ok)
    BY <1>r, <1>t, <2>1 DEF LogInv, LogIs, TypeOK
  <2>3. IntactPrefix(wal) = 1 .. n
    BY <2>2, IntactOfHolds
  <2>4. \A p \in Pages : m[p] = NoPage => Replayed(p) = {}
    BY <2>2, <2>3 DEF Replayed, Writers, Holds, HoldsAt
  <2>5. \A p \in Pages : Replay(wal, data)[p] = IF m[p] # NoPage THEN m[p] ELSE data[p]
    <3>1. \A p \in Pages : Replay(wal, data)[p] = LastWrite(wal, n, m, p, data[p])
      BY <2>2, ReplayOfHolds, Zenon
    <3> QED BY <2>2, <3>1 DEF LastWrite
  <2>6. IntactPrefix(wal) = {} => \A p \in Pages : m[p] = NoPage
    BY <2>2, <2>3 DEF Holds, HoldsAt
  <2> QED BY <2>1, <2>4, <2>5, <2>6
<1>2. CASE Recover
  <2>1. PICK n \in Nat, m \in PageMap :
                /\ LogIs(n, m)
                /\ \A p \in Pages : m[p] = NoPage => Replayed(p) = {}
                /\ \A p \in Pages : Replay(wal, data)[p] = IF m[p] # NoPage THEN m[p] ELSE data[p]
                /\ IntactPrefix(wal) = {} => \A p \in Pages : m[p] = NoPage
    BY <1>2, <1>r DEF Recover, GrowTo
  <2>2. /\ op = "recover" /\ caller = "open" /\ caller' = "open" /\ UNCHANGED <<wal, walDisk>>
        /\ op' \in {"truncate", "recover_sync"}
        /\ op' = "truncate" => IntactPrefix(wal) = {}
    BY <1>2, <1>t DEF Recover, Control
  <2>3. \A p \in Pages : data'[p] = IF m[p] # NoPage THEN m[p] ELSE data[p]
    BY <1>2, <2>1 DEF Recover, GrowTo
  <2>4. \A p \in Pages : m[p] = NoPage => dataDisk'[p] = {data'[p]} /\ data'[p] # Torn
    BY <1>2, <2>1, <2>3 DEF Recover, LogIs
  <2>5. LogIs(n, m)'
    BY <2>1, <2>2, <2>3, <2>4 DEF LogIs
  <2> QED BY <2>2, <2>5 DEF LogInv, IsOpen
<1>3. CASE RecoverFails
  <2>1. PICK n \in Nat, m \in PageMap :
                LogIs(n, m) /\ \A p \in Pages : m[p] = NoPage => Replayed(p) = {}
    BY <1>3, <1>r DEF RecoverFails
  <2>2. /\ op = "recover" /\ op' = "sync_all" /\ caller' = "open_failed"
        /\ UNCHANGED <<wal, walDisk>>
    BY <1>3 DEF RecoverFails, OpenFails
  <2>3. \A p \in Pages : m[p] = NoPage => dataDisk'[p] = {data'[p]} /\ data'[p] # Torn
    BY <1>3, <2>1 DEF RecoverFails, LogIs
  <2>4. LogIs(n, m)'
    BY <2>1, <2>2, <2>3 DEF LogIs
  <2> QED BY <2>2, <2>4 DEF LogInv, IsOpen
<1>4. CASE RecoverSync
  <2>1. PICK n \in Nat, m \in PageMap : LogIs(n, m)
    BY <1>4 DEF RecoverSync, LogInv, IsOpen
  <2>2. /\ op = "recover_sync" /\ op' = "truncate" /\ caller' = "open"
        /\ UNCHANGED <<data, wal, walDisk>> /\ dataDisk' = [p \in Pages |-> {data[p]}]
    BY <1>4, <1>t DEF RecoverSync, Control
  <2>3. \A p \in Pages : data[p] # Torn
    BY <2>1, <2>2, PagerConstants DEF LogIs, PageMap, OptValue
  <2>4. LogIs(n, m)'
    BY <2>1, <2>2, <2>3 DEF LogIs
  <2> QED BY <2>2, <2>4 DEF LogInv, IsOpen
<1>5. CASE RecoverSyncFails
  <2>1. PICK n \in Nat, m \in PageMap : LogIs(n, m)
    BY <1>5 DEF RecoverSyncFails, LogInv, IsOpen
  <2>2. /\ op = "recover_sync" /\ op' = "sync_all" /\ caller' = "open_failed"
        /\ UNCHANGED fileVars
    BY <1>5 DEF RecoverSyncFails, OpenFails
  <2>3. LogIs(n, m)'
    BY <2>1, <2>2 DEF LogIs, fileVars
  <2> QED BY <2>2, <2>3 DEF LogInv, IsOpen, fileVars
<1>6. CASE BeginGroup
  BY <1>6, <1>t, QuietStep DEF BeginGroup, Control
<1>7. CASE AbortGroup
  BY <1>7, <1>t, QuietStep DEF AbortGroup, Control
<1>8. CASE BeginSavepoint
  BY <1>8, <1>t, QuietStep DEF BeginSavepoint, Control
<1>9. CASE ReleaseSavepoint
  BY <1>9, <1>t, QuietStep DEF ReleaseSavepoint, Control
<1>10. CASE RollbackToSavepoint
  BY <1>10, <1>t, QuietStep DEF RollbackToSavepoint, Control
<1>11. ASSUME NEW p \in Pages, ReadPage(p) PROVE LogInv'
  BY <1>11, <1>t, QuietStep DEF ReadPage, Control
<1>12. ASSUME NEW p \in Pages, NEW v \in Values, WritePage(p, v) PROVE LogInv'
  BY <1>12, <1>t, QuietStep DEF WritePage, Write, Control
<1>13. CASE AllocatePage
  BY <1>13, <1>t, QuietStep DEF AllocatePage, Write, Control
<1>14. CASE CommitGroup
  BY <1>14, <1>t, QuietStep DEF CommitGroup, Control
<1>15. CASE Flush
  BY <1>15, QuietStep DEF Flush, StartFlush
<1>16. CASE Drop
  BY <1>16, QuietStep DEF Drop, StartFlush
<1>a. ASSUME op \in {"append", "append_sync", "checkpoint", "apply_sync"}
      PROVE  IsOpen /\ LogIs(len, committed) /\ Holds(wal, len, committed)
             /\ (\A w \in walDisk : Holds(w, len, committed))
  BY <1>a, <1>t DEF Control, IsOpen, LogInv, LogIs
<1>17. CASE AppendWrite
  <2>1. /\ op = "append" /\ op' = "append_sync" /\ caller' = "none"
        /\ UNCHANGED <<len, committed, pending, data, dataDisk>>
    BY <1>17, <1>t DEF AppendWrite, Control, pagerVars
  <2>2. /\ IsOpen /\ LogIs(len, committed) /\ Holds(wal, len, committed)
        /\ \A w \in walDisk : Holds(w, len, committed)
    BY <1>a, <2>1
  <2>3. /\ Holds(WriteAt(wal, len, CommittedGroup(pending)), len, committed)
        /\ Holds(WriteAt(wal, len, TornGroup), len, committed)
        /\ Len(WriteAt(wal, len, CommittedGroup(pending))) = len + 1
        /\ WriteAt(wal, len, CommittedGroup(pending))[len + 1] = CommittedGroup(pending)
    <3>1. wal \in Seq(Group) /\ len \in Nat /\ committed \in PageMap /\ pending \in PageMap
      BY <1>t DEF TypeOK
    <3>2. CommittedGroup(pending) \in Group /\ TornGroup \in Group
      BY <3>1, GroupTypes
    <3> QED BY <2>2, <3>1, <3>2, HoldsWriteAt, WriteAtFacts, Zenon
  <2>4. \A w \in walDisk' : Holds(w, len, committed)
    BY <1>17, <2>2, <2>3 DEF AppendWrite
  <2>5. LogIs(len, committed)'
    BY <2>1, <2>2, <2>4 DEF LogIs
  <2>6. /\ wal' \in walDisk' /\ Len(wal') = len + 1
        /\ wal'[len + 1] = CommittedGroup(pending)
    BY <1>17, <2>3 DEF AppendWrite
  <2>7. IsOpen'
    BY <2>1 DEF IsOpen
  <2> QED BY <2>1, <2>5, <2>6, <2>7 DEF LogInv
<1>18. CASE AppendSync
  <2>1. /\ op = "append_sync" /\ op' \in {"idle", "checkpoint"} /\ caller' \in {"none", "commit"}
        /\ UNCHANGED <<wal, data, dataDisk>> /\ walDisk' = {wal} /\ len' = len + 1
        /\ committed' = Overlay(pending, committed)
    BY <1>18 DEF AppendSync
  <2>2. LogIs(len, committed) /\ Holds(wal, len, committed)
    BY <1>a, <2>1
  <2>3. Len(wal) = len + 1 /\ wal[len + 1] = CommittedGroup(pending)
    BY <2>1 DEF LogInv
  <2>4. wal[len + 1].ok /\ wal[len + 1].writes = pending
    BY <2>3 DEF CommittedGroup
  <2>5. Holds(wal, len + 1, committed')
    BY <1>t, <2>1, <2>2, <2>3, <2>4, HoldsExtend DEF TypeOK
  <2>6. \A p \in Pages : committed'[p] = NoPage => committed[p] = NoPage
    BY <1>t, <2>1 DEF Overlay, TypeOK
  <2>7. LogIs(len, committed)'
    <3>1. Len(wal) # len' + 1
      BY <1>t, <2>1, <2>3 DEF TypeOK
    <3>2. \A p \in Pages : committed'[p] = NoPage => dataDisk'[p] = {data'[p]} /\ data'[p] # Torn
      BY <2>1, <2>2, <2>6 DEF LogIs
    <3> QED BY <2>1, <2>5, <3>1, <3>2 DEF LogIs
  <2> QED BY <2>1, <2>7 DEF LogInv, IsOpen
<1>c. ASSUME op \in {"append", "append_sync"}, op' = "idle", caller' = "none",
             UNCHANGED <<len, committed, data, dataDisk>>,
             NEW w \in Seq(Group), Holds(w, len, committed), CutBack(w),
             Len(w) = len + 1 /\ w[len + 1].ok => "set_len" \notin Faults
      PROVE  LogInv'
  <2>1. IsOpen' /\ LogIs(len, committed) /\ \A x \in walDisk : Holds(x, len, committed)
    BY <1>a, <1>c DEF IsOpen
  <2>2. /\ Holds(SetLen(w, len), len, committed)
        /\ SetLen(w, len) \in Seq(Group) /\ Len(SetLen(w, len)) = len
    BY <1>c, <1>t, HoldsWriteAt, SetLenFacts, GroupTypes DEF TypeOK
  <2>3. wal' \in walDisk' /\ \A x \in walDisk' : Holds(x, len, committed)
    BY <1>c, <2>1, <2>2 DEF CutBack
  <2>4. Len(wal') = len + 1 => ~wal'[len + 1].ok
    BY <1>c, <1>t, <2>2, SMTT(30) DEF CutBack, TypeOK
  <2>5. LogIs(len, committed)'
    BY <1>c, <2>1, <2>3, <2>4 DEF LogIs
  <2> QED BY <1>c, <2>1, <2>3, <2>5 DEF LogInv
<1>19. CASE AppendWriteFails
  <2>1. /\ op = "append" /\ op' = "idle" /\ caller' = "none"
        /\ UNCHANGED <<len, committed, data, dataDisk>>
    BY <1>19, <1>t DEF AppendWriteFails, Control
  <2>2. Holds(wal, len, committed) /\ wal \in Seq(Group) /\ len \in Nat
    BY <1>a, <1>t, <2>1 DEF TypeOK
  <2>3. CASE CutBack(wal)
    <3>1. ~(Len(wal) = len + 1 /\ wal[len + 1].ok)
      BY <1>a, <2>1 DEF LogIs
    <3> QED BY <1>c, <2>1, <2>2, <2>3, <3>1
  <2>4. CASE CutBack(WriteAt(wal, len, TornGroup))
    <3> DEFINE w == WriteAt(wal, len, TornGroup)
    <3>1. w \in Seq(Group) /\ Holds(w, len, committed) /\ w[len + 1] = TornGroup
      <4>1. committed \in PageMap /\ TornGroup \in Group
        BY <1>t, GroupTypes DEF TypeOK
      <4> QED BY <2>2, <4>1, WriteAtFacts, HoldsWriteAt, Zenon
    <3>2. ~w[len + 1].ok
      BY <3>1 DEF TornGroup
    <3> HIDE DEF w
    <3>3. CutBack(w)
      BY <2>4 DEF w
    <3> QED BY <1>c, <2>1, <3>1, <3>2, <3>3
  <2> QED BY <1>19, <2>3, <2>4 DEF AppendWriteFails
<1>20. CASE AppendSyncFails
  <2>1. /\ op = "append_sync" /\ op' = "idle" /\ caller' = "none"
        /\ UNCHANGED <<len, committed, data, dataDisk>> /\ CutBack(wal)
    BY <1>20, <1>t DEF AppendSyncFails, Control
  <2>2. Holds(wal, len, committed) /\ wal \in Seq(Group)
    BY <1>a, <1>t, <2>1 DEF TypeOK
  <2>3. "set_len" \notin Faults
    BY <1>20 DEF AppendSyncFails, Fault, Benign
  <2> QED BY <1>c, <2>1, <2>2, <2>3
<1>e. ASSUME op # "closed", op # "append_sync", op # "truncate_sync", CheckpointErr,
             UNCHANGED <<wal, walDisk>>,
             NEW n \in Nat, NEW m \in PageMap, LogIs(n, m), IsOpen => n = len /\ m = committed,
             \A p \in Pages : m[p] = NoPage => dataDisk'[p] = dataDisk[p] /\ data'[p] = data[p]
      PROVE  LogInv'
  <2>1. /\ op' \in {"idle", "closed", "sync_all"}
        /\ op' = "idle" => caller' = "none" /\ caller \in {"commit", "flush"}
                           /\ UNCHANGED <<len, committed>>
        /\ op' = "sync_all" => caller' = "open_failed"
    BY <1>e DEF CheckpointErr, OpenFails, NoPager, pagerVars
  <2>2. LogIs(n, m)'
    BY <1>e, <2>1 DEF LogIs
  <2>3. op' = "idle" => IsOpen
    BY <1>t, <2>1, <1>e DEF IsOpen, Control
  <2>4. op' = "idle" => LogIs(len, committed)'
    BY <1>e, <2>1, <2>2, <2>3
  <2> QED BY <1>e, <2>1, <2>2, <2>4 DEF LogInv, IsOpen
<1>21. CASE CheckpointApply
  <2>1. /\ op = "checkpoint" /\ op' \in {"sync_all", "apply_sync"}
        /\ UNCHANGED <<len, committed, wal, walDisk, caller>>
        /\ op' = "apply_sync" => data' = Overlay(committed, data)
        /\ \A p \in Pages : committed[p] = NoPage
                            => dataDisk'[p] = dataDisk[p] /\ data'[p] = data[p]
    BY <1>21, <1>t DEF CheckpointApply, pagerVars, Overlay, TypeOK
  <2>2. LogIs(len, committed)
    BY <1>a, <2>1
  <2>3. op' = "apply_sync" => \A p \in Pages : committed[p] # NoPage => data'[p] = committed[p]
    BY <2>1 DEF Overlay
  <2>4. LogIs(len, committed)'
    BY <2>1, <2>2, <2>3 DEF LogIs
  <2>5. IsOpen'
    BY <1>t, <2>1 DEF IsOpen, Control
  <2> QED BY <2>1, <2>4, <2>5 DEF LogInv
<1>22. CASE CheckpointApplyFails
  <2>1. /\ op = "checkpoint" /\ CheckpointErr /\ UNCHANGED <<wal, walDisk>>
        /\ \A p \in Pages : committed[p] = NoPage
                            => dataDisk'[p] = dataDisk[p] /\ data'[p] = data[p]
    BY <1>22, <1>t DEF CheckpointApplyFails, TypeOK
  <2>2. LogIs(len, committed) /\ len \in Nat /\ committed \in PageMap
    BY <1>a, <1>t, <2>1 DEF TypeOK
  <2> QED BY <1>e, <2>1, <2>2
<1>23. CASE CheckpointSync
  <2>1. /\ op = "apply_sync" /\ op' = "truncate" /\ UNCHANGED <<data, wal, walDisk, caller>>
        /\ UNCHANGED <<len, committed>> /\ dataDisk' = [p \in Pages |-> {data[p]}]
    BY <1>23 DEF CheckpointSync, pagerVars
  <2>2. LogIs(len, committed) /\ IsOpen
    BY <1>a, <2>1
  <2>3. \A p \in Pages : data[p] # Torn
    <3>1. \A p \in Pages : committed[p] # Torn
      BY <1>t, PagerConstants DEF TypeOK, PageMap, OptValue
    <3>2. \A p \in Pages : /\ committed[p] = NoPage => data[p] # Torn
                           /\ committed[p] # NoPage => data[p] = committed[p]
      BY <2>1, <2>2 DEF LogIs
    <3> QED BY <3>1, <3>2
  <2>4. LogIs(len, committed)'
    BY <2>1, <2>2, <2>3 DEF LogIs
  <2> QED BY <2>1, <2>2, <2>4 DEF LogInv, IsOpen
<1>24. CASE CheckpointSyncFails
  <2>1. op = "apply_sync" /\ CheckpointErr /\ UNCHANGED fileVars
    BY <1>24 DEF CheckpointSyncFails
  <2>2. LogIs(len, committed) /\ len \in Nat /\ committed \in PageMap
    BY <1>a, <1>t, <2>1 DEF TypeOK
  <2> QED BY <1>e, <2>1, <2>2 DEF fileVars
<1>b. \E n \in Nat, m \in PageMap : LogIs(n, m) /\ (IsOpen => n = len /\ m = committed)
  BY <1>t DEF LogInv, TypeOK
<1>25. CASE Truncate
  <2>1. PICK n \in Nat, m \in PageMap : LogIs(n, m) /\ (IsOpen => n = len /\ m = committed)
    BY <1>b
  <2>2. /\ op = "truncate" /\ op' = "truncate_sync" /\ UNCHANGED <<data, dataDisk, caller>>
        /\ UNCHANGED <<len, committed>> /\ wal' = << >> /\ walDisk' = walDisk \cup {<< >>}
    BY <1>25 DEF Truncate, pagerVars
  <2>4. Len(wal') # n + 1
    BY <1>n, <2>2
  <2>5. LogIs(n, m)'
    BY <2>1, <2>2, <2>4 DEF LogIs
  <2>6. IsOpen' <=> IsOpen
    BY <2>2 DEF IsOpen
  <2>7. IsOpen' => LogIs(len, committed)'
    BY <2>1, <2>2, <2>5, <2>6
  <2> QED BY <2>2, <2>5, <2>7 DEF LogInv
<1>26. CASE TruncateFails
  <2>1. PICK n \in Nat, m \in PageMap : LogIs(n, m) /\ (IsOpen => n = len /\ m = committed)
    BY <1>b
  <2>2. op = "truncate" /\ CheckpointErr /\ UNCHANGED fileVars
    BY <1>26 DEF TruncateFails
  <2> QED BY <1>e, <2>1, <2>2 DEF fileVars
<1>27. CASE TruncateSync
  <2>1. PICK n \in Nat, m \in PageMap : LogIs(n, m) /\ (IsOpen => n = len /\ m = committed)
    BY <1>b
  <2>2. /\ op = "truncate_sync" /\ op' \in {"sync_all", "idle"} /\ UNCHANGED <<data, dataDisk, wal>>
        /\ wal = << >> /\ walDisk' = {<< >>} /\ len' = 0 /\ committed' = NoPages
    BY <1>27 DEF TruncateSync, LogInv
  <2>3. Holds(<< >>, 0, NoPages)
    BY <1>n, HoldsEmpty
  <2>4. \A p \in Pages : dataDisk[p] = {data[p]} /\ data[p] # Torn
    BY <2>1, <2>2 DEF LogIs
  <2>5. LogIs(len, committed)'
    BY <1>n, <2>2, <2>3, <2>4 DEF LogIs
  <2> QED BY <1>n, <2>2, <2>5 DEF LogInv
<1>28. ~TruncateSyncFails /\ ~Kill
  BY DEF TruncateSyncFails, Kill, Fault, Benign
<1>s. ASSUME op = "sync_all", SyncAllReturns, UNCHANGED <<data, wal, walDisk>>,
             \A p \in Pages : dataDisk'[p] = dataDisk[p] \/ dataDisk'[p] = {data[p]}
      PROVE  LogInv'
  <2>1. PICK n \in Nat, m \in PageMap : LogIs(n, m) /\ (IsOpen => n = len /\ m = committed)
    BY <1>b
  <2>2. /\ op' \in {"idle", "closed"}
        /\ op' = "idle" => caller = "flush" /\ caller' = "none" /\ UNCHANGED <<len, committed>>
    BY <1>s DEF SyncAllReturns, NoPager, pagerVars
  <2>3. LogIs(n, m)'
    BY <1>s, <2>1, <2>2 DEF LogIs
  <2>4. op' = "idle" => LogIs(len, committed)'
    BY <1>s, <2>1, <2>2, <2>3 DEF IsOpen
  <2> QED BY <1>s, <2>2, <2>3, <2>4 DEF LogInv, IsOpen
<1>29. CASE SyncAll
  BY <1>29, <1>s DEF SyncAll
<1>30. CASE SyncAllFails
  BY <1>30, <1>s DEF SyncAllFails, fileVars
<1>31. CASE Crash
  <2>1. PICK n \in Nat, m \in PageMap : LogIs(n, m)
    BY <1>b
  <2>2. PICK w \in walDisk : wal' = w /\ walDisk' = {w}
    BY <1>31 DEF Crash
  <2>3. /\ \A p \in Pages : data'[p] \in dataDisk[p] /\ dataDisk'[p] = {data'[p]}
        /\ NoPager /\ op' = "closed" /\ w \in Seq(Group)
    BY <1>31, <1>t DEF Crash, NoPager, TypeOK
  <2>4. \A p \in Pages : m[p] = NoPage \/ op \in {"truncate", "truncate_sync"}
                           => data'[p] # Torn
    BY <2>1, <2>3 DEF LogIs
  <2>5. ASSUME NEW k \in Nat, NEW g \in PageMap, Holds(w, k, g),
               ~(Len(w) = k + 1 /\ w[k + 1].ok),
               \A p \in Pages : g[p] = NoPage => data'[p] # Torn
        PROVE  LogInv'
    <3>1. LogIs(k, g)'
      BY <2>2, <2>3, <2>5 DEF LogIs
    <3> QED BY <2>2, <2>3, <3>1, ClosingStep
  <2>6. CASE op = "truncate_sync" /\ w = << >>
    <3>1. Holds(w, 0, NoPages)
      BY <1>n, <2>6, HoldsEmpty
    <3>2. 0 \in Nat /\ ~(Len(w) = 0 + 1 /\ w[0 + 1].ok)
      BY <1>n, <2>6
    <3>3. \A p \in Pages : data'[p] # Torn
      BY <2>4, <2>6
    <3> QED BY <1>n, <2>5, <3>1, <3>2, <3>3
  <2>7. CASE Holds(w, n, m) /\ ~(Len(w) = n + 1 /\ w[n + 1].ok)
    BY <2>4, <2>5, <2>7
  <2>8. CASE Holds(w, n, m) /\ Len(w) = n + 1 /\ w[n + 1].ok
    <3> DEFINE g == Overlay(w[n + 1].writes, m)
    <3>1. Holds(w, n + 1, g)
      BY <2>3, <2>8, HoldsExtend
    <3>2. w[n + 1].writes \in PageMap /\ g \in PageMap
      <4>1. w[n + 1] \in Group
        BY <2>3, <2>8
      <4>2. w[n + 1].writes \in PageMap
        BY <4>1, GroupTypes
      <4> QED BY <4>2, OverlayType
    <3>3. \A p \in Pages : g[p] = NoPage => m[p] = NoPage
      BY DEF Overlay
    <3> HIDE DEF g
    <3> QED BY <2>4, <2>5, <2>8, <3>1, <3>2, <3>3
  <2> QED BY <2>1, <2>6, <2>7, <2>8 DEF LogIs
<1>32. CASE UNCHANGED vars
  <2>1. UNCHANGED <<data, dataDisk, wal, walDisk, op, caller, len, committed, pending>>
    BY <1>32 DEF vars, pagerVars, fileVars
  <2>2. PICK n \in Nat, m \in PageMap : LogIs(n, m) /\ (IsOpen => n = len /\ m = committed)
    BY <1>b
  <2>3. LogIs(n, m)'
    BY <2>1, <2>2 DEF LogIs
  <2>4. IsOpen' => LogIs(len, committed)'
    <3>1. IsOpen' => IsOpen
      BY <2>1 DEF IsOpen
    <3> QED BY <2>1, <2>2, <2>3, <3>1
  <2> QED BY <2>1, <2>3, <2>4 DEF LogInv
<1> QED
  BY <1>1, <1>2, <1>3, <1>4, <1>5, <1>6, <1>7, <1>8, <1>9, <1>10, <1>11, <1>12, <1>13,
     <1>14, <1>15, <1>16, <1>17, <1>18, <1>19, <1>20, <1>21, <1>22, <1>23, <1>24, <1>25,
     <1>26, <1>27, <1>28, <1>29, <1>30, <1>31, <1>32 DEF Next

(* The crash invariant holds in every reachable state.                     *)
LEMMA CrashInvariant == Benign /\ Spec => []CrashInv
<1>1. Benign /\ CrashInv /\ [Next]_vars => CrashInv'
  BY NextCrashInv
<1>2. Init => CrashInv
  BY InitCrashInv
<1>3. ASSUME Benign PROVE Spec => []CrashInv
  <2>1. CrashInv /\ [Next]_vars => CrashInv'
    BY <1>1, <1>3
  <2> QED BY <1>2, <2>1, PTL DEF Spec
<1> QED BY <1>3

-----------------------------------------------------------------------------
(* What the invariant says of a power loss.                                *)

(* What recovery makes of any log and data file a power loss can leave.    *)
LEMMA ReplayAtCrash ==
  ASSUME CrashInv, NEW n \in Nat, NEW m \in PageMap, LogIs(n, m),
         NEW w \in walDisk, NEW d \in DiskImages, NEW p \in Pages
  PROVE  Replay(w, d)[p] = LastWrite(w, n, m, p, data[p])
<1>1. w \in Seq(Group) /\ data \in [Pages -> OnDisk]
  BY DEF CrashInv, CacheInv, TypeOK
<1>2. d[p] \in dataDisk[p]
  BY DEF DiskImages
<1>3. CASE Holds(w, n, m)
  <2>1. m[p] = NoPage => d[p] = data[p]
    BY <1>2 DEF LogIs
  <2>2. Replay(w, d)[p] = LastWrite(w, n, m, p, d[p])
    BY <1>1, <1>3, ReplayOfHolds, Zenon
  <2> QED BY <2>1, <2>2 DEF LastWrite
<1>4. CASE op = "truncate_sync" /\ w = << >>
  <2>1. d[p] = data[p] /\ (m[p] # NoPage => data[p] = m[p])
    BY <1>2, <1>4 DEF LogIs
  <2>2. Len(w) = 0 /\ << >> \in Seq(Group)
    BY <1>4
  <2>3. Writers(w, p) = {}
    BY <2>2 DEF Writers, IntactPrefix
  <2>4. Replay(w, d)[p] = d[p]
    BY <2>3 DEF Replay
  <2>5. ~(Len(w) = n + 1)
    BY <2>2
  <2> QED BY <2>1, <2>4, <2>5 DEF LastWrite
<1> QED BY <1>3, <1>4 DEF LogIs

(* The crash invariant is strong enough for CrashSafe.                     *)
LEMMA CrashInvSafe == CrashInv => CrashSafe
<1> SUFFICES ASSUME CrashInv, IsOpen, NEW w \in walDisk, NEW d \in DiskImages
             PROVE  \/ Replay(w, d) = CommittedImage
                    \/ /\ Len(w) = len + 1
                       /\ Replay(w, d) = Overlay(w[len + 1].writes, CommittedImage)
  BY DEF CrashSafe
<1>1. LogIs(len, committed) /\ len \in Nat /\ committed \in PageMap
  BY DEF CrashInv, LogInv, CacheInv, TypeOK
<1>2. \A p \in Pages : CommittedImage[p] = (IF committed[p] # NoPage THEN committed[p] ELSE data[p])
  BY NewestAt
<1>r. \A p \in Pages : Replay(w, d)[p] = LastWrite(w, len, committed, p, data[p])
  BY <1>1, ReplayAtCrash, Zenon
<1>3. CASE Len(w) = len + 1 /\ w[len + 1].ok
  <2>1. \A p \in Pages : Replay(w, d)[p] = Overlay(w[len + 1].writes, CommittedImage)[p]
    BY <1>2, <1>3, <1>r DEF Overlay, LastWrite
  <2>2. Replay(w, d) = Overlay(w[len + 1].writes, CommittedImage)
    BY <2>1 DEF Replay, Overlay
  <2> QED BY <1>3, <2>2
<1>4. CASE ~(Len(w) = len + 1 /\ w[len + 1].ok)
  <2>1. \A p \in Pages : Replay(w, d)[p] = CommittedImage[p]
    BY <1>2, <1>4, <1>r DEF LastWrite
  <2>2. Replay(w, d) = CommittedImage
    BY <2>1 DEF Replay, CommittedImage, Overlay
  <2> QED BY <2>2
<1> QED BY <1>3, <1>4

(* Whatever the disk made of the writes that were not yet synced, a power  *)
(* loss while the pager is open leaves files that recover() turns into the *)
(* committed image, or into that image and the one whole group whose       *)
(* commit was under way or had failed.                                     *)
THEOREM CrashSafety == Benign /\ Spec => []CrashSafe
<1>1. Benign /\ Spec => []CrashInv
  BY CrashInvariant
<1>2. CrashInv => CrashSafe
  BY CrashInvSafe
<1> QED BY <1>1, <1>2, PTL

(* No power loss, before, during or after recovery, leaves a page that the *)
(* log does not mend.                                                      *)
THEOREM TornPagesMended == Benign /\ Spec => []RecoveryMendsTornPages
<1>1. CrashInv => RecoveryMendsTornPages
  <2> SUFFICES ASSUME CrashInv, NEW w \in walDisk, NEW d \in DiskImages, NEW p \in Pages
               PROVE  Replay(w, d)[p] # Torn
    BY DEF RecoveryMendsTornPages
  <2>1. PICK n \in Nat, m \in PageMap : LogIs(n, m)
    BY DEF CrashInv, LogInv, CacheInv, TypeOK
  <2>2. m[p] = NoPage => data[p] # Torn
    BY <2>1 DEF LogIs
  <2>3. m[p] # Torn
    BY PagerConstants DEF PageMap, OptValue
  <2>4. Len(w) = n + 1 => w[n + 1].writes[p] # Torn
    <3>1. w \in Seq(Group)
      BY DEF CrashInv, CacheInv, TypeOK
    <3>2. Len(w) = n + 1 => w[n + 1] \in Group
      BY <3>1
    <3>3. Len(w) = n + 1 => w[n + 1].writes \in PageMap
      BY <3>2, GroupTypes
    <3> QED BY <3>3, PagerConstants DEF PageMap, OptValue
  <2>5. Replay(w, d)[p] = LastWrite(w, n, m, p, data[p])
    BY <2>1, ReplayAtCrash, Zenon
  <2> QED BY <2>2, <2>3, <2>4, <2>5 DEF LastWrite
<1>2. Benign /\ Spec => []CrashInv
  BY CrashInvariant
<1> QED BY <1>1, <1>2, PTL

(* When no group is half-way into the log, a power loss loses nothing.     *)
RecoversToCommitted ==
    \A w \in walDisk, d \in DiskImages : Replay(w, d) = CommittedImage

(* A log without a group in flight recovers to the committed image.        *)
LEMMA SettledLog ==
  CrashInv /\ IsOpen /\ (\A w \in walDisk : Len(w) = len) => RecoversToCommitted
<1> SUFFICES ASSUME CrashInv, IsOpen, \A w \in walDisk : Len(w) = len,
                    NEW w \in walDisk, NEW d \in DiskImages
             PROVE  Replay(w, d) = CommittedImage
  BY DEF RecoversToCommitted
<1>1. len \in Nat /\ Len(w) = len
  BY DEF CrashInv, CacheInv, TypeOK
<1>2. Len(w) # len + 1
  BY <1>1
<1> QED BY <1>2, CrashInvSafe DEF CrashSafe

(* append_group's promise: once its fsync has returned, every disk a power *)
(* loss can leave recovers to exactly what the writer was reading.         *)
THEOREM AckedCommitsDurable == Benign /\ Spec => AckedCommitDurable
<1>1. Benign /\ Spec => []CrashInv
  BY CrashInvariant
<1>2. (CrashInv /\ IsOpen /\ (\A w \in walDisk : Len(w) = len) => RecoversToCommitted)'
  BY SettledLog, PTL
<1>3. CrashInv /\ CrashInv' /\ AppendSync
        => \A w \in walDisk', d \in DiskImages' : Replay(w, d) = Newest
  <2> SUFFICES ASSUME CrashInv, CrashInv', AppendSync
               PROVE  \A w \in walDisk', d \in DiskImages' : Replay(w, d) = Newest
    OBVIOUS
  <2>1. /\ walDisk' = {wal} /\ len' = len + 1 /\ Len(wal) = len + 1
        /\ committed' = Overlay(pending, committed) /\ data' = data
        /\ op' \in {"idle", "checkpoint"} /\ caller' \in {"none", "commit"}
    BY DEF AppendSync, CrashInv, LogInv
  <2>2. IsOpen' /\ \A w \in walDisk' : Len(w) = len'
    BY <2>1 DEF IsOpen
  <2>3. \A w \in walDisk', d \in DiskImages' : Replay(w, d) = CommittedImage'
    BY <1>2, <2>2 DEF RecoversToCommitted
  <2>4. \A p \in Pages : CommittedImage'[p] = Newest[p]
    BY <2>1 DEF CommittedImage, Newest, Overlay
  <2>5. CommittedImage' = Newest
    BY <2>4 DEF CommittedImage, Newest, Overlay
  <2> QED BY <2>3, <2>5
<1>4. CrashInv /\ CrashInv'
        => [AppendSync => \A w \in walDisk', d \in DiskImages' : Replay(w, d) = Newest]_vars
  BY <1>3
<1> QED BY <1>1, <1>4, PTL DEF AckedCommitDurable

=============================================================================
