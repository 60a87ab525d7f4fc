---------------------------- MODULE PagerProofs ----------------------------
(***************************************************************************)
(* Theorems about the pager for every number of pages, every set of page   *)
(* contents, every cache size and checkpoint threshold.                    *)
(***************************************************************************)
EXTENDS Pager, TLAPS, WellFoundedInduction

-----------------------------------------------------------------------------
(* The last intact writer of a page.                                       *)

(* A non-empty set of naturals has a least element. *)
LEMMA LeastNat ==
  ASSUME NEW T, T \subseteq Nat, T # {}
  PROVE  \E x \in T : \A y \in T : x <= y
<1>1. \E x \in T : \A y \in T : ~ (<<y, x>> \in OpToRel(<, Nat))
  BY NatLessThanWellFounded, WFMin, Zenon
<1>2. PICK x \in T : \A y \in T : ~ (<<y, x>> \in OpToRel(<, Nat))
  BY <1>1
<1>3. \A y \in T : x <= y
  <2> TAKE y \in T
  <2>1. ~ (y < x)
    BY <1>2 DEF OpToRel
  <2> QED BY <2>1
<1> QED BY <1>3

(* A non-empty set of naturals below a bound has a greatest element, and   *)
(* Max picks it.                                                           *)
LEMMA MaxOfBounded ==
  ASSUME NEW n \in Nat, NEW S, S \subseteq 1 .. n, S # {}
  PROVE  Max(S) \in S /\ \A y \in S : y <= Max(S)
<1> DEFINE T == {n - i : i \in S}
<1>1. T \subseteq Nat /\ T # {}
  OBVIOUS
<1>2. PICK t \in T : \A y \in T : t <= y
  BY <1>1, LeastNat
<1>3. PICK m \in S : t = n - m
  OBVIOUS
<1>4. \A y \in S : m >= y
  <2> TAKE y \in S
  <2>1. n - y \in T
    OBVIOUS
  <2>2. n - m <= n - y
    BY <1>2, <1>3, <2>1
  <2> QED BY <2>2
<1>5. \E x \in S : \A y \in S : x >= y
  BY <1>4
<1>6. Max(S) \in S /\ \A y \in S : Max(S) >= y
  BY <1>5 DEF Max
<1> QED BY <1>6

-----------------------------------------------------------------------------
(* The operators on the log file.                                          *)

(* A group in the log, whole or torn, carries a map of pages.              *)
LEMMA GroupTypes ==
  /\ TornGroup \in Group
  /\ \A m \in PageMap : CommittedGroup(m) \in Group
  /\ \A g \in Group : g.writes \in PageMap
BY PagerConstants DEF TornGroup, CommittedGroup, Group, PageMap, NoPages, OptValue

(* set_len keeps the prefix, and what it adds is unreadable.               *)
LEMMA SetLenFacts ==
  ASSUME NEW w \in Seq(Group), NEW n \in Nat
  PROVE  /\ SetLen(w, n) \in Seq(Group)
         /\ Len(SetLen(w, n)) = n
         /\ \A i \in 1 .. n : SetLen(w, n)[i] = IF i <= Len(w) THEN w[i] ELSE TornGroup
<1>1. \A i \in 1 .. n : (IF i <= Len(w) THEN w[i] ELSE TornGroup) \in Group
  BY GroupTypes
<1> QED BY <1>1 DEF SetLen

(* seek(len) and write_all: one group at the end, the prefix kept.         *)
LEMMA WriteAtFacts ==
  ASSUME NEW w \in Seq(Group), NEW n \in Nat, NEW g \in Group
  PROVE  /\ WriteAt(w, n, g) \in Seq(Group)
         /\ Len(WriteAt(w, n, g)) = n + 1
         /\ WriteAt(w, n, g)[n + 1] = g
         /\ \A i \in 1 .. n : WriteAt(w, n, g)[i] = SetLen(w, n)[i]
<1> DEFINE s == SetLen(w, n)
<1>1. s \in Seq(Group) /\ Len(s) = n
  BY SetLenFacts
<1> HIDE DEF s
<1>2. /\ Append(s, g) \in Seq(Group) /\ Len(Append(s, g)) = n + 1
      /\ Append(s, g)[n + 1] = g
      /\ \A i \in 1 .. n : Append(s, g)[i] = s[i]
  BY <1>1
<1> QED BY <1>2 DEF WriteAt, s

(* Some group is the last to write a page that any group writes.           *)
LEMMA WritersBounded ==
  ASSUME NEW w \in Seq(Group), NEW p \in Pages, Writers(w, p) # {}
  PROVE  /\ Max(Writers(w, p)) \in Writers(w, p)
         /\ \A i \in Writers(w, p) : i <= Max(Writers(w, p))
<1>1. Writers(w, p) \subseteq 1 .. Len(w) /\ Len(w) \in Nat
  BY DEF Writers, IntactPrefix
<1> QED BY <1>1, MaxOfBounded

(* Replaying a log gives a data file.                                      *)
LEMMA ReplayType ==
  ASSUME NEW w \in Seq(Group), NEW d \in [Pages -> OnDisk]
  PROVE  Replay(w, d) \in [Pages -> OnDisk]
<1> SUFFICES ASSUME NEW p \in Pages, Writers(w, p) # {}
             PROVE  w[Max(Writers(w, p))].writes[p] \in OnDisk
  BY DEF Replay
<1>1. Max(Writers(w, p)) \in 1 .. Len(w)
  BY WritersBounded DEF Writers, IntactPrefix
<1>2. w[Max(Writers(w, p))].writes \in PageMap
  BY <1>1, GroupTypes
<1> QED BY <1>2 DEF PageMap, OptValue, OnDisk

-----------------------------------------------------------------------------
(* Type correctness.                                                       *)

(* Laying pending or committed pages over others keeps the type.           *)
LEMMA OverlayType ==
  /\ \A m1, m2 \in PageMap : Overlay(m1, m2) \in PageMap
  /\ \A m \in PageMap, d \in [Pages -> OnDisk] : Overlay(m, d) \in [Pages -> OnDisk]
BY DEF Overlay, PageMap, OptValue, OnDisk

(* The files and fields are well-typed before the first open.              *)
LEMMA InitTypeOK == Init => TypeOK
BY PagerConstants
   DEF Init, TypeOK, Ops, Callers, PageMap, NoPages, NoUndo, OptValue, OnDisk

(* Every operation of the pager, failing or not, keeps the types.          *)
LEMMA NextTypeOK == TypeOK /\ [Next]_vars => TypeOK'
<1> SUFFICES ASSUME TypeOK, [Next]_vars PROVE TypeOK'
  OBVIOUS
<1> USE PagerConstants DEF PageMap, NoPages, NoUndo, OptValue, OnDisk, Ops, Callers
<1> USE DEF TypeOK, fileVars
<1>1. CASE Open
  BY <1>1 DEF Open
<1>2. Replay(wal, data) \in [Pages -> OnDisk]
  BY ReplayType
<1>3. \A p \in Pages : Replayed(p) \subseteq OnDisk
  <2> SUFFICES ASSUME NEW p \in Pages, NEW i \in Writers(wal, p)
               PROVE  wal[i].writes[p] \in OnDisk
    BY DEF Replayed
  <2>1. i \in 1 .. Len(wal)
    BY DEF Writers, IntactPrefix
  <2> QED BY <2>1, GroupTypes
<1>4. CASE Recover
  BY <1>2, <1>3, <1>4 DEF Recover, GrowTo
<1>5. CASE RecoverFails
  BY <1>3, <1>5 DEF RecoverFails, OpenFails, pagerVars, Fault
<1>6. CASE RecoverSync
  BY <1>6 DEF RecoverSync, pagerVars
<1>7. CASE RecoverSyncFails
  BY <1>7 DEF RecoverSyncFails, OpenFails, pagerVars, Fault
<1>8. CASE BeginGroup
  BY <1>8 DEF BeginGroup
<1>9. CASE AbortGroup
  BY <1>9 DEF AbortGroup, AbortFields, ClearSavepoint
<1>10. CASE BeginSavepoint
  BY <1>10 DEF BeginSavepoint
<1>11. CASE ReleaseSavepoint
  BY <1>11 DEF ReleaseSavepoint, ClearSavepoint
<1>12. CASE RollbackToSavepoint
  BY <1>12 DEF RollbackToSavepoint, ClearSavepoint
<1>13. ASSUME NEW p \in Pages, NEW v \in OnDisk, CacheInsert(p, v)
       PROVE  cache' \in [Pages -> OnDisk]
  BY <1>13 DEF CacheInsert, Cached
<1>14. ASSUME NEW p \in Pages, ReadPage(p) PROVE TypeOK'
  <2>1. ReadResult(p) \in OnDisk
    BY DEF ReadResult
  <2>2. cache' \in [Pages -> OnDisk]
    BY <1>13, <1>14, <2>1 DEF ReadPage
  <2> QED BY <1>14, <2>2 DEF ReadPage
<1>15. ASSUME NEW p \in Pages, NEW v \in Values, Write(p, v) PROVE TypeOK'
  <2>1. cache' \in [Pages -> OnDisk]
    BY <1>13, <1>15 DEF Write
  <2>2. num_pages' \in 0 .. MaxPages
    BY <1>15 DEF Write, Pages
  <2> QED BY <1>15, <2>1, <2>2 DEF Write
<1>16. ASSUME NEW p \in Pages, NEW v \in Values, WritePage(p, v) PROVE TypeOK'
  BY <1>15, <1>16 DEF WritePage
<1>17. CASE AllocatePage
  <2>1. num_pages \in Pages /\ Blank \in Values /\ Write(num_pages, Blank)
    BY <1>17 DEF AllocatePage, Pages
  <2> QED BY <1>15, <2>1
<1>18. CASE CommitGroup
  BY <1>18 DEF CommitGroup, ClearSavepoint
<1>19. /\ WriteAt(wal, len, TornGroup) \in Seq(Group)
       /\ WriteAt(wal, len, CommittedGroup(pending)) \in Seq(Group)
  BY WriteAtFacts, GroupTypes
<1>20. CASE AppendWrite
  BY <1>19, <1>20 DEF AppendWrite, pagerVars
<1>21. CASE AppendSync
  <2>1. Overlay(pending, committed) \in PageMap
    BY OverlayType
  <2> QED BY <1>21, <2>1 DEF AppendSync
<1>22. ASSUME NEW w \in Seq(Group), CutBack(w)
       PROVE  wal' \in Seq(Group) /\ walDisk' \subseteq Seq(Group)
  <2>1. SetLen(w, len) \in Seq(Group)
    BY SetLenFacts
  <2> QED BY <1>22, <2>1 DEF CutBack
<1>23. CASE AppendWriteFails
  <2>1. wal' \in Seq(Group) /\ walDisk' \subseteq Seq(Group)
    BY <1>19, <1>22, <1>23 DEF AppendWriteFails
  <2> QED BY <1>23, <2>1 DEF AppendWriteFails, AbortFields, ClearSavepoint, Fault
<1>24. CASE AppendSyncFails
  <2>1. wal' \in Seq(Group) /\ walDisk' \subseteq Seq(Group)
    BY <1>22, <1>24 DEF AppendSyncFails
  <2> QED BY <1>24, <2>1 DEF AppendSyncFails, AbortFields, ClearSavepoint, Fault
<1>25. CASE CheckpointApply
  <2>1. Overlay(committed, data) \in [Pages -> OnDisk]
    BY OverlayType
  <2> QED BY <1>25, <2>1 DEF CheckpointApply, pagerVars
<1>26. CASE CheckpointApplyFails
  BY <1>26 DEF CheckpointApplyFails, CheckpointErr, OpenFails, NoPager, Fault, pagerVars
<1>27. CASE CheckpointSync
  BY <1>27 DEF CheckpointSync, pagerVars
<1>28. CASE CheckpointSyncFails
  BY <1>28 DEF CheckpointSyncFails, CheckpointErr, OpenFails, NoPager, Fault, pagerVars
<1>29. CASE Truncate
  <2>1. << >> \in Seq(Group)
    OBVIOUS
  <2>2. wal' \in Seq(Group) /\ walDisk' \subseteq Seq(Group)
    BY <1>29, <2>1 DEF Truncate
  <2> QED BY <1>29, <2>2 DEF Truncate, pagerVars
<1>30. CASE TruncateFails
  BY <1>30 DEF TruncateFails, CheckpointErr, OpenFails, NoPager, Fault, pagerVars
<1>31. CASE TruncateSync
  BY <1>31 DEF TruncateSync
<1>32. CASE TruncateSyncFails
  BY <1>32 DEF TruncateSyncFails, CheckpointErr, OpenFails, NoPager, Fault, pagerVars
<1>33. CASE Flush
  BY <1>33 DEF Flush, StartFlush, AbortFields, ClearSavepoint
<1>34. CASE Drop
  BY <1>34 DEF Drop, StartFlush, AbortFields, ClearSavepoint
<1>35. CASE SyncAll
  BY <1>35 DEF SyncAll, SyncAllReturns, NoPager, pagerVars
<1>36. CASE SyncAllFails
  BY <1>36 DEF SyncAllFails, SyncAllReturns, NoPager, Fault, pagerVars
<1>37. CASE Kill
  BY <1>37 DEF Kill, NoPager, Fault
<1>38. CASE Crash
  BY <1>38 DEF Crash, NoPager
<1>39. CASE UNCHANGED vars
  BY <1>39 DEF vars, pagerVars
<1> QED
  BY <1>1, <1>4, <1>5, <1>6, <1>7, <1>8, <1>9, <1>10, <1>11, <1>12, <1>14, <1>16,
     <1>17, <1>18, <1>20, <1>21, <1>23, <1>24, <1>25, <1>26, <1>27, <1>28, <1>29,
     <1>30, <1>31, <1>32, <1>33, <1>34, <1>35, <1>36, <1>37, <1>38, <1>39 DEF Next

(* Every reachable state of the pager is well typed, with all I/O failures *)
(* and crashes.                                                            *)
THEOREM TypeCorrect == Spec => []TypeOK
<1>1. Init => TypeOK
  BY InitTypeOK
<1>2. TypeOK /\ [Next]_vars => TypeOK'
  BY NextTypeOK
<1> QED BY <1>1, <1>2, PTL DEF Spec

-----------------------------------------------------------------------------
(* Cache coherence.  A cached page can only go stale when the version      *)
(* below it changes without it.  Three facts about the control state rule  *)
(* that out: while no pager is open nothing is cached or buffered, the     *)
(* caller of a checkpoint is known at each of its steps, and once a        *)
(* checkpoint has written its pages the data file holds every committed    *)
(* page, so that emptying `committed` shows nothing older.                 *)

Control ==
    /\ op \in {"closed", "idle", "append", "append_sync"} => caller = "none"
    /\ op \in {"recover", "recover_sync"} => caller = "open"
    /\ op \in {"checkpoint", "apply_sync"} => caller \in {"commit", "flush", "drop"}
    /\ op \in {"truncate", "truncate_sync"} => caller \notin {"none", "open_failed"}
    /\ op = "sync_all" => caller \notin {"none", "open"}

ClosedIsEmpty ==
    ~IsOpen => \A p \in Pages : cache[p] = NoPage /\ pending[p] = NoPage /\ committed[p] = NoPage

CheckpointApplied ==
    op \in {"apply_sync", "truncate", "truncate_sync"}
      => \A p \in Pages : committed[p] # NoPage => data[p] = committed[p]

CacheInv == TypeOK /\ Control /\ ClosedIsEmpty /\ CheckpointApplied /\ CacheCoherent

(* The committed image and the newest versions, page by page.              *)
LEMMA NewestAt ==
  \A p \in Pages :
     /\ CommittedImage[p] = (IF committed[p] # NoPage THEN committed[p] ELSE data[p])
     /\ Newest[p] = (IF pending[p] # NoPage THEN pending[p] ELSE CommittedImage[p])
BY DEF Newest, CommittedImage, Overlay

(* A database that was never opened has an empty cache.                    *)
LEMMA InitCacheInv == Init => CacheInv
BY InitTypeOK, NewestAt
   DEF Init, CacheInv, Control, ClosedIsEmpty, CheckpointApplied, CacheCoherent, NoPages

(* Inserting a page evicts at most other pages.                            *)
LEMMA CacheInsertAt ==
  ASSUME TypeOK, NEW p \in Pages, NEW v, CacheInsert(p, v)
  PROVE  /\ cache'[p] = v
         /\ \A q \in Pages : q # p => cache'[q] \in {cache[q], NoPage}
BY DEF CacheInsert, Cached, TypeOK

(* No operation leaves the caller of a checkpoint or a sync unknown.       *)
LEMMA NextControl == TypeOK /\ Control /\ [Next]_vars => Control'
<1> SUFFICES ASSUME TypeOK, Control, [Next]_vars PROVE Control'
  OBVIOUS
<1> USE DEF Control
<1>1. CASE Open
  BY <1>1 DEF Open, fileVars
<1>2. CASE Recover
  BY <1>2 DEF Recover, GrowTo
<1>3. CASE RecoverFails
  BY <1>3 DEF RecoverFails, OpenFails, pagerVars
<1>4. CASE RecoverSync
  BY <1>4 DEF RecoverSync, pagerVars
<1>5. CASE RecoverSyncFails
  BY <1>5 DEF RecoverSyncFails, OpenFails, pagerVars, fileVars
<1>6. CASE BeginGroup
  BY <1>6 DEF BeginGroup, fileVars
<1>7. CASE AbortGroup
  BY <1>7 DEF AbortGroup, AbortFields, fileVars
<1>8. CASE BeginSavepoint
  BY <1>8 DEF BeginSavepoint, fileVars
<1>9. CASE ReleaseSavepoint
  BY <1>9 DEF ReleaseSavepoint, fileVars
<1>10. CASE RollbackToSavepoint
  BY <1>10 DEF RollbackToSavepoint, fileVars
<1>11. ASSUME NEW p \in Pages, ReadPage(p) PROVE Control'
  BY <1>11 DEF ReadPage
<1>12. ASSUME NEW p \in Pages, NEW v \in Values, WritePage(p, v) PROVE Control'
  BY <1>12 DEF WritePage, Write
<1>13. CASE AllocatePage
  BY <1>13 DEF AllocatePage, Write
<1>14. CASE CommitGroup
  BY <1>14 DEF CommitGroup, fileVars
<1>15. CASE AppendWrite
  BY <1>15 DEF AppendWrite, pagerVars
<1>16. CASE AppendSync
  BY <1>16 DEF AppendSync, Overlay
<1>17. CASE AppendWriteFails
  BY <1>17 DEF AppendWriteFails, AbortFields
<1>18. CASE AppendSyncFails
  BY <1>18 DEF AppendSyncFails, AbortFields
<1>19. CASE CheckpointApply
  BY <1>19 DEF CheckpointApply, Overlay, pagerVars
<1>20. CASE CheckpointApplyFails
  BY <1>20 DEF CheckpointApplyFails, CheckpointErr, OpenFails, NoPager, pagerVars
<1>21. CASE CheckpointSync
  BY <1>21 DEF CheckpointSync, pagerVars
<1>22. CASE CheckpointSyncFails
  BY <1>22 DEF CheckpointSyncFails, CheckpointErr, OpenFails, NoPager, pagerVars, fileVars
<1>23. CASE Truncate
  BY <1>23 DEF Truncate, pagerVars
<1>24. CASE TruncateFails
  BY <1>24 DEF TruncateFails, CheckpointErr, OpenFails, NoPager, pagerVars, fileVars
<1>25. CASE TruncateSync
  BY <1>25 DEF TruncateSync
<1>26. CASE TruncateSyncFails
  BY <1>26 DEF TruncateSyncFails, CheckpointErr, OpenFails, NoPager, pagerVars, fileVars
<1>27. CASE Flush
  BY <1>27 DEF Flush, StartFlush, AbortFields, fileVars
<1>28. CASE Drop
  BY <1>28 DEF Drop, StartFlush, AbortFields, fileVars
<1>29. CASE SyncAll
  BY <1>29 DEF SyncAll, SyncAllReturns, NoPager, pagerVars
<1>30. CASE SyncAllFails
  BY <1>30 DEF SyncAllFails, SyncAllReturns, NoPager, pagerVars, fileVars
<1>31. CASE Kill
  BY <1>31 DEF Kill, NoPager, fileVars
<1>32. CASE Crash
  BY <1>32 DEF Crash, NoPager
<1>33. CASE UNCHANGED vars
  BY <1>33 DEF vars, pagerVars, fileVars
<1> QED
  BY <1>1, <1>2, <1>3, <1>4, <1>5, <1>6, <1>7, <1>8, <1>9, <1>10, <1>11, <1>12, <1>13,
     <1>14, <1>15, <1>16, <1>17, <1>18, <1>19, <1>20, <1>21, <1>22, <1>23, <1>24, <1>25,
     <1>26, <1>27, <1>28, <1>29, <1>30, <1>31, <1>32, <1>33 DEF Next

NewestOf(p) ==
    IF pending[p] # NoPage THEN pending[p]
    ELSE IF committed[p] # NoPage THEN committed[p] ELSE data[p]

CacheParts == ClosedIsEmpty /\ CheckpointApplied /\ CacheCoherent

Writing == {"apply_sync", "truncate", "truncate_sync"}

(* A step keeps the cache coherent when each page is evicted, unchanged    *)
(* with its newest version, or set to it.                                  *)
LEMMA CoherentStep ==
  ASSUME CacheCoherent,
         \A p \in Pages : \/ cache'[p] = NoPage
                          \/ cache'[p] = cache[p] /\ NewestOf(p)' = NewestOf(p)
                          \/ cache'[p] = NewestOf(p)'
  PROVE  CacheCoherent'
<1>1. \A p \in Pages : Newest[p] = NewestOf(p)
  BY DEF Newest, CommittedImage, Overlay, NewestOf
<1>2. \A p \in Pages : Newest'[p] = NewestOf(p)'
  BY DEF Newest, CommittedImage, Overlay, NewestOf
<1> QED BY <1>1, <1>2 DEF CacheCoherent

(* While the pager is being opened its maps are empty, so the data file    *)
(* may change freely.                                                      *)
LEMMA ClosedStep ==
  ASSUME ClosedIsEmpty, ~IsOpen, UNCHANGED <<cache, pending, committed>>
  PROVE  CacheParts'
BY DEF ClosedIsEmpty, CacheParts, CheckpointApplied, CacheCoherent

(* Steps that touch neither the cache nor the pages.                       *)
LEMMA OpenStep ==
  ASSUME CacheParts, IsOpen', op' \in Writing => op \in Writing,
         UNCHANGED <<cache, pending, committed, data>>
  PROVE  CacheParts'
<1>1. CacheCoherent'
  BY CoherentStep DEF CacheParts, NewestOf
<1> QED BY <1>1 DEF CacheParts, ClosedIsEmpty, CheckpointApplied, Writing

(* Dropping the Pager object.                                              *)
LEMMA PartsOfNoPager == NoPager => CacheParts'
BY DEF NoPager, NoPages, CacheParts, ClosedIsEmpty, CheckpointApplied, CacheCoherent

(* abort_group evicts exactly the pages whose pending write it drops.      *)
LEMMA PartsOfAbort ==
  ASSUME CacheParts, AbortFields, IsOpen', op' \notin Writing, UNCHANGED <<committed, data>>
  PROVE  CacheParts'
<1>1. \A p \in Pages : cache'[p] = NoPage \/ (cache'[p] = cache[p] /\ pending[p] = NoPage)
  BY DEF AbortFields
<1>2. \A p \in Pages : pending[p] = NoPage => NewestOf(p)' = NewestOf(p)
  BY DEF AbortFields, NoPages, NewestOf
<1>3. CacheCoherent'
  BY <1>1, <1>2, CoherentStep DEF CacheParts
<1> QED BY <1>3 DEF CacheParts, ClosedIsEmpty, CheckpointApplied, Writing

(* A checkpoint that fails after writing its pages, whoever called it.     *)
LEMMA PartsOfCheckpointErr ==
  ASSUME CacheParts, CheckpointErr, op \in Writing, UNCHANGED data
  PROVE  CacheParts'
<1>1. CASE NoPager
  BY <1>1, PartsOfNoPager
<1>2. CASE op' = "idle" /\ caller' = "none" /\ UNCHANGED pagerVars
  BY <1>2, OpenStep DEF pagerVars, IsOpen, Writing
<1>3. CASE caller = "open" /\ OpenFails
  BY <1>3, ClosedStep DEF CacheParts, OpenFails, pagerVars, IsOpen
<1> QED BY <1>1, <1>2, <1>3 DEF CheckpointErr

(* Every operation keeps the cache invariant, one case per operation.      *)
LEMMA NextCacheInv == CacheInv /\ [Next]_vars => CacheInv'
<1> SUFFICES ASSUME CacheInv, [Next]_vars PROVE CacheParts'
  BY NextTypeOK, NextControl DEF CacheInv, CacheParts
<1>p. CacheParts /\ Control
  BY DEF CacheInv, CacheParts
<1>t. /\ pending \in PageMap /\ committed \in PageMap /\ cache \in [Pages -> OnDisk]
      /\ undo \in [Pages -> OptValue \cup {Untouched}] /\ TypeOK
      /\ Pages \subseteq Nat /\ NoPage \notin Values /\ num_pages \in Nat
  BY PagerConstants DEF CacheInv, TypeOK, Pages
<1>1. CASE Open
  BY <1>1, <1>p, ClosedStep DEF CacheParts, IsOpen, Open
<1>2. CASE Recover
  BY <1>2, <1>p, ClosedStep DEF CacheParts, IsOpen, Recover
<1>3. CASE RecoverFails
  BY <1>3, <1>p, ClosedStep DEF CacheParts, IsOpen, RecoverFails, OpenFails, pagerVars
<1>4. CASE RecoverSync
  BY <1>4, <1>p, ClosedStep DEF CacheParts, IsOpen, RecoverSync, pagerVars
<1>5. CASE RecoverSyncFails
  BY <1>5, <1>p, ClosedStep DEF CacheParts, IsOpen, RecoverSyncFails, OpenFails, pagerVars
<1>6. CASE BeginGroup
  BY <1>6, <1>p, OpenStep DEF IsOpen, Writing, Control, BeginGroup, fileVars
<1>7. CASE AbortGroup
  BY <1>7, <1>p, PartsOfAbort DEF IsOpen, Writing, Control, AbortGroup, fileVars
<1>8. CASE BeginSavepoint
  BY <1>8, <1>p, OpenStep DEF IsOpen, Writing, Control, BeginSavepoint, fileVars
<1>9. CASE ReleaseSavepoint
  BY <1>9, <1>p, OpenStep DEF IsOpen, Writing, Control, ReleaseSavepoint, fileVars
<1>10. CASE RollbackToSavepoint
  <2>1. op = "idle" /\ UNCHANGED <<committed, data, op, caller>>
    BY <1>10 DEF RollbackToSavepoint, fileVars
  <2>2. \A p \in Pages : cache'[p] = NoPage \/ (cache'[p] = cache[p] /\ pending'[p] = pending[p])
    BY <1>10 DEF RollbackToSavepoint
  <2>3. CacheCoherent'
    BY <1>p, <2>1, <2>2, CoherentStep DEF CacheParts, NewestOf
  <2> QED BY <1>p, <2>1, <2>3 DEF CacheParts, ClosedIsEmpty, CheckpointApplied, IsOpen, Control
<1>11. ASSUME NEW p \in Pages, ReadPage(p) PROVE CacheParts'
  <2>1. op = "idle" /\ UNCHANGED <<pending, committed, data, op, caller>>
    BY <1>11 DEF ReadPage, fileVars
  <2>2. CacheInsert(p, ReadResult(p)) /\ ReadResult(p) = NewestOf(p)
    BY <1>11 DEF ReadPage, ReadResult, NewestOf
  <2>3. /\ cache'[p] = NewestOf(p)
        /\ \A q \in Pages : q # p => cache'[q] \in {cache[q], NoPage}
    BY <1>t, <2>2, CacheInsertAt, Zenon
  <2>4. \A q \in Pages : NewestOf(q)' = NewestOf(q)
    BY <2>1 DEF NewestOf
  <2>5. CacheCoherent'
    BY <1>p, <2>3, <2>4, CoherentStep DEF CacheParts
  <2> QED BY <1>p, <2>1, <2>5 DEF CacheParts, ClosedIsEmpty, CheckpointApplied, IsOpen, Control
<1>w. ASSUME NEW p \in Pages, NEW v \in Values, Write(p, v) PROVE CacheParts'
  <2>1. op = "idle" /\ op' \in {"idle", "append"} /\ UNCHANGED <<committed, data, caller>>
    BY <1>w DEF Write, fileVars
  <2>2. cache'[p] = v /\ \A q \in Pages : q # p => cache'[q] \in {cache[q], NoPage}
    BY <1>t, <1>w, CacheInsertAt DEF Write
  <2>3. pending'[p] = v /\ \A q \in Pages : q # p => pending'[q] = pending[q]
    BY <1>t, <1>w DEF Write, PageMap
  <2>4. NewestOf(p)' = v /\ \A q \in Pages : q # p => NewestOf(q)' = NewestOf(q)
    BY <1>t, <2>1, <2>3 DEF NewestOf
  <2>5. CacheCoherent'
    BY <1>p, <2>2, <2>4, CoherentStep DEF CacheParts
  <2> QED BY <1>p, <2>1, <2>5 DEF CacheParts, ClosedIsEmpty, CheckpointApplied, IsOpen, Control
<1>12. ASSUME NEW p \in Pages, NEW v \in Values, WritePage(p, v) PROVE CacheParts'
  BY <1>12, <1>w DEF WritePage
<1>13. CASE AllocatePage
  <2>1. num_pages \in Pages /\ Blank \in Values /\ Write(num_pages, Blank)
    BY <1>13, <1>t, PagerConstants DEF AllocatePage, Pages
  <2> QED BY <1>w, <2>1
<1>14. CASE CommitGroup
  BY <1>14, <1>p, OpenStep DEF IsOpen, Writing, Control, CommitGroup, fileVars
<1>15. CASE AppendWrite
  BY <1>15, <1>p, OpenStep DEF IsOpen, Writing, Control, AppendWrite, pagerVars
<1>16. CASE AppendSync
  <2>1. /\ op' \in {"checkpoint", "idle"} /\ caller' \in {"commit", "none"}
        /\ UNCHANGED <<cache, data>>
    BY <1>16 DEF AppendSync
  <2>2. \A p \in Pages : NewestOf(p)' = NewestOf(p)
    BY <1>16, <2>1 DEF AppendSync, Overlay, NoPages, NewestOf
  <2>3. CacheCoherent'
    BY <1>p, <2>1, <2>2, CoherentStep DEF CacheParts
  <2> QED BY <1>p, <2>1, <2>3 DEF CacheParts, ClosedIsEmpty, CheckpointApplied, IsOpen, Control
<1>17. CASE AppendWriteFails
  BY <1>17, <1>p, PartsOfAbort DEF IsOpen, Writing, Control, AppendWriteFails
<1>18. CASE AppendSyncFails
  BY <1>18, <1>p, PartsOfAbort DEF IsOpen, Writing, Control, AppendSyncFails
<1>19. CASE CheckpointApply
  <2>1. /\ op = "checkpoint" /\ op' \in {"sync_all", "apply_sync"}
        /\ UNCHANGED <<cache, pending, committed, caller>>
    BY <1>19 DEF CheckpointApply, pagerVars
  <2>2. \A p \in Pages : data'[p] = data[p] \/ committed[p] # NoPage
    BY <1>19 DEF CheckpointApply, Overlay
  <2>3. op' = "apply_sync" => \A p \in Pages : committed[p] # NoPage => data'[p] = committed[p]
    BY <1>19 DEF CheckpointApply, Overlay
  <2>4. CacheCoherent'
    BY <1>p, <2>1, <2>2, CoherentStep DEF CacheParts, NewestOf
  <2>5. ClosedIsEmpty'
    BY <1>p, <2>1 DEF CacheParts, ClosedIsEmpty, IsOpen
  <2> QED BY <2>1, <2>3, <2>4, <2>5 DEF CacheParts, CheckpointApplied
<1>20. CASE CheckpointApplyFails
  <2>1. /\ op = "checkpoint" /\ caller # "open" /\ CheckpointErr
        /\ \A p \in Pages : data'[p] = data[p] \/ committed[p] # NoPage
    BY <1>20, <1>p DEF CheckpointApplyFails, Control
  <2>2. CASE NoPager
    BY <2>2, PartsOfNoPager
  <2>3. CASE op' = "idle" /\ caller' = "none" /\ UNCHANGED pagerVars
    <3>1. UNCHANGED <<cache, pending, committed>>
      BY <2>3 DEF pagerVars
    <3>2. CacheCoherent'
      BY <1>p, <2>1, <3>1, CoherentStep DEF CacheParts, NewestOf
    <3> QED BY <2>3, <3>2 DEF CacheParts, ClosedIsEmpty, CheckpointApplied, IsOpen
  <2> QED BY <2>1, <2>2, <2>3 DEF CheckpointErr
<1>21. CASE CheckpointSync
  <2>1. /\ op \in Writing /\ op' = "truncate" /\ caller \notin {"open", "open_failed"}
        /\ UNCHANGED <<cache, pending, committed, data, caller>>
    BY <1>21, <1>p DEF CheckpointSync, Writing, Control, pagerVars
  <2> QED BY <1>p, <2>1, OpenStep DEF IsOpen
<1>22. CASE CheckpointSyncFails
  BY <1>22, <1>p, PartsOfCheckpointErr DEF CheckpointSyncFails, Writing, fileVars
<1>23. CASE Truncate
  <2>1. /\ op \in Writing /\ op' = "truncate_sync"
        /\ UNCHANGED <<cache, pending, committed, data, caller>>
    BY <1>23 DEF Truncate, Writing, pagerVars
  <2>2. CASE IsOpen
    BY <1>p, <2>1, <2>2, OpenStep DEF IsOpen
  <2>3. CASE ~IsOpen
    BY <1>p, <2>1, <2>3, ClosedStep DEF CacheParts
  <2> QED BY <2>2, <2>3
<1>24. CASE TruncateFails
  BY <1>24, <1>p, PartsOfCheckpointErr DEF TruncateFails, Writing, fileVars
<1>25. CASE TruncateSync
  <2>1. /\ op = "truncate_sync" /\ op' \in {"sync_all", "idle"}
        /\ caller' \in {"flush", "drop", "none"} /\ UNCHANGED <<cache, pending, data>>
        /\ \A p \in Pages : committed'[p] = NoPage
    BY <1>25 DEF TruncateSync, NoPages
  <2>2. \A p \in Pages : committed[p] # NoPage => data[p] = committed[p]
    BY <1>p, <2>1 DEF CacheParts, CheckpointApplied
  <2>3. \A p \in Pages : NewestOf(p)' = NewestOf(p)
    BY <2>1, <2>2 DEF NewestOf
  <2>4. CacheCoherent'
    BY <1>p, <2>1, <2>3, CoherentStep DEF CacheParts
  <2> QED BY <1>p, <2>1, <2>4 DEF CacheParts, ClosedIsEmpty, CheckpointApplied, IsOpen, Control
<1>26. CASE TruncateSyncFails
  BY <1>26, <1>p, PartsOfCheckpointErr DEF TruncateSyncFails, Writing, fileVars
<1>27. CASE Flush
  <2>1. /\ op = "idle" /\ op' = "checkpoint" /\ caller' \in {"flush", "drop"}
        /\ UNCHANGED <<committed, data>>
        /\ AbortFields \/ UNCHANGED <<pending, cache>>
    BY <1>27 DEF Flush, StartFlush, fileVars
  <2>2. CASE AbortFields
    BY <1>p, <2>1, <2>2, PartsOfAbort DEF IsOpen, Writing
  <2>3. CASE UNCHANGED <<pending, cache>>
    BY <1>p, <2>1, <2>3, OpenStep DEF IsOpen, Writing
  <2> QED BY <2>1, <2>2, <2>3
<1>28. CASE Drop
  <2>1. /\ op = "idle" /\ op' = "checkpoint" /\ caller' \in {"flush", "drop"}
        /\ UNCHANGED <<committed, data>>
        /\ AbortFields \/ UNCHANGED <<pending, cache>>
    BY <1>28 DEF Drop, StartFlush, fileVars
  <2>2. CASE AbortFields
    BY <1>p, <2>1, <2>2, PartsOfAbort DEF IsOpen, Writing
  <2>3. CASE UNCHANGED <<pending, cache>>
    BY <1>p, <2>1, <2>3, OpenStep DEF IsOpen, Writing
  <2> QED BY <2>1, <2>2, <2>3
<1>29. CASE SyncAll
  <2>1. CASE NoPager
    BY <2>1, PartsOfNoPager
  <2>2. CASE op' = "idle" /\ caller' = "none" /\ UNCHANGED pagerVars
    BY <1>29, <1>p, <2>2, OpenStep DEF SyncAll, pagerVars, fileVars, IsOpen, Writing
  <2> QED BY <1>29, <2>1, <2>2 DEF SyncAll, SyncAllReturns
<1>30. CASE SyncAllFails
  <2>1. CASE NoPager
    BY <2>1, PartsOfNoPager
  <2>2. CASE op' = "idle" /\ caller' = "none" /\ UNCHANGED pagerVars
    BY <1>30, <1>p, <2>2, OpenStep DEF SyncAllFails, pagerVars, fileVars, IsOpen, Writing
  <2> QED BY <1>30, <2>1, <2>2 DEF SyncAllFails, SyncAllReturns
<1>31. CASE Kill
  BY <1>31, PartsOfNoPager DEF Kill
<1>32. CASE Crash
  BY <1>32, PartsOfNoPager DEF Crash
<1>33. CASE UNCHANGED vars
  <2>1. UNCHANGED <<cache, pending, committed, data, op, caller>>
    BY <1>33 DEF vars, pagerVars, fileVars
  <2>2. CASE IsOpen
    BY <1>p, <2>1, <2>2, OpenStep DEF IsOpen
  <2>3. CASE ~IsOpen
    BY <1>p, <2>1, <2>3, ClosedStep DEF CacheParts
  <2> QED BY <2>2, <2>3
<1> QED
  BY <1>1, <1>2, <1>3, <1>4, <1>5, <1>6, <1>7, <1>8, <1>9, <1>10, <1>11, <1>12, <1>13,
     <1>14, <1>15, <1>16, <1>17, <1>18, <1>19, <1>20, <1>21, <1>22, <1>23, <1>24,
     <1>25, <1>26, <1>27, <1>28, <1>29, <1>30, <1>31, <1>32, <1>33 DEF Next

(* The cache invariant holds in every reachable state.                     *)
LEMMA CacheInvariant == Spec => []CacheInv
<1>1. Init => CacheInv
  BY InitCacheInv
<1>2. CacheInv /\ [Next]_vars => CacheInv'
  BY NextCacheInv
<1> QED BY <1>1, <1>2, PTL DEF Spec

(* A cached page always equals its newest version, for every cache size,   *)
(* whatever I/O fails and wherever the process dies.                       *)
THEOREM CacheCoherence == Spec => []CacheCoherent
<1>1. CacheInv => CacheCoherent
  BY DEF CacheInv
<1> QED BY <1>1, CacheInvariant, PTL

-----------------------------------------------------------------------------
(* Only a commit changes the committed image.                              *)

OnlyCommit ==
    IsOpen /\ IsOpen' /\ CommittedImage' # CommittedImage
      => op = "append_sync" /\ CommittedImage' = Newest

(* Writing committed pages to the data file does not change the image.     *)
LEMMA ImageKept ==
  ASSUME UNCHANGED committed, \A p \in Pages : committed[p] = NoPage => data'[p] = data[p]
  PROVE  CommittedImage' = CommittedImage
BY DEF CommittedImage, Overlay

(* No operation but a commit changes what is committed.                    *)
LEMMA StepOnlyCommit == CacheInv /\ Next => OnlyCommit
<1> SUFFICES ASSUME CacheInv, Next, IsOpen, IsOpen'
             PROVE  \/ CommittedImage' = CommittedImage
                    \/ op = "append_sync" /\ CommittedImage' = Newest
  BY DEF OnlyCommit
<1>k. UNCHANGED <<committed, data>> => CommittedImage' = CommittedImage
  BY ImageKept
<1>c. Control /\ CheckpointApplied
  BY DEF CacheInv
<1>n. ~NoPager
  BY DEF NoPager, IsOpen
<1>e. CheckpointErr => UNCHANGED committed
  BY <1>n DEF CheckpointErr, OpenFails, pagerVars
<1>s. SyncAllReturns => UNCHANGED committed
  BY <1>n DEF SyncAllReturns, pagerVars
<1>1. ~Open /\ ~Recover /\ ~RecoverFails /\ ~RecoverSync /\ ~RecoverSyncFails
  BY DEF Open, Recover, RecoverFails, RecoverSync, RecoverSyncFails, IsOpen
<1>2. CASE BeginGroup
  BY <1>2, <1>k DEF BeginGroup, fileVars
<1>3. CASE AbortGroup
  BY <1>3, <1>k DEF AbortGroup, fileVars
<1>4. CASE BeginSavepoint
  BY <1>4, <1>k DEF BeginSavepoint, fileVars
<1>5. CASE ReleaseSavepoint
  BY <1>5, <1>k DEF ReleaseSavepoint, fileVars
<1>6. CASE RollbackToSavepoint
  BY <1>6, <1>k DEF RollbackToSavepoint, fileVars
<1>7. ASSUME NEW p \in Pages, ReadPage(p) PROVE CommittedImage' = CommittedImage
  BY <1>7, <1>k DEF ReadPage, fileVars
<1>8. ASSUME NEW p \in Pages, NEW v \in Values, WritePage(p, v)
       PROVE  CommittedImage' = CommittedImage
  BY <1>8, <1>k DEF WritePage, Write, fileVars
<1>9. CASE AllocatePage
  BY <1>9, <1>k DEF AllocatePage, Write, fileVars
<1>10. CASE CommitGroup
  BY <1>10, <1>k DEF CommitGroup, fileVars
<1>11. CASE AppendWrite
  BY <1>11, <1>k DEF AppendWrite, pagerVars
<1>12. CASE AppendSync
  <2>1. op = "append_sync" /\ committed' = Overlay(pending, committed) /\ data' = data
    BY <1>12 DEF AppendSync
  <2> QED BY <2>1 DEF CommittedImage, Newest, Overlay
<1>13. CASE AppendWriteFails
  BY <1>13, <1>k DEF AppendWriteFails
<1>14. CASE AppendSyncFails
  BY <1>14, <1>k DEF AppendSyncFails
<1>15. CASE CheckpointApply
  <2>1. UNCHANGED committed /\ \A p \in Pages : committed[p] = NoPage => data'[p] = data[p]
    BY <1>15 DEF CheckpointApply, Overlay, pagerVars
  <2> QED BY <2>1, ImageKept
<1>16. CASE CheckpointApplyFails
  <2>1. UNCHANGED committed /\ \A p \in Pages : committed[p] = NoPage => data'[p] = data[p]
    BY <1>16, <1>e DEF CheckpointApplyFails
  <2> QED BY <2>1, ImageKept
<1>17. CASE CheckpointSync
  BY <1>17, <1>k DEF CheckpointSync, pagerVars
<1>18. CASE CheckpointSyncFails
  BY <1>18, <1>e, <1>k DEF CheckpointSyncFails, fileVars
<1>19. CASE Truncate
  BY <1>19, <1>k DEF Truncate, pagerVars
<1>20. CASE TruncateFails
  BY <1>20, <1>e, <1>k DEF TruncateFails, fileVars
<1>21. CASE TruncateSync
  <2>1. data' = data /\ committed' = NoPages
    BY <1>21 DEF TruncateSync
  <2>2. \A p \in Pages : committed[p] # NoPage => data[p] = committed[p]
    BY <1>21, <1>c DEF TruncateSync, CheckpointApplied
  <2> QED BY <2>1, <2>2 DEF CommittedImage, Overlay, NoPages
<1>22. CASE TruncateSyncFails
  BY <1>22, <1>e, <1>k DEF TruncateSyncFails, fileVars
<1>23. CASE Flush
  BY <1>23, <1>k DEF Flush, StartFlush, fileVars
<1>24. CASE Drop
  BY <1>24, <1>k DEF Drop, StartFlush, fileVars
<1>25. CASE SyncAll
  BY <1>25, <1>s, <1>k DEF SyncAll
<1>26. CASE SyncAllFails
  BY <1>26, <1>s, <1>k DEF SyncAllFails, fileVars
<1>27. ~Kill /\ ~Crash
  BY <1>n DEF Kill, Crash
<1> QED
  BY <1>1, <1>2, <1>3, <1>4, <1>5, <1>6, <1>7, <1>8, <1>9, <1>10, <1>11, <1>12, <1>13,
     <1>14, <1>15, <1>16, <1>17, <1>18, <1>19, <1>20, <1>21, <1>22, <1>23, <1>24,
     <1>25, <1>26, <1>27 DEF Next

(* While the pager is open, failing checkpoints and flushes, aborts,       *)
(* rollbacks, reads and evictions leave the committed image alone.         *)
THEOREM CommittedImageStable == Spec => CommittedChangesOnlyByCommit
<1>1. CacheInv /\ [Next]_vars => [OnlyCommit]_vars
  BY StepOnlyCommit
<1>2. Spec => [][OnlyCommit]_vars
  BY <1>1, CacheInvariant, PTL DEF Spec
<1> QED BY <1>2 DEF CommittedChangesOnlyByCommit, OnlyCommit

-----------------------------------------------------------------------------
(* Page numbers.  What a group or a statement may take back lies above     *)
(* everything committed before it began.                                   *)

Below(m, n) == \A p \in Pages : m[p] # NoPage => p < n

GroupInFile ==
    active_group = "Some" => Below(committed, group_start_pages)

SavepointInFile ==
    savepoint = "Some" =>
      /\ active_group = "Some"
      /\ Below(committed, sp_pages)
      /\ \A p \in Pages : /\ undo[p] \notin {Untouched, NoPage} => p < sp_pages
                          /\ undo[p] = Untouched /\ pending[p] # NoPage => p < sp_pages

PageCounts ==
    CommittedInFile /\ Below(pending, num_pages) /\ GroupInFile /\ SavepointInFile

GroupControl ==
    /\ ~IsOpen => active_group = "None" /\ savepoint = "None"
    /\ op \in {"append", "append_sync"} => active_group = "Some" /\ savepoint = "None"

FileInv == PageCounts /\ GroupControl

(* No page is counted before the first open.                               *)
LEMMA InitFileInv == Init => FileInv
BY DEF Init, FileInv, PageCounts, GroupControl, IsOpen, CommittedInFile, Below, GroupInFile,
       SavepointInFile, NoPages

(* Steps that leave the pager's fields alone, that drop the Pager object,  *)
(* and that abort the group.                                               *)
LEMMA CountsKept == PageCounts /\ UNCHANGED pagerVars => PageCounts'
BY DEF PageCounts, pagerVars, CommittedInFile, Below, GroupInFile, SavepointInFile

(* Dropping the Pager object leaves nothing to count.                      *)
LEMMA CountsOfNoPager == NoPager => FileInv'
BY DEF NoPager, FileInv, PageCounts, GroupControl, IsOpen, CommittedInFile, Below,
       GroupInFile, SavepointInFile, NoPages

(* abort_group takes num_pages back to where the group began.              *)
LEMMA CountsOfAbort ==
  ASSUME PageCounts, active_group = "Some", AbortFields, UNCHANGED committed
  PROVE  PageCounts' /\ active_group' = "None" /\ savepoint' = "None"
BY DEF AbortFields, ClearSavepoint, PageCounts, CommittedInFile, Below, GroupInFile,
       SavepointInFile, NoPages

(* A failed checkpoint leaves the counts, or drops the Pager object.       *)
LEMMA CountsOfCheckpointErr ==
  ASSUME FileInv, CheckpointErr, op \notin {"append", "append_sync"}
  PROVE  FileInv'
<1>1. CASE NoPager
  BY <1>1, CountsOfNoPager
<1>2. CASE caller \in {"commit", "flush"} /\ op' = "idle" /\ caller' = "none"
            /\ UNCHANGED <<pagerVars, len>>
  <2>1. PageCounts'
    BY <1>2, CountsKept DEF FileInv
  <2> QED BY <1>2, <2>1 DEF FileInv, GroupControl, IsOpen
<1>3. CASE caller = "open" /\ OpenFails
  <2>1. PageCounts' /\ UNCHANGED <<active_group, savepoint>>
    BY <1>3, CountsKept DEF FileInv, OpenFails, pagerVars
  <2> QED BY <1>3, <2>1 DEF FileInv, GroupControl, IsOpen, OpenFails
<1> QED BY <1>1, <1>2, <1>3 DEF CheckpointErr

(* Every operation keeps the page counts, one case per operation.          *)
LEMMA NextFileInv == FileInv /\ CacheInv /\ [Next]_vars => FileInv'
<1> SUFFICES ASSUME FileInv, CacheInv, [Next]_vars PROVE FileInv'
  OBVIOUS
<1>t. /\ num_pages \in Nat /\ group_start_pages \in Nat /\ sp_pages \in Nat
      /\ active_group \in {"None", "Some"} /\ savepoint \in {"None", "Some"}
      /\ pending \in PageMap /\ committed \in PageMap
      /\ undo \in [Pages -> OptValue \cup {Untouched}]
      /\ Pages \subseteq Nat /\ Untouched # NoPage /\ NoPage \notin Values
  BY PagerConstants DEF CacheInv, TypeOK, Pages
<1>c. ClosedIsEmpty /\ Control
  BY DEF CacheInv
<1>k. ASSUME UNCHANGED pagerVars, GroupControl' PROVE FileInv'
  BY <1>k, CountsKept DEF FileInv
<1> USE DEF GroupControl, IsOpen
<1>1. CASE Open
  <2>1. PageCounts'
    BY <1>1, <1>t, <1>c DEF Open, fileVars, ClosedIsEmpty,
       FileInv, PageCounts, CommittedInFile, Below, GroupInFile, SavepointInFile
  <2> QED BY <1>1, <2>1 DEF FileInv, Open
<1>2. CASE Recover
  <2>1. PageCounts'
    BY <1>2, <1>t, <1>c DEF Recover, GrowTo, ClosedIsEmpty,
       FileInv, PageCounts, CommittedInFile, Below, GroupInFile, SavepointInFile
  <2> QED BY <1>2, <2>1 DEF FileInv, Recover
<1>3. CASE RecoverFails
  BY <1>3, <1>k DEF FileInv, RecoverFails, OpenFails, pagerVars
<1>4. CASE RecoverSync
  BY <1>4, <1>k DEF FileInv, RecoverSync, pagerVars
<1>5. CASE RecoverSyncFails
  BY <1>5, <1>k DEF FileInv, RecoverSyncFails, OpenFails, pagerVars
<1>6. CASE BeginGroup
  <2>1. PageCounts'
    BY <1>6, <1>t DEF BeginGroup,
       FileInv, PageCounts, CommittedInFile, Below, GroupInFile, SavepointInFile
  <2> QED BY <1>6, <1>c, <2>1 DEF FileInv, BeginGroup, Control
<1>7. CASE AbortGroup
  <2>1. PageCounts' /\ active_group' = "None" /\ savepoint' = "None"
    BY <1>7, CountsOfAbort DEF AbortGroup, FileInv
  <2> QED BY <1>7, <2>1 DEF FileInv, AbortGroup
<1>8. CASE BeginSavepoint
  <2>1. PageCounts'
    BY <1>8, <1>t DEF BeginSavepoint, NoUndo,
       FileInv, PageCounts, CommittedInFile, Below, GroupInFile, SavepointInFile
  <2> QED BY <1>8, <2>1 DEF FileInv, BeginSavepoint
<1>9. CASE ReleaseSavepoint
  <2>1. PageCounts'
    BY <1>9, <1>t DEF ReleaseSavepoint, ClearSavepoint,
       FileInv, PageCounts, CommittedInFile, Below, GroupInFile, SavepointInFile
  <2> QED BY <1>9, <2>1 DEF FileInv, ReleaseSavepoint, ClearSavepoint
<1>10. CASE RollbackToSavepoint
  <2>1. PageCounts'
    BY <1>10, <1>t DEF RollbackToSavepoint, ClearSavepoint, PageMap,
       FileInv, PageCounts, CommittedInFile, Below, GroupInFile, SavepointInFile
  <2> QED BY <1>10, <2>1 DEF FileInv, RollbackToSavepoint, ClearSavepoint
<1>11. ASSUME NEW p \in Pages, ReadPage(p) PROVE FileInv'
  <2>1. PageCounts'
    BY <1>11 DEF ReadPage,
       FileInv, PageCounts, CommittedInFile, Below, GroupInFile, SavepointInFile
  <2> QED BY <1>11, <2>1 DEF ReadPage, FileInv
<1>w. ASSUME NEW p \in Pages, NEW v \in Values, Write(p, v) PROVE FileInv'
  <2>1. num_pages' >= num_pages /\ p < num_pages' /\ num_pages' \in Nat
    BY <1>w, <1>t DEF Write
  <2>2. pending' = [pending EXCEPT ![p] = v] /\ committed' = committed
    BY <1>w DEF Write
  <2>3. CommittedInFile' /\ Below(pending', num_pages')
    BY <1>t, <2>1, <2>2 DEF FileInv, PageCounts, CommittedInFile, Below, PageMap
  <2>4. GroupInFile'
    BY <1>w, <1>t, <2>2 DEF Write, FileInv, PageCounts, CommittedInFile, Below, GroupInFile
  <2>5. SavepointInFile'
    BY <1>w, <1>t, <2>2 DEF Write, FileInv, PageCounts, Below, SavepointInFile, PageMap
  <2>6. GroupControl'
    BY <1>w, <1>t, <1>c DEF Write, FileInv, PageCounts, SavepointInFile, Control
  <2> QED BY <2>3, <2>4, <2>5, <2>6 DEF FileInv, PageCounts
<1>12. ASSUME NEW p \in Pages, NEW v \in Values, WritePage(p, v) PROVE FileInv'
  BY <1>12, <1>w DEF WritePage
<1>13. CASE AllocatePage
  <2>1. num_pages \in Pages /\ Blank \in Values /\ Write(num_pages, Blank)
    BY <1>13, <1>t, PagerConstants DEF AllocatePage, Pages
  <2> QED BY <1>w, <2>1
<1>14. CASE CommitGroup
  <2>1. PageCounts'
    BY <1>14, <1>t DEF CommitGroup, ClearSavepoint,
       FileInv, PageCounts, CommittedInFile, Below, GroupInFile, SavepointInFile
  <2> QED BY <1>14, <2>1 DEF FileInv, CommitGroup, ClearSavepoint
<1>15. CASE AppendWrite
  BY <1>15, <1>k DEF FileInv, AppendWrite, pagerVars
<1>16. CASE AppendSync
  <2>1. PageCounts'
    BY <1>16, <1>t DEF AppendSync, Overlay, NoPages,
       FileInv, PageCounts, CommittedInFile, Below, GroupInFile, SavepointInFile
  <2> QED BY <1>16, <2>1 DEF FileInv, AppendSync
<1>17. CASE AppendWriteFails
  <2>1. PageCounts' /\ active_group' = "None" /\ savepoint' = "None"
    BY <1>17, CountsOfAbort DEF AppendWriteFails, FileInv
  <2> QED BY <1>17, <2>1 DEF FileInv, AppendWriteFails
<1>18. CASE AppendSyncFails
  <2>1. PageCounts' /\ active_group' = "None" /\ savepoint' = "None"
    BY <1>18, CountsOfAbort DEF AppendSyncFails, FileInv
  <2> QED BY <1>18, <2>1 DEF FileInv, AppendSyncFails
<1>19. CASE CheckpointApply
  BY <1>19, <1>k DEF FileInv, CheckpointApply, pagerVars
<1>20. CASE CheckpointApplyFails
  BY <1>20, CountsOfCheckpointErr DEF CheckpointApplyFails
<1>21. CASE CheckpointSync
  BY <1>21, <1>k DEF FileInv, CheckpointSync, pagerVars
<1>22. CASE CheckpointSyncFails
  BY <1>22, CountsOfCheckpointErr DEF CheckpointSyncFails
<1>23. CASE Truncate
  BY <1>23, <1>k DEF FileInv, Truncate, pagerVars
<1>24. CASE TruncateFails
  BY <1>24, CountsOfCheckpointErr DEF TruncateFails
<1>25. CASE TruncateSync
  <2>1. PageCounts'
    BY <1>25, <1>t DEF TruncateSync, NoPages,
       FileInv, PageCounts, CommittedInFile, Below, GroupInFile, SavepointInFile
  <2> QED BY <1>25, <2>1 DEF FileInv, TruncateSync
<1>26. CASE TruncateSyncFails
  BY <1>26, CountsOfCheckpointErr DEF TruncateSyncFails
<1>27. CASE Flush
  <2>1. CASE active_group = "Some"
    <3>1. PageCounts' /\ active_group' = "None" /\ savepoint' = "None"
      BY <1>27, <2>1, CountsOfAbort DEF Flush, StartFlush, FileInv
    <3> QED BY <1>27, <3>1 DEF FileInv, Flush, StartFlush
  <2>2. CASE active_group # "Some"
    <3>1. UNCHANGED pagerVars
      BY <1>27, <2>2 DEF Flush, StartFlush, pagerVars
    <3> QED BY <1>27, <1>k, <3>1 DEF FileInv, Flush, StartFlush, pagerVars
  <2> QED BY <2>1, <2>2
<1>28. CASE Drop
  <2>1. CASE active_group = "Some"
    <3>1. PageCounts' /\ active_group' = "None" /\ savepoint' = "None"
      BY <1>28, <2>1, CountsOfAbort DEF Drop, StartFlush, FileInv
    <3> QED BY <1>28, <3>1 DEF FileInv, Drop, StartFlush
  <2>2. CASE active_group # "Some"
    <3>1. UNCHANGED pagerVars
      BY <1>28, <2>2 DEF Drop, StartFlush, pagerVars
    <3> QED BY <1>28, <1>k, <3>1 DEF FileInv, Drop, StartFlush, pagerVars
  <2> QED BY <2>1, <2>2
<1>29. CASE SyncAll
  <2>1. CASE NoPager
    BY <2>1, CountsOfNoPager
  <2>2. CASE op' = "idle" /\ caller' = "none" /\ UNCHANGED pagerVars
    BY <1>29, <1>k, <2>2 DEF SyncAll, FileInv, pagerVars
  <2> QED BY <1>29, <2>1, <2>2 DEF SyncAll, SyncAllReturns
<1>30. CASE SyncAllFails
  <2>1. CASE NoPager
    BY <2>1, CountsOfNoPager
  <2>2. CASE op' = "idle" /\ caller' = "none" /\ UNCHANGED pagerVars
    BY <1>30, <1>k, <2>2 DEF SyncAllFails, FileInv, pagerVars
  <2> QED BY <1>30, <2>1, <2>2 DEF SyncAllFails, SyncAllReturns
<1>31. CASE Kill
  BY <1>31, CountsOfNoPager DEF Kill
<1>32. CASE Crash
  BY <1>32, CountsOfNoPager DEF Crash
<1>33. CASE UNCHANGED vars
  BY <1>33, <1>k DEF FileInv, vars, pagerVars
<1> QED
  BY <1>1, <1>2, <1>3, <1>4, <1>5, <1>6, <1>7, <1>8, <1>9, <1>10, <1>11, <1>12,
     <1>13, <1>14, <1>15, <1>16, <1>17, <1>18, <1>19, <1>20, <1>21, <1>22, <1>23,
     <1>24, <1>25, <1>26, <1>27, <1>28, <1>29, <1>30, <1>31, <1>32, <1>33 DEF Next

(* No abort and no rollback takes back the number of a committed page, so  *)
(* the pages a checkpoint writes lie within the file the pager knows.      *)
THEOREM CommittedPagesInFile == Spec => []CommittedInFile
<1>1. Init => FileInv
  BY InitFileInv
<1>2. FileInv /\ CacheInv /\ [Next]_vars => FileInv'
  BY NextFileInv
<1>3. FileInv => CommittedInFile
  BY DEF FileInv, PageCounts
<1> QED BY <1>1, <1>2, <1>3, CacheInvariant, PTL DEF Spec

=============================================================================
