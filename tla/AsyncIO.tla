------------------------------ MODULE AsyncIO ------------------------------
(***************************************************************************)
(* async_io.rs: TokioVfs, the AsyncPageCache in front of it and the        *)
(* AsyncPager that callers and BatchIoExecutor's spawned tasks share.      *)
(*                                                                         *)
(* One step per stretch between two awaits or two operations on the shared *)
(* map.  get_file clones the handle, and clones share ONE file offset: the *)
(* seek of a call and its transfer are steps of their own, and `cursor` is *)
(* common to all calls.  Offsets are counted in pages; a transfer of one   *)
(* page is one step.  Page numbers start at 0, so page p is file[p + 1].   *)
(*                                                                         *)
(* flush and sync change nothing that a later call can see, and the `size` *)
(* counter is never read (cache_stats asks the map): both are left out.    *)
(***************************************************************************)
EXTENDS Integers, SequencesExt

CONSTANTS
    Tasks,      \* callers: tasks spawned by a batch, or clients of the pager
    Values,     \* contents of a written page
    Blank,      \* contents of Page::new()
    Capacity,   \* AsyncPageCache::capacity
    MaxPages,   \* bound: pages allocated
    MaxCalls    \* bound: calls made

ASSUME AsyncIOConstants ==
    /\ Capacity \in Nat /\ MaxPages \in Nat /\ MaxCalls \in Nat
    /\ Blank \notin Values

VARIABLES
    file,       \* the pages of the file
    cursor,     \* the offset shared by all clones of the handle
    numPages,   \* TokioVfs::num_pages
    cache,      \* AsyncPageCache::cache: page number |-> contents
    call,       \* call[t]: what task t is doing
    calls,      \* calls made so far
    latest,     \* history: allocated page |-> its last completed write
    crossed,    \* history: two seek..transfer windows have overlapped
    raced,      \* history: pages whose last write overlapped another call
    refused     \* history: a read of an allocated page has failed

vars == <<file, cursor, numPages, cache, call, calls, latest, crossed, raced,
          refused>>

PageIds == 0 .. MaxPages - 1

Idle == [pc |-> "idle"]

\* AsyncPager::new on an empty file, or on one with some pages.
Init ==
    /\ numPages \in 0 .. MaxPages
    /\ file = [i \in 1 .. numPages |-> Blank] /\ cursor = 0 /\ cache = <<>>
    /\ call = [t \in Tasks |-> Idle] /\ calls = 0
    /\ latest = [p \in 0 .. numPages - 1 |-> Blank] /\ crossed = FALSE /\ raced = {} /\ refused = FALSE

Busy == {t \in Tasks : call[t] /= Idle}

\* The calls on page p in flight, of the operations in ops.
On(p, ops) == {t \in Busy : call[t].page = p /\ call[t].op \in ops}

At(t, pc) == call[t].pc = pc

Goto(t, pc) == call' = [call EXCEPT ![t].pc = pc]

Return(t) == call' = [call EXCEPT ![t] = Idle]

-----------------------------------------------------------------------------
\* A call up to its first await.  The history notes the calls it overlaps.
Begin(t, op, p, v) ==
    /\ At(t, "idle") /\ calls < MaxCalls
    /\ calls' = calls + 1
    /\ call' = [call EXCEPT ![t] = [pc |-> "seek", op |-> op, page |-> p,
                                    val |-> v, key |-> p]]
    /\ raced' = IF On(p, IF op = "read" THEN {"write"} ELSE {"read", "write"}) /= {}
                THEN raced \union {p}
                ELSE IF op = "write" THEN raced \ {p} ELSE raced

\* A page in the cache is returned as it is and nothing changes; a page out of
\* bounds is refused before any I/O.
read_page(t, p) ==
    /\ p \notin DOMAIN cache
    /\ IF p < numPages
       THEN Begin(t, "read", p, Blank) /\ UNCHANGED refused
       ELSE /\ At(t, "idle") /\ refused' = TRUE
            /\ UNCHANGED <<call, calls, raced>>
    /\ UNCHANGED <<file, cursor, numPages, cache, latest, crossed>>

write_page(t, p, v) ==
    /\ Begin(t, "write", p, v)
    /\ UNCHANGED <<file, cursor, numPages, cache, latest, crossed, refused>>

\* Mutant: the count is raised before the number is taken from it.
allocate_pageCountFirst(t) ==
    /\ numPages < MaxPages
    /\ Begin(t, "allocate", numPages + 1, Blank)
    /\ numPages' = numPages + 1
    /\ UNCHANGED <<file, cursor, cache, latest, crossed, refused>>

\* Mutant: the number is handed out before the blank page is in the file.
allocate_pageEarly(t) ==
    /\ numPages < MaxPages
    /\ Begin(t, "allocate", numPages, Blank)
    /\ numPages' = numPages + 1
    /\ latest' = numPages :> Blank @@ latest
    /\ UNCHANGED <<file, cursor, cache, crossed, refused>>

\* The number is taken under the lock, the blank page is written after it.
allocate_page(t) ==
    /\ numPages < MaxPages
    /\ Begin(t, "allocate", numPages, Blank)
    /\ numPages' = numPages + 1
    /\ UNCHANGED <<file, cursor, cache, latest, crossed, refused>>

\* file.seek(...).await moves the offset of every clone.
Seek(t) ==
    /\ At(t, "seek")
    /\ cursor' = call[t].page
    /\ crossed' = (crossed \/ \E u \in Tasks \ {t} : At(u, "transfer"))
    /\ Goto(t, "transfer")
    /\ UNCHANGED <<file, numPages, cache, calls, latest, raced, refused>>

\* read_exact at the shared offset; past the end it fails, and so does the call.
ReadTransfer(t) ==
    /\ At(t, "transfer") /\ call[t].op = "read"
    /\ IF cursor < Len(file)
       THEN /\ call' = [call EXCEPT ![t].pc = "evict", ![t].val = file[cursor + 1]]
            /\ cursor' = cursor + 1
            /\ UNCHANGED refused
       ELSE Return(t) /\ refused' = TRUE /\ UNCHANGED cursor
    /\ UNCHANGED <<file, numPages, cache, calls, latest, crossed, raced>>

\* write_all at the shared offset; a gap behind the old end reads as zeros.
WriteTransfer(t) ==
    /\ At(t, "transfer") /\ call[t].op /= "read"
    /\ file' = [i \in 1 .. Max({Len(file), cursor + 1}) |->
                  IF i = cursor + 1 THEN call[t].val
                  ELSE IF i <= Len(file) THEN file[i] ELSE Blank]
    /\ cursor' = cursor + 1
    /\ Goto(t, "written")
    /\ UNCHANGED <<numPages, cache, calls, latest, crossed, raced, refused>>

\* The tail of TokioVfs::write_page; allocate_page then returns the number.
Written(t) ==
    /\ At(t, "written")
    /\ numPages' = Max({numPages, call[t].page + 1})
    /\ IF call[t].op = "allocate"
       THEN Return(t) /\ latest' = call[t].page :> Blank @@ latest
       ELSE Goto(t, "evict") /\ UNCHANGED latest
    /\ UNCHANGED <<file, cursor, cache, calls, crossed, raced, refused>>

\* Mutant: room is made for writes only.
ChooseVictimForWrites(t) ==
    /\ At(t, "evict")
    /\ IF Cardinality(DOMAIN cache) < Capacity \/ cache = <<>> \/ call[t].op = "read"
       THEN Goto(t, "insert")
       ELSE \E key \in DOMAIN cache :
                call' = [call EXCEPT ![t].pc = "remove", ![t].key = key]
    /\ UNCHANGED <<file, cursor, numPages, cache, calls, latest, crossed, raced, refused>>

\* Mutant: a write that meets its own page looks for another one.
ChooseVictimNotMine(t) ==
    /\ At(t, "evict")
    /\ IF Cardinality(DOMAIN cache) < Capacity \/ cache = <<>>
       THEN Goto(t, "insert")
       ELSE \E key \in DOMAIN cache :
                IF call[t].op = "write" /\ key = call[t].page
                THEN Goto(t, "evict")
                ELSE call' = [call EXCEPT ![t].pc = "remove", ![t].key = key]
    /\ UNCHANGED <<file, cursor, numPages, cache, calls, latest, crossed, raced, refused>>

\* One turn of the eviction loop: the length is looked at and a victim chosen.
\* A write that meets its own page leaves the loop.
ChooseVictim(t) ==
    /\ At(t, "evict")
    /\ IF Cardinality(DOMAIN cache) < Capacity \/ cache = <<>>
       THEN Goto(t, "insert")
       ELSE \E key \in DOMAIN cache :
                IF call[t].op = "write" /\ key = call[t].page
                THEN Goto(t, "insert")
                ELSE call' = [call EXCEPT ![t].pc = "remove", ![t].key = key]
    /\ UNCHANGED <<file, cursor, numPages, cache, calls, latest, crossed, raced, refused>>

RemoveVictim(t) ==
    /\ At(t, "remove")
    /\ cache' = Restrict(cache, DOMAIN cache \ {call[t].key})
    /\ Goto(t, "evict")
    /\ UNCHANGED <<file, cursor, numPages, calls, latest, crossed, raced, refused>>

\* Mutant: an entry that is there already is kept.
InsertKeeps(t) ==
    /\ At(t, "insert")
    /\ cache' = cache @@ call[t].page :> call[t].val
    /\ latest' = IF call[t].op = "write" THEN call[t].page :> call[t].val @@ latest
                 ELSE latest
    /\ Return(t)
    /\ UNCHANGED <<file, cursor, numPages, calls, crossed, raced, refused>>

\* cache.insert, and the call returns.
Insert(t) ==
    /\ At(t, "insert")
    /\ cache' = call[t].page :> call[t].val @@ cache
    /\ latest' = IF call[t].op = "write" THEN call[t].page :> call[t].val @@ latest
                 ELSE latest
    /\ Return(t)
    /\ UNCHANGED <<file, cursor, numPages, calls, crossed, raced, refused>>

\* The pager is dropped when nobody uses it, and opened again on its file.
Reopen ==
    /\ Busy = {}
    /\ numPages' = Len(file) /\ cursor' = 0 /\ cache' = <<>>
    /\ UNCHANGED <<file, call, calls, latest, crossed, raced, refused>>

Step(t) ==
    \/ Seek(t) \/ ReadTransfer(t) \/ WriteTransfer(t) \/ Written(t)
    \/ ChooseVictim(t) \/ RemoveVictim(t) \/ Insert(t)

\* Callers read and write the pages that allocate_page has given them.
Next ==
    \/ \E t \in Tasks : Step(t) \/ allocate_page(t)
    \/ \E t \in Tasks, p \in DOMAIN latest : read_page(t, p)
    \/ \E t \in Tasks, p \in DOMAIN latest, v \in Values : write_page(t, p, v)
    \/ Reopen

\* A spawned task is polled until it is done, and the file calls it awaits end.
Spec == Init /\ [][Next]_vars /\ \A t \in Tasks : WF_vars(Step(t))
-----------------------------------------------------------------------------
\* The state of the pager, and calls that hold what their stage needs.
TypeOK ==
    /\ {cursor, numPages, Len(file)} \subseteq 0 .. MaxPages + Cardinality(Tasks)
    /\ UNION {Range(f) : f \in {file, cache, latest}} \subseteq Values \union {Blank}
    /\ DOMAIN cache \subseteq DOMAIN latest /\ DOMAIN latest \subseteq PageIds
    /\ \A t \in Busy :
           /\ call[t].pc \in {"seek", "transfer", "written", "evict", "remove", "insert"}
           /\ call[t].op \in {"read", "write", "allocate"}
           /\ call[t].op /= "write" => call[t].page < numPages
           /\ call[t].op = "write" => call[t].page \in DOMAIN latest
    /\ raced \subseteq DOMAIN latest /\ {crossed, refused} \subseteq BOOLEAN

\* As long as no two calls have had the shared file offset between a seek and
\* its transfer at once, a page whose last write overlapped no other call on it
\* holds that write: in the file, and in the cache when it is cached there.
\* Misses that fill the cache, evictions and other pages' writes do not matter.
PagesCurrent ==
    ~ crossed =>
        \A p \in DOMAIN latest \ raced :
            On(p, {"write"}) = {} =>
                /\ file[p + 1] = latest[p]
                /\ p \in DOMAIN cache => cache[p] = latest[p]

\* Under the same condition no read of a page that allocate_page returned fails:
\* the number is public only after its blank page is in the file, although
\* num_pages counts the page from before that write.
ReadsServed == refused => crossed

\* The cache outgrows its capacity by at most the calls that may be between the
\* loop that makes room and their insert.
CacheBounded ==
    Cardinality(DOMAIN cache) <= Max({Capacity, 1}) + Cardinality(Tasks) - 1

\* Every call returns: the eviction loop ends although other calls fill the
\* cache again, and although a write may find only its own page to evict.
CallsFinish == \A t \in Tasks : call[t] /= Idle ~> call[t] = Idle
=============================================================================
