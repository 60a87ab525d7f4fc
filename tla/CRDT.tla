-------------------------------- MODULE CRDT --------------------------------
(***************************************************************************)
(* Replicas that exchange operations (src/src/crdt.rs, feature crdt-sync,  *)
(* experimental): a CrdtStore per node and the SyncProtocol around it.     *)
(* Every method takes `&mut self`, so a method is one step.                *)
(*                                                                         *)
(* The transport is the application's.  It may lose, duplicate, delay and  *)
(* reorder messages: `net` is the set of messages sent and not yet gone,   *)
(* and delivering one may leave it there.                                  *)
(*                                                                         *)
(* An operation is told apart by its timestamp and node; the values it     *)
(* carries are named after it.  One table is modelled.                     *)
(***************************************************************************)
EXTENDS Integers, Sequences, FiniteSets, SequencesExt

CONSTANTS
    Nodes,          \* node ids; a set of integers, ordered like the strings
    Keys,           \* record keys
    MaxOps,         \* bound: operations made by all nodes
    MaxNet,         \* bound: messages in transit
    MaxClock        \* bound: messages go only to nodes below this clock

ASSUME CRDTConstants ==
    /\ Nodes \subseteq Nat \ {0}
    /\ {MaxOps, MaxNet, MaxClock} \subseteq Nat

VARIABLES
    state,          \* per node: key -> CrdtRecord, for the keys it holds
    operation_log,  \* per node: the operations it knows
    vector_clock,   \* per node: node -> timestamp, for the nodes it lists
    lamport_clock,  \* per node
    net,            \* messages in transit
    applied         \* history: the operations each node has applied

vars == <<state, operation_log, vector_clock, lamport_clock, net, applied>>

Kinds == {"insert", "update", "delete"}
Operation == [kind : Kinds, key : Keys, ts : Nat, node : Nodes]

Id(o) == <<o.ts, o.node>>

\* CrdtRecord::new: `values` names the operation whose values it holds.
NewRecord(o) == [values |-> Id(o), ts |-> o.ts, node |-> o.node, deleted |-> FALSE]

Init ==
    /\ state = [n \in Nodes |-> [k \in {} |-> 0]]
    /\ operation_log = [n \in Nodes |-> <<>>]
    /\ vector_clock = [n \in Nodes |-> [m \in {n} |-> 0]]
    /\ lamport_clock = [n \in Nodes |-> 1]
    /\ net = {}
    /\ applied = [n \in Nodes |-> {}]

-----------------------------------------------------------------------------
(* Records.                                                                *)

\* Mutant: a tie goes to the operation that arrives last.
mergeLastArrived(old, new) == IF new.ts >= old.ts THEN new ELSE old

\* Last write wins; the node id breaks a tie.
merge(old, new) ==
    IF new.ts > old.ts \/ (new.ts = old.ts /\ new.node > old.node) THEN new ELSE old


\* CrdtRecord::delete has no rule for a tie and keeps the values.
tombstone(old, o) ==
    IF o.ts > old.ts
    THEN [old EXCEPT !.deleted = TRUE, !.ts = o.ts, !.node = o.node]
    ELSE old

With(recs, k, r) == [j \in DOMAIN recs \cup {k} |-> IF j = k THEN r ELSE recs[j]]

\* An insert replaces whatever is there, an update merges or creates, and a
\* delete of a record that is not there does nothing.
apply_operation(recs, o) ==
    LET here == o.key \in DOMAIN recs
    IN  CASE o.kind = "insert" -> With(recs, o.key, NewRecord(o))
          [] o.kind = "update" ->
               With(recs, o.key,
                    IF here THEN merge(recs[o.key], NewRecord(o)) ELSE NewRecord(o))
          [] o.kind = "delete" ->
               IF here THEN With(recs, o.key, tombstone(recs[o.key], o)) ELSE recs

-----------------------------------------------------------------------------
(* CrdtStore::insert, update and delete.                                   *)

Made == UNION {applied[n] : n \in Nodes}

update_vector_clock(vc, n, ts) == [vc EXCEPT ![n] = Max({@, ts})]

LocalOperation(n, kind, k) ==
    LET o == [kind |-> kind, key |-> k, ts |-> lamport_clock[n], node |-> n]
    IN  /\ Cardinality(Made) < MaxOps
        /\ lamport_clock' = [lamport_clock EXCEPT ![n] = @ + 1]
        /\ state' = [state EXCEPT ![n] = apply_operation(@, o)]
        /\ operation_log' = [operation_log EXCEPT ![n] = Append(@, o)]
        /\ vector_clock' = [vector_clock EXCEPT ![n] = update_vector_clock(@, n, o.ts)]
        /\ applied' = [applied EXCEPT ![n] = @ \cup {o}]
        /\ UNCHANGED net

-----------------------------------------------------------------------------
(* SyncProtocol.                                                           *)

\* Mutants: the clock is not moved past the received timestamp; it is set
\* back from it.
update_timestampNoTick(clock, received) == Max({received, clock})
update_timestampBack(clock, received) == received - 1

update_timestamp(clock, received) == Max({received, clock}) + 1

\* Mutant: no look for an operation with the same id.
LogAgain(log, o) == Append(log, o)

Log(log, o) ==
    IF \E i \in DOMAIN log : Id(log[i]) = Id(o) THEN log ELSE Append(log, o)

\* generate_sync_message: what is newer than the smallest timestamp of the
\* peer's vector clock.  The application hands that clock over; it may be an
\* older one, whose smallest timestamp `seen` is not above the present one.
get_operations_since(n, ts) == SelectSeq(operation_log[n], LAMBDA o : o.ts > ts)

generate_sync_message(n, m, seen) ==
    LET vc  == vector_clock[m]
        ops == get_operations_since(n, seen)
    IN  /\ n # m /\ seen <= Min({vc[j] : j \in DOMAIN vc}) /\ ops # <<>>
        /\ Cardinality(net) < MaxNet /\ lamport_clock[m] < MaxClock
        /\ net' = net \cup {[to |-> m, ops |-> ops]}
        /\ UNCHANGED <<state, operation_log, vector_clock, lamport_clock, applied>>

\* process_sync_message: merge_operations, one operation after the other.
merge_operations(msg) ==
    LET n == msg.to
    IN  /\ state' = [state EXCEPT ![n] = FoldLeft(apply_operation, @, msg.ops)]
        /\ operation_log' = [operation_log EXCEPT ![n] = FoldLeft(Log, @, msg.ops)]
        /\ lamport_clock' = [lamport_clock EXCEPT ![n] =
             FoldLeft(LAMBDA c, o : update_timestamp(c, o.ts), @, msg.ops)]
        /\ vector_clock' = [vector_clock EXCEPT ![n] =
             FoldLeft(LAMBDA vc, o : update_vector_clock(vc, n, o.ts), @, msg.ops)]
        /\ applied' = [applied EXCEPT ![n] = @ \cup ToSet(msg.ops)]

Deliver(msg) == merge_operations(msg) /\ net' = net \ {msg}
DeliverCopy(msg) ==
    /\ lamport_clock[msg.to] < MaxClock
    /\ merge_operations(msg)
    /\ UNCHANGED net
Lose(msg) ==
    /\ net' = net \ {msg}
    /\ UNCHANGED <<state, operation_log, vector_clock, lamport_clock, applied>>

\* Nothing is pruned by a node that lists no other.
prune_operations(n) ==
    LET vc == vector_clock[n]
        floor == Min({vc[j] : j \in DOMAIN vc})
    IN  /\ operation_log' =
             IF Cardinality(DOMAIN vc) <= 1 THEN operation_log
             ELSE [operation_log EXCEPT ![n] = SelectSeq(@, LAMBDA o : o.ts > floor)]
        /\ UNCHANGED <<state, vector_clock, lamport_clock, net, applied>>

-----------------------------------------------------------------------------
Next ==
    \/ \E n \in Nodes, kind \in Kinds, k \in Keys : LocalOperation(n, kind, k)
    \/ \E n, m \in Nodes, seen \in 0..MaxClock : generate_sync_message(n, m, seen)
    \/ \E msg \in net : Deliver(msg) \/ DeliverCopy(msg) \/ Lose(msg)
    \/ \E n \in Nodes : prune_operations(n)

Spec == Init /\ [][Next]_vars

-----------------------------------------------------------------------------
(* Properties.                                                             *)

Record == [values : Nat \X Nodes, ts : Nat, node : Nodes, deleted : BOOLEAN]

\* Records, logs and clocks have their types; clocks start at 1.
TypeOK ==
    /\ \A n \in Nodes :
         /\ DOMAIN state[n] \subseteq Keys
         /\ \A k \in DOMAIN state[n] : state[n][k] \in Record
         /\ operation_log[n] \in Seq(Operation)
         /\ applied[n] \subseteq Operation
    /\ lamport_clock \in [Nodes -> Nat \ {0}]
    /\ \A msg \in net : msg.to \in Nodes /\ msg.ops \in Seq(Operation)

AppliedTo(n, k) == {o \in applied[n] : o.key = k}
Uninserted(n, k) == \A o \in AppliedTo(n, k) : o.kind # "insert"
Updates(n, k) == {o \in AppliedTo(n, k) : o.kind = "update"}

Newer(a, b) == a.ts > b.ts \/ (a.ts = b.ts /\ a.node > b.node)

\* A node's clock is ahead of every operation it has applied, its own and
\* received ones, whatever order they came in: the next operation it makes
\* is newer than all it depends on, and no two operations share an id.
ClockAhead ==
    /\ \A n \in Nodes : \A o \in applied[n] : o.ts < lamport_clock[n]
    /\ \A o, p \in Made : Id(o) = Id(p) => o = p

\* The log a node syncs from holds every operation it has applied exactly
\* once, under duplicated and overlapping messages.  Pruning takes nothing
\* from it, since a node lists only itself in its vector clock.
LogExact ==
    \A n \in Nodes :
        /\ ToSet(operation_log[n]) = applied[n]
        /\ Len(operation_log[n]) = Cardinality(applied[n])

\* Convergence of updates: a record that was only ever updated is the newest
\* of the updates its node has applied, so two nodes that applied the same
\* ones hold the same record, in whatever order and how often they came.
UpdatesConverge ==
    \A n \in Nodes, k \in Keys :
        AppliedTo(n, k) # {} /\ AppliedTo(n, k) = Updates(n, k) =>
            \E o \in Updates(n, k) :
                /\ \A p \in Updates(n, k) : p = o \/ Newer(o, p)
                /\ state[n][k] = NewRecord(o)

=============================================================================
