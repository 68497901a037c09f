----------------------------- MODULE FeatureUpdater -----------------------------
(***************************************************************************)
(* The Kinesis consumer Lambda that keeps each customer's rolling events in *)
(* DynamoDB: one invocation per shard at a time over a batch of records,     *)
(* repeated from the checkpoint when it fails, a read and a write of one     *)
(* item per customer, and DynamoDB's expiry of silent items. The read is not *)
(* a consistent one: it may return the item as it was before recent writes.  *)
(***************************************************************************)
EXTENDS Naturals, Sequences, SequencesExt, Enumeration

CONSTANTS
    Record,
    Customer,
    CustomerOf,   \* customer_id of each record
    Usable,       \* records with a customer and a numeric amount
    Stamp,        \* timestamp of each record, 0 when it does not parse
    Shard,
    BatchSize,
    MaxEvents,    \* MAX_EVENTS_PER_CUSTOMER
    Horizon,      \* HORIZON_SECONDS
    Retention,    \* expires_at - updated_at
    MaxClock,     \* bound: time modelled
    MaxFailures   \* bound: failed invocations

\* What the constants satisfy, assumed where the module is instantiated.
UpdaterAssumption ==
    /\ Usable \subseteq {r \in Record : CustomerOf[r] \in Customer}
    /\ Stamp \in [Record -> 0 .. MaxClock]
    /\ {BatchSize, MaxEvents, MaxClock} \subseteq Nat \ {0}
    /\ {Horizon, Retention, MaxFailures} \subseteq Nat
    /\ Retention > Horizon

VARIABLES
    stream,    \* the records of each shard
    clock,
    position,  \* checkpoint of each shard: records consumed
    batch,     \* the records of the invocation running on each shard
    pending,   \* customers whose item it has yet to write
    reading,   \* the item it has read: a set of at most one [customer, events, current]
    failures,
    store,     \* events of each customer's item
    older,     \* an earlier version of it that reads may still return
    updated,   \* when the item was last written
    delivered, \* history: events written to the item so far, in order
    mended     \* history: when all that its stale reads lost is past the horizon

updater == <<clock, position, batch, pending, reading, failures, store, older, updated,
             delivered, mended>>
vars == <<stream, updater>>

Time == 1 .. MaxClock
Entry == [record : Record, t : Time]

Init ==
    /\ stream = [s \in Shard |-> <<>>]
    /\ clock = 1
    /\ position = [s \in Shard |-> 0]
    /\ batch = [s \in Shard |-> <<>>]
    /\ pending = [s \in Shard |-> {}]
    /\ reading = [s \in Shard |-> {}]
    /\ failures = 0
    /\ store = [c \in Customer |-> <<>>]
    /\ older = [c \in Customer |-> <<>>]
    /\ updated = [c \in Customer |-> 1]
    /\ delivered = [c \in Customer |-> <<>>]
    /\ mended = [c \in Customer |-> 1]

-----------------------------------------------------------------------------
\* The order a stable sort by t puts the events in.
Sooner(events) ==
    {x \in (DOMAIN events) \X (DOMAIN events) :
        \/ events[x[1]].t < events[x[2]].t
        \/ events[x[1]].t = events[x[2]].t /\ x[1] < x[2]}

Newest(n, s) == IF Len(s) <= n THEN s ELSE SubSeq(s, Len(s) - n + 1, Len(s))

\* The newest MaxEvents events within the horizon, sorted.
compact_events(events, at) ==
    LET fresh == {i \in DOMAIN events : at <= events[i].t + Horizon}
    IN  Newest(MaxEvents, Pick(events, fresh, Sooner(events)))

\* As below, with a customer's last record of the batch in place of all of them.
NewEventsLast(records, c, at) ==
    LET mine == Only(records, {r \in Usable : CustomerOf[r] = c})
        last == mine[Len(mine)]
    IN  <<[record |-> last, t |-> IF Stamp[last] = 0 THEN at ELSE Stamp[last]]>>

\* The events a batch has for a customer; one without a timestamp happens now.
NewEvents(records, c, at) ==
    LET mine == Only(records, {r \in Usable : CustomerOf[r] = c})
    IN  [i \in DOMAIN mine |->
            [record |-> mine[i], t |-> IF Stamp[mine[i]] = 0 THEN at ELSE Stamp[mine[i]]]]

-----------------------------------------------------------------------------
\* The event source mapping invokes the handler on the records after the checkpoint. Its
\* time is the clock's: see Tick.
Poll(s) ==
    /\ batch[s] = <<>>
    /\ position[s] < Len(stream[s])
    /\ \E n \in 1 .. BatchSize :
         /\ position[s] + n <= Len(stream[s])
         /\ batch' = [batch EXCEPT ![s] = SubSeq(stream[s], position[s] + 1, position[s] + n)]
         /\ pending' = [pending EXCEPT ![s] = {CustomerOf[r] : r \in ToSet(batch'[s]) \cap Usable}]
    /\ UNCHANGED <<stream, clock, position, reading, failures, store, older, updated,
                   delivered, mended>>

\* A write leaves reads returning what it replaces for a while, or something older yet.
LeavesOlder(c) == older' \in {older, [older EXCEPT ![c] = store[c]]}

GetItem(s, c) ==
    /\ c \in pending[s]
    /\ reading[s] = {}
    /\ \E seen \in {store[c], older[c]} :
         reading' = [reading EXCEPT
             ![s] = {[customer |-> c, events |-> seen, current |-> seen = store[c]]}]
    /\ UNCHANGED <<stream, clock, position, batch, pending, failures, store, older, updated,
                   delivered, mended>>

\* The write is unconditional: it replaces whatever the item is by now. (\E binds new for
\* TLC to evaluate it once.)
PutItem(s) ==
    /\ \E item \in reading[s] :
       \E new \in {NewEvents(batch[s], item.customer, clock)} :
         LET c == item.customer
         IN  /\ store' = [store EXCEPT ![c] = compact_events(item.events \o new, clock)]
             /\ LeavesOlder(c)
             /\ updated' = [updated EXCEPT ![c] = clock]
             /\ delivered' = [delivered EXCEPT ![c] = @ \o new]
             /\ mended' = [mended EXCEPT ![c] = IF item.current THEN @ ELSE clock + Horizon + 1]
             /\ pending' = [pending EXCEPT ![s] = @ \ {c}]
    /\ reading' = [reading EXCEPT ![s] = {}]
    /\ UNCHANGED <<stream, clock, position, batch, failures>>

InvocationEnds(s) == batch' = [batch EXCEPT ![s] = <<>>]

Return(s) ==
    /\ batch[s] # <<>>
    /\ pending[s] = {} /\ reading[s] = {}
    /\ position' = [position EXCEPT ![s] = @ + Len(batch[s])]
    /\ InvocationEnds(s)
    /\ UNCHANGED <<stream, clock, pending, reading, failures, store, older, updated,
                   delivered, mended>>

\* An exception of DynamoDB or a timeout, at any point of the handler: the mapping
\* retries the records from the same checkpoint.
InvocationFails(s) ==
    /\ batch[s] # <<>>
    /\ failures < MaxFailures
    /\ failures' = failures + 1
    /\ pending' = [pending EXCEPT ![s] = {}]
    /\ reading' = [reading EXCEPT ![s] = {}]
    /\ InvocationEnds(s)
    /\ UNCHANGED <<stream, clock, position, store, older, updated, delivered, mended>>

\* DynamoDB deletes an item some time after its expires_at.
Expire(c) ==
    /\ store[c] # <<>>
    /\ clock > updated[c] + Retention
    /\ store' = [store EXCEPT ![c] = <<>>]
    /\ LeavesOlder(c)
    /\ UNCHANGED <<stream, clock, position, batch, pending, reading, failures, updated,
                   delivered, mended>>

\* Handlers end within their timeout, long before the next tick.
Tick ==
    /\ clock < MaxClock
    /\ \A s \in Shard : batch[s] = <<>>
    /\ clock' = clock + 1
    /\ UNCHANGED <<stream, position, batch, pending, reading, failures, store, older, updated,
                   delivered, mended>>

ShardStep(s) ==
    \/ Poll(s)
    \/ \E c \in Customer : GetItem(s, c)
    \/ PutItem(s)
    \/ Return(s)

Next ==
    \/ \E s \in Shard : ShardStep(s) \/ InvocationFails(s)
    \/ \E c \in Customer : Expire(c)
    \/ Tick

-----------------------------------------------------------------------------
TypeOK ==
    /\ clock \in Time
    /\ \A s \in Shard : position[s] \in 0 .. Len(stream[s])
    /\ batch \in [Shard -> Seq(Record)]
    /\ pending \in [Shard -> SUBSET Customer]
    /\ \A s \in Shard : \A item \in reading[s] :
         /\ item.customer \in pending[s] /\ item.events \in Seq(Entry)
         /\ item.current \in BOOLEAN
    /\ failures \in 0 .. MaxFailures
    /\ {store, older, delivered} \subseteq [Customer -> Seq(Entry)]
    /\ updated \in [Customer -> Time]
    /\ mended \in [Customer -> Nat]

\* The store is kept incrementally, by handlers that each see one batch, retried and
\* repeated, on shards that run side by side, while items expire. What it shows of a
\* customer is still what compacting everything ever delivered would show; a stale read
\* costs it the events of the writes not seen, and no longer than the horizon: once they
\* are past it, the item is as if the read had been consistent.
StoreIsCurrent ==
    \A c \in Customer :
        clock >= mended[c] =>
        compact_events(store[c], clock) = compact_events(delivered[c], clock)

\* A record that the checkpoint has passed has been delivered to its customer's item.
NothingSkipped ==
    \A s \in Shard : \A i \in 1 .. position[s] :
        LET r == stream[s][i] IN
        r \in Usable => \E e \in ToSet(delivered[CustomerOf[r]]) : e.record = r

\* "Idempotent per event": no event counts twice.
IdempotentPerEvent ==
    \A c \in Customer : \A i, j \in DOMAIN store[c] :
        store[c][i].record = store[c][j].record => i = j
=============================================================================
