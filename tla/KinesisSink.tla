------------------------------ MODULE KinesisSink ------------------------------
(***************************************************************************)
(* The producer: main's emit loop and the batching KinesisSink, writing to  *)
(* the shards of the Kinesis stream. Kinesis itself is external: it may      *)
(* refuse any part of a batch, and it may store what its caller never hears  *)
(* it has stored.                                                            *)
(***************************************************************************)
EXTENDS Naturals, FiniteSets, Sequences, SequencesExt, Enumeration

CONSTANTS
    Total,          \* records emitted in one run of the producer, at most
    Customer,
    Unknown,        \* the partition key of a record without customer_id
    CustomerOf,     \* customer_id of each record, or Unknown
    Shard,
    ShardOf,        \* the shard a partition key hashes to
    MaxRecords,     \* MAX_RECORDS_PER_BATCH
    MaxAttempts,    \* put_records calls per flush
    MaxLostAnswers  \* bound: answers lost between Kinesis and the client library

Record == 1 .. Total

\* What the constants satisfy, assumed where the module is instantiated.
SinkAssumption ==
    /\ {Total, MaxLostAnswers} \subseteq Nat
    /\ {MaxRecords, MaxAttempts} \subseteq Nat \ {0}
    /\ Unknown \notin Customer
    /\ CustomerOf \in [Record -> Customer \cup {Unknown}]
    /\ ShardOf \in [Customer \cup {Unknown} -> Shard]

VARIABLES
    phase,    \* where main is: in its loop, in a flush of the loop or of close, over
    emitted,  \* records passed to sink.write
    buffer,   \* sink._buffer
    batch,    \* the records flush is trying to put
    attempt,  \* index of the put_records call of this flush
    sent,
    failed,
    lost,     \* answers lost so far
    stream    \* the records of each shard

producer == <<phase, emitted, buffer, batch, attempt, sent, failed, lost>>
vars == <<producer, stream>>

Phases == {"emitting", "flushing", "closing", "done", "crashed"}

Init ==
    /\ phase = "emitting"
    /\ emitted = 0 /\ buffer = <<>>
    /\ batch = <<>> /\ attempt = 0
    /\ sent = 0 /\ failed = 0 /\ lost = 0
    /\ stream = [s \in Shard |-> <<>>]

\* As below, without a sticky key.
PartitionKeySpread(r) == IF r % 2 = 0 THEN Unknown ELSE CustomerOf[r]

PartitionKey(r) == CustomerOf[r]

\* The shards once the records of batch in stored are appended, in batch order.
Stored(stored) ==
    [s \in Shard |-> stream[s] \o
        Only(batch, {r \in stored : ShardOf[PartitionKey(r)] = s})]

-----------------------------------------------------------------------------
\* As below, without the check for a full batch.
WriteUnchecked ==
    /\ phase = "emitting"
    /\ emitted < Total
    /\ emitted' = emitted + 1
    /\ buffer' = Append(buffer, emitted + 1)
    /\ UNCHANGED <<phase, batch, attempt, sent, failed, lost, stream>>

\* write appends to a batch that is not full.
Write ==
    /\ phase = "emitting"
    /\ emitted < Total
    /\ Len(buffer) < MaxRecords
    /\ emitted' = emitted + 1
    /\ buffer' = Append(buffer, emitted + 1)
    /\ UNCHANGED <<phase, batch, attempt, sent, failed, lost, stream>>

BeginFlush(next) ==
    /\ batch' = buffer
    /\ buffer' = <<>>
    /\ attempt' = 0
    /\ phase' = next
    /\ UNCHANGED <<emitted, sent, failed, lost, stream>>

\* A flush of the loop: the batch is full, or has too many bytes, or main flushes
\* after every 500 events.
Flush ==
    /\ phase = "emitting"
    /\ buffer # <<>>
    /\ BeginFlush("flushing")

\* The loop ends (count, duration or SIGINT) and main closes the sink.
Close ==
    /\ phase = "emitting"
    /\ IF buffer # <<>> THEN BeginFlush("closing")
       ELSE /\ phase' = "done"
            /\ UNCHANGED <<emitted, buffer, batch, attempt, sent, failed, lost, stream>>

FlushReturns ==
    /\ attempt' = 0
    /\ batch' = <<>>
    /\ phase' = IF phase = "closing" THEN "done" ELSE "emitting"

\* As below, with the retry cut to as many records as were refused, from the front.
RetryFromFront(refused) == SubSeq(batch, 1, Cardinality(refused))

Retry(refused) == Only(batch, refused)

\* One put_records call and what flush makes of its answer.
PutRecords ==
    /\ phase \in {"flushing", "closing"}
    /\ \E refused \in SUBSET ToSet(batch) :
         LET retry == Retry(refused) IN
         /\ stream' = Stored(ToSet(batch) \ refused)
         /\ sent' = sent + Len(batch) - Len(retry)
         /\ \/ /\ retry = <<>>
               /\ FlushReturns
               /\ UNCHANGED failed
            \/ /\ retry # <<>> /\ attempt + 1 < MaxAttempts
               /\ batch' = retry /\ attempt' = attempt + 1
               /\ UNCHANGED <<phase, failed>>
            \/ /\ retry # <<>> /\ attempt + 1 >= MaxAttempts
               /\ failed' = failed + Len(retry)
               /\ FlushReturns
    /\ UNCHANGED <<emitted, buffer, lost>>

\* The client library repeats a call whose answer was lost.
AnswerLost ==
    /\ phase \in {"flushing", "closing"}
    /\ lost < MaxLostAnswers
    /\ lost' = lost + 1
    /\ \E stored \in SUBSET ToSet(batch) : stream' = Stored(stored)
    /\ UNCHANGED <<phase, emitted, buffer, batch, attempt, sent, failed>>

\* put_records raises: flush has already emptied the buffer, so the close in main's
\* finally has nothing to send, and the exception ends the process.
PutRaises ==
    /\ phase \in {"flushing", "closing"}
    /\ phase' = "crashed"
    /\ batch' = <<>>
    /\ \E stored \in SUBSET ToSet(batch) : stream' = Stored(stored)
    /\ UNCHANGED <<emitted, buffer, attempt, sent, failed, lost>>

Next == Write \/ Flush \/ Close \/ PutRecords \/ AnswerLost \/ PutRaises

Spec == Init /\ [][Next]_vars

-----------------------------------------------------------------------------
InStream == UNION {ToSet(stream[s]) : s \in Shard}

TypeOK ==
    /\ phase \in Phases
    /\ {emitted, sent, failed} \subseteq 0 .. Total
    /\ buffer \in Seq(Record) /\ Len(buffer) <= MaxRecords
    /\ batch \in Seq(Record) /\ Len(batch) <= MaxRecords
    /\ attempt \in 0 .. MaxAttempts
    /\ lost \in 0 .. MaxLostAnswers
    /\ stream \in [Shard -> Seq(Record)]

\* The summary and the exit code of a producer that ends normally tell the truth,
\* whatever batches were refused in part and answers lost: every record emitted was
\* counted once, and no more records are missing from the stream than are counted as
\* failed (so exit code 0 means that all are there).
SummaryHonest ==
    phase = "done" =>
        /\ sent + failed = emitted
        /\ Cardinality((1 .. emitted) \ InStream) <= failed

\* "One customer's events land on one shard in order."
CustomerInOrder ==
    \A s \in Shard : \A i, j \in DOMAIN stream[s] :
        /\ i < j
        /\ CustomerOf[stream[s][i]] = CustomerOf[stream[s][j]]
        => stream[s][i] <= stream[s][j]
=============================================================================
