-------------------------------- MODULE Ingest --------------------------------
(***************************************************************************)
(* The producer and the feature updater around the one stream they share.   *)
(***************************************************************************)
EXTENDS Naturals, FiniteSets, Sequences, SequencesExt

CONSTANTS Total, Customer, Unknown, CustomerOf, Shard, ShardOf, MaxRecords, MaxAttempts,
          MaxLostAnswers, Malformed, Stamp, BatchSize, MaxEvents, Horizon, Retention,
          MaxClock, MaxFailures

\* Records without a customer or a numeric amount are skipped.
Usable == {r \in 1 .. Total : CustomerOf[r] # Unknown} \ Malformed

VARIABLES phase, emitted, buffer, batch, attempt, sent, failed, lost, stream,
          clock, position, invoked, pending, reading, failures, store, older, updated,
          delivered, mended

Sink == INSTANCE KinesisSink
Updater == INSTANCE FeatureUpdater WITH Record <- 1 .. Total, batch <- invoked

producer == <<phase, emitted, buffer, batch, attempt, sent, failed, lost>>
updater == <<clock, position, invoked, pending, reading, failures, store, older, updated,
             delivered, mended>>
ASSUME IngestAssumption == Sink!SinkAssumption /\ Updater!UpdaterAssumption

vars == <<producer, stream, updater>>

Init == Sink!Init /\ Updater!Init

\* A transaction is emitted when it happens.
ProducerStep ==
    /\ Sink!Next
    /\ emitted' > emitted => Stamp[emitted'] <= clock
    /\ UNCHANGED updater

UpdaterStep ==
    /\ Updater!Next
    /\ UNCHANGED producer

Next == ProducerStep \/ UpdaterStep

\* Kinesis drives the updater's shards; it runs even when the producer does not.
Spec ==
    /\ Init /\ [][Next]_vars
    /\ \A s \in Shard : WF_vars(Updater!ShardStep(s) /\ UNCHANGED producer)

-----------------------------------------------------------------------------
TypeOK == Sink!TypeOK /\ Updater!TypeOK

SummaryHonest == Sink!SummaryHonest
StoreIsCurrent == Updater!StoreIsCurrent
NothingSkipped == Updater!NothingSkipped
CustomerInOrder == Sink!CustomerInOrder
IdempotentPerEvent == Updater!IdempotentPerEvent

Delivered(r) == \E e \in ToSet(delivered[CustomerOf[r]]) : e.record = r

\* Once the producer has exited with code 0, every usable record it emitted reaches
\* its customer's item, however often invocations fail in between.
ExitZeroDelivers ==
    \A r \in Usable :
        phase = "done" /\ failed = 0 /\ r <= emitted ~> Delivered(r)
=============================================================================
