------------------------------- MODULE MCSystem -------------------------------
(* Small instances of the services, the trainer and the games.  They share no   *)
(* state, so one behaviour runs one of them, or the batch transaction of        *)
(* ExternalTransaction, chosen in Init.  The variables x1, x2, ... hold the     *)
(* state of the component that runs.                                            *)
EXTENDS ExternalTransaction, TLC

VARIABLES component, x1, x2, x3, x4, x5, x6

Off == [off |-> TRUE]
AllOff == x1 = Off /\ x2 = Off /\ x3 = Off /\ x4 = Off /\ x5 = Off /\ x6 = Off

-----------------------------------------------------------------------------
(* Resolver: two threads, requests that differ in the hand only. *)

Request(hand) == [state |-> 1, seat |-> 0, hand |-> hand, menu |-> "a"]
Resolve == INSTANCE Resolver WITH
  Resolvers <- {1, 2}, Requests <- {Request(1), Request(2)}, MaxBatches <- 2, MaxCalls <- 2,
  entry <- x1, call <- x2, late <- x3, delivered <- x4, calls <- x5
ASSUME RequestsAssumption == Resolve!RequestsKeyed

(* Sessions over a deck of five cards. *)

Deck == 1 .. 5
Pairs == {hand \in SUBSET Deck : Cardinality(hand) = 2}
Having(cards) == {hand \in Pairs : cards \cap hand # {}}
Observation(assigned, likely) == [assigned |-> assigned, likely |-> likely]
Decide == INSTANCE DecisionSession WITH
  Seats <- {1, 2}, Cards <- Deck, Boards <- {{}, {4}, {3, 4}},
  Observations <- {Observation(Pairs, Having({1})), Observation(Pairs, Having({2})),
                   Observation(Pairs \ Having({4}), Pairs \ Having({1, 4}))},
  MaxRevision <- 4, MaxRounds <- 3, MaxVersion <- 2,
  root_revision <- x1, round <- x2, beliefs <- x3, freeze <- x4, snapshot <- x5
FullHand == INSTANCE FullHandSession WITH
  SeatCount <- 2, Cards <- Deck, Boards <- <<{{5}}, {{5, 4}}>>,
  Observations <- {Having({1}), Pairs \ Having({1})}, Holes <- {{1, 2}, {2, 3}},
  table <- x1, events <- x2, ranges <- x3, board <- x4, frozen <- x5, frozen_policy <- x6
ASSUME CombosAssumption == FullHand!Combos # {}

(* Checkpoints and the training run. *)

Artifact == INSTANCE CheckpointArtifact WITH
  MaxVersion <- 3, MaxSaves <- 3, MaxCrashes <- 2,
  tables <- x1, temp <- x2, dest <- x3, backup <- x4, save <- x5, bounds <- x6
Train == INSTANCE TrainingRun WITH
  Schedule <- [discount |-> 2, prune |-> 1, warmup |-> 1, recovery |-> 2, window |-> 3],
  PerBatch <- 2, Seed <- 7, CheckpointInterval <- 2, StageGate <- 9, Names <- {"latest", "other"},
  MaxBatches <- 3, MaxInvocations <- 3,
  backend <- x1, store <- x2, files <- x3, run <- x4, trainer <- x5, invocations <- x6
ASSUME TrainAssumption == Train!TrainingAssumption

(* The blueprint export: six rows, two of them to a shard. *)

Shape(state, seat, buckets, actions, menu) ==
  [state |-> state, seat |-> seat, buckets |-> buckets, actions |-> actions, menu |-> menu]
Export == INSTANCE BlueprintExport WITH
  Shapes <- {Shape(1, 0, 2, 2, 5), Shape(1, 1, 3, 3, 5), Shape(2, 0, 1, 2, 7)},
  Weights <- {<<0, 0, 0>>, <<1, 0, 0>>, <<0, 1, 0>>, <<0, 0, 1>>, <<3, 1, 0>>},
  FileLimits <- {636, 637}, ShardBytes <- 2672, PageBuckets <- 2, Stride <- 2,
  MaxVersion <- 2, MaxExports <- 2, MaxCrashes <- 1,
  tables <- x1, temp <- x2, dest <- x3, dirs <- x4, exp <- x5, bounds <- x6

(* Bucket artifacts: 11 tables in chunks of 2; the pure part on decks of 6 and 7 cards. *)

Buckets == INSTANCE BucketArtifact WITH
  Decks <- {6, 7}, Suits <- 3, Base <- 4, BucketCounts <- {<<3, 4, 5>>, <<4, 4, 4>>, <<3, 16, 2>>, <<17, 4, 16>>},
  Sizes <- <<5, 4, 2>>, ChunkSize <- 2, CheckpointEvery <- 4, Identities <- {"a", "b"}, MaxRuns <- 3, MaxCrashes <- 2,
  files <- x1, run <- x2, bounds <- x3

-----------------------------------------------------------------------------
slots == <<x1, x2, x3, x4, x5, x6>>
allVars == <<component, vars, slots>>

MCInit ==
  /\ Init
  /\ \/ component = "transaction" /\ AllOff
     \/ component = "resolver" /\ Resolve!ResolverInit /\ x6 = Off
     \/ component = "session" /\ Decide!SessionInit /\ x6 = Off
     \/ component = "full_hand" /\ FullHand!FullHandInit
     \/ component = "artifact" /\ Artifact!ArtifactInit
     \/ component = "training" /\ Train!TrainingInit
     \/ component = "export" /\ Export!ExportInit
     \/ component = "buckets" /\ Buckets!BucketInit /\ x4 = Off /\ x5 = Off /\ x6 = Off

\* The process opens its store before the component runs.
Opening == RecoveryStep /\ UNCHANGED <<component, slots>>

MCNext ==
  \/ Opening
  \/ component = "transaction" /\ (BatchStep \/ Crash) /\ UNCHANGED <<component, slots>>
  \/ /\ pc = "idle" /\ UNCHANGED <<component, vars>>
     /\ \/ component = "resolver" /\ Resolve!ResolverNext /\ UNCHANGED x6
        \/ component = "session" /\ Decide!SessionNext /\ UNCHANGED x6
        \/ component = "full_hand" /\ FullHand!FullHandNext
        \/ component = "artifact" /\ Artifact!ArtifactNext
        \/ component = "training" /\ Train!TrainingNext
        \/ component = "export" /\ Export!ExportNext
        \/ component = "buckets" /\ Buckets!BucketNext /\ UNCHANGED <<x4, x5, x6>>

\* What opens a store keeps running, as in FairSpec.
MCSpec == MCInit /\ [][MCNext]_allVars /\ WF_allVars(Opening)

-----------------------------------------------------------------------------
(* The properties of the components, on the behaviours that run them. *)

\* A resolver returns the policy of its own request and only from a clean, timely
\* search; sessions answer from the beliefs, board and menu of their own round.
ServicesSound ==
  /\ component = "resolver" => Resolve!ResolverSound
  /\ component = "session" => Decide!SessionSound
  /\ component = "full_hand" => FullHand!FullHandSound
\* However often a training run fails, stops and resumes, its checkpoints are those
\* of the uninterrupted run, a checkpoint that loads is one version of the tables, and
\* every published blueprint is whole and answers every lookup from its rows.  A bucket artifact
\* is whole and gives every hand the bucket it was built with, however its run was interrupted.
TrainingSound ==
  /\ component = "training" => Train!TrainingSound
  /\ component = "artifact" => Artifact!ArtifactSound
  /\ component = "export" => Export!ExportSound
  /\ component = "buckets" => Buckets!BucketsSound
\* A belief only ever loses combos within a round, and no step of a save loses the
\* newest checkpoint that loads.
ServiceStepsSafe ==
  [][/\ component = "session" => Decide!BeliefStep
     /\ component = "artifact" => Artifact!CheckpointKept]_allVars
=============================================================================
