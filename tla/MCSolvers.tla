------------------------------ MODULE MCSolvers ------------------------------
(* The threads and the arithmetic of the solvers on small instances: the pool of *)
(* the multiway batch runner, the two pools of the heads-up flat solvers, their  *)
(* sampling kernels and the vector kernels.  One behaviour runs one of them; the *)
(* variables z1, ... hold its state.                                             *)
EXTENDS BatchRunner, Fractions, TLC

VARIABLES component, z1, z2, z3, z4, z5, z6, z7, z8
slots == <<z1, z2, z3, z4, z5, z6, z7, z8>>
allVars == <<component, vars, slots>>
poolVars == <<z1, z2, z3, z4, z5, z6, z7>>
Off == [off |-> TRUE]

-----------------------------------------------------------------------------
(* Flat games: nodes by number, the root first. *)

Terminal(utility) ==
  [type |-> "Terminal", player |-> 2, infoset |-> 0, kids |-> <<>>, probability |-> <<>>, utility |-> utility]
Deal(kids, probability) ==
  [type |-> "Chance", player |-> 2, infoset |-> 0, kids |-> kids, probability |-> probability, utility |-> Zero]
Choice(player, I, kids) ==
  [type |-> "Decision", player |-> player, infoset |-> I, kids |-> kids, probability |-> <<>>, utility |-> Zero]

\* For the sampling kernels: a deal only player 1 sees, and a game with two turns of player 0.
ZeroSum(u) == Terminal(0 :> u @@ 1 :> -u)
DealtGame ==
  [node |-> <<Deal(<<2, 3>>, <<<<1, 4>>, <<3, 4>>>>), Choice(0, 1, <<4, 6>>), Choice(0, 1, <<5, 7>>),
              Choice(1, 2, <<8, 9>>), Choice(1, 3, <<10, 11, 12>>),
              ZeroSum(2), ZeroSum(-3), ZeroSum(4), ZeroSum(-1), ZeroSum(5), ZeroSum(0), ZeroSum(-2)>>,
   regret |-> <<<<<<1, 3>>, <<-1, -2>>>>, <<<<2, 1>>>>, <<<<1, 0, 1>>>>>>,
   sum |-> <<<<<<1, 3>>, <<0, 0>>>>, <<<<2, 1>>>>, <<<<1, 0, 0>>>>>>,
   baseline |-> <<<<<<1, 2>>, <<2, 1>>>>, <<<<1, 1>>, <<-1, 1>>>>, <<<<1, 2>>, Zero, <<3, 1>>>>>>,
   chance_baseline |-> 1 :> <<<<1, 1>>, <<-2, 1>>>>]
NestedGame ==
  [node |-> <<Choice(0, 1, <<2, 3>>), ZeroSum(1), Choice(1, 2, <<4, 5>>), ZeroSum(-2),
              Choice(0, 3, <<6, 7>>), ZeroSum(3), ZeroSum(-4)>>,
   regret |-> <<<<<<1, 1>>, <<0, 2>>>>, <<<<1, 3>>>>, <<<<3, 1>>, <<0, 0>>>>>>,
   sum |-> <<<<<<1, 1>>, <<1, 1>>>>, <<<<0, 1>>>>, <<<<1, 1>>, <<2, 0>>>>>>,
   baseline |-> <<<<<<1, 2>>, <<2, 1>>>>, <<<<1, 1>>, <<-1, 1>>>>, <<<<1, 2>>, <<3, 1>>>>>>,
   chance_baseline |-> <<>>]
Sampling == INSTANCE FlatSampling WITH
  Games <- {DealtGame, NestedGame}, AsEpsilon <- <<1, 20>>, AsTau <- One, AsBeta <- One,
  context <- z1, frames <- z2, last_value <- z3, scratch <- z4

FlatPool == INSTANCE FlatWorkers WITH
  WorkerCount <- 2, Traversals <- 3, BatchSize <- 2, PlayerCount <- 2, Rows <- {0, 1}, Stride <- 2,
  CallBatches <- 3, MaxIterations <- 3, MaxFailures <- 1,
  config <- z1, table <- z2, progress <- z3, pool <- z4, workers <- z5, scratch <- z6, caller <- z7

\* For the staged solver: a deal player 0 does not see, then a node that two histories reach;
\* and a game whose three infosets and whose depths divide unevenly among two workers.
Pays(u) == Terminal(<<u, 1>>)
MergedGame ==
  [node |-> <<Deal(<<2, 3>>, <<<<1, 3>>, <<2, 3>>>>), Choice(0, 1, <<4, 5>>), Choice(0, 1, <<6, 5>>),
              Pays(1), Choice(1, 2, <<7, 8>>), Pays(-2), Pays(3), Pays(-1)>>,
   slices |-> <<<<1>>, <<2, 3>>, <<4, 5, 6>>, <<7, 8>>>>, nodes_of |-> <<<<2, 3>>, <<5>>>>,
   prior |-> <<<<<<1, 4>>, <<3, 4>>>>, <<<<1, 1>>>>>>]
UnevenGame ==
  [node |-> <<Choice(1, 1, <<2, 3, 4>>), Pays(2), Choice(0, 2, <<5, 6>>), Choice(0, 3, <<7, 8>>),
              Pays(1), Pays(-1), Pays(0), Pays(4)>>,
   slices |-> <<<<1>>, <<2, 3, 4>>, <<5, 6, 7, 8>>>>, nodes_of |-> <<<<1>>, <<3>>, <<4>>>>,
   prior |-> <<<<<<1, 1>>>>, <<<<1, 2>>, <<1, 2>>>>, <<<<1, 1>>>>>>]
Staged(game, layout, workers, iterations, failures) ==
  [game |-> game, layout |-> layout, workers |-> workers, iterations |-> iterations, failures |-> failures]
Dcfr == INSTANCE FlatDcfr WITH
  Configs <- {Staged(MergedGame, "InfosetActionHand", 2, 2, 0), Staged(MergedGame, "InfosetHandAction", 1, 2, 0),
              Staged(UnevenGame, "InfosetHandAction", 2, 1, 1), Staged(UnevenGame, "InfosetActionHand", 1, 2, 0)},
  config <- z1, plan <- z2, data <- z3, scratch <- z4, pool <- z5, workers <- z6, caller <- z7, ghost <- z8

Vector == INSTANCE VectorKernels WITH
  MaxLen <- 9, Backends <- {"Avx2", "Avx2Reductions", "Avx2OnSse2", "Sse2", "Scalar"}, row <- z1, turn <- z2

-----------------------------------------------------------------------------
Off34 == z3 = Off /\ z4 = Off
Off58 == z5 = Off /\ z6 = Off /\ z7 = Off /\ z8 = Off
\* The batch runner is there in all of them, and runs in its own behaviours only.
MCInit ==
  \/ component = "runner" /\ Init /\ z1 = Off /\ z2 = Off /\ Off34 /\ Off58
  \/ /\ Init /\ mode = "Fixed"
     /\ \/ component = "sampling" /\ Sampling!FlatInit /\ Off58
        \/ component = "flat_pool" /\ FlatPool!FlatPoolInit /\ z8 = Off
        \/ component = "dcfr" /\ Dcfr!DcfrInit
        \/ component = "vector" /\ Vector!VectorInit /\ Off34 /\ Off58
Only(running) == component = running /\ UNCHANGED <<component, vars>>
MCNext ==
  \/ component = "runner" /\ Next /\ UNCHANGED <<component, slots>>
  \/ Only("sampling") /\ Sampling!FlatNext /\ UNCHANGED <<z5, z6, z7, z8>>
  \/ Only("flat_pool") /\ FlatPool!FlatPoolNext /\ UNCHANGED z8
  \/ Only("dcfr") /\ Dcfr!DcfrNext
  \/ Only("vector") /\ Vector!VectorNext /\ UNCHANGED <<z3, z4, z5, z6, z7, z8>>

\* Every thread that can run is scheduled, whichever of them runs: weak fairness of the caller
\* and of each worker, written with the condition that enables a step of the staged solver in
\* the place of ENABLED, and the strong fairness of the runner's mutex, as in FairSpec.
CallerFairness ==
  \/ []<>~ \/ component = "runner" /\ ENABLED <<CallerStep>>_vars
           \/ component = "flat_pool" /\ ENABLED <<FlatPool!Coordinate>>_poolVars
           \/ component = "dcfr" /\ Dcfr!CallerCan
  \/ []<><<\/ component = "runner" /\ CallerStep
           \/ component = "flat_pool" /\ FlatPool!Coordinate
           \/ component = "dcfr" /\ z7' # z7>>_allVars
WorkerFairness(w) ==
  \/ []<>~ \/ component = "runner" /\ ENABLED <<FreeStep(w)>>_vars
           \/ component = "flat_pool" /\ w \in FlatPool!Helpers /\ ENABLED <<FlatPool!Work(w)>>_poolVars
           \/ component = "dcfr" /\ Dcfr!WorkerCan(w)
  \/ []<><<\/ component = "runner" /\ FreeStep(w)
           \/ component = "flat_pool" /\ w \in FlatPool!Helpers /\ FlatPool!Work(w)
           \/ component = "dcfr" /\ z6'[w] # z6[w]>>_allVars
MutexFairness(w) == SF_allVars(component = "runner" /\ LockedStep(w) /\ UNCHANGED <<component, slots>>)
MCSpec == MCInit /\ [][MCNext]_allVars /\ CallerFairness /\ \A w \in 0 .. 1 : WorkerFairness(w) /\ MutexFairness(w)

-----------------------------------------------------------------------------
\* The sampling kernels of the flat solver are unbiased and their scratch is not shared; its
\* pools leave the tables a single thread leaves, whatever fails and is retried; and the
\* vector kernels compute what the scalar code computes, for every length and backend.
SolversSound ==
  /\ component = "sampling" => Sampling!FlatSamplingSound
  /\ component = "flat_pool" => FlatPool!FlatPoolSound
  /\ component = "dcfr" => Dcfr!DcfrSound
  /\ component = "vector" => Vector!VectorSound
\* Every call into a flat solver returns, with its result or its exception, and every
\* destructor that joins workers returns: each worker sees the flag and leaves its loop.
SolverBusy ==
  \/ component = "flat_pool" /\ FlatPool!FlatPoolBusy
  \/ component = "dcfr" /\ Dcfr!DcfrBusy
  \/ component = "runner" /\ stop /\ caller # "destroyed"
SolversFinish == SolverBusy ~> ~SolverBusy
=============================================================================
