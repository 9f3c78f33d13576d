---------------------------- MODULE ServiceProofs ----------------------------
(***************************************************************************)
(* Theorems about the services that answer during a hand: the resolver,    *)
(* the decision session and the full-hand session, for any number of       *)
(* threads, requests, seats, combos and calls.                             *)
(*                                                                         *)
(* The three share no state, so each is an instance over variables of its  *)
(* own, with an inductive invariant of its own.                            *)
(***************************************************************************)
EXTENDS Naturals, Sequences, TLAPS, WellFoundedInduction

CONSTANTS Resolvers, Requests, MaxBatches, MaxCalls
VARIABLES entry, call, late, delivered, calls
Resolve == INSTANCE Resolver

CONSTANTS Seats, Cards, Boards, Observations, MaxRevision, MaxRounds, MaxMerged
VARIABLES root_revision, round, beliefs, freeze, snapshot
Session == INSTANCE DecisionSession WITH MaxVersion <- MaxMerged

CONSTANTS SeatCount, StreetBoards, Likely, Holes
VARIABLES table, events, ranges, board, frozen, frozen_policy
FullHand == INSTANCE FullHandSession WITH Boards <- StreetBoards, Observations <- Likely


-----------------------------------------------------------------------------
(***************************************************************************)
(* The resolver.  The invariant follows each call through its stages: the   *)
(* snapshot is that of the last clean batch, and only a call whose search   *)
(* ended cleanly and whose mode delivers it adds a policy to the delivered. *)
(***************************************************************************)
Fallbacks == {"StableRootFallback", "BlueprintFallback", "StaticLegalFallback"}
FallbackStatuses ==
  {"ArtifactMismatch", "BucketUnavailable", "DeadlineFallback", "RejectedByBudget", "Solved",
   "ResourceExhausted"}
Policies == [from : {"search", "blueprint", "static"}, request : Requests, id : Nat, batch : Nat]
CallFields ==
  [pc : {"admit", "search", "checkpoint", "batch", "export", "conclude", "store", "fallback", "done"},
   request : Requests, id : Nat, delivers : BOOLEAN,
   status : FallbackStatuses \cup {"InvalidRequest", "Partial"},
   provenance : Fallbacks \cup {"None", "RuntimeSearch"},
   outcome : {"None", "Completed", "MemoryRejected", "NoRoot", "Exception", "NoCleanBatch",
              "NormalizationFailed"},
   policy : Policies \cup {Resolve!NoPolicy}, shadow : BOOLEAN, batches : Nat,
   snapshot : Policies \cup {Resolve!NoPolicy}, expired : BOOLEAN]

\* The policy of a call came from its own search, which ended cleanly,
Searched(c, dels) ==
  /\ c.delivers /\ c.outcome = "Completed" /\ c.batches > 0 /\ c.policy = c.snapshot
  /\ c.policy \in dels /\ c.status = IF c.expired THEN "Partial" ELSE "Solved"
\* or it is a fallback for the same request.
FellBack(c, dels) ==
  /\ c.policy \in Policies /\ c.policy.request = c.request
  /\ c.status \in FallbackStatuses /\ (c.status = "Solved" => ~c.delivers)
  /\ c.policy.from = "search" => c.policy \in dels
\* What a call is, stage by stage, given the delivered policies.
CallGood(c, isLate, dels, n) ==
  /\ c \in CallFields /\ c.id \in 1 .. n
  /\ c.batches > 0 => c.snapshot = Resolve!Policy("search", c.request, c.id, c.batches)
  /\ c.status = "DeadlineFallback" => isLate
  /\ c.pc \notin {"store", "done"} => c.provenance = "None" /\ c.policy = Resolve!NoPolicy
  /\ c.pc = "conclude" /\ c.outcome = "Completed" => c.batches > 0
  /\ c.pc = "fallback" => c.status \in FallbackStatuses /\ (c.status = "Solved" => ~c.delivers)
  /\ c.pc \in {"store", "done"} =>
       \/ c.provenance = "RuntimeSearch" /\ Searched(c, dels)
       \/ c.pc = "done" /\ c.provenance \in Fallbacks /\ FellBack(c, dels)
       \/ /\ c.pc = "done" /\ c.provenance = "None" /\ c.status = "InvalidRequest"
          /\ c.policy = Resolve!NoPolicy
  /\ \A p \in dels : p.id = c.id => c.delivers /\ c.pc \in {"store", "done"}

IdleCall == [pc |-> "idle"]
ResolverInvariant ==
  /\ calls \in Nat /\ late \in [Resolvers -> BOOLEAN] /\ delivered \subseteq Policies
  /\ \A p \in delivered : p.id \in 1 .. calls
  /\ \/ entry = Resolve!NoEntry
     \/ /\ entry \in [key : Requests, policy : Policies]
        /\ entry.policy \in delivered /\ entry.policy.request = entry.key
  /\ DOMAIN call = Resolvers /\ call = [r \in Resolvers |-> call[r]]
  /\ \A r \in Resolvers : call[r] = IdleCall \/ CallGood(call[r], late[r], delivered, calls)
  /\ \A r, s \in Resolvers :
       call[r] # IdleCall /\ call[s] # IdleCall /\ call[r].id = call[s].id => r = s

\* More policies of other calls change nothing for a call, nor does the time.
LEMMA GoodLater ==
  ASSUME NEW c, NEW isLate, NEW later, NEW dels, NEW more, NEW n \in Nat, NEW m \in Nat,
         CallGood(c, isLate, dels, n), n <= m, isLate => later, dels \subseteq more,
         \A p \in more \ dels : p.id # c.id
  PROVE  CallGood(c, later, more, m)
PROOF
<1>1. c.id \in 1 .. m
  BY DEF CallGood
<1>2. /\ Searched(c, dels) => Searched(c, more)
      /\ FellBack(c, dels) => FellBack(c, more)
  BY DEF Searched, FellBack
<1> QED BY <1>1, <1>2 DEF CallGood

\* A step of one call: the others see at most a policy more.
LEMMA OneCall ==
  ASSUME ResolverInvariant, NEW r \in Resolvers, NEW d,
         call[r] # IdleCall, call' = [call EXCEPT ![r] = d], d.id = call[r].id,
         d # IdleCall, UNCHANGED <<late, calls>>,
         delivered \subseteq delivered', \A p \in delivered' \ delivered : p \in Policies /\ p.id = d.id,
         CallGood(d, late[r], delivered', calls),
         \/ UNCHANGED entry
         \/ /\ entry' \in [key : Requests, policy : Policies]
            /\ entry'.policy \in delivered /\ entry'.policy.request = entry'.key
  PROVE  ResolverInvariant'
PROOF
<1>1. /\ calls \in Nat /\ late \in [Resolvers -> BOOLEAN] /\ delivered \subseteq Policies
      /\ \A p \in delivered : p.id \in 1 .. calls
      /\ call = [s \in Resolvers |-> call[s]]
      /\ \A s \in Resolvers : call[s] = IdleCall \/ CallGood(call[s], late[s], delivered, calls)
      /\ \A s, t \in Resolvers :
           call[s] # IdleCall /\ call[t] # IdleCall /\ call[s].id = call[t].id => s = t
  BY DEF ResolverInvariant
<1>2. /\ call' = [s \in Resolvers |-> call'[s]] /\ DOMAIN call' = Resolvers
      /\ call'[r] = d /\ \A s \in Resolvers \ {r} : call'[s] = call[s]
  BY <1>1
<1>3. d.id \in 1 .. calls
  BY DEF CallGood
<1>4. ASSUME NEW s \in Resolvers
      PROVE  call'[s] = IdleCall \/ CallGood(call'[s], late'[s], delivered', calls')
  <2>1. CASE s = r
    BY <1>2, <2>1
  <2>2. CASE s # r /\ call[s] # IdleCall
    <3>1. call'[s] = call[s] /\ CallGood(call[s], late[s], delivered, calls) /\ call[s].id # d.id
      BY <1>1, <1>2, <2>2
    <3>2. \A p \in delivered' \ delivered : p.id # call[s].id
      BY <3>1
    <3>3. CallGood(call[s], late[s], delivered', calls)
      BY <1>1, <3>1, <3>2, GoodLater
    <3> QED BY <3>1, <3>3
  <2>3. CASE s # r /\ call[s] = IdleCall
    BY <1>2, <2>3
  <2> QED BY <2>1, <2>2, <2>3
<1>5. \A s, t \in Resolvers :
        call'[s] # IdleCall /\ call'[t] # IdleCall /\ call'[s].id = call'[t].id => s = t
  BY <1>1, <1>2
<1>6. /\ delivered' \subseteq Policies /\ \A p \in delivered' : p.id \in 1 .. calls'
  BY <1>1, <1>3
<1>7. \/ entry' = Resolve!NoEntry
      \/ /\ entry' \in [key : Requests, policy : Policies]
         /\ entry'.policy \in delivered' /\ entry'.policy.request = entry'.key
  BY DEF ResolverInvariant
<1> QED BY <1>1, <1>2, <1>4, <1>5, <1>6, <1>7 DEF ResolverInvariant

LEMMA ActiveCall ==
  ASSUME ResolverInvariant, NEW r \in Resolvers, call[r].pc # "idle"
  PROVE  call[r] # IdleCall /\ CallGood(call[r], late[r], delivered, calls) /\ call[r] \in CallFields
PROOF
<1>1. call[r] # IdleCall
  BY DEF IdleCall
<1> QED BY <1>1 DEF ResolverInvariant, CallGood

\* A new call has an identity of its own, under which nothing was delivered.
LEMMA BeginCallStep ==
  ASSUME ResolverInvariant, NEW r \in Resolvers, Resolve!Begin(r)
  PROVE  ResolverInvariant'
PROOF
<1>1. /\ calls \in Nat /\ late \in [Resolvers -> BOOLEAN] /\ delivered \subseteq Policies
      /\ \A p \in delivered : p.id \in 1 .. calls
      /\ call = [s \in Resolvers |-> call[s]]
      /\ \A s \in Resolvers : call[s] = IdleCall \/ CallGood(call[s], late[s], delivered, calls)
      /\ \A s, t \in Resolvers :
           call[s] # IdleCall /\ call[t] # IdleCall /\ call[s].id = call[t].id => s = t
  BY DEF ResolverInvariant
<1>2. PICK request \in Requests : Resolve!Set(r, Resolve!Result(request, calls + 1))
  BY DEF Resolve!Begin
<1>3. /\ late' = [late EXCEPT ![r] = FALSE] /\ calls' = calls + 1 /\ UNCHANGED <<entry, delivered>>
  BY DEF Resolve!Begin
<1> DEFINE d == Resolve!Result(request, calls + 1)
<1>4. /\ d \in CallFields /\ d.pc = "admit" /\ d.id = calls + 1 /\ d.batches = 0
      /\ d.status = "InvalidRequest" /\ d.provenance = "None" /\ d.policy = Resolve!NoPolicy
      /\ d.outcome = "None"
  BY <1>1 DEF Resolve!Result, CallFields
<1>5. /\ call' = [s \in Resolvers |-> call'[s]] /\ DOMAIN call' = Resolvers
      /\ call'[r] = d /\ \A s \in Resolvers \ {r} : call'[s] = call[s]
  BY <1>1, <1>2 DEF Resolve!Set
<1> HIDE DEF d
<1>6. \A p \in delivered : p.id # d.id
  BY <1>1, <1>4
<1>7. CallGood(d, FALSE, delivered, calls + 1)
  BY <1>1, <1>4, <1>6 DEF CallGood
<1>8. ASSUME NEW s \in Resolvers
      PROVE  call'[s] = IdleCall \/ CallGood(call'[s], late'[s], delivered', calls')
  <2>1. CASE s = r
    <3>1. late'[r] = FALSE
      BY <1>1, <1>3
    <3> QED BY <1>3, <1>5, <1>7, <2>1, <3>1
  <2>2. CASE s # r /\ call[s] # IdleCall
    <3>1. call'[s] = call[s] /\ CallGood(call[s], late[s], delivered, calls) /\ late'[s] = late[s]
      BY <1>1, <1>3, <1>5, <2>2
    <3>2. calls + 1 \in Nat /\ calls <= calls + 1
      BY <1>1
    <3>3. CallGood(call[s], late[s], delivered, calls + 1)
      BY <1>1, <3>1, <3>2, GoodLater
    <3> QED BY <1>3, <3>1, <3>3
  <2>3. CASE s # r /\ call[s] = IdleCall
    BY <1>5, <2>3
  <2> QED BY <2>1, <2>2, <2>3
<1>9. \A s \in Resolvers \ {r} : call'[s] # IdleCall => call'[s].id # calls + 1
  BY <1>1, <1>5 DEF CallGood
<1>10. \A s, t \in Resolvers :
         call'[s] # IdleCall /\ call'[t] # IdleCall /\ call'[s].id = call'[t].id => s = t
  BY <1>1, <1>4, <1>5, <1>9
<1>11. calls' \in Nat /\ late' \in [Resolvers -> BOOLEAN] /\ \A p \in delivered' : p.id \in 1 .. calls'
  BY <1>1, <1>3
<1> QED BY <1>1, <1>3, <1>5, <1>8, <1>10, <1>11 DEF ResolverInvariant

LEMMA TickStep ==
  ASSUME ResolverInvariant, NEW r \in Resolvers, Resolve!Tick(r)
  PROVE  ResolverInvariant'
PROOF
<1>1. late' = [late EXCEPT ![r] = TRUE] /\ UNCHANGED <<entry, call, delivered, calls>>
  BY DEF Resolve!Tick
<1>2. /\ calls \in Nat /\ late \in [Resolvers -> BOOLEAN]
      /\ \A s \in Resolvers : call[s] = IdleCall \/ CallGood(call[s], late[s], delivered, calls)
  BY DEF ResolverInvariant
<1>3. late' \in [Resolvers -> BOOLEAN] /\ \A s \in Resolvers : late[s] => late'[s]
  BY <1>1, <1>2
<1>4. ASSUME NEW s \in Resolvers
      PROVE  call[s] = IdleCall \/ CallGood(call[s], late'[s], delivered, calls)
  BY <1>2, <1>3, GoodLater
<1>5. \A s \in Resolvers : call'[s] = IdleCall \/ CallGood(call'[s], late'[s], delivered', calls')
  BY <1>1, <1>4
<1>6. /\ delivered' \subseteq Policies /\ \A p \in delivered' : p.id \in 1 .. calls'
      /\ DOMAIN call' = Resolvers /\ call' = [s \in Resolvers |-> call'[s]] /\ calls' \in Nat
      /\ \A s, t \in Resolvers :
           call'[s] # IdleCall /\ call'[t] # IdleCall /\ call'[s].id = call'[t].id => s = t
  BY <1>1 DEF ResolverInvariant
<1>7. \/ entry' = Resolve!NoEntry
      \/ /\ entry' \in [key : Requests, policy : Policies]
         /\ entry'.policy \in delivered' /\ entry'.policy.request = entry'.key
  BY <1>1 DEF ResolverInvariant
<1> QED BY <1>3, <1>5, <1>6, <1>7 DEF ResolverInvariant

\* The same for a step that changes nothing else.
LEMMA StepOfCall ==
  ASSUME ResolverInvariant, NEW r \in Resolvers, NEW d, Resolve!Set(r, d),
         UNCHANGED <<entry, late, delivered, calls>>,
         call[r] # IdleCall, d.id = call[r].id, d # IdleCall, CallGood(d, late[r], delivered, calls)
  PROVE  ResolverInvariant'
PROOF
<1>1. call' = [call EXCEPT ![r] = d]
  BY DEF Resolve!Set
<1>2. /\ delivered \subseteq delivered'
      /\ \A p \in delivered' \ delivered : p \in Policies /\ p.id = d.id
  OBVIOUS
<1>3. CallGood(d, late[r], delivered', calls)
  OBVIOUS
<1>4. UNCHANGED <<late, calls>> /\ UNCHANGED entry
  OBVIOUS
<1> QED BY <1>1, <1>2, <1>3, <1>4, OneCall

\* A call that only moves on in its search: no policy, no status, nothing delivered.
LEMMA SearchMoves ==
  ASSUME ResolverInvariant, NEW r \in Resolvers, NEW d, Resolve!Set(r, d),
         UNCHANGED <<entry, late, delivered, calls>>, call[r].pc \notin {"idle", "store", "done"},
         d \in CallFields, d.id = call[r].id, d.request = call[r].request,
         d.provenance = call[r].provenance, d.policy = call[r].policy,
         d.status = "DeadlineFallback" => late[r],
         d.pc \notin {"store", "done"},
         d.batches > 0 => d.snapshot = Resolve!Policy("search", d.request, d.id, d.batches),
         d.pc = "conclude" /\ d.outcome = "Completed" => d.batches > 0,
         d.pc = "fallback" => d.status \in FallbackStatuses /\ (d.status = "Solved" => ~d.delivers)
  PROVE  ResolverInvariant'
PROOF
<1>1. call[r] # IdleCall /\ CallGood(call[r], late[r], delivered, calls)
  BY ActiveCall
<1>2. d # IdleCall
  BY DEF CallFields, IdleCall
<1>3. CallGood(d, late[r], delivered, calls)
  BY <1>1 DEF CallGood
<1> QED BY <1>1, <1>2, <1>3, StepOfCall

LEMMA AdmitStep ==
  ASSUME ResolverInvariant, NEW r \in Resolvers, Resolve!Admit(r)
  PROVE  ResolverInvariant'
PROOF
<1> DEFINE c == call[r]
<1>1. /\ c.pc = "admit" /\ UNCHANGED <<entry, late, delivered, calls>>
      /\ c \in CallFields /\ CallGood(c, late[r], delivered, calls) /\ c # IdleCall
      /\ late[r] \in BOOLEAN
  BY ActiveCall DEF Resolve!Admit, Resolve!At, ResolverInvariant
\* The plan searches or falls back.
<1>2. ASSUME NEW mode \in Resolve!Modes, NEW status \in Resolve!PreparedStatuses,
             NEW foreign \in BOOLEAN, NEW eligible \in BOOLEAN, NEW delivers \in BOOLEAN,
             Resolve!Set(r, Resolve!Plan([c EXCEPT !.status = status, !.delivers = delivers],
                                         mode, late[r], foreign, eligible))
      PROVE  ResolverInvariant'
  <2> DEFINE e == [c EXCEPT !.status = status, !.delivers = delivers]
             d == Resolve!Plan(e, mode, late[r], foreign, eligible)
  <2>0. Resolve!Set(r, d)
    BY <1>2
  <2>1. /\ e \in CallFields /\ e.status = status /\ e.delivers = delivers /\ e.id = c.id
        /\ e.request = c.request /\ e.provenance = c.provenance /\ e.policy = c.policy
        /\ e.batches = c.batches /\ e.snapshot = c.snapshot /\ e.pc = "admit"
    <3>1. status \in FallbackStatuses \cup {"InvalidRequest", "Partial"}
      BY DEF Resolve!PreparedStatuses, FallbackStatuses
    <3> QED BY <1>1, <3>1 DEF CallFields
  <2> HIDE DEF e
  <2>2. ASSUME NEW x \in CallFields, NEW verdict \in FallbackStatuses
        PROVE  LET f == Resolve!ToFallback(x, verdict) IN
               /\ f \in CallFields /\ f.pc = "fallback" /\ f.status = verdict /\ f.id = x.id
               /\ f.request = x.request /\ f.provenance = x.provenance /\ f.policy = x.policy
               /\ f.batches = x.batches /\ f.snapshot = x.snapshot /\ f.delivers = x.delivers
    BY <2>2 DEF Resolve!ToFallback, CallFields
  <2>3. ASSUME NEW x \in CallFields, NEW verdict \in FallbackStatuses,
               d = Resolve!ToFallback(x, verdict), x.id = c.id, x.request = c.request,
               x.provenance = c.provenance, x.policy = c.policy, x.batches = c.batches,
               x.snapshot = c.snapshot, verdict = "DeadlineFallback" => late[r],
               verdict = "Solved" => ~x.delivers
        PROVE  ResolverInvariant'
    <3>1. /\ d \in CallFields /\ d.pc = "fallback" /\ d.status = verdict /\ d.id = c.id
          /\ d.request = c.request /\ d.provenance = c.provenance /\ d.policy = c.policy
          /\ d.batches = c.batches /\ d.snapshot = c.snapshot /\ d.delivers = x.delivers
      BY <2>2, <2>3
    <3>2. d.batches > 0 => d.snapshot = Resolve!Policy("search", d.request, d.id, d.batches)
      BY <1>1, <3>1 DEF CallGood
    <3> HIDE DEF d
    <3> QED BY <1>1, <2>0, <2>3, <3>1, <3>2, SearchMoves
  <2>4. CASE e.status \in {"ArtifactMismatch", "BucketUnavailable"}
    <3>1. d = Resolve!ToFallback(e, e.status) /\ e.status \in FallbackStatuses
      BY <2>4 DEF Resolve!Plan, FallbackStatuses
    <3> HIDE DEF d
    <3> QED BY <2>1, <2>3, <2>4, <3>1
  <2>5. CASE e.status \notin {"ArtifactMismatch", "BucketUnavailable"}
    <3>1. e.status = "InvalidRequest"
      BY <2>1, <2>5 DEF Resolve!PreparedStatuses
    <3>2. {"ArtifactMismatch", "DeadlineFallback", "RejectedByBudget", "Solved"} \subseteq FallbackStatuses
      BY DEF FallbackStatuses
    <3>3. \/ d = Resolve!ToFallback(e, "ArtifactMismatch")
          \/ late[r] /\ d = Resolve!ToFallback([e EXCEPT !.expired = TRUE], "DeadlineFallback")
          \/ d = Resolve!ToFallback(e, "RejectedByBudget")
          \/ d = [e EXCEPT !.pc = "search"]
          \/ ~e.delivers /\ d = Resolve!ToFallback(e, "Solved")
      BY <2>1, <2>5 DEF Resolve!Plan
    <3>4. CASE d = [e EXCEPT !.pc = "search"]
      <4>1. /\ d \in CallFields /\ d.pc = "search" /\ d.status = e.status /\ d.id = c.id
            /\ d.request = c.request /\ d.provenance = c.provenance /\ d.policy = c.policy
            /\ d.batches = c.batches /\ d.snapshot = c.snapshot
        <5> HIDE DEF d
        <5> QED BY <2>1, <3>4 DEF CallFields
      <4>2. d.batches > 0 => d.snapshot = Resolve!Policy("search", d.request, d.id, d.batches)
        BY <1>1, <4>1 DEF CallGood
      <4> HIDE DEF d
      <4> QED BY <1>1, <2>0, <3>1, <4>1, <4>2, SearchMoves
    <3>5. CASE late[r] /\ d = Resolve!ToFallback([e EXCEPT !.expired = TRUE], "DeadlineFallback")
      <4> DEFINE x == [e EXCEPT !.expired = TRUE]
      <4>1. /\ x \in CallFields /\ x.id = c.id /\ x.request = c.request /\ x.policy = c.policy
            /\ x.provenance = c.provenance /\ x.batches = c.batches /\ x.snapshot = c.snapshot
        BY <2>1 DEF CallFields
      <4>2. d = Resolve!ToFallback(x, "DeadlineFallback")
        BY <3>5
      <4> HIDE DEF d, x
      <4> QED BY <2>3, <3>2, <3>5, <4>1, <4>2
    <3> HIDE DEF d
    <3> QED BY <2>1, <2>3, <3>2, <3>3, <3>4, <3>5
  <2> QED BY <2>4, <2>5
\* An exception empties the result.
<1>3. CASE Resolve!Set(r, Resolve!InvalidResult(c))
  <2> DEFINE d == Resolve!InvalidResult(c)
  <2>1. /\ d \in CallFields /\ d.pc = "done" /\ d.id = c.id /\ d.batches = 0
        /\ d.status = "InvalidRequest" /\ d.provenance = "None" /\ d.policy = Resolve!NoPolicy
    BY <1>1 DEF Resolve!InvalidResult, Resolve!Result, CallFields
  <2>2. d # IdleCall
    BY <2>1 DEF IdleCall
  <2> HIDE DEF d
  <2>3. CallGood(d, late[r], delivered, calls)
    BY <1>1, <2>1 DEF CallGood
  <2> QED BY <1>1, <1>3, <2>1, <2>2, <2>3, StepOfCall DEF d
<1> QED
  <2>1. ASSUME NEW mode \in Resolve!Modes, NEW status \in Resolve!PreparedStatuses,
               NEW release \in BOOLEAN, NEW foreign \in BOOLEAN, NEW fits \in BOOLEAN,
               Resolve!Set(r, Resolve!Plan([c EXCEPT !.status = status,
                                 !.delivers = mode \in {"SearchActive", "ReleaseDefault"}],
                               mode, late[r], foreign, Resolve!SearchRequested(mode, release) /\ fits))
        PROVE  ResolverInvariant'
    <3>1. (mode \in {"SearchActive", "ReleaseDefault"}) \in BOOLEAN
      OBVIOUS
    <3>2. (Resolve!SearchRequested(mode, release) /\ fits) \in BOOLEAN
      BY DEF Resolve!SearchRequested
    <3> QED BY <1>2, <2>1, <3>1, <3>2
  <2> QED BY <1>3, <2>1 DEF Resolve!Admit

\* The stages of the search that do not deliver.
LEMMA SearchStep ==
  ASSUME ResolverInvariant, NEW r \in Resolvers,
         Resolve!StartSearch(r) \/ Resolve!Checkpoint(r) \/ Resolve!Batch(r) \/ Resolve!Export(r)
  PROVE  ResolverInvariant'
PROOF
<1> DEFINE c == call[r]
<1>1. /\ c.pc \in {"search", "checkpoint", "batch", "export"}
      /\ UNCHANGED <<entry, late, delivered, calls>>
      /\ c \in CallFields /\ CallGood(c, late[r], delivered, calls)
  <2>1. c.pc \in {"search", "checkpoint", "batch", "export"} /\ UNCHANGED <<entry, late, delivered, calls>>
    BY DEF Resolve!StartSearch, Resolve!Checkpoint, Resolve!Batch, Resolve!Export, Resolve!At
  <2> QED BY <2>1, ActiveCall
<1>2. /\ c.batches > 0 => c.snapshot = Resolve!Policy("search", c.request, c.id, c.batches)
      /\ c.status = "DeadlineFallback" => late[r]
  BY <1>1 DEF CallGood
\* A step that keeps the request, the policy and the batches.
<1>3. ASSUME NEW d \in CallFields, Resolve!Set(r, d), d.id = c.id, d.request = c.request,
             d.provenance = c.provenance, d.policy = c.policy, d.status = c.status,
             d.batches = c.batches, d.snapshot = c.snapshot,
             d.pc \in {"checkpoint", "batch", "export", "conclude"},
             d.pc = "conclude" /\ d.outcome = "Completed" => d.batches > 0
      PROVE  ResolverInvariant'
  <2>1. d.batches > 0 => d.snapshot = Resolve!Policy("search", d.request, d.id, d.batches)
    BY <1>2, <1>3
  <2> QED BY <1>1, <1>2, <1>3, <2>1, SearchMoves
\* The search ends with an outcome.
<1>4. ASSUME NEW x \in CallFields, x.id = c.id, x.request = c.request, x.provenance = c.provenance,
             x.policy = c.policy, x.status = c.status, x.batches = c.batches, x.snapshot = c.snapshot,
             NEW outcome \in {"Completed", "MemoryRejected", "NoRoot", "Exception", "NoCleanBatch",
                              "NormalizationFailed"},
             outcome = "Completed" => c.batches > 0, Resolve!Set(r, Resolve!Ended(x, outcome))
      PROVE  ResolverInvariant'
  <2> DEFINE d == Resolve!Ended(x, outcome)
  <2>1. /\ d \in CallFields /\ d.id = x.id /\ d.request = x.request /\ d.provenance = x.provenance
        /\ d.policy = x.policy /\ d.status = x.status /\ d.batches = x.batches
        /\ d.snapshot = x.snapshot /\ d.pc = "conclude" /\ d.outcome = outcome
    <3>1. d = [x EXCEPT !.pc = "conclude", !.outcome = outcome]
      BY DEF Resolve!Ended
    <3> HIDE DEF d
    <3>2. d \in CallFields
      <4>1. x \in CallFields
        BY <1>4
      <4>2. outcome \in {"None", "Completed", "MemoryRejected", "NoRoot", "Exception",
                         "NoCleanBatch", "NormalizationFailed"}
        BY <1>4
      <4> QED BY <3>1, <4>1, <4>2 DEF CallFields
    <3>3. /\ d.id = x.id /\ d.request = x.request /\ d.provenance = x.provenance
          /\ d.policy = x.policy /\ d.status = x.status /\ d.batches = x.batches
          /\ d.snapshot = x.snapshot
      BY <1>4, <3>1 DEF CallFields
    <3>4. d.pc = "conclude" /\ d.outcome = outcome
      BY <1>4, <3>1 DEF CallFields
    <3> QED BY <3>2, <3>3, <3>4
  <2>2. Resolve!Set(r, d)
    BY <1>4
  <2> HIDE DEF d
  <2> QED BY <1>3, <1>4, <2>1, <2>2
<1>5. CASE Resolve!StartSearch(r)
  <2>1. CASE Resolve!Set(r, [c EXCEPT !.pc = "checkpoint"])
    <3> DEFINE d == [c EXCEPT !.pc = "checkpoint"]
    <3>1. /\ d \in CallFields /\ d.id = c.id /\ d.request = c.request /\ d.provenance = c.provenance
          /\ d.policy = c.policy /\ d.status = c.status /\ d.batches = c.batches
          /\ d.snapshot = c.snapshot /\ d.pc = "checkpoint"
      BY <1>1 DEF CallFields
    <3>2. Resolve!Set(r, d)
      BY <2>1
    <3> HIDE DEF d
    <3> QED BY <1>3, <3>1, <3>2
  <2>2. ASSUME NEW outcome \in {"MemoryRejected", "NoRoot", "Exception"},
               Resolve!Set(r, Resolve!Ended(c, outcome))
        PROVE  ResolverInvariant'
    BY <1>1, <1>4, <2>2
  <2> QED BY <1>5, <2>1, <2>2 DEF Resolve!StartSearch
<1>6. CASE Resolve!Checkpoint(r)
  <2>1. CASE Resolve!Set(r, [c EXCEPT !.pc = "batch"])
    <3> DEFINE d == [c EXCEPT !.pc = "batch"]
    <3>1. /\ d \in CallFields /\ d.id = c.id /\ d.request = c.request /\ d.provenance = c.provenance
          /\ d.policy = c.policy /\ d.status = c.status /\ d.batches = c.batches
          /\ d.snapshot = c.snapshot /\ d.pc = "batch"
      BY <1>1 DEF CallFields
    <3>2. Resolve!Set(r, d)
      BY <2>1
    <3> HIDE DEF d
    <3> QED BY <1>3, <3>1, <3>2
  <2>2. ASSUME NEW expired \in BOOLEAN,
               Resolve!Set(r, [c EXCEPT !.pc = "export", !.expired = expired])
        PROVE  ResolverInvariant'
    <3> DEFINE d == [c EXCEPT !.pc = "export", !.expired = expired]
    <3>1. /\ d \in CallFields /\ d.id = c.id /\ d.request = c.request /\ d.provenance = c.provenance
          /\ d.policy = c.policy /\ d.status = c.status /\ d.batches = c.batches
          /\ d.snapshot = c.snapshot /\ d.pc = "export"
      BY <1>1 DEF CallFields
    <3>2. Resolve!Set(r, d)
      BY <2>2
    <3> HIDE DEF d
    <3> QED BY <1>3, <3>1, <3>2
  <2> DEFINE over == c.expired \/ (c.batches < MaxBatches /\ late[r])
  <2>3. over \in BOOLEAN
    OBVIOUS
  <2>4. \/ Resolve!Set(r, [c EXCEPT !.pc = "batch"])
        \/ Resolve!Set(r, [c EXCEPT !.pc = "export", !.expired = over])
    BY <1>6 DEF Resolve!Checkpoint
  <2> HIDE DEF over
  <2> QED BY <2>1, <2>2, <2>3, <2>4
<1>7. CASE Resolve!Batch(r)
  <2> DEFINE next == IF late[r] THEN "export" ELSE "checkpoint"
             d == [c EXCEPT !.pc = next, !.batches = c.batches + 1,
                            !.snapshot = Resolve!Policy("search", c.request, c.id, c.batches + 1)]
  <2>1. \/ Resolve!Set(r, d)
        \/ Resolve!Set(r, Resolve!Ended(c, "NoCleanBatch"))
        \/ Resolve!Set(r, Resolve!Ended(c, "Exception"))
    BY <1>7 DEF Resolve!Batch
  <2>2. CASE Resolve!Set(r, d)
    <3>1. next \in {"export", "checkpoint"}
      OBVIOUS
    <3>2. c.batches \in Nat /\ c.batches + 1 \in Nat /\ c.id \in Nat /\ c.request \in Requests
      BY <1>1 DEF CallFields
    <3>3. Resolve!Policy("search", c.request, c.id, c.batches + 1) \in Policies
      BY <3>2 DEF Resolve!Policy, Policies
    <3> HIDE DEF next
    <3>4. d \in CallFields
      BY <1>1, <3>1, <3>2, <3>3 DEF CallFields
    <3>5. /\ d.id = c.id /\ d.request = c.request /\ d.provenance = c.provenance
          /\ d.policy = c.policy /\ d.status = c.status /\ d.batches = c.batches + 1
          /\ d.snapshot = Resolve!Policy("search", c.request, c.id, c.batches + 1) /\ d.pc = next
      BY <1>1 DEF CallFields
    <3>6. Resolve!Set(r, d)
      BY <2>2
    <3> HIDE DEF d
    <3>7. /\ d.batches > 0 => d.snapshot = Resolve!Policy("search", d.request, d.id, d.batches)
          /\ d.pc \notin {"store", "done", "conclude", "fallback"}
      BY <3>1, <3>5
    <3> QED BY <1>1, <1>2, <3>4, <3>5, <3>6, <3>7, SearchMoves
  <2>3. CASE Resolve!Set(r, Resolve!Ended(c, "NoCleanBatch"))
    BY <1>1, <1>4, <2>3
  <2>4. CASE Resolve!Set(r, Resolve!Ended(c, "Exception"))
    BY <1>1, <1>4, <2>4
  <2> HIDE DEF d
  <2> QED BY <2>1, <2>2, <2>3, <2>4
<1>8. CASE Resolve!Export(r)
  <2> DEFINE over == c.expired \/ late[r]
             x == [c EXCEPT !.expired = over]
  <2>1. over \in BOOLEAN
    OBVIOUS
  <2>2. \/ c.batches = 0 /\ Resolve!Set(r, Resolve!Ended(c, "NoCleanBatch"))
        \/ c.batches # 0 /\ Resolve!Set(r, Resolve!Ended(x, "Completed"))
        \/ Resolve!Set(r, Resolve!Ended(c, "NormalizationFailed"))
    BY <1>8 DEF Resolve!Export
  <2> HIDE DEF over
  <2>3. /\ x \in CallFields /\ x.id = c.id /\ x.request = c.request /\ x.provenance = c.provenance
        /\ x.policy = c.policy /\ x.status = c.status /\ x.batches = c.batches
        /\ x.snapshot = c.snapshot
    BY <1>1, <2>1 DEF CallFields
  <2> HIDE DEF x
  <2>4. c.batches \in Nat
    BY <1>1 DEF CallFields
  <2>5. CASE c.batches # 0 /\ Resolve!Set(r, Resolve!Ended(x, "Completed"))
    BY <1>4, <2>3, <2>4, <2>5
  <2> QED BY <1>1, <1>4, <2>2, <2>5
<1> QED BY <1>5, <1>6, <1>7, <1>8
\* The delivering end of a search, or the first fallback.
LEMMA ConcludeStep ==
  ASSUME ResolverInvariant, NEW r \in Resolvers, Resolve!Conclude(r)
  PROVE  ResolverInvariant'
PROOF
<1> DEFINE c == call[r]
<1>1. /\ c.pc = "conclude" /\ UNCHANGED <<entry, late, calls>>
      /\ c \in CallFields /\ CallGood(c, late[r], delivered, calls) /\ c # IdleCall
  BY ActiveCall DEF Resolve!Conclude, Resolve!At
<1>2. /\ c.batches > 0 => c.snapshot = Resolve!Policy("search", c.request, c.id, c.batches)
      /\ c.outcome = "Completed" => c.batches > 0
      /\ c.provenance = "None" /\ c.policy = Resolve!NoPolicy /\ c.id \in 1 .. calls
  BY <1>1 DEF CallGood
<1>3. CASE c.delivers /\ c.outcome = "Completed"
  <2> DEFINE status == IF c.expired THEN "Partial" ELSE "Solved"
             d == [c EXCEPT !.pc = "store", !.policy = c.snapshot, !.status = status,
                            !.provenance = "RuntimeSearch"]
  <2>1. Resolve!Set(r, d) /\ delivered' = delivered \cup {c.snapshot}
    BY <1>3 DEF Resolve!Conclude
  <2>2. status \in FallbackStatuses \cup {"InvalidRequest", "Partial"} /\ status # "DeadlineFallback"
    BY DEF FallbackStatuses
  <2>3. status = IF c.expired THEN "Partial" ELSE "Solved"
    OBVIOUS
  <2> HIDE DEF status
  <2>4. d \in CallFields
    BY <1>1, <2>2 DEF CallFields
  <2>5. /\ d.pc = "store" /\ d.policy = c.snapshot /\ d.status = status
        /\ d.provenance = "RuntimeSearch" /\ d.id = c.id /\ d.request = c.request
        /\ d.delivers = c.delivers /\ d.outcome = c.outcome /\ d.batches = c.batches
        /\ d.snapshot = c.snapshot /\ d.expired = c.expired
    BY <1>1 DEF CallFields
  <2> HIDE DEF d
  <2>6. c.snapshot \in Policies /\ c.snapshot.id = c.id
    <3>1. c.batches \in Nat /\ c.id \in Nat /\ c.request \in Requests
      BY <1>1 DEF CallFields
    <3>2. c.snapshot = Resolve!Policy("search", c.request, c.id, c.batches)
      BY <1>2, <1>3
    <3> QED BY <3>1, <3>2 DEF Resolve!Policy, Policies
  <2>7. Searched(d, delivered')
    BY <1>2, <1>3, <2>1, <2>3, <2>5 DEF Searched
  <2>8. CallGood(d, late[r], delivered', calls)
    BY <1>2, <1>3, <2>2, <2>4, <2>5, <2>7 DEF CallGood
  <2>9. call' = [call EXCEPT ![r] = d]
    BY <2>1 DEF Resolve!Set
  <2>10. /\ delivered \subseteq delivered'
         /\ \A p \in delivered' \ delivered : p \in Policies /\ p.id = d.id
    BY <2>1, <2>5, <2>6
  <2>11. d # IdleCall
    BY <2>5 DEF IdleCall
  <2> QED BY <1>1, <2>5, <2>8, <2>9, <2>10, <2>11, OneCall
<1>4. ASSUME NEW x \in CallFields, NEW verdict \in FallbackStatuses, x.id = c.id, x.request = c.request,
             x.provenance = c.provenance, x.policy = c.policy, x.batches = c.batches,
             x.snapshot = c.snapshot, verdict = "DeadlineFallback" => late[r],
             verdict = "Solved" => ~x.delivers, UNCHANGED delivered,
             Resolve!Set(r, Resolve!ToFallback(x, verdict))
      PROVE  ResolverInvariant'
  <2> DEFINE d == Resolve!ToFallback(x, verdict)
  <2>1. /\ d \in CallFields /\ d.pc = "fallback" /\ d.status = verdict /\ d.id = c.id
        /\ d.request = c.request /\ d.provenance = c.provenance /\ d.policy = c.policy
        /\ d.batches = c.batches /\ d.snapshot = c.snapshot /\ d.delivers = x.delivers
    BY <1>4 DEF Resolve!ToFallback, CallFields
  <2>2. Resolve!Set(r, d)
    BY <1>4
  <2> HIDE DEF d
  <2>3. d.batches > 0 => d.snapshot = Resolve!Policy("search", d.request, d.id, d.batches)
    BY <1>2, <2>1
  <2> QED BY <1>1, <1>4, <2>1, <2>2, <2>3, SearchMoves
<1>5. CASE ~(c.delivers /\ c.outcome = "Completed")
  <2> DEFINE verdict == IF late[r] THEN "DeadlineFallback"
                        ELSE IF c.outcome \in {"NoRoot", "MemoryRejected"}
                        THEN "RejectedByBudget" ELSE "ResourceExhausted"
             seen == c.outcome = "Completed"
             x == [c EXCEPT !.shadow = seen]
  <2>1. /\ UNCHANGED delivered
        /\ \/ c.delivers /\ Resolve!Set(r, Resolve!ToFallback(c, verdict))
           \/ ~c.delivers /\ Resolve!Set(r, Resolve!ToFallback(x, "Solved"))
    BY <1>5 DEF Resolve!Conclude
  <2>2. /\ verdict \in FallbackStatuses /\ verdict # "Solved"
        /\ verdict = "DeadlineFallback" => late[r]
    BY DEF FallbackStatuses
  <2>3. seen \in BOOLEAN
    OBVIOUS
  <2> HIDE DEF verdict, seen
  <2>4. /\ x \in CallFields /\ x.id = c.id /\ x.request = c.request /\ x.provenance = c.provenance
        /\ x.policy = c.policy /\ x.batches = c.batches /\ x.snapshot = c.snapshot
        /\ x.delivers = c.delivers
    BY <1>1, <2>3 DEF CallFields
  <2> HIDE DEF x
  <2>5. "Solved" \in FallbackStatuses
    BY DEF FallbackStatuses
  <2>6. CASE c.delivers /\ Resolve!Set(r, Resolve!ToFallback(c, verdict))
    BY <1>1, <1>4, <2>1, <2>2, <2>6
  <2>7. CASE ~c.delivers /\ Resolve!Set(r, Resolve!ToFallback(x, "Solved"))
    BY <1>4, <2>1, <2>4, <2>5, <2>7
  <2> QED BY <2>1, <2>6, <2>7
<1> QED BY <1>3, <1>5

\* The cache gets a policy that this call has delivered, under the request it is for.
LEMMA StoreStep ==
  ASSUME ResolverInvariant, NEW r \in Resolvers, Resolve!Store(r)
  PROVE  ResolverInvariant'
PROOF
<1> DEFINE c == call[r]
           d == [c EXCEPT !.pc = "done"]
<1>1. /\ c.pc = "store" /\ UNCHANGED <<late, delivered, calls>>
      /\ entry' = [key |-> c.request, policy |-> c.policy] /\ call' = [call EXCEPT ![r] = d]
      /\ c \in CallFields /\ CallGood(c, late[r], delivered, calls) /\ c # IdleCall
      /\ delivered \subseteq Policies
  BY ActiveCall DEF Resolve!Store, Resolve!At, Resolve!Set, ResolverInvariant
<1>2. /\ c.provenance = "RuntimeSearch" /\ Searched(c, delivered) /\ c.request \in Requests
      /\ c.batches > 0 => c.snapshot = Resolve!Policy("search", c.request, c.id, c.batches)
  BY <1>1 DEF CallGood, CallFields
<1>3. /\ d \in CallFields /\ d.pc = "done" /\ d.id = c.id /\ d.request = c.request
      /\ d.delivers = c.delivers /\ d.status = c.status /\ d.provenance = c.provenance
      /\ d.outcome = c.outcome /\ d.policy = c.policy /\ d.batches = c.batches
      /\ d.snapshot = c.snapshot /\ d.expired = c.expired
  BY <1>1 DEF CallFields
<1> HIDE DEF d
<1>4. Searched(d, delivered)
  BY <1>2, <1>3 DEF Searched
<1>5. CallGood(d, late[r], delivered, calls)
  BY <1>1, <1>2, <1>3, <1>4 DEF CallGood
<1>6. c.policy \in delivered /\ c.policy \in Policies /\ c.policy.request = c.request
  BY <1>1, <1>2 DEF Searched, Resolve!Policy
<1>7. /\ entry' \in [key : Requests, policy : Policies]
      /\ entry'.policy \in delivered /\ entry'.policy.request = entry'.key
  BY <1>1, <1>2, <1>6
<1>8. d # IdleCall
  BY <1>3 DEF IdleCall
<1>9. /\ delivered \subseteq delivered'
      /\ \A p \in delivered' \ delivered : p \in Policies /\ p.id = d.id
      /\ CallGood(d, late[r], delivered', calls)
  BY <1>1, <1>5
<1> QED BY <1>1, <1>3, <1>7, <1>8, <1>9, OneCall

\* What the cache finds for a request was delivered for the same request.
LEMMA FallbackCallStep ==
  ASSUME Resolve!RequestsKeyed, ResolverInvariant, NEW r \in Resolvers, Resolve!Fallback(r)
  PROVE  ResolverInvariant'
PROOF
<1> DEFINE c == call[r]
<1>1. /\ c.pc = "fallback" /\ UNCHANGED <<entry, late, delivered, calls>>
      /\ c \in CallFields /\ CallGood(c, late[r], delivered, calls) /\ c # IdleCall
  BY ActiveCall DEF Resolve!Fallback, Resolve!At
<1>2. /\ c.status \in FallbackStatuses /\ (c.status = "Solved" => ~c.delivers)
      /\ c.status = "DeadlineFallback" => late[r]
      /\ c.batches > 0 => c.snapshot = Resolve!Policy("search", c.request, c.id, c.batches)
      /\ c.request \in Requests /\ c.id \in 1 .. calls
      /\ \A p \in delivered : p.id # c.id
  BY <1>1 DEF CallGood, CallFields
<1>3. ASSUME NEW policy \in Policies, NEW provenance \in Fallbacks, policy.request = c.request,
             policy.from = "search" => policy \in delivered,
             Resolve!Set(r, [c EXCEPT !.pc = "done", !.policy = policy, !.provenance = provenance])
      PROVE  ResolverInvariant'
  <2> DEFINE d == [c EXCEPT !.pc = "done", !.policy = policy, !.provenance = provenance]
  <2>1. d \in CallFields
    BY <1>1, <1>3 DEF CallFields
  <2>2. /\ d.pc = "done" /\ d.id = c.id /\ d.request = c.request /\ d.delivers = c.delivers
        /\ d.status = c.status /\ d.provenance = provenance /\ d.policy = policy
        /\ d.batches = c.batches /\ d.snapshot = c.snapshot
    BY <1>1 DEF CallFields
  <2>3. Resolve!Set(r, d)
    BY <1>3
  <2> HIDE DEF d
  <2>4. FellBack(d, delivered)
    BY <1>2, <1>3, <2>2 DEF FellBack
  <2>5. CallGood(d, late[r], delivered, calls)
    BY <1>2, <1>3, <2>1, <2>2, <2>4 DEF CallGood
  <2>6. d # IdleCall
    BY <2>2 DEF IdleCall
  <2> QED BY <1>1, <2>2, <2>3, <2>5, <2>6, StepOfCall
<1>4. CASE Resolve!Find(c.request) /\ Resolve!Set(r, [c EXCEPT !.pc = "done", !.policy = entry.policy,
                                                             !.provenance = "StableRootFallback"])
  <2>1. /\ entry \in [key : Requests, policy : Policies]
        /\ entry.policy \in delivered /\ entry.policy.request = entry.key
    BY <1>4 DEF ResolverInvariant, Resolve!Find
  <2>2. entry.key = c.request
    BY <1>2, <1>4, <2>1 DEF Resolve!Find, Resolve!RequestsKeyed
  <2>3. entry.policy \in Policies /\ "StableRootFallback" \in Fallbacks
    BY <2>1 DEF Fallbacks
  <2> QED BY <1>3, <1>4, <2>1, <2>2, <2>3
<1>5. ASSUME NEW from \in {"blueprint", "static"}, NEW provenance \in Fallbacks,
             Resolve!Set(r, [c EXCEPT !.pc = "done", !.policy = Resolve!Policy(from, c.request, 0, 0),
                                      !.provenance = provenance])
      PROVE  ResolverInvariant'
  <2>1. LET policy == Resolve!Policy(from, c.request, 0, 0) IN
        policy \in Policies /\ policy.request = c.request /\ policy.from # "search"
    BY <1>2 DEF Resolve!Policy, Policies
  <2> QED BY <1>3, <1>5, <2>1
<1>6. "BlueprintFallback" \in Fallbacks /\ "StaticLegalFallback" \in Fallbacks
  BY DEF Fallbacks
<1>7. \/ Resolve!Find(c.request) /\ Resolve!Set(r, [c EXCEPT !.pc = "done", !.policy = entry.policy,
                                                             !.provenance = "StableRootFallback"])
      \/ Resolve!Set(r, [c EXCEPT !.pc = "done", !.policy = Resolve!Policy("blueprint", c.request, 0, 0),
                                  !.provenance = "BlueprintFallback"])
      \/ Resolve!Set(r, [c EXCEPT !.pc = "done", !.policy = Resolve!Policy("static", c.request, 0, 0),
                                  !.provenance = "StaticLegalFallback"])
  BY DEF Resolve!Fallback
<1> QED BY <1>4, <1>5, <1>6, <1>7

LEMMA ReturnStep ==
  ASSUME ResolverInvariant, NEW r \in Resolvers, Resolve!Return(r)
  PROVE  ResolverInvariant'
PROOF
<1>1. call' = [call EXCEPT ![r] = IdleCall] /\ UNCHANGED <<entry, late, delivered, calls>>
  BY DEF Resolve!Return, Resolve!Set, IdleCall
<1>2. /\ call = [s \in Resolvers |-> call[s]]
      /\ \A s \in Resolvers : call[s] = IdleCall \/ CallGood(call[s], late[s], delivered, calls)
      /\ \A s, t \in Resolvers :
           call[s] # IdleCall /\ call[t] # IdleCall /\ call[s].id = call[t].id => s = t
  BY DEF ResolverInvariant
<1>3. /\ call' = [s \in Resolvers |-> call'[s]] /\ DOMAIN call' = Resolvers
      /\ call'[r] = IdleCall /\ \A s \in Resolvers \ {r} : call'[s] = call[s]
  BY <1>1, <1>2
<1>4. \A s \in Resolvers : call'[s] = IdleCall \/ CallGood(call'[s], late'[s], delivered', calls')
  BY <1>1, <1>2, <1>3
<1>5. \A s, t \in Resolvers :
        call'[s] # IdleCall /\ call'[t] # IdleCall /\ call'[s].id = call'[t].id => s = t
  BY <1>2, <1>3
<1>6. /\ delivered' \subseteq Policies /\ \A p \in delivered' : p.id \in 1 .. calls'
      /\ calls' \in Nat /\ late' \in [Resolvers -> BOOLEAN]
  BY <1>1 DEF ResolverInvariant
<1>7. \/ entry' = Resolve!NoEntry
      \/ /\ entry' \in [key : Requests, policy : Policies]
         /\ entry'.policy \in delivered' /\ entry'.policy.request = entry'.key
  BY <1>1 DEF ResolverInvariant
<1> QED BY <1>3, <1>4, <1>5, <1>6, <1>7 DEF ResolverInvariant

LEMMA ResolverStep ==
  ASSUME Resolve!RequestsKeyed, ResolverInvariant, [Resolve!ResolverNext]_Resolve!vars
  PROVE  ResolverInvariant'
PROOF
<1>1. CASE UNCHANGED Resolve!vars
  BY <1>1 DEF Resolve!vars, ResolverInvariant
<1>2. CASE Resolve!ResolverNext
  BY <1>2, BeginCallStep, TickStep, AdmitStep, SearchStep, ConcludeStep, StoreStep, FallbackCallStep,
     ReturnStep DEF Resolve!ResolverNext
<1> QED BY <1>1, <1>2

\* The invariant of the resolver holds whatever its threads do.
THEOREM ResolverInvariance ==
  ASSUME Resolve!RequestsKeyed PROVE Resolve!ResolverSpec => []ResolverInvariant
PROOF
<1>1. Resolve!ResolverInit => ResolverInvariant
  <2> SUFFICES ASSUME Resolve!ResolverInit PROVE ResolverInvariant
    OBVIOUS
  <2>1. /\ entry = Resolve!NoEntry /\ call = [r \in Resolvers |-> IdleCall]
        /\ late = [r \in Resolvers |-> FALSE] /\ delivered = {} /\ calls = 0
    BY DEF Resolve!ResolverInit, IdleCall
  <2> QED BY <2>1 DEF ResolverInvariant
<1>2. ResolverInvariant /\ [Resolve!ResolverNext]_Resolve!vars => ResolverInvariant'
  BY ResolverStep
<1> QED BY <1>1, <1>2, PTL DEF Resolve!ResolverSpec

\* resolve on any number of threads: the stable root cache holds only policies that were delivered,
\* for the request they are kept under, and every answer is what its status and its provenance
\* say: solved by its own search in as many clean batches as it reports, or a fallback.
THEOREM ResolverCorrect ==
  ASSUME Resolve!RequestsKeyed PROVE Resolve!ResolverSpec => []Resolve!ResolverSound
PROOF
<1>1. ResolverInvariant => Resolve!ResolverSound
  <2> SUFFICES ASSUME ResolverInvariant PROVE Resolve!ResolverSound
    OBVIOUS
  <2>1. Resolve!CacheIsDelivered
    BY DEF Resolve!CacheIsDelivered, ResolverInvariant
  <2>2. ASSUME NEW r \in Resolvers, call[r].pc = "done"
        PROVE  /\ Resolve!AnswerSound(call[r])
               /\ call[r].outcome \notin {"None", "Completed"} => call[r].provenance # "RuntimeSearch"
               /\ call[r].status = "DeadlineFallback" => late[r]
    <3> DEFINE c == call[r]
    <3>1. CallGood(c, late[r], delivered, calls) /\ delivered \subseteq Policies
      BY <2>2, ActiveCall DEF ResolverInvariant
    <3>2. /\ c.batches > 0 => c.snapshot = Resolve!Policy("search", c.request, c.id, c.batches)
          /\ c.status = "DeadlineFallback" => late[r]
          /\ \/ c.provenance = "RuntimeSearch" /\ Searched(c, delivered)
             \/ c.provenance \in Fallbacks /\ FellBack(c, delivered)
             \/ /\ c.provenance = "None" /\ c.status = "InvalidRequest"
                /\ c.policy = Resolve!NoPolicy
          /\ \A p \in delivered : p.id = c.id => c.delivers
      BY <2>2, <3>1 DEF CallGood
    <3>3. \A p \in Policies : p # Resolve!NoPolicy
      BY DEF Policies, Resolve!NoPolicy
    <3> HIDE DEF c
    <3>4. CASE c.provenance = "RuntimeSearch" /\ Searched(c, delivered)
      <4>1. /\ c.policy # Resolve!NoPolicy /\ c.status # "InvalidRequest" /\ c.delivers
            /\ c.outcome = "Completed" /\ c.batches > 0
            /\ c.status = IF c.expired THEN "Partial" ELSE "Solved"
        BY <3>1, <3>3, <3>4 DEF Searched
      <4>2. c.policy.request = c.request /\ c.policy.id = c.id /\ c.policy.batch = c.batches
        BY <3>2, <3>4 DEF Searched, Resolve!Policy
      <4> QED BY <3>2, <3>4, <4>1, <4>2 DEF Resolve!AnswerSound, c
    <3>5. CASE c.provenance \in Fallbacks /\ FellBack(c, delivered)
      <4>1. /\ c.policy # Resolve!NoPolicy /\ c.policy.request = c.request
            /\ c.status # "InvalidRequest" /\ c.status # "Partial"
            /\ c.status = "Solved" => ~c.delivers
            /\ c.policy.from = "search" => c.policy \in delivered
            /\ c.provenance # "RuntimeSearch"
        BY <3>3, <3>5 DEF FellBack, FallbackStatuses, Fallbacks
      <4> QED BY <3>2, <3>5, <4>1 DEF Resolve!AnswerSound, c
    <3>6. CASE /\ c.provenance = "None" /\ c.status = "InvalidRequest"
               /\ c.policy = Resolve!NoPolicy
      BY <3>2, <3>6 DEF Resolve!AnswerSound, c
    <3> QED BY <3>2, <3>4, <3>5, <3>6 DEF c
  <2> QED BY <2>1, <2>2 DEF Resolve!ResolverSound
<1> QED BY <1>1, ResolverInvariance, PTL

-----------------------------------------------------------------------------
(***************************************************************************)
(* The decision session.                                                   *)
(***************************************************************************)
Rows == [legal : SUBSET Session!Combos, support : SUBSET Session!Combos]
Rounds == [revision : Nat, board : Boards, menu : Session!Menus, rows : BOOLEAN, version : Nat, id : Nat]
Frozen == [seat : Seats, hand : Session!Combos, revision : Nat, menu : Session!Menus, round : Nat]

\* What is frozen was frozen on the present round, and the snapshot is its last one.
FreezeOfRound ==
  \/ freeze = Session!None
  \/ freeze \in Frozen /\ freeze.round = round.id /\ freeze.menu = round.menu
SnapshotIsLast ==
  snapshot = Session!None \/ snapshot = [revision |-> round.revision, version |-> round.version]
SessionInvariant ==
  /\ root_revision \in Nat /\ round \in Rounds /\ beliefs \in [Seats -> Rows]
  /\ Session!BeliefsSound /\ Session!RevisionsFresh /\ FreezeOfRound /\ SnapshotIsLast

\* The rows a root makes: no combo that its board blocks, and no weight outside them.
LEMMA RowOfBoard ==
  ASSUME NEW entries \in SUBSET Session!Combos, NEW b
  PROVE  LET row == Session!SuppliedRow(entries, b) IN
         /\ row \in Rows /\ row.support \subseteq row.legal /\ row.support = entries \cap row.legal
         /\ \A hand \in row.legal : hand \cap b = {}
PROOF
  BY DEF Session!SuppliedRow, Session!Unblocked, Rows

LEMMA NewRoundFields ==
  ASSUME NEW revision \in Nat, NEW b \in Boards, NEW menu \in Session!Menus, NEW id \in Nat
  PROVE  LET new == Session!NewRound(revision, b, menu, id) IN
         /\ new \in Rounds /\ new.revision = revision /\ new.board = b /\ new.id = id
PROOF
  BY DEF Session!NewRound, Rounds

LEMMA SessionStart == ASSUME Session!SessionInit PROVE SessionInvariant
PROOF
<1>1. PICK b \in Boards, entries \in {Session!Combos, {hand \in Session!Combos : 1 \in hand}} :
        /\ root_revision = 1 /\ round = Session!NewRound(1, b, "menu", 1)
        /\ beliefs = [seat \in Seats |-> IF seat = 1 THEN Session!SuppliedRow(entries, b)
                                         ELSE Session!UniformRow(b)]
        /\ \A seat \in Seats : Session!HasMass(beliefs[seat])
        /\ freeze = Session!None /\ snapshot = Session!None
  BY DEF Session!SessionInit
<1>2. round \in Rounds /\ round.revision = 1 /\ round.board = b /\ round.id = 1
  <2>1. "menu" \in Session!Menus /\ 1 \in Nat
    BY DEF Session!Menus
  <2> QED BY <1>1, <2>1, NewRoundFields
<1>3. ASSUME NEW seat \in Seats
      PROVE  /\ beliefs[seat] \in Rows /\ beliefs[seat].support \subseteq beliefs[seat].legal
             /\ \A hand \in beliefs[seat].legal : hand \cap b = {}
  <2>1. entries \in SUBSET Session!Combos /\ Session!Combos \in SUBSET Session!Combos
    OBVIOUS
  <2>2. \/ beliefs[seat] = Session!SuppliedRow(entries, b)
        \/ beliefs[seat] = Session!SuppliedRow(Session!Combos, b)
    BY <1>1 DEF Session!UniformRow
  <2> QED BY <2>1, <2>2, RowOfBoard
<1>4. Session!BeliefsSound
  BY <1>1, <1>2, <1>3 DEF Session!BeliefsSound, Session!HasMass
<1>5. Session!RevisionsFresh
  BY <1>1, <1>2 DEF Session!RevisionsFresh
<1>6. beliefs \in [Seats -> Rows]
  BY <1>1, <1>3
<1> QED BY <1>1, <1>2, <1>4, <1>5, <1>6 DEF SessionInvariant, FreezeOfRound, SnapshotIsLast

LEMMA ObserveStep ==
  ASSUME SessionInvariant, NEW seat \in Seats, NEW observation \in Observations,
         Session!Observe(seat, observation)
  PROVE  SessionInvariant' /\ Session!BeliefStep
PROOF
<1> DEFINE row == Session!Posterior(beliefs[seat], observation)
<1>1. /\ root_revision \in Nat /\ round \in Rounds /\ beliefs \in [Seats -> Rows]
      /\ \A s \in Seats : /\ beliefs[s].support # {} /\ beliefs[s].support \subseteq beliefs[s].legal
                          /\ \A hand \in beliefs[s].legal : hand \cap round.board = {}
  BY DEF SessionInvariant, Session!BeliefsSound
<1>2. /\ row.support # {} /\ beliefs' = [beliefs EXCEPT ![seat] = row]
      /\ UNCHANGED <<root_revision, round, freeze, snapshot>>
  BY DEF Session!Observe, Session!HasMass
<1>3. /\ row \in Rows /\ row.support \subseteq row.legal
      /\ row.support \subseteq beliefs[seat].support /\ row.legal \subseteq beliefs[seat].legal
  <2>1. beliefs[seat] \in Rows
    BY <1>1
  <2> QED BY <1>1, <2>1 DEF Session!Posterior, Rows
<1> HIDE DEF row
<1>4. beliefs' \in [Seats -> Rows] /\ \A s \in Seats : beliefs'[s] = IF s = seat THEN row ELSE beliefs[s]
  BY <1>1, <1>2, <1>3
<1>5. Session!BeliefsSound'
  BY <1>1, <1>2, <1>3, <1>4 DEF Session!BeliefsSound
<1>6. Session!BeliefStep
  BY <1>3, <1>4 DEF Session!BeliefStep
<1> QED BY <1>1, <1>2, <1>4, <1>5, <1>6
        DEF SessionInvariant, FreezeOfRound, SnapshotIsLast, Session!RevisionsFresh

\* The steps that leave the beliefs alone.
LEMMA BeliefsStay ==
  ASSUME SessionInvariant, UNCHANGED beliefs, round' \in Rounds, round'.board = round.board
  PROVE  /\ (beliefs \in [Seats -> Rows])' /\ Session!BeliefsSound' /\ Session!BeliefStep
PROOF
  BY DEF SessionInvariant, Session!BeliefsSound, Session!BeliefStep

LEMMA MergeStep ==
  ASSUME SessionInvariant, NEW clean \in BOOLEAN, NEW merged \in BOOLEAN,
         Session!MergeBatch(clean, merged)
  PROVE  SessionInvariant' /\ Session!BeliefStep
PROOF
<1>1. root_revision \in Nat /\ round \in Rounds /\ Session!RevisionsFresh /\ FreezeOfRound /\ SnapshotIsLast
  BY DEF SessionInvariant
<1>2. /\ round' = IF clean /\ merged THEN [round EXCEPT !.rows = TRUE, !.version = @ + 1] ELSE round
      /\ snapshot' = IF clean /\ merged /\ round'.rows
                     THEN [revision |-> round.revision, version |-> round'.version] ELSE snapshot
      /\ UNCHANGED <<root_revision, beliefs, freeze>>
  BY DEF Session!MergeBatch
<1>3. /\ round' \in Rounds /\ round'.board = round.board /\ round'.id = round.id
      /\ round'.menu = round.menu /\ round'.revision = round.revision
      /\ clean /\ merged => round'.rows
      /\ ~(clean /\ merged) => round' = round
  <2>1. CASE clean /\ merged
    <3>1. round' = [round EXCEPT !.rows = TRUE, !.version = round.version + 1]
      BY <1>2, <2>1
    <3>2. round.version + 1 \in Nat
      BY <1>1 DEF Rounds
    <3>3. round' \in Rounds
      BY <1>1, <3>1, <3>2 DEF Rounds
    <3>4. /\ round'.board = round.board /\ round'.id = round.id /\ round'.menu = round.menu
          /\ round'.revision = round.revision /\ round'.rows = TRUE
      BY <1>1, <3>1 DEF Rounds
    <3> QED BY <2>1, <3>3, <3>4
  <2>2. CASE ~(clean /\ merged)
    BY <1>1, <1>2, <2>2
  <2> QED BY <2>1, <2>2
<1>4. SnapshotIsLast'
  BY <1>1, <1>2, <1>3 DEF SnapshotIsLast
<1>5. FreezeOfRound' /\ Session!RevisionsFresh'
  BY <1>1, <1>2, <1>3 DEF FreezeOfRound, Session!RevisionsFresh
<1> QED BY <1>1, <1>2, <1>3, <1>4, <1>5, BeliefsStay DEF SessionInvariant

LEMMA FreezeStep ==
  ASSUME SessionInvariant,
         Session!ClearFreeze \/ \E seat \in Seats, hand \in Session!Combos : Session!Freeze(seat, hand)
  PROVE  SessionInvariant' /\ Session!BeliefStep
PROOF
<1>1. /\ root_revision \in Nat /\ round \in Rounds
      /\ Session!RevisionsFresh /\ FreezeOfRound /\ SnapshotIsLast
  BY DEF SessionInvariant
<1>2. UNCHANGED <<root_revision, round, beliefs, snapshot>>
  BY DEF Session!ClearFreeze, Session!Freeze
<1>3. FreezeOfRound'
  <2>1. CASE Session!ClearFreeze
    BY <2>1 DEF Session!ClearFreeze, FreezeOfRound
  <2>2. ASSUME NEW seat \in Seats, NEW hand \in Session!Combos, Session!Freeze(seat, hand)
        PROVE  FreezeOfRound'
    <3>1. freeze' = [seat |-> seat, hand |-> hand, revision |-> round.revision,
                     menu |-> round.menu, round |-> round.id]
      BY <2>2 DEF Session!Freeze
    <3>2. round.revision \in Nat /\ round.menu \in Session!Menus /\ round.id \in Nat
      BY <1>1 DEF Rounds
    <3> QED BY <1>2, <3>1, <3>2 DEF FreezeOfRound, Frozen
  <2> QED BY <2>1, <2>2
<1>4. SnapshotIsLast' /\ Session!RevisionsFresh'
  BY <1>1, <1>2 DEF SnapshotIsLast, Session!RevisionsFresh
<1> QED BY <1>1, <1>2, <1>3, <1>4, BeliefsStay DEF SessionInvariant

\* A refused root changes the revision alone; an accepted one makes every row anew.
LEMMA RerootStep ==
  ASSUME SessionInvariant, NEW b \in Boards, NEW menu \in Session!Menus,
         NEW street_transition \in BOOLEAN, NEW constructed \in BOOLEAN,
         Session!Reroot(b, menu, street_transition, constructed)
  PROVE  SessionInvariant' /\ Session!BeliefStep
PROOF
<1>1. /\ root_revision \in Nat /\ round \in Rounds /\ beliefs \in [Seats -> Rows]
      /\ Session!RevisionsFresh /\ FreezeOfRound /\ SnapshotIsLast
  BY DEF SessionInvariant
<1>2. /\ root_revision' = root_revision + 1
      /\ \A seat \in Seats : Session!NextRange(seat, b) # {}
  BY DEF Session!Reroot, Session!RerootAccepted
<1>3. CASE ~constructed
  <2>1. UNCHANGED <<round, beliefs, freeze, snapshot>>
    BY <1>3 DEF Session!Reroot
  <2>2. Session!RevisionsFresh'
    BY <1>1, <1>2, <2>1 DEF Session!RevisionsFresh, Rounds
  <2>3. root_revision' \in Nat
    BY <1>1, <1>2
  <2> QED BY <1>1, <2>1, <2>2, <2>3, BeliefsStay DEF SessionInvariant, FreezeOfRound, SnapshotIsLast
<1>4. CASE constructed
  <2>1. /\ round' = Session!NewRound(root_revision + 1, b, menu, round.id + 1)
        /\ beliefs' = [seat \in Seats |-> Session!SuppliedRow(Session!NextRange(seat, b), b)]
        /\ freeze' = Session!None /\ snapshot' = Session!None
    BY <1>4 DEF Session!Reroot
  <2>2. /\ root_revision + 1 \in Nat /\ round.id \in Nat /\ round.id + 1 \in Nat
        /\ round.revision \in Nat /\ round.revision <= root_revision /\ round.revision >= round.id
    BY <1>1 DEF Rounds, Session!RevisionsFresh
  <2>3. /\ round' \in Rounds /\ round'.revision = root_revision + 1 /\ round'.board = b
        /\ round'.id = round.id + 1
    BY <2>1, <2>2, NewRoundFields
  <2>4. ASSUME NEW seat \in Seats
        PROVE  /\ beliefs'[seat] \in Rows /\ beliefs'[seat].support # {}
               /\ beliefs'[seat].support \subseteq beliefs'[seat].legal
               /\ beliefs'[seat].support \subseteq beliefs[seat].support
               /\ \A hand \in beliefs'[seat].legal : hand \cap b = {}
    <3> DEFINE kept == Session!NextRange(seat, b)
    <3>1. beliefs[seat] \in Rows
      BY <1>1
    <3>2. /\ kept \in SUBSET Session!Combos /\ kept # {} /\ kept \subseteq beliefs[seat].support
          /\ kept \subseteq Session!Unblocked(b)
      BY <1>2, <3>1 DEF Session!NextRange, Rows
    <3>3. beliefs'[seat] = Session!SuppliedRow(kept, b)
      BY <2>1
    <3> HIDE DEF kept
    <3>4. beliefs'[seat].support = kept
      BY <3>2, <3>3 DEF Session!SuppliedRow
    <3> QED BY <3>2, <3>3, <3>4, RowOfBoard
  <2>5. beliefs' \in [Seats -> Rows]
    BY <2>1, <2>4
  <2>6. Session!BeliefsSound' /\ Session!BeliefStep
    BY <2>3, <2>4 DEF Session!BeliefsSound, Session!BeliefStep
  <2>7. Session!RevisionsFresh'
    BY <1>1, <1>2, <2>2, <2>3 DEF Session!RevisionsFresh
  <2> QED BY <1>2, <2>1, <2>2, <2>3, <2>5, <2>6, <2>7
          DEF SessionInvariant, FreezeOfRound, SnapshotIsLast
<1> QED BY <1>3, <1>4

LEMMA SessionStep ==
  ASSUME SessionInvariant, [Session!SessionNext]_Session!vars
  PROVE  SessionInvariant' /\ [Session!BeliefStep]_Session!vars
PROOF
<1>1. CASE UNCHANGED Session!vars
  BY <1>1 DEF Session!vars, SessionInvariant, FreezeOfRound, SnapshotIsLast,
              Session!BeliefsSound, Session!RevisionsFresh
<1>2. CASE Session!SessionNext
  BY <1>2, ObserveStep, MergeStep, FreezeStep, RerootStep DEF Session!SessionNext
<1> QED BY <1>1, <1>2

\* The invariant of the decision session holds whatever is observed, merged, frozen and rerooted.
THEOREM SessionInvariance == Session!SessionSpec => []SessionInvariant
PROOF
<1>1. Session!SessionInit => SessionInvariant
  BY SessionStart
<1>2. SessionInvariant /\ [Session!SessionNext]_Session!vars => SessionInvariant'
  BY SessionStep
<1> QED BY <1>1, <1>2, PTL DEF Session!SessionSpec

\* MultiwayDecisionSession: beliefs stay on unblocked combos with mass, a snapshot and a frozen
\* answer are of the round that made them, and every round took a revision of its own.
THEOREM SessionCorrect == Session!SessionSpec => []Session!SessionSound
PROOF
<1>1. SessionInvariant => Session!SessionSound
  <2> SUFFICES ASSUME SessionInvariant PROVE Session!SessionSound
    OBVIOUS
  <2>1. Session!BeliefsSound /\ Session!RevisionsFresh /\ FreezeOfRound /\ SnapshotIsLast
    BY DEF SessionInvariant
  <2>2. Session!SnapshotOfRound
    BY <2>1 DEF Session!SnapshotOfRound, SnapshotIsLast
  <2>3. Session!FrozenOnItsRoot
    <3> SUFFICES ASSUME NEW seat \in Seats, NEW hand \in beliefs[seat].support
                 PROVE  LET answer == Session!HeroPolicy(seat, hand) IN
                        /\ hand \in answer.rows
                        /\ answer.frozen => freeze.round = round.id /\ answer.menu = round.menu
      BY DEF Session!FrozenOnItsRoot
    <3>1. hand \in beliefs[seat].support \cap beliefs[seat].legal
      BY <2>1 DEF Session!BeliefsSound
    <3> QED BY <2>1, <3>1 DEF Session!HeroPolicy, FreezeOfRound
  <2> QED BY <2>1, <2>2, <2>3 DEF Session!SessionSound
<1> QED BY <1>1, SessionInvariance, PTL

\* No step of a decision session, a reroot included, gives a combo its weight back.
THEOREM BeliefsOnlyShrink == Session!SessionSpec => [][Session!BeliefStep]_Session!vars
PROOF
<1>1. SessionInvariant /\ [Session!SessionNext]_Session!vars => [Session!BeliefStep]_Session!vars
  BY SessionStep
<1> QED BY <1>1, SessionInvariance, PTL DEF Session!SessionSpec

-----------------------------------------------------------------------------
(***************************************************************************)
(* The full-hand session.  Replay is a recursive function of the history;   *)
(* what it is worth on a longer one needs induction, which is had from a    *)
(* least counterexample.                                                   *)
(***************************************************************************)
\* A set of naturals has a least element.
LEMMA LeastOf ==
  ASSUME NEW T, T \subseteq Nat, T # {}
  PROVE  \E x \in T : \A y \in T : x <= y
PROOF
<1> DEFINE R == {ss \in Nat \X Nat : ss[1] < ss[2]}
<1>1. IsWellFoundedOn(R, Nat)
  BY NatLessThanWellFounded DEF OpToRel
<1>2. \A x, y \in Nat : y < x => <<y, x>> \in R
  OBVIOUS
<1> HIDE DEF R
<1>3. PICK x \in T : \A y \in T : ~ (<<y, x>> \in R)
  BY <1>1, WFMin, Zenon
<1>4. ASSUME NEW y \in T PROVE x <= y
  <2>1. x \in Nat /\ y \in Nat
    OBVIOUS
  <2>2. ~ (y < x)
    BY <1>2, <1>3, <2>1, Zenon
  <2> QED BY <2>1, <2>2
<1> QED BY <1>4

\* The states a history passes through, the first n of its events applied.
Passes(f, history, n) ==
  f = [k \in 0 .. n |-> IF k = 0 THEN FullHand!InitialTable
                        ELSE FullHand!Apply(f[k - 1], history[k])]

LEMMA PassesExtends ==
  ASSUME NEW history, NEW n \in Nat, NEW f, Passes(f, history, n), NEW longer, NEW event,
         \A k \in 1 .. n : longer[k] = history[k], longer[n + 1] = event
  PROVE  \E g : Passes(g, longer, n + 1) /\ g[n + 1] = FullHand!Apply(f[n], event)
PROOF
<1> DEFINE g == [k \in 0 .. n + 1 |-> IF k = n + 1 THEN FullHand!Apply(f[n], event) ELSE f[k]]
           e(k) == IF k = 0 THEN FullHand!InitialTable ELSE FullHand!Apply(g[k - 1], longer[k])
<1>1. g[n + 1] = FullHand!Apply(f[n], event) /\ \A k \in 0 .. n : g[k] = f[k]
  OBVIOUS
<1>2. \A k \in 0 .. n : f[k] = IF k = 0 THEN FullHand!InitialTable
                               ELSE FullHand!Apply(f[k - 1], history[k])
  <2>1. f = [k \in 0 .. n |-> IF k = 0 THEN FullHand!InitialTable
                              ELSE FullHand!Apply(f[k - 1], history[k])]
    BY Zenon DEF Passes
  <2> QED BY <2>1, Zenon
<1>3. ASSUME NEW k \in 0 .. n + 1 PROVE g[k] = e(k)
  <2>1. CASE k = 0
    BY <1>1, <1>2, <2>1
  <2>2. CASE k \in 1 .. n
    <3>1. k \in 0 .. n /\ k - 1 \in 0 .. n /\ k # 0
      BY <2>2
    <3>2. g[k] = f[k] /\ g[k - 1] = f[k - 1] /\ longer[k] = history[k]
      BY <1>1, <2>2, <3>1
    <3>3. f[k] = FullHand!Apply(f[k - 1], history[k])
      BY <1>2, <3>1
    <3> QED BY <3>1, <3>2, <3>3
  <2>3. CASE k = n + 1
    <3>1. k - 1 = n /\ n \in 0 .. n /\ k # 0
      BY <2>3
    <3>2. g[k] = FullHand!Apply(f[n], event) /\ g[k - 1] = f[n] /\ longer[k] = event
      BY <1>1, <2>3, <3>1
    <3> QED BY <3>1, <3>2
  <2> QED BY <2>1, <2>2, <2>3
<1>4. g = [k \in 0 .. n + 1 |-> g[k]]
  OBVIOUS
<1> HIDE DEF g
<1>5. g = [k \in 0 .. n + 1 |-> e(k)]
  BY <1>3, <1>4
<1>6. Passes(g, longer, n + 1)
  BY <1>5, Zenon DEF Passes
<1> QED BY <1>1, <1>6

LEMMA PassesExists ==
  ASSUME NEW history, NEW n \in Nat
  PROVE  \E f : Passes(f, history, n)
PROOF
<1> DEFINE Missing == {k \in Nat : ~ \E f : Passes(f, history, k)}
<1>1. CASE Missing = {}
  BY <1>1
<1>2. CASE Missing # {}
  <2>1. PICK least \in Missing : \A y \in Missing : least <= y
    <3>1. Missing \subseteq Nat
      OBVIOUS
    <3> HIDE DEF Missing
    <3> QED BY <1>2, <3>1, LeastOf
  <2>2. least \in Nat /\ ~ \E f : Passes(f, history, least)
    OBVIOUS
  <2>3. CASE least = 0
    <3> DEFINE f == [k \in 0 .. 0 |-> FullHand!InitialTable]
    <3>1. f = [k \in 0 .. 0 |-> IF k = 0 THEN FullHand!InitialTable
                               ELSE FullHand!Apply(f[k - 1], history[k])]
      OBVIOUS
    <3> HIDE DEF f
    <3>2. Passes(f, history, least)
      BY <2>3, <3>1, Zenon DEF Passes
    <3> QED BY <2>2, <3>2
  <2>4. CASE least # 0
    <3>1. least - 1 \in Nat /\ least - 1 \notin Missing /\ (least - 1) + 1 = least
      BY <2>1, <2>2, <2>4
    <3>2. PICK f : Passes(f, history, least - 1)
      BY <3>1
    <3> HIDE DEF Missing
    <3>3. \E g : Passes(g, history, (least - 1) + 1)
      BY <3>1, <3>2, PassesExtends
    <3> QED BY <2>2, <3>1, <3>3
  <2> QED BY <2>3, <2>4
<1> QED BY <1>1, <1>2

LEMMA PassesOnce ==
  ASSUME NEW history, NEW n \in Nat, NEW f, NEW g,
         Passes(f, history, n), Passes(g, history, n)
  PROVE  f = g
PROOF
<1>1. /\ f = [k \in 0 .. n |-> IF k = 0 THEN FullHand!InitialTable
                               ELSE FullHand!Apply(f[k - 1], history[k])]
      /\ g = [k \in 0 .. n |-> IF k = 0 THEN FullHand!InitialTable
                               ELSE FullHand!Apply(g[k - 1], history[k])]
  BY Zenon DEF Passes
<1>2. /\ \A k \in 0 .. n : f[k] = IF k = 0 THEN FullHand!InitialTable
                                  ELSE FullHand!Apply(f[k - 1], history[k])
      /\ \A k \in 0 .. n : g[k] = IF k = 0 THEN FullHand!InitialTable
                                  ELSE FullHand!Apply(g[k - 1], history[k])
  BY <1>1, Zenon
<1>3. f = [k \in 0 .. n |-> f[k]] /\ g = [k \in 0 .. n |-> g[k]]
  BY <1>1, Zenon
<1> DEFINE Differ == {k \in 0 .. n : f[k] # g[k]}
<1>4. CASE Differ = {}
  <2>1. \A k \in 0 .. n : f[k] = g[k]
    BY <1>4
  <2> QED BY <1>3, <2>1
<1>5. CASE Differ # {}
  <2>1. PICK least \in Differ : \A y \in Differ : least <= y
    <3>1. Differ \subseteq Nat
      OBVIOUS
    <3> HIDE DEF Differ
    <3> QED BY <1>5, <3>1, LeastOf
  <2>2. least \in 0 .. n /\ f[least] # g[least]
    OBVIOUS
  <2>3. least # 0
    BY <1>2, <2>2
  <2>4. least - 1 \in 0 .. n /\ least - 1 \notin Differ
    BY <2>1, <2>2, <2>3
  <2>5. f[least - 1] = g[least - 1]
    BY <2>4
  <2> QED BY <1>2, <2>2, <2>3, <2>5
<1> QED BY <1>4, <1>5

LEMMA ReplayIsLast ==
  ASSUME NEW history, Len(history) \in Nat, NEW f, Passes(f, history, Len(history))
  PROVE  FullHand!Replay(history) = f[Len(history)]
PROOF
<1> DEFINE n == Len(history)
           chosen == CHOOSE g : Passes(g, history, n)
<1>1. Passes(chosen, history, n)
  BY Zenon
<1>2. chosen = f
  BY <1>1, PassesOnce
<1>3. FullHand!Replay(history) = chosen[n]
  BY Zenon DEF FullHand!Replay, Passes
<1> QED BY <1>2, <1>3

LEMMA ReplayNothing == FullHand!Replay(<<>>) = FullHand!InitialTable
PROOF
<1>1. Len(<<>>) = 0
  OBVIOUS
<1>2. PICK f : Passes(f, <<>>, 0)
  BY PassesExists
<1>3. f[0] = FullHand!InitialTable
  <2>1. f = [k \in 0 .. 0 |-> IF k = 0 THEN FullHand!InitialTable
                              ELSE FullHand!Apply(f[k - 1], <<>>[k])]
    BY <1>2, Zenon DEF Passes
  <2>2. 0 \in 0 .. 0
    OBVIOUS
  <2> QED BY <2>1, <2>2, Zenon
<1>4. FullHand!Replay(<<>>) = f[Len(<<>>)]
  BY <1>1, <1>2, ReplayIsLast
<1> QED BY <1>1, <1>3, <1>4

LEMMA ReplayAppended ==
  ASSUME NEW S, NEW history \in Seq(S), NEW event \in S
  PROVE  FullHand!Replay(Append(history, event)) = FullHand!Apply(FullHand!Replay(history), event)
PROOF
<1> DEFINE n == Len(history)
           longer == Append(history, event)
<1>1. /\ n \in Nat /\ Len(longer) = n + 1 /\ longer[n + 1] = event
      /\ \A k \in 1 .. n : longer[k] = history[k]
  OBVIOUS
<1>2. PICK f : Passes(f, history, n)
  BY <1>1, PassesExists
<1>3. FullHand!Replay(history) = f[n]
  BY <1>1, <1>2, ReplayIsLast
<1> HIDE DEF n, longer
<1>4. PICK g : Passes(g, longer, n + 1) /\ g[n + 1] = FullHand!Apply(f[n], event)
  BY <1>1, <1>2, PassesExtends
<1>5. FullHand!Replay(longer) = g[n + 1]
  BY <1>1, <1>4, ReplayIsLast
<1> QED BY <1>3, <1>4, <1>5 DEF longer

Tables == [street : Nat, pending : SUBSET FullHand!Seats, folded : SUBSET FullHand!Seats]
HandInvariant ==
  /\ table \in Tables /\ ranges \in [FullHand!Seats -> SUBSET FullHand!Combos]
  /\ frozen \in BOOLEAN /\ FullHand!HandSound
  /\ events \in Seq(FullHand!Events) /\ FullHand!HistoryReplays

LEMMA ObserveEventStep ==
  ASSUME HandInvariant, NEW event \in FullHand!Events,
         NEW likely \in {FullHand!None} \cup [combos : Likely], FullHand!Observe(event, likely)
  PROVE  HandInvariant'
PROOF
<1>1. /\ table \in Tables /\ ranges \in [FullHand!Seats -> SUBSET FullHand!Combos]
      /\ \A seat \in FullHand!Seats : ranges[seat] # {}
      /\ table.pending \cap table.folded = {}
  BY DEF HandInvariant, FullHand!HandSound
<1>2. table' = FullHand!Apply(table, event) /\ FullHand!Legal(table, event)
  BY DEF FullHand!Observe
\* The belief of the actor keeps some combo.
<1>3. /\ ranges' \in [FullHand!Seats -> SUBSET FullHand!Combos]
      /\ \A seat \in FullHand!Seats : ranges'[seat] # {}
  <2> DEFINE seen == event.kind = "Decision" /\ likely # FullHand!None
  <2>1. CASE seen
    <3>1. /\ ranges' = [ranges EXCEPT ![event.seat] = ranges[event.seat] \cap likely.combos]
          /\ ranges[event.seat] \cap likely.combos # {}
      BY <2>1 DEF FullHand!Observe
    <3> QED BY <1>1, <3>1
  <2>2. CASE ~seen
    BY <1>1, <2>2 DEF FullHand!Observe
  <2> QED BY <2>1, <2>2
\* The history is longer by the event that was applied.
<1>7. events' \in Seq(FullHand!Events) /\ FullHand!HistoryReplays'
  <2>1. /\ events \in Seq(FullHand!Events) /\ table = FullHand!Replay(events)
        /\ events' = Append(events, event)
    BY DEF HandInvariant, FullHand!HistoryReplays, FullHand!Observe
  <2>2. FullHand!Replay(Append(events, event)) = FullHand!Apply(FullHand!Replay(events), event)
    BY <2>1, ReplayAppended
  <2>3. events' \in Seq(FullHand!Events)
    BY <2>1
  <2> QED BY <1>2, <2>1, <2>2, <2>3 DEF FullHand!HistoryReplays
<1>4. CASE event.kind = "Decision"
  <2> DEFINE out == IF event.action = "Fold" THEN table.folded \cup {event.seat} ELSE table.folded
             waiting == IF FullHand!Cardinality(FullHand!Seats \ out) = 1 THEN {}
                        ELSE table.pending \ {event.seat}
  <2>1. event.seat \in FullHand!Seats
    BY <1>4 DEF FullHand!Events
  <2>2. table' = [table EXCEPT !.folded = out, !.pending = waiting]
    BY <1>2, <1>4 DEF FullHand!Apply
  <2>3. /\ out \in SUBSET FullHand!Seats /\ waiting \in SUBSET FullHand!Seats
        /\ waiting \cap out = {}
    BY <1>1, <2>1 DEF Tables
  <2> HIDE DEF out, waiting
  <2>4. table' \in Tables
    BY <1>1, <2>2, <2>3 DEF Tables
  <2>5. table'.street = table.street /\ table'.pending = waiting /\ table'.folded = out
    BY <1>1, <2>2 DEF Tables
  <2>6. UNCHANGED <<board, frozen, frozen_policy>>
    BY <1>4 DEF FullHand!Observe
  <2> QED BY <1>3, <1>7, <2>3, <2>4, <2>5, <2>6 DEF HandInvariant, FullHand!HandSound
<1>5. CASE event.kind = "StreetTransition"
  <2>1. event.street \in Nat \ {0}
    BY <1>5 DEF FullHand!Events
  <2>2. table' = [table EXCEPT !.street = event.street, !.pending = FullHand!Live(table)]
    BY <1>2, <1>5 DEF FullHand!Apply
  <2>3. FullHand!Live(table) \in SUBSET FullHand!Seats /\ FullHand!Live(table) \cap table.folded = {}
    BY DEF FullHand!Live
  <2>4. table' \in Tables
    BY <1>1, <2>1, <2>2, <2>3 DEF Tables
  <2>5. /\ table'.street = event.street /\ table'.pending = FullHand!Live(table)
        /\ table'.folded = table.folded
    BY <1>1, <2>2 DEF Tables
  <2>6. /\ event.board \in StreetBoards[event.street] /\ board' = event.board
        /\ frozen' = FALSE /\ frozen_policy' = FullHand!None
    BY <1>5 DEF FullHand!Observe
  <2> QED BY <1>3, <1>7, <2>1, <2>3, <2>4, <2>5, <2>6 DEF HandInvariant, FullHand!HandSound
<1>6. event.kind \in {"Decision", "StreetTransition"}
  BY DEF FullHand!Events
<1> QED BY <1>4, <1>5, <1>6

\* The steps that change what is frozen and nothing else.
LEMMA FrozenStep ==
  ASSUME HandInvariant,
         \/ \E hero \in FullHand!Seats, hole \in Holes :
              FullHand!Decide(hero, hole) \/ FullHand!FreezePolicy(hero, hole)
         \/ FullHand!FreezeFlag \/ FullHand!Clear
  PROVE  HandInvariant'
PROOF
<1>1. UNCHANGED <<table, events, ranges, board>>
  BY DEF FullHand!Decide, FullHand!FreezePolicy, FullHand!FreezeFlag, FullHand!Clear
<1>2. frozen' \in BOOLEAN /\ (frozen_policy' # FullHand!None => frozen' /\ frozen_policy'.street = table.street)
  <2>1. frozen \in BOOLEAN /\ (frozen_policy # FullHand!None => frozen /\ frozen_policy.street = table.street)
    BY DEF HandInvariant, FullHand!HandSound
  <2>2. ASSUME NEW hero \in FullHand!Seats, NEW hole \in Holes, FullHand!Decide(hero, hole)
        PROVE  frozen' = TRUE /\ frozen_policy'.street = table.street
    BY <2>1, <2>2 DEF FullHand!Decide, FullHand!Answer
  <2>3. ASSUME NEW hero \in FullHand!Seats, NEW hole \in Holes, FullHand!FreezePolicy(hero, hole)
        PROVE  frozen' = TRUE /\ frozen_policy'.street = table.street
    BY <2>3 DEF FullHand!FreezePolicy
  <2>4. CASE FullHand!FreezeFlag \/ FullHand!Clear
    BY <2>1, <2>4 DEF FullHand!FreezeFlag, FullHand!Clear
  <2> QED BY <2>2, <2>3, <2>4
<1> QED BY <1>1, <1>2 DEF HandInvariant, FullHand!HandSound, FullHand!HistoryReplays

\* MultiwayFullHandSession: whatever is observed, refused, decided, frozen and cleared, the state
\* is what the recorded history replays to, the board and the frozen policy are of the present
\* street, and every seat may hold some hand.
THEOREM FullHandCorrect ==
  ASSUME FullHand!Combos # {} PROVE FullHand!FullHandSpec => []FullHand!FullHandSound
PROOF
<1>1. FullHand!FullHandInit => HandInvariant
  <2> SUFFICES ASSUME FullHand!FullHandInit PROVE HandInvariant
    OBVIOUS
  <2>1. /\ table = FullHand!InitialTable /\ events = <<>>
        /\ ranges = [seat \in FullHand!Seats |-> FullHand!Combos]
        /\ board = {} /\ frozen = FALSE /\ frozen_policy = FullHand!None
    BY DEF FullHand!FullHandInit
  <2>2. table \in Tables /\ table.street = 0 /\ table.pending \cap table.folded = {}
    BY <2>1 DEF Tables, FullHand!InitialTable
  <2>3. events \in Seq(FullHand!Events) /\ FullHand!HistoryReplays
    BY <2>1, ReplayNothing DEF FullHand!HistoryReplays
  <2> QED BY <2>1, <2>2, <2>3 DEF HandInvariant, FullHand!HandSound
<1>2. HandInvariant /\ [FullHand!FullHandNext]_FullHand!vars => HandInvariant'
  <2> SUFFICES ASSUME HandInvariant, [FullHand!FullHandNext]_FullHand!vars PROVE HandInvariant'
    OBVIOUS
  <2>1. CASE UNCHANGED FullHand!vars
    BY <2>1 DEF FullHand!vars, HandInvariant, FullHand!HandSound, FullHand!HistoryReplays
  <2>2. CASE FullHand!FullHandNext
    BY <2>2, ObserveEventStep, FrozenStep DEF FullHand!FullHandNext
  <2> QED BY <2>1, <2>2
<1>3. HandInvariant => FullHand!FullHandSound
  BY DEF HandInvariant, FullHand!FullHandSound
<1> QED BY <1>1, <1>2, <1>3, PTL DEF FullHand!FullHandSpec
=============================================================================
