------------------------------- MODULE Resolver -------------------------------
(* MultiwayResolver::resolve: the validation of a request, the plan of a        *)
(* search, its batches under a deadline (MultiwayResolverBudget), the clean     *)
(* snapshot that becomes the policy, and the chain of fallbacks.  Calls share   *)
(* the host's cache of one stable root policy, whose find and store hold its    *)
(* mutex.  A policy is abstracted to the search, blueprint or table it is from. *)
EXTENDS Naturals, FiniteSets

CONSTANTS
  Resolvers,    \* threads that resolve requests
  Requests,     \* keys of requests: [state, seat, hand, menu]
  MaxBatches,   \* runtime_limits.solver.max_batches
  MaxCalls      \* bound: calls of resolve

VARIABLES
  entry,        \* the entry of the stable root cache
  call,         \* per thread: its call of resolve
  late,         \* per thread: the deadline less its reserve has passed
  delivered,    \* history: policies returned as the result of a search
  calls         \* calls so far

vars == <<entry, call, late, delivered, calls>>

\* A request is its state, seat, hand and menu.
RequestsKeyed ==
  \A p, q \in Requests :
    p.state = q.state /\ p.seat = q.seat /\ p.hand = q.hand /\ p.menu = q.menu => p = q

Modes == {"FallbackOnly", "SearchShadow", "SearchActive", "ForcedFallback", "ReleaseDefault"}
NoPolicy == [from |-> "none"]
\* A policy carries the request whose menu it covers.
Policy(from, request, id, batch) == [from |-> from, request |-> request, id |-> id, batch |-> batch]

-----------------------------------------------------------------------------
(* The cache of a stable root policy. *)

NoEntry == [policy |-> NoPolicy]

\* The hand is not part of the key (mutant: the policy of another hand is found).
FindAnyHand(request) ==
  /\ entry # NoEntry
  /\ entry.key.state = request.state
  /\ entry.key.seat = request.seat
  /\ entry.key.menu = request.menu
\* MultiwayStableRootPolicyCache::find: identity, state, seat, exact hand and menu.
Find(request) ==
  /\ entry # NoEntry
  /\ entry.key.state = request.state
  /\ entry.key.seat = request.seat
  /\ entry.key.hand = request.hand
  /\ entry.key.menu = request.menu


-----------------------------------------------------------------------------
(* resolve, one action per stage. *)

Set(r, c) == call' = [call EXCEPT ![r] = c]
At(r, pc) == call[r].pc = pc

\* A default result has status InvalidRequest and no policy.
Result(request, id) ==
  [pc |-> "admit", request |-> request, id |-> id, delivers |-> FALSE,
   status |-> "InvalidRequest", provenance |-> "None", outcome |-> "None",
   policy |-> NoPolicy, shadow |-> FALSE, batches |-> 0, snapshot |-> NoPolicy,
   expired |-> FALSE]

Begin(r) ==
  /\ At(r, "idle") /\ calls < MaxCalls
  /\ \E request \in Requests : Set(r, Result(request, calls + 1))
  /\ late' = [late EXCEPT ![r] = FALSE] /\ calls' = calls + 1
  /\ UNCHANGED <<entry, delivered>>

\* Time passes: steady_clock::now() + reserve >= deadline from here on.
Tick(r) ==
  /\ call[r].pc \notin {"idle", "done"} /\ ~late[r]
  /\ late' = [late EXCEPT ![r] = TRUE]
  /\ UNCHANGED <<entry, call, delivered, calls>>

\* An exception of any stage: the result is emptied (the catch of resolve).
InvalidResult(c) == [Result(c.request, c.id) EXCEPT !.pc = "done"]

\* The release default searches only with a complete configuration.
SearchRequested(mode, release) ==
  mode \in {"SearchShadow", "SearchActive"} \/ (mode = "ReleaseDefault" /\ release)

ToFallback(c, status) == [c EXCEPT !.pc = "fallback", !.status = status]

\* assess_resolver_search_eligibility, its tests in order; foreign is a blueprint
\* of another identity, eligible the verdict of search_eligibility.
Plan(c, mode, isLate, foreign, eligible) ==
  IF c.status \in {"ArtifactMismatch", "BucketUnavailable"} THEN ToFallback(c, c.status)
  ELSE IF foreign THEN ToFallback(c, "ArtifactMismatch")
  ELSE IF isLate THEN ToFallback([c EXCEPT !.expired = TRUE], "DeadlineFallback")
  ELSE IF mode = "ForcedFallback" \/ (c.delivers /\ ~eligible)
       THEN ToFallback(c, "RejectedByBudget")
  ELSE IF eligible THEN [c EXCEPT !.pc = "search"]
  ELSE ToFallback(c, "Solved")

\* What prepare_resolver_root leaves in the status: the lookup of the bucket on a
\* postflop street may find no registry, or one of another identity.
PreparedStatuses == {"InvalidRequest", "BucketUnavailable", "ArtifactMismatch"}

\* validate_resolver_request, prepare_resolver_root and the plan: local steps of the
\* thread, any of which may throw.
Admit(r) ==
  /\ At(r, "admit")
  /\ \/ \E mode \in Modes, status \in PreparedStatuses, release, foreign, fits \in BOOLEAN :
          Set(r, Plan([call[r] EXCEPT !.status = status,
                                      !.delivers = mode \in {"SearchActive", "ReleaseDefault"}],
                      mode, late[r], foreign, SearchRequested(mode, release) /\ fits))
     \/ Set(r, InvalidResult(call[r]))
  /\ UNCHANGED <<entry, late, delivered, calls>>

-----------------------------------------------------------------------------
(* run_search. *)

Ended(c, outcome) == [c EXCEPT !.pc = "conclude", !.outcome = outcome]

\* The memory preflight, the root, the session, the traversal and the runner.
StartSearch(r) ==
  /\ At(r, "search")
  /\ \/ Set(r, [call[r] EXCEPT !.pc = "checkpoint"])
     \/ \E outcome \in {"MemoryRejected", "NoRoot", "Exception"} :
          Set(r, Ended(call[r], outcome))
  /\ UNCHANGED <<entry, late, delivered, calls>>

\* MultiwayResolverBudget::checkpoint, and the end of the loop of batches.
Checkpoint(r) ==
  /\ At(r, "checkpoint")
  /\ LET c == call[r] IN
       Set(r, IF c.batches < MaxBatches /\ ~late[r] THEN [c EXCEPT !.pc = "batch"]
              ELSE [c EXCEPT !.pc = "export",
                             !.expired = c.expired \/ (c.batches < MaxBatches /\ late[r])])
  /\ UNCHANGED <<entry, late, delivered, calls>>

\* An unclean batch ends the search as if it were clean (mutant).
BatchKeepsSearching(r) ==
  /\ At(r, "batch")
  /\ LET c == call[r] IN
       \/ Set(r, [c EXCEPT !.pc = "export"])
       \/ Set(r, [c EXCEPT !.pc = IF late[r] THEN "export" ELSE "checkpoint",
                           !.batches = @ + 1,
                           !.snapshot = Policy("search", c.request, c.id, c.batches)])
  /\ UNCHANGED <<entry, late, delivered, calls>>
\* A batch of the runner: clean, cancelled by the deadline or over the limits of the
\* budget, or an exception.  A clean one is captured as the snapshot of the session.
Batch(r) ==
  /\ At(r, "batch")
  /\ LET c == call[r]
         clean == [c EXCEPT !.pc = IF late[r] THEN "export" ELSE "checkpoint",
                            !.batches = @ + 1,
                            !.snapshot = Policy("search", c.request, c.id, c.batches + 1)] IN
       \/ Set(r, clean)
       \/ Set(r, Ended(c, "NoCleanBatch"))
       \/ Set(r, Ended(c, "Exception"))
  /\ UNCHANGED <<entry, late, delivered, calls>>


\* The snapshot is copied and normalized.
Export(r) ==
  /\ At(r, "export")
  /\ LET c == call[r] IN
       IF c.batches = 0 THEN Set(r, Ended(c, "NoCleanBatch"))
       ELSE \/ Set(r, Ended([c EXCEPT !.expired = @ \/ late[r]], "Completed"))
            \/ Set(r, Ended(c, "NormalizationFailed"))
  /\ UNCHANGED <<entry, late, delivered, calls>>

-----------------------------------------------------------------------------
\* A shadow search delivers its policy (mutant).
ConcludeShadow(r) ==
  /\ At(r, "conclude")
  /\ LET c == call[r] IN
     IF c.outcome = "Completed"
     THEN Set(r, [c EXCEPT !.pc = "store", !.policy = c.snapshot,
                           !.status = "Solved", !.provenance = "RuntimeSearch"])
     ELSE Set(r, ToFallback(c, "ResourceExhausted"))
  /\ UNCHANGED <<entry, late, delivered, calls>>
\* invoke_resolver_search, after run_search.
Conclude(r) ==
  /\ At(r, "conclude")
  /\ LET c == call[r] IN
     IF c.delivers /\ c.outcome = "Completed"
     THEN /\ Set(r, [c EXCEPT !.pc = "store", !.policy = c.snapshot,
                              !.status = IF c.expired THEN "Partial" ELSE "Solved",
                              !.provenance = "RuntimeSearch"])
          /\ delivered' = delivered \cup {c.snapshot}
     ELSE /\ Set(r, IF c.delivers
                    THEN ToFallback(c, IF late[r] THEN "DeadlineFallback"
                                       ELSE IF c.outcome \in {"NoRoot", "MemoryRejected"}
                                       THEN "RejectedByBudget" ELSE "ResourceExhausted")
                    ELSE ToFallback([c EXCEPT !.shadow = c.outcome = "Completed"], "Solved"))
          /\ UNCHANGED delivered
  /\ UNCHANGED <<entry, late, calls>>


\* The delivered policy becomes the stable root policy.
Store(r) ==
  /\ At(r, "store")
  /\ entry' = [key |-> call[r].request, policy |-> call[r].policy]
  /\ Set(r, [call[r] EXCEPT !.pc = "done"])
  /\ UNCHANGED <<late, delivered, calls>>

\* finalize_resolver_fallback: the cache, the verified blueprint, the static policy.
Fallback(r) ==
  /\ At(r, "fallback")
  /\ LET c == call[r]
         Deliver(policy, provenance) ==
           Set(r, [c EXCEPT !.pc = "done", !.policy = policy,
                            !.provenance = provenance]) IN
       IF Find(c.request) THEN Deliver(entry.policy, "StableRootFallback")
       ELSE \/ Deliver(Policy("blueprint", c.request, 0, 0), "BlueprintFallback")
            \/ Deliver(Policy("static", c.request, 0, 0), "StaticLegalFallback")
  /\ UNCHANGED <<entry, late, delivered, calls>>

Return(r) ==
  /\ At(r, "done") /\ Set(r, [pc |-> "idle"])
  /\ UNCHANGED <<entry, late, delivered, calls>>

-----------------------------------------------------------------------------
ResolverInit ==
  /\ entry = NoEntry /\ call = [r \in Resolvers |-> [pc |-> "idle"]]
  /\ late = [r \in Resolvers |-> FALSE] /\ delivered = {} /\ calls = 0

ResolverNext ==
  \E r \in Resolvers :
    \/ Begin(r) \/ Tick(r) \/ Admit(r) \/ StartSearch(r)
    \/ Checkpoint(r) \/ Batch(r) \/ Export(r) \/ Conclude(r) \/ Store(r)
    \/ Fallback(r) \/ Return(r)

ResolverSpec == ResolverInit /\ [][ResolverNext]_vars

-----------------------------------------------------------------------------
\* The cache holds a policy that was delivered as the result of a search on its key.
CacheIsDelivered ==
  entry # NoEntry => entry.policy \in delivered /\ entry.policy.request = entry.key

\* What a call returns: a policy for its own request unless the request is invalid; a
\* searched policy is the snapshot of the last of its clean batches and Partial when the
\* deadline cut it; a delivering mode never calls a fallback solved, and a mode that
\* does not deliver never returns or stores its own search.
AnswerSound(c) ==
  /\ (c.status = "InvalidRequest") = (c.policy = NoPolicy)
  /\ c.policy # NoPolicy => c.policy.request = c.request
  /\ c.provenance = "RuntimeSearch" =>
       /\ c.delivers /\ c.batches > 0 /\ c.policy.id = c.id /\ c.policy.batch = c.batches
       /\ c.status = IF c.expired THEN "Partial" ELSE "Solved"
  /\ c.provenance \in {"StableRootFallback", "BlueprintFallback", "StaticLegalFallback"} =>
       /\ (c.status = "Solved" => ~c.delivers) /\ c.status # "Partial"
       /\ c.policy.from = "search" => c.policy \in delivered
  /\ ~c.delivers => \A policy \in delivered : policy.id # c.id

\* A search that met an unclean batch, a rejected budget or an exception is not used.
ResolverSound ==
  /\ CacheIsDelivered
  /\ \A r \in Resolvers :
       call[r].pc = "done" =>
         /\ AnswerSound(call[r])
         /\ call[r].outcome \notin {"None", "Completed"} => call[r].provenance # "RuntimeSearch"
         /\ call[r].status = "DeadlineFallback" => late[r]
=============================================================================
