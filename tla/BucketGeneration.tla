--------------------------- MODULE BucketGeneration ---------------------------
(* generate_multiway_bucket_chunks and its serialized twin: workers build chunks of  *)
(* [begin, end) ahead of a publisher that hands them on in index order.  The object  *)
(* kind bounds the chunks in flight; the serialized kind lends out reusable slots.   *)
(* One mutex, one condition variable: a thread that finds its predicate false is     *)
(* asleep until a notify_all.                                                        *)
EXTENDS Naturals, Sequences, FiniteSets, FiniteSetsExt, SequencesExt

CONSTANTS Plans,        \* Set of records: a call and the threads of the machine
          MaxFailures   \* Callbacks and thread starts that throw in one call

VARIABLES plan,
          shared,       \* next_job, in_flight, ready, failure; free and slots; who is asleep
          worker,       \* thread -> where it stands
          main,         \* the calling thread, with what it published and reported
          failures

generationVars == <<plan, shared, worker, main, failures>>

\* The plans that are not refused as invalid arguments before anything starts.
PlansValid ==
  \A p \in Plans :
    /\ p.kind \in {"object", "serialized"}
    /\ p.requested \in Nat \ {0} /\ p.detected \in Nat /\ p.queue \in Nat
    /\ p.begin \in Nat /\ p.end \in Nat /\ p.begin <= p.end /\ p.size \in Nat \ {0}

resolve_thread_count(requested, detected) ==
  IF requested = 0 THEN 0 ELSE Min({requested, Max({detected, 1})})
queue_capacity(requested, threads) == Max({2, IF requested = 0 THEN 2 * threads ELSE requested})
ThreadCount == resolve_thread_count(plan.requested, plan.detected)
Capacity == queue_capacity(plan.queue, ThreadCount)
Workers == 1 .. ThreadCount
Serialized == plan.kind = "serialized"
\* One thread builds and publishes by itself, without the queue; only objects.
Sequential == ~Serialized /\ ThreadCount = 1
JobEnd(first) == Min({plan.end, first + plan.size})
Tables(first, last) == [i \in 1 .. last - first |-> first + i - 1]
NoChunk == [begin |-> 0, count |-> 0, tables |-> <<>>]
Chunk(first, last) == [begin |-> first, count |-> last - first, tables |-> Tables(first, last)]
AtRest == [pc |-> "unborn", first |-> 0, last |-> 0, slot |-> 0, chunk |-> NoChunk]

GenerationInit ==
  /\ plan \in Plans
  /\ shared = [next_job |-> plan.begin, in_flight |-> 0, ready |-> <<>>, failure |-> FALSE,
               free |-> [i \in 1 .. Capacity |-> i], slots |-> [i \in 1 .. Capacity |-> NoChunk], asleep |-> {}]
  /\ worker = [w \in Workers |-> AtRest]
  /\ main = [pc |-> IF Sequential THEN "next" ELSE "spawn", next_publish |-> plan.begin, slot |-> 0, chunk |-> NoChunk,
             published |-> <<>>, reported |-> 0]
  /\ failures = 0

\* A callback or a thread start that throws, up to the bound.
MayThrow == failures < MaxFailures /\ failures' = failures + 1
notify_all(s) == [s EXCEPT !.asleep = {}]
set_failure(s) == notify_all([s EXCEPT !.failure = TRUE])
Sleep(thread) == shared' = [shared EXCEPT !.asleep = @ \cup {thread}]
Goes(w, pc) == worker' = [worker EXCEPT ![w].pc = pc]
Calls(pc) == main' = [main EXCEPT !.pc = pc]

-----------------------------------------------------------------------------
(* A worker. *)

HasRoom(s) == IF Serialized THEN s.free # <<>> ELSE s.in_flight < Capacity
WorkerStops(s) == s.failure \/ s.next_job >= plan.end
Taken(s) == [s EXCEPT !.next_job = JobEnd(@), !.in_flight = @ + 1, !.free = IF Serialized THEN Front(@) ELSE @]
Take(w) ==
  /\ worker[w].pc = "take" /\ w \notin shared.asleep
  /\ \/ ~WorkerStops(shared) /\ ~HasRoom(shared) /\ Sleep(w) /\ UNCHANGED worker
     \/ WorkerStops(shared) /\ Goes(w, "exit") /\ UNCHANGED shared
     \/ /\ ~WorkerStops(shared) /\ HasRoom(shared)
        /\ worker' = [worker EXCEPT ![w] = [@ EXCEPT !.pc = "build", !.first = shared.next_job, !.last = JobEnd(shared.next_job),
                                                     !.slot = IF Serialized THEN Last(shared.free) ELSE 0]]
        /\ shared' = Taken(shared)
  /\ UNCHANGED <<plan, main, failures>>
\* Without the lock: the slot is written where it lies, or the builder throws.
Build(w) ==
  LET chunk == Chunk(worker[w].first, worker[w].last) IN
  /\ worker[w].pc = "build"
  /\ shared' = IF Serialized THEN [shared EXCEPT !.slots[worker[w].slot] = chunk] ELSE shared
  /\ \/ worker' = [worker EXCEPT ![w] = [@ EXCEPT !.pc = "store", !.chunk = IF Serialized THEN NoChunk ELSE chunk]] /\ UNCHANGED failures
     \/ MayThrow /\ Goes(w, "undo")
  /\ UNCHANGED <<plan, main>>
\* A chunk that will not be published gives back its place.
GivenBack(s, slot) == [s EXCEPT !.in_flight = @ - 1, !.free = IF Serialized THEN Append(@, slot) ELSE @]
Stored(s, w) ==
  IF s.failure THEN GivenBack(s, worker[w].slot)
  ELSE [s EXCEPT !.ready = [b \in DOMAIN @ \cup {worker[w].first} |->
                              IF b \in DOMAIN @ THEN @[b] ELSE [slot |-> worker[w].slot, chunk |-> worker[w].chunk]]]
Store(w) ==
  /\ worker[w].pc = "store"
  /\ shared' = Stored(shared, w) /\ Goes(w, "notify")
  /\ UNCHANGED <<plan, main, failures>>
Notify_quiet(w) ==                                   \* (mutant: the caller is not told of a chunk)
  /\ worker[w].pc = "notify"
  /\ worker' = [worker EXCEPT ![w] = [AtRest EXCEPT !.pc = "take"]]
  /\ UNCHANGED <<plan, shared, main, failures>>
Notify(w) ==
  /\ worker[w].pc = "notify"
  /\ shared' = notify_all(shared) /\ worker' = [worker EXCEPT ![w] = [AtRest EXCEPT !.pc = "take"]]
  /\ UNCHANGED <<plan, main, failures>>
\* The catch block: the place is given back, then the failure is recorded.
Undo(w) ==
  /\ worker[w].pc = "undo" /\ shared' = GivenBack(shared, worker[w].slot) /\ Goes(w, "fail")
  /\ UNCHANGED <<plan, main, failures>>
FailWorker_silent(w) ==                              \* (mutant: the failure is not recorded)
  worker[w].pc = "fail" /\ Goes(w, "exit") /\ UNCHANGED <<plan, shared, main, failures>>
FailWorker(w) ==
  worker[w].pc = "fail" /\ shared' = set_failure(shared) /\ Goes(w, "exit") /\ UNCHANGED <<plan, main, failures>>

-----------------------------------------------------------------------------
(* The caller. *)

Born == {w \in Workers : worker[w].pc # "unborn"}
\* Threads start one by one.  If one does not, the object kind stops and joins the others; the
\* serialized kind unwinds over joinable threads, which ends the process.
Spawn ==
  /\ main.pc = "spawn"
  /\ \/ /\ Born # Workers
        /\ Goes(Cardinality(Born) + 1, "take") /\ UNCHANGED <<shared, main, failures>>
     \/ Born = Workers /\ Calls("next") /\ UNCHANGED <<shared, worker, failures>>
     \/ /\ Born # Workers /\ MayThrow /\ UNCHANGED worker
        /\ IF Serialized THEN Calls(IF Born = {} THEN "thrown" ELSE "terminated") /\ UNCHANGED shared
           ELSE Calls("join") /\ shared' = set_failure(shared)
  /\ UNCHANGED plan
IsReady(s) == main.next_publish \in DOMAIN s.ready
Removed(s) ==
  notify_all([s EXCEPT !.in_flight = @ - 1, !.ready = [b \in DOMAIN s.ready \ {main.next_publish} |-> s.ready[b]]])
TakeReady ==
  /\ main.pc = "next" /\ ~Sequential /\ 0 \notin shared.asleep
  /\ \/ main.next_publish >= plan.end /\ Calls("final") /\ UNCHANGED shared
     \/ main.next_publish < plan.end /\ ~shared.failure /\ ~IsReady(shared) /\ Sleep(0) /\ UNCHANGED main
     \/ main.next_publish < plan.end /\ shared.failure /\ Calls("caught") /\ UNCHANGED shared
     \/ /\ main.next_publish < plan.end /\ ~shared.failure /\ IsReady(shared)
        /\ LET found == shared.ready[main.next_publish]
           IN main' = [main EXCEPT !.pc = "publish", !.slot = found.slot, !.chunk = found.chunk]
        /\ shared' = Removed(shared)
  /\ UNCHANGED <<plan, worker, failures>>
InHand == IF Serialized THEN shared.slots[main.slot] ELSE main.chunk
Publish ==
  /\ main.pc = "publish"
  /\ \/ main' = [main EXCEPT !.pc = IF Serialized THEN "release" ELSE "advance", !.published = Append(@, InHand)] /\ UNCHANGED failures
     \/ MayThrow /\ Calls("caught")
  /\ UNCHANGED <<plan, shared, worker>>
Freed(s) == notify_all([s EXCEPT !.free = Append(@, main.slot), !.slots[main.slot].tables = <<>>])
Release ==
  /\ main.pc = "release" /\ shared' = Freed(shared) /\ Calls("advance")
  /\ UNCHANGED <<plan, worker, failures>>
\* The serialized kind reads the count of its chunk from the slot that it has already given back.
Advanced_whole(next) == next + plan.size             \* (mutant: the short last chunk counts as a whole one)
Advanced(next) == IF Serialized THEN next + shared.slots[main.slot].count ELSE Min({plan.end, next + plan.size})
Advance ==
  /\ main.pc = "advance" /\ main' = [main EXCEPT !.pc = "report", !.next_publish = Advanced(@)]
  /\ UNCHANGED <<plan, shared, worker, failures>>
\* The progress callback.
Report ==
  /\ main.pc = "report"
  /\ \/ main' = [main EXCEPT !.pc = "next", !.reported = main.next_publish - plan.begin] /\ UNCHANGED failures
     \/ MayThrow /\ Calls("caught")
  /\ UNCHANGED <<plan, shared, worker>>
\* One thread: build, publish and report, each of which may throw out of the call.
BuildAlone ==
  /\ main.pc = "next" /\ Sequential
  /\ \/ main.next_publish >= plan.end /\ Calls("done") /\ UNCHANGED failures
     \/ /\ main.next_publish < plan.end /\ UNCHANGED failures
        /\ main' = [main EXCEPT !.pc = "report", !.published = Append(@, Chunk(main.next_publish, JobEnd(main.next_publish))),
                                !.next_publish = JobEnd(@)]
     \/ main.next_publish < plan.end /\ MayThrow /\ Calls("thrown")
  /\ UNCHANGED <<plan, shared, worker>>
\* Alone, the exception leaves at once; else it is recorded and the workers are joined.
Caught ==
  /\ main.pc = "caught" /\ UNCHANGED <<plan, worker, failures>>
  /\ IF Sequential THEN Calls("thrown") /\ UNCHANGED shared ELSE Calls("final") /\ shared' = set_failure(shared)
Final == main.pc = "final" /\ shared' = notify_all(shared) /\ Calls("join") /\ UNCHANGED <<plan, worker, failures>>
Join ==
  /\ main.pc = "join" /\ \A w \in Born : worker[w].pc = "exit"
  /\ Calls(IF shared.failure THEN "thrown" ELSE "done") /\ UNCHANGED <<plan, shared, worker, failures>>

GenerationOver == main.pc \in {"done", "thrown", "terminated"}
WorkerStep(w) == Take(w) \/ Build(w) \/ Store(w) \/ Notify(w) \/ Undo(w) \/ FailWorker(w)
MainStep == Spawn \/ TakeReady \/ Publish \/ Release \/ Advance \/ Report \/ BuildAlone \/ Caught \/ Final \/ Join
GenerationNext == main.pc # "terminated" /\ (MainStep \/ \E w \in Workers : WorkerStep(w))
GenerationSpec == GenerationInit /\ [][GenerationNext]_generationVars /\ WF_generationVars(GenerationNext)

-----------------------------------------------------------------------------
\* Up to where tables have been published.
UpTo == IF main.published = <<>> THEN plan.begin ELSE Last(main.published).begin + Last(main.published).count
\* Whatever the workers do, the publisher has been given the tables from the first one on, each
\* once and in order, in chunks whose count and first index are those of their tables.
PublishedInOrder ==
  \A i \in DOMAIN main.published :
    LET c == main.published[i] IN
    /\ c.begin = IF i = 1 THEN plan.begin ELSE main.published[i - 1].begin + main.published[i - 1].count
    /\ c.count = Len(c.tables) /\ c.tables = Tables(c.begin, c.begin + c.count)
\* Progress is what has been published, to the table.
ProgressCounts == main.pc = "next" => main.reported = UpTo - plan.begin /\ main.next_publish = UpTo
\* The serialized caller reads the count of its chunk when the slot is no longer its own.  All chunks
\* being alike, a worker that has taken the slot writes the same count; a short last chunk does not.
WholeChunks == ~Serialized \/ (plan.end - plan.begin) % plan.size = 0
Misread == main.pc \in {"report", "next"} /\ main.next_publish # UpTo
Holding == {w \in Workers : worker[w].pc \in {"build", "store", "undo"}}
\* No chunk's place is lost or lent twice: what is in flight is with a worker or ready, and every
\* slot is free, or with one worker, or ready, or with the publisher.
PlacesConserved ==
  /\ shared.in_flight = Cardinality(Holding) + Cardinality(DOMAIN shared.ready) /\ shared.in_flight <= Capacity
  /\ Serialized =>
       LET with == [w \in Holding |-> worker[w].slot]
           waiting == [b \in DOMAIN shared.ready |-> shared.ready[b].slot]
           mine == IF main.pc \in {"publish", "release"} THEN {main.slot} ELSE {}
       IN /\ IsInjective(shared.free)
          /\ (ToSet(shared.free) \cup {with[w] : w \in Holding} \cup {waiting[b] : b \in DOMAIN waiting} \cup mine) = 1 .. Capacity
               \/ shared.failure \/ main.pc = "caught"
          /\ Len(shared.free) + Cardinality(Holding) + Cardinality(DOMAIN waiting) + Cardinality(mine) <= Capacity
\* A call that returns has published everything and left no worker behind; one that throws has a
\* failure to rethrow.
ReturnIsWhole ==
  /\ main.pc = "done" => /\ ~shared.failure /\ main.next_publish = plan.end
                         /\ \A w \in Workers : worker[w].pc \in {"exit", "unborn"}
  /\ main.pc = "thrown" => failures > 0 /\ \A w \in Workers : worker[w].pc \in {"exit", "unborn"}
\* Not everyone waits: until the call is over some thread can take a step.
NeverStuck ==
  \/ GenerationOver
  \/ main.pc \notin {"next", "join"} \/ (main.pc = "next" /\ 0 \notin shared.asleep)
  \/ main.pc = "join" /\ \A w \in Born : worker[w].pc = "exit"
  \/ \E w \in Workers : worker[w].pc \notin {"unborn", "exit"} /\ w \notin shared.asleep
\* Only the short last chunk of a serialized call can be misread, and only then is a count wrong or
\* every thread asleep.
GenerationSound ==
  /\ PublishedInOrder /\ PlacesConserved /\ ReturnIsWhole
  /\ Misread => ~WholeChunks
  /\ Misread \/ (ProgressCounts /\ NeverStuck)
==============================================================================
