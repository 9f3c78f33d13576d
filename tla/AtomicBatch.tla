---------------------------- MODULE AtomicBatch ----------------------------
(***************************************************************************)
(* What the aggregate training store promises its callers: "one durable    *)
(* commit point across external storage components".  The reader of the    *)
(* store sees a committed batch number and, for every component, one       *)
(* manifest; both change only when a whole batch commits.  Begin, append,  *)
(* compaction, abort, a crash and every step of recovery are stuttering    *)
(* steps of this specification.                                            *)
(***************************************************************************)
EXTENDS Naturals

CONSTANTS Components,   \* the component stores of one training directory
          Manifests     \* the component manifests that can be published

VARIABLES batch,        \* number of the last committed batch (0: none)
          content       \* content[c]: the manifest a reader finds for c

vars == <<batch, content>>

Init ==
  /\ batch = 0
  /\ content \in [Components -> {m \in Manifests : m.generation = 0}]

\* A batch commits: its number is new, every component moves at once, and no
\* component's generation moves backwards.
Commit ==
  /\ batch' \in {b \in Nat : b > batch}
  /\ content' \in [Components -> Manifests]
  /\ \A c \in Components : content'[c].generation >= content[c].generation

Next == Commit

Spec == Init /\ [][Next]_vars
=============================================================================
