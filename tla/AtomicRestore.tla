--------------------------- MODULE AtomicRestore ---------------------------
(***************************************************************************)
(* What restoring a checkpoint promises: the aggregate manifest and all    *)
(* the component manifests of a training directory move together, to the   *)
(* version of a newly committed batch or to the one the checkpoint names.  *)
(***************************************************************************)
EXTENDS Naturals

CONSTANTS Parts         \* the component manifests and the aggregate manifest

VARIABLES content,      \* content[p]: the version of p that a recovery yields
          checkpoint    \* the version the published checkpoint names (0: none)

vars == <<content, checkpoint>>

Init ==
  /\ content = [p \in Parts |-> 0]
  /\ checkpoint \in Nat

Commit ==
  /\ content' \in [Parts -> Nat]
  /\ \A p, q \in Parts : content'[p] # 0 /\ content'[p] = content'[q]
  /\ UNCHANGED checkpoint

Save ==
  /\ checkpoint' \in {content[p] : p \in Parts} \ {0}
  /\ UNCHANGED content

Restore ==
  /\ checkpoint # 0
  /\ content' = [p \in Parts |-> checkpoint]
  /\ UNCHANGED checkpoint

Next == Commit \/ Save \/ Restore

Spec == Init /\ [][Next]_vars
=============================================================================
