----------------------------- MODULE RecordMap -----------------------------
(***************************************************************************)
(* What MultiwayExternalRecordStore promises whoever uses one component:   *)
(* a map from keys to payloads that changes by whole appends, keeps what   *)
(* it holds through crashes and compactions, and can be put back to the    *)
(* state a checkpoint saved.  A payload is the number of the append that   *)
(* wrote it; 0 stands for no record.                                       *)
(***************************************************************************)
EXTENDS Naturals

CONSTANTS Keys, MaxAppends

VARIABLES contents,  \* the map
          saved,     \* the checkpoint: << >> or the saved map
          inflight,  \* the append that may still take effect, 0 if none
          issued     \* appends issued so far

vars == <<contents, saved, inflight, issued>>

Init ==
  /\ contents = [k \in Keys |-> 0]
  /\ saved = << >>
  /\ inflight = 0
  /\ issued = 0

Issue ==
  /\ inflight = 0
  /\ issued < MaxAppends
  /\ issued' = issued + 1
  /\ inflight' = issued + 1
  /\ UNCHANGED <<contents, saved>>

\* An append reaches the map, in one step or, chunked, in several.
Apply ==
  /\ inflight # 0
  /\ \E S \in (SUBSET Keys) \ {{}} :
       contents' = [k \in Keys |-> IF k \in S THEN inflight ELSE contents[k]]
  /\ UNCHANGED <<saved, inflight, issued>>

\* It is over, whether it took effect or was lost with the process.
Finish == inflight # 0 /\ inflight' = 0 /\ UNCHANGED <<contents, saved, issued>>

Save == saved' = <<contents>> /\ UNCHANGED <<contents, inflight, issued>>

Restore ==
  /\ saved # << >>
  /\ inflight = 0
  /\ contents' = saved[1]
  /\ UNCHANGED <<saved, inflight, issued>>

Forget == saved' = << >> /\ UNCHANGED <<contents, inflight, issued>>

Next == Issue \/ Apply \/ Finish \/ Save \/ Restore \/ Forget

Spec == Init /\ [][Next]_vars
=============================================================================
