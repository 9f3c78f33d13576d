---------------------------- MODULE DecisionSession ----------------------------
(* MultiwayDecisionSession and the MultiwaySearchSession it owns: the beliefs    *)
(* about the private hands of every seat, the batches of the search and their    *)
(* clean snapshot, the frozen policy of the actual hand, and the re-root that    *)
(* replaces the search session and carries the beliefs over.  Weights are        *)
(* abstracted to their support, policies to the batches merged before them.      *)
EXTENDS Naturals, FiniteSets

CONSTANTS
  Seats,         \* seats of the hand
  Cards,         \* the deck
  Boards,        \* boards a root may have
  Observations,  \* observed actions: [assigned, likely], sets of combos
  MaxRevision,   \* largest root revision (numeric_limits<uint64_t>::max())
  MaxRounds,     \* bound: search sessions
  MaxVersion     \* bound: batches merged in one session

VARIABLES
  root_revision,     \* root_revision_ of the decision session
  round,             \* the search session: [revision, board, menu, rows, version, id]
  beliefs,           \* beliefs_: per seat [legal, support]
  freeze,            \* actual_hand_freeze_
  snapshot           \* clean_snapshot_

vars == <<root_revision, round, beliefs, freeze, snapshot>>

Combos == {hand \in SUBSET Cards : Cardinality(hand) = 2}
Menus == {"menu", "expanded"}
None == [none |-> TRUE]    \* an empty optional

-----------------------------------------------------------------------------
(* MultiwayRangeBeliefs. *)

Unblocked(board) == {hand \in Combos : hand \cap board = {}}

\* make_supplied_row: the entries the board leaves, which must have some mass.
SuppliedRow(entries, board) ==
  [legal |-> Unblocked(board), support |-> entries \cap Unblocked(board)]

\* make_uniform_row.
UniformRow(board) == SuppliedRow(Combos, board)

HasMass(row) == row.support # {}

\* The support is replaced by the likely combos (mutant: a combo regains mass).
PosteriorFromPolicy(row, observation) ==
  [legal |-> row.legal \cap observation.assigned, support |-> row.legal \cap observation.likely]
\* apply_observation on a row: a combo without a bucket is no longer legal, and one
\* whose bucket never takes the action has no weight.
Posterior(row, observation) ==
  [legal |-> row.legal \cap observation.assigned,
   support |-> row.support \cap observation.assigned \cap observation.likely]


-----------------------------------------------------------------------------
(* MultiwaySearchSession. *)

\* The constructor: new metadata and rows, beliefs from the ranges of the root.
NewRound(revision, board, menu, id) ==
  [revision |-> revision, board |-> board, menu |-> menu, rows |-> FALSE, version |-> 0,
   id |-> id]

\* observe_action, apply_observation: nothing changes without posterior mass.
Observe(seat, observation) ==
  LET row == Posterior(beliefs[seat], observation) IN
  /\ HasMass(row)
  /\ beliefs' = [beliefs EXCEPT ![seat] = row]
  /\ UNCHANGED <<root_revision, round, freeze, snapshot>>

\* An unclean batch is captured as well (mutant).
MergeBatchUnclean(clean, merged) ==
  /\ round.version < MaxVersion
  /\ round' = IF clean /\ merged THEN [round EXCEPT !.rows = TRUE, !.version = @ + 1] ELSE round
  /\ snapshot' = [revision |-> round.revision, version |-> round.version + 1]
  /\ UNCHANGED <<root_revision, beliefs, freeze>>
\* A batch of the runner on the coordinator of the session, then
\* capture_clean_snapshot: a batch that is not clean, accepts or merges nothing
\* leaves the previous snapshot in place.
MergeBatch(clean, merged) ==
  /\ round.version < MaxVersion
  /\ round' = IF clean /\ merged THEN [round EXCEPT !.rows = TRUE, !.version = @ + 1] ELSE round
  /\ snapshot' = IF clean /\ merged /\ round'.rows
                 THEN [revision |-> round.revision, version |-> round'.version]
                 ELSE snapshot
  /\ UNCHANGED <<root_revision, beliefs, freeze>>


\* freeze_actual_hand_policy: a hand of the present belief, on the present menu.
Freeze(seat, hand) ==
  /\ hand \in beliefs[seat].legal \cap beliefs[seat].support
  /\ freeze' = [seat |-> seat, hand |-> hand, revision |-> round.revision,
                menu |-> round.menu, round |-> round.id]
  /\ UNCHANGED <<root_revision, round, beliefs, snapshot>>

ClearFreeze ==
  /\ freeze # None /\ freeze' = None
  /\ UNCHANGED <<root_revision, round, beliefs, snapshot>>

\* export_hero_policy: a row for every hand of the belief, from the table or, before
\* the first batch, from the blueprint; the frozen actions replace those of the hand.
HeroPolicy(seat, hand) ==
  LET frozen == /\ freeze # None /\ freeze.seat = seat /\ freeze.hand = hand
                /\ freeze.revision = round.revision IN
  [rows |-> beliefs[seat].support \cap beliefs[seat].legal, revision |-> round.revision,
   menu |-> IF frozen THEN freeze.menu ELSE round.menu,
   version |-> IF round.rows THEN round.version ELSE 0, frozen |-> frozen]

\* make_reroot_root and make_next_round_root: the next root keeps the known cards, and
\* every seat keeps a hand that the board does not block.
NextRange(seat, board) == beliefs[seat].support \cap Unblocked(board)
\* A seat without a hand left is not refused (mutant).
RerootAcceptedEmpty(board, street_transition) ==
  /\ round.board \subseteq board
  /\ street_transition => Cardinality(board) > Cardinality(round.board)
RerootAccepted(board, street_transition) ==
  /\ round.board \subseteq board
  /\ street_transition => Cardinality(board) > Cardinality(round.board)
  /\ \A seat \in Seats : NextRange(seat, board) # {}


\* The search session is kept and only its root replaced (mutant).
RerootInPlace(board, menu, street_transition, constructed) ==
  /\ root_revision # MaxRevision /\ round.id < MaxRounds
  /\ RerootAccepted(board, street_transition)
  /\ round' = NewRound(round.revision, board, menu, round.id + 1)
  /\ beliefs' = [seat \in Seats |-> SuppliedRow(NextRange(seat, board), board)]
  /\ snapshot' = None
  /\ UNCHANGED <<root_revision, freeze>>
\* reroot: the revision is incremented before the new session is constructed, which
\* may still refuse the root; the old session then stays with its own revision.
Reroot(board, menu, street_transition, constructed) ==
  /\ root_revision # MaxRevision /\ round.id < MaxRounds
  /\ RerootAccepted(board, street_transition)
  /\ root_revision' = root_revision + 1
  /\ IF constructed
     THEN /\ round' = NewRound(root_revision + 1, board, menu, round.id + 1)
          /\ beliefs' = [seat \in Seats |-> SuppliedRow(NextRange(seat, board), board)]
          /\ freeze' = None /\ snapshot' = None
     ELSE UNCHANGED <<round, beliefs, freeze, snapshot>>


-----------------------------------------------------------------------------
SessionInit ==
  \E board \in Boards, entries \in {Combos, {hand \in Combos : 1 \in hand}} :
    /\ root_revision = 1 /\ round = NewRound(1, board, "menu", 1)
    /\ beliefs = [seat \in Seats |-> IF seat = 1 THEN SuppliedRow(entries, board)
                                     ELSE UniformRow(board)]
    /\ \A seat \in Seats : HasMass(beliefs[seat])
    /\ freeze = None /\ snapshot = None

SessionNext ==
  \/ \E seat \in Seats, observation \in Observations : Observe(seat, observation)
  \/ \E clean, merged \in BOOLEAN : MergeBatch(clean, merged)
  \/ \E seat \in Seats, hand \in Combos : Freeze(seat, hand)
  \/ ClearFreeze
  \/ \E board \in Boards, menu \in Menus, street_transition, constructed \in BOOLEAN :
       Reroot(board, menu, street_transition, constructed)

SessionSpec == SessionInit /\ [][SessionNext]_vars

-----------------------------------------------------------------------------
\* Every seat may hold some hand, none that the board blocks.
BeliefsSound ==
  \A seat \in Seats :
    /\ beliefs[seat].support # {} /\ beliefs[seat].support \subseteq beliefs[seat].legal
    /\ \A hand \in beliefs[seat].legal : hand \cap round.board = {}

\* A frozen policy is answered only on the session it was frozen on, for its menu.
FrozenOnItsRoot ==
  \A seat \in Seats : \A hand \in beliefs[seat].support :
    LET answer == HeroPolicy(seat, hand) IN
    /\ hand \in answer.rows
    /\ answer.frozen => freeze.round = round.id /\ answer.menu = round.menu

\* The snapshot is one of the present root, of the last clean batch.
SnapshotOfRound ==
  snapshot # None => snapshot.revision = round.revision /\ snapshot.version = round.version

\* No two roots share a revision, a refused re-root included.
RevisionsFresh == round.revision <= root_revision /\ round.revision >= round.id

SessionSound == BeliefsSound /\ FrozenOnItsRoot /\ SnapshotOfRound /\ RevisionsFresh

\* No step gives a hand back to a seat that was seen not to hold it.
BeliefStep == \A seat \in Seats : beliefs'[seat].support \subseteq beliefs[seat].support
=============================================================================
