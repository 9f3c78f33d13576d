---------------------------- MODULE FullHandSession ----------------------------
(* MultiwayFullHandSession: the public history of a hand, the betting state it   *)
(* replays to, the beliefs, the board and the frozen policy of the actual hand.  *)
(* The betting state is abstracted to the street, the seats still to act and the *)
(* folded seats (MultiwayBetting has the rules); weights to their support.       *)
EXTENDS Naturals, Sequences, FiniteSets

CONSTANTS
  SeatCount,     \* seats of the table
  Cards,         \* the deck
  Boards,        \* per street, the boards a transition may deal
  Observations,  \* observed actions: sets of the likely combos
  Holes          \* hole cards of the hero

VARIABLES
  table,          \* state_: [street, pending, folded]
  events,         \* history_.events
  ranges,         \* beliefs_: per seat the combos with weight
  board,          \* board_
  frozen,         \* actual_hand_frozen_
  frozen_policy   \* frozen_policy_

vars == <<table, events, ranges, board, frozen, frozen_policy>>

Seats == 0 .. SeatCount - 1
Combos == {hand \in SUBSET Cards : Cardinality(hand) = 2}
None == [none |-> TRUE]
Live(t) == Seats \ t.folded
CurrentPlayer(t) == CHOOSE seat \in t.pending : \A other \in t.pending : seat <= other

-----------------------------------------------------------------------------
(* multiway_replay.cpp. *)

\* apply_multiway_replay_event: a decision of the current player, or a transition once
\* the street is closed.
Legal(t, event) ==
  IF event.kind = "Decision"
  THEN t.pending # {} /\ event.seat = CurrentPlayer(t)
  ELSE t.pending = {} /\ Cardinality(Live(t)) > 1 /\ event.street = t.street + 1

Apply(t, event) ==
  IF event.kind = "Decision"
  THEN LET out == IF event.action = "Fold" THEN t.folded \cup {event.seat} ELSE t.folded IN
       [t EXCEPT !.folded = out,
                 !.pending = IF Cardinality(Seats \ out) = 1 THEN {} ELSE @ \ {event.seat}]
  ELSE [t EXCEPT !.street = event.street, !.pending = Live(t)]

\* replay_multiway_hand.
InitialTable == [street |-> 0, pending |-> Seats, folded |-> {}]
Replay(history) ==
  LET state[n \in 0 .. Len(history)] ==
        IF n = 0 THEN InitialTable ELSE Apply(state[n - 1], history[n])
  IN state[Len(history)]

Events ==
  [kind : {"Decision"}, seat : Seats, action : {"Fold", "Call"}]
    \cup [kind : {"StreetTransition"}, street : 1 .. Len(Boards), board : UNION {Boards[s] : s \in 1 .. Len(Boards)}]

-----------------------------------------------------------------------------
\* A street transition keeps the frozen policy (mutant).
ObserveKeepsFreeze(event, likely) ==
  /\ Legal(table, event)
  /\ table' = Apply(table, event) /\ events' = Append(events, event)
  /\ board' = IF event.kind = "StreetTransition" THEN event.board ELSE board
  /\ UNCHANGED <<ranges, frozen, frozen_policy>>
\* The event is recorded before its observation is refused (mutant).
ObserveRecordsFirst(event, likely) ==
  /\ Legal(table, event) /\ events' = Append(events, event)
  /\ table' = IF event.kind = "Decision" /\ likely # None /\ ranges[event.seat] \cap likely.combos = {}
              THEN table ELSE Apply(table, event)
  /\ frozen' = FALSE /\ frozen_policy' = None
  /\ UNCHANGED <<ranges, board>>
\* observe: the belief of the actor is updated first; an observation without posterior
\* mass, like an illegal event, is refused and changes nothing.
Observe(event, likely) ==
  /\ Legal(table, event)
  /\ LET seen == event.kind = "Decision" /\ likely # None IN
     /\ seen => ranges[event.seat] \cap likely.combos # {}
     /\ ranges' = IF seen THEN [ranges EXCEPT ![event.seat] = @ \cap likely.combos] ELSE ranges
  /\ table' = Apply(table, event) /\ events' = Append(events, event)
  /\ IF event.kind = "StreetTransition"
     THEN /\ event.board \in Boards[event.street] /\ board' = event.board
          /\ frozen' = FALSE /\ frozen_policy' = None
     ELSE UNCHANGED <<board, frozen, frozen_policy>>



\* What validate_ranges asks of the request that decide builds from the beliefs.
RequestValid(hero, hole) ==
  /\ table.pending # {} /\ CurrentPlayer(table) = hero
  /\ hole \in ranges[hero] /\ \A hand \in ranges[hero] : hand \cap board = {}
  /\ table.folded = {}
  /\ \A seat \in Seats \ {hero} :
       ranges[seat] # {} /\ \A hand \in ranges[seat] : hand \cap (board \cup hole) = {}

\* decide: the frozen policy if there is one, else the answer of the resolver, which
\* a frozen session keeps.  An invalid request has an empty answer.
Answer(hero, hole) ==
  IF frozen_policy # None THEN frozen_policy
  ELSE [street |-> table.street, hero |-> hero, hole |-> hole, valid |-> RequestValid(hero, hole)]
Decide(hero, hole) ==
  /\ frozen /\ frozen_policy = None
  /\ frozen_policy' = Answer(hero, hole)
  /\ UNCHANGED <<table, events, ranges, board, frozen>>

\* freeze_actual_hand_policy with and without a policy, clear_actual_hand_policy.
FreezePolicy(hero, hole) ==
  /\ frozen' = TRUE
  /\ frozen_policy' = [street |-> table.street, hero |-> hero, hole |-> hole,
                       valid |-> RequestValid(hero, hole)]
  /\ UNCHANGED <<table, events, ranges, board>>
FreezeFlag == ~frozen /\ frozen' = TRUE /\ UNCHANGED <<table, events, ranges, board, frozen_policy>>
Clear ==
  /\ frozen /\ frozen' = FALSE /\ frozen_policy' = None
  /\ UNCHANGED <<table, events, ranges, board>>

-----------------------------------------------------------------------------
FullHandInit ==
  /\ table = InitialTable /\ events = << >> /\ ranges = [seat \in Seats |-> Combos]
  /\ board = {} /\ frozen = FALSE /\ frozen_policy = None

FullHandNext ==
  \/ \E event \in Events, likely \in {None} \cup [combos : Observations] : Observe(event, likely)
  \/ \E hero \in Seats, hole \in Holes : Decide(hero, hole) \/ FreezePolicy(hero, hole)
  \/ FreezeFlag \/ Clear

FullHandSpec == FullHandInit /\ [][FullHandNext]_vars

-----------------------------------------------------------------------------
\* The state is what the recorded history replays to, whatever was refused.
HistoryReplays == table = Replay(events)

\* The board is the one the last transition dealt; a frozen answer is one of the present
\* street; every seat may hold some hand; and a folded seat is never asked.
HandSound ==
  /\ board \in IF table.street = 0 THEN {{}} ELSE Boards[table.street]
  /\ frozen_policy # None => frozen /\ frozen_policy.street = table.street
  /\ \A seat \in Seats : ranges[seat] # {}
  /\ table.pending \cap table.folded = {}

FullHandSound == HistoryReplays /\ HandSound
=============================================================================
