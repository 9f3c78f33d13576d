---------------------------- MODULE VectorKernels ----------------------------
(* The row kernels of util/simd.cpp.  One behaviour is one call of a kernel on  *)
(* one backend: a step is one turn of a loop, over four lanes, two or one, and  *)
(* a loop that has too few elements left hands the rest to the next narrower.   *)
(* Numbers are exact, so that every backend must agree with the plain loop; NaN *)
(* is kept, because the kernels mask it on purpose.                             *)
EXTENDS Fractions, TLC

CONSTANTS MaxLen, Backends     \* Backends \subseteq {"Avx2", "Avx2Reductions", "Avx2OnSse2", "Sse2", "Scalar"}

VARIABLES row,     \* [kernel, backend, regrets, values, out]: the call and the row it fills
          turn     \* [widths, i, lanes, total, normalising]: the loop that runs

vectorVars == <<row, turn>>

NaN == <<0, 0>>
Add(x, y) == IF NaN \in {x, y} THEN NaN ELSE Plus(x, y)
Mul(x, y) == IF NaN \in {x, y} THEN NaN ELSE Times(x, y)
Div(x, y) == IF NaN \in {x, y} THEN NaN ELSE Over(x, y)
IsPositive(x) == x # NaN /\ x[1] > 0
IsNegative(x) == x # NaN /\ x[1] < 0
RECURSIVE AddAll(_)
AddAll(s) == IF s = <<>> THEN Zero ELSE Add(Head(s), AddAll(Tail(s)))

PosScale == <<2, 3>>
NegScale == <<1, 2>>
Reach == <<3, 1>>
NodeValue == <<2, 1>>

-----------------------------------------------------------------------------
(* What a lane computes from its element *)

nan_preserving_max(a, b) == IF NaN \in {a, b} THEN NaN ELSE Larger(a, b)
\* The masks select the scaled value of a signed element and leave zero and NaN alone.
discount_regrets_lane(v) ==
  IF IsPositive(v) THEN Mul(v, PosScale) ELSE IF IsNegative(v) THEN Mul(v, NegScale) ELSE v
discount_strategy_lane(v) == Mul(v, PosScale)
positive_lane_plain(v) == IF IsPositive(v) THEN v ELSE Zero     \* (mutant: max_pd(v, 0) returns 0 for NaN)
\* max_pd, then the NaN lanes of the operand put back.
positive_lane(v) == IF v = NaN THEN v ELSE nan_preserving_max(v, Zero)
regret_lane(v, action) == Add(v, Mul(Reach, Add(action, Mul(<<-1, 1>>, NodeValue))))
strategy_lane(v, s) == Add(v, Mul(Reach, s))
normalize_lane(v, total) == Div(v, total)

Lane(k, j) ==
  CASE k.kernel = "discount_regrets" -> discount_regrets_lane(k.regrets[j])
    [] k.kernel = "discount_strategy_sum" -> discount_strategy_lane(k.regrets[j])
    [] k.kernel \in {"positive_regrets_and_total", "compute_strategy_row"} -> positive_lane(k.regrets[j])
    [] k.kernel = "update_regret_sum" -> regret_lane(k.regrets[j], k.values[j])
    [] k.kernel = "update_strategy_sum" -> strategy_lane(k.regrets[j], k.values[j])
    [] k.kernel \in {"copy_values", "normalize_row"} -> k.regrets[j]
    [] OTHER -> k.out[j]
\* What a lane adds to the accumulator of a reducing kernel.
Term(k, j) ==
  CASE k.kernel \in {"positive_regrets_and_total", "compute_strategy_row"} -> positive_lane(k.regrets[j])
    [] k.kernel \in {"dot_product", "reduce_weighted_action_values"} -> Mul(k.regrets[j], k.values[j])
    [] k.kernel \in {"reduce_action_values", "normalize_row"} -> k.regrets[j]
    [] OTHER -> Zero

Kernels == {"discount_regrets", "discount_strategy_sum", "positive_regrets_and_total", "compute_strategy_row",
            "update_regret_sum", "update_strategy_sum", "copy_values", "dot_product", "normalize_row",
            "reduce_action_values", "reduce_weighted_action_values"}

-----------------------------------------------------------------------------
(* The loops of a call *)

\* detect_simd_backend and the build: the widths the loops of a kernel have in turn.
detect_simd_backend(backend) ==
  CASE backend \in {"Avx2", "Avx2Reductions"} -> <<4, 2, 1>>
    [] backend \in {"Avx2OnSse2", "Sse2"} -> <<2, 1>>
    [] OTHER -> <<1>>
\* copy_values has no narrower vector loop behind its wide one.
copy_values_widths(backend, len) ==
  IF len <= 4 THEN <<1>> ELSE IF backend \in {"Avx2", "Avx2Reductions"} THEN <<4, 1>> ELSE detect_simd_backend(backend)
\* The reductions stay with two lanes unless the build asks for four.
reduce_widths(backend, len) ==
  IF len <= 4 \/ backend = "Scalar" THEN <<1>> ELSE IF backend = "Avx2Reductions" THEN <<4, 1>> ELSE <<2, 1>>
unrolled_widths(backend, len) == IF len <= 4 THEN <<1>> ELSE detect_simd_backend(backend)
Widths(kernel, backend, len) ==
  CASE kernel = "normalize_row" -> <<1>>
    [] kernel = "copy_values" -> copy_values_widths(backend, len)
    [] kernel \in {"reduce_action_values", "reduce_weighted_action_values"} -> reduce_widths(backend, len)
    [] kernel \in {"update_strategy_sum", "dot_product"} -> unrolled_widths(backend, len)
    [] OTHER -> detect_simd_backend(backend)

NoLanes == [j \in 1 .. 4 |-> Zero]
Loop(kernel, backend, len, total, normalising) ==
  [widths |-> IF normalising THEN detect_simd_backend(backend) ELSE Widths(kernel, backend, len), i |-> 0, lanes |-> NoLanes, total |-> total, normalising |-> normalising]

Width == Head(turn.widths)
Length == Len(row.regrets)
\* for (; i + width - 1 < len; i += width)
HasChunk == turn.i + Width <= Length
RunsLoop == turn.widths # <<>>
Chunk == {j \in 1 .. Length : turn.i < j /\ j <= turn.i + Width}

\* One turn of a loop: its lanes are computed from what was loaded and stored at once.
LoopTurn ==
  /\ RunsLoop /\ HasChunk
  /\ row' = [row EXCEPT !.out = [j \in DOMAIN @ |->
       IF j \notin Chunk THEN @[j]
       ELSE IF turn.normalising THEN normalize_lane(@[j], turn.total) ELSE Lane(row, j)]]
  /\ turn' = [turn EXCEPT !.i = @ + Width,
       !.lanes = IF turn.normalising THEN @
                 ELSE [l \in 1 .. 4 |-> IF turn.i + l \in Chunk THEN Add(@[l], Term(row, turn.i + l)) ELSE @[l]]]
NarrowLoop_dropped ==     \* (mutant: the lanes of the wider loop are not added up)
  /\ RunsLoop /\ ~HasChunk
  /\ turn' = [turn EXCEPT !.widths = Tail(@), !.lanes = NoLanes,
                          !.total = IF Len(turn.widths) > 1 THEN @ ELSE Add(@, AddAll(turn.lanes))]
  /\ UNCHANGED row
\* The loop is through: its accumulator lanes join the total and the rest is left to the next.
NarrowLoop ==
  /\ RunsLoop /\ ~HasChunk
  /\ turn' = [turn EXCEPT !.widths = Tail(@), !.lanes = NoLanes, !.total = Add(@, AddAll(turn.lanes))]
  /\ UNCHANGED row
Normalises(kernel) == kernel \in {"compute_strategy_row", "normalize_row"}
\* normalize follows in compute_strategy_row and normalize_row; it divides only by a positive total.
normalize ==
  /\ ~RunsLoop /\ ~turn.normalising /\ Normalises(row.kernel)
  /\ IF IsPositive(turn.total)
     THEN turn' = Loop(row.kernel, row.backend, Length, turn.total, TRUE) /\ UNCHANGED row
     ELSE /\ row' = [row EXCEPT !.out = [j \in DOMAIN @ |-> Q(1, Length)]]
          /\ turn' = [turn EXCEPT !.normalising = TRUE]
VectorNext == LoopTurn \/ NarrowLoop \/ normalize

-----------------------------------------------------------------------------
(* Rows of distinct signed numbers, with a zero or a NaN in one place. *)

Number(j) == IF j % 3 = 0 THEN <<-j, 1>> ELSE <<j, 1>>
Negatives(len) == [j \in 1 .. len |-> <<-j, 1>>]
InputRows ==
  UNION {{Negatives(len)} \cup
         {[j \in 1 .. len |-> IF j = place THEN special ELSE Number(j)] : place \in 0 .. len, special \in {Zero, NaN}} :
         len \in 0 .. MaxLen}
VectorInit ==
  \E kernel \in Kernels, backend \in Backends, regrets \in InputRows :
    /\ row = [kernel |-> kernel, backend |-> backend, regrets |-> regrets,
              values |-> [j \in DOMAIN regrets |-> Number(j + 1)], out |-> regrets]
    /\ turn = Loop(kernel, backend, Len(regrets), Zero, FALSE)

-----------------------------------------------------------------------------
(* The scalar kernels, over the whole row at once *)

compute_strategy_row_scalar(regrets) ==
  LET positive == SelectSeq(regrets, IsPositive)
  IN [j \in DOMAIN regrets |->
        IF positive = <<>> THEN Q(1, Len(regrets))
        ELSE IF IsPositive(regrets[j]) THEN Div(regrets[j], AddAll(positive)) ELSE Zero]
normalize_scalar(values) ==
  LET total == AddAll(values)
  IN [j \in DOMAIN values |-> IF IsPositive(total) THEN Div(values[j], total) ELSE Q(1, Len(values))]
dot_product_scalar(x, y) == AddAll([j \in DOMAIN x |-> Mul(x[j], y[j])])
ScalarRow(k) ==
  CASE k.kernel = "compute_strategy_row" -> compute_strategy_row_scalar(k.regrets)
    [] k.kernel = "normalize_row" -> normalize_scalar(k.regrets)
    [] k.kernel = "discount_regrets" ->
         [j \in DOMAIN k.regrets |-> IF k.regrets[j] \in {Zero, NaN} THEN k.regrets[j]
            ELSE Mul(k.regrets[j], IF k.regrets[j][1] > 0 THEN PosScale ELSE NegScale)]
    [] k.kernel = "positive_regrets_and_total" ->
         [j \in DOMAIN k.regrets |-> IF IsNegative(k.regrets[j]) THEN Zero ELSE k.regrets[j]]
    [] OTHER -> [j \in DOMAIN k.regrets |-> Lane(k, j)]
ScalarTotal(k) ==
  CASE k.kernel = "dot_product" -> dot_product_scalar(k.regrets, k.values)
    [] k.kernel = "reduce_weighted_action_values" -> dot_product_scalar(k.regrets, k.values)
    [] OTHER -> AddAll([j \in DOMAIN k.regrets |-> Term(k, j)])
Returned == ~RunsLoop /\ (Normalises(row.kernel) => turn.normalising)
HasNaN(s) == \E j \in DOMAIN s : s[j] = NaN

\* Whatever the backend and the length, a call returns what the scalar kernel returns, and a
\* strategy row is a distribution.  On a row with a NaN the two rows differ on purpose: the
\* vector kernel finds no positive total and plays uniformly.
VectorSound ==
  Returned =>
    /\ ~(row.kernel = "compute_strategy_row" /\ HasNaN(row.regrets)) =>
         row.out = ScalarRow(row) /\ turn.total = ScalarTotal(row)
    /\ (Normalises(row.kernel) /\ row.out # <<>>) => AddAll(row.out) = One
    /\ row.kernel = "compute_strategy_row" => \A j \in DOMAIN row.out : ~IsNegative(row.out[j])
=============================================================================
