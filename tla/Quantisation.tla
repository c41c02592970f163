------------------------------ MODULE Quantisation ------------------------------
(***************************************************************************)
(* opentsp/quant.py in exact arithmetic: the entries of a tensor are       *)
(* integers, and a scale is a fraction <<num, den>>.  A product is that of *)
(* a row and a column, each with a scale of its own.                       *)
(***************************************************************************)
EXTENDS ScheduleMath

CONSTANTS
  QuantTensors,    \* bound: the entries of the tensors quantised
  GivenScales      \* bound: the scales given as an argument; none is {}
ASSUME QuantAssumption ==
  /\ QuantTensors \subseteq Seq(Int)
  /\ \A x \in QuantTensors : Len(x) <= 133144    \* 127 * 127 that often fits an int32
  /\ \A given_ \in GivenScales : given_ \subseteq Int \X (Nat \ {0})

VARIABLE product    \* the operands and the accumulator of one int8 product, or the exception

QuantInit == product = <<>>

Abs(x) == IF x < 0 THEN -x ELSE x

\* eps stands for a scale below that of any tensor but zero.
eps == <<1, 1000>>
Magnitudes(x) == {0} \cup {Abs(x[i]) : i \in DOMAIN x}
symmetric_int8_scale(x) ==
  LET max_abs == CHOOSE m \in Magnitudes(x) : \A v \in Magnitudes(x) : v <= m IN
  IF max_abs = 0 THEN eps ELSE <<max_abs, 127>>

\* np.round: halves to even.
MutantRound(num, den) == num \div den
Round(num, den) ==
  LET below == num \div den twice == 2 * (num % den) IN
  IF twice < den \/ (twice = den /\ below % 2 = 0) THEN below ELSE below + 1

Clip(v) == IF v > 127 THEN 127 ELSE IF v < -127 THEN -127 ELSE v

quantize_symmetric_int8(x, scale) ==
  LET used == IF scale = {} THEN symmetric_int8_scale(x) ELSE CHOOSE s \in scale : TRUE IN
  [x |-> x, scale |-> used, derived |-> scale = {},
   q |-> IF used[1] <= 0 THEN <<>> ELSE [i \in DOMAIN x |-> Clip(Round(x[i] * used[2], used[1]))]]

Dot(a, b) == SumOf([i \in DOMAIN a |-> a[i] * b[i]])

\* Quantise both operands and multiply: int8_matmul_reference.
QuantizeAndMultiply ==
  /\ product = <<>>
  /\ \E a, b \in QuantTensors, scale \in GivenScales :
       LET qa == quantize_symmetric_int8(a, scale) qb == quantize_symmetric_int8(b, {}) IN
       /\ Len(a) = Len(b)
       /\ product' = IF qa.scale[1] <= 0 THEN <<"ValueError">> 
                     ELSE <<"product", qa, qb, Dot(qa.q, qb.q)>>

\* One product of any two of the tensors.
QuantSpec == QuantInit /\ [][QuantizeAndMultiply]_product

-----------------------------------------------------------------------------
\* What is left of a derived scale when both sides are multiplied by 127.
Peak(t) == IF t.scale = eps THEN 0 ELSE t.scale[1]

\* The magnitudes of the entries, added up.
Mags(t) == SumOf([i \in DOMAIN t.x |-> Abs(t.x[i])])

\* With the scales derived from the operands, an entry is off by at most half a
\* step, and the dequantised product by no more than the errors of the entries
\* allow: out and x @ y are compared after multiplying by 4 * 127 * 127.
QuantErrorBounded ==
  (product # <<>> /\ product[1] = "product" /\ product[2].derived) =>
    LET a == product[2] b == product[3] acc == product[4]
    IN /\ \A t \in {a, b} : \A i \in DOMAIN t.x :
            2 * Abs(127 * t.x[i] - Peak(t) * t.q[i]) <= Peak(t)
       /\ 4 * Abs(127 * 127 * Dot(a.x, b.x) - Peak(a) * Peak(b) * acc)
            <= 2 * 127 * (Mags(a) * Peak(b) + Mags(b) * Peak(a)) + Len(a.x) * Peak(a) * Peak(b)
=============================================================================
