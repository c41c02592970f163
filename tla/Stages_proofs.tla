---------------------------- MODULE Stages_proofs ----------------------------
(***************************************************************************)
(* The stages of the toolchain, each by itself and for all its inputs: the *)
(* allocation and the order of the compiler; the loops of the two          *)
(* schedulers, for tiles that do not divide a shape too; and the verdict   *)
(* of the bank checker, which is exact for every list of accesses: the     *)
(* checker counts the accesses of a cycle and a bank, the property speaks  *)
(* of accesses that overlap pairwise, and these meet in the cycle in which *)
(* the last of them begins.                                                *)
(***************************************************************************)
EXTENDS MemoryBank, FiniteSetTheorems, WellFoundedInduction,
        Compiler, ScheduleVectors, AttentionSchedule, Quantisation, TLAPS

-----------------------------------------------------------------------------
(* Induction over natural numbers and the sums of lists.                   *)

\* A set of natural numbers has a least one.
LEMMA LeastNat ==
  ASSUME NEW T \in SUBSET Nat, T # {}
  PROVE  \E x \in T : \A y \in T : x <= y
<1>1. \E x \in T : \A y \in T : ~ (<<y, x>> \in OpToRel(<, Nat))
  BY NatLessThanWellFounded, WFMin
<1>2. PICK x \in T : \A y \in T : ~ (<<y, x>> \in OpToRel(<, Nat))
  BY <1>1
<1>3. \A y \in T : ~ (y < x)
  BY <1>2 DEF OpToRel
<1>4. \A y \in T : x <= y
  BY <1>3
<1> QED BY <1>4

\* A set that holds 0 and, below top, with a number its successor, holds 0 .. top.
LEMMA UpTo ==
  ASSUME NEW top \in Nat, NEW S, 0 \in S, \A i \in 0 .. top - 1 : i \in S => i + 1 \in S
  PROVE  \A i \in 0 .. top : i \in S
<1>. DEFINE M == {i \in 0 .. top : i \notin S}
<1>1. SUFFICES ASSUME M # {} PROVE FALSE
  OBVIOUS
<1>2. M \in SUBSET Nat
  OBVIOUS
<1>3. PICK x \in M : \A y \in M : x <= y
  <2>. HIDE DEF M
  <2>. QED BY <1>1, <1>2, LeastNat
<1>4. x # 0 /\ x - 1 \in 0 .. top - 1 /\ (x - 1) + 1 = x /\ ~(x <= x - 1)
  OBVIOUS
<1>5. x - 1 \in S
  BY <1>3, <1>4
<1>6. QED
  BY <1>4, <1>5

\* f goes from base through top steps.
Iterates(f, top, base, step) == f[0] = base /\ \A i \in 1 .. top : f[i] = step[i][f[i - 1]]

\* A step function can be iterated top times.
LEMMA Iterated ==
  ASSUME NEW top \in Nat, NEW S, NEW base \in S, NEW step \in [(1 .. top) -> [S -> S]]
  PROVE  \E f \in [0 .. top -> S] : Iterates(f, top, base, step)
<1>. DEFINE Good(f, k) == f[0] = base /\ \A i \in 1 .. k : f[i] = step[i][f[i - 1]]
           Done == {k \in 0 .. top : \E f \in [0 .. k -> S] : Good(f, k)}
<1>1. \E f \in [0 .. 0 -> S] : Good(f, 0)
  <2>. DEFINE f == [i \in 0 .. 0 |-> base]
  <2>1. f \in [0 .. 0 -> S]
    OBVIOUS
  <2>2. f[0] = base /\ \A i \in 1 .. 0 : f[i] = step[i][f[i - 1]]
    OBVIOUS
  <2>. HIDE DEF f
  <2>3. QED
    BY <2>1, <2>2
<1>2. ASSUME NEW k \in 0 .. top - 1, \E f \in [0 .. k -> S] : Good(f, k)
      PROVE  \E g \in [0 .. k + 1 -> S] : Good(g, k + 1)
  <2>1. PICK f \in [0 .. k -> S] : Good(f, k)
    BY <1>2
  <2>. DEFINE g == [i \in 0 .. k + 1 |-> IF i <= k THEN f[i] ELSE step[i][f[k]]]
  <2>2. k \in Nat /\ k + 1 \in 1 .. top /\ f[k] \in S /\ step[k + 1] \in [S -> S]
    OBVIOUS
  <2>3. \A i \in 0 .. k + 1 : g[i] \in S
    <3>1. ASSUME NEW i \in 0 .. k + 1, i <= k PROVE g[i] \in S
      BY <2>2, <3>1
    <3>2. g[k + 1] = step[k + 1][f[k]]
      BY <2>2
    <3>3. step[k + 1][f[k]] \in S
      BY <2>2
    <3>4. \A i \in 0 .. k + 1 : i <= k \/ i = k + 1
      BY <2>2
    <3>5. QED
      BY <3>1, <3>2, <3>3, <3>4
  <2>4. g \in [0 .. k + 1 -> S]
    <3>1. g = [i \in 0 .. k + 1 |-> g[i]]
      OBVIOUS
    <3>. HIDE DEF g
    <3>2. QED
      BY <2>3, <3>1
  <2>5. g[0] = base
    BY <2>1, <2>2
  <2>6. \A i \in 1 .. k + 1 : g[i] = step[i][g[i - 1]]
    <3>1. ASSUME NEW i \in 1 .. k + 1, i <= k PROVE g[i] = step[i][g[i - 1]]
      <4>1. g[i] = f[i] /\ g[i - 1] = f[i - 1] /\ f[i] = step[i][f[i - 1]]
        BY <2>1, <2>2, <3>1
      <4>2. QED
        BY <4>1
    <3>2. g[k + 1] = step[k + 1][f[k]] /\ g[(k + 1) - 1] = f[k]
      BY <2>2
    <3>3. \A i \in 1 .. k + 1 : i <= k \/ i = k + 1
      BY <2>2
    <3>. HIDE DEF g
    <3>4. QED
      BY <3>1, <3>2, <3>3
  <2>. HIDE DEF g
  <2>7. QED
    BY <2>4, <2>5, <2>6
<1>. HIDE DEF Good
<1>3. 0 \in Done /\ \A k \in 0 .. top - 1 : k \in Done => k + 1 \in Done
  <2>1. 0 \in Done
    BY <1>1
  <2>2. ASSUME NEW k \in 0 .. top - 1, k \in Done PROVE k + 1 \in Done
    <3>1. k + 1 \in 0 .. top
      OBVIOUS
    <3>2. \E g \in [0 .. k + 1 -> S] : Good(g, k + 1)
      BY <1>2, <2>2
    <3>3. QED
      BY <3>1, <3>2
  <2>3. QED
    BY <2>1, <2>2
<1>4. top \in Done
  <2>. HIDE DEF Done
  <2>1. \A i \in 0 .. top : i \in Done
    BY <1>3, UpTo
  <2>2. QED
    BY <2>1
<1>5. QED
  BY <1>4 DEF Good, Iterates

\* What SumOf computes from a list: one step for each of its elements.
LEMMA SumRun ==
  ASSUME NEW list \in Seq(Int)
  PROVE  \E f \in [0 .. Len(list) -> Int] :
           /\ f[0] = 0 /\ SumOf(list) = f[Len(list)]
           /\ \A i \in 1 .. Len(list) : f[i] = f[i - 1] + list[i]
<1>. DEFINE top == Len(list)
            step == [i \in 1 .. top |-> [x \in Int |-> x + list[i]]]
            Eq(u) == u = [i \in 0 .. top |-> IF i = 0 THEN 0 ELSE u[i - 1] + list[i]]
            upto == CHOOSE u : Eq(u)
<1>1. top \in Nat
  OBVIOUS
<1>2. \A i \in 1 .. top : list[i] \in Int
  OBVIOUS
<1>3. SumOf(list) = upto[top]
  BY DEF SumOf
<1>. HIDE DEF top
<1>4. step \in [1 .. top -> [Int -> Int]]
  BY <1>2
<1>5. PICK f \in [0 .. top -> Int] : Iterates(f, top, 0, step)
  <2>1. 0 \in Int
    OBVIOUS
  <2>. HIDE DEF step
  <2>2. QED
    BY <1>1, <1>4, <2>1, Iterated
<1>6. f[0] = 0 /\ \A i \in 1 .. top : f[i] = f[i - 1] + list[i]
  <2>1. \A i \in 1 .. top : i - 1 \in 0 .. top /\ f[i - 1] \in Int
    BY <1>1
  <2>2. \A i \in 1 .. top : step[i][f[i - 1]] = f[i - 1] + list[i]
    BY <2>1
  <2>. HIDE DEF step
  <2>3. QED
    BY <1>5, <2>2 DEF Iterates
<1>7. Eq(f)
  <2>1. f = [i \in 0 .. top |-> f[i]]
    OBVIOUS
  <2>2. \A i \in 0 .. top : i # 0 => i \in 1 .. top
    BY <1>1
  <2>3. QED
    BY <1>6, <2>1, <2>2
<1>8. Eq(upto)
  BY <1>7
<1>. HIDE DEF upto
<1>9. \A i \in 0 .. top : upto[i] = f[i]
  <2>. DEFINE Same == {i \in 0 .. top : upto[i] = f[i]}
  <2>1. 0 \in Same
    BY <1>1, <1>6, <1>8
  <2>2. ASSUME NEW i \in 0 .. top - 1, i \in Same PROVE i + 1 \in Same
    <3>1. i + 1 \in 1 .. top /\ (i + 1) - 1 = i /\ i + 1 \in 0 .. top /\ i + 1 # 0
      BY <1>1
    <3>2. upto[i + 1] = upto[i] + list[i + 1] /\ f[i + 1] = f[i] + list[i + 1]
      BY <1>6, <1>8, <3>1
    <3>3. QED
      BY <2>2, <3>1, <3>2
  <2>. HIDE DEF Same
  <2>3. \A i \in 0 .. top : i \in Same
    BY <1>1, <2>1, <2>2, UpTo
  <2>4. QED
    BY <2>3 DEF Same
<1>10. SumOf(list) = f[top]
  BY <1>1, <1>3, <1>9
<1>11. QED
  BY <1>6, <1>10 DEF top

\* What ProductOf computes from a list: one step for each of its elements.
LEMMA ProductRun ==
  ASSUME NEW list \in Seq(Nat)
  PROVE  \E f \in [0 .. Len(list) -> Nat] :
           /\ f[0] = 1 /\ ProductOf(list) = f[Len(list)]
           /\ \A i \in 1 .. Len(list) : f[i] = f[i - 1] * list[i]
<1>. DEFINE top == Len(list)
            step == [i \in 1 .. top |-> [x \in Nat |-> x * list[i]]]
            Eq(u) == u = [i \in 0 .. top |-> IF i = 0 THEN 1 ELSE u[i - 1] * list[i]]
            upto == CHOOSE u : Eq(u)
<1>1. top \in Nat
  OBVIOUS
<1>2. \A i \in 1 .. top : list[i] \in Nat
  OBVIOUS
<1>3. ProductOf(list) = upto[top]
  BY DEF ProductOf
<1>. HIDE DEF top
<1>4. step \in [1 .. top -> [Nat -> Nat]]
  BY <1>2
<1>5. PICK f \in [0 .. top -> Nat] : Iterates(f, top, 1, step)
  <2>1. 1 \in Nat
    OBVIOUS
  <2>. HIDE DEF step
  <2>2. QED
    BY <1>1, <1>4, <2>1, Iterated
<1>6. f[0] = 1 /\ \A i \in 1 .. top : f[i] = f[i - 1] * list[i]
  <2>1. \A i \in 1 .. top : i - 1 \in 0 .. top /\ f[i - 1] \in Nat
    BY <1>1
  <2>2. \A i \in 1 .. top : step[i][f[i - 1]] = f[i - 1] * list[i]
    BY <2>1
  <2>. HIDE DEF step
  <2>3. QED
    BY <1>5, <2>2 DEF Iterates
<1>7. Eq(f)
  <2>1. f = [i \in 0 .. top |-> f[i]]
    OBVIOUS
  <2>2. \A i \in 0 .. top : i # 0 => i \in 1 .. top
    BY <1>1
  <2>3. QED
    BY <1>6, <2>1, <2>2
<1>8. Eq(upto)
  BY <1>7
<1>. HIDE DEF upto
<1>9. \A i \in 0 .. top : upto[i] = f[i]
  <2>. DEFINE Same == {i \in 0 .. top : upto[i] = f[i]}
  <2>1. 0 \in Same
    BY <1>1, <1>6, <1>8
  <2>2. ASSUME NEW i \in 0 .. top - 1, i \in Same PROVE i + 1 \in Same
    <3>1. i + 1 \in 1 .. top /\ (i + 1) - 1 = i /\ i + 1 \in 0 .. top /\ i + 1 # 0
      BY <1>1
    <3>2. upto[i + 1] = upto[i] * list[i + 1] /\ f[i + 1] = f[i] * list[i + 1]
      BY <1>6, <1>8, <3>1
    <3>3. QED
      BY <2>2, <3>1, <3>2
  <2>. HIDE DEF Same
  <2>3. \A i \in 0 .. top : i \in Same
    BY <1>1, <2>1, <2>2, UpTo
  <2>4. QED
    BY <2>3 DEF Same
<1>10. ProductOf(list) = f[top]
  BY <1>1, <1>3, <1>9
<1>11. QED
  BY <1>6, <1>10 DEF top

\* The product of natural numbers is one.
LEMMA ProductType ==
  ASSUME NEW list \in Seq(Nat)
  PROVE  ProductOf(list) \in Nat
<1>1. PICK f \in [0 .. Len(list) -> Nat] : ProductOf(list) = f[Len(list)]
  BY ProductRun
<1>2. Len(list) \in 0 .. Len(list)
  OBVIOUS
<1>3. QED
  BY <1>1, <1>2

\* The sum of integers is one.
LEMMA SumType ==
  ASSUME NEW list \in Seq(Int)
  PROVE  SumOf(list) \in Int
<1>1. PICK f \in [0 .. Len(list) -> Int] : SumOf(list) = f[Len(list)]
  BY SumRun
<1>2. Len(list) \in 0 .. Len(list)
  OBVIOUS
<1>3. QED
  BY <1>1, <1>2

\* The sum of an empty list, and of one with an element more.
LEMMA SumEmpty == SumOf(<<>>) = 0
<1>1. <<>> \in Seq(Int) /\ Len(<<>>) = 0
  OBVIOUS
<1>2. QED
  BY <1>1, SumRun

LEMMA SumAppend ==
  ASSUME NEW list \in Seq(Int), NEW x \in Int
  PROVE  SumOf(Append(list, x)) = SumOf(list) + x
<1>. DEFINE more == Append(list, x)
            top == Len(list)
<1>1. more \in Seq(Int) /\ top \in Nat /\ Len(more) = top + 1 /\ more[top + 1] = x
  OBVIOUS
<1>2. \A i \in 1 .. top : more[i] = list[i]
  OBVIOUS
<1>3. PICK f \in [0 .. top -> Int] :
           /\ f[0] = 0 /\ SumOf(list) = f[top]
           /\ \A i \in 1 .. top : f[i] = f[i - 1] + list[i]
  BY SumRun
<1>. HIDE DEF more
<1>4. PICK g \in [0 .. Len(more) -> Int] :
           /\ g[0] = 0 /\ SumOf(more) = g[Len(more)]
           /\ \A i \in 1 .. Len(more) : g[i] = g[i - 1] + more[i]
  BY <1>1, SumRun
<1>. HIDE DEF top
<1>. DEFINE Same == {i \in 0 .. top : f[i] = g[i]}
<1>5. 0 \in Same
  BY <1>1, <1>3, <1>4
<1>6. ASSUME NEW i \in 0 .. top - 1, i \in Same PROVE i + 1 \in Same
  <2>1. /\ i + 1 \in 1 .. top /\ i + 1 \in 1 .. Len(more) /\ (i + 1) - 1 = i
        /\ i + 1 \in 0 .. top
    BY <1>1
  <2>2. f[i + 1] = f[i] + list[i + 1] /\ g[i + 1] = g[i] + more[i + 1]
    BY <1>3, <1>4, <2>1
  <2>3. QED
    BY <1>2, <1>6, <2>1, <2>2
<1>. HIDE DEF Same
<1>7. \A i \in 0 .. top : i \in Same
  BY <1>1, <1>5, <1>6, UpTo
<1>8. f[top] = g[top]
  BY <1>1, <1>7 DEF Same
<1>9. g[top + 1] = g[top] + x
  <2>1. top + 1 \in 1 .. Len(more) /\ (top + 1) - 1 = top
    BY <1>1
  <2>2. QED
    BY <1>1, <1>4, <2>1
<1>10. SumOf(more) = SumOf(list) + x
  BY <1>1, <1>3, <1>4, <1>8, <1>9 DEF top
<1>11. QED
  BY <1>10 DEF more

-----------------------------------------------------------------------------
(* The compiler.                                                           *)

Hw == [num_banks : Nat \ {0}, bank_size_bytes : Nat, mac_lanes : Nat \ {0},
       elem_lanes : Nat \ {0}, matmul : Nat, elementwise : Nat, softmax : Nat]

TensorOK(spec) ==
  /\ spec.name \in STRING /\ spec.shape \in Seq(Nat) /\ spec.bank \subseteq Nat
  /\ NumEl(spec) \in Nat /\ SizeBytes(spec) \in Nat

\* What CompilerAssumption says of the arguments, for a graph in hand.
ArgsOf(g, h) ==
  /\ g.tensors \in Seq({g.tensors[i] : i \in DOMAIN g.tensors})
  /\ g.ops \in Seq({g.ops[i] : i \in DOMAIN g.ops})
  /\ \A i \in DOMAIN g.tensors : TensorOK(g.tensors[i])
  /\ \A i \in DOMAIN g.ops : g.ops[i].inputs \in Seq(STRING) /\ g.ops[i].outputs \in Seq(STRING)
  /\ g.inputs \subseteq STRING
  /\ h \in Hw
ArgsOK == ArgsOf(graph, hw)

\* What validate knows before op m.
KnownBefore(m) == graph.inputs \cup Weights \cup UNION {Outs(graph.ops[j]) : j \in 1 .. m - 1}

Validated(m) ==
  \A i \in 1 .. m : Ins(graph.ops[i]) \subseteq KnownBefore(i) /\ Outs(graph.ops[i]) \subseteq TensorNames

\* The stages follow each other: what each of them has done so far.
Stages ==
  /\ compiling \in {"idle", "validate"} => allocations = <<>>
  /\ compiling \in {"idle", "validate", "allocate"} => schedule = <<>>
  /\ compiling = "idle" => n = 0
  /\ compiling = "validate" =>
       n <= Len(graph.ops) /\ Validated(n) /\ produced = KnownBefore(n + 1)
  /\ compiling = "allocate" => n = Len(allocations)
  /\ compiling = "schedule" => n = Len(schedule)
  /\ compiling \in {"allocate", "schedule", "compiled"} \/ schedule # <<>> =>
       Validated(Len(graph.ops))
  /\ compiling \in {"schedule", "compiled"} \/ schedule # <<>> =>
       Len(allocations) = Len(graph.tensors)

\* The allocations are those of the first tensors, the schedule that of the first ops.
Prefixes ==
  /\ Len(allocations) <= Len(graph.tensors)
  /\ \A i \in DOMAIN allocations : allocations[i].tensor = graph.tensors[i].name
  /\ Len(schedule) <= Len(graph.ops) /\ DOMAIN schedule = 1 .. Len(schedule)
  /\ \A i \in DOMAIN schedule :
       schedule[i].inputs = graph.ops[i].inputs /\ schedule[i].outputs = graph.ops[i].outputs

\* An allocation ends where its bank is filled to, or below.
Filled ==
  /\ \A b \in 0 .. hw.num_banks - 1 : bank_offsets[b] <= hw.bank_size_bytes
  /\ \A i \in DOMAIN allocations :
       allocations[i].offset + allocations[i].size_bytes <= bank_offsets[allocations[i].bank]
  /\ \A i, j \in DOMAIN allocations :
       i < j /\ allocations[i].bank = allocations[j].bank =>
         allocations[i].offset + allocations[i].size_bytes <= allocations[j].offset

ScheduleIsSeq == schedule \in Seq({schedule[i] : i \in DOMAIN schedule})

CompilerInv == CompilerTypeOK /\ ArgsOK /\ ScheduleIsSeq /\ Stages /\ Prefixes /\ Filled

-----------------------------------------------------------------------------
LEMMA CeilDivNat ==
  ASSUME NEW a \in Nat, NEW d \in Nat \ {0}
  PROVE  CeilDiv(a, d) \in Nat
  BY DEF CeilDiv

LEMMA ProductNat == \A a, b \in Nat : a * b \in Nat
  OBVIOUS

LEMMA PairOf ==
  ASSUME NEW S, NEW s \in Seq(S), Len(s) = 2
  PROVE  s[1] \in S /\ s[2] \in S
<1>1. 1 \in 1 .. Len(s) /\ 2 \in 1 .. Len(s)
  OBVIOUS
<1>2. \A i \in 1 .. Len(s) : s[i] \in S
  OBVIOUS
<1> QED BY <1>1, <1>2

\* A known name is that of a tensor.
LEMMA SpecOfName ==
  ASSUME ArgsOK, NEW name \in TensorNames
  PROVE  TensorOK(TensorSpec(name))
<1>1. \E i \in DOMAIN graph.tensors : graph.tensors[i].name = name
  BY DEF TensorNames
<1> DEFINE place == CHOOSE i \in DOMAIN graph.tensors : graph.tensors[i].name = name
<1>2. place \in DOMAIN graph.tensors
  BY <1>1
<1>3. TensorSpec(name) = graph.tensors[place]
  BY DEF TensorSpec
<1> HIDE DEF place
<1> QED BY <1>2, <1>3 DEF ArgsOK, ArgsOf

\* An op of two operands that is not refused has both, of two dimensions each.
LEMMA BinaryOperands ==
  ASSUME NEW op, op.kind \in Binary, Refusal(op) = "none"
  PROVE  /\ op.inputs[1] \in TensorNames /\ op.inputs[2] \in TensorNames
         /\ Len(Shape(op.inputs[1])) = 2 /\ Len(Shape(op.inputs[2])) = 2
<1> DEFINE ShapesAgree == LET a == Shape(op.inputs[1]) b == Shape(op.inputs[2]) IN
                   ~(Len(a) # 2 \/ Len(b) # 2
                       \/ a[2] # (IF op.kind = "matmul" THEN b[1] ELSE b[2]))
<1>1. op.inputs[1] \in TensorNames /\ op.inputs[2] \in TensorNames /\ ShapesAgree
  <2> HIDE DEF ShapesAgree
  <2>1. Refusal(op) = (IF op.inputs = <<>> THEN "IndexError"
                       ELSE IF op.inputs[1] \notin TensorNames THEN "KeyError"
                       ELSE IF Len(op.inputs) < 2 THEN "IndexError"
                       ELSE IF op.inputs[2] \notin TensorNames THEN "KeyError"
                       ELSE IF ~ShapesAgree THEN "ValueError" ELSE "none")
    BY Zenon DEF Refusal, ShapesAgree
  <2> QED BY <2>1
<1> QED BY <1>1

\* An op that is not refused takes a natural number of cycles, if its outputs are known.
LEMMA EstimateNat ==
  ASSUME ArgsOK, NEW op, op.inputs \in Seq(STRING), op.outputs \in Seq(STRING),
         Outs(op) \subseteq TensorNames, Refusal(op) = "none"
  PROVE  Estimate(op) \in Nat
<1>0. hw \in Hw
  BY DEF ArgsOK, ArgsOf
<1>1. ASSUME op.kind \in Binary PROVE Estimate(op) \in Nat
  <2>1. /\ op.inputs[1] \in TensorNames /\ op.inputs[2] \in TensorNames
        /\ Len(Shape(op.inputs[1])) = 2 /\ Len(Shape(op.inputs[2])) = 2
    BY <1>1, BinaryOperands
  <2>2. Shape(op.inputs[1]) \in Seq(Nat) /\ Shape(op.inputs[2]) \in Seq(Nat)
    BY <2>1, SpecOfName DEF Shape, TensorOK
  <2> DEFINE a == Shape(op.inputs[1])
             b == Shape(op.inputs[2])
  <2>3. a[1] \in Nat /\ a[2] \in Nat /\ b[1] \in Nat /\ b[2] \in Nat
    <3> HIDE DEF a, b
    <3>1. a \in Seq(Nat) /\ b \in Seq(Nat) /\ Len(a) = 2 /\ Len(b) = 2
      BY <2>1, <2>2 DEF a, b
    <3> QED BY <3>1, PairOf
  <2> HIDE DEF a, b
  <2>4. a[1] * b[2] * a[2] \in Nat /\ 2 * b[1] * b[2] \in Nat
    BY <2>3, ProductNat
  <2>5. CeilDiv(a[1] * b[2] * a[2], hw.mac_lanes) \in Nat
        /\ CeilDiv(2 * b[1] * b[2], hw.mac_lanes) \in Nat
    BY <1>0, <2>4, CeilDivNat DEF Hw
  <2>6. hw.matmul \in Nat /\ hw.softmax \in Nat
    BY <1>0 DEF Hw
  <2>7. CASE op.kind = "matmul"
    <3>1. Estimate(op) = hw.matmul + CeilDiv(a[1] * b[2] * a[2], hw.mac_lanes)
      BY <2>7 DEF Estimate, Elementwise, a, b
    <3> DEFINE c == CeilDiv(a[1] * b[2] * a[2], hw.mac_lanes)
    <3>2. c \in Nat
      BY <2>5
    <3> HIDE DEF c
    <3>3. hw.matmul + c \in Nat
      BY <2>6, <3>2
    <3> QED BY <3>1, <3>3 DEF c
  <2>8. CASE op.kind = "attention_decode"
    <3>1. Estimate(op) = hw.softmax + CeilDiv(2 * b[1] * b[2], hw.mac_lanes) + b[1]
      BY <2>8 DEF Estimate, Elementwise, b
    <3> DEFINE c == CeilDiv(2 * b[1] * b[2], hw.mac_lanes)
    <3>2. c \in Nat
      BY <2>5
    <3> HIDE DEF c
    <3>3. hw.softmax + c + b[1] \in Nat
      BY <2>3, <2>6, <3>2
    <3> QED BY <3>1, <3>3 DEF c
  <2> QED BY <1>1, <2>7, <2>8 DEF Binary
<1>2. ASSUME op.kind \notin Binary PROVE Estimate(op) \in Nat
  <2>1. op.outputs # <<>> /\ op.kind \in Elementwise \cup {"softmax"}
    BY <1>2 DEF Refusal
  <2>2. op.outputs[1] \in Outs(op)
    BY <2>1 DEF Outs
  <2>3. NumEl(TensorSpec(op.outputs[1])) \in Nat
    BY <2>2, SpecOfName DEF TensorOK
  <2>4. CeilDiv(NumEl(TensorSpec(op.outputs[1])), hw.elem_lanes) \in Nat
    BY <1>0, <2>3, CeilDivNat DEF Hw
  <2>5. hw.softmax \in Nat /\ hw.elementwise \in Nat
    BY <1>0 DEF Hw
  <2>6. CASE op.kind = "softmax"
    BY <2>4, <2>5, <2>6 DEF Estimate
  <2>7. CASE op.kind \in Elementwise
    BY <2>4, <2>5, <2>7 DEF Estimate, Elementwise
  <2> QED BY <2>1, <2>6, <2>7
<1> QED BY <1>1, <1>2

-----------------------------------------------------------------------------
LEMMA CompilerStarts == CompilerInit => CompilerInv
<1> SUFFICES ASSUME CompilerInit PROVE CompilerInv
  OBVIOUS
<1>1. hw \in Hw
  <2>1. \E c \in Compilations : hw = c.hw
    BY CompilerAssumption DEF CompilerInit
  <2> QED BY <2>1, CompilerAssumption DEF Hw
<1>2. graph.tensors = <<>> /\ graph.ops = <<>> /\ graph.inputs = {}
  BY DEF CompilerInit, NoGraph
<1>3. ArgsOK
  BY <1>1, <1>2 DEF ArgsOK, ArgsOf
<1>4. CompilerTypeOK
  <2>1. bank_offsets \in [0 .. hw.num_banks - 1 -> Nat]
    BY <1>1 DEF CompilerInit, EmptyBanks, Hw
  <2>2. \A S : <<>> \in Seq(S)
    OBVIOUS
  <2>3. allocations = <<>> /\ n = 0 /\ clock = 0 /\ produced = {} /\ compiling = "idle"
    BY DEF CompilerInit
  <2> QED BY <2>1, <2>2, <2>3 DEF CompilerTypeOK
<1>5. ScheduleIsSeq /\ Prefixes
  BY <1>2 DEF ScheduleIsSeq, Prefixes, CompilerInit
<1>6. Stages
  BY DEF Stages, CompilerInit
<1>7. Filled
  <2>1. hw.bank_size_bytes \in Nat
    BY <1>1 DEF Hw
  <2>2. \A b \in 0 .. hw.num_banks - 1 : bank_offsets[b] = 0
    BY DEF CompilerInit, EmptyBanks
  <2>3. DOMAIN allocations = {}
    BY DEF CompilerInit
  <2> QED BY <2>1, <2>2, <2>3 DEF Filled
<1> QED BY <1>3, <1>4, <1>5, <1>6, <1>7 DEF CompilerInv

\* A graph a caller may pass.
LEMMA CallerArgs ==
  ASSUME NEW c \in Compilations
  PROVE  ArgsOf(c.graph, c.hw)
<1> DEFINE g == c.graph
<1>1. /\ g.tensors \in Seq([name : STRING, shape : Seq(Nat), nbytes : Nat \ {0},
                            is_weight : BOOLEAN, bank : SUBSET Nat])
      /\ g.ops \in Seq([name : STRING, kind : STRING, inputs : Seq(STRING), outputs : Seq(STRING),
                        max_len : SUBSET Nat])
      /\ g.inputs \subseteq STRING
      /\ c.hw \in Hw
  BY CompilerAssumption DEF Hw
<1> DEFINE T == [name : STRING, shape : Seq(Nat), nbytes : Nat \ {0},
                is_weight : BOOLEAN, bank : SUBSET Nat]
           O == [name : STRING, kind : STRING, inputs : Seq(STRING), outputs : Seq(STRING),
                 max_len : SUBSET Nat]
<1>2. \A r \in T : r.name \in STRING /\ r.shape \in Seq(Nat) /\ r.bank \subseteq Nat
  OBVIOUS
<1>3. \A r \in O : r.inputs \in Seq(STRING) /\ r.outputs \in Seq(STRING)
  OBVIOUS
<1>4. g.tensors \in Seq(T) /\ g.ops \in Seq(O)
  BY <1>1
<1> HIDE DEF T, O, g
<1>5. /\ \A i \in DOMAIN g.tensors : g.tensors[i] \in T
      /\ \A i \in DOMAIN g.ops : g.ops[i] \in O
  BY <1>4
<1>6. /\ g.tensors \in Seq({g.tensors[i] : i \in DOMAIN g.tensors})
      /\ g.ops \in Seq({g.ops[i] : i \in DOMAIN g.ops})
  BY <1>4
<1>7. \A i \in DOMAIN g.tensors : TensorOK(g.tensors[i])
  <2>1. \A r \in T : r.nbytes \in Nat
    BY DEF T
  <2>2. ASSUME NEW r \in T PROVE NumEl(r) \in Nat /\ SizeBytes(r) \in Nat
    <3>1. ProductOf(r.shape) \in Nat
      BY <1>2, ProductType
    <3>2. r.nbytes \in Nat
      BY <2>1
    <3>3. QED
      BY <3>1, <3>2 DEF NumEl, SizeBytes
  <2>3. QED
    BY <1>2, <1>5, <2>2 DEF TensorOK
<1>8. \A i \in DOMAIN g.ops : g.ops[i].inputs \in Seq(STRING) /\ g.ops[i].outputs \in Seq(STRING)
  BY <1>3, <1>5
<1>10. g.inputs \subseteq STRING
  BY <1>1 DEF g
<1> QED BY <1>1, <1>6, <1>7, <1>8, <1>10 DEF ArgsOf, g

-----------------------------------------------------------------------------
LEMMA SameGraph ==
  ASSUME UNCHANGED compilerArgs
  PROVE  /\ ArgsOK => ArgsOK'
         /\ TensorNames' = TensorNames /\ Weights' = Weights
         /\ \A m : KnownBefore(m)' = KnownBefore(m) /\ (Validated(m)' <=> Validated(m))
<1>0. graph' = graph /\ hw' = hw
  BY DEF compilerArgs
<1>1. TensorNames' = TensorNames /\ Weights' = Weights
  BY <1>0 DEF TensorNames, Weights
<1>2. \A m : KnownBefore(m)' = KnownBefore(m)
  BY <1>0, <1>1 DEF KnownBefore
<1>3. \A m : Validated(m)' <=> Validated(m)
  BY <1>0, <1>1, <1>2 DEF Validated
<1>4. ArgsOK => ArgsOK'
  BY <1>0 DEF ArgsOK, ArgsOf, TensorOK
<1> QED BY <1>1, <1>2, <1>3, <1>4

\* An exception changes nothing but the stage.
LEMMA RaiseStep ==
  ASSUME CompilerInv, NEW error \in Errors, Raise(error),
         compiling \in {"validate", "allocate", "schedule"}
  PROVE  CompilerInv'
<1>1. UNCHANGED <<compilerArgs, n, produced, bank_offsets, allocations, schedule, clock>>
      /\ compiling' = error
  BY DEF Raise
<1>2. graph' = graph /\ hw' = hw
  BY <1>1 DEF compilerArgs
<1>3. ArgsOK'
  BY <1>1, SameGraph DEF CompilerInv
<1>4. CompilerTypeOK'
  BY <1>1, <1>2 DEF CompilerInv, CompilerTypeOK
<1>5. ScheduleIsSeq' /\ Prefixes' /\ Filled'
  BY <1>1, <1>2 DEF CompilerInv, ScheduleIsSeq, Prefixes, Filled
<1>6. Stages'
  <2>1. \A m : Validated(m)' <=> Validated(m)
    BY <1>1, SameGraph
  <2>2. compiling' \notin {"idle", "validate", "allocate", "schedule", "compiled"}
    BY <1>1 DEF Errors
  <2>3. schedule # <<>> => Validated(Len(graph.ops)) /\ Len(allocations) = Len(graph.tensors)
    BY DEF CompilerInv, Stages
  <2> QED BY <1>1, <1>2, <2>1, <2>2, <2>3 DEF Stages
<1> QED BY <1>3, <1>4, <1>5, <1>6 DEF CompilerInv

LEMMA CompileStepOK ==
  ASSUME CompilerInv, compiling = "idle", NEW c \in Compilations, Compile(c)
  PROVE  CompilerInv'
<1>1. /\ graph' = c.graph /\ hw' = c.hw /\ n' = n /\ compiling' = "validate"
      /\ allocations' = allocations /\ schedule' = schedule /\ clock' = clock
      /\ produced' = graph'.inputs \cup Weights' /\ bank_offsets' = EmptyBanks'
  BY DEF Compile
<1>2. n = 0 /\ allocations = <<>> /\ schedule = <<>>
  BY DEF CompilerInv, Stages
<1>3. ArgsOK'
  BY <1>1, CallerArgs DEF ArgsOK
<1>4. Weights' \subseteq STRING /\ graph'.inputs \subseteq STRING
  BY <1>3 DEF ArgsOK, ArgsOf, TensorOK, Weights
<1>5. hw' \in Hw
  BY <1>3 DEF ArgsOK, ArgsOf
<1>6. CompilerTypeOK'
  <2>1. bank_offsets' \in [0 .. hw'.num_banks - 1 -> Nat]
    BY <1>1, <1>5 DEF EmptyBanks, Hw
  <2>2. \A S : <<>> \in Seq(S)
    OBVIOUS
  <2> QED BY <1>1, <1>2, <1>4, <2>1, <2>2 DEF CompilerInv, CompilerTypeOK
<1>7. ScheduleIsSeq' /\ Prefixes'
  BY <1>1, <1>2, <1>3 DEF ScheduleIsSeq, Prefixes, ArgsOK, ArgsOf
<1>8. Stages'
  <2>1. KnownBefore(1)' = produced'
    BY <1>1 DEF KnownBefore
  <2>2. Validated(0)'
    BY DEF Validated
  <2> QED BY <1>1, <1>2, <1>3, <2>1, <2>2 DEF Stages, ArgsOK, ArgsOf
<1>9. Filled'
  <2>1. hw'.bank_size_bytes \in Nat
    BY <1>5 DEF Hw
  <2>2. \A b \in 0 .. hw'.num_banks - 1 : bank_offsets'[b] = 0
    BY <1>1 DEF EmptyBanks
  <2>3. DOMAIN allocations' = {}
    BY <1>1, <1>2
  <2> QED BY <2>1, <2>2, <2>3 DEF Filled
<1> QED BY <1>3, <1>6, <1>7, <1>8, <1>9 DEF CompilerInv

LEMMA ValidateOpStep ==
  ASSUME CompilerInv, ValidateOp
  PROVE  CompilerInv'
<1> DEFINE op == graph.ops[n + 1]
<1>0. compiling = "validate" /\ n < Len(graph.ops) /\ n \in Nat
  BY DEF ValidateOp, CompilerInv, CompilerTypeOK
<1>1. CASE Raise("ValueError")
  BY <1>0, <1>1, RaiseStep DEF Errors
<1>2. CASE /\ Missing(op) = {} /\ Outs(op) \subseteq TensorNames
           /\ produced' = produced \cup Outs(op) /\ n' = n + 1
           /\ UNCHANGED <<compilerArgs, compiling, bank_offsets, allocations, schedule, clock>>
  <2>1. UNCHANGED compilerArgs /\ graph' = graph /\ hw' = hw /\ compiling' = compiling
        /\ bank_offsets' = bank_offsets /\ allocations' = allocations
        /\ schedule' = schedule /\ clock' = clock
    BY <1>2 DEF compilerArgs
  <2>2. Len(graph.ops) \in Nat /\ n + 1 \in DOMAIN graph.ops /\ op.outputs \in Seq(STRING)
    <3>1. /\ graph.ops \in Seq({graph.ops[i] : i \in DOMAIN graph.ops})
          /\ \A i \in DOMAIN graph.ops : graph.ops[i].outputs \in Seq(STRING)
      BY DEF CompilerInv, ArgsOK, ArgsOf
    <3>2. Len(graph.ops) \in Nat /\ n + 1 \in DOMAIN graph.ops
      BY <1>0, <3>1
    <3> QED BY <3>1, <3>2
  <2>3. Outs(op) \subseteq STRING
    BY <2>2 DEF Outs
  <2>4. CompilerTypeOK'
    <3>1. n' \in Nat /\ produced' = produced \cup Outs(op)
      BY <1>0, <1>2
    <3> HIDE DEF op
    <3>2. produced' \subseteq STRING
      BY <2>3, <3>1 DEF CompilerInv, CompilerTypeOK
    <3> QED BY <2>1, <3>1, <3>2 DEF CompilerInv, CompilerTypeOK
  <2>5. ArgsOK'
    BY <2>1, SameGraph DEF CompilerInv
  <2>6. ScheduleIsSeq' /\ Prefixes' /\ Filled'
    BY <2>1 DEF CompilerInv, ScheduleIsSeq, Prefixes, Filled
  <2>7. Validated(n) /\ produced = KnownBefore(n + 1) /\ allocations = <<>> /\ schedule = <<>>
    BY <1>0 DEF CompilerInv, Stages
  <2>8. Ins(op) \subseteq KnownBefore(n + 1)
    BY <1>2, <2>7 DEF Missing
  <2>9. Validated(n + 1)
    <3>1. \A i \in 1 .. n + 1 : i \in 1 .. n \/ i = n + 1
      BY <1>0
    <3> QED BY <1>2, <2>7, <2>8, <3>1 DEF Validated
  <2>10. KnownBefore(n + 2) = produced \cup Outs(op)
    <3> DEFINE I == 1 .. (n + 1) - 1
    <3>1. 1 .. (n + 2) - 1 = I \cup {n + 1}
      BY <1>0
    <3> HIDE DEF I
    <3> DEFINE All  == UNION {Outs(graph.ops[j]) : j \in I \cup {n + 1}}
               Past == UNION {Outs(graph.ops[j]) : j \in I}
    <3>2. All = Past \cup Outs(op)
      <4>1. \A x : x \in All <=> \E j \in I \cup {n + 1} : x \in Outs(graph.ops[j])
        BY Zenon
      <4>2. \A x : x \in Past <=> \E j \in I : x \in Outs(graph.ops[j])
        BY Zenon
      <4> HIDE DEF All, Past
      <4> QED BY <4>1, <4>2
    <3>3. KnownBefore(n + 1) = graph.inputs \cup Weights \cup Past
      BY DEF KnownBefore, I
    <3>4. KnownBefore(n + 2) = graph.inputs \cup Weights \cup All
      BY <3>1 DEF KnownBefore
    <3> HIDE DEF All, Past
    <3> QED BY <2>7, <3>2, <3>3, <3>4
  <2>11. n + 2 = n' + 1 /\ n' <= Len(graph.ops)
    BY <1>0, <1>2, <2>2
  <2>12. Stages'
    BY <1>0, <1>2, <2>1, <2>7, <2>9, <2>10, <2>11, SameGraph DEF Stages
  <2> QED BY <2>4, <2>5, <2>6, <2>12 DEF CompilerInv
<1> QED BY <1>1, <1>2 DEF ValidateOp

LEMMA ValidateOutputsStep ==
  ASSUME CompilerInv, ValidateOutputs
  PROVE  CompilerInv'
<1>0. compiling = "validate" /\ n = Len(graph.ops)
  BY DEF ValidateOutputs
<1>1. CASE Raise("ValueError")
  BY <1>0, <1>1, RaiseStep DEF Errors
<1>2. CASE /\ compiling' = "allocate" /\ n' = 0
           /\ UNCHANGED <<compilerArgs, produced, bank_offsets, allocations, schedule, clock>>
  <2>1. UNCHANGED compilerArgs /\ graph' = graph /\ hw' = hw /\ produced' = produced
        /\ bank_offsets' = bank_offsets /\ allocations' = allocations
        /\ schedule' = schedule /\ clock' = clock
    BY <1>2 DEF compilerArgs
  <2>2. CompilerTypeOK'
    BY <1>2, <2>1 DEF CompilerInv, CompilerTypeOK
  <2>3. ArgsOK'
    BY <2>1, SameGraph DEF CompilerInv
  <2>4. ScheduleIsSeq' /\ Prefixes' /\ Filled'
    BY <2>1 DEF CompilerInv, ScheduleIsSeq, Prefixes, Filled
  <2>5. Validated(Len(graph.ops)) /\ allocations = <<>> /\ schedule = <<>>
    BY <1>0 DEF CompilerInv, Stages
  <2>6. Stages'
    BY <1>2, <2>1, <2>5, SameGraph DEF Stages
  <2> QED BY <2>2, <2>3, <2>4, <2>6 DEF CompilerInv
<1> QED BY <1>1, <1>2 DEF ValidateOutputs

LEMMA AllocatedAllStep ==
  ASSUME CompilerInv, AllocatedAll
  PROVE  CompilerInv'
<1>1. /\ compiling = "allocate" /\ n = Len(graph.tensors) /\ compiling' = "schedule" /\ n' = 0
      /\ UNCHANGED compilerArgs /\ graph' = graph /\ hw' = hw /\ produced' = produced
      /\ bank_offsets' = bank_offsets /\ allocations' = allocations
      /\ schedule' = schedule /\ clock' = clock
  BY DEF AllocatedAll, compilerArgs
<1>2. CompilerTypeOK'
  BY <1>1 DEF CompilerInv, CompilerTypeOK
<1>3. ArgsOK'
  BY <1>1, SameGraph DEF CompilerInv
<1>4. ScheduleIsSeq' /\ Prefixes' /\ Filled'
  BY <1>1 DEF CompilerInv, ScheduleIsSeq, Prefixes, Filled
<1>5. Validated(Len(graph.ops)) /\ n = Len(allocations) /\ schedule = <<>>
  BY <1>1 DEF CompilerInv, Stages
<1>6. Stages'
  BY <1>1, <1>5, SameGraph DEF Stages
<1> QED BY <1>2, <1>3, <1>4, <1>6 DEF CompilerInv

LEMMA ScheduledAllStep ==
  ASSUME CompilerInv, ScheduledAll
  PROVE  CompilerInv'
<1>1. /\ compiling = "schedule" /\ compiling' = "compiled" /\ n' = 0
      /\ UNCHANGED compilerArgs /\ graph' = graph /\ hw' = hw /\ produced' = produced
      /\ bank_offsets' = bank_offsets /\ allocations' = allocations
      /\ schedule' = schedule /\ clock' = clock
  BY DEF ScheduledAll, compilerArgs
<1>2. CompilerTypeOK'
  BY <1>1 DEF CompilerInv, CompilerTypeOK
<1>3. ArgsOK'
  BY <1>1, SameGraph DEF CompilerInv
<1>4. ScheduleIsSeq' /\ Prefixes' /\ Filled'
  BY <1>1 DEF CompilerInv, ScheduleIsSeq, Prefixes, Filled
<1>5. Validated(Len(graph.ops)) /\ Len(allocations) = Len(graph.tensors)
  BY <1>1 DEF CompilerInv, Stages
<1>6. Stages'
  BY <1>1, <1>5, SameGraph DEF Stages
<1> QED BY <1>2, <1>3, <1>4, <1>6 DEF CompilerInv

LEMMA AllocateTensorStep ==
  ASSUME CompilerInv, AllocateTensor
  PROVE  CompilerInv'
<1> DEFINE spec == graph.tensors[n + 1]
           size == SizeBytes(spec)
           new  == [tensor |-> spec.name, bank |-> Bank, offset |-> bank_offsets[Bank],
                    size_bytes |-> size]
<1>0. compiling = "allocate" /\ n < Len(graph.tensors) /\ n \in Nat
  BY DEF AllocateTensor, CompilerInv, CompilerTypeOK
<1>1. CASE Raise("IndexError") \/ Raise("MemoryError")
  BY <1>0, <1>1, RaiseStep DEF Errors
<1>2. CASE /\ Bank < hw.num_banks /\ ~Beyond(size) /\ TakeRoom(size)
           /\ allocations' = Append(allocations, new)
           /\ n' = n + 1 /\ UNCHANGED <<compilerArgs, compiling, produced, schedule, clock>>
  <2>1. UNCHANGED compilerArgs /\ graph' = graph /\ hw' = hw /\ compiling' = compiling
        /\ produced' = produced /\ schedule' = schedule /\ clock' = clock /\ n' = n + 1
    BY <1>2 DEF compilerArgs
  <2>2. /\ hw.num_banks \in Nat \ {0} /\ hw.bank_size_bytes \in Nat
        /\ Len(graph.tensors) \in Nat /\ n + 1 \in DOMAIN graph.tensors /\ TensorOK(spec)
    <3>1. ArgsOf(graph, hw)
      BY <1>0 DEF CompilerInv, ArgsOK
    <3>2. hw.num_banks \in Nat \ {0} /\ hw.bank_size_bytes \in Nat
      BY <3>1 DEF ArgsOf, Hw
    <3>3. Len(graph.tensors) \in Nat /\ DOMAIN graph.tensors = 1 .. Len(graph.tensors)
      BY <3>1 DEF ArgsOf
    <3>4. n + 1 \in DOMAIN graph.tensors
      BY <1>0, <3>3
    <3> QED BY <3>1, <3>2, <3>3, <3>4 DEF ArgsOf
  <2>3. size \in Nat /\ spec.name \in STRING /\ spec.bank \subseteq Nat
    BY <2>2 DEF TensorOK
  <2> HIDE DEF spec, size
  <2>4. Bank \in 0 .. hw.num_banks - 1
    <3>1. Bank \in Nat
      <4>1. n % hw.num_banks \in Nat
        BY <1>0, <2>2
      <4>2. spec.bank # {} => (CHOOSE b \in spec.bank : TRUE) \in Nat
        BY <2>3
      <4> QED BY <4>1, <4>2 DEF Bank, spec
    <3> QED BY <1>2, <2>2, <3>1
  <2> DEFINE bank == Bank
             old  == bank_offsets[bank]
  <2>5. bank \in 0 .. hw.num_banks - 1
    BY <2>4
  <2>6. bank_offsets \in [0 .. hw.num_banks - 1 -> Nat] /\ old \in Nat
    BY <2>5 DEF CompilerInv, CompilerTypeOK
  <2>7. bank_offsets' = [bank_offsets EXCEPT ![bank] = old + size]
    BY <1>2 DEF TakeRoom
  <2>8. old + size <= hw.bank_size_bytes
    BY <1>2, <2>2, <2>3, <2>6 DEF Beyond
  <2> DEFINE Allocation == [tensor : STRING, bank : 0 .. hw.num_banks - 1, offset : Nat, size_bytes : Nat]
  <2>9. new \in Allocation
    BY <2>3, <2>5, <2>6
  <2>10. /\ new.tensor = spec.name /\ new.bank = bank
         /\ new.offset = old /\ new.size_bytes = size
    BY DEF new
  <2>11. allocations \in Seq(Allocation) /\ n = Len(allocations) /\ schedule = <<>>
         /\ Validated(Len(graph.ops))
    BY <1>0 DEF CompilerInv, CompilerTypeOK, Stages
  <2> HIDE DEF new, Allocation, bank, old
  <2>12. \A i \in DOMAIN allocations : allocations[i] \in Allocation
    BY <2>11
  <2>13. /\ allocations' \in Seq(Allocation) /\ Len(allocations') = n + 1
         /\ DOMAIN allocations' = 1 .. n + 1 /\ DOMAIN allocations = 1 .. n
         /\ allocations'[n + 1] = new /\ \A i \in 1 .. n : allocations'[i] = allocations[i]
    BY <1>2, <2>9, <2>11
  <2>14. bank_offsets' \in [0 .. hw.num_banks - 1 -> Nat]
    BY <2>3, <2>5, <2>6, <2>7
  <2>15. CompilerTypeOK'
    <3>1. n' \in Nat
      BY <1>0, <2>1
    <3> QED BY <2>1, <2>13, <2>14, <3>1 DEF CompilerInv, CompilerTypeOK, Allocation
  <2>16. ArgsOK'
    BY <2>1, SameGraph DEF CompilerInv
  <2>17. ScheduleIsSeq'
    BY <2>1 DEF CompilerInv, ScheduleIsSeq
  <2>18. Prefixes'
    <3>1. \A i \in 1 .. n : allocations[i].tensor = graph.tensors[i].name
      BY <2>13 DEF CompilerInv, Prefixes
    <3>2. \A i \in 1 .. n + 1 : allocations'[i].tensor = graph.tensors[i].name
      BY <1>0, <2>10, <2>13, <3>1 DEF spec
    <3> QED BY <1>0, <2>1, <2>2, <2>13, <3>2 DEF CompilerInv, Prefixes
  <2>19. Stages'
    BY <1>0, <2>1, <2>11, <2>13, SameGraph DEF Stages
  <2>20. Filled'
    <3>1. \A b \in 0 .. hw.num_banks - 1 : bank_offsets[b] <= hw.bank_size_bytes
      BY DEF CompilerInv, Filled
    <3>2. \A b \in 0 .. hw.num_banks - 1 :
            bank_offsets'[b] = IF b = bank THEN old + size ELSE bank_offsets[b]
      BY <2>6, <2>7
    <3>3. \A b \in 0 .. hw.num_banks - 1 : bank_offsets'[b] <= hw.bank_size_bytes
      BY <2>8, <3>1, <3>2
    <3>4. \A b \in 0 .. hw.num_banks - 1 : bank_offsets[b] <= bank_offsets'[b]
      BY <2>3, <2>6, <3>2 DEF old
    <3>5. \A i \in 1 .. n : /\ allocations[i].bank \in 0 .. hw.num_banks - 1
                            /\ allocations[i].offset + allocations[i].size_bytes \in Nat
      BY <2>12, <2>13 DEF Allocation
    <3>6. \A i \in 1 .. n :
            allocations[i].offset + allocations[i].size_bytes <= bank_offsets[allocations[i].bank]
      BY <2>13 DEF CompilerInv, Filled
    <3>7. \A i \in 1 .. n + 1 :
            allocations'[i].offset + allocations'[i].size_bytes <= bank_offsets'[allocations'[i].bank]
      <4>1. ASSUME NEW i \in 1 .. n
            PROVE  allocations'[i].offset + allocations'[i].size_bytes
                     <= bank_offsets'[allocations'[i].bank]
        <5> DEFINE b == allocations[i].bank
                   e == allocations[i].offset + allocations[i].size_bytes
        <5>1. allocations'[i] = allocations[i]
          BY <2>13
        <5>2. b \in 0 .. hw.num_banks - 1 /\ e \in Nat /\ e <= bank_offsets[b]
          BY <3>5, <3>6
        <5>3. bank_offsets[b] \in Nat /\ bank_offsets'[b] \in Nat /\ bank_offsets[b] <= bank_offsets'[b]
          BY <2>6, <2>14, <3>4, <5>2
        <5> HIDE DEF b, e
        <5>4. e <= bank_offsets'[b]
          BY <5>2, <5>3
        <5> QED BY <5>1, <5>4 DEF b, e
      <4>2. allocations'[n + 1].offset + allocations'[n + 1].size_bytes
              <= bank_offsets'[allocations'[n + 1].bank]
        BY <2>3, <2>5, <2>6, <2>10, <2>13, <3>2
      <4>3. \A i \in 1 .. n + 1 : i \in 1 .. n \/ i = n + 1
        BY <1>0
      <4> QED BY <4>1, <4>2, <4>3
    <3>8. \A i, j \in 1 .. n + 1 :
            i < j /\ allocations'[i].bank = allocations'[j].bank =>
              allocations'[i].offset + allocations'[i].size_bytes <= allocations'[j].offset
      <4> SUFFICES ASSUME NEW i \in 1 .. n + 1, NEW j \in 1 .. n + 1, i < j,
                          allocations'[i].bank = allocations'[j].bank
                   PROVE  allocations'[i].offset + allocations'[i].size_bytes <= allocations'[j].offset
        OBVIOUS
      <4>1. i \in 1 .. n /\ allocations'[i] = allocations[i]
        BY <1>0, <2>13
      <4>2. CASE j = n + 1
        BY <2>10, <2>13, <3>6, <4>1, <4>2 DEF old
      <4>3. CASE j \in 1 .. n
        <5>1. allocations'[j] = allocations[j]
          BY <2>13, <4>3
        <5> QED BY <2>13, <4>1, <4>3, <5>1 DEF CompilerInv, Filled
      <4> QED BY <1>0, <4>2, <4>3
    <3> QED BY <2>1, <2>13, <3>3, <3>7, <3>8 DEF Filled
  <2> QED BY <2>15, <2>16, <2>17, <2>18, <2>19, <2>20 DEF CompilerInv
<1> QED BY <1>1, <1>2 DEF AllocateTensor

LEMMA ScheduleOpStep ==
  ASSUME CompilerInv, ScheduleOp
  PROVE  CompilerInv'
<1> DEFINE op  == graph.ops[n + 1]
           new == [name |-> op.name, kind |-> op.kind, inputs |-> op.inputs, outputs |-> op.outputs,
                   max_len |-> op.max_len, start |-> clock, end |-> clock + Estimate(op),
                   cycles |-> Estimate(op)]
<1>0. compiling = "schedule" /\ n < Len(graph.ops) /\ n \in Nat
  BY DEF ScheduleOp, CompilerInv, CompilerTypeOK
<1>1. CASE Refusal(op) # "none" /\ Raise(Refusal(op))
  <2>1. Refusal(op) \in Errors
    BY <1>1 DEF Refusal, Errors
  <2> QED BY <1>0, <1>1, <2>1, RaiseStep
<1>2. CASE /\ Refusal(op) = "none" /\ schedule' = Append(schedule, new) /\ Tick(Estimate(op))
           /\ n' = n + 1
           /\ UNCHANGED <<compilerArgs, compiling, produced, bank_offsets, allocations>>
  <2>1. UNCHANGED compilerArgs /\ graph' = graph /\ hw' = hw /\ compiling' = compiling
        /\ produced' = produced /\ bank_offsets' = bank_offsets /\ allocations' = allocations
        /\ n' = n + 1 /\ schedule' = Append(schedule, new)
    BY <1>2 DEF compilerArgs
  <2>2. ArgsOK /\ Len(graph.ops) \in Nat /\ n + 1 \in DOMAIN graph.ops
        /\ op.inputs \in Seq(STRING) /\ op.outputs \in Seq(STRING)
    BY <1>0, SMTT(30) DEF CompilerInv, ArgsOK, ArgsOf
  <2>3. /\ Validated(Len(graph.ops)) /\ n = Len(schedule)
        /\ Len(allocations) = Len(graph.tensors)
    BY <1>0 DEF CompilerInv, Stages
  <2>4. Outs(op) \subseteq TensorNames
    BY <1>0, <2>2, <2>3 DEF Validated
  <2>5. Estimate(op) \in Nat
    BY <1>2, <2>2, <2>4, EstimateNat
  <2>6. clock' \in Nat
    BY <1>2, <2>5 DEF Tick, CompilerInv, CompilerTypeOK
  <2>7. new.inputs = op.inputs /\ new.outputs = op.outputs
    OBVIOUS
  <2> HIDE DEF new
  <2>8. /\ schedule' \in Seq({schedule[i] : i \in DOMAIN schedule} \cup {new})
        /\ Len(schedule') = n + 1 /\ DOMAIN schedule' = 1 .. n + 1 /\ DOMAIN schedule = 1 .. n
        /\ schedule'[n + 1] = new /\ \A i \in 1 .. n : schedule'[i] = schedule[i]
    BY <2>1, <2>3 DEF CompilerInv, ScheduleIsSeq
  <2>9. CompilerTypeOK'
    <3>1. n' \in Nat
      BY <1>0, <2>1
    <3> QED BY <2>1, <2>6, <3>1 DEF CompilerInv, CompilerTypeOK
  <2>10. ArgsOK'
    BY <2>1, <2>2, SameGraph
  <2>11. ScheduleIsSeq'
    BY <2>8 DEF ScheduleIsSeq
  <2>12. Prefixes'
    <3>1. \A i \in 1 .. n + 1 : schedule'[i].inputs = graph.ops[i].inputs
                             /\ schedule'[i].outputs = graph.ops[i].outputs
      BY <1>0, <2>7, <2>8 DEF CompilerInv, Prefixes
    <3> QED BY <1>0, <2>1, <2>2, <2>8, <3>1 DEF CompilerInv, Prefixes
  <2>13. Stages'
    BY <1>0, <2>1, <2>3, <2>8, SameGraph DEF Stages
  <2>14. Filled'
    BY <2>1 DEF CompilerInv, Filled
  <2> QED BY <2>9, <2>10, <2>11, <2>12, <2>13, <2>14 DEF CompilerInv
<1> QED BY <1>1, <1>2 DEF ScheduleOp

LEMMA CompilerStep == CompilerInv /\ [CompilerNext]_compilerVars => CompilerInv'
<1> SUFFICES ASSUME CompilerInv, [CompilerNext]_compilerVars PROVE CompilerInv'
  OBVIOUS
<1>1. ASSUME compiling = "idle", NEW c \in Compilations, Compile(c) PROVE CompilerInv'
  BY <1>1, CompileStepOK
<1>2. CASE ValidateOp
  BY <1>2, ValidateOpStep
<1>3. CASE ValidateOutputs
  BY <1>3, ValidateOutputsStep
<1>4. CASE AllocateTensor
  BY <1>4, AllocateTensorStep
<1>5. CASE AllocatedAll
  BY <1>5, AllocatedAllStep
<1>6. CASE ScheduleOp
  BY <1>6, ScheduleOpStep
<1>7. CASE ScheduledAll
  BY <1>7, ScheduledAllStep
<1>8. CASE UNCHANGED compilerVars
  <2>1. /\ UNCHANGED compilerArgs /\ graph' = graph /\ hw' = hw /\ compiling' = compiling
        /\ n' = n /\ produced' = produced /\ bank_offsets' = bank_offsets
        /\ allocations' = allocations /\ schedule' = schedule /\ clock' = clock
    BY <1>8 DEF compilerVars, compilerArgs
  <2>2. ArgsOK' /\ ScheduleIsSeq' /\ Prefixes' /\ Filled' /\ CompilerTypeOK'
    BY <2>1, SameGraph DEF CompilerInv, ScheduleIsSeq, Prefixes, Filled, CompilerTypeOK
  <2>3. Stages'
    BY <2>1, SameGraph DEF CompilerInv, Stages
  <2> QED BY <2>2, <2>3 DEF CompilerInv
<1> QED BY <1>1, <1>2, <1>3, <1>4, <1>5, <1>6, <1>7, <1>8 DEF CompilerNext, CompilerSteps

-----------------------------------------------------------------------------
\* The inductive invariant of the compiler, for any graphs and hardware.
THEOREM CompilerInvariance == CompilerSpec => []CompilerInv
BY CompilerStarts, CompilerStep, PTL DEF CompilerSpec

-----------------------------------------------------------------------------
(* What the runtime finds in a compiled program.                           *)

\* The arguments are those of a caller.
GivenArgs == compiling # "idle" => \E c \in Compilations : graph = c.graph /\ hw = c.hw

\* A scheduled op is that of the graph, and estimating it raised nothing.
ScheduledOps ==
  \A i \in DOMAIN schedule :
    /\ schedule[i].name = graph.ops[i].name /\ schedule[i].kind = graph.ops[i].kind
    /\ schedule[i].max_len = graph.ops[i].max_len
    /\ Refusal(graph.ops[i]) = "none" /\ schedule[i].cycles \in Nat

OutputsKnown == graph.outputs \subseteq KnownBefore(Len(graph.ops) + 1)

ProgramInv ==
  /\ GivenArgs /\ ScheduledOps
  /\ compiling \in {"allocate", "schedule", "compiled"} => OutputsKnown
  /\ compiling = "compiled" => Len(schedule) = Len(graph.ops)

LEMMA SameRefusal ==
  ASSUME graph' = graph
  PROVE  \A op : Refusal(op)' = Refusal(op)
BY DEF Refusal, Shape, TensorSpec, TensorNames

\* Steps that leave the arguments and the schedule alone.
LEMMA ProgramKept ==
  ASSUME ProgramInv, UNCHANGED compilerArgs, schedule' = schedule,
         compiling' # "idle" => compiling # "idle",
         compiling' \in {"allocate", "schedule", "compiled"} => OutputsKnown,
         compiling' = "compiled" => Len(schedule) = Len(graph.ops)
  PROVE  ProgramInv'
<1>1. graph' = graph /\ hw' = hw
  BY DEF compilerArgs
<1>2. OutputsKnown' <=> OutputsKnown
  BY <1>1, SameGraph DEF OutputsKnown
<1>3. ScheduledOps'
  BY <1>1, SameRefusal DEF ProgramInv, ScheduledOps
<1>4. GivenArgs'
  BY <1>1 DEF ProgramInv, GivenArgs
<1> QED BY <1>1, <1>2, <1>3, <1>4 DEF ProgramInv

LEMMA ProgramStarts == CompilerInit => ProgramInv
BY DEF CompilerInit, ProgramInv, GivenArgs, ScheduledOps

LEMMA ProgramScheduleOp ==
  ASSUME CompilerInv, ProgramInv, ScheduleOp
  PROVE  ProgramInv'
<1> DEFINE op  == graph.ops[n + 1]
           new == [name |-> op.name, kind |-> op.kind, inputs |-> op.inputs, outputs |-> op.outputs,
                   max_len |-> op.max_len, start |-> clock, end |-> clock + Estimate(op),
                   cycles |-> Estimate(op)]
<1>1. compiling = "schedule" /\ n < Len(graph.ops) /\ n \in Nat
  BY DEF ScheduleOp, CompilerInv, CompilerTypeOK
<1>2. OutputsKnown
  BY <1>1 DEF ProgramInv
<1>3. CASE Refusal(op) # "none" /\ Raise(Refusal(op))
  <2>1. Refusal(op) \in Errors
    BY <1>3 DEF Refusal, Errors
  <2>2. UNCHANGED compilerArgs /\ schedule' = schedule /\ compiling' \in Errors
    BY <1>3, <2>1 DEF Raise
  <2> QED BY <1>1, <1>2, <2>2, ProgramKept DEF Errors
<1>4. CASE Refusal(op) = "none" /\ schedule' = Append(schedule, new) /\ UNCHANGED <<compilerArgs, compiling>>
  <2>1. graph' = graph /\ hw' = hw /\ compiling' = compiling
    BY <1>4 DEF compilerArgs
  <2>2. ArgsOK /\ n + 1 \in DOMAIN graph.ops /\ Validated(Len(graph.ops)) /\ n = Len(schedule)
    <3>1. graph.ops \in Seq({graph.ops[i] : i \in DOMAIN graph.ops})
      BY DEF CompilerInv, ArgsOK, ArgsOf
    <3>2. n + 1 \in DOMAIN graph.ops
      BY <1>1, <3>1
    <3> QED BY <1>1, <3>2 DEF CompilerInv, Stages
  <2>3. op.inputs \in Seq(STRING) /\ op.outputs \in Seq(STRING) /\ Outs(op) \subseteq TensorNames
    <3>1. Len(graph.ops) \in Nat /\ n + 1 \in 1 .. Len(graph.ops)
      BY <1>1, <2>2 DEF ArgsOK, ArgsOf
    <3> QED BY <2>2, <3>1 DEF ArgsOK, ArgsOf, Validated
  <2>4. Estimate(op) \in Nat
    BY <1>4, <2>2, <2>3, EstimateNat
  <2>5. /\ new.name = op.name /\ new.kind = op.kind /\ new.max_len = op.max_len
        /\ new.cycles = Estimate(op)
    OBVIOUS
  <2> HIDE DEF new
  <2>6. /\ DOMAIN schedule' = 1 .. n + 1 /\ DOMAIN schedule = 1 .. n
        /\ schedule'[n + 1] = new /\ \A i \in 1 .. n : schedule'[i] = schedule[i]
        /\ \A i \in 1 .. n + 1 : i \in 1 .. n \/ i = n + 1
    BY <1>1, <1>4, <2>2 DEF CompilerInv, ScheduleIsSeq
  <2>7. ScheduledOps'
    <3>1. \A i \in 1 .. n + 1 :
            /\ schedule'[i].name = graph.ops[i].name /\ schedule'[i].kind = graph.ops[i].kind
            /\ schedule'[i].max_len = graph.ops[i].max_len
            /\ Refusal(graph.ops[i]) = "none" /\ schedule'[i].cycles \in Nat
      <4>2. \A i \in 1 .. n :
              /\ schedule[i].name = graph.ops[i].name /\ schedule[i].kind = graph.ops[i].kind
              /\ schedule[i].max_len = graph.ops[i].max_len
              /\ Refusal(graph.ops[i]) = "none" /\ schedule[i].cycles \in Nat
        BY <2>6 DEF ProgramInv, ScheduledOps
      <4> SUFFICES ASSUME NEW i \in 1 .. n + 1
                   PROVE  /\ schedule'[i].name = graph.ops[i].name /\ schedule'[i].kind = graph.ops[i].kind
                          /\ schedule'[i].max_len = graph.ops[i].max_len
                          /\ Refusal(graph.ops[i]) = "none" /\ schedule'[i].cycles \in Nat
        OBVIOUS
      <4>3. CASE i \in 1 .. n
        BY <2>6, <4>2, <4>3
      <4>4. CASE i = n + 1
        BY <1>4, <2>4, <2>5, <2>6, <4>4
      <4> QED BY <2>6, <4>3, <4>4
    <3> QED BY <2>1, <2>6, <3>1, SameRefusal DEF ScheduledOps
  <2>8. GivenArgs' /\ OutputsKnown'
    BY <1>1, <1>2, <1>4, <2>1, SameGraph DEF ProgramInv, GivenArgs, OutputsKnown
  <2> QED BY <1>1, <2>1, <2>7, <2>8 DEF ProgramInv
<1> QED BY <1>3, <1>4 DEF ScheduleOp

LEMMA ProgramStep == CompilerInv /\ ProgramInv /\ [CompilerNext]_compilerVars => ProgramInv'
<1> SUFFICES ASSUME CompilerInv, ProgramInv, [CompilerNext]_compilerVars PROVE ProgramInv'
  OBVIOUS
<1>1. ASSUME compiling = "idle", NEW c \in Compilations, Compile(c) PROVE ProgramInv'
  <2>1. schedule' = <<>> /\ graph' = c.graph /\ hw' = c.hw /\ compiling' = "validate"
    BY <1>1 DEF Compile, CompilerInv, Stages
  <2> QED BY <2>1 DEF ProgramInv, GivenArgs, ScheduledOps
<1>2. CASE ValidateOp \/ AllocateTensor
  <2>1. /\ UNCHANGED compilerArgs /\ schedule' = schedule /\ compiling # "idle" /\ compiling # "compiled"
        /\ compiling' = compiling \/ compiling' \in Errors
    BY <1>2 DEF ValidateOp, AllocateTensor, Raise, Errors
  <2> QED BY <2>1, ProgramKept DEF ProgramInv, Errors
<1>3. CASE ValidateOutputs
  <2>1. /\ UNCHANGED compilerArgs /\ schedule' = schedule /\ compiling = "validate" /\ n = Len(graph.ops)
        /\ compiling' = "ValueError" \/ (compiling' = "allocate" /\ graph.outputs \subseteq produced)
    BY <1>3 DEF ValidateOutputs, Raise
  <2>2. produced = KnownBefore(Len(graph.ops) + 1)
    BY <2>1 DEF CompilerInv, Stages
  <2> QED BY <2>1, <2>2, ProgramKept DEF OutputsKnown
<1>4. CASE AllocatedAll
  <2>1. /\ UNCHANGED compilerArgs /\ schedule' = schedule
        /\ compiling = "allocate" /\ compiling' = "schedule"
    BY <1>4 DEF AllocatedAll
  <2> QED BY <2>1, ProgramKept DEF ProgramInv
<1>5. CASE ScheduleOp
  BY <1>5, ProgramScheduleOp
<1>6. CASE ScheduledAll
  <2>1. /\ UNCHANGED compilerArgs /\ schedule' = schedule /\ n = Len(graph.ops)
        /\ compiling = "schedule" /\ compiling' = "compiled"
    BY <1>6 DEF ScheduledAll
  <2>2. n = Len(schedule)
    BY <2>1 DEF CompilerInv, Stages
  <2> QED BY <2>1, <2>2, ProgramKept DEF ProgramInv
<1>7. CASE UNCHANGED compilerVars
  <2>1. UNCHANGED compilerArgs /\ schedule' = schedule /\ compiling' = compiling
    BY <1>7 DEF compilerVars
  <2> QED BY <2>1, ProgramKept DEF ProgramInv
<1> QED BY <1>1, <1>2, <1>3, <1>4, <1>5, <1>6, <1>7 DEF CompilerNext, CompilerSteps

\* A compiled program is a whole one: its schedule has an op for each of the
\* graph's, estimated without an exception, and its outputs are computed.
THEOREM CompilerProgram == CompilerSpec => []ProgramInv
BY ProgramStarts, ProgramStep, CompilerInvariance, PTL DEF CompilerSpec

-----------------------------------------------------------------------------
(* What the two schedulers share.                                          *)

\* A list of events as the schedulers build them.
EventOK(e) ==
  e.start \in Nat /\ e.end \in Nat /\ e.cycles \in Nat /\ e.bytes \in Nat /\ e.macs \in Nat

LocalSchedule(list, total) ==
  /\ list \in Seq({list[i] : i \in DOMAIN list})
  /\ \A i \in DOMAIN list : EventOK(list[i]) /\ list[i].end <= total
  /\ Contiguous(list, total) /\ total \in Nat

LEMMA NoEvents == LocalSchedule(<<>>, 0)
BY DEF LocalSchedule, Contiguous

\* An event that starts where the last one ended.
LEMMA OneMoreEvent ==
  ASSUME NEW list, NEW total, LocalSchedule(list, total),
         NEW e, EventOK(e), e.start = total, e.end = total + e.cycles
  PROVE  LocalSchedule(Append(list, e), total + e.cycles)
<1> DEFINE longer == Append(list, e)
           len    == Len(list)
<1>1. /\ list \in Seq({list[i] : i \in DOMAIN list}) /\ Contiguous(list, total) /\ total \in Nat
      /\ e.cycles \in Nat
  BY DEF LocalSchedule, EventOK
<1>2. /\ longer \in Seq({list[i] : i \in DOMAIN list} \cup {e})
      /\ len \in Nat /\ DOMAIN list = 1 .. len /\ DOMAIN longer = 1 .. len + 1 /\ Len(longer) = len + 1
      /\ longer[len + 1] = e /\ \A i \in 1 .. len : longer[i] = list[i]
  BY <1>1
<1> HIDE DEF longer, len
<1>3. longer \in Seq({longer[i] : i \in DOMAIN longer})
  BY <1>2
<1>4. \A i \in DOMAIN longer : i \in 1 .. len \/ i = len + 1
  BY <1>2
<1>5. \A i \in DOMAIN longer : EventOK(longer[i]) /\ longer[i].end <= total + e.cycles
  <2>1. \A i \in 1 .. len : EventOK(list[i]) /\ list[i].end \in Nat /\ list[i].end <= total
    BY <1>2 DEF LocalSchedule, EventOK
  <2>2. \A x \in Nat : x <= total => x <= total + e.cycles
    BY <1>1
  <2>3. EventOK(longer[len + 1]) /\ longer[len + 1].end <= total + e.cycles
    BY <1>1, <1>2
  <2> QED BY <1>2, <1>4, <2>1, <2>2, <2>3
<1>6. longer # <<>>
  BY <1>2
<1>7. total = IF len = 0 THEN 0 ELSE longer[len].end
  <2>1. len = 0 <=> list = <<>>
    BY <1>1, <1>2 DEF len
  <2> QED BY <1>1, <1>2, <2>1 DEF Contiguous, len
<1>8. \A i \in DOMAIN longer :
        /\ longer[i].end = longer[i].start + longer[i].cycles
        /\ longer[i].start = IF i = 1 THEN 0 ELSE longer[i - 1].end
  <2> SUFFICES ASSUME NEW i \in DOMAIN longer
               PROVE  /\ longer[i].end = longer[i].start + longer[i].cycles
                      /\ longer[i].start = IF i = 1 THEN 0 ELSE longer[i - 1].end
    OBVIOUS
  <2>1. CASE i \in 1 .. len
    <3>1. i # 1 => i - 1 \in 1 .. len
      BY <1>2, <2>1
    <3> QED BY <1>1, <1>2, <2>1, <3>1 DEF Contiguous
  <2>2. CASE i = len + 1
    <3>1. i = 1 <=> len = 0
      BY <1>2, <2>2
    <3>2. i - 1 = len
      BY <1>2, <2>2
    <3> QED BY <1>2, <1>7, <2>2, <3>1, <3>2
  <2> QED BY <1>4, <2>1, <2>2
<1>9. Contiguous(longer, total + e.cycles)
  BY <1>2, <1>6, <1>8 DEF Contiguous
<1>10. total + e.cycles \in Nat
  BY <1>1
<1>11. LocalSchedule(longer, total + e.cycles)
  BY <1>3, <1>5, <1>9, <1>10 DEF LocalSchedule
<1> QED BY <1>11 DEF longer

\* A sum over a list of events has one term more when an event is added.
LEMMA MacsAppend ==
  ASSUME NEW list, list \in Seq({list[i] : i \in DOMAIN list}),
         \A i \in DOMAIN list : list[i].macs \in Nat, NEW e, e.macs \in Nat
  PROVE  MacsOf(Append(list, e)) = MacsOf(list) + e.macs
<1>. DEFINE longer == Append(list, e)
            macs == [i \in DOMAIN list |-> list[i].macs]
            more == [i \in DOMAIN longer |-> longer[i].macs]
            top  == Len(list)
<1>1. /\ top \in Nat /\ DOMAIN list = 1 .. top /\ DOMAIN longer = 1 .. top + 1
      /\ longer[top + 1] = e /\ \A i \in 1 .. top : longer[i] = list[i]
  OBVIOUS
<1>. HIDE DEF longer, top
<1>2. macs \in Seq(Int) /\ Len(macs) = top
  BY <1>1
<1>3. more = Append(macs, e.macs)
  <2>1. \A i \in 1 .. top + 1 : more[i] = IF i = top + 1 THEN e.macs ELSE macs[i]
    BY <1>1
  <2>2. DOMAIN more = 1 .. top + 1 /\ more = [i \in 1 .. top + 1 |-> more[i]]
    BY <1>1
  <2>. HIDE DEF more, macs
  <2>3. /\ Append(macs, e.macs) \in Seq(Int) /\ DOMAIN Append(macs, e.macs) = 1 .. top + 1
        /\ \A i \in 1 .. top + 1 : Append(macs, e.macs)[i] = IF i = top + 1 THEN e.macs ELSE macs[i]
    BY <1>1, <1>2
  <2>4. Append(macs, e.macs) = [i \in 1 .. top + 1 |-> Append(macs, e.macs)[i]]
    <3>1. \A q \in Seq(Int) : q = [i \in DOMAIN q |-> q[i]]
      OBVIOUS
    <3>2. QED
      BY <2>3, <3>1
  <2>5. QED
    BY <2>1, <2>2, <2>3, <2>4
<1>. HIDE DEF macs, more
<1>4. SumOf(more) = SumOf(macs) + e.macs
  BY <1>2, <1>3, SumAppend
<1>5. QED
  BY <1>4 DEF MacsOf, macs, more, longer

LEMMA MacsEmpty == MacsOf(<<>>) = 0
<1>1. [i \in DOMAIN <<>> |-> <<>>[i].macs] = <<>>
  OBVIOUS
<1>2. QED
  BY <1>1, SumEmpty DEF MacsOf

\* Sums of products, with their factors named so that they can be cited.
LEMMA MoreColumns ==
  ASSUME NEW a \in Int, NEW b \in Int, NEW c \in Int
  PROVE  a * b + a * (c - b) = a * c /\ b * a + (c - b) * a = c * a
OBVIOUS

LEMMA IntProduct == ASSUME NEW a \in Int, NEW b \in Int PROVE a * b \in Int
OBVIOUS

LEMMA Ceilings == ASSUME NEW a \in Nat, NEW d \in Nat \ {0} PROVE CeilDiv(a, d) \in Nat
BY DEF CeilDiv

LEMMA ProductsAreNat == \A a, b \in Nat : a * b \in Nat
OBVIOUS

-----------------------------------------------------------------------------
(* int8_tiled_matmul                                                       *)

\* The cells of the output tiles before this one, in the order of the loops.
Finished(ij) == ij[1] < m0 \/ (ij[1] < m1 /\ ij[2] < n0)

\* The tile accumulator holds the products of the inner tiles before k0, then all.
TileAccumulates ==
  /\ stage \in {"load_a", "load_b", "mac"} =>
       \A ij \in Output, k \in Inner :
         tile_acc[ij][k] = IF ij \in OutputTile /\ k < k0 THEN 1 ELSE 0
  /\ stage = "store" =>
       \A ij \in Output, k \in Inner : tile_acc[ij][k] = IF ij \in OutputTile THEN 1 ELSE 0

\* The output holds the tiles that were stored; between calls, all or nothing.
OutputAccumulates ==
  /\ stage \in {"load_a", "load_b", "mac", "store"} =>
       \A ij \in Output, k \in Inner : acc[ij][k] = IF Finished(ij) THEN 1 ELSE 0
  /\ stage = "end" => \A ij \in Output, k \in Inner : acc[ij][k] = 1
  /\ stage = "idle" =>
       \/ \A ij \in Output, k \in Inner : acc[ij][k] = 0
       \/ \A ij \in Output, k \in Inner : acc[ij][k] = 1

MatmulInv ==
  MatmulTypeOK /\ TileAccumulates /\ OutputAccumulates /\ LocalSchedule(tile_events, tile_cycle)

-----------------------------------------------------------------------------
(* Facts about the arguments and the loop bounds.                          *)

TilesOK ==
  /\ shape.m \in Nat \ {0} /\ shape.k \in Nat \ {0} /\ shape.n \in Nat \ {0}
  /\ cfg.tile_m \in Nat \ {0} /\ cfg.tile_n \in Nat \ {0} /\ cfg.tile_k \in Nat \ {0}
  /\ m0 \in 0 .. shape.m - 1 /\ n0 \in 0 .. shape.n - 1 /\ k0 \in 0 .. shape.k - 1

LEMMA ConfigFields ==
  ASSUME NEW c \in Configs
  PROVE  /\ c.tile_m \in Nat \ {0} /\ c.tile_n \in Nat \ {0} /\ c.tile_k \in Nat \ {0}
         /\ c.mac_lanes \in Nat \ {0} /\ c.load_lanes \in Nat \ {0} /\ c.store_lanes \in Nat \ {0}
         /\ c.load \in Nat /\ c.compute \in Nat /\ c.store \in Nat
BY TiledAssumption DEF Positive

LEMMA InvTiles == ASSUME MatmulTypeOK PROVE TilesOK
BY ConfigFields DEF MatmulTypeOK, TilesOK, Shapes, Positive

\* A tile is not empty and ends inside the matrix.
LEMMA Bounds ==
  ASSUME TilesOK
  PROVE  /\ m1 \in m0 + 1 .. shape.m /\ n1 \in n0 + 1 .. shape.n /\ k1 \in k0 + 1 .. shape.k
         /\ m0 + cfg.tile_m < shape.m => m1 = m0 + cfg.tile_m
         /\ m0 + cfg.tile_m >= shape.m => m1 = shape.m
         /\ n0 + cfg.tile_n < shape.n => n1 = n0 + cfg.tile_n
         /\ n0 + cfg.tile_n >= shape.n => n1 = shape.n
         /\ k0 + cfg.tile_k < shape.k => k1 = k0 + cfg.tile_k
         /\ k0 + cfg.tile_k >= shape.k => k1 = shape.k
BY DEF TilesOK, m1, n1, k1, Upto

LEMMA CyclesNat ==
  ASSUME cfg \in Configs, NEW x \in Nat
  PROVE  LoadCycles(x) \in Nat /\ ComputeCycles(x) \in Nat /\ StoreCycles(x) \in Nat
<1>1. \A d \in Nat \ {0} : CeilDiv(x, d) \in Nat
  BY Ceilings
<1> QED BY <1>1, ConfigFields DEF LoadCycles, ComputeCycles, StoreCycles

\* The event of a tile starts where the last one ended.
LEMMA EmitStep ==
  ASSUME LocalSchedule(tile_events, tile_cycle),
         NEW kind, NEW kRange, NEW cycles \in Nat, NEW bytes \in Nat, NEW macs \in Nat,
         Emit(kind, kRange, cycles, bytes, macs)
  PROVE  LocalSchedule(tile_events', tile_cycle') /\ tile_cycle' \in Nat
<1> DEFINE e == [kind |-> kind, m_range |-> <<m0, m1>>, n_range |-> <<n0, n1>>, k_range |-> kRange,
                 start |-> tile_cycle, end |-> tile_cycle + cycles, cycles |-> cycles,
                 bytes |-> bytes, macs |-> macs]
<1>1. tile_events' = Append(tile_events, e) /\ tile_cycle' = tile_cycle + cycles
  BY DEF Emit
<1>2. /\ e.start = tile_cycle /\ e.end = tile_cycle + cycles
      /\ e.cycles = cycles /\ e.bytes = bytes /\ e.macs = macs
  OBVIOUS
<1> HIDE DEF e
<1>3. tile_cycle \in Nat
  BY DEF LocalSchedule
<1>4. EventOK(e)
  BY <1>2, <1>3 DEF EventOK
<1> QED BY <1>1, <1>2, <1>3, <1>4, OneMoreEvent

-----------------------------------------------------------------------------
LEMMA MatmulStarts == MatmulInit => MatmulInv
<1> SUFFICES ASSUME MatmulInit PROVE MatmulInv
  OBVIOUS
<1>1. cfg \in Configs
  BY TiledAssumption DEF MatmulInit
<1>2. shape = [m |-> 1, k |-> 1, n |-> 1] /\ shape \in Shapes
  BY DEF MatmulInit, Shapes, Positive
<1>3. acc \in [Output -> [Inner -> Nat]] /\ tile_acc = acc
      /\ \A ij \in Output, k \in Inner : acc[ij][k] = 0
  BY DEF MatmulInit, NoTerms
<1>4. MatmulTypeOK
  BY <1>1, <1>2, <1>3 DEF MatmulInit, MatmulTypeOK
<1>5. TileAccumulates /\ OutputAccumulates
  BY <1>3 DEF MatmulInit, TileAccumulates, OutputAccumulates
<1> QED BY <1>4, <1>5, NoEvents DEF MatmulInv, MatmulInit

LEMMA CallStep ==
  ASSUME MatmulInv, NEW s \in Shapes, NEW c \in Configs, CallMatmul(s, c)
  PROVE  MatmulInv'
<1>1. /\ shape' = s /\ cfg' = c /\ m0' = 0 /\ n0' = 0 /\ k0' = 0 /\ stage' = "load_a"
      /\ tile_cycle' = 0 /\ tile_events' = <<>>
      /\ acc' = [ij \in Output' |-> NoTerms'] /\ tile_acc' = acc'
  BY DEF CallMatmul
<1>2. s.m \in Nat \ {0} /\ s.k \in Nat \ {0} /\ s.n \in Nat \ {0}
  BY DEF Shapes, Positive
<1>3. acc' \in [Output' -> [Inner' -> Nat]] /\ \A ij \in Output', k \in Inner' : acc'[ij][k] = 0
  BY <1>1 DEF NoTerms
<1>4. MatmulTypeOK'
  BY <1>1, <1>2, <1>3 DEF MatmulTypeOK
<1>5. TileAccumulates'
  BY <1>1, <1>3 DEF TileAccumulates, Inner
<1>6. OutputAccumulates'
  <2>1. \A ij \in Output' : ~Finished(ij)'
    BY <1>1, <1>2 DEF Finished, Output
  <2> QED BY <1>1, <1>3, <2>1 DEF OutputAccumulates
<1> QED BY <1>1, <1>4, <1>5, <1>6, NoEvents DEF MatmulInv

\* Loading changes no accumulator.
LEMMA LoadStep ==
  ASSUME MatmulInv, LoadATile \/ LoadBTile
  PROVE  MatmulInv'
<1>1. /\ stage \in {"load_a", "load_b"} /\ stage' \in {"load_b", "mac"}
      /\ shape' = shape /\ cfg' = cfg /\ m0' = m0 /\ n0' = n0 /\ k0' = k0
      /\ tile_acc' = tile_acc /\ acc' = acc
  BY DEF LoadATile, LoadBTile, args, loopVars
<1>2. TilesOK /\ MatmulTypeOK
  BY InvTiles DEF MatmulInv
<1>3. LocalSchedule(tile_events', tile_cycle') /\ tile_cycle' \in Nat
  <2>1. (m1 - m0) * (k1 - k0) \in Nat /\ (k1 - k0) * (n1 - n0) \in Nat
    <3>1. m1 - m0 \in Nat /\ n1 - n0 \in Nat /\ k1 - k0 \in Nat
      BY <1>2, Bounds DEF TilesOK
    <3> QED BY <3>1, ProductsAreNat
  <2>2. LoadCycles((m1 - m0) * (k1 - k0)) \in Nat /\ LoadCycles((k1 - k0) * (n1 - n0)) \in Nat
    BY <1>2, <2>1, CyclesNat DEF MatmulTypeOK
  <2> QED BY <2>1, <2>2, EmitStep DEF MatmulInv, LoadATile, LoadBTile
<1>4. Output' = Output /\ Inner' = Inner /\ OutputTile' = OutputTile
      /\ \A ij : Finished(ij)' <=> Finished(ij)
  BY <1>1 DEF Output, Inner, OutputTile, Finished, m1, n1
<1>5. MatmulTypeOK'
  BY <1>1, <1>2, <1>3, <1>4 DEF MatmulTypeOK
<1>6. TileAccumulates' /\ OutputAccumulates'
  BY <1>1, <1>4 DEF MatmulInv, TileAccumulates, OutputAccumulates
<1> QED BY <1>3, <1>5, <1>6 DEF MatmulInv

\* The products of the inner tile are added, each to its own sum.
LEMMA MacStep ==
  ASSUME MatmulInv, MacTile
  PROVE  MatmulInv'
<1>1. /\ stage = "mac" /\ shape' = shape /\ cfg' = cfg /\ m0' = m0 /\ n0' = n0 /\ acc' = acc
      /\ tile_acc' = Accumulated
  BY DEF MacTile, args
<1>2. TilesOK /\ MatmulTypeOK
  BY InvTiles DEF MatmulInv
<1>3. LocalSchedule(tile_events', tile_cycle') /\ tile_cycle' \in Nat
  <2> DEFINE macs == (m1 - m0) * (n1 - n0) * (k1 - k0)
  <2>1. macs \in Nat
    <3>1. m1 - m0 \in Nat /\ n1 - n0 \in Nat /\ k1 - k0 \in Nat
      BY <1>2, Bounds DEF TilesOK
    <3> QED BY <3>1, ProductsAreNat
  <2> HIDE DEF macs
  <2>2. ComputeCycles(macs) \in Nat
    BY <1>2, <2>1, CyclesNat DEF MatmulTypeOK
  <2> QED BY <2>1, <2>2, EmitStep DEF MatmulInv, MacTile, macs
<1>4. Output' = Output /\ Inner' = Inner /\ OutputTile' = OutputTile
      /\ \A ij : Finished(ij)' <=> Finished(ij)
  BY <1>1 DEF Output, Inner, OutputTile, Finished, m1, n1
<1>5. /\ LastTile => stage' = "store" /\ k0' = k0
      /\ ~LastTile => stage' = "load_a" /\ k0' = k0 + cfg.tile_k
  BY DEF MacTile
<1>6. /\ tile_acc' \in [Output -> [Inner -> Nat]]
      /\ \A ij \in Output, k \in Inner :
           tile_acc'[ij][k] = IF ij \in OutputTile /\ k < k1 THEN 1 ELSE 0
  <2>1. \A ij \in Output, k \in Inner :
          tile_acc'[ij][k] = tile_acc[ij][k] + IF ij \in OutputTile /\ k \in k0 .. k1 - 1 THEN 1 ELSE 0
    BY <1>1 DEF Accumulated
  <2>2. \A ij \in Output, k \in Inner :
          tile_acc[ij][k] = IF ij \in OutputTile /\ k < k0 THEN 1 ELSE 0
    BY <1>1 DEF MatmulInv, TileAccumulates
  <2>3. \A k \in Inner : k \in Nat /\ (k < k1 <=> k < k0 \/ k \in k0 .. k1 - 1)
                         /\ ~(k < k0 /\ k \in k0 .. k1 - 1)
    BY <1>2, Bounds DEF TilesOK, Inner
  <2>4. \A ij \in Output, k \in Inner :
          tile_acc'[ij][k] = IF ij \in OutputTile /\ k < k1 THEN 1 ELSE 0
    BY <2>1, <2>2, <2>3
  <2>5. tile_acc' \in [Output -> [Inner -> Nat]]
    <3>1. \A ij \in Output, k \in Inner :
            tile_acc[ij][k] + (IF ij \in OutputTile /\ k \in k0 .. k1 - 1 THEN 1 ELSE 0) \in Nat
      BY <2>2
    <3> QED BY <1>1, <3>1 DEF Accumulated
  <2> QED BY <2>4, <2>5
<1>7. MatmulTypeOK'
  <2>1. k0' \in 0 .. shape.k - 1
    BY <1>2, <1>5 DEF TilesOK, LastTile
  <2> QED BY <1>1, <1>2, <1>3, <1>4, <1>5, <1>6, <2>1 DEF MatmulTypeOK
<1>8. TileAccumulates'
  <2>1. CASE LastTile
    <3>1. k1 = shape.k
      BY <1>2, <2>1, Bounds DEF LastTile
    <3>2. \A k \in Inner : k < k1
      BY <1>2, <3>1 DEF Inner, TilesOK
    <3> QED BY <1>4, <1>5, <1>6, <2>1, <3>2 DEF TileAccumulates
  <2>2. CASE ~LastTile
    <3>1. k0' = k1
      BY <1>2, <1>5, <2>2, Bounds DEF LastTile, TilesOK
    <3> QED BY <1>4, <1>5, <1>6, <2>2, <3>1 DEF TileAccumulates
  <2> QED BY <2>1, <2>2
<1>9. OutputAccumulates'
  BY <1>1, <1>4, <1>5 DEF MatmulInv, OutputAccumulates
<1> QED BY <1>3, <1>7, <1>8, <1>9 DEF MatmulInv

\* A whole tile is stored, and the loops go on to the next one.
LEMMA StoreStep ==
  ASSUME MatmulInv, StoreCTile
  PROVE  MatmulInv'
<1> DEFINE lastN == n0 + cfg.tile_n >= shape.n
           lastM == m0 + cfg.tile_m >= shape.m
<1>1. /\ stage = "store" /\ shape' = shape /\ cfg' = cfg
      /\ acc' = [ij \in Output |-> IF ij \in OutputTile THEN tile_acc[ij] ELSE acc[ij]]
      /\ k0' = 0 /\ tile_acc' = [ij \in Output |-> NoTerms]
      /\ n0' = (IF lastN THEN 0 ELSE n0 + cfg.tile_n)
      /\ m0' = (IF lastN /\ ~lastM THEN m0 + cfg.tile_m ELSE m0)
      /\ stage' = (IF lastN /\ lastM THEN "end" ELSE "load_a")
  BY DEF StoreCTile, NextOutputTile, args
<1>2. TilesOK /\ MatmulTypeOK
  BY InvTiles DEF MatmulInv
<1>3. LocalSchedule(tile_events', tile_cycle') /\ tile_cycle' \in Nat
  <2> DEFINE elements == (m1 - m0) * (n1 - n0)
  <2>1. elements \in Nat
    <3>1. m1 - m0 \in Nat /\ n1 - n0 \in Nat
      BY <1>2, Bounds DEF TilesOK
    <3> QED BY <3>1, ProductsAreNat
  <2> HIDE DEF elements
  <2>2. StoreCycles(elements) \in Nat
    BY <1>2, <2>1, CyclesNat DEF MatmulTypeOK
  <2>3. elements * 4 \in Nat
    BY <2>1
  <2> QED BY <2>2, <2>3, EmitStep DEF MatmulInv, StoreCTile, elements
<1>4. Output' = Output /\ Inner' = Inner
  BY <1>1 DEF Output, Inner
<1>5. m0' \in 0 .. shape.m - 1 /\ n0' \in 0 .. shape.n - 1 /\ k0' \in 0 .. shape.k - 1
  BY <1>1, <1>2 DEF TilesOK
<1>6. acc' \in [Output -> [Inner -> Nat]] /\ tile_acc' \in [Output -> [Inner -> Nat]]
  BY <1>1, <1>2 DEF MatmulTypeOK, NoTerms
<1>7. MatmulTypeOK'
  BY <1>1, <1>2, <1>3, <1>4, <1>5, <1>6 DEF MatmulTypeOK
<1>8. TileAccumulates'
  BY <1>1, <1>4 DEF TileAccumulates, NoTerms, Inner
<1>9. \A ij \in Output, k \in Inner :
        acc'[ij][k] = IF ij \in OutputTile \/ Finished(ij) THEN 1 ELSE 0
  <2>1. \A ij \in Output, k \in Inner : tile_acc[ij][k] = IF ij \in OutputTile THEN 1 ELSE 0
    BY <1>1 DEF MatmulInv, TileAccumulates
  <2>2. \A ij \in Output, k \in Inner : acc[ij][k] = IF Finished(ij) THEN 1 ELSE 0
    BY <1>1 DEF MatmulInv, OutputAccumulates
  <2>3. \A ij \in Output : acc'[ij] = IF ij \in OutputTile THEN tile_acc[ij] ELSE acc[ij]
    BY <1>1
  <2> QED BY <2>1, <2>2, <2>3
<1>10. \A ij \in Output : ij \in OutputTile <=> ij[1] >= m0 /\ ij[1] < m1 /\ ij[2] >= n0 /\ ij[2] < n1
  BY <1>2, Bounds DEF Output, OutputTile, TilesOK
<1>11. \A ij \in Output : ij[1] \in 0 .. shape.m - 1 /\ ij[2] \in 0 .. shape.n - 1
  BY DEF Output
<1>12. OutputAccumulates'
  <2>1. CASE lastN /\ lastM
    <3>1. m1 = shape.m /\ n1 = shape.n
      BY <1>2, <2>1, Bounds
    <3>2. \A ij \in Output : ij \in OutputTile \/ Finished(ij)
      BY <1>2, <1>10, <1>11, <3>1 DEF Finished, TilesOK
    <3> QED BY <1>1, <1>4, <1>9, <2>1, <3>2 DEF OutputAccumulates
  <2>2. CASE ~(lastN /\ lastM)
    <3>1. stage' = "load_a"
      BY <1>1, <2>2
    <3>2. \A ij \in Output : (ij \in OutputTile \/ Finished(ij)) <=> Finished(ij)'
      <4>1. CASE lastN
        <5>1. m0' = m1 /\ n0' = 0 /\ n1 = shape.n
          BY <1>1, <1>2, <2>2, <4>1, Bounds DEF TilesOK
        <5>2. \A ij \in Output : Finished(ij)' <=> ij[1] < m1
          BY <1>11, <5>1 DEF Finished
        <5>3. \A ij \in Output : (ij \in OutputTile \/ Finished(ij)) <=> ij[1] < m1
          BY <1>2, <1>10, <1>11, <5>1, Bounds DEF Finished, TilesOK
        <5> QED BY <5>2, <5>3
      <4>2. CASE ~lastN
        <5>1. m0' = m0 /\ n0' = n1
          BY <1>1, <1>2, <4>2, Bounds DEF TilesOK
        <5>2. m1' = m1
          BY <1>1, <5>1 DEF m1
        <5>3. \A ij \in Output : Finished(ij)' <=> ij[1] < m0 \/ (ij[1] < m1 /\ ij[2] < n1)
          BY <5>1, <5>2 DEF Finished
        <5>4. \A ij \in Output : (ij \in OutputTile \/ Finished(ij))
                                   <=> ij[1] < m0 \/ (ij[1] < m1 /\ ij[2] < n1)
          BY <1>2, <1>10, <1>11, Bounds DEF Finished, TilesOK
        <5> QED BY <5>3, <5>4
      <4> QED BY <4>1, <4>2
    <3> QED BY <1>4, <1>9, <3>1, <3>2 DEF OutputAccumulates
  <2> QED BY <2>1, <2>2
<1> QED BY <1>3, <1>7, <1>8, <1>12 DEF MatmulInv

LEMMA ReturnStep ==
  ASSUME MatmulInv, ReturnMatmul
  PROVE  MatmulInv'
<1>1. /\ stage = "end" /\ stage' = "idle" /\ shape' = shape /\ cfg' = cfg
      /\ m0' = m0 /\ n0' = n0 /\ k0' = k0 /\ tile_cycle' = tile_cycle
      /\ tile_events' = tile_events /\ tile_acc' = tile_acc /\ acc' = acc
  BY DEF ReturnMatmul, args, loopVars
<1>2. Output' = Output /\ Inner' = Inner
  BY <1>1 DEF Output, Inner
<1> QED BY <1>1, <1>2 DEF MatmulInv, MatmulTypeOK, TileAccumulates, OutputAccumulates

LEMMA MatmulStep == MatmulInv /\ [MatmulNext]_matmulVars => MatmulInv'
<1> SUFFICES ASSUME MatmulInv, [MatmulNext]_matmulVars PROVE MatmulInv'
  OBVIOUS
<1>1. ASSUME NEW s \in Shapes, NEW c \in Configs, CallMatmul(s, c) PROVE MatmulInv'
  BY <1>1, CallStep
<1>2. CASE LoadATile \/ LoadBTile
  BY <1>2, LoadStep
<1>3. CASE MacTile
  BY <1>3, MacStep
<1>4. CASE StoreCTile
  BY <1>4, StoreStep
<1>5. CASE ReturnMatmul
  BY <1>5, ReturnStep
<1>6. CASE UNCHANGED matmulVars
  <2>1. /\ stage' = stage /\ shape' = shape /\ cfg' = cfg
        /\ m0' = m0 /\ n0' = n0 /\ k0' = k0 /\ tile_cycle' = tile_cycle
        /\ tile_events' = tile_events /\ tile_acc' = tile_acc /\ acc' = acc
    BY <1>6 DEF matmulVars, args, loopVars
  <2>2. Output' = Output /\ Inner' = Inner /\ OutputTile' = OutputTile
        /\ \A ij : Finished(ij)' <=> Finished(ij)
    BY <2>1 DEF Output, Inner, OutputTile, Finished, m1, n1
  <2> QED BY <2>1, <2>2 DEF MatmulInv, MatmulTypeOK, TileAccumulates, OutputAccumulates
<1> QED BY <1>1, <1>2, <1>3, <1>4, <1>5, <1>6 DEF MatmulNext, MatmulSteps

-----------------------------------------------------------------------------
\* The inductive invariant of the three loops.
THEOREM MatmulInvariance == MatmulSpec => []MatmulInv
BY MatmulStarts, MatmulStep, PTL DEF MatmulSpec

\* int8_tiled_matmul computes the product of matrices of any shape with tiles of
\* any size: each product of each sum is added exactly once.
THEOREM MatmulEveryProductOnce == MatmulSpec => []EveryProductOnce
<1>1. MatmulInv => EveryProductOnce
  <2> SUFFICES ASSUME MatmulInv PROVE EveryProductOnce
    OBVIOUS
  <2>1. TilesOK /\ acc \in [Output -> [Inner -> Nat]]
    BY InvTiles DEF MatmulInv, MatmulTypeOK
  <2>2. \A ij \in Output : (\A k \in Inner : acc[ij][k] = 0) \/ (\A k \in Inner : acc[ij][k] = 1)
    <3>1. stage \in {"load_a", "load_b", "mac", "store", "end", "idle"}
      BY DEF MatmulInv, MatmulTypeOK
    <3> QED BY <3>1 DEF MatmulInv, OutputAccumulates
  <2>3. \A ij \in Output : (\A k \in Inner : acc[ij][k] = 0) => acc[ij] = NoTerms
    BY <2>1 DEF NoTerms
  <2>4. ASSUME stage = "end", NEW ij \in Output PROVE acc[ij] # NoTerms
    <3>1. 0 \in Inner
      BY <2>1 DEF TilesOK, Inner
    <3>2. acc[ij][0] = 1
      BY <2>4, <3>1 DEF MatmulInv, OutputAccumulates
    <3> QED BY <3>1, <3>2 DEF NoTerms
  <2> QED BY <2>2, <2>3, <2>4 DEF EveryProductOnce
<1> QED BY <1>1, MatmulInvariance, PTL

-----------------------------------------------------------------------------
(* The work of the product.                                                *)

\* The cells of the output tiles before this one, and of this one.
CellsBefore == m0 * shape.n + (m1 - m0) * n0
CellsHere   == (m1 - m0) * (n1 - n0)

\* The bytes of a list's stores, as StoredBytes sums them.
StoreBytes(e) == IF e.kind = "store_c_tile" THEN e.bytes ELSE 0

\* The multiplications and the stored bytes, so far: the finished tiles whole,
\* this one up to k0.
MatmulWork ==
  /\ stage \in {"load_a", "load_b", "mac"} =>
       MacsOf(tile_events) = CellsBefore * shape.k + CellsHere * k0
  /\ stage = "store" => MacsOf(tile_events) = (CellsBefore + CellsHere) * shape.k
  /\ stage \in {"load_a", "load_b", "mac", "store"} => StoredBytes = 4 * CellsBefore
  /\ stage = "end" => MacsOf(tile_events) = (shape.m * shape.n) * shape.k
                      /\ StoredBytes = 4 * (shape.m * shape.n)

LEMMA StoredAppend ==
  ASSUME LocalSchedule(tile_events, tile_cycle), NEW e, StoreBytes(e) \in Nat,
         tile_events' = Append(tile_events, e)
  PROVE  StoredBytes' = StoredBytes + StoreBytes(e)
<1>. DEFINE list == tile_events
            longer == tile_events'
            bytes == [i \in DOMAIN list |-> StoreBytes(list[i])]
            more == [i \in DOMAIN longer |-> StoreBytes(longer[i])]
            top  == Len(list)
<1>1. /\ list \in Seq({list[i] : i \in DOMAIN list})
      /\ \A i \in DOMAIN list : list[i].bytes \in Nat
  BY DEF LocalSchedule, EventOK
<1>2. /\ top \in Nat /\ DOMAIN list = 1 .. top /\ DOMAIN longer = 1 .. top + 1
      /\ longer[top + 1] = e /\ \A i \in 1 .. top : longer[i] = list[i]
  BY <1>1
<1>3. StoredBytes = SumOf(bytes) /\ StoredBytes' = SumOf(more)
  BY DEF StoredBytes, StoreBytes
<1>4. \A i \in DOMAIN list : StoreBytes(list[i]) \in Int
  BY <1>1 DEF StoreBytes
<1>. HIDE DEF longer, top, list
<1>5. bytes \in Seq(Int) /\ Len(bytes) = top
  BY <1>2, <1>4
<1>6. more = Append(bytes, StoreBytes(e))
  <2>1. \A i \in 1 .. top + 1 : more[i] = IF i = top + 1 THEN StoreBytes(e) ELSE bytes[i]
    BY <1>2
  <2>2. DOMAIN more = 1 .. top + 1 /\ more = [i \in 1 .. top + 1 |-> more[i]]
    BY <1>2
  <2>. HIDE DEF more, bytes
  <2>3. /\ Append(bytes, StoreBytes(e)) \in Seq(Int) /\ DOMAIN Append(bytes, StoreBytes(e)) = 1 .. top + 1
        /\ \A i \in 1 .. top + 1 :
             Append(bytes, StoreBytes(e))[i] = IF i = top + 1 THEN StoreBytes(e) ELSE bytes[i]
    BY <1>2, <1>5
  <2>4. Append(bytes, StoreBytes(e)) = [i \in 1 .. top + 1 |-> Append(bytes, StoreBytes(e))[i]]
    <3>1. \A q \in Seq(Int) : q = [i \in DOMAIN q |-> q[i]]
      OBVIOUS
    <3>2. QED
      BY <2>3, <3>1
  <2>5. QED
    BY <2>1, <2>2, <2>3, <2>4
<1>. HIDE DEF bytes, more
<1>7. SumOf(more) = SumOf(bytes) + StoreBytes(e)
  BY <1>5, <1>6, SumAppend
<1>8. QED
  BY <1>3, <1>7

\* What an event adds to the two sums.
LEMMA EmitWork ==
  ASSUME LocalSchedule(tile_events, tile_cycle),
         NEW kind, NEW kRange, NEW cycles, NEW bytes \in Nat, NEW macs \in Nat,
         Emit(kind, kRange, cycles, bytes, macs)
  PROVE  /\ MacsOf(tile_events') = MacsOf(tile_events) + macs
         /\ StoredBytes' = StoredBytes + IF kind = "store_c_tile" THEN bytes ELSE 0
<1> DEFINE e == [kind |-> kind, m_range |-> <<m0, m1>>, n_range |-> <<n0, n1>>, k_range |-> kRange,
                 start |-> tile_cycle, end |-> tile_cycle + cycles, cycles |-> cycles,
                 bytes |-> bytes, macs |-> macs]
<1>1. tile_events' = Append(tile_events, e)
  BY DEF Emit
<1>2. e.macs = macs /\ StoreBytes(e) = IF kind = "store_c_tile" THEN bytes ELSE 0
  BY DEF StoreBytes
<1> HIDE DEF e
<1>3. MacsOf(Append(tile_events, e)) = MacsOf(tile_events) + e.macs
  BY <1>2, MacsAppend DEF LocalSchedule, EventOK
<1>4. StoredBytes' = StoredBytes + StoreBytes(e)
  BY <1>1, <1>2, StoredAppend
<1> QED BY <1>1, <1>2, <1>3, <1>4

\* Sums of lists are numbers.
LEMMA WorkType ==
  ASSUME LocalSchedule(tile_events, tile_cycle)
  PROVE  MacsOf(tile_events) \in Int /\ StoredBytes \in Int
<1>1. \A list \in Seq(Int) : SumOf(list) \in Int
  BY SumType
<1>2. /\ tile_events \in Seq({tile_events[i] : i \in DOMAIN tile_events})
      /\ \A i \in DOMAIN tile_events : tile_events[i].macs \in Int /\ tile_events[i].bytes \in Int
  BY DEF LocalSchedule, EventOK
<1>3. [i \in DOMAIN tile_events |-> tile_events[i].macs] \in Seq(Int)
  BY <1>2
<1>4. [i \in DOMAIN tile_events |->
        IF tile_events[i].kind = "store_c_tile" THEN tile_events[i].bytes ELSE 0] \in Seq(Int)
  BY <1>2
<1>5. QED
  BY <1>1, <1>3, <1>4 DEF MacsOf, StoredBytes

LEMMA CellsType ==
  ASSUME TilesOK
  PROVE  /\ m1 - m0 \in Nat /\ n1 - n0 \in Nat /\ k1 - k0 \in Nat
         /\ CellsHere \in Nat /\ CellsBefore \in Nat
<1>1. m1 - m0 \in Nat /\ n1 - n0 \in Nat /\ k1 - k0 \in Nat /\ m0 \in Nat /\ n0 \in Nat /\ shape.n \in Nat
  BY Bounds DEF TilesOK
<1>2. (m1 - m0) * (n1 - n0) \in Nat /\ m0 * shape.n \in Nat /\ (m1 - m0) * n0 \in Nat
  BY <1>1, ProductsAreNat
<1>3. QED
  BY <1>1, <1>2 DEF CellsHere, CellsBefore

LEMMA MatmulWorkStarts == MatmulInit => MatmulWork
BY DEF MatmulInit, MatmulWork

LEMMA CallWork ==
  ASSUME NEW s \in Shapes, NEW c \in Configs, CallMatmul(s, c)
  PROVE  MatmulWork'
<1>1. /\ shape' = s /\ cfg' = c /\ m0' = 0 /\ n0' = 0 /\ k0' = 0 /\ stage' = "load_a"
      /\ tile_events' = <<>>
  BY DEF CallMatmul
<1>2. s.m \in Nat \ {0} /\ s.k \in Nat \ {0} /\ s.n \in Nat \ {0}
  BY DEF Shapes, Positive
<1>3. c.tile_m \in Nat \ {0} /\ c.tile_n \in Nat \ {0}
  BY ConfigFields
<1>4. m1' \in Int /\ n1' \in Int
  BY <1>1, <1>2, <1>3 DEF m1, n1, Upto
<1>5. CellsBefore' = 0 /\ (CellsHere * k0)' = 0
  <2>1. \A a, b \in Int : 0 * a + (b - 0) * 0 = 0 /\ ((b - 0) * (a - 0)) * 0 = 0
    OBVIOUS
  <2>2. CellsBefore' = 0 * s.n + (m1' - 0) * 0 /\ (CellsHere * k0)' = ((m1' - 0) * (n1' - 0)) * 0
    BY <1>1 DEF CellsBefore, CellsHere
  <2>3. s.n \in Int
    BY <1>2
  <2>4. QED
    BY <1>4, <2>1, <2>2, <2>3
<1>6. MacsOf(tile_events') = 0 /\ StoredBytes' = 0
  <2>1. [i \in DOMAIN <<>> |-> IF <<>>[i].kind = "store_c_tile" THEN <<>>[i].bytes ELSE 0] = <<>>
    OBVIOUS
  <2>2. QED
    BY <1>1, <2>1, MacsEmpty, SumEmpty DEF StoredBytes
<1>7. CellsBefore' * shape'.k = 0
  BY <1>1, <1>2, <1>5
<1>8. QED
  BY <1>1, <1>5, <1>6, <1>7 DEF MatmulWork

LEMMA LoadWork ==
  ASSUME MatmulInv, MatmulWork, LoadATile \/ LoadBTile
  PROVE  MatmulWork'
<1>1. /\ stage \in {"load_a", "load_b"} /\ stage' \in {"load_b", "mac"}
      /\ shape' = shape /\ cfg' = cfg /\ m0' = m0 /\ n0' = n0 /\ k0' = k0
  BY DEF LoadATile, LoadBTile, args, loopVars
<1>2. TilesOK /\ LocalSchedule(tile_events, tile_cycle)
  BY InvTiles DEF MatmulInv
<1>3. (m1 - m0) * (k1 - k0) \in Nat /\ (k1 - k0) * (n1 - n0) \in Nat
  BY <1>2, CellsType, ProductsAreNat
<1>4. MacsOf(tile_events') = MacsOf(tile_events) + 0 /\ StoredBytes' = StoredBytes + 0
  BY <1>2, <1>3, EmitWork DEF LoadATile, LoadBTile
<1>5. MacsOf(tile_events') = MacsOf(tile_events) /\ StoredBytes' = StoredBytes
  BY <1>2, <1>4, WorkType
<1>6. CellsBefore' = CellsBefore /\ CellsHere' = CellsHere
  BY <1>1 DEF CellsBefore, CellsHere, m1, n1
<1>7. QED
  BY <1>1, <1>5, <1>6 DEF MatmulWork

LEMMA MacWork ==
  ASSUME MatmulInv, MatmulWork, MacTile
  PROVE  MatmulWork'
<1>1. /\ stage = "mac" /\ shape' = shape /\ cfg' = cfg /\ m0' = m0 /\ n0' = n0
      /\ LastTile => stage' = "store"
      /\ ~LastTile => stage' = "load_a" /\ k0' = k0 + cfg.tile_k
  BY DEF MacTile, args
<1>2. TilesOK /\ LocalSchedule(tile_events, tile_cycle)
  BY InvTiles DEF MatmulInv
<1>3. CellsHere \in Nat /\ CellsBefore \in Nat /\ k1 - k0 \in Nat
  BY <1>2, CellsType
<1>4. k0 \in Int /\ k1 \in Int /\ shape.k \in Int
  BY <1>2, Bounds DEF TilesOK
<1>5. /\ MacsOf(tile_events') = MacsOf(tile_events) + CellsHere * (k1 - k0)
      /\ StoredBytes' = StoredBytes + 0
  <2>1. CellsHere * (k1 - k0) \in Nat
    BY <1>3, ProductsAreNat
  <2>2. Emit("mac_tile", <<k0, k1>>, ComputeCycles(CellsHere * (k1 - k0)), 0, CellsHere * (k1 - k0))
    BY DEF MacTile, CellsHere
  <2>3. QED
    BY <1>2, <2>1, <2>2, EmitWork
<1>6. CellsBefore' = CellsBefore /\ CellsHere' = CellsHere
  BY <1>1 DEF CellsBefore, CellsHere, m1, n1
<1>7. StoredBytes' = 4 * CellsBefore'
  BY <1>1, <1>2, <1>5, <1>6, WorkType DEF MatmulWork
<1>8. MacsOf(tile_events') = CellsBefore * shape.k + CellsHere * k1
  <2>1. MacsOf(tile_events) = CellsBefore * shape.k + CellsHere * k0
    BY <1>1 DEF MatmulWork
  <2>2. CellsHere * k0 + CellsHere * (k1 - k0) = CellsHere * k1
    BY <1>3, <1>4, MoreColumns
  <2>3. CellsBefore * shape.k \in Int /\ CellsHere * k0 \in Int /\ CellsHere * (k1 - k0) \in Int
    BY <1>3, <1>4, IntProduct
  <2>. DEFINE x == CellsBefore * shape.k
              y == CellsHere * k0
              z == CellsHere * (k1 - k0)
  <2>4. MacsOf(tile_events') = (x + y) + z /\ y + z = CellsHere * k1
    BY <1>5, <2>1, <2>2
  <2>5. x \in Int /\ y \in Int /\ z \in Int
    BY <2>3
  <2>. HIDE DEF x, y, z
  <2>6. MacsOf(tile_events') = x + CellsHere * k1
    BY <2>4, <2>5
  <2>7. QED
    BY <2>6 DEF x
<1>9. CASE LastTile
  <2>1. k1 = shape.k
    BY <1>2, <1>9, Bounds DEF LastTile
  <2>2. CellsBefore * shape.k + CellsHere * shape.k = (CellsBefore + CellsHere) * shape.k
    BY <1>3, <1>4
  <2>3. QED
    BY <1>1, <1>6, <1>7, <1>8, <1>9, <2>1, <2>2 DEF MatmulWork
<1>10. CASE ~LastTile
  <2>1. k0' = k1
    BY <1>1, <1>2, <1>10, Bounds DEF LastTile, TilesOK
  <2>2. QED
    BY <1>1, <1>6, <1>7, <1>8, <1>10, <2>1 DEF MatmulWork
<1>11. QED
  BY <1>9, <1>10

LEMMA StoreWork ==
  ASSUME MatmulInv, MatmulWork, StoreCTile
  PROVE  MatmulWork'
<1> DEFINE lastN == n0 + cfg.tile_n >= shape.n
           lastM == m0 + cfg.tile_m >= shape.m
<1>1. /\ stage = "store" /\ shape' = shape /\ cfg' = cfg /\ k0' = 0
      /\ n0' = (IF lastN THEN 0 ELSE n0 + cfg.tile_n)
      /\ m0' = (IF lastN /\ ~lastM THEN m0 + cfg.tile_m ELSE m0)
      /\ stage' = (IF lastN /\ lastM THEN "end" ELSE "load_a")
  BY DEF StoreCTile, NextOutputTile, args
<1>2. TilesOK /\ LocalSchedule(tile_events, tile_cycle)
  BY InvTiles DEF MatmulInv
<1>3. /\ CellsHere \in Nat /\ CellsBefore \in Nat
      /\ m0 \in Int /\ m1 \in Int /\ n0 \in Int /\ n1 \in Int /\ shape.n \in Int /\ shape.k \in Int
  BY <1>2, CellsType, Bounds DEF TilesOK
<1>4. MacsOf(tile_events') = MacsOf(tile_events) + 0 /\ StoredBytes' = StoredBytes + CellsHere * 4
  <2>1. CellsHere * 4 \in Nat
    BY <1>3
  <2>2. Emit("store_c_tile", <<0, shape.k>>, StoreCycles(CellsHere), CellsHere * 4, 0)
    BY DEF StoreCTile, CellsHere
  <2>3. QED
    BY <1>2, <2>1, <2>2, EmitWork
<1>. DEFINE cells == CellsBefore + CellsHere
<1>5. cells \in Nat /\ MacsOf(tile_events') = cells * shape.k /\ StoredBytes' = 4 * cells
  BY <1>1, <1>2, <1>3, <1>4, WorkType DEF MatmulWork
<1>6. cells = m0 * shape.n + (m1 - m0) * n1
  <2>1. (m1 - m0) * n0 + (m1 - m0) * (n1 - n0) = (m1 - m0) * n1
    BY <1>3, MoreColumns
  <2>2. m0 * shape.n \in Int /\ (m1 - m0) * n0 \in Int /\ (m1 - m0) * (n1 - n0) \in Int
    BY <1>3, IntProduct
  <2>. DEFINE x == m0 * shape.n
              y == (m1 - m0) * n0
              z == (m1 - m0) * (n1 - n0)
  <2>3. cells = (x + y) + z /\ y + z = (m1 - m0) * n1 /\ x \in Int /\ y \in Int /\ z \in Int
    BY <2>1, <2>2 DEF CellsBefore, CellsHere
  <2>. HIDE DEF x, y, z, cells
  <2>4. cells = x + (m1 - m0) * n1
    BY <2>3
  <2>5. QED
    BY <2>4 DEF x
<1>. HIDE DEF cells
<1>7. lastN => cells = m1 * shape.n
  <2>1. lastN => n1 = shape.n
    BY <1>2, Bounds
  <2>2. m0 * shape.n + (m1 - m0) * shape.n = m1 * shape.n
    BY <1>3, MoreColumns
  <2>3. QED
    BY <1>6, <2>1, <2>2
<1>8. CASE lastN /\ lastM
  <2>1. m1 = shape.m /\ cells = shape.m * shape.n
    BY <1>2, <1>7, <1>8, Bounds
  <2>2. stage' = "end"
    BY <1>1, <1>8
  <2>3. QED
    BY <1>1, <1>5, <2>1, <2>2 DEF MatmulWork
<1>9. CASE ~(lastN /\ lastM)
  <2>1. stage' = "load_a" /\ k0' = 0
    BY <1>1, <1>9
  <2>2. m1' \in Int /\ n1' \in Int
    <3>1. m0' \in Int /\ n0' \in Int
      BY <1>1, <1>2 DEF TilesOK
    <3>2. shape.m \in Int /\ cfg.tile_m \in Int /\ cfg.tile_n \in Int
      BY <1>2 DEF TilesOK
    <3>3. QED
      BY <1>1, <1>3, <3>1, <3>2 DEF m1, n1, Upto
  <2>3. CellsBefore' = cells
    <3>1. CASE lastN
      <4>1. m0' = m1 /\ n0' = 0
        BY <1>1, <1>2, <1>9, <3>1, Bounds DEF TilesOK
      <4>2. CellsBefore' = m1 * shape.n + (m1' - m1) * 0
        BY <1>1, <4>1 DEF CellsBefore
      <4>3. m1 * shape.n \in Int /\ m1' - m1 \in Int
        BY <1>3, <2>2, IntProduct
      <4>4. QED
        BY <1>7, <3>1, <4>2, <4>3
    <3>2. CASE ~lastN
      <4>1. m0' = m0 /\ n0' = n1
        BY <1>1, <1>2, <3>2, Bounds DEF TilesOK
      <4>2. m1' = m1
        BY <1>1, <4>1 DEF m1
      <4>3. QED
        BY <1>1, <1>6, <4>1, <4>2 DEF CellsBefore
    <3>3. QED
      BY <3>1, <3>2
  <2>4. CellsHere' * k0' = 0
    <3>1. CellsHere' \in Int
      <4>1. m0' \in Int /\ n0' \in Int
        BY <1>1, <1>2 DEF TilesOK
      <4>2. m1' - m0' \in Int /\ n1' - n0' \in Int
        BY <2>2, <4>1
      <4>3. (m1' - m0') * (n1' - n0') \in Int
        BY <4>2, IntProduct
      <4>4. QED
        BY <4>3 DEF CellsHere
    <3>2. \A a \in Int : a * 0 = 0
      OBVIOUS
    <3>3. QED
      BY <2>1, <3>1, <3>2
  <2>5. cells * shape.k \in Int
    <3>1. cells \in Int
      BY <1>5
    <3>2. QED
      BY <1>3, <3>1, IntProduct
  <2>6. MacsOf(tile_events') = CellsBefore' * shape'.k + CellsHere' * k0'
    BY <1>1, <1>5, <2>3, <2>4, <2>5
  <2>7. QED
    BY <1>5, <2>1, <2>3, <2>6 DEF MatmulWork
<1>10. QED
  BY <1>8, <1>9

LEMMA MatmulWorkStep == MatmulInv /\ MatmulWork /\ [MatmulNext]_matmulVars => MatmulWork'
<1> SUFFICES ASSUME MatmulInv, MatmulWork, [MatmulNext]_matmulVars PROVE MatmulWork'
  OBVIOUS
<1>1. ASSUME NEW s \in Shapes, NEW c \in Configs, CallMatmul(s, c) PROVE MatmulWork'
  BY <1>1, CallWork
<1>2. CASE LoadATile \/ LoadBTile
  BY <1>2, LoadWork
<1>3. CASE MacTile
  BY <1>3, MacWork
<1>4. CASE StoreCTile
  BY <1>4, StoreWork
<1>5. CASE ReturnMatmul
  BY <1>5 DEF ReturnMatmul, MatmulWork
<1>6. CASE UNCHANGED matmulVars
  <2>1. /\ stage' = stage /\ shape' = shape /\ cfg' = cfg
        /\ m0' = m0 /\ n0' = n0 /\ k0' = k0 /\ tile_events' = tile_events
    BY <1>6 DEF matmulVars, args, loopVars
  <2>2. CellsBefore' = CellsBefore /\ CellsHere' = CellsHere /\ StoredBytes' = StoredBytes
    BY <2>1 DEF CellsBefore, CellsHere, StoredBytes, m1, n1
  <2> QED BY <2>1, <2>2 DEF MatmulWork
<1> QED BY <1>1, <1>2, <1>3, <1>4, <1>5, <1>6 DEF MatmulNext, MatmulSteps

\* The events of int8_tiled_matmul claim exactly the work of the product, for
\* matrices of any shape and tiles that do not divide it too.
THEOREM MatmulWorkAddsUp == MatmulSpec => []WorkAddsUp
<1>1. MatmulInv /\ MatmulWork => WorkAddsUp
  <2> SUFFICES ASSUME MatmulInv, MatmulWork, stage = "end"
               PROVE  /\ MacsOf(tile_events) = shape.m * shape.n * shape.k
                      /\ StoredBytes = 4 * shape.m * shape.n
    BY DEF WorkAddsUp
  <2>1. shape.m \in Int /\ shape.n \in Int
    BY InvTiles DEF MatmulInv, TilesOK
  <2>2. 4 * shape.m * shape.n = 4 * (shape.m * shape.n)
    BY <2>1
  <2> QED BY <2>2 DEF MatmulWork
<1> QED BY <1>1, MatmulInvariance, MatmulWorkStarts, MatmulWorkStep, PTL DEF MatmulSpec

-----------------------------------------------------------------------------
(* The test vectors cut from the events of a product.                      *)

Macs        == {i \in DOMAIN tile_events : tile_events[i].kind = "mac_tile"}
RegionAt(i) == <<tile_events[i].m_range, tile_events[i].n_range>>
InnerAt(i)  == tile_events[i].k_range
ThisRegion  == <<<<m0, m1>>, <<n0, n1>>>>

RangeIn(range, limit) ==
  range[1] \in Nat /\ range[2] \in Nat /\ range[1] < range[2] /\ range[2] <= limit

\* The order in which the loops come to the regions.
ComesBefore(region) == region[1][1] < m0 \/ (region[1][1] = m0 /\ region[2][1] < n0)

\* An event multiplies index k of a region, or a cell is in its region.
Sliced(region, k) == \E i \in Macs : RegionAt(i) = region /\ Within(k, InnerAt(i))
Framed(ij) == \E i \in Macs : Within(ij[1], RegionAt(i)[1]) /\ Within(ij[2], RegionAt(i)[2])

MacRanges ==
  \A i \in Macs : /\ RangeIn(RegionAt(i)[1], shape.m) /\ RangeIn(RegionAt(i)[2], shape.n)
                  /\ RangeIn(InnerAt(i), shape.k)

MacsApart ==
  \A i, j \in Macs, k \in Inner :
    RegionAt(i) = RegionAt(j) /\ Within(k, InnerAt(i)) /\ Within(k, InnerAt(j)) => i = j

\* Regions before this one are sliced whole, this one up to `limit`.
SlicedTo(limit) ==
  /\ \A i \in Macs : RegionAt(i) = ThisRegion \/ ComesBefore(RegionAt(i))
  /\ \A i \in Macs : RegionAt(i) = ThisRegion => InnerAt(i)[2] <= limit
  /\ \A k \in Inner : k < limit => Sliced(ThisRegion, k)
  /\ \A i \in Macs : RegionAt(i) # ThisRegion => \A k \in Inner : Sliced(RegionAt(i), k)
  /\ \A ij \in Output : Finished(ij) => Framed(ij)

VectorInv ==
  /\ MacRanges /\ MacsApart
  /\ stage \in {"load_a", "load_b", "mac"} => SlicedTo(k0)
  /\ stage = "store" => SlicedTo(shape.k)
  /\ stage = "end" =>
       /\ \A i \in Macs, k \in Inner : Sliced(RegionAt(i), k)
       /\ \A ij \in Output : Framed(ij)

\* An event more.
LEMMA EventAdded ==
  ASSUME LocalSchedule(tile_events, tile_cycle), NEW e, tile_events' = Append(tile_events, e),
         NEW next, next = Len(tile_events) + 1
  PROVE  /\ next \notin Macs /\ tile_events'[next] = e
         /\ \A i \in Macs : tile_events'[i] = tile_events[i]
         /\ Macs' = IF e.kind = "mac_tile" THEN Macs \cup {next} ELSE Macs
<1>1. tile_events \in Seq({tile_events[i] : i \in DOMAIN tile_events})
  BY DEF LocalSchedule
<1>2. /\ Len(tile_events) \in Nat /\ DOMAIN tile_events = 1 .. Len(tile_events)
      /\ DOMAIN tile_events' = 1 .. next /\ tile_events'[next] = e
      /\ \A i \in 1 .. Len(tile_events) : tile_events'[i] = tile_events[i]
  BY <1>1
<1>3. next \notin 1 .. Len(tile_events) /\ 1 .. next = (1 .. Len(tile_events)) \cup {next}
  BY <1>2
<1>4. \A i \in Macs : tile_events'[i] = tile_events[i]
  BY <1>2 DEF Macs
<1>5. Macs' = IF e.kind = "mac_tile" THEN Macs \cup {next} ELSE Macs
  BY <1>2, <1>3 DEF Macs
<1>6. next \notin Macs
  BY <1>2, <1>3 DEF Macs
<1> QED BY <1>2, <1>4, <1>5, <1>6

\* An event that is not a mac_tile slices and frames nothing.
LEMMA MacsKept ==
  ASSUME Macs' = Macs, \A i \in Macs : tile_events'[i] = tile_events[i],
         shape' = shape, MacRanges, MacsApart
  PROVE  /\ MacRanges' /\ MacsApart' /\ Inner' = Inner /\ Output' = Output
         /\ \A i \in Macs : RegionAt(i)' = RegionAt(i) /\ InnerAt(i)' = InnerAt(i)
         /\ \A region, k : Sliced(region, k)' <=> Sliced(region, k)
         /\ \A ij : Framed(ij)' <=> Framed(ij)
<1>1. \A i \in Macs : RegionAt(i)' = RegionAt(i) /\ InnerAt(i)' = InnerAt(i)
  BY DEF RegionAt, InnerAt
<1>2. Inner' = Inner /\ Output' = Output
  BY DEF Inner, Output
<1>3. MacRanges' /\ MacsApart'
  BY <1>1, <1>2 DEF MacRanges, MacsApart
<1>4. \A region, k : Sliced(region, k)' <=> Sliced(region, k)
  BY <1>1 DEF Sliced
<1>5. \A ij : Framed(ij)' <=> Framed(ij)
  BY <1>1 DEF Framed
<1> QED BY <1>1, <1>2, <1>3, <1>4, <1>5

LEMMA VectorLoad ==
  ASSUME MatmulInv, VectorInv, LoadATile \/ LoadBTile
  PROVE  VectorInv'
<1>1. /\ stage \in {"load_a", "load_b"} /\ stage' \in {"load_b", "mac"}
      /\ shape' = shape /\ cfg' = cfg /\ m0' = m0 /\ n0' = n0 /\ k0' = k0
  BY DEF LoadATile, LoadBTile, args, loopVars
<1>2. PICK e : e.kind \in {"load_a_tile", "load_b_tile"} /\ tile_events' = Append(tile_events, e)
  <2>1. CASE LoadATile
    BY <2>1 DEF LoadATile, Emit
  <2>2. CASE LoadBTile
    BY <2>2 DEF LoadBTile, Emit
  <2> QED BY <2>1, <2>2
<1>3. Macs' = Macs /\ \A i \in Macs : tile_events'[i] = tile_events[i]
  <2>1. PICK next : next = Len(tile_events) + 1
    OBVIOUS
  <2>2. LocalSchedule(tile_events, tile_cycle) /\ e.kind # "mac_tile"
    BY <1>2 DEF MatmulInv
  <2> QED BY <1>2, <2>1, <2>2, EventAdded
<1>4. MacRanges /\ MacsApart /\ SlicedTo(k0)
  BY <1>1 DEF VectorInv
<1>5. /\ MacRanges' /\ MacsApart' /\ Inner' = Inner /\ Output' = Output
      /\ \A i \in Macs : RegionAt(i)' = RegionAt(i) /\ InnerAt(i)' = InnerAt(i)
      /\ \A region, k : Sliced(region, k)' <=> Sliced(region, k)
      /\ \A ij : Framed(ij)' <=> Framed(ij)
  BY <1>1, <1>3, <1>4, MacsKept
<1>6. ThisRegion' = ThisRegion /\ (\A region : ComesBefore(region)' <=> ComesBefore(region))
      /\ \A ij : Finished(ij)' <=> Finished(ij)
  BY <1>1 DEF ThisRegion, ComesBefore, Finished, m1, n1
<1>7. SlicedTo(k0)'
  BY <1>1, <1>3, <1>4, <1>5, <1>6 DEF SlicedTo
<1> QED BY <1>1, <1>5, <1>7 DEF VectorInv

\* One slice more of this region.
LEMMA VectorMac ==
  ASSUME MatmulInv, VectorInv, MacTile
  PROVE  VectorInv'
<1>1. /\ stage = "mac" /\ shape' = shape /\ cfg' = cfg /\ m0' = m0 /\ n0' = n0
      /\ LastTile => stage' = "store" /\ k0' = k0
      /\ ~LastTile => stage' = "load_a" /\ k0' = k0 + cfg.tile_k
  BY DEF MacTile, args
<1>2. TilesOK
  BY InvTiles DEF MatmulInv
<1>3. /\ m1 \in m0 + 1 .. shape.m /\ n1 \in n0 + 1 .. shape.n /\ k1 \in k0 + 1 .. shape.k
      /\ m0 \in Nat /\ n0 \in Nat /\ k0 \in Nat /\ shape.k \in Nat /\ shape.m \in Nat /\ shape.n \in Nat
  BY <1>2, Bounds DEF TilesOK
<1>4. MacRanges /\ MacsApart /\ SlicedTo(k0)
  BY <1>1 DEF VectorInv
<1>5. PICK e : /\ e.kind = "mac_tile" /\ tile_events' = Append(tile_events, e)
               /\ e.m_range = <<m0, m1>> /\ e.n_range = <<n0, n1>> /\ e.k_range = <<k0, k1>>
  BY DEF MacTile, Emit
<1>6. LocalSchedule(tile_events, tile_cycle)
  BY DEF MatmulInv
<1> PICK next : next = Len(tile_events) + 1
  OBVIOUS
<1>7. /\ next \notin Macs /\ tile_events'[next] = e
      /\ \A i \in Macs : tile_events'[i] = tile_events[i]
      /\ Macs' = Macs \cup {next}
  BY <1>5, <1>6, EventAdded
<1>8. /\ \A i \in Macs : RegionAt(i)' = RegionAt(i) /\ InnerAt(i)' = InnerAt(i)
      /\ RegionAt(next)' = ThisRegion /\ InnerAt(next)' = <<k0, k1>>
  BY <1>5, <1>7 DEF RegionAt, InnerAt, ThisRegion
<1>9. /\ ThisRegion' = ThisRegion /\ Inner' = Inner /\ Output' = Output
      /\ \A region : ComesBefore(region)' <=> ComesBefore(region)
      /\ \A ij : Finished(ij)' <=> Finished(ij)
  BY <1>1 DEF ThisRegion, ComesBefore, Finished, m1, n1, Inner, Output
<1>10. MacRanges'
  <2>1. \A i \in Macs' : /\ RangeIn(RegionAt(i)'[1], shape.m) /\ RangeIn(RegionAt(i)'[2], shape.n)
                         /\ RangeIn(InnerAt(i)', shape.k)
    <3>1. /\ RangeIn(ThisRegion[1], shape.m) /\ RangeIn(ThisRegion[2], shape.n)
          /\ RangeIn(<<k0, k1>>, shape.k)
      BY <1>3 DEF RangeIn, ThisRegion
    <3> QED BY <1>4, <1>7, <1>8, <3>1 DEF MacRanges
  <2> QED BY <1>1, <2>1 DEF MacRanges, RangeIn
<1>11. MacsApart'
  <2>1. \A i \in Macs, k \in Inner :
          ~(RegionAt(i) = ThisRegion /\ Within(k, InnerAt(i)) /\ Within(k, <<k0, k1>>))
    <3> SUFFICES ASSUME NEW i \in Macs, NEW k \in Inner, RegionAt(i) = ThisRegion,
                        Within(k, InnerAt(i)), Within(k, <<k0, k1>>)
                 PROVE  FALSE
      OBVIOUS
    <3>1. InnerAt(i)[2] <= k0 /\ InnerAt(i)[2] \in Nat
      BY <1>4 DEF SlicedTo, MacRanges, RangeIn
    <3>2. k < InnerAt(i)[2] /\ k0 <= k /\ k \in Nat
      BY <1>3 DEF Within, Inner
    <3> QED BY <1>3, <3>1, <3>2
  <2>2. \A i, j \in Macs', k \in Inner :
          RegionAt(i)' = RegionAt(j)' /\ Within(k, InnerAt(i)') /\ Within(k, InnerAt(j)') => i = j
    BY <1>4, <1>7, <1>8, <2>1 DEF MacsApart
  <2> QED BY <1>9, <2>2 DEF MacsApart, Within
<1>12. /\ \A region, k : Sliced(region, k) => Sliced(region, k)'
       /\ \A ij : Framed(ij) => Framed(ij)'
  BY <1>7, <1>8 DEF Sliced, Framed, Within
<1>13. \A k \in Inner : k < k1 =>
          \E i \in Macs' : RegionAt(i)' = ThisRegion /\ Within(k, InnerAt(i)')
  <2> SUFFICES ASSUME NEW k \in Inner, k < k1
               PROVE  \E i \in Macs' : RegionAt(i)' = ThisRegion /\ Within(k, InnerAt(i)')
    OBVIOUS
  <2>1. CASE k < k0
    <3>1. PICK i \in Macs : RegionAt(i) = ThisRegion /\ Within(k, InnerAt(i))
      BY <1>4, <2>1 DEF SlicedTo, Sliced
    <3> QED BY <1>7, <1>8, <3>1
  <2>2. CASE ~(k < k0)
    <3>1. Within(k, <<k0, k1>>)
      BY <1>3, <2>2 DEF Within, Inner
    <3> QED BY <1>7, <1>8, <3>1
  <2> QED BY <2>1, <2>2
<1>14. PICK limit : limit = k1
  OBVIOUS
<1>15. SlicedTo(limit)'
  <2>1. \A i \in Macs' : RegionAt(i)' = ThisRegion' \/ ComesBefore(RegionAt(i))'
    BY <1>4, <1>7, <1>8, <1>9 DEF SlicedTo
  <2>2. \A i \in Macs' : RegionAt(i)' = ThisRegion' => InnerAt(i)'[2] <= limit
    <3> SUFFICES ASSUME NEW i \in Macs', RegionAt(i)' = ThisRegion' PROVE InnerAt(i)'[2] <= k1
      BY <1>14
    <3>1. CASE i = next
      BY <1>3, <1>8, <3>1
    <3>2. CASE i \in Macs
      <4>1. InnerAt(i)'[2] <= k0 /\ InnerAt(i)'[2] \in Nat
        BY <1>4, <1>8, <1>9, <3>2 DEF SlicedTo, MacRanges, RangeIn
      <4> QED BY <1>3, <4>1
    <3> QED BY <1>7, <3>1, <3>2
  <2>3. \A k \in Inner' : k < limit => Sliced(ThisRegion, k)'
    BY <1>9, <1>13, <1>14 DEF Sliced, Within
  <2>4. \A i \in Macs' : RegionAt(i)' # ThisRegion' => \A k \in Inner' : Sliced(RegionAt(i), k)'
    <3> SUFFICES ASSUME NEW i \in Macs', RegionAt(i)' # ThisRegion', NEW k \in Inner'
                 PROVE  Sliced(RegionAt(i), k)'
      OBVIOUS
    <3>1. i \in Macs /\ RegionAt(i) # ThisRegion /\ RegionAt(i)' = RegionAt(i) /\ k \in Inner
      BY <1>7, <1>8, <1>9
    <3>2. PICK j \in Macs : RegionAt(j) = RegionAt(i) /\ Within(k, InnerAt(j))
      BY <1>4, <3>1 DEF SlicedTo, Sliced
    <3> QED BY <1>7, <1>8, <3>1, <3>2 DEF Sliced, Within
  <2>5. \A ij \in Output' : Finished(ij)' => Framed(ij)'
    BY <1>4, <1>9, <1>12 DEF SlicedTo
  <2> QED BY <2>1, <2>2, <2>3, <2>4, <2>5 DEF SlicedTo
<1>16. CASE LastTile
  <2>1. stage' = "store" /\ limit = shape'.k
    BY <1>1, <1>2, <1>14, <1>16, Bounds DEF LastTile
  <2>2. SlicedTo(shape.k)'
    BY <1>15, <2>1
  <2> QED BY <1>10, <1>11, <2>1, <2>2 DEF VectorInv
<1>17. CASE ~LastTile
  <2>1. stage' = "load_a" /\ limit = k0'
    <3>1. stage' = "load_a" /\ k0' = k0 + cfg.tile_k
      BY <1>1, <1>17
    <3>2. k0 + cfg.tile_k < shape.k
      BY <1>2, <1>17 DEF LastTile, TilesOK
    <3>3. k1 = k0 + cfg.tile_k
      BY <1>2, <3>2, Bounds
    <3> QED BY <1>14, <3>1, <3>3
  <2>2. SlicedTo(k0)'
    BY <1>15, <2>1
  <2> QED BY <1>10, <1>11, <2>1, <2>2 DEF VectorInv
<1> QED BY <1>16, <1>17

\* A region is done, and the loops go on to one they have not been to.
LEMMA VectorStore ==
  ASSUME MatmulInv, VectorInv, StoreCTile
  PROVE  VectorInv'
<1> DEFINE lastN == n0 + cfg.tile_n >= shape.n
           lastM == m0 + cfg.tile_m >= shape.m
<1>1. /\ stage = "store" /\ shape' = shape /\ cfg' = cfg /\ k0' = 0
      /\ n0' = (IF lastN THEN 0 ELSE n0 + cfg.tile_n)
      /\ m0' = (IF lastN /\ ~lastM THEN m0 + cfg.tile_m ELSE m0)
      /\ stage' = (IF lastN /\ lastM THEN "end" ELSE "load_a")
  BY DEF StoreCTile, NextOutputTile, args
<1>2. TilesOK
  BY InvTiles DEF MatmulInv
<1>3. /\ m1 \in m0 + 1 .. shape.m /\ n1 \in n0 + 1 .. shape.n
      /\ m0 \in Nat /\ n0 \in Nat /\ shape.k \in Nat /\ shape.m \in Nat /\ shape.n \in Nat
      /\ 0 \in Inner
  BY <1>2, Bounds DEF TilesOK, Inner
<1>4. MacRanges /\ MacsApart /\ SlicedTo(shape.k)
  BY <1>1 DEF VectorInv
<1>5. PICK e : e.kind = "store_c_tile" /\ tile_events' = Append(tile_events, e)
  BY DEF StoreCTile, Emit
<1>6. Macs' = Macs /\ \A i \in Macs : tile_events'[i] = tile_events[i]
  <2>1. PICK next : next = Len(tile_events) + 1
    OBVIOUS
  <2>2. LocalSchedule(tile_events, tile_cycle) /\ e.kind # "mac_tile"
    BY <1>5 DEF MatmulInv
  <2> QED BY <1>5, <2>1, <2>2, EventAdded
<1>7. /\ MacRanges' /\ MacsApart' /\ Inner' = Inner /\ Output' = Output
      /\ \A i \in Macs : RegionAt(i)' = RegionAt(i) /\ InnerAt(i)' = InnerAt(i)
      /\ \A region, k : Sliced(region, k)' <=> Sliced(region, k)
      /\ \A ij : Framed(ij)' <=> Framed(ij)
  BY <1>1, <1>4, <1>6, MacsKept
<1>8. \A i \in Macs, k \in Inner : Sliced(RegionAt(i), k)
  <2> SUFFICES ASSUME NEW i \in Macs, NEW k \in Inner PROVE Sliced(RegionAt(i), k)
    OBVIOUS
  <2>1. k < shape.k
    BY <1>3 DEF Inner
  <2> QED BY <1>4, <2>1 DEF SlicedTo
<1>9. \A ij \in Output : ij \in OutputTile \/ Finished(ij) => Framed(ij)
  <2> SUFFICES ASSUME NEW ij \in Output, ij \in OutputTile PROVE Framed(ij)
    BY <1>4 DEF SlicedTo
  <2>1. PICK i \in Macs : RegionAt(i) = ThisRegion
    BY <1>3, <1>4 DEF SlicedTo, Sliced, TilesOK, Inner
  <2>2. ij[1] \in m0 .. m1 - 1 /\ ij[2] \in n0 .. n1 - 1
    BY DEF OutputTile
  <2>3. Within(ij[1], ThisRegion[1]) /\ Within(ij[2], ThisRegion[2])
    BY <1>3, <2>2 DEF Within, ThisRegion
  <2> QED BY <2>1, <2>3 DEF Framed
<1>10. \A ij \in Output :
         /\ ij[1] \in 0 .. shape.m - 1 /\ ij[2] \in 0 .. shape.n - 1
         /\ ij \in OutputTile <=> ij[1] >= m0 /\ ij[1] < m1 /\ ij[2] >= n0 /\ ij[2] < n1
  BY <1>2, Bounds DEF Output, OutputTile, TilesOK
<1>11. CASE lastN /\ lastM
  <2>1. m1 = shape.m /\ n1 = shape.n
    BY <1>2, <1>11, Bounds
  <2>2. \A ij \in Output : ij \in OutputTile \/ Finished(ij)
    BY <1>2, <1>10, <2>1 DEF Finished, TilesOK
  <2>3. stage' = "end"
    BY <1>1, <1>11
  <2>4. \A i \in Macs', k \in Inner' : Sliced(RegionAt(i), k)'
    <3> SUFFICES ASSUME NEW i \in Macs, NEW k \in Inner PROVE Sliced(RegionAt(i), k)'
      BY <1>6, <1>7
    <3>1. PICK j \in Macs : RegionAt(j) = RegionAt(i) /\ Within(k, InnerAt(j))
      BY <1>8 DEF Sliced
    <3> QED BY <1>6, <1>7, <3>1 DEF Sliced, Within
  <2>5. \A ij \in Output' : Framed(ij)'
    BY <1>7, <1>9, <2>2
  <2> QED BY <1>7, <2>3, <2>4, <2>5 DEF VectorInv
<1>12. CASE ~(lastN /\ lastM)
  <2>1. stage' = "load_a"
    BY <1>1, <1>12
  <2>2. \/ m0' = m0 /\ n0' = n1 /\ m1' = m1
        \/ m0' = m1 /\ n0' = 0 /\ n1 = shape.n
    <3>1. CASE lastN
      BY <1>1, <1>2, <1>12, <3>1, Bounds DEF TilesOK
    <3>2. CASE ~lastN
      <4>1. m0' = m0 /\ n0' = n1
        BY <1>1, <1>2, <3>2, Bounds DEF TilesOK
      <4> QED BY <1>1, <4>1 DEF m1
    <3> QED BY <3>1, <3>2
  <2>3. \A ij \in Output : Finished(ij)' => ij \in OutputTile \/ Finished(ij)
    BY <1>3, <1>10, <2>2 DEF Finished
  <2>4. \A i \in Macs : /\ ComesBefore(RegionAt(i))'
                        /\ RegionAt(i)' # ThisRegion'
    <3> SUFFICES ASSUME NEW i \in Macs PROVE ComesBefore(RegionAt(i))' /\ RegionAt(i)' # ThisRegion'
      OBVIOUS
    <3>1. /\ RegionAt(i)[1][1] \in Nat /\ RegionAt(i)[2][1] \in Nat
          /\ RegionAt(i)[2][1] < shape.n
      BY <1>3, <1>4 DEF MacRanges, RangeIn
    <3>2. RegionAt(i)[1][1] < m0 \/ (RegionAt(i)[1][1] = m0 /\ RegionAt(i)[2][1] <= n0)
      <4>1. CASE RegionAt(i) = ThisRegion
        BY <1>3, <4>1 DEF ThisRegion
      <4>2. CASE ComesBefore(RegionAt(i))
        BY <1>3, <3>1, <4>2 DEF ComesBefore
      <4> QED BY <1>4, <4>1, <4>2 DEF SlicedTo
    <3>3. RegionAt(i)[1][1] < m0' \/ (RegionAt(i)[1][1] = m0' /\ RegionAt(i)[2][1] < n0')
      BY <1>3, <2>2, <3>1, <3>2
    <3>4. ComesBefore(RegionAt(i))'
      BY <1>7, <3>3 DEF ComesBefore
    <3>5. m0' \in Nat /\ n0' \in Nat
      BY <1>3, <2>2
    <3>6. RegionAt(i)' # ThisRegion'
      BY <1>7, <3>1, <3>3, <3>5 DEF ThisRegion
    <3> QED BY <3>4, <3>6
  <2>5. \A k \in Inner' : ~(k < k0')
    BY <1>1, <1>7 DEF Inner
  <2>6. \A i \in Macs', k \in Inner' : Sliced(RegionAt(i), k)'
    <3> SUFFICES ASSUME NEW i \in Macs, NEW k \in Inner PROVE Sliced(RegionAt(i), k)'
      BY <1>6, <1>7
    <3>1. PICK j \in Macs : RegionAt(j) = RegionAt(i) /\ Within(k, InnerAt(j))
      BY <1>8 DEF Sliced
    <3> QED BY <1>6, <1>7, <3>1 DEF Sliced, Within
  <2>7. \A ij \in Output' : Finished(ij)' => Framed(ij)'
    BY <1>7, <1>9, <2>3
  <2>8. SlicedTo(k0)'
    BY <1>6, <2>4, <2>5, <2>6, <2>7 DEF SlicedTo
  <2> QED BY <1>7, <2>1, <2>8 DEF VectorInv
<1> QED BY <1>11, <1>12

LEMMA VectorCall ==
  ASSUME NEW s \in Shapes, NEW c \in Configs, CallMatmul(s, c)
  PROVE  VectorInv'
<1>1. /\ shape' = s /\ m0' = 0 /\ n0' = 0 /\ k0' = 0 /\ stage' = "load_a" /\ tile_events' = <<>>
  BY DEF CallMatmul
<1>2. Macs' = {}
  BY <1>1 DEF Macs
<1>3. MacRanges' /\ MacsApart'
  BY <1>2 DEF MacRanges, MacsApart
<1>4. \A k \in Inner' : ~(k < k0')
  BY <1>1 DEF Inner
<1>5. \A ij \in Output' : ~Finished(ij)'
  <2>1. s.m \in Nat \ {0} /\ s.n \in Nat \ {0}
    BY DEF Shapes, Positive
  <2> QED BY <1>1, <2>1 DEF Finished, Output
<1>6. SlicedTo(k0)'
  BY <1>2, <1>4, <1>5 DEF SlicedTo
<1> QED BY <1>1, <1>3, <1>6 DEF VectorInv

LEMMA VectorStarts == MatmulInit => VectorInv
<1> SUFFICES ASSUME MatmulInit PROVE VectorInv
  OBVIOUS
<1>1. tile_events = <<>> /\ stage = "idle"
  BY DEF MatmulInit
<1>2. Macs = {}
  BY <1>1 DEF Macs
<1> QED BY <1>1, <1>2 DEF VectorInv, MacRanges, MacsApart

LEMMA VectorStep == MatmulInv /\ VectorInv /\ [MatmulNext]_matmulVars => VectorInv'
<1> SUFFICES ASSUME MatmulInv, VectorInv, [MatmulNext]_matmulVars PROVE VectorInv'
  OBVIOUS
<1>1. ASSUME NEW s \in Shapes, NEW c \in Configs, CallMatmul(s, c) PROVE VectorInv'
  BY <1>1, VectorCall
<1>2. CASE LoadATile \/ LoadBTile
  BY <1>2, VectorLoad
<1>3. CASE MacTile
  BY <1>3, VectorMac
<1>4. CASE StoreCTile
  BY <1>4, VectorStore
<1>5. CASE ReturnMatmul
  <2>1. stage' = "idle" /\ shape' = shape /\ tile_events' = tile_events
    BY <1>5 DEF ReturnMatmul, args
  <2>2. Inner' = Inner
    BY <2>1 DEF Inner
  <2> QED BY <2>1, <2>2 DEF VectorInv, MacRanges, MacsApart, Macs, RegionAt, InnerAt
<1>6. CASE UNCHANGED matmulVars
  <2>1. /\ stage' = stage /\ shape' = shape /\ cfg' = cfg
        /\ m0' = m0 /\ n0' = n0 /\ k0' = k0 /\ tile_events' = tile_events
    BY <1>6 DEF matmulVars, args, loopVars
  <2>2. /\ Inner' = Inner /\ Output' = Output /\ Macs' = Macs /\ ThisRegion' = ThisRegion
        /\ \A ij : Finished(ij)' <=> Finished(ij)
        /\ \A i : RegionAt(i)' = RegionAt(i) /\ InnerAt(i)' = InnerAt(i)
    BY <2>1 DEF Inner, Output, Macs, ThisRegion, Finished, m1, n1, RegionAt, InnerAt
  <2>3. /\ \A region, k : Sliced(region, k)' <=> Sliced(region, k)
        /\ \A ij : Framed(ij)' <=> Framed(ij)
        /\ \A region : ComesBefore(region)' <=> ComesBefore(region)
    BY <2>1, <2>2 DEF Sliced, Framed, ComesBefore
  <2> QED BY <2>1, <2>2, <2>3 DEF VectorInv, MacRanges, MacsApart, SlicedTo
<1> QED BY <1>1, <1>2, <1>3, <1>4, <1>5, <1>6 DEF MatmulNext, MatmulSteps

\* The inner steps of an event come to each index of its range once.
LEMMA StepsOnce ==
  ASSUME NEW e, RangeIn(e.k_range, shape.k), shape.k \in Nat, NEW k \in Nat
  PROVE  /\ Within(k, e.k_range) =>
              \E s \in DOMAIN InnerSteps(e) :
                \A t \in DOMAIN InnerSteps(e) : Within(k, InnerSteps(e)[t]) <=> t = s
         /\ ~Within(k, e.k_range) => \A t \in DOMAIN InnerSteps(e) : ~Within(k, InnerSteps(e)[t])
<1> DEFINE lo == e.k_range[1]
           hi == e.k_range[2]
           count == CeilDiv(hi - lo, 2)
<1>1. lo \in Nat /\ hi \in Nat /\ lo < hi
  BY DEF RangeIn
<1>2. /\ DOMAIN InnerSteps(e) = 1 .. count
      /\ \A t \in 1 .. count :
           InnerSteps(e)[t] = <<lo + 2 * (t - 1), Upto(lo + 2 * (t - 1), 2, hi)>>
  BY DEF InnerSteps
<1>3. count = (hi - lo + 1) \div 2 /\ count \in Nat
  BY <1>1 DEF CeilDiv
<1> HIDE DEF lo, hi, count
<1>4. \A t \in 1 .. count :
        Within(k, InnerSteps(e)[t]) <=> lo + 2 * (t - 1) <= k /\ k < lo + 2 * t /\ k < hi
  <2> SUFFICES ASSUME NEW t \in 1 .. count
               PROVE  Within(k, <<lo + 2 * (t - 1), Upto(lo + 2 * (t - 1), 2, hi)>>)
                        <=> lo + 2 * (t - 1) <= k /\ k < lo + 2 * t /\ k < hi
    BY <1>2
  <2>1. t \in Int /\ t >= 1
    BY <1>3
  <2> QED BY <1>1, <2>1 DEF Within, Upto
<1>5. ASSUME Within(k, e.k_range)
      PROVE  \E s \in 1 .. count : \A t \in 1 .. count : Within(k, InnerSteps(e)[t]) <=> t = s
  <2>1. lo <= k /\ k < hi
    BY <1>5 DEF Within, lo, hi
  <2>2. PICK s \in Int : s = (k - lo) \div 2 + 1
    BY <1>1
  <2>3. s >= 1 /\ s <= count /\ lo + 2 * (s - 1) <= k /\ k < lo + 2 * s
    BY <1>1, <1>3, <2>1, <2>2
  <2>4. \A t \in 1 .. count : (lo + 2 * (t - 1) <= k /\ k < lo + 2 * t) <=> t = s
    BY <1>1, <1>3, <2>3
  <2> QED BY <1>3, <1>4, <2>1, <2>3, <2>4
<1>6. ASSUME ~Within(k, e.k_range), NEW t \in 1 .. count
      PROVE  ~Within(k, InnerSteps(e)[t])
  <2>1. k < lo \/ k >= hi
    BY <1>1, <1>6 DEF Within, lo, hi
  <2>2. t >= 1 /\ t \in Int
    BY <1>3
  <2> QED BY <1>1, <1>4, <2>1, <2>2
<1> QED BY <1>2, <1>5, <1>6, SMTT(30)

\* The windows of a range come to each index in it, cut at the matrix.
LEMMA WindowsCover ==
  ASSUME NEW range, NEW limit \in Nat, RangeIn(range, limit), NEW x \in Nat, Within(x, range)
  PROVE  \E r \in Every2(range) : Within(x, <<r, Upto(r, 2, limit)>>)
<1> DEFINE lo == range[1]
           hi == range[2]
<1>1. lo \in Nat /\ hi \in Nat /\ hi <= limit /\ lo <= x /\ x < hi
  BY DEF RangeIn, Within
<1> HIDE DEF lo, hi
<1>2. PICK s \in Nat : s = (x - lo) \div 2
  BY <1>1
<1>3. PICK r \in Nat : r = lo + 2 * s
  BY <1>1
<1>4. r <= x /\ x < r + 2 /\ lo <= r
  BY <1>1, <1>2, <1>3
<1>5. (r - lo) % 2 = 0
  BY <1>1, <1>3
<1>6. r \in Every2(range)
  BY <1>1, <1>4, <1>5 DEF Every2, lo, hi
<1>7. Within(x, <<r, Upto(r, 2, limit)>>)
  BY <1>1, <1>4 DEF Within, Upto
<1> QED BY <1>6, <1>7

\* Every inner index is added once, whatever the window.
LEMMA VectorSums ==
  ASSUME MatmulInv, VectorInv, stage = "end", NEW v \in Vectors, NEW k \in Inner
  PROVE  Summed(v, k) = 1
<1>1. shape.k \in Nat /\ k \in Nat /\ MacRanges /\ MacsApart
  BY InvTiles DEF MatmulInv, TilesOK, Inner, VectorInv
<1>2. PICK region \in Regions : v.steps = [number \in StepNumbers(region) |->
                                             InnerSteps(tile_events[number[1]])[number[2]]]
  BY DEF Vectors
<1>3. PICK i \in Macs : RegionAt(i) = region
  BY DEF Regions, Macs, RegionAt
<1>4. PICK j \in Macs : RegionAt(j) = region /\ Within(k, InnerAt(j))
  BY <1>3 DEF VectorInv, Sliced
<1>5. MacEvents(region) = {o \in Macs : RegionAt(o) = region}
  BY DEF MacEvents, Macs, RegionAt
<1>6. \A o \in MacEvents(region) : Within(k, InnerAt(o)) <=> o = j
  BY <1>1, <1>4, <1>5 DEF MacsApart
<1>7. \A o \in Macs : RangeIn(tile_events[o].k_range, shape.k)
  BY <1>1 DEF MacRanges, InnerAt
<1>8. PICK s \in DOMAIN InnerSteps(tile_events[j]) :
        \A t \in DOMAIN InnerSteps(tile_events[j]) : Within(k, InnerSteps(tile_events[j])[t]) <=> t = s
  BY <1>1, <1>4, <1>7, StepsOnce DEF InnerAt
<1>9. \A o \in MacEvents(region) : \A t \in DOMAIN InnerSteps(tile_events[o]) :
        Within(k, InnerSteps(tile_events[o])[t]) <=> o = j /\ t = s
  <2> SUFFICES ASSUME NEW o \in MacEvents(region), NEW t \in DOMAIN InnerSteps(tile_events[o])
               PROVE  Within(k, InnerSteps(tile_events[o])[t]) <=> o = j /\ t = s
    OBVIOUS
  <2>1. CASE o = j
    BY <1>8, <2>1
  <2>2. CASE o # j
    <3>1. ~Within(k, tile_events[o].k_range) /\ o \in Macs
      BY <1>5, <1>6, <2>2 DEF InnerAt
    <3> QED BY <1>1, <1>7, <2>2, <3>1, StepsOnce
  <2> QED BY <2>1, <2>2
<1>10. /\ DOMAIN v.steps = StepNumbers(region)
       /\ \A number \in StepNumbers(region) :
            v.steps[number] = InnerSteps(tile_events[number[1]])[number[2]]
  BY <1>2
<1>11. {number \in DOMAIN v.steps : Within(k, v.steps[number])} = {<<j, s>>}
  <2>1. j \in MacEvents(region)
    BY <1>4, <1>5
  <2>2. <<j, s>> \in StepNumbers(region)
    BY <1>8, <2>1 DEF StepNumbers
  <2>3. \A number \in StepNumbers(region) :
          Within(k, InnerSteps(tile_events[number[1]])[number[2]]) <=> number = <<j, s>>
    <3> SUFFICES ASSUME NEW number \in StepNumbers(region)
                 PROVE  Within(k, InnerSteps(tile_events[number[1]])[number[2]]) <=> number = <<j, s>>
      OBVIOUS
    <3>1. PICK o \in MacEvents(region) : number \in {o} \X DOMAIN InnerSteps(tile_events[o])
      BY DEF StepNumbers
    <3>2. /\ number = <<number[1], number[2]>> /\ number[1] \in MacEvents(region)
          /\ number[2] \in DOMAIN InnerSteps(tile_events[number[1]])
      BY <3>1
    <3> QED BY <1>9, <3>2
  <2> QED BY <1>10, <2>2, <2>3
<1> QED BY <1>11, FS_Singleton DEF Summed

LEMMA VectorWindows ==
  ASSUME MatmulInv, VectorInv, stage = "end", NEW ij \in Output
  PROVE  \E v \in Vectors : Within(ij[1], v.rows) /\ Within(ij[2], v.cols)
<1>1. /\ shape.m \in Nat /\ shape.n \in Nat /\ ij[1] \in Nat /\ ij[2] \in Nat
  BY InvTiles DEF MatmulInv, TilesOK, Output
<1>2. PICK i \in Macs : Within(ij[1], RegionAt(i)[1]) /\ Within(ij[2], RegionAt(i)[2])
  BY DEF VectorInv, Framed
<1>3. RangeIn(RegionAt(i)[1], shape.m) /\ RangeIn(RegionAt(i)[2], shape.n)
  BY DEF VectorInv, MacRanges
<1> DEFINE region == RegionAt(i)
<1>4. region \in Regions
  BY DEF Regions, Macs, RegionAt
<1> HIDE DEF region
<1>5. PICK r \in Every2(region[1]) : Within(ij[1], <<r, Upto(r, 2, shape.m)>>)
  BY <1>1, <1>2, <1>3, WindowsCover DEF region
<1>6. PICK c \in Every2(region[2]) : Within(ij[2], <<c, Upto(c, 2, shape.n)>>)
  BY <1>1, <1>2, <1>3, WindowsCover DEF region
<1> DEFINE v == [region |-> region,
                 steps |-> [number \in StepNumbers(region) |->
                              InnerSteps(tile_events[number[1]])[number[2]]],
                 rows |-> <<r, Upto(r, 2, shape.m)>>, cols |-> <<c, Upto(c, 2, shape.n)>>]
<1>7. v \in Vectors
  BY <1>4, <1>5, <1>6, SMTT(30) DEF Vectors
<1>8. Within(ij[1], v.rows) /\ Within(ij[2], v.cols)
  BY <1>5, <1>6
<1> QED BY <1>7, <1>8

\* The vectors cut from the schedule of any product, with tiles of any size,
\* are of that product: their windows have every output cell, and each vector
\* adds every inner index once, in odd and partial tiles too.
THEOREM VectorsOfProduct == MatmulSpec => []VectorsComputeProduct
<1>1. MatmulInv /\ VectorInv => VectorsComputeProduct
  BY VectorSums, VectorWindows DEF VectorsComputeProduct
<1>2. MatmulSpec => []VectorInv
  BY VectorStarts, VectorStep, MatmulInvariance, PTL DEF MatmulSpec
<1> QED BY <1>1, <1>2, MatmulInvariance, PTL

-----------------------------------------------------------------------------
(* The three loops have one run for a shape and a configuration.           *)

\* The loops as one value.
Machine == [m0 |-> m0, n0 |-> n0, k0 |-> k0, stage |-> stage, cycle |-> tile_cycle, events |-> tile_events]
Onset   == [m0 |-> 0, n0 |-> 0, k0 |-> 0, stage |-> "load_a", cycle |-> 0, events |-> <<>>]

EventOf(s, c, x, kind, kRange, cycles, bytes, macs) ==
  [kind |-> kind, m_range |-> <<x.m0, Upto(x.m0, c.tile_m, s.m)>>,
   n_range |-> <<x.n0, Upto(x.n0, c.tile_n, s.n)>>, k_range |-> kRange,
   start |-> x.cycle, end |-> x.cycle + cycles, cycles |-> cycles, bytes |-> bytes, macs |-> macs]

Onward(x, e, row, col, inner, next) ==
  [m0 |-> row, n0 |-> col, k0 |-> inner, stage |-> next, cycle |-> x.cycle + e.cycles, events |-> Append(x.events, e)]

\* The step of the loops at x.
After(s, c, x) ==
  LET hk == Upto(x.k0, c.tile_k, s.k)
      dm == Upto(x.m0, c.tile_m, s.m) - x.m0
      dn == Upto(x.n0, c.tile_n, s.n) - x.n0
      dk == hk - x.k0
      lastK == x.k0 + c.tile_k >= s.k
      lastN == x.n0 + c.tile_n >= s.n
      lastM == x.m0 + c.tile_m >= s.m
      Adds(kind, kRange, cycles, bytes, macs, row, col, inner, next) ==
        Onward(x, EventOf(s, c, x, kind, kRange, cycles, bytes, macs), row, col, inner, next)
  IN IF x.stage = "load_a"
     THEN Adds("load_a_tile", <<x.k0, hk>>, c.load + CeilDiv(dm * dk, c.load_lanes), dm * dk, 0,
               x.m0, x.n0, x.k0, "load_b")
     ELSE IF x.stage = "load_b"
     THEN Adds("load_b_tile", <<x.k0, hk>>, c.load + CeilDiv(dk * dn, c.load_lanes), dk * dn, 0,
               x.m0, x.n0, x.k0, "mac")
     ELSE IF x.stage = "mac"
     THEN Adds("mac_tile", <<x.k0, hk>>, c.compute + CeilDiv(dm * dn * dk, c.mac_lanes), 0, dm * dn * dk,
               x.m0, x.n0, IF lastK THEN x.k0 ELSE x.k0 + c.tile_k, IF lastK THEN "store" ELSE "load_a")
     ELSE Adds("store_c_tile", <<0, s.k>>, c.store + CeilDiv(dm * dn, c.store_lanes), dm * dn * 4, 0,
               IF lastN /\ ~lastM THEN x.m0 + c.tile_m ELSE x.m0, IF lastN THEN 0 ELSE x.n0 + c.tile_n, 0,
               IF lastN /\ lastM THEN "end" ELSE "load_a")

\* The first steps of the loops.
Trail(s, c, t, count) ==
  t[0] = Onset /\ \A i \in 1 .. count : t[i - 1].stage # "end" /\ t[i] = After(s, c, t[i - 1])

\* What the loops end with.
Outcome(s, c, list, cycles) ==
  \E count \in Nat : \E t :
    Trail(s, c, t, count) /\ t[count].stage = "end" /\ t[count].events = list /\ t[count].cycle = cycles

OnTrail == stage # "idle" => \E count \in Nat : \E t : Trail(shape, cfg, t, count) /\ t[count] = Machine

\* Two trails are the same as far as both go, so that one ends where the other does.
LEMMA TrailsAgree ==
  ASSUME NEW s, NEW c, NEW t, NEW u, NEW i \in Nat, NEW j \in Nat, i <= j,
         Trail(s, c, t, i), Trail(s, c, u, j), t[i].stage = "end"
  PROVE  i = j /\ t[i] = u[j]
<1> DEFINE Same == {x \in 0 .. i : t[x] = u[x]}
<1>1. 0 \in Same
  BY DEF Trail
<1>2. ASSUME NEW x \in 0 .. i - 1, x \in Same PROVE x + 1 \in Same
  <2>1. x + 1 \in 1 .. i /\ x + 1 \in 1 .. j /\ (x + 1) - 1 = x /\ x + 1 \in 0 .. i
    OBVIOUS
  <2>2. t[x + 1] = After(s, c, t[x]) /\ u[x + 1] = After(s, c, u[x])
    BY <2>1 DEF Trail
  <2> QED BY <1>2, <2>1, <2>2
<1> HIDE DEF Same
<1>3. \A x \in 0 .. i : x \in Same
  BY <1>1, <1>2, UpTo
<1>4. t[i] = u[i]
  BY <1>3 DEF Same
<1>5. i < j => i + 1 \in 1 .. j /\ (i + 1) - 1 = i
  OBVIOUS
<1>6. ~(i < j)
  BY <1>4, <1>5 DEF Trail
<1> QED BY <1>4, <1>6

LEMMA OneOutcome ==
  ASSUME NEW s, NEW c, NEW list, NEW cycles, NEW other, NEW others,
         Outcome(s, c, list, cycles), Outcome(s, c, other, others)
  PROVE  list = other /\ cycles = others
<1>1. PICK i \in Nat : \E t : Trail(s, c, t, i) /\ t[i].stage = "end" /\ t[i].events = list /\ t[i].cycle = cycles
  BY DEF Outcome
<1>2. PICK j \in Nat : \E u : Trail(s, c, u, j) /\ u[j].stage = "end" /\ u[j].events = other /\ u[j].cycle = others
  BY DEF Outcome
<1>5. PICK t : Trail(s, c, t, i) /\ t[i].stage = "end" /\ t[i].events = list /\ t[i].cycle = cycles
  BY <1>1
<1>6. PICK u : Trail(s, c, u, j) /\ u[j].stage = "end" /\ u[j].events = other /\ u[j].cycle = others
  BY <1>2
<1>3. i <= j \/ j <= i
  OBVIOUS
<1>4. t[i] = u[j]
  BY <1>3, <1>5, <1>6, TrailsAgree
<1> QED BY <1>4, <1>5, <1>6

\* A step of the loops is the step at where they are.
LEMMA StepIsAfter ==
  ASSUME MatmulSteps
  PROVE  /\ stage \notin {"end", "idle"} /\ shape' = shape /\ cfg' = cfg
         /\ Machine' = After(shape, cfg, Machine)
<1>1. CASE LoadATile
  BY <1>1 DEF LoadATile, Emit, LoadCycles, m1, n1, k1, args, loopVars, Machine, After, Onward, EventOf
<1>2. CASE LoadBTile
  BY <1>2 DEF LoadBTile, Emit, LoadCycles, m1, n1, k1, args, loopVars, Machine, After, Onward, EventOf
<1>3. CASE MacTile
  <2> DEFINE macs == (m1 - m0) * (n1 - n0) * (k1 - k0)
             next == Onward(Machine, EventOf(shape, cfg, Machine, "mac_tile", <<k0, k1>>,
                                             ComputeCycles(macs), 0, macs),
                            m0, n0, IF LastTile THEN k0 ELSE k0 + cfg.tile_k,
                            IF LastTile THEN "store" ELSE "load_a")
  <2>1. /\ stage = "mac" /\ Emit("mac_tile", <<k0, k1>>, ComputeCycles(macs), 0, macs)
        /\ stage' = (IF LastTile THEN "store" ELSE "load_a")
        /\ k0' = (IF LastTile THEN k0 ELSE k0 + cfg.tile_k)
        /\ m0' = m0 /\ n0' = n0 /\ shape' = shape /\ cfg' = cfg
    BY <1>3 DEF MacTile, args
  <2>2. next = After(shape, cfg, Machine)
    BY <2>1 DEF ComputeCycles, LastTile, m1, n1, k1, Machine, After
  <2>3. Machine' = next
    <3> HIDE DEF macs
    <3> QED BY <2>1 DEF Emit, Machine, Onward, EventOf, m1, n1
  <2> QED BY <2>1, <2>2, <2>3
<1>4. CASE StoreCTile
  BY <1>4 DEF StoreCTile, Emit, StoreCycles, NextOutputTile, m1, n1, args, Machine, After, Onward, EventOf
<1> QED BY <1>1, <1>2, <1>3, <1>4 DEF MatmulSteps

LEMMA TrailStarts == MatmulInit => OnTrail
BY DEF MatmulInit, OnTrail

LEMMA TrailStep == OnTrail /\ [MatmulNext]_matmulVars => OnTrail'
<1> SUFFICES ASSUME OnTrail, [MatmulNext]_matmulVars, stage' # "idle"
             PROVE  \E count \in Nat : \E t : Trail(shape', cfg', t, count) /\ t[count] = Machine'
  BY DEF OnTrail
<1>1. ASSUME NEW s \in Shapes, NEW c \in Configs, CallMatmul(s, c)
      PROVE  \E count \in Nat : \E t : Trail(shape', cfg', t, count) /\ t[count] = Machine'
  <2> DEFINE t == [x \in {0} |-> Onset]
  <2>1. Machine' = Onset
    BY <1>1 DEF CallMatmul, Machine, Onset
  <2>2. Trail(shape', cfg', t, 0) /\ t[0] = Onset
    BY DEF Trail
  <2> HIDE DEF t
  <2> QED BY <2>1, <2>2
<1>2. CASE MatmulSteps
  <2>1. /\ stage \notin {"end", "idle"} /\ shape' = shape /\ cfg' = cfg
        /\ Machine' = After(shape, cfg, Machine)
    BY <1>2, StepIsAfter
  <2>8. PICK count \in Nat : \E t : Trail(shape, cfg, t, count) /\ t[count] = Machine
    BY <2>1 DEF OnTrail
  <2>2. PICK t : Trail(shape, cfg, t, count) /\ t[count] = Machine
    BY <2>8
  <2>3. PICK next : next = After(shape, cfg, Machine)
    OBVIOUS
  <2> DEFINE u == [x \in 0 .. count + 1 |-> IF x <= count THEN t[x] ELSE next]
  <2>4. Machine.stage # "end"
    BY <2>1 DEF Machine
  <2>5. count + 1 \in Nat /\ u[count + 1] = next /\ u[0] = t[0]
    OBVIOUS
  <2>6. ASSUME NEW x \in 1 .. count + 1
        PROVE  u[x - 1].stage # "end" /\ u[x] = After(shape, cfg, u[x - 1])
    <3>1. x - 1 \in 0 .. count + 1 /\ x - 1 <= count /\ u[x - 1] = t[x - 1]
      OBVIOUS
    <3>2. CASE x <= count
      <4>1. u[x] = t[x] /\ x \in 1 .. count
        BY <3>2
      <4> HIDE DEF u
      <4> QED BY <2>2, <3>1, <4>1 DEF Trail
    <3>3. CASE x = count + 1
      <4>1. x - 1 = count
        BY <3>3
      <4> HIDE DEF u
      <4> QED BY <2>2, <2>3, <2>4, <2>5, <3>1, <3>3, <4>1
    <3> QED BY <3>2, <3>3
  <2> HIDE DEF u
  <2>7. Trail(shape, cfg, u, count + 1)
    BY <2>2, <2>5, <2>6 DEF Trail
  <2> QED BY <2>1, <2>3, <2>5, <2>7
<1>3. ~ReturnMatmul
  BY DEF ReturnMatmul
<1>4. CASE UNCHANGED matmulVars
  <2>1. stage' = stage /\ shape' = shape /\ cfg' = cfg /\ Machine' = Machine
    BY <1>4 DEF matmulVars, args, loopVars, Machine
  <2> QED BY <2>1 DEF OnTrail
<1> QED BY <1>1, <1>2, <1>3, <1>4 DEF MatmulNext

\* A call that has ended has the outcome of its arguments.
LEMMA EndsWithOutcome ==
  ASSUME OnTrail, stage = "end"
  PROVE  Outcome(shape, cfg, tile_events, tile_cycle)
<1>1. PICK count \in Nat : \E t : Trail(shape, cfg, t, count) /\ t[count] = Machine
  BY DEF OnTrail
<1>2. Machine.stage = "end" /\ Machine.events = tile_events /\ Machine.cycle = tile_cycle
  BY DEF Machine
<1> QED BY <1>1, <1>2 DEF Outcome

-----------------------------------------------------------------------------
(* How many inner steps the test vectors have.                             *)

Half(range) == CeilDiv(range[2] - range[1], 2)
StepsOf(e)  == Half(e.m_range) * Half(e.n_range) * Half(e.k_range)
PairsAt     == [i \in DOMAIN tile_events |-> IF tile_events[i].kind = "mac_tile" THEN StepsOf(tile_events[i]) ELSE 0]

\* Every second index of a range.
LEMMA WindowsOf ==
  ASSUME NEW range, NEW limit, RangeIn(range, limit)
  PROVE  IsFiniteSet(Every2(range)) /\ Cardinality(Every2(range)) = Half(range) /\ Half(range) \in Nat
<1> DEFINE lo == range[1]
           hi == range[2]
           count == Half(range)
           f == [j \in 1 .. count |-> lo + 2 * (j - 1)]
<1>1. lo \in Nat /\ hi \in Nat /\ lo < hi
  BY DEF RangeIn
<1>2. count = (hi - lo + 1) \div 2 /\ count \in Nat
  BY <1>1 DEF Half, CeilDiv
<1>3. Every2(range) = {x \in lo .. hi - 1 : (x - lo) % 2 = 0}
  BY DEF Every2
<1> HIDE DEF lo, hi, count
<1>4. ASSUME NEW j \in 1 .. count PROVE f[j] \in Every2(range)
  <2>1. f[j] = lo + 2 * (j - 1) /\ j \in Int /\ j >= 1 /\ j <= count
    BY <1>2
  <2>2. PICK x \in Int : x = lo + 2 * (j - 1)
    BY <1>1, <2>1
  <2>3. x \in lo .. hi - 1 /\ (x - lo) % 2 = 0
    BY <1>1, <1>2, <2>1, <2>2
  <2>4. x \in Every2(range)
    BY <1>3, <2>3, Zenon
  <2> HIDE DEF f
  <2> QED BY <2>1, <2>2, <2>4
<1>5. f \in [1 .. count -> Every2(range)]
  BY <1>4
<1>6. \A i, j \in 1 .. count : f[i] = f[j] => i = j
  BY <1>1, <1>2
<1>7. ASSUME NEW x \in Every2(range) PROVE \E j \in 1 .. count : f[j] = x
  <2>1. x \in lo .. hi - 1 /\ (x - lo) % 2 = 0
    BY <1>3
  <2>2. PICK j \in Int : j = (x - lo) \div 2 + 1
    BY <1>1, <2>1
  <2>3. j \in 1 .. count /\ x = lo + 2 * (j - 1)
    BY <1>1, <1>2, <2>1, <2>2
  <2> QED BY <2>3
<1> HIDE DEF f
<1>8. f \in Bijection(1 .. count, Every2(range))
  BY <1>5, <1>6, <1>7 DEF Bijection, Injection, Surjection, IsInjective
<1>9. IsFiniteSet(1 .. count) /\ Cardinality(1 .. count) = count
  BY <1>2, FS_Interval
<1>10. ExistsBijection(1 .. count, Every2(range))
  BY <1>8 DEF ExistsBijection
<1> QED BY <1>2, <1>9, <1>10, FS_Bijection DEF count

\* What is a vector, and which are its steps.
VectorOf(region, r, c) ==
  [region |-> region,
   steps |-> [number \in StepNumbers(region) |-> InnerSteps(tile_events[number[1]])[number[2]]],
   rows |-> <<r, Upto(r, 2, shape.m)>>, cols |-> <<c, Upto(c, 2, shape.n)>>]

AllSteps == UNION {{v} \X DOMAIN v.steps : v \in Vectors}
StepsAt(i) == {p \in AllSteps : p[2][1] = i}

LEMMA StepsOfVectors ==
  ASSUME NEW p
  PROVE  p \in AllSteps <=>
           \E i \in Macs : \E r \in Every2(RegionAt(i)[1]), c \in Every2(RegionAt(i)[2]),
              t \in DOMAIN InnerSteps(tile_events[i]) :
              p = <<VectorOf(RegionAt(i), r, c), <<i, t>>>>
<1>1. Regions = {RegionAt(i) : i \in Macs}
  BY DEF Regions, RegionAt, Macs
<1>2. Vectors = UNION {{VectorOf(region, r, c) : r \in Every2(region[1]), c \in Every2(region[2])} : region \in Regions}
  BY DEF Vectors, VectorOf
<1>3. \A region : MacEvents(region) = {i \in Macs : RegionAt(i) = region}
  BY DEF MacEvents, Macs, RegionAt
<1>4. \A region, r, c : DOMAIN VectorOf(region, r, c).steps = StepNumbers(region)
  BY DEF VectorOf
<1>5. \A region, x : x \in StepNumbers(region) <=>
        \E i \in Macs : RegionAt(i) = region /\ \E t \in DOMAIN InnerSteps(tile_events[i]) : x = <<i, t>>
  BY <1>3 DEF StepNumbers
<1>6. ASSUME p \in AllSteps
      PROVE  \E i \in Macs : \E r \in Every2(RegionAt(i)[1]), c \in Every2(RegionAt(i)[2]),
               t \in DOMAIN InnerSteps(tile_events[i]) :
               p = <<VectorOf(RegionAt(i), r, c), <<i, t>>>>
  <2>1. PICK v \in Vectors : p \in {v} \X DOMAIN v.steps
    BY <1>6 DEF AllSteps
  <2>2. PICK region \in Regions : \E r \in Every2(region[1]), c \in Every2(region[2]) : v = VectorOf(region, r, c)
    BY <1>2
  <2>3. PICK r \in Every2(region[1]), c \in Every2(region[2]) : v = VectorOf(region, r, c)
    BY <2>2
  <2>4. PICK x \in StepNumbers(region) : p = <<v, x>>
    BY <1>4, <2>1, <2>3
  <2>5. PICK i \in Macs : RegionAt(i) = region /\ \E t \in DOMAIN InnerSteps(tile_events[i]) : x = <<i, t>>
    BY <1>5
  <2> QED BY <2>3, <2>4, <2>5
<1>7. ASSUME NEW i \in Macs, NEW r \in Every2(RegionAt(i)[1]), NEW c \in Every2(RegionAt(i)[2]),
             NEW t \in DOMAIN InnerSteps(tile_events[i]), p = <<VectorOf(RegionAt(i), r, c), <<i, t>>>>
      PROVE  p \in AllSteps
  <2> DEFINE v == VectorOf(RegionAt(i), r, c)
  <2>1. RegionAt(i) \in Regions
    BY <1>1
  <2>2. v \in Vectors
    BY <1>2, <2>1
  <2>3. <<i, t>> \in DOMAIN v.steps
    BY <1>4, <1>5
  <2> HIDE DEF v
  <2>4. p \in {v} \X DOMAIN v.steps
    BY <1>7, <2>3 DEF v
  <2> QED BY <2>2, <2>4 DEF AllSteps
<1> QED BY <1>6, <1>7

\* The steps of a mac_tile: one for every window and every two inner indices.
LEMMA StepsOfMac ==
  ASSUME MacRanges, NEW i \in Macs
  PROVE  IsFiniteSet(StepsAt(i)) /\ Cardinality(StepsAt(i)) = StepsOf(tile_events[i])
<1> DEFINE e == tile_events[i]
           R == Every2(e.m_range)
           C == Every2(e.n_range)
           T == 1 .. Half(e.k_range)
           f == [x \in (R \X C) \X T |-> <<VectorOf(RegionAt(i), x[1][1], x[1][2]), <<i, x[2]>>>>]
<1>1. /\ RangeIn(e.m_range, shape.m) /\ RangeIn(e.n_range, shape.n) /\ RangeIn(e.k_range, shape.k)
      /\ RegionAt(i) = <<e.m_range, e.n_range>>
  BY DEF MacRanges, RegionAt, InnerAt
<1>2. DOMAIN InnerSteps(e) = T
  BY DEF InnerSteps, Half
<1>14. /\ Every2(RegionAt(i)[1]) = R /\ Every2(RegionAt(i)[2]) = C
  BY <1>1
<1>3. /\ IsFiniteSet(R) /\ Cardinality(R) = Half(e.m_range) /\ Half(e.m_range) \in Nat
      /\ IsFiniteSet(C) /\ Cardinality(C) = Half(e.n_range) /\ Half(e.n_range) \in Nat
      /\ Half(e.k_range) \in Nat
  BY <1>1, WindowsOf
<1>4. IsFiniteSet(T) /\ Cardinality(T) = Half(e.k_range)
  BY <1>3, FS_Interval
<1>5. \A p : p \in StepsAt(i) <=>
        \E r \in R, c \in C, t \in T : p = <<VectorOf(RegionAt(i), r, c), <<i, t>>>>
  <2>1. ASSUME NEW p \in StepsAt(i)
        PROVE  \E r \in R, c \in C, t \in T : p = <<VectorOf(RegionAt(i), r, c), <<i, t>>>>
    <3>1. p \in AllSteps /\ p[2][1] = i
      BY DEF StepsAt
    <3>2. PICK j \in Macs : \E r \in Every2(RegionAt(j)[1]), c \in Every2(RegionAt(j)[2]),
               t \in DOMAIN InnerSteps(tile_events[j]) : p = <<VectorOf(RegionAt(j), r, c), <<j, t>>>>
      BY <3>1, StepsOfVectors
    <3>3. j = i
      BY <3>1, <3>2
    <3> HIDE DEF R, C, T, e
    <3> QED BY <1>2, <1>14, <3>2, <3>3 DEF e
  <2>2. ASSUME NEW r \in R, NEW c \in C, NEW t \in T
        PROVE  <<VectorOf(RegionAt(i), r, c), <<i, t>>>> \in StepsAt(i)
    <3> DEFINE p == <<VectorOf(RegionAt(i), r, c), <<i, t>>>>
    <3>1. p[2][1] = i
      OBVIOUS
    <3> HIDE DEF p
    <3>2. p \in AllSteps
      <4> HIDE DEF R, C, T
      <4>1. /\ r \in Every2(RegionAt(i)[1]) /\ c \in Every2(RegionAt(i)[2])
            /\ t \in DOMAIN InnerSteps(tile_events[i])
        BY <1>2, <1>14
      <4>2. p = <<VectorOf(RegionAt(i), r, c), <<i, t>>>>
        BY DEF p
      <4> QED BY <4>1, <4>2, StepsOfVectors
    <3> QED BY <3>1, <3>2 DEF StepsAt, p
  <2> QED BY <2>1, <2>2
<1> HIDE DEF e, R, C, T
<1>6. \A r, c, r2, c2 : VectorOf(RegionAt(i), r, c) = VectorOf(RegionAt(i), r2, c2) => r = r2 /\ c = c2
  BY DEF VectorOf
<1>7. f \in [(R \X C) \X T -> StepsAt(i)]
  BY <1>5
<1>8. \A x, y \in (R \X C) \X T : f[x] = f[y] => x = y
  <2> SUFFICES ASSUME NEW r \in R, NEW c \in C, NEW t \in T, NEW r2 \in R, NEW c2 \in C, NEW t2 \in T,
                      f[<<<<r, c>>, t>>] = f[<<<<r2, c2>>, t2>>]
               PROVE  r = r2 /\ c = c2 /\ t = t2
    <3> HIDE DEF f
    <3> QED OBVIOUS
  <2>1. /\ f[<<<<r, c>>, t>>] = <<VectorOf(RegionAt(i), r, c), <<i, t>>>>
        /\ f[<<<<r2, c2>>, t2>>] = <<VectorOf(RegionAt(i), r2, c2), <<i, t2>>>>
    OBVIOUS
  <2> HIDE DEF f
  <2>3. \A v, w, x, y : <<v, <<i, x>>>> = <<w, <<i, y>>>> => v = w /\ x = y
    OBVIOUS
  <2>4. <<VectorOf(RegionAt(i), r, c), <<i, t>>>> = <<VectorOf(RegionAt(i), r2, c2), <<i, t2>>>>
    BY <2>1
  <2>2. VectorOf(RegionAt(i), r, c) = VectorOf(RegionAt(i), r2, c2) /\ t = t2
    BY <2>3, <2>4
  <2> QED BY <1>6, <2>2
<1>9. \A p \in StepsAt(i) : \E x \in (R \X C) \X T : f[x] = p
  <2> SUFFICES ASSUME NEW p \in StepsAt(i) PROVE \E x \in (R \X C) \X T : f[x] = p
    OBVIOUS
  <2>1. PICK r \in R, c \in C, t \in T : p = <<VectorOf(RegionAt(i), r, c), <<i, t>>>>
    BY <1>5
  <2>2. <<<<r, c>>, t>> \in (R \X C) \X T /\ f[<<<<r, c>>, t>>] = p
    BY <2>1
  <2> HIDE DEF f
  <2> QED BY <2>2
<1> HIDE DEF f
<1>10. f \in Bijection((R \X C) \X T, StepsAt(i))
  BY <1>7, <1>8, <1>9 DEF Bijection, Injection, Surjection, IsInjective
<1>11. ExistsBijection((R \X C) \X T, StepsAt(i))
  BY <1>10 DEF ExistsBijection
<1>12. IsFiniteSet(R \X C) /\ Cardinality(R \X C) = Half(e.m_range) * Half(e.n_range)
  BY <1>3, FS_Product
<1>13. /\ IsFiniteSet((R \X C) \X T)
       /\ Cardinality((R \X C) \X T) = Half(e.m_range) * Half(e.n_range) * Half(e.k_range)
  BY <1>4, <1>12, FS_Product
<1> QED BY <1>11, <1>13, FS_Bijection DEF StepsOf, e

\* The vectors have the inner steps of all mac_tiles, each once.
LEMMA TilesCounted ==
  ASSUME LocalSchedule(tile_events, tile_cycle), MacRanges
  PROVE  k_tile_count = InnerPairs(tile_events)
<1> DEFINE top == Len(tile_events)
           Upon(j) == {p \in AllSteps : p[2][1] <= j}
<1>1. top \in Nat /\ DOMAIN tile_events = 1 .. top
  BY DEF LocalSchedule
<1>2. \A i \in Macs : RangeIn(tile_events[i].m_range, shape.m) /\ RangeIn(tile_events[i].n_range, shape.n)
                      /\ RangeIn(tile_events[i].k_range, shape.k)
  BY DEF MacRanges, RegionAt, InnerAt
<1>3. \A i \in Macs : StepsOf(tile_events[i]) \in Int
  BY <1>2, WindowsOf DEF StepsOf
<1>4. PairsAt \in Seq(Int) /\ Len(PairsAt) = top
  <2>1. \A i \in 1 .. top : PairsAt[i] \in Int
    BY <1>1, <1>3 DEF PairsAt, Macs
  <2>2. PairsAt = [i \in 1 .. top |-> PairsAt[i]]
    BY <1>1 DEF PairsAt
  <2> QED BY <1>1, <2>1, <2>2
<1>5. InnerPairs(tile_events) = SumOf(PairsAt)
  BY DEF InnerPairs, PairsAt, StepsOf, Half
<1> HIDE DEF top
<1>6. PICK f \in [0 .. top -> Int] :
        f[0] = 0 /\ SumOf(PairsAt) = f[top] /\ \A i \in 1 .. top : f[i] = f[i - 1] + PairsAt[i]
  BY <1>4, SumRun
<1>7. \A p \in AllSteps : p[2][1] \in Macs
  BY StepsOfVectors
<1>8. \A p \in AllSteps : p[2][1] \in 1 .. top /\ p[2][1] \in Int
  BY <1>1, <1>7 DEF Macs
<1> DEFINE Good(j) == IsFiniteSet(Upon(j)) /\ Cardinality(Upon(j)) = f[j]
           Counted == {j \in 0 .. top : Good(j)}
<1>9. 0 \in Counted
  <2>1. Upon(0) = {}
    BY <1>8
  <2> HIDE DEF Upon
  <2>2. Good(0)
    BY <1>6, <2>1, FS_EmptySet
  <2> HIDE DEF Good
  <2> QED BY <1>1, <2>2
<1>10. ASSUME NEW j \in 0 .. top - 1, j \in Counted PROVE j + 1 \in Counted
  <2>1. /\ j + 1 \in 1 .. top /\ (j + 1) - 1 = j /\ j + 1 \in 0 .. top /\ j \in 0 .. top
        /\ f[j + 1] = f[j] + PairsAt[j + 1]
    BY <1>1, <1>6
  <2>2. IsFiniteSet(Upon(j)) /\ Cardinality(Upon(j)) = f[j] /\ f[j] \in Int
    BY <1>6, <1>10, <2>1
  <2>3. IsFiniteSet(StepsAt(j + 1)) /\ Cardinality(StepsAt(j + 1)) = PairsAt[j + 1] /\ PairsAt[j + 1] \in Int
    <3>1. CASE j + 1 \in Macs
      BY <1>1, <1>3, <2>1, <3>1, StepsOfMac DEF PairsAt, Macs
    <3>2. CASE j + 1 \notin Macs
      <4>1. StepsAt(j + 1) = {}
        BY <1>7, <3>2 DEF StepsAt
      <4>2. PairsAt[j + 1] = 0
        BY <1>1, <2>1, <3>2 DEF PairsAt, Macs
      <4> QED BY <4>1, <4>2, FS_EmptySet
    <3> QED BY <3>1, <3>2
  <2>4. \A p \in AllSteps : p[2][1] <= j + 1 <=> p[2][1] <= j \/ p[2][1] = j + 1
    <3>1. \A o \in Int : o <= j + 1 <=> o <= j \/ o = j + 1
      BY <1>1
    <3> QED BY <1>8, <3>1
  <2>5. Upon(j + 1) = Upon(j) \cup StepsAt(j + 1)
    BY <2>4 DEF StepsAt
  <2>6. Upon(j) \cap StepsAt(j + 1) = {}
    BY <1>1 DEF StepsAt
  <2> HIDE DEF Upon
  <2>7. IsFiniteSet(Upon(j) \cup StepsAt(j + 1))
        /\ Cardinality(Upon(j) \cup StepsAt(j + 1)) = f[j] + PairsAt[j + 1] - 0
    BY <2>2, <2>3, <2>6, FS_Union, FS_EmptySet
  <2>8. Good(j + 1)
    <3>1. IsFiniteSet(Upon(j + 1)) /\ Cardinality(Upon(j + 1)) = f[j] + PairsAt[j + 1] - 0
      BY <2>5, <2>7, Zenon
    <3>2. f[j] + PairsAt[j + 1] - 0 = f[j + 1]
      BY <2>1, <2>2, <2>3
    <3> QED BY <3>1, <3>2, Zenon
  <2> HIDE DEF Good
  <2> QED BY <2>1, <2>8
<1> HIDE DEF Counted
<1>11. top \in Counted
  <2>1. \A j \in 0 .. top : j \in Counted
    BY <1>1, <1>9, <1>10, UpTo
  <2> QED BY <1>1, <2>1
<1>12. Upon(top) = AllSteps
  BY <1>1, <1>8
<1>13. Cardinality(AllSteps) = f[top]
  BY <1>11, <1>12 DEF Counted
<1> QED BY <1>5, <1>6, <1>13 DEF k_tile_count, AllSteps

\* int8_tiled_matmul called again with the same shape and configuration makes the
\* same events in the same cycles, and the vectors cut from them have an inner
\* step for every two inner indices and each window of each mac_tile.
THEOREM MatmulRepeats ==
  MatmulSpec => [](stage = "end" =>
    Outcome(shape, cfg, tile_events, tile_cycle) /\ k_tile_count = InnerPairs(tile_events))
<1>1. MatmulInv /\ VectorInv /\ OnTrail =>
        (stage = "end" =>
          Outcome(shape, cfg, tile_events, tile_cycle) /\ k_tile_count = InnerPairs(tile_events))
  BY EndsWithOutcome, TilesCounted DEF MatmulInv, VectorInv
<1>2. MatmulSpec => []VectorInv
  BY VectorStarts, VectorStep, MatmulInvariance, PTL DEF MatmulSpec
<1>3. MatmulSpec => []OnTrail
  BY TrailStarts, TrailStep, PTL DEF MatmulSpec
<1> QED BY <1>1, <1>2, <1>3, MatmulInvariance, PTL

-----------------------------------------------------------------------------
(* schedule_attention_decode                                               *)

SoftmaxKinds == {"softmax_max_reduce", "softmax_exp_sum", "softmax_normalize"}
AttentionKinds ==
  {"load_q_vector", "load_k_tile", "score_tile", "load_v_tile", "value_tile", "store_context"}
    \cup SoftmaxKinds

AttentionTypeOK ==
  /\ cache \in Caches /\ setting \in Settings
  /\ t0 \in Tokens /\ phase \in AttentionKinds \cup {"end", "idle"}
  /\ scored \in [Tokens -> Nat] /\ weighted \in [Tokens -> Nat]

\* Each loop has dealt with the tokens before t0; the second one begins at 0 again.
TokensContribute ==
  /\ phase \in {"load_q_vector", "load_k_tile", "score_tile"} =>
       \A t \in Tokens : scored[t] = (IF t < t0 THEN 1 ELSE 0) /\ weighted[t] = 0
  /\ phase \in SoftmaxKinds => t0 = 0 /\ \A t \in Tokens : scored[t] = 1 /\ weighted[t] = 0
  /\ phase \in {"load_v_tile", "value_tile"} =>
       \A t \in Tokens : scored[t] = 1 /\ weighted[t] = (IF t < t0 THEN 1 ELSE 0)
  /\ phase \in {"store_context", "end"} => \A t \in Tokens : scored[t] = 1 /\ weighted[t] = 1

AttentionInv == AttentionTypeOK /\ TokensContribute /\ LocalSchedule(trace, now)

LEMMA SettingFields ==
  ASSUME NEW c \in Settings
  PROVE  /\ c.cache_tile \in Nat \ {0} /\ c.vector_lanes \in Nat \ {0} /\ c.mac_lanes \in Nat \ {0}
         /\ c.load_lanes \in Nat \ {0} /\ c.store_lanes \in Nat \ {0}
         /\ c.load \in Nat /\ c.compute \in Nat /\ c.reduce \in Nat /\ c.store \in Nat
BY AttentionAssumption DEF PositiveNat

\* A tile of tokens is not empty and ends inside the cache.
LEMMA TokenBounds ==
  ASSUME AttentionTypeOK
  PROVE  /\ cache.tokens \in Nat \ {0} /\ cache.dim \in Nat \ {0} /\ setting.cache_tile \in Nat \ {0}
         /\ t0 \in 0 .. cache.tokens - 1 /\ t1 \in t0 + 1 .. cache.tokens
         /\ LastTokens => t1 = cache.tokens
         /\ ~LastTokens => t1 = t0 + setting.cache_tile /\ t1 \in 0 .. cache.tokens - 1
<1>1. cache.tokens \in Nat \ {0} /\ cache.dim \in Nat \ {0}
  BY DEF AttentionTypeOK, Caches, PositiveNat
<1>2. setting.cache_tile \in Nat \ {0} /\ t0 \in 0 .. cache.tokens - 1
  BY SettingFields DEF AttentionTypeOK, Tokens
<1> QED BY <1>1, <1>2 DEF t1, Upto, LastTokens

\* What an event may take and move.
LEMMA AttentionWork ==
  ASSUME AttentionTypeOK
  PROVE  /\ tileWork \in Nat /\ tileWork * 4 \in Nat /\ cache.dim * 4 \in Nat
         /\ Load(cache.dim) \in Nat /\ Store(cache.dim) \in Nat
         /\ Load(tileWork) \in Nat /\ Compute(tileWork) \in Nat
         /\ Vector(setting.reduce) \in Nat /\ Vector(setting.compute) \in Nat
<1>1. tileWork \in Nat
  <2>1. t1 - t0 \in Nat /\ cache.dim \in Nat
    BY TokenBounds
  <2> QED BY <2>1, ProductsAreNat DEF tileWork
<1>2. cache.dim \in Nat /\ cache.tokens \in Nat /\ setting \in Settings
  BY TokenBounds DEF AttentionTypeOK
<1>3. \A a \in Nat, d \in Nat \ {0} : CeilDiv(a, d) \in Nat
  BY Ceilings
<1> HIDE DEF tileWork
<1> DEFINE c == setting
<1>4. /\ c.vector_lanes \in Nat \ {0} /\ c.mac_lanes \in Nat \ {0}
      /\ c.load_lanes \in Nat \ {0} /\ c.store_lanes \in Nat \ {0}
      /\ c.load \in Nat /\ c.compute \in Nat /\ c.reduce \in Nat /\ c.store \in Nat
  BY <1>2, SettingFields
<1>5. Load(cache.dim) \in Nat /\ Store(cache.dim) \in Nat /\ Load(tileWork) \in Nat
  <2>1. /\ CeilDiv(cache.dim, c.load_lanes) \in Nat /\ CeilDiv(tileWork, c.load_lanes) \in Nat
        /\ CeilDiv(cache.dim, c.store_lanes) \in Nat
    BY <1>1, <1>2, <1>3, <1>4
  <2> QED BY <1>4, <2>1 DEF Load, Store
<1>6. Compute(tileWork) \in Nat /\ Vector(setting.reduce) \in Nat /\ Vector(setting.compute) \in Nat
  <2>1. CeilDiv(tileWork, c.mac_lanes) \in Nat /\ CeilDiv(cache.tokens, c.vector_lanes) \in Nat
    BY <1>1, <1>2, <1>3, <1>4
  <2> QED BY <1>4, <2>1 DEF Compute, Vector
<1> QED BY <1>1, <1>2, <1>5, <1>6

LEMMA AddEventStep ==
  ASSUME LocalSchedule(trace, now), NEW tokenRange,
         NEW cycles \in Nat, NEW bytes \in Nat, NEW macs \in Nat,
         add_event(tokenRange, cycles, bytes, macs)
  PROVE  LocalSchedule(trace', now')
<1> DEFINE e == [kind |-> phase, token_range |-> tokenRange, start |-> now, end |-> now + cycles,
                 cycles |-> cycles, bytes |-> bytes, macs |-> macs]
<1>1. trace' = Append(trace, e) /\ now' = now + cycles
  BY DEF add_event
<1>2. /\ e.start = now /\ e.end = now + cycles
      /\ e.cycles = cycles /\ e.bytes = bytes /\ e.macs = macs
  OBVIOUS
<1> HIDE DEF e
<1>3. now \in Nat
  BY DEF LocalSchedule
<1>4. EventOK(e)
  BY <1>2, <1>3 DEF EventOK
<1> QED BY <1>1, <1>2, <1>3, <1>4, OneMoreEvent

LEMMA AttentionStarts == AttentionInit => AttentionInv
<1> SUFFICES ASSUME AttentionInit PROVE AttentionInv
  OBVIOUS
<1>1. setting \in Settings
  BY AttentionAssumption DEF AttentionInit
<1>2. cache \in Caches /\ cache.tokens = 1
  BY DEF AttentionInit, Caches, PositiveNat
<1>3. AttentionTypeOK /\ TokensContribute
  BY <1>1, <1>2 DEF AttentionInit, AttentionTypeOK, TokensContribute, Tokens, SoftmaxKinds
<1> QED BY <1>3, NoEvents DEF AttentionInit, AttentionInv

LEMMA CallAttentionStep ==
  ASSUME AttentionInv, NEW kv \in Caches, NEW c \in Settings, CallAttention(kv, c)
  PROVE  AttentionInv'
<1>1. /\ cache' = kv /\ setting' = c /\ t0' = 0 /\ phase' = "load_q_vector" /\ now' = 0 /\ trace' = <<>>
      /\ scored' = [t \in Tokens' |-> 0] /\ weighted' = scored'
  BY DEF CallAttention
<1>2. kv.tokens \in Nat \ {0}
  BY DEF Caches, PositiveNat
<1>3. /\ 0 \in Tokens' /\ \A t \in Tokens' : scored'[t] = 0 /\ weighted'[t] = 0 /\ ~(t < 0)
      /\ scored' \in [Tokens' -> Nat] /\ weighted' \in [Tokens' -> Nat]
  BY <1>1, <1>2 DEF Tokens
<1>4. AttentionTypeOK'
  BY <1>1, <1>3 DEF AttentionTypeOK, AttentionKinds
<1>5. TokensContribute'
  BY <1>1, <1>3 DEF TokensContribute, SoftmaxKinds
<1> QED BY <1>1, <1>4, <1>5, NoEvents DEF AttentionInv

\* A phase that only moves on, to one with the same contributions.
LEMMA StraightStep ==
  ASSUME AttentionInv, NEW from, NEW to, NEW tokenRange, NEW cycles \in Nat, NEW bytes \in Nat,
         Straight(from, to, tokenRange, cycles, bytes), to \in AttentionKinds \cup {"end"},
         \/ from = "load_q_vector" /\ to = "load_k_tile"
         \/ from = "load_k_tile" /\ to = "score_tile"
         \/ from \in SoftmaxKinds /\ to \in SoftmaxKinds \cup {"load_v_tile"}
         \/ from = "load_v_tile" /\ to = "value_tile"
         \/ from = "store_context" /\ to = "end"
  PROVE  AttentionInv'
<1>1. /\ phase = from /\ phase' = to /\ cache' = cache /\ setting' = setting /\ t0' = t0
      /\ scored' = scored /\ weighted' = weighted
      /\ add_event(tokenRange, cycles, bytes, 0)
  BY DEF Straight, attentionArgs
<1>2. Tokens' = Tokens
  BY <1>1 DEF Tokens
<1>3. AttentionTypeOK'
  BY <1>1, <1>2 DEF AttentionInv, AttentionTypeOK
<1>4. LocalSchedule(trace', now')
  BY <1>1, AddEventStep DEF AttentionInv
<1>5. \A t \in Tokens : ~(t < 0)
  BY TokenBounds DEF Tokens, AttentionInv
<1>6. TokensContribute'
  BY <1>1, <1>2, <1>5 DEF AttentionInv, TokensContribute, SoftmaxKinds
<1> QED BY <1>3, <1>4, <1>6 DEF AttentionInv

LEMMA StraightSteps ==
  ASSUME AttentionInv, LoadQVector \/ LoadKTile \/ LoadVTile \/ SoftmaxPhases \/ StoreContext
  PROVE  AttentionInv'
<1>1. /\ tileWork * 4 \in Nat /\ cache.dim * 4 \in Nat
      /\ Load(cache.dim) \in Nat /\ Store(cache.dim) \in Nat /\ Load(tileWork) \in Nat
      /\ Vector(setting.reduce) \in Nat /\ Vector(setting.compute) \in Nat
  BY AttentionWork DEF AttentionInv
<1>2. CASE LoadQVector
  BY <1>1, <1>2, StraightStep DEF LoadQVector, AttentionKinds
<1>3. CASE LoadKTile
  BY <1>1, <1>3, StraightStep DEF LoadKTile, AttentionKinds
<1>4. CASE LoadVTile
  BY <1>1, <1>4, StraightStep DEF LoadVTile, AttentionKinds
<1>5. CASE SoftmaxPhases
  BY <1>1, <1>5, StraightStep DEF SoftmaxPhases, AttentionKinds, SoftmaxKinds
<1>6. CASE StoreContext
  BY <1>1, <1>6, StraightStep DEF StoreContext
<1> QED BY <1>2, <1>3, <1>4, <1>5, <1>6

\* The tokens of a tile, added once to what the tiles before it left.
LEMMA Contribution ==
  ASSUME AttentionTypeOK, NEW f \in [Tokens -> Nat],
         \A t \in Tokens : f[t] = IF t < t0 THEN 1 ELSE 0
  PROVE  /\ ContributedOnce(f) \in [Tokens -> Nat]
         /\ \A t \in Tokens : ContributedOnce(f)[t] = IF t < t1 THEN 1 ELSE 0
<1>1. \A t \in Tokens : t \in Nat /\ (t < t1 <=> t < t0 \/ t \in t0 .. t1 - 1)
                         /\ ~(t < t0 /\ t \in t0 .. t1 - 1)
  BY TokenBounds DEF Tokens
<1>2. \A t \in Tokens : ContributedOnce(f)[t] = f[t] + IF t \in t0 .. t1 - 1 THEN 1 ELSE 0
  BY DEF ContributedOnce
<1>3. \A t \in Tokens : ContributedOnce(f)[t] = IF t < t1 THEN 1 ELSE 0
  BY <1>1, <1>2
<1>4. \A t \in Tokens : f[t] + (IF t \in t0 .. t1 - 1 THEN 1 ELSE 0) \in Nat
  OBVIOUS
<1> QED BY <1>3, <1>4 DEF ContributedOnce

\* Where a loop goes on.
LEMMA NextTokens ==
  ASSUME AttentionTypeOK, NEW load, NEW next, LoopOrGoOn(load, next)
  PROVE  /\ t0' \in Tokens
         /\ LastTokens => t0' = 0 /\ phase' = next /\ \A t \in Tokens : t < t1
         /\ ~LastTokens => t0' = t1 /\ phase' = load
<1>1. LastTokens => t0' = 0 /\ phase' = next
  BY DEF LoopOrGoOn
<1>2. ~LastTokens => t0' = t0 + setting.cache_tile /\ phase' = load
  BY DEF LoopOrGoOn
<1> QED BY <1>1, <1>2, TokenBounds DEF Tokens

LEMMA ScoreTileStep ==
  ASSUME AttentionInv, ScoreTile
  PROVE  AttentionInv'
<1>1. /\ phase = "score_tile" /\ cache' = cache /\ setting' = setting /\ weighted' = weighted
      /\ scored' = ContributedOnce(scored) /\ LoopOrGoOn("load_k_tile", "softmax_max_reduce")
      /\ add_event(<<t0, t1>>, Compute(tileWork), 0, tileWork)
  BY DEF ScoreTile, attentionArgs
<1>2. AttentionTypeOK /\ Tokens' = Tokens
  BY <1>1 DEF AttentionInv, Tokens
<1>3. /\ scored \in [Tokens -> Nat]
      /\ \A t \in Tokens : scored[t] = (IF t < t0 THEN 1 ELSE 0) /\ weighted[t] = 0
  BY <1>1 DEF AttentionInv, AttentionTypeOK, TokensContribute
<1>4. /\ scored' \in [Tokens -> Nat]
      /\ \A t \in Tokens : scored'[t] = IF t < t1 THEN 1 ELSE 0
  BY <1>1, <1>2, <1>3, Contribution
<1>5. /\ t0' \in Tokens
      /\ LastTokens => t0' = 0 /\ phase' = "softmax_max_reduce" /\ \A t \in Tokens : t < t1
      /\ ~LastTokens => t0' = t1 /\ phase' = "load_k_tile"
  BY <1>1, <1>2, NextTokens
<1>6. AttentionTypeOK'
  BY <1>1, <1>2, <1>4, <1>5 DEF AttentionTypeOK, AttentionKinds, SoftmaxKinds
<1>7. TokensContribute'
  <2>1. CASE LastTokens
    BY <1>1, <1>2, <1>3, <1>4, <1>5, <2>1 DEF TokensContribute, SoftmaxKinds
  <2>2. CASE ~LastTokens
    BY <1>1, <1>2, <1>3, <1>4, <1>5, <2>2 DEF TokensContribute, SoftmaxKinds
  <2> QED BY <2>1, <2>2
<1>8. LocalSchedule(trace', now')
  BY <1>1, <1>2, AttentionWork, AddEventStep DEF AttentionInv
<1> QED BY <1>6, <1>7, <1>8 DEF AttentionInv

LEMMA ValueTileStep ==
  ASSUME AttentionInv, ValueTile
  PROVE  AttentionInv'
<1>1. /\ phase = "value_tile" /\ cache' = cache /\ setting' = setting /\ scored' = scored
      /\ weighted' = ContributedOnce(weighted) /\ LoopOrGoOn("load_v_tile", "store_context")
      /\ add_event(<<t0, t1>>, Compute(tileWork), 0, tileWork)
  BY DEF ValueTile, attentionArgs
<1>2. AttentionTypeOK /\ Tokens' = Tokens
  BY <1>1 DEF AttentionInv, Tokens
<1>3. /\ weighted \in [Tokens -> Nat]
      /\ \A t \in Tokens : weighted[t] = (IF t < t0 THEN 1 ELSE 0) /\ scored[t] = 1
  BY <1>1 DEF AttentionInv, AttentionTypeOK, TokensContribute
<1>4. /\ weighted' \in [Tokens -> Nat]
      /\ \A t \in Tokens : weighted'[t] = IF t < t1 THEN 1 ELSE 0
  BY <1>1, <1>2, <1>3, Contribution
<1>5. /\ t0' \in Tokens
      /\ LastTokens => t0' = 0 /\ phase' = "store_context" /\ \A t \in Tokens : t < t1
      /\ ~LastTokens => t0' = t1 /\ phase' = "load_v_tile"
  BY <1>1, <1>2, NextTokens
<1>6. AttentionTypeOK'
  BY <1>1, <1>2, <1>4, <1>5 DEF AttentionTypeOK, AttentionKinds
<1>7. TokensContribute'
  <2>1. CASE LastTokens
    BY <1>1, <1>2, <1>3, <1>4, <1>5, <2>1 DEF TokensContribute, SoftmaxKinds
  <2>2. CASE ~LastTokens
    BY <1>1, <1>2, <1>3, <1>4, <1>5, <2>2 DEF TokensContribute, SoftmaxKinds
  <2> QED BY <2>1, <2>2
<1>8. LocalSchedule(trace', now')
  BY <1>1, <1>2, AttentionWork, AddEventStep DEF AttentionInv
<1> QED BY <1>6, <1>7, <1>8 DEF AttentionInv

LEMMA AttentionStep == AttentionInv /\ [AttentionNext]_attentionVars => AttentionInv'
<1> SUFFICES ASSUME AttentionInv, [AttentionNext]_attentionVars PROVE AttentionInv'
  OBVIOUS
<1>1. ASSUME NEW kv \in Caches, NEW c \in Settings, CallAttention(kv, c) PROVE AttentionInv'
  BY <1>1, CallAttentionStep
<1>2. CASE LoadQVector \/ LoadKTile \/ LoadVTile \/ SoftmaxPhases \/ StoreContext
  BY <1>2, StraightSteps
<1>3. CASE ScoreTile
  BY <1>3, ScoreTileStep
<1>4. CASE ValueTile
  BY <1>4, ValueTileStep
<1>5. CASE ReturnAttention \/ UNCHANGED attentionVars
  <2>1. /\ cache' = cache /\ setting' = setting /\ t0' = t0 /\ now' = now /\ trace' = trace
        /\ scored' = scored /\ weighted' = weighted /\ (phase' = "idle" \/ phase' = phase)
    BY <1>5 DEF ReturnAttention, attentionVars, attentionArgs
  <2>2. Tokens' = Tokens
    BY <2>1 DEF Tokens
  <2> QED BY <2>1, <2>2 DEF AttentionInv, AttentionTypeOK, TokensContribute, SoftmaxKinds
<1> QED BY <1>1, <1>2, <1>3, <1>4, <1>5 DEF AttentionNext, AttentionSteps

-----------------------------------------------------------------------------
\* The inductive invariant of the attention schedule.
THEOREM AttentionInvariance == AttentionSpec => []AttentionInv
BY AttentionStarts, AttentionStep, PTL DEF AttentionSpec

\* The softmax never sees an incomplete row of scores, for any cache and tile.
THEOREM AttentionScoresComplete == AttentionSpec => []SoftmaxSeesEveryScore
<1>1. AttentionInv => SoftmaxSeesEveryScore
  BY DEF AttentionInv, AttentionTypeOK, AttentionKinds, TokensContribute, SoftmaxKinds, SoftmaxSeesEveryScore
<1> QED BY <1>1, AttentionInvariance, PTL

\* The context that is stored has every cached value in it once, for any cache and tile.
THEOREM AttentionContextComplete == AttentionSpec => []ContextIsComplete
<1>1. AttentionInv => ContextIsComplete
  BY DEF AttentionInv, TokensContribute, ContextIsComplete
<1> QED BY <1>1, AttentionInvariance, PTL

-----------------------------------------------------------------------------
(* The work of the attention.                                              *)

\* The multiplications so far: one per element of each token that was scored,
\* then one per element of each whose value was added.
AttentionMacs ==
  /\ phase = "load_q_vector" => t0 = 0 /\ MacsOf(trace) = 0
  /\ phase \in {"load_k_tile", "score_tile"} => MacsOf(trace) = t0 * cache.dim
  /\ phase \in SoftmaxKinds => MacsOf(trace) = cache.tokens * cache.dim
  /\ phase \in {"load_v_tile", "value_tile"} =>
       MacsOf(trace) = cache.tokens * cache.dim + t0 * cache.dim
  /\ phase \in {"store_context", "end"} => MacsOf(trace) = 2 * (cache.tokens * cache.dim)

LEMMA AddedMacs ==
  ASSUME LocalSchedule(trace, now), NEW tokenRange, NEW cycles, NEW bytes, NEW macs \in Nat,
         add_event(tokenRange, cycles, bytes, macs)
  PROVE  MacsOf(trace') = MacsOf(trace) + macs
<1> DEFINE e == [kind |-> phase, token_range |-> tokenRange, start |-> now, end |-> now + cycles,
                 cycles |-> cycles, bytes |-> bytes, macs |-> macs]
<1>1. trace' = Append(trace, e) /\ e.macs = macs
  BY DEF add_event
<1> HIDE DEF e
<1> QED BY <1>1, MacsAppend DEF LocalSchedule, EventOK

LEMMA StraightMacs ==
  ASSUME AttentionInv, AttentionMacs,
         LoadQVector \/ LoadKTile \/ LoadVTile \/ SoftmaxPhases \/ StoreContext
  PROVE  AttentionMacs'
<1>1. LocalSchedule(trace, now) /\ cache.dim \in Nat /\ cache.tokens \in Nat
  BY TokenBounds DEF AttentionInv
<1>2. ASSUME NEW from, NEW to, NEW tokenRange, NEW cycles, NEW bytes,
             Straight(from, to, tokenRange, cycles, bytes)
      PROVE  /\ MacsOf(trace') = MacsOf(trace) + 0 /\ phase = from /\ phase' = to
             /\ cache' = cache /\ t0' = t0
  BY <1>1, <1>2, AddedMacs DEF Straight, attentionArgs
<1>3. cache.tokens * cache.dim \in Nat
  BY <1>1, ProductsAreNat
<1>4. CASE LoadQVector
  <2>1. /\ MacsOf(trace') = MacsOf(trace) + 0 /\ phase = "load_q_vector" /\ phase' = "load_k_tile"
        /\ cache' = cache /\ t0' = t0
    BY <1>2, <1>4 DEF LoadQVector
  <2>2. 0 * cache.dim = 0
    BY <1>1
  <2>3. QED
    BY <2>1, <2>2 DEF AttentionMacs, SoftmaxKinds
<1>5. CASE LoadKTile
  <2>1. /\ MacsOf(trace') = MacsOf(trace) + 0 /\ phase = "load_k_tile" /\ phase' = "score_tile"
        /\ cache' = cache /\ t0' = t0
    BY <1>2, <1>5 DEF LoadKTile
  <2>2. MacsOf(trace) = t0 * cache.dim /\ t0 * cache.dim \in Int
    <3>1. t0 \in Int
      BY TokenBounds DEF AttentionInv
    <3>2. QED
      BY <1>1, <2>1, <3>1, IntProduct DEF AttentionMacs
  <2>3. QED
    BY <2>1, <2>2 DEF AttentionMacs, SoftmaxKinds
<1>6. CASE LoadVTile
  <2>1. /\ MacsOf(trace') = MacsOf(trace) + 0 /\ phase = "load_v_tile" /\ phase' = "value_tile"
        /\ cache' = cache /\ t0' = t0
    BY <1>2, <1>6 DEF LoadVTile
  <2>2. MacsOf(trace) = cache.tokens * cache.dim + t0 * cache.dim /\ t0 * cache.dim \in Int
    <3>1. t0 \in Int
      BY TokenBounds DEF AttentionInv
    <3>2. QED
      BY <1>1, <2>1, <3>1, IntProduct DEF AttentionMacs
  <2>3. MacsOf(trace') = MacsOf(trace)
    BY <1>3, <2>1, <2>2
  <2>4. QED
    BY <2>1, <2>2, <2>3 DEF AttentionMacs, SoftmaxKinds
<1>7. CASE SoftmaxPhases
  <2>1. /\ MacsOf(trace') = MacsOf(trace) + 0 /\ phase \in SoftmaxKinds
        /\ phase' \in SoftmaxKinds \cup {"load_v_tile"} /\ cache' = cache /\ t0' = t0
    BY <1>2, <1>7 DEF SoftmaxPhases, SoftmaxKinds
  <2>2. MacsOf(trace) = cache.tokens * cache.dim /\ t0 = 0
    BY <2>1 DEF AttentionMacs, AttentionInv, TokensContribute
  <2>3. 0 * cache.dim = 0
    BY <1>1
  <2>4. MacsOf(trace') = cache.tokens * cache.dim
    BY <1>3, <2>1, <2>2
  <2>5. cache.tokens * cache.dim + t0 * cache.dim = cache.tokens * cache.dim
    BY <1>3, <2>2, <2>3
  <2>6. QED
    BY <2>1, <2>4, <2>5 DEF AttentionMacs, SoftmaxKinds
<1>8. CASE StoreContext
  <2>1. /\ MacsOf(trace') = MacsOf(trace) + 0 /\ phase = "store_context" /\ phase' = "end"
        /\ cache' = cache
    BY <1>2, <1>8 DEF StoreContext
  <2>2. MacsOf(trace') = 2 * (cache.tokens * cache.dim)
    BY <1>3, <2>1 DEF AttentionMacs
  <2>3. QED
    BY <2>1, <2>2 DEF AttentionMacs, SoftmaxKinds
<1> QED BY <1>4, <1>5, <1>6, <1>7, <1>8

\* A tile of tokens adds its multiplications, in either loop.
LEMMA TileMacs ==
  ASSUME AttentionInv, NEW load, NEW next, LoopOrGoOn(load, next),
         add_event(<<t0, t1>>, Compute(tileWork), 0, tileWork)
  PROVE  /\ MacsOf(trace') = MacsOf(trace) + (t1 - t0) * cache.dim
         /\ t0 * cache.dim + (t1 - t0) * cache.dim = t1 * cache.dim
         /\ t0 * cache.dim \in Int /\ t1 * cache.dim \in Int /\ (t1 - t0) * cache.dim \in Int
         /\ LastTokens => t1 = cache.tokens /\ phase' = next /\ t0' = 0
         /\ ~LastTokens => t0' = t1 /\ phase' = load
<1>1. LocalSchedule(trace, now) /\ AttentionTypeOK
  BY DEF AttentionInv
<1>2. t0 \in Int /\ t1 \in Int /\ t1 - t0 \in Int /\ cache.dim \in Int
  BY <1>1, TokenBounds
<1>3. MacsOf(trace') = MacsOf(trace) + tileWork
  BY <1>1, AttentionWork, AddedMacs
<1>4. t0 * cache.dim + (t1 - t0) * cache.dim = t1 * cache.dim
  BY <1>2, MoreColumns
<1>5. t0 * cache.dim \in Int /\ t1 * cache.dim \in Int /\ (t1 - t0) * cache.dim \in Int
  BY <1>2, IntProduct
<1>6. /\ LastTokens => t1 = cache.tokens /\ phase' = next /\ t0' = 0
      /\ ~LastTokens => t0' = t1 /\ phase' = load
  BY <1>1, TokenBounds, NextTokens
<1>7. MacsOf(trace') = MacsOf(trace) + (t1 - t0) * cache.dim
  BY <1>3 DEF tileWork
<1> QED BY <1>4, <1>5, <1>6, <1>7

LEMMA ScoreTileMacs ==
  ASSUME AttentionInv, AttentionMacs, ScoreTile
  PROVE  AttentionMacs'
<1>1. /\ phase = "score_tile" /\ cache' = cache /\ LoopOrGoOn("load_k_tile", "softmax_max_reduce")
      /\ add_event(<<t0, t1>>, Compute(tileWork), 0, tileWork)
  BY DEF ScoreTile, attentionArgs
<1>2. /\ MacsOf(trace') = MacsOf(trace) + (t1 - t0) * cache.dim
      /\ t0 * cache.dim + (t1 - t0) * cache.dim = t1 * cache.dim
      /\ LastTokens => t1 = cache.tokens /\ phase' = "softmax_max_reduce"
      /\ ~LastTokens => t0' = t1 /\ phase' = "load_k_tile"
  BY <1>1, TileMacs
<1>3. MacsOf(trace') = t1 * cache.dim
  BY <1>1, <1>2 DEF AttentionMacs
<1> QED BY <1>1, <1>2, <1>3 DEF AttentionMacs, SoftmaxKinds

LEMMA ValueTileMacs ==
  ASSUME AttentionInv, AttentionMacs, ValueTile
  PROVE  AttentionMacs'
<1>1. /\ phase = "value_tile" /\ cache' = cache /\ LoopOrGoOn("load_v_tile", "store_context")
      /\ add_event(<<t0, t1>>, Compute(tileWork), 0, tileWork)
  BY DEF ValueTile, attentionArgs
<1>. DEFINE all == cache.tokens * cache.dim
            old == t0 * cache.dim
            here == (t1 - t0) * cache.dim
            new == t1 * cache.dim
<1>2. /\ MacsOf(trace') = MacsOf(trace) + here /\ old + here = new
      /\ old \in Int /\ new \in Int /\ here \in Int
      /\ LastTokens => t1 = cache.tokens /\ phase' = "store_context"
      /\ ~LastTokens => t0' = t1 /\ phase' = "load_v_tile"
  BY <1>1, TileMacs
<1>3. all \in Int /\ MacsOf(trace) = all + old
  <2>1. cache.tokens \in Int /\ cache.dim \in Int
    BY TokenBounds DEF AttentionInv
  <2>2. QED
    BY <1>1, <2>1, IntProduct DEF AttentionMacs
<1>4. LastTokens => new = all
  BY <1>2
<1>5. ~LastTokens => (t0 * cache.dim)' = new
  BY <1>1, <1>2
<1>6. (cache.tokens * cache.dim)' = all
  BY <1>1
<1>. HIDE DEF all, old, here, new
<1>7. MacsOf(trace') = all + new
  BY <1>2, <1>3
<1>8. all + all = 2 * all
  BY <1>3
<1>9. CASE LastTokens
  BY <1>2, <1>4, <1>6, <1>7, <1>8, <1>9 DEF AttentionMacs, SoftmaxKinds
<1>10. CASE ~LastTokens
  BY <1>2, <1>5, <1>6, <1>7, <1>10 DEF AttentionMacs, SoftmaxKinds
<1> QED BY <1>9, <1>10

LEMMA AttentionMacsStep == AttentionInv /\ AttentionMacs /\ [AttentionNext]_attentionVars => AttentionMacs'
<1> SUFFICES ASSUME AttentionInv, AttentionMacs, [AttentionNext]_attentionVars PROVE AttentionMacs'
  OBVIOUS
<1>1. ASSUME NEW kv \in Caches, NEW c \in Settings, CallAttention(kv, c) PROVE AttentionMacs'
  BY <1>1, MacsEmpty DEF CallAttention, AttentionMacs, SoftmaxKinds
<1>2. CASE LoadQVector \/ LoadKTile \/ LoadVTile \/ SoftmaxPhases \/ StoreContext
  BY <1>2, StraightMacs
<1>3. CASE ScoreTile
  BY <1>3, ScoreTileMacs
<1>4. CASE ValueTile
  BY <1>4, ValueTileMacs
<1>5. CASE ReturnAttention \/ UNCHANGED attentionVars
  <2>1. /\ cache' = cache /\ t0' = t0 /\ trace' = trace /\ (phase' = "idle" \/ phase' = phase)
    BY <1>5 DEF ReturnAttention, attentionVars, attentionArgs
  <2> QED BY <2>1 DEF AttentionMacs, SoftmaxKinds
<1> QED BY <1>1, <1>2, <1>3, <1>4, <1>5 DEF AttentionNext, AttentionSteps

\* The events of schedule_attention_decode claim the multiplications that the
\* compiler's estimate counts, for any cache and tile.
THEOREM AttentionMacsMatch == AttentionSpec => []MacsMatchEstimate
<1>1. AttentionInit => AttentionMacs
  BY DEF AttentionInit, AttentionMacs, SoftmaxKinds
<1>2. AttentionInv /\ AttentionMacs => MacsMatchEstimate
  <2> SUFFICES ASSUME AttentionInv, AttentionMacs, phase = "end"
               PROVE  MacsOf(trace) = 2 * cache.tokens * cache.dim
    BY DEF MacsMatchEstimate
  <2>1. cache.tokens \in Int /\ cache.dim \in Int
    BY TokenBounds DEF AttentionInv
  <2>2. 2 * cache.tokens * cache.dim = 2 * (cache.tokens * cache.dim)
    BY <2>1
  <2> QED BY <2>2 DEF AttentionMacs
<1> QED BY <1>1, <1>2, AttentionInvariance, AttentionMacsStep, PTL DEF AttentionSpec

-----------------------------------------------------------------------------
(* The bank checker.                                                       *)

AllSlots == {<<b[1], b[2]>> : b \in booked}

\* What is in the result so far.
Objection(x) ==
  \E m \in 1 .. at - 1 : \E kind \in Invalid(accesses[m]) :
    x = Conflict(kind, {}, accesses[m].bank, {m})
Finding(x) == \E s \in AllSlots \ slots : x \in Judged(s)

BankTypeOK ==
  /\ accesses \in Seq(MemoryAccess) /\ bank_cfg \in Banks
  /\ at \in 1 .. Len(accesses) + 1
  /\ verdict \in {"idle", "open", "ok", "conflicts"}

\* Every access before at is booked in its bank in each cycle it is active.
BookedOK ==
  \A t : t \in booked <=>
    \E m \in 1 .. at - 1 : \E c \in accesses[m].start_cycle .. EndCycle(accesses[m]) - 1 :
      t = <<c, accesses[m].bank, m>>

SlotsOK ==
  /\ slots \subseteq AllSlots
  /\ at <= Len(accesses) => slots = AllSlots
  /\ \E low \in Int : \A s \in AllSlots : s[1] \in Int /\ s[2] \in Int /\ s[1] >= low /\ s[2] >= low

ConflictsOK == \A x : x \in conflicts <=> Objection(x) \/ Finding(x)

VerdictOK ==
  /\ verdict = "idle" => at = 1 /\ booked = {} /\ slots = {} /\ conflicts = {}
  /\ verdict \in {"ok", "conflicts"} =>
       at > Len(accesses) /\ slots = {} /\ (verdict = "ok" <=> conflicts = {})

BankInv == BankTypeOK /\ BookedOK /\ SlotsOK /\ ConflictsOK /\ VerdictOK

-----------------------------------------------------------------------------
(* Least elements.                                                         *)

LEMMA LeastInt ==
  ASSUME NEW T \in SUBSET Int, T # {}, NEW low \in Int, \A y \in T : low <= y
  PROVE  \E x \in T : \A y \in T : x <= y
<1> DEFINE D == {y - low : y \in T}
<1>1. D \in SUBSET Nat /\ D # {}
  <2>1. \A y \in T : y - low \in Nat
    OBVIOUS
  <2> QED BY <2>1
<1> HIDE DEF D
<1>2. PICK d \in D : \A e \in D : d <= e
  BY <1>1, LeastNat
<1>3. PICK x \in T : d = x - low
  BY DEF D
<1>4. \A y \in T : y - low \in D
  BY DEF D
<1> QED BY <1>2, <1>3, <1>4

LEMMA GreatestInt ==
  ASSUME NEW T \in SUBSET Int, T # {}, NEW high \in Int, \A y \in T : y <= high
  PROVE  \E x \in T : \A y \in T : y <= x
<1> DEFINE D == {high - y : y \in T}
<1>1. D \in SUBSET Nat /\ D # {}
  <2>1. \A y \in T : high - y \in Nat
    OBVIOUS
  <2> QED BY <2>1
<1> HIDE DEF D
<1>2. PICK d \in D : \A e \in D : d <= e
  BY <1>1, LeastNat
<1>3. PICK x \in T : d = high - x
  BY DEF D
<1>4. \A y \in T : high - y \in D
  BY DEF D
<1> QED BY <1>2, <1>3, <1>4

\* The slot judged next is one of those left: sorted() has a first element.
LEMMA NextSlotIsLeft ==
  ASSUME SlotsOK, slots # {}
  PROVE  NextSlot \in slots
<1>1. PICK low \in Int : \A s \in AllSlots : s[1] \in Int /\ s[2] \in Int /\ s[1] >= low /\ s[2] >= low
  BY DEF SlotsOK
<1>2. \A s \in slots : s[1] \in Int /\ s[2] \in Int /\ s[1] >= low /\ s[2] >= low /\ s = <<s[1], s[2]>>
  BY <1>1 DEF SlotsOK, AllSlots
<1> DEFINE Firsts == {s[1] : s \in slots}
<1>3. PICK c \in Firsts : \A d \in Firsts : c <= d
  <2>1. Firsts \in SUBSET Int /\ Firsts # {} /\ \A y \in Firsts : low <= y
    BY <1>2
  <2> HIDE DEF Firsts
  <2> QED BY <2>1, LeastInt
<1> DEFINE Seconds == {s[2] : s \in {s \in slots : s[1] = c}}
<1>4. PICK b \in Seconds : \A d \in Seconds : b <= d
  <2>1. Seconds \in SUBSET Int /\ Seconds # {} /\ \A y \in Seconds : low <= y
    BY <1>2
  <2> HIDE DEF Seconds
  <2> QED BY <2>1, LeastInt
<1>5. PICK s \in slots : s[1] = c /\ s[2] = b
  OBVIOUS
<1>6. \A t \in slots \ {s} : Before(s, t)
  <2> SUFFICES ASSUME NEW t \in slots \ {s} PROVE Before(s, t)
    OBVIOUS
  <2>1. c <= t[1] /\ (t[1] = c => b <= t[2])
    BY <1>3, <1>4
  <2>2. t[1] # c \/ t[2] # b
    BY <1>2, <1>5
  <2> QED BY <1>2, <1>5, <2>1, <2>2 DEF Before
<1>7. NextSlot \in slots
  BY <1>5, <1>6 DEF NextSlot
<1> QED BY <1>7

-----------------------------------------------------------------------------
LEMMA BankStarts == MemoryBankInit => BankInv
<1> SUFFICES ASSUME MemoryBankInit PROVE BankInv
  OBVIOUS
<1>1. bank_cfg \in Banks /\ accesses = <<>> /\ at = 1 /\ booked = {} /\ slots = {}
      /\ conflicts = {} /\ verdict = "idle"
  BY MemoryBankAssumption DEF MemoryBankInit
<1>2. BankTypeOK /\ BookedOK /\ VerdictOK
  BY <1>1 DEF BankTypeOK, BookedOK, VerdictOK
<1>3. SlotsOK
  BY <1>1 DEF SlotsOK, AllSlots
<1>4. ConflictsOK
  BY <1>1 DEF ConflictsOK, Objection, Finding, AllSlots
<1> QED BY <1>2, <1>3, <1>4 DEF BankInv

LEMMA CallCheckerStep ==
  ASSUME BankInv, NEW list \in Seq(MemoryAccess), NEW b \in Banks, CallChecker(list, b)
  PROVE  BankInv'
<1>1. /\ verdict = "idle" /\ verdict' = "open" /\ accesses' = list /\ bank_cfg' = b
      /\ booked' = booked /\ at' = at /\ slots' = slots /\ conflicts' = conflicts
  BY DEF CallChecker
<1>2. at = 1 /\ booked = {} /\ slots = {} /\ conflicts = {}
  BY <1>1 DEF BankInv, VerdictOK
<1>3. list \in Seq(MemoryAccess) /\ Len(list) \in Nat
  OBVIOUS
<1>4. BankTypeOK' /\ BookedOK' /\ VerdictOK'
  BY <1>1, <1>2, <1>3 DEF BankTypeOK, BookedOK, VerdictOK
<1>5. SlotsOK'
  BY <1>1, <1>2 DEF SlotsOK, AllSlots
<1>6. ConflictsOK'
  BY <1>1, <1>2 DEF ConflictsOK, Objection, Finding, AllSlots
<1> QED BY <1>4, <1>5, <1>6 DEF BankInv

LEMMA BookStep ==
  ASSUME BankInv, BookAccess
  PROVE  BankInv'
<1> DEFINE a == accesses[at]
<1>1. /\ verdict = "open" /\ at <= Len(accesses) /\ at' = at + 1
      /\ booked' = booked \cup Active(at)
      /\ conflicts' = conflicts \cup {Conflict(kind, {}, a.bank, {at}) : kind \in Invalid(a)}
      /\ slots' = AllSlots' /\ accesses' = accesses /\ bank_cfg' = bank_cfg /\ verdict' = verdict
  BY DEF BookAccess, AllSlots
<1>2. /\ accesses \in Seq(MemoryAccess) /\ Len(accesses) \in Nat /\ at \in Nat \ {0}
      /\ a \in MemoryAccess
  BY <1>1 DEF BankInv, BankTypeOK
<1>3. a.start_cycle \in Int /\ EndCycle(a) \in Int /\ a.bank \in Int
  BY <1>2, SMTT(30) DEF MemoryAccess, EndCycle
<1>4. BankTypeOK'
  BY <1>1, <1>2 DEF BankInv, BankTypeOK
<1>5. \A m \in 1 .. at' - 1 : m \in 1 .. at - 1 \/ m = at
  BY <1>1, <1>2
<1>6. at \in 1 .. at' - 1 /\ \A m \in 1 .. at - 1 : m \in 1 .. at' - 1
  BY <1>1, <1>2
<1>7. BookedOK'
  <2>1. \A t : t \in Active(at) <=> \E c \in a.start_cycle .. EndCycle(a) - 1 : t = <<c, a.bank, at>>
    BY DEF Active
  <2>2. \A t : t \in booked' <=> t \in booked \/ t \in Active(at)
    BY <1>1
  <2>3. \A m : EndCycle(accesses[m])' = EndCycle(accesses[m])
    BY <1>1 DEF EndCycle
  <2> QED BY <1>1, <1>5, <1>6, <2>1, <2>2, <2>3 DEF BankInv, BookedOK
<1>8. SlotsOK'
  <2>1. PICK low \in Int : \A s \in AllSlots : s[1] \in Int /\ s[2] \in Int /\ s[1] >= low /\ s[2] >= low
    BY DEF BankInv, SlotsOK
  <2>2. \A s \in AllSlots' : s \in AllSlots
          \/ \E c \in a.start_cycle .. EndCycle(a) - 1 : s = <<c, a.bank>>
    BY <1>1 DEF AllSlots, Active
  <2>3. PICK m \in {low, a.start_cycle, a.bank} : m <= low /\ m <= a.start_cycle /\ m <= a.bank
    BY <1>3, <2>1
  <2>4. m \in Int
    BY <1>3, <2>3
  <2>5. \A s \in AllSlots' : s[1] \in Int /\ s[2] \in Int /\ s[1] >= m /\ s[2] >= m
    <3> SUFFICES ASSUME NEW s \in AllSlots'
                 PROVE  s[1] \in Int /\ s[2] \in Int /\ s[1] >= m /\ s[2] >= m
      OBVIOUS
    <3>1. CASE s \in AllSlots
      BY <2>1, <2>3, <2>4, <3>1
    <3>2. CASE \E c \in a.start_cycle .. EndCycle(a) - 1 : s = <<c, a.bank>>
      BY <1>3, <2>3, <2>4, <3>2
    <3> QED BY <2>2, <3>1, <3>2
  <2> QED BY <1>1, <2>4, <2>5 DEF SlotsOK
<1>9. ConflictsOK'
  <2>1. \A x : ~Finding(x)
    BY <1>1 DEF Finding, BankInv, SlotsOK
  <2>2. \A x : ~Finding(x)'
    BY <1>1 DEF Finding
  <2>3. \A x : x \in conflicts' <=> x \in conflicts
                 \/ \E kind \in Invalid(a) : x = Conflict(kind, {}, a.bank, {at})
    BY <1>1
  <2>4. \A m : Invalid(accesses[m])' = Invalid(accesses[m])
    BY <1>1 DEF Invalid
  <2>5. \A x : Objection(x)' <=> Objection(x)
                 \/ \E kind \in Invalid(a) : x = Conflict(kind, {}, a.bank, {at})
    BY <1>1, <1>5, <1>6, <2>4 DEF Objection, Conflict
  <2>6. \A x : x \in conflicts <=> Objection(x)
    BY <2>1 DEF BankInv, ConflictsOK
  <2> QED BY <2>2, <2>3, <2>5, <2>6 DEF ConflictsOK
<1>10. VerdictOK'
  BY <1>1 DEF VerdictOK
<1> QED BY <1>4, <1>7, <1>8, <1>9, <1>10 DEF BankInv

LEMMA JudgeStep ==
  ASSUME BankInv, JudgeSlot
  PROVE  BankInv'
<1>1. /\ verdict = "open" /\ at > Len(accesses) /\ conflicts' = conflicts \cup Judged(NextSlot)
      /\ slots' = slots \ {NextSlot} /\ accesses' = accesses /\ bank_cfg' = bank_cfg
      /\ booked' = booked /\ at' = at /\ verdict' = verdict
  BY DEF JudgeSlot
<1>2. NextSlot \in slots
  BY NextSlotIsLeft DEF BankInv, JudgeSlot
<1>3. AllSlots' = AllSlots /\ (\A s : Judged(s)' = Judged(s))
      /\ \A m : EndCycle(accesses[m])' = EndCycle(accesses[m])
  BY <1>1 DEF AllSlots, Judged, Users, Conflict, EndCycle
<1>4. BankTypeOK' /\ BookedOK' /\ VerdictOK'
  BY <1>1, <1>3 DEF BankInv, BankTypeOK, BookedOK, VerdictOK
<1>5. SlotsOK'
  <2>1. slots' \subseteq AllSlots /\ ~(at <= Len(accesses))
    BY <1>1 DEF BankInv, SlotsOK, BankTypeOK
  <2> QED BY <1>1, <1>3, <2>1 DEF BankInv, SlotsOK
<1>6. ConflictsOK'
  <2>1. \A x : Objection(x)' <=> Objection(x)
    BY <1>1 DEF Objection, Invalid, Conflict
  <2>2. AllSlots \ slots' = (AllSlots \ slots) \cup {NextSlot}
    BY <1>1, <1>2 DEF BankInv, SlotsOK
  <2>3. \A x : Finding(x)' <=> \E s \in AllSlots \ slots' : x \in Judged(s)
    BY <1>3 DEF Finding
  <2>4. \A x : Finding(x)' <=> Finding(x) \/ x \in Judged(NextSlot)
    BY <2>2, <2>3 DEF Finding
  <2> QED BY <1>1, <2>1, <2>4 DEF BankInv, ConflictsOK
<1> QED BY <1>4, <1>5, <1>6 DEF BankInv

\* Steps that leave the list, the bookings and the findings alone.
LEMMA RestStep ==
  ASSUME BankInv, Return \/ UNCHANGED bankVars
  PROVE  BankInv'
<1>1. /\ accesses' = accesses /\ bank_cfg' = bank_cfg /\ booked' = booked /\ at' = at
      /\ slots' = slots /\ conflicts' = conflicts
  BY DEF Return, bankVars
<1>2. /\ AllSlots' = AllSlots /\ (\A s : Judged(s)' = Judged(s))
      /\ \A m : EndCycle(accesses[m])' = EndCycle(accesses[m])
  BY <1>1 DEF AllSlots, Judged, Users, Conflict, EndCycle
<1>3. BookedOK' /\ SlotsOK'
  BY <1>1, <1>2 DEF BankInv, BookedOK, SlotsOK
<1>4. ConflictsOK'
  <2>1. \A x : Objection(x)' <=> Objection(x)
    BY <1>1 DEF Objection, Invalid, Conflict
  <2>2. \A x : Finding(x)' <=> Finding(x)
    BY <1>1, <1>2 DEF Finding
  <2> QED BY <1>1, <2>1, <2>2 DEF BankInv, ConflictsOK
<1>5. BankTypeOK' /\ VerdictOK'
  <2>1. CASE Return
    BY <1>1, <2>1 DEF Return, BankInv, BankTypeOK, VerdictOK
  <2>2. CASE UNCHANGED bankVars
    BY <1>1, <2>2 DEF bankVars, BankInv, BankTypeOK, VerdictOK
  <2> QED BY <2>1, <2>2
<1> QED BY <1>3, <1>4, <1>5 DEF BankInv

LEMMA BankStep == BankInv /\ [BankNext]_bankVars => BankInv'
<1> SUFFICES ASSUME BankInv, [BankNext]_bankVars PROVE BankInv'
  OBVIOUS
<1>1. ASSUME NEW list \in Seq(MemoryAccess), NEW b \in Banks, CallChecker(list, b) PROVE BankInv'
  BY <1>1, CallCheckerStep
<1>2. CASE BookAccess
  BY <1>2, BookStep
<1>3. CASE JudgeSlot
  BY <1>3, JudgeStep
<1>4. CASE Return \/ UNCHANGED bankVars
  BY <1>4, RestStep
<1> QED BY <1>1, <1>2, <1>3, <1>4 DEF BankNext, CheckerSteps

-----------------------------------------------------------------------------
(* From bookings to overlaps.                                              *)

\* All accesses are booked.
AllBooked == BankInv /\ at > Len(accesses)

LEMMA AccessFields ==
  ASSUME BankInv, NEW m \in DOMAIN accesses
  PROVE  /\ accesses[m].start_cycle \in Int /\ accesses[m].cycles \in Int /\ accesses[m].bank \in Int
         /\ EndCycle(accesses[m]) = accesses[m].start_cycle + accesses[m].cycles
<1>1. accesses[m] \in MemoryAccess
  BY DEF BankInv, BankTypeOK
<1> QED BY <1>1 DEF MemoryAccess, EndCycle

\* The users of a slot are the accesses of its bank that are active in its cycle.
LEMMA UsersAreActive ==
  ASSUME AllBooked, NEW slot, NEW kind
  PROVE  Users(slot, kind) =
           {m \in DOMAIN accesses : /\ accesses[m].kind = kind /\ accesses[m].bank = slot[2]
                                    /\ slot[1] \in accesses[m].start_cycle .. EndCycle(accesses[m]) - 1}
<1>1. DOMAIN accesses = 1 .. at - 1
  BY DEF AllBooked, BankInv, BankTypeOK
<1>2. \A m \in DOMAIN accesses :
        <<slot[1], slot[2], m>> \in booked
          <=> /\ accesses[m].bank = slot[2]
              /\ slot[1] \in accesses[m].start_cycle .. EndCycle(accesses[m]) - 1
  BY <1>1 DEF AllBooked, BankInv, BookedOK
<1> QED BY <1>2 DEF Users

LEMMA UsersFinite ==
  ASSUME BankInv, NEW slot, NEW kind
  PROVE  IsFiniteSet(Users(slot, kind)) /\ Cardinality(Users(slot, kind)) \in Nat
<1>1. Len(accesses) \in Nat /\ DOMAIN accesses = 1 .. Len(accesses)
  BY DEF BankInv, BankTypeOK
<1>2. IsFiniteSet(1 .. Len(accesses))
  BY <1>1, FS_Interval
<1>3. Users(slot, kind) \in SUBSET (1 .. Len(accesses))
  BY <1>1 DEF Users
<1>4. IsFiniteSet(Users(slot, kind))
  BY <1>2, <1>3, FS_Subset
<1> QED BY <1>4, FS_CardinalityType

\* A slot with a user was booked, so it was judged.
LEMMA UsedSlot ==
  ASSUME BankInv, NEW c, NEW b, NEW kind, Users(<<c, b>>, kind) # {}
  PROVE  <<c, b>> \in AllSlots
<1>1. PICK m \in DOMAIN accesses : <<c, b, m>> \in booked
  BY DEF Users
<1>2. <<c, b>> = <<(<<c, b, m>>)[1], (<<c, b, m>>)[2]>>
  OBVIOUS
<1> QED BY <1>1, <1>2 DEF AllSlots

\* Two users of a slot overlap.
LEMMA UsersOverlap ==
  ASSUME AllBooked, NEW slot, NEW kind1, NEW kind2,
         NEW m \in Users(slot, kind1), NEW p \in Users(slot, kind2)
  PROVE  Overlap(accesses[m], accesses[p]) /\ m \in OfKind(kind1) /\ p \in OfKind(kind2)
<1>1. /\ m \in DOMAIN accesses /\ accesses[m].kind = kind1 /\ accesses[m].bank = slot[2]
      /\ slot[1] \in accesses[m].start_cycle .. EndCycle(accesses[m]) - 1
  BY UsersAreActive
<1>2. /\ p \in DOMAIN accesses /\ accesses[p].kind = kind2 /\ accesses[p].bank = slot[2]
      /\ slot[1] \in accesses[p].start_cycle .. EndCycle(accesses[p]) - 1
  BY UsersAreActive
<1>3. /\ accesses[m].start_cycle \in Int /\ accesses[m].cycles \in Int
      /\ EndCycle(accesses[m]) = accesses[m].start_cycle + accesses[m].cycles
  BY <1>1, AccessFields DEF AllBooked
<1>4. /\ accesses[p].start_cycle \in Int /\ accesses[p].cycles \in Int
      /\ EndCycle(accesses[p]) = accesses[p].start_cycle + accesses[p].cycles
  BY <1>2, AccessFields DEF AllBooked
<1>5. slot[1] \in Int
  BY <1>1, <1>3
<1>6. accesses[m].cycles > 0 /\ accesses[p].cycles > 0
  BY <1>1, <1>2, <1>3, <1>4, <1>5
<1>7. Overlap(accesses[m], accesses[p])
  BY <1>1, <1>2, <1>3, <1>4, <1>5 DEF Overlap
<1> QED BY <1>1, <1>2, <1>6, <1>7 DEF OfKind

\* Accesses that overlap pairwise have a slot in common: that of the last to begin.
LEMMA OverlapsMeet ==
  ASSUME AllBooked, NEW kind, NEW S \in SUBSET OfKind(kind), S # {},
         \A m, p \in S : Overlap(accesses[m], accesses[p])
  PROVE  \E c, b \in Int : S \subseteq Users(<<c, b>>, kind)
<1> DEFINE start(m) == accesses[m].start_cycle
           Starts == {start(m) : m \in S}
<1>1. \A m \in S : /\ m \in DOMAIN accesses /\ accesses[m].kind = kind
                   /\ start(m) \in Int /\ EndCycle(accesses[m]) \in Int /\ accesses[m].bank \in Int
  BY AccessFields DEF OfKind, AllBooked
<1>2. PICK one \in S : TRUE
  OBVIOUS
<1>3. Starts \in SUBSET Int /\ Starts # {}
  BY <1>1
<1>4. \A y \in Starts : y <= EndCycle(accesses[one])
  BY <1>1, <1>2 DEF Overlap
<1>5. EndCycle(accesses[one]) \in Int
  BY <1>1, <1>2
<1>6. PICK c \in Starts : \A y \in Starts : y <= c
  <2> HIDE DEF Starts
  <2> QED BY <1>3, <1>4, <1>5, GreatestInt
<1>7. PICK last \in S : c = start(last)
  OBVIOUS
<1>8. \A m \in S : /\ accesses[m].bank = accesses[last].bank
                   /\ c \in start(m) .. EndCycle(accesses[m]) - 1
  <2> SUFFICES ASSUME NEW m \in S
               PROVE  /\ accesses[m].bank = accesses[last].bank
                      /\ c \in start(m) .. EndCycle(accesses[m]) - 1
    OBVIOUS
  <2>1. Overlap(accesses[last], accesses[m])
    OBVIOUS
  <2>2. start(m) <= c /\ c \in Int
    BY <1>1, <1>6, <1>7
  <2> QED BY <1>1, <1>7, <2>1, <2>2 DEF Overlap
<1> DEFINE b == accesses[last].bank
<1>9. S \subseteq Users(<<c, b>>, kind)
  <2>1. Users(<<c, b>>, kind) =
          {m \in DOMAIN accesses : /\ accesses[m].kind = kind /\ accesses[m].bank = b
                                   /\ c \in accesses[m].start_cycle .. EndCycle(accesses[m]) - 1}
    BY UsersAreActive
  <2> HIDE DEF b
  <2> QED BY <1>1, <1>8, <2>1 DEF b
<1>10. c \in Int /\ b \in Int
  BY <1>1, <1>3
<1> QED BY <1>9, <1>10

\* Counting the users of each slot finds exactly the crowds.
LEMMA CrowdsAreCounted ==
  ASSUME AllBooked, NEW kind, NEW ports \in Nat \ {0}
  PROVE  Crowded(kind, ports) <=> \E s \in AllSlots : Cardinality(Users(s, kind)) > ports
<1>0. BankInv
  BY DEF AllBooked
<1>1. ASSUME NEW S \in SUBSET OfKind(kind), Cardinality(S) > ports,
             \A m, p \in S : Overlap(accesses[m], accesses[p])
      PROVE  \E s \in AllSlots : Cardinality(Users(s, kind)) > ports
  <2>1. S # {}
    BY <1>1, FS_EmptySet
  <2>2. PICK c, b \in Int : S \subseteq Users(<<c, b>>, kind)
    BY <1>1, <2>1, OverlapsMeet
  <2>3. /\ IsFiniteSet(Users(<<c, b>>, kind)) /\ Cardinality(Users(<<c, b>>, kind)) \in Nat
    BY <1>0, UsersFinite
  <2>4. IsFiniteSet(S) /\ Cardinality(S) <= Cardinality(Users(<<c, b>>, kind))
    BY <2>2, <2>3, FS_Subset
  <2>5. Cardinality(S) \in Nat
    BY <2>4, FS_CardinalityType
  <2>6. Cardinality(Users(<<c, b>>, kind)) > ports
    BY <1>1, <2>3, <2>4, <2>5
  <2>7. <<c, b>> \in AllSlots
    BY <1>0, <2>1, <2>2, UsedSlot
  <2> QED BY <2>6, <2>7
<1>2. ASSUME NEW s \in AllSlots, Cardinality(Users(s, kind)) > ports PROVE Crowded(kind, ports)
  <2>1. \A m, p \in Users(s, kind) : Overlap(accesses[m], accesses[p])
    BY UsersOverlap
  <2>2. Users(s, kind) \in SUBSET OfKind(kind)
    BY UsersOverlap
  <2> QED BY <1>2, <2>1, <2>2 DEF Crowded
<1> QED BY <1>1, <1>2 DEF Crowded

LEMMA CollisionsAreFound ==
  ASSUME AllBooked
  PROVE  Collide <=> \E s \in AllSlots : Users(s, "read") # {} /\ Users(s, "write") # {}
<1>0. BankInv
  BY DEF AllBooked
<1>1. ASSUME NEW r \in OfKind("read"), NEW w \in OfKind("write"), Overlap(accesses[r], accesses[w])
      PROVE  \E s \in AllSlots : Users(s, "read") # {} /\ Users(s, "write") # {}
  <2> DEFINE rs == accesses[r].start_cycle
             ws == accesses[w].start_cycle
             b  == accesses[r].bank
  <2>1. /\ r \in DOMAIN accesses /\ w \in DOMAIN accesses
        /\ accesses[r].kind = "read" /\ accesses[w].kind = "write"
        /\ accesses[r].cycles > 0 /\ accesses[w].cycles > 0
    BY DEF OfKind
  <2>2. /\ rs \in Int /\ accesses[r].cycles \in Int /\ EndCycle(accesses[r]) = rs + accesses[r].cycles
        /\ ws \in Int /\ accesses[w].cycles \in Int /\ EndCycle(accesses[w]) = ws + accesses[w].cycles
    BY <1>0, <2>1, AccessFields
  <2>3. b = accesses[w].bank /\ rs < EndCycle(accesses[w]) /\ ws < EndCycle(accesses[r])
    BY <1>1 DEF Overlap
  <2>4. PICK c \in {rs, ws} : rs <= c /\ ws <= c
    BY <2>2
  <2>5. c \in rs .. EndCycle(accesses[r]) - 1 /\ c \in ws .. EndCycle(accesses[w]) - 1
    BY <2>1, <2>2, <2>3, <2>4
  <2>6. \A kind : Users(<<c, b>>, kind) =
          {m \in DOMAIN accesses : /\ accesses[m].kind = kind /\ accesses[m].bank = b
                                   /\ c \in accesses[m].start_cycle .. EndCycle(accesses[m]) - 1}
    BY UsersAreActive
  <2>7. r \in Users(<<c, b>>, "read") /\ w \in Users(<<c, b>>, "write")
    BY <2>1, <2>3, <2>5, <2>6
  <2>8. <<c, b>> \in AllSlots
    BY <1>0, <2>7, UsedSlot
  <2> QED BY <2>7, <2>8
<1>2. ASSUME NEW s \in AllSlots, NEW r \in Users(s, "read"), NEW w \in Users(s, "write")
      PROVE  Collide
  BY UsersOverlap DEF Collide
<1> QED BY <1>1, <1>2 DEF Collide

\* What the result says once every slot was judged.
LEMMA FinalReports ==
  ASSUME BankInv, verdict \in {"ok", "conflicts"}
  PROVE  /\ AllBooked
         /\ \A x : x \in conflicts <=> Objection(x) \/ \E s \in AllSlots : x \in Judged(s)
<1>1. at > Len(accesses) /\ slots = {}
  BY DEF BankInv, VerdictOK
<1> QED BY <1>1 DEF BankInv, ConflictsOK, Finding, AllBooked

LEMMA ReportedKinds ==
  ASSUME BankInv, verdict \in {"ok", "conflicts"}
  PROVE  /\ Reported("read_port_conflict") <=>
              \E s \in AllSlots : Cardinality(Users(s, "read")) > bank_cfg.read_ports
         /\ Reported("write_port_conflict") <=>
              \E s \in AllSlots : Cardinality(Users(s, "write")) > bank_cfg.write_ports
         /\ Reported("read_write_conflict") <=>
              \E s \in AllSlots : /\ Users(s, "read") # {} /\ Users(s, "write") # {}
                                  /\ ~bank_cfg.same_cycle
<1>1. \A x : Objection(x) => x.kind \in {"invalid_access", "out_of_bounds"}
  BY DEF Objection, Conflict, Invalid
<1>2. \A kind : Reported(kind) /\ kind \notin {"invalid_access", "out_of_bounds"}
        <=> /\ kind \notin {"invalid_access", "out_of_bounds"}
            /\ \E s \in AllSlots : \E x \in Judged(s) : x.kind = kind
  BY <1>1, FinalReports DEF Reported
<1>3. ASSUME NEW s
      PROVE  /\ (\E x \in Judged(s) : x.kind = "read_port_conflict") <=>
                  Cardinality(Users(s, "read")) > bank_cfg.read_ports
             /\ (\E x \in Judged(s) : x.kind = "write_port_conflict") <=>
                  Cardinality(Users(s, "write")) > bank_cfg.write_ports
             /\ (\E x \in Judged(s) : x.kind = "read_write_conflict") <=>
                  Users(s, "read") # {} /\ Users(s, "write") # {} /\ ~bank_cfg.same_cycle
  <2> DEFINE reads  == Users(s, "read")
             writes == Users(s, "write")
             rp == Conflict("read_port_conflict", {s[1]}, s[2], reads)
             wp == Conflict("write_port_conflict", {s[1]}, s[2], writes)
             rw == Conflict("read_write_conflict", {s[1]}, s[2], reads \cup writes)
  <2>1. \A x : x \in Judged(s) <=>
          \/ x = rp /\ Cardinality(reads) > bank_cfg.read_ports
          \/ x = wp /\ Cardinality(writes) > bank_cfg.write_ports
          \/ x = rw /\ reads # {} /\ writes # {} /\ ~bank_cfg.same_cycle
    BY DEF Judged
  <2>2. /\ rp.kind = "read_port_conflict" /\ wp.kind = "write_port_conflict"
        /\ rw.kind = "read_write_conflict"
    BY DEF Conflict
  <2> HIDE DEF rp, wp, rw, reads, writes
  <2>3. /\ (\E x \in Judged(s) : x.kind = "read_port_conflict") <=>
             Cardinality(reads) > bank_cfg.read_ports
        /\ (\E x \in Judged(s) : x.kind = "write_port_conflict") <=>
             Cardinality(writes) > bank_cfg.write_ports
        /\ (\E x \in Judged(s) : x.kind = "read_write_conflict") <=>
             reads # {} /\ writes # {} /\ ~bank_cfg.same_cycle
    BY <2>1, <2>2
  <2> QED BY <2>3 DEF reads, writes
<1> QED BY <1>2, <1>3

(* What the invariant says of a verdict.                                   *)

LEMMA InvIsExact == BankInv => VerdictIsExact
<1> SUFFICES ASSUME BankInv, verdict \in {"ok", "conflicts"}
             PROVE  /\ Reported("read_port_conflict") <=> Crowded("read", bank_cfg.read_ports)
                    /\ Reported("write_port_conflict") <=> Crowded("write", bank_cfg.write_ports)
                    /\ Reported("read_write_conflict") <=> (Collide /\ ~bank_cfg.same_cycle)
  BY DEF VerdictIsExact
<1>1. AllBooked
  BY FinalReports
<1>2. bank_cfg.read_ports \in Nat \ {0} /\ bank_cfg.write_ports \in Nat \ {0}
  BY MemoryBankAssumption DEF BankInv, BankTypeOK
<1>3. /\ Reported("read_port_conflict") <=> Crowded("read", bank_cfg.read_ports)
      /\ Reported("write_port_conflict") <=> Crowded("write", bank_cfg.write_ports)
  BY <1>1, <1>2, CrowdsAreCounted, ReportedKinds
<1>4. Reported("read_write_conflict") <=> (Collide /\ ~bank_cfg.same_cycle)
  BY <1>1, CollisionsAreFound, ReportedKinds
<1> QED BY <1>3, <1>4

LEMMA InvIsInBounds == BankInv => OkMeansInBounds
<1> SUFFICES ASSUME BankInv, verdict = "ok", NEW m \in DOMAIN accesses
             PROVE  Fits(accesses[m]) /\ accesses[m].cycles > 0
  BY DEF OkMeansInBounds
<1>1. conflicts = {} /\ m \in 1 .. at - 1
  BY DEF BankInv, VerdictOK, BankTypeOK
<1>2. \A kind \in Invalid(accesses[m]) :
        Objection(Conflict(kind, {}, accesses[m].bank, {m}))
  BY <1>1 DEF Objection
<1>3. Invalid(accesses[m]) = {}
  BY <1>1, <1>2, FinalReports
<1>4. accesses[m] \in MemoryAccess
  BY DEF BankInv, BankTypeOK
<1>5. /\ accesses[m].cycles \in Int /\ accesses[m].bank \in Int
      /\ accesses[m].offset \in Int /\ accesses[m].size_bytes \in Int
  BY <1>4 DEF MemoryAccess
<1>6. /\ accesses[m].cycles > 0 /\ accesses[m].size_bytes > 0
      /\ accesses[m].bank \in 0 .. bank_cfg.num_banks - 1
      /\ accesses[m].offset + accesses[m].size_bytes <= bank_cfg.bank_size_bytes
  BY <1>3, <1>5, MemoryBankAssumption DEF Invalid, BankInv, BankTypeOK
<1>7. bank_cfg.num_banks \in Nat /\ bank_cfg.bank_size_bytes \in Nat
  BY MemoryBankAssumption DEF BankInv, BankTypeOK
<1> QED BY <1>5, <1>6, <1>7 DEF Fits

-----------------------------------------------------------------------------
\* The inductive invariant of the checker.
THEOREM BankInvariance == BankSpec => []BankInv
BY BankStarts, BankStep, PTL DEF BankSpec

\* The bank checker reports a port conflict, or a read of a bank that is being
\* written, exactly when there is one, for any list of accesses and any ports.
THEOREM BankVerdictIsExact == BankSpec => []VerdictIsExact
BY InvIsExact, BankInvariance, PTL

\* A list that passes is inside the banks, whatever it is.
THEOREM BankOkMeansInBounds == BankSpec => []OkMeansInBounds
BY InvIsInBounds, BankInvariance, PTL

-----------------------------------------------------------------------------
(* Quantisation.                                                           *)

LEMMA AbsFacts ==
  ASSUME NEW x \in Int
  PROVE  Abs(x) \in Nat /\ x <= Abs(x) /\ -x <= Abs(x) /\ (Abs(x) = x \/ Abs(x) = -x)
BY DEF Abs

LEMMA AbsProduct ==
  ASSUME NEW a \in Int, NEW b \in Int
  PROVE  Abs(a * b) = Abs(a) * Abs(b)
<1>1. CASE a >= 0 /\ b >= 0
  <2>1. a * b \in Nat
    BY <1>1, ProductsAreNat
  <2>2. QED
    BY <1>1, <2>1 DEF Abs
<1>2. CASE a >= 0 /\ b < 0
  <2>1. a * (-b) \in Nat /\ a * b = -(a * (-b)) /\ a * b \in Int
    BY <1>2, ProductsAreNat
  <2>2. Abs(a) = a /\ Abs(b) = -b
    BY <1>2 DEF Abs
  <2>3. Abs(a * b) = a * (-b)
    BY <2>1 DEF Abs
  <2>4. QED
    BY <2>2, <2>3
<1>3. CASE a < 0 /\ b >= 0
  <2>1. (-a) * b \in Nat /\ a * b = -((-a) * b) /\ a * b \in Int
    BY <1>3, ProductsAreNat
  <2>2. Abs(a) = -a /\ Abs(b) = b
    BY <1>3 DEF Abs
  <2>3. Abs(a * b) = (-a) * b
    BY <2>1 DEF Abs
  <2>4. QED
    BY <2>2, <2>3
<1>4. CASE a < 0 /\ b < 0
  <2>1. (-a) * (-b) \in Nat /\ a * b = (-a) * (-b)
    BY <1>4, ProductsAreNat
  <2>2. Abs(a) = -a /\ Abs(b) = -b
    BY <1>4 DEF Abs
  <2>3. Abs(a * b) = (-a) * (-b)
    BY <2>1 DEF Abs
  <2>4. QED
    BY <2>2, <2>3
<1>5. QED
  BY <1>1, <1>2, <1>3, <1>4

LEMMA MonoProduct ==
  ASSUME NEW a \in Nat, NEW b \in Nat, NEW c \in Nat, NEW d \in Nat, a <= c, b <= d
  PROVE  a * b <= c * d /\ a * b \in Nat /\ c * d \in Nat
<1>1. a * (d - b) \in Nat /\ (c - a) * d \in Nat /\ a * b \in Nat /\ c * d \in Nat
  BY ProductsAreNat
<1>2. c * d = a * b + a * (d - b) + (c - a) * d
  OBVIOUS
<1>3. QED
  BY <1>1, <1>2

\* np.round is off by half at most.
LEMMA RoundNear ==
  ASSUME NEW num \in Int, NEW den \in Nat \ {0}
  PROVE  Round(num, den) \in Int /\ 2 * Abs(num - den * Round(num, den)) <= den
<1>. DEFINE below == num \div den
            left == num % den
<1>1. num = den * below + left /\ left \in 0 .. den - 1 /\ below \in Int
  OBVIOUS
<1>2. \/ Round(num, den) = below /\ 2 * left <= den
      \/ Round(num, den) = below + 1 /\ 2 * left >= den
  BY <1>1 DEF Round
<1>. HIDE DEF below, left
<1>3. CASE Round(num, den) = below /\ 2 * left <= den
  <2>1. num - den * Round(num, den) = left
    BY <1>1, <1>3
  <2>2. QED
    BY <1>1, <1>3, <2>1 DEF Abs
<1>4. CASE Round(num, den) = below + 1 /\ 2 * left >= den
  <2>1. den * (below + 1) = den * below + den /\ den * below \in Int
    BY <1>1
  <2>2. num - den * Round(num, den) = left - den
    BY <1>1, <1>4, <2>1
  <2>3. QED
    BY <1>1, <1>4, <2>2 DEF Abs
<1>5. QED
  BY <1>2, <1>3, <1>4

\* The magnitude the scale is derived from.
MaxAbs(x) == CHOOSE m \in Magnitudes(x) : \A v \in Magnitudes(x) : v <= m

LEMMA MaxAbsFacts ==
  ASSUME NEW x \in Seq(Int)
  PROVE  MaxAbs(x) \in Nat /\ \A i \in DOMAIN x : x[i] \in Int /\ Abs(x[i]) <= MaxAbs(x)
<1>. DEFINE top == Len(x)
            Bound == {k \in 0 .. top : \E high \in Nat : \A i \in 1 .. k : Abs(x[i]) <= high}
<1>1. top \in Nat /\ DOMAIN x = 1 .. top /\ \A i \in 1 .. top : x[i] \in Int
  OBVIOUS
<1>2. \A i \in 1 .. top : Abs(x[i]) \in Nat
  BY <1>1, AbsFacts
<1>. HIDE DEF top
<1>3. 0 \in Bound
  BY <1>1
<1>4. ASSUME NEW k \in 0 .. top - 1, k \in Bound PROVE k + 1 \in Bound
  <2>1. PICK high \in Nat : \A i \in 1 .. k : Abs(x[i]) <= high
    BY <1>4
  <2>2. k + 1 \in 1 .. top /\ k + 1 \in 0 .. top /\ Abs(x[k + 1]) \in Nat
    BY <1>1, <1>2
  <2>. DEFINE more == high + Abs(x[k + 1])
  <2>3. more \in Nat /\ high <= more /\ Abs(x[k + 1]) <= more
    BY <2>2
  <2>4. \A i \in 1 .. k + 1 : Abs(x[i]) <= more
    <3>1. \A i \in 1 .. k : Abs(x[i]) \in Nat
      <4>1. \A i \in 1 .. k : i \in 1 .. top
        BY <1>1
      <4>2. QED
        BY <1>2, <4>1
    <3>2. \A i \in 1 .. k + 1 : i \in 1 .. k \/ i = k + 1
      BY <2>2
    <3>. HIDE DEF more
    <3>3. QED
      BY <2>1, <2>3, <3>1, <3>2, SMTT(30)
  <2>. HIDE DEF more
  <2>5. QED
    BY <2>2, <2>3, <2>4
<1>5. PICK high \in Nat : \A i \in 1 .. top : Abs(x[i]) <= high
  <2>. HIDE DEF Bound
  <2>1. \A k \in 0 .. top : k \in Bound
    BY <1>1, <1>3, <1>4, UpTo
  <2>2. top \in Bound
    BY <1>1, <2>1
  <2>3. QED
    BY <2>2 DEF Bound
<1>6. Magnitudes(x) \in SUBSET Nat /\ Magnitudes(x) \in SUBSET Int /\ Magnitudes(x) # {}
  BY <1>1, <1>2 DEF Magnitudes
<1>7. \A v \in Magnitudes(x) : v <= high
  BY <1>1, <1>5 DEF Magnitudes
<1>8. \E m \in Magnitudes(x) : \A v \in Magnitudes(x) : v <= m
  <2>. DEFINE T == Magnitudes(x)
  <2>1. T \in SUBSET Int /\ T # {} /\ high \in Int /\ \A v \in T : v <= high
    BY <1>6, <1>7
  <2>. HIDE DEF T
  <2>2. \E m \in T : \A v \in T : v <= m
    BY <2>1, GreatestInt
  <2>3. QED
    BY <2>2 DEF T
<1>9. MaxAbs(x) \in Magnitudes(x) /\ \A v \in Magnitudes(x) : v <= MaxAbs(x)
  BY <1>8 DEF MaxAbs
<1>10. \A i \in 1 .. top : Abs(x[i]) \in Magnitudes(x)
  BY <1>1 DEF Magnitudes
<1>11. QED
  BY <1>1, <1>6, <1>9, <1>10

\* With a derived scale nothing is clipped.
LEMMA NothingClipped ==
  ASSUME NEW v \in Int, NEW m \in Nat \ {0}, Abs(v) <= m
  PROVE  /\ Clip(Round(v * 127, m)) \in Int
         /\ 2 * Abs(127 * v - m * Clip(Round(v * 127, m))) <= m
<1>. DEFINE r == Round(v * 127, m)
<1>1. r \in Int /\ 2 * Abs(v * 127 - m * r) <= m
  <2>. DEFINE num == v * 127
  <2>1. num \in Int
    OBVIOUS
  <2>. HIDE DEF num
  <2>2. Round(num, m) \in Int /\ 2 * Abs(num - m * Round(num, m)) <= m
    BY <2>1, RoundNear
  <2>3. QED
    BY <2>2 DEF num
<1>. HIDE DEF r
<1>2. v \in -m .. m
  BY AbsFacts
<1>3. m * r \in Int
  BY <1>1, IntProduct
<1>4. 2 * (v * 127 - m * r) <= m /\ 2 * (m * r - v * 127) <= m
  BY <1>1, <1>3 DEF Abs
<1>5. r <= 127
  <2>1. SUFFICES ASSUME r >= 128 PROVE FALSE
    BY <1>1
  <2>2. m * (r - 128) \in Nat
    BY <1>1, <2>1, ProductsAreNat
  <2>3. m * r = m * (r - 128) + m * 128
    BY <1>1
  <2>4. QED
    BY <1>2, <1>4, <2>2, <2>3
<1>6. r >= -127
  <2>1. SUFFICES ASSUME r <= -128 PROVE FALSE
    BY <1>1
  <2>2. m * (-128 - r) \in Nat
    BY <1>1, <2>1, ProductsAreNat
  <2>3. m * r = -(m * (-128 - r)) - m * 128
    BY <1>1
  <2>4. QED
    BY <1>2, <1>4, <2>2, <2>3
<1>7. Clip(r) = r
  BY <1>1, <1>5, <1>6 DEF Clip
<1>8. QED
  BY <1>1, <1>3, <1>7 DEF r

LEMMA ListOf ==
  ASSUME NEW list, NEW len \in Nat, list = [i \in 1 .. len |-> list[i]],
         \A i \in 1 .. len : list[i] \in Int
  PROVE  list \in Seq(Int) /\ Len(list) = len
OBVIOUS

LEMMA PeakOf ==
  ASSUME NEW t, NEW m, t.scale = <<m, 127>>
  PROVE  Peak(t) = m
<1>1. t.scale[1] = m /\ t.scale[2] = 127 /\ eps[2] = 1000
  BY DEF eps
<1>2. t.scale # eps
  BY <1>1
<1>3. QED
  BY <1>1, <1>2 DEF Peak

\* A tensor that is quantised with the scale derived from it.
LEMMA QuantisedEntries ==
  ASSUME NEW x \in Seq(Int), NEW t, t = quantize_symmetric_int8(x, {})
  PROVE  /\ t.x = x /\ t.q \in Seq(Int) /\ Len(t.q) = Len(x) /\ Peak(t) \in Nat
         /\ \A i \in DOMAIN x : 2 * Abs(127 * x[i] - Peak(t) * t.q[i]) <= Peak(t)
<1>. DEFINE m == MaxAbs(x)
            scale == IF m = 0 THEN eps ELSE <<m, 127>>
<1>1. m \in Nat /\ \A i \in DOMAIN x : x[i] \in Int /\ Abs(x[i]) \in Nat /\ Abs(x[i]) <= m
  BY MaxAbsFacts, AbsFacts
<1>2. symmetric_int8_scale(x) = scale
  BY DEF symmetric_int8_scale, MaxAbs
<1>. HIDE DEF m
<1>3. scale[1] \in Nat \ {0} /\ scale[2] \in Nat
  BY <1>1 DEF eps
<1>4. /\ t.x = x /\ t.scale = scale
      /\ t.q = [i \in DOMAIN x |-> Clip(Round(x[i] * scale[2], scale[1]))]
  <2>. HIDE DEF scale
  <2>1. ~(scale[1] <= 0)
    BY <1>3
  <2>2. QED
    BY <1>2, <2>1 DEF quantize_symmetric_int8
<1>8. t.q = [i \in 1 .. Len(x) |-> t.q[i]] /\ DOMAIN x = 1 .. Len(x) /\ Len(x) \in Nat
  <2>. HIDE DEF scale
  <2>1. DOMAIN x = 1 .. Len(x) /\ Len(x) \in Nat
    OBVIOUS
  <2>2. QED
    BY <1>4, <2>1
<1>5. CASE m = 0
  <2>1. Peak(t) = 0
    BY <1>4, <1>5 DEF Peak
  <2>2. \A i \in DOMAIN x : x[i] = 0
    BY <1>1, <1>5 DEF Abs
  <2>3. \A i \in DOMAIN x : t.q[i] \in Int
    <3>1. Clip(Round(0, 1)) \in Int
      <4>1. Round(0, 1) \in Int
        BY RoundNear
      <4>2. QED
        BY <4>1 DEF Clip
    <3>2. \A i \in DOMAIN x : t.q[i] = Clip(Round(0, 1))
      BY <1>4, <1>5, <2>2 DEF eps
    <3>3. QED
      BY <3>1, <3>2
  <2>4. t.q \in Seq(Int) /\ Len(t.q) = Len(x)
    <3>. DEFINE list == t.q
                len == Len(x)
    <3>1. list = [i \in 1 .. len |-> list[i]] /\ len \in Nat /\ \A i \in 1 .. len : list[i] \in Int
      BY <1>8, <2>3
    <3>. HIDE DEF list, len
    <3>2. list \in Seq(Int) /\ Len(list) = len
      BY <3>1, ListOf
    <3>3. QED
      BY <3>2 DEF list, len
  <2>5. \A i \in DOMAIN x : 2 * Abs(127 * x[i] - Peak(t) * t.q[i]) <= Peak(t)
    <3>1. \A z \in Int : 2 * Abs(127 * 0 - 0 * z) <= 0
      BY DEF Abs
    <3>2. QED
      BY <2>1, <2>2, <2>3, <3>1
  <2>6. QED
    BY <1>4, <2>1, <2>4, <2>5
<1>6. CASE m # 0
  <2>1. Peak(t) = m
    <3>1. t.scale = <<m, 127>>
      BY <1>4, <1>6
    <3>2. QED
      BY <3>1, PeakOf
  <2>2. /\ DOMAIN t.q = DOMAIN x
        /\ \A i \in DOMAIN x : t.q[i] = Clip(Round(x[i] * 127, m))
    BY <1>4, <1>6
  <2>3. \A i \in DOMAIN x : t.q[i] \in Int /\ 2 * Abs(127 * x[i] - m * t.q[i]) <= m
    BY <1>1, <1>6, <2>2, NothingClipped
  <2>4. t.q \in Seq(Int) /\ Len(t.q) = Len(x)
    <3>. DEFINE list == t.q
                len == Len(x)
    <3>1. list = [i \in 1 .. len |-> list[i]] /\ len \in Nat /\ \A i \in 1 .. len : list[i] \in Int
      BY <1>8, <2>3
    <3>. HIDE DEF list, len
    <3>2. list \in Seq(Int) /\ Len(list) = len
      BY <3>1, ListOf
    <3>3. QED
      BY <3>2 DEF list, len
  <2>5. QED
    BY <1>1, <1>4, <2>1, <2>3, <2>4
<1>7. QED
  BY <1>5, <1>6

\* x is within half a step of what q stands for; and f of g, where u and v are
\* the magnitudes of i entries.
OffBy(x, q, P) == 2 * Abs(127 * x - P * q) <= P
ProductOffBy(f, g, u, v, i, P, R) ==
  4 * Abs(127 * 127 * f - (P * R) * g) <= 2 * 127 * (u * R + v * P) + i * (P * R)

\* What one product of entries is off by.
LEMMA TermBound ==
  ASSUME NEW a \in Int, NEW b \in Int, NEW qa \in Int, NEW qb \in Int, NEW P \in Nat, NEW R \in Nat,
         OffBy(a, qa, P), OffBy(b, qb, R)
  PROVE  ProductOffBy(a * b, qa * qb, Abs(a), Abs(b), 1, P, R)
<1>. DEFINE du == 127 * a - P * qa
            dv == 127 * b - R * qb
            x == a * dv
            y == b * du
            z == du * dv
<1>1. P * qa \in Int /\ R * qb \in Int
  BY IntProduct
<1>2. du \in Int /\ dv \in Int
  BY <1>1
<1>3. 127 * 127 * (a * b) - (P * R) * (qa * qb) = 127 * x + 127 * y - z
  OBVIOUS
<1>. HIDE DEF du, dv
<1>4. /\ Abs(a) \in Nat /\ Abs(b) \in Nat /\ Abs(du) \in Nat /\ Abs(dv) \in Nat
      /\ 2 * Abs(du) <= P /\ 2 * Abs(dv) <= R
  BY <1>2, AbsFacts DEF du, dv, OffBy
<1>5. 2 * Abs(x) <= Abs(a) * R
  <2>1. Abs(x) = Abs(a) * Abs(dv)
    BY <1>2, AbsProduct
  <2>2. Abs(a) * (2 * Abs(dv)) <= Abs(a) * R
    <3>1. 2 * Abs(dv) \in Nat /\ Abs(a) <= Abs(a)
      BY <1>4
    <3>2. QED
      BY <1>4, <3>1, MonoProduct
  <2>3. Abs(a) * (2 * Abs(dv)) = 2 * (Abs(a) * Abs(dv))
    BY <1>4
  <2>4. QED
    BY <2>1, <2>2, <2>3
<1>6. 2 * Abs(y) <= Abs(b) * P
  <2>1. Abs(y) = Abs(b) * Abs(du)
    BY <1>2, AbsProduct
  <2>2. Abs(b) * (2 * Abs(du)) <= Abs(b) * P
    <3>1. 2 * Abs(du) \in Nat /\ Abs(b) <= Abs(b)
      BY <1>4
    <3>2. QED
      BY <1>4, <3>1, MonoProduct
  <2>3. Abs(b) * (2 * Abs(du)) = 2 * (Abs(b) * Abs(du))
    BY <1>4
  <2>4. QED
    BY <2>1, <2>2, <2>3
<1>7. 4 * Abs(z) <= P * R
  <2>1. Abs(z) = Abs(du) * Abs(dv)
    BY <1>2, AbsProduct
  <2>2. (2 * Abs(du)) * (2 * Abs(dv)) <= P * R
    <3>1. 2 * Abs(du) \in Nat /\ 2 * Abs(dv) \in Nat
      BY <1>4
    <3>2. QED
      BY <1>4, <3>1, MonoProduct
  <2>3. (2 * Abs(du)) * (2 * Abs(dv)) = 4 * (Abs(du) * Abs(dv))
    BY <1>4
  <2>4. QED
    BY <2>1, <2>2, <2>3
<1>8. x \in Int /\ y \in Int /\ z \in Int
  BY <1>2, IntProduct
<1>9. Abs(a) * R \in Int /\ Abs(b) * P \in Int /\ P * R \in Int
  BY <1>4, ProductsAreNat
<1>10. ASSUME NEW A \in Int, NEW B \in Int, NEW C \in Int,
             2 * Abs(x) <= A, 2 * Abs(y) <= B, 4 * Abs(z) <= C
       PROVE 4 * Abs(127 * x + 127 * y - z) <= 2 * 127 * (A + B) + C
  <2>. HIDE DEF x, y, z
  <2>1. QED
    BY <1>8, <1>10 DEF Abs
<1>. HIDE DEF x, y, z
<1>11. 4 * Abs(127 * x + 127 * y - z) <= 2 * 127 * (Abs(a) * R + Abs(b) * P) + P * R
  BY <1>5, <1>6, <1>7, <1>9, <1>10
<1>12. P * R = 1 * (P * R)
  BY <1>9
<1>13. QED
  BY <1>3, <1>11, <1>12 DEF ProductOffBy

\* One term more of the sums.
LEMMA BoundStep ==
  ASSUME NEW f \in Int, NEW g \in Int, NEW u \in Int, NEW v \in Int, NEW i \in Nat,
         NEW P \in Nat, NEW R \in Nat, NEW x \in Int, NEW y \in Int, NEW a \in Nat, NEW b \in Nat,
         ProductOffBy(f, g, u, v, i, P, R),
         ProductOffBy(x, y, a, b, 1, P, R)
  PROVE  ProductOffBy(f + x, g + y, u + a, v + b, i + 1, P, R)
<1>. DEFINE s == P * R
            sg == s * g
            sy == s * y
            ur == u * R + v * P
            ar == a * R + b * P
            is == i * s
<1>1. s \in Nat /\ sg \in Int /\ sy \in Int /\ ur \in Int /\ ar \in Int /\ is \in Int
  <2>1. s \in Nat
    BY ProductsAreNat
  <2>2. /\ u * R \in Int /\ v * P \in Int /\ a * R \in Int /\ b * P \in Int
    BY IntProduct
  <2>. HIDE DEF s
  <2>3. sg \in Int /\ sy \in Int /\ is \in Int
    BY <2>1, IntProduct
  <2>4. QED
    BY <2>1, <2>2, <2>3
<1>2. (u + a) * R + (v + b) * P = ur + ar
  OBVIOUS
<1>. HIDE DEF s
<1>3. s * (g + y) = sg + sy /\ (i + 1) * s = is + s
  BY <1>1
<1>4. /\ 4 * Abs(127 * 127 * f - sg) <= 2 * 127 * ur + is
      /\ 4 * Abs(127 * 127 * x - sy) <= 2 * 127 * ar + 1 * s
  BY DEF s, ProductOffBy
<1>. HIDE DEF sg, sy, ur, ar, is
<1>5. 4 * Abs(127 * 127 * (f + x) - (sg + sy)) <= 2 * 127 * (ur + ar) + (is + s)
  BY <1>1, <1>4 DEF Abs
<1>6. QED
  BY <1>2, <1>3, <1>5 DEF s, ProductOffBy

SumsBy(f, list, top) ==
  /\ f \in [0 .. top -> Int] /\ f[0] = 0 /\ SumOf(list) = f[top]
  /\ \A i \in 1 .. top : f[i] = f[i - 1] + list[i]

LEMMA SumRunTo ==
  ASSUME NEW top \in Nat, NEW list \in Seq(Int), Len(list) = top
  PROVE  \E f : SumsBy(f, list, top)
BY SumRun DEF SumsBy

\* Every entry of x is within half a step of what q stands for.
Halves(x, q, P) == \A i \in DOMAIN x : OffBy(x[i], q[i], P)

\* The product of two quantised vectors of any length.
LEMMA ProductBound ==
  ASSUME NEW x \in Seq(Int), NEW y \in Seq(Int), NEW qx \in Seq(Int), NEW qy \in Seq(Int),
         Len(y) = Len(x), Len(qx) = Len(x), Len(qy) = Len(x), NEW P \in Nat, NEW R \in Nat,
         Halves(x, qx, P), Halves(y, qy, R)
  PROVE  ProductOffBy(Dot(x, y), Dot(qx, qy), SumOf([i \in DOMAIN x |-> Abs(x[i])]),
                SumOf([i \in DOMAIN y |-> Abs(y[i])]), Len(x), P, R)
<1>. DEFINE top == Len(x)
            xy == [i \in 1 .. top |-> x[i] * y[i]]
            qq == [i \in 1 .. top |-> qx[i] * qy[i]]
            ax == [i \in 1 .. top |-> Abs(x[i])]
            ay == [i \in 1 .. top |-> Abs(y[i])]
<1>1. /\ top \in Nat /\ DOMAIN x = 1 .. top /\ DOMAIN y = 1 .. top /\ DOMAIN qx = 1 .. top
      /\ \A i \in 1 .. top : x[i] \in Int /\ y[i] \in Int /\ qx[i] \in Int /\ qy[i] \in Int
  <2>1. \A q \in Seq(Int) : Len(q) \in Nat /\ DOMAIN q = 1 .. Len(q) /\ \A i \in 1 .. Len(q) : q[i] \in Int
    OBVIOUS
  <2>2. QED
    BY <2>1
<1>2. Dot(x, y) = SumOf(xy) /\ Dot(qx, qy) = SumOf(qq)
  BY <1>1 DEF Dot
<1>. HIDE DEF top
<1>3. /\ \A i \in 1 .. top : x[i] * y[i] \in Int /\ qx[i] * qy[i] \in Int
      /\ \A i \in 1 .. top : Abs(x[i]) \in Nat /\ Abs(y[i]) \in Nat
  BY <1>1, IntProduct, AbsFacts
<1>4. /\ xy \in Seq(Int) /\ qq \in Seq(Int) /\ ax \in Seq(Int) /\ ay \in Seq(Int)
      /\ Len(xy) = top /\ Len(qq) = top /\ Len(ax) = top /\ Len(ay) = top
  BY <1>1, <1>3
<1>5. \A i \in 1 .. top : /\ xy[i] = x[i] * y[i] /\ qq[i] = qx[i] * qy[i]
                            /\ ax[i] = Abs(x[i]) /\ ay[i] = Abs(y[i])
  OBVIOUS
<1>. HIDE DEF xy, qq, ax, ay
<1>6. PICK f : SumsBy(f, xy, top)
  BY <1>1, <1>4, SumRunTo
<1>7. PICK g : SumsBy(g, qq, top)
  BY <1>1, <1>4, SumRunTo
<1>8. PICK u : SumsBy(u, ax, top)
  BY <1>1, <1>4, SumRunTo
<1>9. PICK v : SumsBy(v, ay, top)
  BY <1>1, <1>4, SumRunTo
<1>. DEFINE Near(i) == ProductOffBy(f[i], g[i], u[i], v[i], i, P, R)
            Good == {i \in 0 .. top : Near(i)}
<1>10. 0 \in Good
  <2>1. \A s \in Int : s * 0 = 0 /\ 0 * s = 0
    OBVIOUS
  <2>2. P * R \in Int
    BY IntProduct
  <2>3. Near(0)
    BY <1>6, <1>7, <1>8, <1>9, <2>1, <2>2 DEF Abs, ProductOffBy, SumsBy
  <2>4. QED
    BY <1>1, <2>3
<1>11. ASSUME NEW i \in 0 .. top - 1, i \in Good PROVE i + 1 \in Good
  <2>1. i + 1 \in 1 .. top /\ (i + 1) - 1 = i /\ i + 1 \in 0 .. top /\ i \in 0 .. top /\ i \in Nat
    BY <1>1
  <2>. DEFINE j == i + 1
  <2>2. /\ f[j] = f[i] + x[j] * y[j] /\ g[j] = g[i] + qx[j] * qy[j]
        /\ u[j] = u[i] + Abs(x[j]) /\ v[j] = v[i] + Abs(y[j])
    BY <1>5, <1>6, <1>7, <1>8, <1>9, <2>1 DEF SumsBy
  <2>3. f[i] \in Int /\ g[i] \in Int /\ u[i] \in Int /\ v[i] \in Int
    BY <1>6, <1>7, <1>8, <1>9, <2>1 DEF SumsBy
  <2>4. /\ x[j] \in Int /\ y[j] \in Int /\ qx[j] \in Int /\ qy[j] \in Int
        /\ x[j] * y[j] \in Int /\ qx[j] * qy[j] \in Int /\ Abs(x[j]) \in Nat /\ Abs(y[j]) \in Nat
    BY <1>1, <1>3, <2>1
  <2>5. OffBy(x[j], qx[j], P) /\ OffBy(y[j], qy[j], R)
    BY <1>1, <2>1 DEF Halves
  <2>6. ProductOffBy(x[j] * y[j], qx[j] * qy[j], Abs(x[j]), Abs(y[j]), 1, P, R)
    BY <2>4, <2>5, TermBound
  <2>. DEFINE xj == x[j] * y[j]
              qj == qx[j] * qy[j]
              aj == Abs(x[j])
              bj == Abs(y[j])
              fi == f[i]
              gi == g[i]
              ui == u[i]
              vi == v[i]
  <2>7. /\ ProductOffBy(fi, gi, ui, vi, i, P, R)
        /\ ProductOffBy(xj, qj, aj, bj, 1, P, R)
        /\ fi \in Int /\ gi \in Int /\ ui \in Int /\ vi \in Int
        /\ xj \in Int /\ qj \in Int /\ aj \in Nat /\ bj \in Nat
    BY <1>11, <2>3, <2>4, <2>6
  <2>8. f[j] = fi + xj /\ g[j] = gi + qj /\ u[j] = ui + aj /\ v[j] = vi + bj
    BY <2>2
  <2>. HIDE DEF xj, qj, aj, bj, fi, gi, ui, vi
  <2>9. ProductOffBy(fi + xj, gi + qj, ui + aj, vi + bj, i + 1, P, R)
    BY <2>1, <2>7, BoundStep
  <2>10. Near(j)
    BY <2>8, <2>9
  <2>11. QED
    BY <2>1, <2>10
<1>. HIDE DEF Good
<1>12. \A i \in 0 .. top : i \in Good
  BY <1>1, <1>10, <1>11, UpTo
<1>13. Near(top)
  BY <1>1, <1>12 DEF Good
<1>14. QED
  <2>1. ProductOffBy(SumOf(xy), SumOf(qq), SumOf(ax), SumOf(ay), top, P, R)
    BY <1>6, <1>7, <1>8, <1>9, <1>13 DEF SumsBy
  <2>2. ax = [i \in DOMAIN x |-> Abs(x[i])] /\ ay = [i \in DOMAIN y |-> Abs(y[i])]
    BY <1>1 DEF ax, ay
  <2>3. QED
    BY <1>2, <2>1, <2>2 DEF top

-----------------------------------------------------------------------------
\* A product is of two tensors of one length, the second with its own scale.
QuantInv ==
  \/ product = <<>> \/ product = <<"ValueError">>
  \/ \E a, b \in QuantTensors, scale \in GivenScales :
       LET qa == quantize_symmetric_int8(a, scale)
           qb == quantize_symmetric_int8(b, {})
       IN Len(a) = Len(b) /\ product = <<"product", qa, qb, Dot(qa.q, qb.q)>>

LEMMA QuantStarts == QuantInit => QuantInv
BY DEF QuantInit, QuantInv

LEMMA QuantStep == QuantInv /\ [QuantizeAndMultiply]_product => QuantInv'
<1> SUFFICES ASSUME QuantInv, [QuantizeAndMultiply]_product PROVE QuantInv'
  OBVIOUS
<1>1. CASE QuantizeAndMultiply
  BY <1>1 DEF QuantizeAndMultiply, QuantInv
<1>2. CASE UNCHANGED product
  BY <1>2 DEF QuantInv
<1> QED BY <1>1, <1>2

LEMMA QuantBounded ==
  ASSUME QuantInv
  PROVE  QuantErrorBounded
<1>1. SUFFICES ASSUME product # <<>>, product[1] = "product", product[2].derived
      PROVE  LET a == product[2] b == product[3] c32 == product[4]
             IN /\ \A t \in {a, b} : \A i \in DOMAIN t.x :
                     2 * Abs(127 * t.x[i] - Peak(t) * t.q[i]) <= Peak(t)
                /\ 4 * Abs(127 * 127 * Dot(a.x, b.x) - Peak(a) * Peak(b) * c32)
                     <= 2 * 127 * (Mags(a) * Peak(b) + Mags(b) * Peak(a)) + Len(a.x) * Peak(a) * Peak(b)
  BY DEF QuantErrorBounded
<1>2. product # <<"ValueError">>
  BY <1>1
<1>3. PICK x \in QuantTensors, y \in QuantTensors, scale \in GivenScales :
        /\ Len(x) = Len(y)
        /\ product = <<"product", quantize_symmetric_int8(x, scale), quantize_symmetric_int8(y, {}),
                       Dot(quantize_symmetric_int8(x, scale).q, quantize_symmetric_int8(y, {}).q)>>
  BY <1>1, <1>2 DEF QuantInv
<1>. DEFINE a == quantize_symmetric_int8(x, {})
            b == quantize_symmetric_int8(y, {})
<1>4. scale = {}
  <2>1. quantize_symmetric_int8(x, scale).derived
    BY <1>1, <1>3
  <2>2. QED
    BY <2>1 DEF quantize_symmetric_int8
<1>5. product[2] = a /\ product[3] = b /\ product[4] = Dot(a.q, b.q)
  BY <1>3, <1>4
<1>6. x \in Seq(Int) /\ y \in Seq(Int)
  BY QuantAssumption
<1>7. /\ a.x = x /\ a.q \in Seq(Int) /\ Len(a.q) = Len(x) /\ Peak(a) \in Nat
      /\ \A i \in DOMAIN x : 2 * Abs(127 * x[i] - Peak(a) * a.q[i]) <= Peak(a)
  BY <1>6, QuantisedEntries
<1>8. /\ b.x = y /\ b.q \in Seq(Int) /\ Len(b.q) = Len(y) /\ Peak(b) \in Nat
      /\ \A i \in DOMAIN y : 2 * Abs(127 * y[i] - Peak(b) * b.q[i]) <= Peak(b)
  BY <1>6, QuantisedEntries
<1>. HIDE DEF a, b
<1>9. ProductOffBy(Dot(x, y), Dot(a.q, b.q), SumOf([i \in DOMAIN x |-> Abs(x[i])]),
             SumOf([i \in DOMAIN y |-> Abs(y[i])]), Len(x), Peak(a), Peak(b))
  <2>1. Len(y) = Len(x) /\ Len(a.q) = Len(x) /\ Len(b.q) = Len(x)
    BY <1>3, <1>7, <1>8
  <2>2. Halves(x, a.q, Peak(a)) /\ Halves(y, b.q, Peak(b))
    BY <1>7, <1>8 DEF Halves, OffBy
  <2>3. QED
    BY <1>6, <1>7, <1>8, <2>1, <2>2, ProductBound
<1>10. Mags(a) = SumOf([i \in DOMAIN x |-> Abs(x[i])]) /\ Mags(b) = SumOf([i \in DOMAIN y |-> Abs(y[i])])
  BY <1>7, <1>8 DEF Mags
<1>11. Len(x) * (Peak(a) * Peak(b)) = Len(x) * Peak(a) * Peak(b)
  <2>1. Len(x) \in Nat
    BY <1>6
  <2>2. QED
    BY <1>7, <1>8, <2>1
<1>12. 4 * Abs(127 * 127 * Dot(a.x, b.x) - Peak(a) * Peak(b) * Dot(a.q, b.q))
        <= 2 * 127 * (Mags(a) * Peak(b) + Mags(b) * Peak(a)) + Len(a.x) * Peak(a) * Peak(b)
  BY <1>7, <1>8, <1>9, <1>10, <1>11 DEF ProductOffBy
<1>13. \A t \in {a, b} : \A i \in DOMAIN t.x : 2 * Abs(127 * t.x[i] - Peak(t) * t.q[i]) <= Peak(t)
  BY <1>7, <1>8
<1>14. QED
  BY <1>5, <1>12, <1>13

\* An entry of a quantised tensor errs by half a step at most, and the product of
\* two by no more than that allows, for vectors of any length and any entries.
THEOREM QuantErrors == QuantSpec => []QuantErrorBounded
<1>1. QuantSpec => []QuantInv
  BY QuantStarts, QuantStep, PTL DEF QuantSpec
<1>2. QuantInv => QuantErrorBounded
  BY QuantBounded
<1> QED BY <1>1, <1>2, PTL
=============================================================================
