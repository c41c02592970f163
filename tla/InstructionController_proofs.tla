-------------------- MODULE InstructionController_proofs --------------------
(***************************************************************************)
(* What the two engines rest on: the controller's safety invariants, for   *)
(* every size of its memory and every width of its registers, under a host *)
(* that drives every input freely (the four together are inductive), the   *)
(* arithmetic of the tile, and induction over natural numbers, with which  *)
(* the value of a recursive function can be reasoned about.                *)
(***************************************************************************)
EXTENDS InstructionController, TileMath, WellFoundedInduction, TLAPS

ControllerInv ==
  ControllerTypeOK /\ StrobesOnlyInRun /\ PcNeverWraps /\ RunsProgramMemory

\* A memory index is a slot, whatever the address.
LEMMA IdxInSlot ==
  ASSUME NEW addr \in Nat
  PROVE  Idx(addr) \in Slot
BY ControllerAssumption DEF Idx, Slot

\* A stored or fetched cycle count is at least one and keeps its width.
LEMMA NormalizedCycles ==
  ASSUME NEW raw \in CycleCount
  PROVE  NormalizeCycles(raw) \in CycleCount /\ NormalizeCycles(raw) > 0
BY ControllerAssumption DEF NormalizeCycles, CycleCount

\* What the write port carries fits the memories.
PortOK(w) == w.we => w.addr \in PcValue /\ w.op \in Opcode /\ w.cycles \in CycleCount

LEMMA ProgramPortOK ==
  ASSUME NEW w \in ProgramPort
  PROVE  PortOK(w)
<1>1. SUFFICES ASSUME w.we PROVE w.addr \in PcValue /\ w.op \in Opcode /\ w.cycles \in CycleCount
  BY DEF PortOK
<1>2. ~NoProgramWrite.we
  BY DEF NoProgramWrite
<1>3. w \in [we : {TRUE}, addr : PcValue, op : HostOpcodes, cycles : HostCycles]
  BY <1>1, <1>2 DEF ProgramPort
<1>4. w.addr \in PcValue /\ w.op \in HostOpcodes /\ w.cycles \in HostCycles
  BY <1>3
<1>5. QED
  BY <1>4, ControllerAssumption

\* The write port changes the memories only between runs, and within their types.
LEMMA ProgramWriteEffect ==
  ASSUME ControllerTypeOK, NEW w, PortOK(w), ProgramWrite(w)
  PROVE  /\ opcode_mem' \in [Slot -> Opcode] /\ cycles_mem' \in [Slot -> CycleCount]
         /\ busy => opcode_mem' = opcode_mem /\ cycles_mem' = cycles_mem
<1>1. CASE WriteAccepted(w)
  <2>1. w.we /\ ~busy
    BY <1>1 DEF WriteAccepted
  <2>2. w.op \in Opcode /\ NormalizeCycles(w.cycles) \in CycleCount
    BY <2>1, NormalizedCycles DEF PortOK
  <2>3. QED
    BY <1>1, <2>1, <2>2 DEF ProgramWrite, ControllerTypeOK
<1>2. CASE ~WriteAccepted(w)
  BY <1>2 DEF ProgramWrite, ControllerTypeOK, programVars
<1>3. QED
  BY <1>1, <1>2

\* The fetches of StartProgram and Advance yield an opcode and a positive count.
LEMMA Fetch ==
  ASSUME ControllerTypeOK, NEW addr \in Nat
  PROVE  /\ opcode_mem[Idx(addr)] \in Opcode
         /\ NormalizeCycles(cycles_mem[Idx(addr)]) \in CycleCount
         /\ NormalizeCycles(cycles_mem[Idx(addr)]) > 0
BY IdxInSlot, NormalizedCycles DEF ControllerTypeOK

LEMMA SlotZero == 0 \in Slot /\ Idx(0) = 0
BY ControllerAssumption DEF Slot, Idx

\* The reset values fit their registers.
LEMMA Zeros ==
  /\ 0 \in PcValue /\ 0 \in CycleCount /\ 1 \in CycleCount /\ 0 \in 0 .. GlobalSpan - 1
  /\ "NOP" \in Opcode
BY ControllerAssumption DEF PcValue, CycleCount, Opcode

\* One clock edge of both halves keeps the invariant.
LEMMA ClockInv ==
  ASSUME ControllerInv, NEW w, PortOK(w), ProgramWrite(w),
         NEW start \in BOOLEAN, SequencerEdge(start), program_len' \in PcValue
  PROVE  ControllerInv'
<1> USE DEF ControllerInv
<1>1. opcode_mem' \in [Slot -> Opcode] /\ cycles_mem' \in [Slot -> CycleCount]
  BY ProgramWriteEffect
<1>2. Count => global_cycle' \in 0 .. GlobalSpan - 1
  BY ControllerAssumption DEF Count, ControllerTypeOK
<1>3. PcSpan \in Nat /\ CyclesSpan \in Nat /\ CyclesSpan > 1 /\ GlobalSpan \in Nat \ {0}
  BY ControllerAssumption
<1>4. CASE StartEmpty(start)
  <2>1. ControllerTypeOK'
    BY <1>1, <1>4, Zeros DEF StartEmpty, ControllerTypeOK
  <2>2. StrobesOnlyInRun' /\ PcNeverWraps' /\ RunsProgramMemory'
    BY <1>4 DEF StartEmpty, StrobesOnlyInRun, PcNeverWraps, RunsProgramMemory
  <2>3. QED
    BY <2>1, <2>2
<1>5. CASE StartProgram(start)
  <2>1. /\ opcode_mem[0] \in Opcode
        /\ NormalizeCycles(cycles_mem[0]) \in CycleCount
        /\ NormalizeCycles(cycles_mem[0]) > 0
    BY Fetch, SlotZero
  <2>2. 1 < PcSpan
    BY <1>3, <1>5 DEF StartProgram, ControllerTypeOK, PcValue
  <2>3. ControllerTypeOK'
    BY <1>1, <1>5, <2>1, Zeros DEF StartProgram, ControllerTypeOK
  <2>4. StrobesOnlyInRun' /\ PcNeverWraps' /\ RunsProgramMemory'
    BY <1>5, <2>1, <2>2 DEF StartProgram, StrobesOnlyInRun, PcNeverWraps, RunsProgramMemory
  <2>5. QED
    BY <2>3, <2>4
<1>6. CASE Hold
  <2>1. opcode_mem' = opcode_mem /\ cycles_mem' = cycles_mem
    BY <1>6, ProgramWriteEffect DEF Hold
  <2>2. cycles_left' \in CycleCount /\ cycles_left' > 0 /\ cycles_left' <= cycles_left
    BY <1>3, <1>6 DEF Hold, ControllerTypeOK, CycleCount
  <2>3. ControllerTypeOK' /\ StrobesOnlyInRun' /\ PcNeverWraps'
    BY <1>1, <1>2, <1>6, <2>2 DEF Hold, ControllerTypeOK, StrobesOnlyInRun, PcNeverWraps, CycleCount
  <2>4. RunsProgramMemory'
    <3>1. SUFFICES ASSUME busy' /\ pc' > 0
                   PROVE  /\ opcode' = opcode_mem[Idx(pc)]
                          /\ cycles_left' <= NormalizeCycles(cycles_mem[Idx(pc)])
      BY <1>6, <2>1 DEF RunsProgramMemory, Hold, Idx, NormalizeCycles
    <3>2. NormalizeCycles(cycles_mem[Idx(pc)]) \in CycleCount
      BY Fetch DEF ControllerTypeOK, PcValue
    <3>3. cycles_left <= NormalizeCycles(cycles_mem[Idx(pc)]) /\ opcode = opcode_mem[Idx(pc)]
      BY <1>6, <3>1 DEF RunsProgramMemory, Hold
    <3>4. cycles_left \in CycleCount
      BY DEF ControllerTypeOK
    <3>5. QED
      BY <1>3, <1>6, <2>2, <3>2, <3>3, <3>4 DEF Hold, CycleCount
  <2>5. QED
    BY <2>3, <2>4
<1>7. CASE Advance
  <2>1. opcode_mem' = opcode_mem /\ cycles_mem' = cycles_mem
    BY <1>7, ProgramWriteEffect DEF Advance
  <2>2. NextPc \in PcValue /\ NextPc + 1 < PcSpan
    BY <1>3, <1>7 DEF NextPc, Advance, MoreToRun, ControllerTypeOK, PcValue
  <2>3. /\ opcode_mem[Idx(NextPc)] \in Opcode
        /\ NormalizeCycles(cycles_mem[Idx(NextPc)]) \in CycleCount
        /\ NormalizeCycles(cycles_mem[Idx(NextPc)]) > 0
    BY <2>2, Fetch DEF PcValue
  <2>4. ControllerTypeOK' /\ StrobesOnlyInRun' /\ PcNeverWraps'
    BY <1>1, <1>2, <1>7, <2>2, <2>3 DEF Advance, ControllerTypeOK, StrobesOnlyInRun,
       PcNeverWraps
  <2>5. RunsProgramMemory'
    BY <1>3, <1>7, <2>1, <2>3 DEF Advance, RunsProgramMemory, Idx, NormalizeCycles, CycleCount
  <2>6. QED
    BY <2>4, <2>5
<1>8. CASE Finish
  <2>1. ControllerTypeOK'
    BY <1>1, <1>2, <1>8, Zeros DEF Finish, ControllerTypeOK
  <2>2. StrobesOnlyInRun' /\ PcNeverWraps' /\ RunsProgramMemory'
    BY <1>8 DEF Finish, StrobesOnlyInRun, PcNeverWraps, RunsProgramMemory
  <2>3. QED
    BY <2>1, <2>2
<1>9. CASE Rest(start)
  BY <1>1, <1>9 DEF Rest, ControllerTypeOK, StrobesOnlyInRun,
     PcNeverWraps, RunsProgramMemory
<1>10. QED
  BY <1>4, <1>5, <1>6, <1>7, <1>8, <1>9 DEF SequencerEdge

LEMMA ResetInv ==
  ASSUME ControllerReset, program_len' \in PcValue
  PROVE  ControllerInv'
<1>1. ControllerTypeOK'
  BY Zeros DEF ControllerReset, ControllerTypeOK
<1>2. StrobesOnlyInRun' /\ PcNeverWraps' /\ RunsProgramMemory'
  BY DEF ControllerReset, StrobesOnlyInRun, PcNeverWraps, RunsProgramMemory
<1>3. QED
  BY <1>1, <1>2 DEF ControllerInv

LEMMA InitInv ==
  ASSUME ControllerInit, program_len \in PcValue
  PROVE  ControllerInv
<1>1. ControllerTypeOK
  BY Zeros DEF ControllerInit, ProgramInit, SequencerInit, ControllerTypeOK
<1>2. StrobesOnlyInRun /\ PcNeverWraps /\ RunsProgramMemory
  BY DEF ControllerInit, SequencerInit, StrobesOnlyInRun, PcNeverWraps, RunsProgramMemory
<1>3. QED
  BY <1>1, <1>2 DEF ControllerInv

LEMMA StutterInv ==
  ASSUME ControllerInv, UNCHANGED ctrlVars
  PROVE  ControllerInv'
BY DEF ctrlVars, programVars, sequencerVars, ControllerInv, ControllerTypeOK,
   StrobesOnlyInRun, PcNeverWraps, RunsProgramMemory, Idx, NormalizeCycles

-----------------------------------------------------------------------------
\* The controller, for any host, any memory size and any register widths, keeps
\* its inductive invariant.
THEOREM ControllerInvariance == CtrlSpec => []ControllerInv
<1>. HostLengths \subseteq PcValue
  BY ControllerAssumption
<1>1. CtrlInit => ControllerInv
  BY InitInv DEF CtrlInit
<1>2. ControllerInv /\ [CtrlNext]_ctrlVars => ControllerInv'
  BY ClockInv, ProgramPortOK, ResetInv, StutterInv DEF CtrlNext, CtrlClock, CtrlReset
<1>3. QED
  BY <1>1, <1>2, PTL DEF CtrlSpec

\* Every register keeps its width: rtl/instruction_controller.sv never needs the
\* wrap of pc or the truncation of an out-of-range slot to stay in range.
THEOREM ControllerTypeCorrect == CtrlSpec => []ControllerTypeOK
BY ControllerInvariance, PTL DEF ControllerInv

\* Instruction strobes are raised exactly during a run.
THEOREM ControllerStrobes == CtrlSpec => []StrobesOnlyInRun
BY ControllerInvariance, PTL DEF ControllerInv

\* The increment of pc never wraps in a run, although program_len_i is live.
THEOREM ControllerPcBound == CtrlSpec => []PcNeverWraps
BY ControllerInvariance, PTL DEF ControllerInv

\* A run past slot 0 executes the slot the memory holds.
THEOREM ControllerRunsMemory == CtrlSpec => []RunsProgramMemory
BY ControllerInvariance, PTL DEF ControllerInv

\* Stored cycle counts are normalized, so a fetch takes them as they are.
CyclesPositive == \A s \in Slot : cycles_mem[s] > 0

\* A write stores a positive count.
LEMMA WriteKeepsPositive ==
  ASSUME ControllerTypeOK, CyclesPositive, NEW w, PortOK(w), ProgramWrite(w)
  PROVE  CyclesPositive'
<1>1. CASE WriteAccepted(w)
  <2>1. NormalizeCycles(w.cycles) > 0
    BY <1>1, NormalizedCycles DEF PortOK, WriteAccepted
  <2>2. QED
    BY <1>1, <2>1 DEF ProgramWrite, CyclesPositive, ControllerTypeOK
<1>2. CASE ~WriteAccepted(w)
  BY <1>2 DEF ProgramWrite, programVars, CyclesPositive
<1>3. QED
  BY <1>1, <1>2

-----------------------------------------------------------------------------
(* The arithmetic of the tile.                                            *)

\* The cleared tile, as an operand and as an accumulator.
LEMMA ZeroTile == Zero \in Tile /\ Zero \in Acc
<1>1. AccSpan \in Nat \ {0}
  BY AccAssumption
<1>2. QED
  BY <1>1 DEF Zero, Tile, Acc, Int8

\* The products of two tiles are integers.
LEMMA ProductInt ==
  ASSUME NEW a \in Tile, NEW b \in Tile, NEW ij \in Cell
  PROVE  Product(a, b)[ij] \in Int
<1>1. ij[1] \in 0 .. 1 /\ ij[2] \in 0 .. 1
  BY DEF Cell
<1>2. /\ <<ij[1], 0>> \in Cell /\ <<ij[1], 1>> \in Cell
      /\ <<0, ij[2]>> \in Cell /\ <<1, ij[2]>> \in Cell
  BY <1>1 DEF Cell
<1>3. /\ a[<<ij[1], 0>>] \in Int /\ a[<<ij[1], 1>>] \in Int
      /\ b[<<0, ij[2]>>] \in Int /\ b[<<1, ij[2]>>] \in Int
  <2>1. \A x \in Cell : a[x] \in Int8 /\ b[x] \in Int8
    BY DEF Tile
  <2>2. Int8 \subseteq Int
    BY DEF Int8
  <2>3. QED
    BY <1>2, <2>1, <2>2
<1>4. a[<<ij[1], 0>>] * b[<<0, ij[2]>>] + a[<<ij[1], 1>>] * b[<<1, ij[2]>>] \in Int
  BY <1>3
<1>5. QED
  BY <1>4 DEF Product

\* An accumulator keeps its width, for any number of clocks.
LEMMA AccumulateType ==
  ASSUME NEW acc \in Acc, NEW a \in Tile, NEW b \in Tile, NEW n \in Nat
  PROVE  Accumulate(acc, a, b, n) \in Acc
<1>1. AccSpan \in Nat \ {0}
  BY AccAssumption
<1>2. ASSUME NEW ij \in Cell
      PROVE  (acc[ij] + n * Product(a, b)[ij]) % AccSpan \in 0 .. AccSpan - 1
  <2>1. acc[ij] \in Int
    BY <1>1 DEF Acc
  <2>2. acc[ij] + n * Product(a, b)[ij] \in Int
    BY <2>1, ProductInt
  <2>3. QED
    BY <1>1, <2>2
<1>3. QED
  BY <1>2 DEF Accumulate, Acc

\* No clock adds nothing.
LEMMA AccumulateNone ==
  ASSUME NEW acc \in Acc, NEW a \in Tile, NEW b \in Tile
  PROVE  Accumulate(acc, a, b, 0) = acc
<1>1. AccSpan \in Nat \ {0}
  BY AccAssumption
<1>2. \A x \in 0 .. AccSpan - 1 : x % AccSpan = x
  BY <1>1
<1>3. ASSUME NEW ij \in Cell PROVE (acc[ij] + 0 * Product(a, b)[ij]) % AccSpan = acc[ij]
  <2>1. acc[ij] \in 0 .. AccSpan - 1 /\ Product(a, b)[ij] \in Int
    BY ProductInt DEF Acc
  <2>2. acc[ij] + 0 * Product(a, b)[ij] = acc[ij]
    BY <1>1, <2>1
  <2>3. QED
    BY <1>2, <2>1, <2>2
<1>4. Accumulate(acc, a, b, 0) = [ij \in Cell |-> acc[ij]]
  BY <1>3 DEF Accumulate
<1>5. QED
  BY <1>4 DEF Acc

-----------------------------------------------------------------------------
(* Numbers and iteration, for the sequences a program goes through.      *)

\* A set of natural numbers has a least one.
LEMMA LeastNat ==
  ASSUME NEW T \in SUBSET Nat, T # {}
  PROVE  \E x \in T : \A y \in T : x <= y
<1>1. \E x \in T : \A y \in T : ~ (<<y, x>> \in OpToRel(<, Nat))
  BY NatLessThanWellFounded, WFMin
<1>2. PICK x \in T : \A y \in T : ~ (<<y, x>> \in OpToRel(<, Nat))
  BY <1>1
<1>3. \A y \in T : ~ (y < x)
  BY <1>2 DEF OpToRel
<1>4. QED
  BY <1>3

\* A set that holds 0 and, below n, with a number its successor, holds 0 .. n.
LEMMA UpTo ==
  ASSUME NEW n \in Nat, NEW S, 0 \in S, \A i \in 0 .. n - 1 : i \in S => i + 1 \in S
  PROVE  \A i \in 0 .. n : i \in S
<1>. DEFINE M == {i \in 0 .. n : i \notin S}
<1>1. SUFFICES ASSUME M # {} PROVE FALSE
  OBVIOUS
<1>2. M \in SUBSET Nat
  OBVIOUS
<1>3. PICK x \in M : \A y \in M : x <= y
  <2>. HIDE DEF M
  <2>. QED BY <1>1, <1>2, LeastNat
<1>4. x # 0 /\ x - 1 \in 0 .. n - 1 /\ (x - 1) + 1 = x /\ ~(x <= x - 1)
  OBVIOUS
<1>5. x - 1 \in S
  BY <1>3, <1>4
<1>6. QED
  BY <1>4, <1>5

\* f goes from base through n steps.
Iterates(f, n, base, step) == f[0] = base /\ \A i \in 1 .. n : f[i] = step[i][f[i - 1]]

\* A step function can be iterated n times.
LEMMA Iterated ==
  ASSUME NEW n \in Nat, NEW S, NEW base \in S, NEW step \in [(1 .. n) -> [S -> S]]
  PROVE  \E f \in [0 .. n -> S] : Iterates(f, n, base, step)
<1>. DEFINE Good(f, k) == f[0] = base /\ \A i \in 1 .. k : f[i] = step[i][f[i - 1]]
           Done == {k \in 0 .. n : \E f \in [0 .. k -> S] : Good(f, k)}
<1>1. \E f \in [0 .. 0 -> S] : Good(f, 0)
  <2>. DEFINE f == [i \in 0 .. 0 |-> base]
  <2>1. f \in [0 .. 0 -> S]
    OBVIOUS
  <2>2. f[0] = base /\ \A i \in 1 .. 0 : f[i] = step[i][f[i - 1]]
    OBVIOUS
  <2>. HIDE DEF f
  <2>3. QED
    BY <2>1, <2>2
<1>2. ASSUME NEW k \in 0 .. n - 1, \E f \in [0 .. k -> S] : Good(f, k)
      PROVE  \E g \in [0 .. k + 1 -> S] : Good(g, k + 1)
  <2>1. PICK f \in [0 .. k -> S] : Good(f, k)
    BY <1>2
  <2>. DEFINE g == [i \in 0 .. k + 1 |-> IF i <= k THEN f[i] ELSE step[i][f[k]]]
  <2>2. k \in Nat /\ k + 1 \in 1 .. n /\ f[k] \in S /\ step[k + 1] \in [S -> S]
    OBVIOUS
  <2>3. \A i \in 0 .. k + 1 : g[i] \in S
    <3>1. ASSUME NEW i \in 0 .. k + 1, i <= k PROVE g[i] \in S
      BY <2>2, <3>1
    <3>2. g[k + 1] = step[k + 1][f[k]]
      BY <2>2
    <3>3. step[k + 1][f[k]] \in S
      BY <2>2
    <3>4. \A i \in 0 .. k + 1 : i <= k \/ i = k + 1
      BY <2>2
    <3>5. QED
      BY <3>1, <3>2, <3>3, <3>4
  <2>4. g \in [0 .. k + 1 -> S]
    <3>1. g = [i \in 0 .. k + 1 |-> g[i]]
      OBVIOUS
    <3>. HIDE DEF g
    <3>2. QED
      BY <2>3, <3>1
  <2>5. g[0] = base
    BY <2>1, <2>2
  <2>6. \A i \in 1 .. k + 1 : g[i] = step[i][g[i - 1]]
    <3>1. ASSUME NEW i \in 1 .. k + 1, i <= k PROVE g[i] = step[i][g[i - 1]]
      <4>1. g[i] = f[i] /\ g[i - 1] = f[i - 1] /\ f[i] = step[i][f[i - 1]]
        BY <2>1, <2>2, <3>1
      <4>2. QED
        BY <4>1
    <3>2. g[k + 1] = step[k + 1][f[k]] /\ g[(k + 1) - 1] = f[k]
      BY <2>2
    <3>3. \A i \in 1 .. k + 1 : i <= k \/ i = k + 1
      BY <2>2
    <3>. HIDE DEF g
    <3>4. QED
      BY <3>1, <3>2, <3>3
  <2>. HIDE DEF g
  <2>7. QED
    BY <2>4, <2>5, <2>6
<1>. HIDE DEF Good
<1>3. 0 \in Done /\ \A k \in 0 .. n - 1 : k \in Done => k + 1 \in Done
  <2>1. 0 \in Done
    BY <1>1
  <2>2. ASSUME NEW k \in 0 .. n - 1, k \in Done PROVE k + 1 \in Done
    <3>1. k + 1 \in 0 .. n
      OBVIOUS
    <3>2. \E g \in [0 .. k + 1 -> S] : Good(g, k + 1)
      BY <1>2, <2>2
    <3>3. QED
      BY <3>1, <3>2
  <2>3. QED
    BY <2>1, <2>2
<1>4. n \in Done
  <2>. HIDE DEF Done
  <2>1. \A i \in 0 .. n : i \in Done
    BY <1>3, UpTo
  <2>2. QED
    BY <2>1
<1>5. QED
  BY <1>4 DEF Good, Iterates

\* Division with remainder, and that there is only one.
LEMMA Remainder ==
  ASSUME NEW x \in Int, NEW m \in Nat \ {0}
  PROVE  x = m * (x \div m) + (x % m) /\ x % m \in 0 .. m - 1 /\ x \div m \in Int
OBVIOUS

LEMMA MulStep ==
  ASSUME NEW k \in Int, NEW j \in Int, NEW m \in Nat \ {0}, k < j
  PROVE m * k + m <= m * j
<1>1. PICK d \in Nat : j = k + 1 + d
  <2>1. j - k - 1 \in Nat /\ j = k + 1 + (j - k - 1)
    OBVIOUS
  <2>2. QED BY <2>1
<1>2. m * j = m * k + m + m * d
  BY <1>1
<1>3. m * d >= 0
  BY <1>1
<1>4. QED BY <1>2, <1>3

LEMMA ModUnique ==
  ASSUME NEW m \in Nat \ {0}, NEW k \in Int, NEW r \in 0 .. m - 1, NEW j \in Int, NEW s \in 0 .. m - 1, m * k + r = m * j + s
  PROVE r = s
<1>1. CASE k < j
  BY <1>1, MulStep
<1>2. CASE j < k
  BY <1>2, MulStep
<1>3. CASE j = k
  BY <1>3
<1>4. QED BY <1>1, <1>2, <1>3

\* A sum may be reduced on the way.
LEMMA ModAdd ==
  ASSUME NEW x \in Int, NEW y \in Int, NEW m \in Nat \ {0}
  PROVE  ((x % m) + y) % m = (x + y) % m
<1> DEFINE q == x \div m
          r == x % m
          k == (r + y) \div m
          j == (x + y) \div m
          u == (r + y) % m
          v == (x + y) % m
<1>1. x = m * q + r /\ q \in Int /\ r \in Int
  BY Remainder
<1>2. r + y = m * k + u /\ k \in Int /\ u \in 0 .. m - 1
  <2>. HIDE DEF r, q
  <2>1. r + y \in Int
    BY <1>1
  <2>2. QED BY <2>1, Remainder
<1>3. x + y = m * j + v /\ j \in Int /\ v \in 0 .. m - 1
  BY Remainder
<1> HIDE DEF q, r, k, j, u, v
<1>4. m * (k + q) + u = m * j + v
  <2>1. m * (k + q) = m * k + m * q
    BY <1>1, <1>2
  <2>2. QED BY <1>1, <1>2, <1>3, <2>1
<1>5. u = v
  <2>1. k + q \in Int
    BY <1>1, <1>2
  <2>2. QED BY <1>2, <1>3, <1>4, <2>1, ModUnique
<1>6. QED BY <1>5 DEF r, u, v

\* n + 1 clocks of the tile are one clock and then n.
LEMMA AccumulateOnce ==
  ASSUME NEW acc \in Acc, NEW a \in Tile, NEW b \in Tile, NEW n \in Nat
  PROVE  Accumulate(acc, a, b, n + 1) = Accumulate(Accumulate(acc, a, b, 1), a, b, n)
<1>. DEFINE p == Product(a, b)
           one == Accumulate(acc, a, b, 1)
<1>1. AccSpan \in Nat \ {0}
  BY AccAssumption
<1>2. ASSUME NEW ij \in Cell
      PROVE  (acc[ij] + (n + 1) * p[ij]) % AccSpan = (one[ij] + n * p[ij]) % AccSpan
  <2>1. acc[ij] \in Int /\ p[ij] \in Int
    BY <1>1, ProductInt DEF Acc
  <2>2. one[ij] = (acc[ij] + 1 * p[ij]) % AccSpan
    BY DEF Accumulate
  <2>. HIDE DEF p, one
  <2>3. acc[ij] + 1 * p[ij] \in Int /\ n * p[ij] \in Int
    BY <2>1
  <2>4. acc[ij] + (n + 1) * p[ij] = (acc[ij] + 1 * p[ij]) + n * p[ij]
    BY <2>1
  <2>. DEFINE x == acc[ij] + 1 * p[ij]
              y == n * p[ij]
  <2>5. (acc[ij] + (n + 1) * p[ij]) % AccSpan = (x + y) % AccSpan
    BY <2>4
  <2>6. ((x % AccSpan) + y) % AccSpan = (x + y) % AccSpan
    <3>1. x \in Int /\ y \in Int
      BY <2>3
    <3>. HIDE DEF x, y
    <3>2. QED
      BY <1>1, <3>1, ModAdd
  <2>7. QED
    BY <2>2, <2>5, <2>6
<1>3. QED
  BY <1>2 DEF Accumulate
=============================================================================
