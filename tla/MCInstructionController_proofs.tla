-------------------- MODULE MCInstructionController_proofs --------------------
(***************************************************************************)
(* Under a steady host the controller implements ProgramSequencer, for     *)
(* every program and every width of its registers, and the tile ends with  *)
(* one product for each strobe of a MAC_TILE of the program.               *)
(***************************************************************************)
EXTENDS MCInstructionController, InstructionController_proofs, FiniteSetTheorems

Listed == [op : Opcode, cycles : Nat]

-----------------------------------------------------------------------------
(* The strobes of a list of instructions.                                  *)

\* An instruction held for n cycles.
LEMMA TimesType ==
  ASSUME NEW op \in Opcode, NEW n \in Nat
  PROVE  /\ Times(op, n) \in Seq(Opcode) /\ Len(Times(op, n)) = n
         /\ \A i \in 1 .. n : Times(op, n)[i] = op
BY DEF Times

LEMMA InstructionTimes ==
  ASSUME NEW h \in Listed
  PROVE  Times(h.op, h.cycles) \in Seq(Opcode)
<1>1. h.op \in Opcode /\ h.cycles \in Nat
  BY DEF Listed
<1>2. QED
  BY <1>1, TimesType

\* The strobes after each instruction of a list.
LEMMA ScoreRun ==
  ASSUME NEW p \in Seq(Listed)
  PROVE  \E upto \in [0 .. Len(p) -> Seq(Opcode)] :
           /\ upto[0] = <<>> /\ ScoreOf(p) = upto[Len(p)]
           /\ \A i \in 1 .. Len(p) : upto[i] = upto[i - 1] \o Times(p[i].op, p[i].cycles)
<1>. DEFINE n == Len(p)
            S == Seq(Opcode)
            step == [i \in 1 .. n |-> [x \in S |-> x \o Times(p[i].op, p[i].cycles)]]
            Eq(f) == f = [i \in 0 .. n |-> IF i = 0 THEN <<>> ELSE f[i - 1] \o Times(p[i].op, p[i].cycles)]
            upto == CHOOSE f : Eq(f)
<1>1. n \in Nat /\ \A i \in 1 .. n : p[i] \in Listed
  OBVIOUS
<1>2. <<>> \in S /\ \A i \in 1 .. n : Times(p[i].op, p[i].cycles) \in S
  <2>1. <<>> \in S
    OBVIOUS
  <2>. HIDE DEF n, S
  <2>2. \A i \in 1 .. n : Times(p[i].op, p[i].cycles) \in S
    BY <1>1, InstructionTimes DEF S
  <2>3. QED
    BY <2>1, <2>2
<1>3. \A x \in S, i \in 1 .. n : x \o Times(p[i].op, p[i].cycles) \in S
  BY <1>2
<1>4. step \in [1 .. n -> [S -> S]]
  <2>. HIDE DEF S, n
  <2>. QED BY <1>3
<1>5. PICK f \in [0 .. n -> S] : f[0] = <<>> /\ \A i \in 1 .. n : f[i] = step[i][f[i - 1]]
  <2>. HIDE DEF step, n, S
  <2>1. \E f \in [0 .. n -> S] : Iterates(f, n, <<>>, step)
    BY <1>1, <1>2, <1>4, Iterated
  <2>2. QED
    BY <2>1 DEF Iterates
<1>. HIDE DEF S
<1>6. \A i \in 1 .. n : f[i] = f[i - 1] \o Times(p[i].op, p[i].cycles)
  <2>1. \A i \in 1 .. n : i - 1 \in 0 .. n /\ f[i - 1] \in S
    BY <1>1
  <2>. HIDE DEF n
  <2>2. QED
    BY <1>5, <2>1
<1>7. Eq(f)
  <2>1. f = [i \in 0 .. n |-> f[i]]
    OBVIOUS
  <2>2. \A i \in 0 .. n : i # 0 => i \in 1 .. n
    BY <1>1
  <2>. HIDE DEF n
  <2>3. QED
    BY <1>5, <1>6, <2>1, <2>2
<1>8. Eq(upto)
  BY <1>7
<1>9. ScoreOf(p) = upto[n]
  BY DEF ScoreOf
<1>. HIDE DEF upto, n
<1>10. upto[0] = <<>> /\ \A i \in 1 .. n : upto[i] = upto[i - 1] \o Times(p[i].op, p[i].cycles)
  <2>1. \A i \in 1 .. n : i \in 0 .. n /\ i # 0
    BY <1>1
  <2>2. 0 \in 0 .. n
    BY <1>1
  <2>3. QED
    BY <1>8, <2>1, <2>2
<1>11. \A i \in 0 .. n : upto[i] \in S
  <2>. DEFINE D == {i \in 0 .. n : upto[i] \in S}
  <2>1. 0 \in D
    BY <1>1, <1>2, <1>10
  <2>2. ASSUME NEW i \in 0 .. n - 1, i \in D PROVE i + 1 \in D
    <3>1. i + 1 \in 1 .. n /\ (i + 1) - 1 = i /\ upto[i] \in S
      BY <1>1, <2>2
    <3>2. upto[i + 1] = upto[i] \o Times(p[i + 1].op, p[i + 1].cycles)
      BY <1>10, <3>1
    <3>3. upto[i + 1] \in S
      BY <1>3, <3>1, <3>2
    <3>4. QED
      BY <1>1, <3>3
  <2>. HIDE DEF D
  <2>3. \A i \in 0 .. n : i \in D
    BY <1>1, <2>1, <2>2, UpTo
  <2>4. QED
    BY <2>3 DEF D
<1>12. upto \in [0 .. n -> S]
  <2>1. upto = [i \in 0 .. n |-> upto[i]]
    BY <1>8
  <2>2. QED
    BY <1>11, <2>1
<1>13. QED
  BY <1>9, <1>10, <1>12 DEF S, n

\* The strobes of a list are opcodes; an empty list has none.
LEMMA ScoreType ==
  ASSUME NEW p \in Seq(Listed)
  PROVE  ScoreOf(p) \in Seq(Opcode) /\ (p = <<>> => ScoreOf(p) = <<>>)
<1>1. PICK f \in [0 .. Len(p) -> Seq(Opcode)] : f[0] = <<>> /\ ScoreOf(p) = f[Len(p)]
  BY ScoreRun
<1>2. Len(p) \in 0 .. Len(p) /\ (p = <<>> => Len(p) = 0)
  OBVIOUS
<1>3. QED
  BY <1>1, <1>2

\* Concatenation, with its operands named so that it can be cited.
LEMMA Associative ==
  ASSUME NEW x \in Seq(Opcode), NEW y \in Seq(Opcode), NEW z \in Seq(Opcode)
  PROVE  (x \o y) \o z = x \o (y \o z)
OBVIOUS

\* A list plays its first instruction and then the rest.
LEMMA ScoreFirst ==
  ASSUME NEW h \in Listed, NEW p \in Seq(Listed)
  PROVE  ScoreOf(<<h>> \o p) = Times(h.op, h.cycles) \o ScoreOf(p)
<1>. DEFINE q == <<h>> \o p
            n == Len(p)
            first == Times(h.op, h.cycles)
<1>1. n \in Nat /\ q \in Seq(Listed) /\ Len(q) = n + 1 /\ q[1] = h
  OBVIOUS
<1>2. \A i \in 1 .. n : q[i + 1] = p[i]
  OBVIOUS
<1>3. first \in Seq(Opcode)
  BY InstructionTimes
<1>4. \A i \in 1 .. n : Times(p[i].op, p[i].cycles) \in Seq(Opcode)
  <2>1. \A i \in 1 .. n : p[i] \in Listed
    OBVIOUS
  <2>. HIDE DEF n
  <2>2. QED
    BY <2>1, InstructionTimes
<1>. HIDE DEF q
<1>5. PICK f \in [0 .. n + 1 -> Seq(Opcode)] :
           /\ f[0] = <<>> /\ ScoreOf(q) = f[n + 1]
           /\ \A i \in 1 .. n + 1 : f[i] = f[i - 1] \o Times(q[i].op, q[i].cycles)
  <2>. HIDE DEF n
  <2>1. \E f \in [0 .. Len(q) -> Seq(Opcode)] :
           /\ f[0] = <<>> /\ ScoreOf(q) = f[Len(q)]
           /\ \A i \in 1 .. Len(q) : f[i] = f[i - 1] \o Times(q[i].op, q[i].cycles)
    BY <1>1, ScoreRun
  <2>2. QED
    BY <1>1, <2>1
<1>6. PICK g \in [0 .. n -> Seq(Opcode)] :
           /\ g[0] = <<>> /\ ScoreOf(p) = g[n]
           /\ \A i \in 1 .. n : g[i] = g[i - 1] \o Times(p[i].op, p[i].cycles)
  BY ScoreRun
<1>. DEFINE S == {i \in 0 .. n : f[i + 1] = first \o g[i]}
<1>. HIDE DEF n, first
<1>7. 0 \in S
  <2>1. 1 \in 1 .. n + 1 /\ 1 - 1 = 0 /\ 0 + 1 = 1 /\ 0 \in 0 .. n
    BY <1>1
  <2>2. f[1] = <<>> \o first
    BY <1>1, <1>5, <2>1 DEF first
  <2>3. <<>> \o first = first /\ first \o <<>> = first
    BY <1>3
  <2>4. f[0 + 1] = first \o g[0]
    BY <1>6, <2>1, <2>2, <2>3
  <2>5. QED
    BY <2>1, <2>4
<1>8. ASSUME NEW i \in 0 .. n - 1, i \in S PROVE i + 1 \in S
  <2>1. /\ i + 1 \in 1 .. n /\ i + 2 \in 1 .. n + 1 /\ (i + 2) - 1 = i + 1 /\ (i + 1) - 1 = i
        /\ (i + 1) + 1 = i + 2 /\ i + 1 \in 0 .. n /\ i \in 0 .. n
    BY <1>1
  <2>2. f[i + 2] = f[i + 1] \o Times(q[i + 2].op, q[i + 2].cycles)
    BY <1>5, <2>1
  <2>3. g[i + 1] = g[i] \o Times(p[i + 1].op, p[i + 1].cycles)
    BY <1>6, <2>1
  <2>4. f[i + 1] = first \o g[i] /\ q[i + 2] = p[i + 1]
    BY <1>2, <1>8, <2>1 DEF n
  <2>5. g[i] \in Seq(Opcode) /\ Times(p[i + 1].op, p[i + 1].cycles) \in Seq(Opcode)
    BY <1>4, <1>6, <2>1 DEF n
  <2>. DEFINE t == Times(p[i + 1].op, p[i + 1].cycles)
  <2>6. f[i + 2] = first \o g[i + 1]
    <3>1. f[i + 2] = (first \o g[i]) \o t /\ g[i + 1] = g[i] \o t
      BY <2>2, <2>3, <2>4
    <3>2. t \in Seq(Opcode) /\ g[i] \in Seq(Opcode)
      BY <2>5
    <3>. HIDE DEF t
    <3>3. (first \o g[i]) \o t = first \o (g[i] \o t)
      BY <1>3, <3>2, Associative
    <3>4. QED
      BY <3>1, <3>3
  <2>7. QED
    BY <2>1, <2>6
<1>9. n \in S
  <2>. HIDE DEF S
  <2>1. \A i \in 0 .. n : i \in S
    BY <1>1, <1>7, <1>8, UpTo
  <2>2. QED
    BY <1>1, <2>1
<1>10. QED
  BY <1>1, <1>5, <1>6, <1>9 DEF q, first

\* One clock takes the first strobe away.
LEMMA TimesStep ==
  ASSUME NEW op \in Opcode, NEW n \in Nat \ {0}, NEW r \in Seq(Opcode)
  PROVE  Times(op, n) \o r = <<op>> \o (Times(op, n - 1) \o r)
<1>1. Times(op, n) = <<op>> \o Times(op, n - 1)
  BY DEF Times
<1>2. Times(op, n - 1) \in Seq(Opcode) /\ <<op>> \in Seq(Opcode)
  BY TimesType
<1>3. QED
  BY <1>1, <1>2, Associative

LEMMA TimesNone ==
  ASSUME NEW op \in Opcode, NEW r \in Seq(Opcode)
  PROVE  Times(op, 0) \o r = r
BY DEF Times

\* What is left when its first strobe has been played.
LEMMA Played ==
  ASSUME NEW op \in Opcode, NEW r \in Seq(Opcode)
  PROVE  /\ <<op>> \o r # <<>> /\ Tail(<<op>> \o r) = r
         /\ Len(<<op>> \o r) = 1 <=> r = <<>>
OBVIOUS

\* An instruction with cycles left is still played.
LEMMA HeldPlays ==
  ASSUME NEW op \in Opcode, NEW n \in Nat \ {0}, NEW r \in Seq(Opcode)
  PROVE  Times(op, n) \o r \in Seq(Opcode) /\ Times(op, n) \o r # <<>>
<1>1. Times(op, n) \in Seq(Opcode) /\ Len(Times(op, n)) = n
  BY TimesType
<1>2. Times(op, n) \o r \in Seq(Opcode) /\ Len(Times(op, n) \o r) = n + Len(r) /\ Len(r) \in Nat
  BY <1>1
<1>3. Len(Times(op, n) \o r) # 0
  BY <1>2
<1>4. QED
  BY <1>2, <1>3

\* The rest of a list begins with its first element.
LEMMA SplitFirst ==
  ASSUME NEW p \in Seq(Listed), NEW i \in Nat, i + 1 < Len(p)
  PROVE  SubSeq(p, i + 2, Len(p)) = <<p[i + 2]>> \o SubSeq(p, i + 3, Len(p))
OBVIOUS

LEMMA WholeList ==
  ASSUME NEW p \in Seq(Listed), Len(p) # 0
  PROVE  p = <<p[1]>> \o SubSeq(p, 2, Len(p))
OBVIOUS

-----------------------------------------------------------------------------
(* The strobes still to be played.                                         *)

Behind  == SubSeq(Loaded, pc + 2, program_len)
Current == [op |-> opcode, cycles |-> cycles_left]
Strobes == IF busy THEN ScoreOf(Ahead) ELSE <<>>

\* The program as START sees it; a program has no instruction of no cycles.
LEMMA LoadedType ==
  ASSUME ControllerTypeOK, CyclesPositive
  PROVE  /\ Loaded \in Seq(Listed) /\ Len(Loaded) = program_len
         /\ \A i \in 1 .. program_len : Loaded[i] = InstrAt(i - 1)
         /\ \A a \in Nat : InstrAt(a) \in Listed /\ InstrAt(a).cycles > 0
<1>1. program_len \in Nat
  BY DEF ControllerTypeOK, PcValue
<1>2. \A a \in Nat : InstrAt(a) \in Listed /\ InstrAt(a).cycles > 0
  <2> SUFFICES ASSUME NEW a \in Nat PROVE InstrAt(a) \in Listed /\ InstrAt(a).cycles > 0
    OBVIOUS
  <2>1. Idx(a) \in Slot
    BY IdxInSlot
  <2>2. opcode_mem[Idx(a)] \in Opcode /\ cycles_mem[Idx(a)] \in CycleCount /\ cycles_mem[Idx(a)] > 0
    BY <2>1 DEF ControllerTypeOK, CyclesPositive
  <2>3. QED
    BY <2>2 DEF InstrAt, Listed, CycleCount
<1>3. \A i \in 1 .. program_len : i - 1 \in Nat
  BY <1>1
<1>4. \A i \in 1 .. program_len : InstrAt(i - 1) \in Listed
  BY <1>2, <1>3
<1>5. Loaded = [i \in 1 .. program_len |-> InstrAt(i - 1)]
  BY DEF Loaded
<1>6. QED
  BY <1>1, <1>2, <1>4, <1>5

AheadTyped ==
  /\ Current \in Listed /\ Behind \in Seq(Listed)
  /\ ScoreOf(Ahead) = Times(opcode, cycles_left) \o ScoreOf(Behind)
  /\ ScoreOf(Ahead) \in Seq(Opcode) /\ ScoreOf(Behind) \in Seq(Opcode)

\* What is ahead is the instruction in progress and the list behind it.
LEMMA AheadType == ControllerTypeOK /\ CyclesPositive => AheadTyped
<1> SUFFICES ASSUME ControllerTypeOK, CyclesPositive PROVE AheadTyped
  OBVIOUS
<1>1. pc \in Nat /\ program_len \in Nat /\ opcode \in Opcode /\ cycles_left \in Nat
  BY DEF ControllerTypeOK, PcValue, CycleCount
<1>2. Current \in Listed
  BY <1>1 DEF Current, Listed
<1>3. Behind \in Seq(Listed)
  <2>1. Loaded \in Seq(Listed) /\ Len(Loaded) = program_len
    BY LoadedType
  <2>2. QED
    BY <1>1, <2>1 DEF Behind
<1>4. Ahead = <<Current>> \o Behind
  BY DEF Ahead, Current, Behind
<1>5. ScoreOf(Ahead) = Times(Current.op, Current.cycles) \o ScoreOf(Behind)
  BY <1>2, <1>3, <1>4, ScoreFirst
<1>6. ScoreOf(Behind) \in Seq(Opcode) /\ Times(opcode, cycles_left) \in Seq(Opcode)
  BY <1>1, <1>3, ScoreType, TimesType
<1>7. ScoreOf(Ahead) = Times(opcode, cycles_left) \o ScoreOf(Behind)
  BY <1>5 DEF Current
<1>8. ScoreOf(Ahead) \in Seq(Opcode)
  BY <1>6, <1>7
<1>9. QED
  BY <1>2, <1>3, <1>6, <1>7, <1>8 DEF AheadTyped

LEMMA AheadTypeNext == (ControllerTypeOK /\ CyclesPositive => AheadTyped)'
BY AheadType, PTL

\* What the host must leave alone while a run goes on.
Untouched ==
  /\ opcode_mem' = opcode_mem /\ cycles_mem' = cycles_mem
  /\ busy' => program_len' = program_len

LEMMA SameProgram ==
  ASSUME Untouched, busy'
  PROVE  Loaded' = Loaded /\ \A a : InstrAt(a)' = InstrAt(a)
BY DEF Untouched, Loaded, InstrAt, Idx

\* A clock of a run plays the first strobe of those that were left, and done is
\* pulsed with the last.
LEMMA RunEdge ==
  ASSUME ControllerInv, ControllerInv', CyclesPositive, CyclesPositive', busy, Untouched,
         NEW start, SequencerEdge(start)
  PROVE  /\ Strobes' \in Seq(Opcode) /\ Strobes = <<opcode>> \o Strobes'
         /\ done' <=> Strobes' = <<>>
         /\ global_cycle' = (global_cycle + 1) % GlobalSpan
         /\ opcode \in Opcode
<1>1. /\ opcode \in Opcode /\ cycles_left \in Nat \ {0} /\ pc \in Nat /\ program_len \in Nat
      /\ pc + 1 < PcSpan
  BY DEF ControllerInv, ControllerTypeOK, StrobesOnlyInRun, PcNeverWraps, PcValue, CycleCount
<1>2. /\ Strobes = Times(opcode, cycles_left) \o ScoreOf(Behind)
      /\ ScoreOf(Behind) \in Seq(Opcode)
  BY AheadType DEF Strobes, ControllerInv, AheadTyped
<1>3. Strobes = <<opcode>> \o (Times(opcode, cycles_left - 1) \o ScoreOf(Behind))
  BY <1>1, <1>2, TimesStep
<1>4. /\ busy' => Strobes' = Times(opcode', cycles_left') \o ScoreOf(Behind')
      /\ ScoreOf(Behind') \in Seq(Opcode)
      /\ opcode' \in Opcode /\ cycles_left' \in Nat
  <2>1. ControllerTypeOK'
    BY DEF ControllerInv
  <2>2. AheadTyped'
    BY <2>1, AheadTypeNext
  <2>3. QED
    BY <2>1, <2>2 DEF AheadTyped, Strobes, ControllerTypeOK, CycleCount
<1>. NextPc = pc + 1
  BY <1>1, ControllerAssumption DEF NextPc
<1>5. CASE Hold
  <2>1. /\ cycles_left > 1 /\ cycles_left' = cycles_left - 1 /\ ~done' /\ busy' /\ opcode' = opcode /\ pc' = pc
        /\ global_cycle' = (global_cycle + 1) % GlobalSpan
    BY <1>5 DEF Hold, Count
  <2>2. Behind' = Behind
    BY <2>1, SameProgram DEF Behind, Untouched
  <2>3. Strobes' = Times(opcode, cycles_left - 1) \o ScoreOf(Behind)
    BY <1>4, <2>1, <2>2
  <2>4. Strobes' \in Seq(Opcode) /\ Strobes' # <<>>
    BY <1>1, <1>2, <2>1, <2>3, HeldPlays
  <2>5. QED
    BY <1>1, <1>3, <2>1, <2>3, <2>4
<1>6. CASE Advance
  <2>1. /\ cycles_left = 1 /\ pc' = pc + 1 /\ pc + 1 < program_len /\ ~done' /\ busy'
        /\ opcode' = opcode_mem[Idx(pc + 1)]
        /\ cycles_left' = NormalizeCycles(cycles_mem[Idx(pc + 1)])
        /\ global_cycle' = (global_cycle + 1) % GlobalSpan
    BY <1>1, <1>6 DEF Advance, Count, MoreToRun
  <2>2. /\ InstrAt(pc + 1) \in Listed /\ cycles_left' = InstrAt(pc + 1).cycles /\ cycles_left' > 0
        /\ opcode' = InstrAt(pc + 1).op
    <3>1. InstrAt(pc + 1) \in Listed /\ InstrAt(pc + 1).cycles > 0
      BY <1>1, LoadedType DEF ControllerInv
    <3>2. QED
      BY <2>1, <3>1 DEF InstrAt, NormalizeCycles, Listed
  <2>3. Behind = <<InstrAt(pc + 1)>> \o Behind'
    <3>1. Behind' = SubSeq(Loaded, pc + 3, program_len)
      BY <1>1, <2>1, SameProgram DEF Behind, Untouched
    <3>2. Loaded \in Seq(Listed) /\ Len(Loaded) = program_len /\ Loaded[pc + 2] = InstrAt(pc + 1)
      <4>1. pc + 2 \in 1 .. program_len /\ (pc + 2) - 1 = pc + 1
        BY <1>1, <2>1
      <4>2. QED
        BY <4>1, LoadedType DEF ControllerInv
    <3>3. QED
      BY <1>1, <2>1, <3>1, <3>2, SplitFirst DEF Behind
  <2>4. Behind' \in Seq(Listed)
    <3>1. ControllerTypeOK'
      BY DEF ControllerInv
    <3>2. QED
      BY <3>1, AheadTypeNext DEF AheadTyped
  <2>5. ScoreOf(Behind) = Times(opcode', cycles_left') \o ScoreOf(Behind')
    BY <2>2, <2>3, <2>4, ScoreFirst
  <2>6. Strobes' = ScoreOf(Behind)
    BY <1>4, <2>1, <2>5
  <2>7. Strobes' \in Seq(Opcode) /\ Strobes' # <<>>
    BY <1>2, <1>4, <2>2, <2>5, <2>6, HeldPlays
  <2>8. Strobes = <<opcode>> \o Strobes'
    <3>1. cycles_left - 1 = 0
      BY <2>1
    <3>2. QED
      BY <1>1, <1>2, <1>3, <2>6, <3>1, TimesNone
  <2>9. QED
    BY <1>1, <2>1, <2>7, <2>8
<1>7. CASE Finish
  <2>1. /\ cycles_left = 1 /\ pc + 1 >= program_len /\ done' /\ ~busy'
        /\ global_cycle' = (global_cycle + 1) % GlobalSpan
    BY <1>1, <1>7 DEF Finish, Count, MoreToRun
  <2>2. Strobes' = <<>>
    BY <2>1 DEF Strobes
  <2>3. Behind = <<>>
    BY <1>1, <2>1 DEF Behind
  <2>4. ScoreOf(Behind) = <<>>
    <3>1. <<>> \in Seq(Listed)
      OBVIOUS
    <3>2. QED
      BY <2>3, <3>1, ScoreType
  <2>5. Strobes = <<opcode>> \o Strobes'
    <3>1. cycles_left - 1 = 0
      BY <2>1
    <3>2. QED
      BY <1>1, <1>2, <1>3, <2>2, <2>4, <3>1, TimesNone
  <2>6. QED
    BY <1>1, <2>1, <2>2, <2>5
<1>8. QED
  BY <1>5, <1>6, <1>7 DEF SequencerEdge, StartEmpty, StartProgram, Rest

\* START plays the program as it stands.
LEMMA StartEdge ==
  ASSUME ControllerInv, ControllerInv', CyclesPositive, CyclesPositive', ~busy, Untouched,
         SequencerEdge(TRUE)
  PROVE  /\ Strobes' = ScoreOf(Loaded) /\ Strobes' \in Seq(Opcode)
         /\ done' <=> Loaded = <<>>
         /\ global_cycle' = 0
         /\ busy' => Loaded' = Loaded
<1>1. program_len \in Nat /\ Loaded \in Seq(Listed) /\ Len(Loaded) = program_len
  BY LoadedType DEF ControllerInv, ControllerTypeOK, PcValue
<1>2. ScoreOf(Loaded) \in Seq(Opcode) /\ (Loaded = <<>> => ScoreOf(Loaded) = <<>>)
  BY <1>1, ScoreType
<1>3. CASE StartEmpty(TRUE)
  <2>1. program_len = 0 /\ ~busy' /\ done' /\ global_cycle' = 0
    BY <1>3 DEF StartEmpty
  <2>2. Loaded = <<>> /\ Strobes' = <<>>
    BY <1>1, <2>1 DEF Strobes
  <2>3. QED
    BY <1>2, <2>1, <2>2
<1>4. CASE StartProgram(TRUE)
  <2>1. /\ program_len # 0 /\ busy' /\ ~done' /\ global_cycle' = 0 /\ pc' = 0
        /\ opcode' = opcode_mem[0] /\ cycles_left' = NormalizeCycles(cycles_mem[0])
    BY <1>4 DEF StartProgram
  <2>2. Loaded' = Loaded /\ program_len' = program_len
    BY <2>1, SameProgram DEF Untouched
  <2>3. Current' = InstrAt(0) /\ Loaded[1] = InstrAt(0)
    <3>1. InstrAt(0).cycles > 0 /\ 1 \in 1 .. program_len /\ 1 - 1 = 0
      BY <1>1, <2>1, LoadedType DEF ControllerInv
    <3>2. Loaded[1] = InstrAt(0)
      BY <3>1, LoadedType DEF ControllerInv
    <3>3. InstrAt(0) = [op |-> opcode_mem[0], cycles |-> cycles_mem[0]]
      BY SlotZero DEF InstrAt
    <3>4. cycles_left' = cycles_mem[0]
      BY <2>1, <3>1, <3>3 DEF NormalizeCycles
    <3>5. QED
      BY <2>1, <3>2, <3>3, <3>4 DEF Current
  <2>4. Loaded = <<Loaded[1]>> \o SubSeq(Loaded, 2, program_len)
    BY <1>1, <2>1, WholeList
  <2>5. Behind' = SubSeq(Loaded, 2, program_len)
    BY <2>1, <2>2 DEF Behind
  <2>6. Ahead' = Loaded
    <3>1. Ahead' = <<Current'>> \o Behind'
      BY DEF Ahead, Current, Behind
    <3>2. QED
      BY <2>3, <2>4, <2>5, <3>1
  <2>7. Loaded # <<>>
    BY <1>1, <2>1
  <2>8. QED
    BY <1>2, <2>1, <2>2, <2>6, <2>7 DEF Strobes
<1>5. QED
  BY <1>3, <1>4 DEF SequencerEdge, Hold, Advance, Finish, Rest

-----------------------------------------------------------------------------
(* The multiplications of a list of strobes.                               *)

MacsAt(strobes) == {i \in DOMAIN strobes : strobes[i] = "MAC_TILE"}

LEMMA MacsFinite ==
  ASSUME NEW r \in Seq(Opcode)
  PROVE  IsFiniteSet(MacsAt(r)) /\ MacsIn(r) \in Nat /\ MacsIn(r) = Cardinality(MacsAt(r))
<1>1. MacsAt(r) \in SUBSET Nat /\ \A i \in MacsAt(r) : i <= Len(r)
  BY DEF MacsAt
<1>2. Len(r) \in Nat
  OBVIOUS
<1>3. IsFiniteSet(MacsAt(r))
  BY <1>1, <1>2, FS_BoundedSetOfNaturals
<1>4. QED
  BY <1>3, FS_CardinalityType DEF MacsIn, MacsAt

LEMMA MacsNone == MacsIn(<<>>) = 0
<1>1. {i \in DOMAIN <<>> : (<<>>)[i] = "MAC_TILE"} = {}
  OBVIOUS
<1>2. QED
  BY <1>1, FS_EmptySet DEF MacsIn

\* The first strobe counts for one or for none.
LEMMA MacsFirst ==
  ASSUME NEW op \in Opcode, NEW r \in Seq(Opcode)
  PROVE  MacsIn(<<op>> \o r) = MacsIn(r) + IF op = "MAC_TILE" THEN 1 ELSE 0
<1>. DEFINE q == <<op>> \o r
            T == {i + 1 : i \in MacsAt(r)}
            shift == [i \in MacsAt(r) |-> i + 1]
<1>1. q \in Seq(Opcode) /\ Len(q) = Len(r) + 1 /\ Len(r) \in Nat /\ q[1] = op
  OBVIOUS
<1>2. \A i \in 1 .. Len(r) : q[i + 1] = r[i]
  OBVIOUS
<1>3. \A i \in MacsAt(r) : i \in 1 .. Len(r) /\ r[i] = "MAC_TILE"
  BY DEF MacsAt
<1>. HIDE DEF q
<1>4. ExistsBijection(MacsAt(r), T)
  <2>1. shift \in [MacsAt(r) -> T]
    OBVIOUS
  <2>2. \A i, j \in MacsAt(r) : shift[i] = shift[j] => i = j
    BY <1>3
  <2>3. \A t \in T : \E i \in MacsAt(r) : shift[i] = t
    OBVIOUS
  <2>. HIDE DEF shift, T
  <2>4. shift \in Bijection(MacsAt(r), T)
    BY <2>1, <2>2, <2>3 DEF Bijection, Injection, Surjection, IsInjective
  <2>5. QED
    BY <2>4 DEF ExistsBijection
<1>5. IsFiniteSet(T) /\ Cardinality(T) = MacsIn(r)
  <2>. HIDE DEF T
  <2>. QED BY <1>4, MacsFinite, FS_Bijection
<1>6. 1 \notin T
  BY <1>3
<1>7. MacsAt(q) = IF op = "MAC_TILE" THEN T \cup {1} ELSE T
  <2>1. \A i \in 1 .. Len(q) : i # 1 => i - 1 \in 1 .. Len(r) /\ (i - 1) + 1 = i
    BY <1>1
  <2>2. ASSUME NEW i \in MacsAt(q), i # 1 PROVE i \in T
    <3>1. i \in 1 .. Len(q) /\ q[i] = "MAC_TILE"
      BY <1>1 DEF MacsAt
    <3>2. r[i - 1] = "MAC_TILE" /\ i - 1 \in DOMAIN r
      BY <1>1, <1>2, <2>1, <2>2, <3>1
    <3>3. i - 1 \in MacsAt(r)
      BY <3>2 DEF MacsAt
    <3>4. QED
      BY <2>1, <2>2, <3>1, <3>3
  <2>3. ASSUME NEW i \in T PROVE i \in MacsAt(q)
    <3>1. PICK j \in MacsAt(r) : i = j + 1
      OBVIOUS
    <3>2. q[j + 1] = "MAC_TILE" /\ j + 1 \in 1 .. Len(q)
      BY <1>1, <1>2, <1>3
    <3>3. DOMAIN q = 1 .. Len(q)
      BY <1>1
    <3>4. QED
      BY <3>1, <3>2, <3>3 DEF MacsAt
  <2>4. 1 \in MacsAt(q) <=> op = "MAC_TILE"
    <3>1. DOMAIN q = 1 .. Len(q)
      BY <1>1
    <3>2. QED
      BY <1>1, <3>1 DEF MacsAt
  <2>. HIDE DEF T
  <2>5. \A i : i \in MacsAt(q) <=> i \in T \/ (i = 1 /\ op = "MAC_TILE")
    BY <1>6, <2>2, <2>3, <2>4
  <2>6. CASE op = "MAC_TILE"
    BY <2>5, <2>6
  <2>7. CASE op # "MAC_TILE"
    BY <2>5, <2>7
  <2>8. QED
    BY <2>6, <2>7
<1>8. MacsIn(q) = Cardinality(MacsAt(q))
  BY <1>1, MacsFinite
<1>9. Cardinality(T \cup {1}) = Cardinality(T) + 1
  <2>. HIDE DEF T
  <2>. QED BY <1>5, <1>6, FS_AddElement
<1>10. QED
  <2>1. MacsIn(r) \in Nat
    BY MacsFinite
  <2>. HIDE DEF T
  <2>2. QED
    BY <1>5, <1>7, <1>8, <1>9, <2>1 DEF q

-----------------------------------------------------------------------------
(* The steady host.                                                        *)

\* What is due is in the accumulator already, or the strobes ahead will add it.
Due ==
  /\ ~steady => due = Unpromised
  /\ busy /\ due # Unpromised => Accumulate(c, operands[1], operands[2], MacsIn(Strobes)) = due

SteadyInv ==
  /\ ControllerInv /\ CyclesPositive
  /\ steady \in BOOLEAN /\ operands \in Tile \X Tile /\ c \in Acc
  /\ Due /\ DoneMeansEveryMac

\* Either manner of host keeps the controller's invariant.
LEMMA EdgeInv ==
  ASSUME ControllerInv, CyclesPositive, c \in Acc, operands \in Tile \X Tile,
         NEW w \in ProgramPort, NEW start \in BOOLEAN, NEW clear \in BOOLEAN, TileEdge(w, start, clear),
         program_len' \in PcValue
  PROVE  ControllerInv' /\ CyclesPositive' /\ c' \in Acc
<1>1. PortOK(w) /\ ProgramWrite(w) /\ SequencerEdge(start)
  BY ProgramPortOK DEF TileEdge
<1>2. ControllerInv'
  BY <1>1, ClockInv
<1>3. CyclesPositive'
  BY <1>1, WriteKeepsPositive DEF ControllerInv
<1>4. c' \in Acc
  <2>1. operands[1] \in Tile /\ operands[2] \in Tile
    OBVIOUS
  <2>2. Accumulate(c, operands[1], operands[2], 1) \in Acc
    BY <2>1, AccumulateType
  <2>3. QED
    BY <2>2, ZeroTile DEF TileEdge, TileClock
<1>5. QED
  BY <1>2, <1>3, <1>4

LEMMA Lengths == HostLengths \subseteq PcValue /\ HostOperands \subseteq Tile \X Tile
BY ControllerAssumption, OperandAssumption

LEMMA SteadyStarts == MCInit => SteadyInv
<1> SUFFICES ASSUME MCInit PROVE SteadyInv
  OBVIOUS
<1>1. ControllerInv
  BY InitInv, Lengths DEF MCInit, CtrlInit
<1>2. CyclesPositive
  BY DEF MCInit, CtrlInit, ControllerInit, ProgramInit, CyclesPositive
<1>3. QED
  BY <1>1, <1>2, Lengths, ZeroTile DEF MCInit, TileInit, SteadyInv, Due, DoneMeansEveryMac

LEMMA SteadyStep == SteadyInv /\ [Clock \/ Reset]_mcVars => SteadyInv'
<1> SUFFICES ASSUME SteadyInv, [Clock \/ Reset]_mcVars PROVE SteadyInv'
  OBVIOUS
<1>1. CASE steady /\ SteadyClock /\ UNCHANGED steady
  <2>1. PICK w \in ProgramPort, start \in BOOLEAN, clear \in BOOLEAN :
          /\ ~(w.we /\ start)
          /\ TileEdge(w, start, clear)
          /\ program_len' \in (IF busy' THEN {program_len} ELSE HostLengths)
          /\ operands' \in (IF start /\ ~busy THEN HostOperands ELSE {operands})
          /\ Promise(start, clear)
    BY <1>1 DEF SteadyClock
  <2>2. program_len' \in PcValue
    BY <2>1, Lengths DEF SteadyInv, ControllerInv, ControllerTypeOK
  <2>3. ControllerInv' /\ CyclesPositive' /\ c' \in Acc
    BY <2>1, <2>2, EdgeInv DEF SteadyInv
  <2>4. operands' \in Tile \X Tile
    BY <2>1, Lengths DEF SteadyInv
  <2>5. Due' /\ DoneMeansEveryMac'
    <3>1. CASE due' = Unpromised
      BY <1>1, <3>1 DEF Due, DoneMeansEveryMac
    <3>2. CASE ~busy /\ start
      <4>1. Untouched
        BY <2>1, <3>2 DEF Untouched, TileEdge, ProgramWrite, WriteAccepted, programVars
      <4>2. /\ Strobes' = ScoreOf(Loaded) /\ Strobes' \in Seq(Opcode)
            /\ done' <=> Loaded = <<>>
        BY <2>1, <2>3, <3>2, <4>1, StartEdge DEF SteadyInv, TileEdge
      <4>3. c' = Zero /\ due' = Accumulate(Zero, operands'[1], operands'[2], MacsIn(Strobes'))
        BY <2>1, <3>2, <4>2 DEF TileEdge, TileClock, Promise
      <4>4. DoneMeansEveryMac'
        <5>1. SUFFICES ASSUME done' PROVE c' = due'
          BY DEF DoneMeansEveryMac
        <5>2. MacsIn(Strobes') = 0
          <6>1. <<>> \in Seq(Listed)
            OBVIOUS
          <6>2. QED
            BY <4>2, <5>1, <6>1, ScoreType, MacsNone
        <5>3. operands'[1] \in Tile /\ operands'[2] \in Tile
          BY <2>4
        <5>4. QED
          BY <4>3, <5>2, <5>3, AccumulateNone, ZeroTile
      <4>5. QED
        BY <1>1, <4>3, <4>4 DEF Due
    <3>3. CASE busy /\ due' # Unpromised
      <4>1. ~start /\ ~clear /\ due' = due
        BY <2>1, <3>3 DEF Promise
      <4>2. Untouched
        BY <2>1, <3>3 DEF Untouched, TileEdge, ProgramWrite, WriteAccepted, programVars
      <4>3. /\ Strobes' \in Seq(Opcode) /\ Strobes = <<opcode>> \o Strobes' /\ opcode \in Opcode
            /\ done' <=> Strobes' = <<>>
        BY <2>1, <2>3, <3>3, <4>2, RunEdge DEF SteadyInv, TileEdge
      <4>. DEFINE a == operands[1]
                  b == operands[2]
                  n == MacsIn(Strobes')
      <4>4. a \in Tile /\ b \in Tile /\ c \in Acc /\ operands' = operands
        BY <2>1, <3>3 DEF SteadyInv
      <4>5. Accumulate(c, a, b, MacsIn(Strobes)) = due
        BY <3>3, <4>1 DEF SteadyInv, Due
      <4>6. n \in Nat /\ MacsIn(Strobes) = n + IF opcode = "MAC_TILE" THEN 1 ELSE 0
        BY <4>3, MacsFinite, MacsFirst
      <4>7. c' = IF opcode = "MAC_TILE" THEN Accumulate(c, a, b, 1) ELSE c
        <5>1. Strobe("MAC_TILE") <=> opcode = "MAC_TILE"
          BY <3>3 DEF SteadyInv, ControllerInv, StrobesOnlyInRun, Strobe
        <5>2. QED
          BY <2>1, <4>1, <5>1 DEF TileEdge, TileClock
      <4>. HIDE DEF a, b, n
      <4>8. Accumulate(c', a, b, n) = due
        BY <4>4, <4>5, <4>6, <4>7, AccumulateOnce
      <4>9. DoneMeansEveryMac'
        <5>1. SUFFICES ASSUME done' PROVE c' = due'
          BY DEF DoneMeansEveryMac
        <5>2. n = 0
          BY <4>3, <5>1, MacsNone DEF n
        <5>3. QED
          BY <2>3, <4>1, <4>4, <4>8, <5>2, AccumulateNone
      <4>10. QED
        BY <1>1, <4>1, <4>4, <4>8, <4>9 DEF Due, a, b, n
    <3>4. CASE ~busy /\ ~start
      BY <2>1, <3>1, <3>4 DEF Promise
    <3>5. QED
      BY <3>1, <3>2, <3>3, <3>4
  <2>6. QED
    BY <1>1, <2>3, <2>4, <2>5 DEF SteadyInv
<1>2. CASE ~steady /\ FreeClock /\ UNCHANGED steady
  <2>1. PICK w \in ProgramPort, start \in BOOLEAN :
          TileEdge(w, start, FALSE) /\ program_len' \in HostLengths /\ UNCHANGED <<operands, due>>
    BY <1>2 DEF FreeClock
  <2>2. program_len' \in PcValue
    BY <2>1, Lengths
  <2>3. ControllerInv' /\ CyclesPositive' /\ c' \in Acc
    BY <2>1, <2>2, EdgeInv DEF SteadyInv
  <2>4. QED
    BY <1>2, <2>1, <2>3 DEF SteadyInv, Due, DoneMeansEveryMac
<1>3. CASE Reset
  <2>1. ControllerInv'
    BY <1>3, ResetInv, Lengths DEF Reset, TileReset
  <2>2. CyclesPositive'
    BY <1>3 DEF Reset, TileReset, ControllerReset, CyclesPositive
  <2>3. QED
    BY <1>3, <2>1, <2>2, ZeroTile DEF Reset, TileReset, SteadyInv, Due, DoneMeansEveryMac
<1>4. CASE UNCHANGED mcVars
  <2>1. /\ UNCHANGED ctrlVars /\ steady' = steady /\ due' = due
        /\ operands' = operands /\ c' = c
    BY <1>4 DEF mcVars, tileVars
  <2>2. ControllerInv'
    BY <2>1, StutterInv DEF SteadyInv
  <2>3. UNCHANGED <<opcode_mem, cycles_mem, program_len, busy, done, pc, opcode, cycles_left>>
    BY <2>1 DEF ctrlVars, programVars, sequencerVars
  <2>4. CyclesPositive'
    BY <2>3 DEF SteadyInv, CyclesPositive
  <2>5. Strobes' = Strobes
    BY <2>3 DEF Strobes, Ahead, Loaded, InstrAt, Idx
  <2>6. QED
    BY <2>1, <2>2, <2>3, <2>4, <2>5 DEF SteadyInv, Due, DoneMeansEveryMac
<1>5. QED
  BY <1>1, <1>2, <1>3, <1>4 DEF Clock

-----------------------------------------------------------------------------
\* The invariant of the controller under either manner of host, with what its
\* tile owes a steady one, for any memory and any widths.
THEOREM SteadyInvariance == MCSpec => []SteadyInv
BY SteadyStarts, SteadyStep, PTL DEF MCSpec

\* The tile of tile_engine_2x2 ends a run with one product of the operands for
\* every cycle of every MAC_TILE of the program, neither one less nor one more.
THEOREM DoneEveryMac == MCSpec => []DoneMeansEveryMac
BY SteadyInvariance, PTL DEF SteadyInv

-----------------------------------------------------------------------------
(* The refinement.                                                         *)

\* The sequencer's strobes of a list are those of this module.
LEMMA SameScore == \A p : Sequencer!ScoreOf(p) = ScoreOf(p)
BY DEF Sequencer!ScoreOf, ScoreOf, Sequencer!Times, Times

\* What a clock of the controller is to the sequencer.
LEMMA SequencerStep ==
  ASSUME SteadyInv, SteadyInv', [Clock \/ Reset]_mcVars
  PROVE  [Sequencer!Next]_(Sequencer!vars)
<1>. DEFINE strobes  == IF steady /\ busy THEN ScoreOf(Ahead) ELSE <<>>
            played   == IF steady THEN global_cycle ELSE 0
            finished == steady /\ done
<1>1. CASE steady /\ SteadyClock /\ UNCHANGED steady
  <2>1. PICK w \in ProgramPort, start \in BOOLEAN, clear \in BOOLEAN :
          /\ ~(w.we /\ start)
          /\ TileEdge(w, start, clear)
          /\ program_len' \in (IF busy' THEN {program_len} ELSE HostLengths)
    BY <1>1 DEF SteadyClock
  <2>2. steady' /\ strobes = Strobes /\ strobes' = Strobes' /\ played = global_cycle
        /\ played' = global_cycle' /\ finished = done /\ finished' = done'
    <3>1. steady = TRUE /\ steady' = TRUE /\ done \in BOOLEAN /\ done' \in BOOLEAN
      BY <1>1 DEF SteadyInv, ControllerInv, ControllerTypeOK
    <3>2. QED
      BY <3>1 DEF Strobes
  <2>3. CASE busy
    <3>1. Untouched
      BY <2>1, <2>3 DEF Untouched, TileEdge, ProgramWrite, WriteAccepted, programVars
    <3>2. /\ Strobes' \in Seq(Opcode) /\ Strobes = <<opcode>> \o Strobes' /\ opcode \in Opcode
          /\ done' <=> Strobes' = <<>>
          /\ global_cycle' = (global_cycle + 1) % GlobalSpan
      BY <2>1, <2>3, <3>1, RunEdge DEF SteadyInv, TileEdge
    <3>3. Strobes # <<>> /\ Tail(Strobes) = Strobes' /\ (Len(Strobes) = 1 <=> Strobes' = <<>>)
      BY <3>2, Played
    <3>4. Strobes' # <<>> => Loaded' = Loaded
      BY <3>1, SameProgram DEF Strobes
    <3>. HIDE DEF strobes, played, finished
    <3>5. Sequencer!Play /\ Sequencer!Steady
      BY <2>2, <3>2, <3>3, <3>4 DEF Sequencer!Play, Sequencer!Steady, Sequencer!running, strobes, played, finished
    <3>6. QED
      BY <3>5 DEF Sequencer!Next
  <2>4. CASE ~busy /\ start
    <3>1. Untouched
      BY <2>1, <2>4 DEF Untouched, TileEdge, ProgramWrite, WriteAccepted, programVars
    <3>2. /\ Strobes' = ScoreOf(Loaded) /\ global_cycle' = 0 /\ (done' <=> Loaded = <<>>)
          /\ busy' => Loaded' = Loaded
      BY <2>1, <2>4, <3>1, StartEdge DEF SteadyInv, TileEdge
    <3>3. Strobes = <<>> /\ (Strobes' # <<>> => Loaded' = Loaded)
      BY <2>4, <3>2 DEF Strobes
    <3>4. Strobes' = Sequencer!ScoreOf(Loaded)
      BY <3>2, SameScore
    <3>5. Sequencer!Start /\ Sequencer!Steady
      BY <2>2, <3>2, <3>3, <3>4 DEF Sequencer!Start, Sequencer!Steady, Sequencer!running
    <3>6. QED
      BY <3>5 DEF Sequencer!Next
  <2>5. CASE ~busy /\ ~start
    <3>1. done' = FALSE /\ ~busy' /\ global_cycle' = global_cycle
      BY <2>1, <2>5 DEF TileEdge, SequencerEdge, StartEmpty, StartProgram, Hold, Advance, Finish, Rest
    <3>2. Strobes = <<>> /\ Strobes' = <<>>
      BY <2>5, <3>1 DEF Strobes
    <3>3. Sequencer!Rest /\ Sequencer!Steady
      BY <2>2, <3>1, <3>2 DEF Sequencer!Rest, Sequencer!Steady, Sequencer!running
    <3>4. QED
      BY <3>3 DEF Sequencer!Next
  <2>6. QED
    BY <2>3, <2>4, <2>5
<1>2. CASE ~steady /\ FreeClock /\ UNCHANGED steady
  <2>1. Sequencer!Rest /\ Sequencer!Steady
    BY <1>2 DEF Sequencer!Rest, Sequencer!Steady, Sequencer!running
  <2>2. QED
    BY <2>1 DEF Sequencer!Next
<1>3. CASE Reset
  <2>1. ~busy' /\ ~done' /\ global_cycle' = 0
    BY <1>3 DEF Reset, TileReset, ControllerReset
  <2>2. Sequencer!Reset /\ Sequencer!Steady
    BY <2>1 DEF Sequencer!Reset, Sequencer!Steady
  <2>3. QED
    BY <2>2 DEF Sequencer!Next
<1>4. CASE UNCHANGED mcVars
  <2>1. UNCHANGED <<opcode_mem, cycles_mem, program_len, busy, done, pc, opcode, cycles_left,
                    global_cycle, steady>>
    BY <1>4 DEF mcVars, ctrlVars, programVars, sequencerVars
  <2>2. Loaded' = Loaded /\ Ahead' = Ahead
    BY <2>1 DEF Ahead, Loaded, InstrAt, Idx
  <2>3. UNCHANGED Sequencer!vars
    BY <2>1, <2>2 DEF Sequencer!vars
  <2>4. QED
    BY <2>3
<1>5. QED
  BY <1>1, <1>2, <1>3, <1>4 DEF Clock

\* Under a steady host every step of instruction_controller.sv is a step of the
\* abstract sequencer or a stutter: START plays the program as it stands, each
\* instruction for its own number of clocks and in order, and then pulses done.
THEOREM ControllerPlays == MCSpec => PlaysTheProgram
<1>1. MCInit => Sequencer!Init
  BY DEF MCInit, CtrlInit, ControllerInit, SequencerInit, Sequencer!Init, Sequencer!running
<1>2. SteadyInv /\ SteadyInv' /\ [Clock \/ Reset]_mcVars => [Sequencer!Next]_(Sequencer!vars)
  BY SequencerStep
<1>3. QED
  BY <1>1, <1>2, SteadyInvariance, PTL DEF MCSpec, PlaysTheProgram, Sequencer!Spec
=============================================================================
