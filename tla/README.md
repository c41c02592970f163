# Verification models of OpenTSP edge

TLA+ models of the `opentsp-edge` repository: the RTL tile engine with its two
register files, the host software that drives it and the bundle directory it
starts from, the Python toolchain from a prompt or a graph to a checked
instruction stream and to RTL test vectors, and proofs about both.  TLC checks
small instances, TLAPS proves for every value of the constants.

## 1. The system

OpenTSP is a toy deterministic accelerator.  A Python tool chain (graph, cycle
compiler, tiled INT8 matmul, KV attention, unified timeline, instruction
emitter, bank checker) describes the work; a small RTL engine executes 2x2 tile
programs; host software connects the two with a bundle of memory images and a
table of 32-bit register writes.

```
rtl_matmul_program -> hardware_export -> hardware_loader -> host_driver
                                                               |  register writes
                       c_host_runner / cpp_host_runner  <------+
                                |  write_reg, read_reg
          +---------------------+----------------------+
   host_tile_engine_2x2                   axi_lite_host_regs + axi_lite_tile_engine_2x2
          +---------------------+----------------------+
                      tile_engine_mem_2x2
              instruction_controller + systolic_tile_2x2

tiny_gpt -> compiler -> accelerator_runtime -> timeline -> instruction_emitter -> bank checker
                         |    |       |
               tiled_matmul   |   simulator (FP32 ops, KV cache)
                     attention_schedule
            rtl_schedule_vectors: a second interpreter, to test vectors of the tile
```

| Component | State | Operations | What makes it correct |
| --- | --- | --- | --- |
| `instruction_controller` | program memory, pc, cycle counter, busy/done/valid | host write, start, hold, advance, finish, reset | plays the loaded program, each instruction for its cycles, and ends |
| `systolic_tile_2x2` | 2x2 accumulator | clear, accumulate | product of the operands, modulo the width |
| `tile_engine_mem_2x2` | A/B tile memories, operand registers, stored C | data write, load, store, wipe | nothing of an earlier run shows in a new one |
| `tile_engine_2x2` | controller and accumulator | an edge for any inputs | a run adds one product per MAC_TILE cycle |
| `host_tile_engine_2x2` | select registers, pulses, sticky done | register writes, combinational reads | done is never stale; a run's result is fixed at START |
| AXI-lite wrapper | the same, and two response channels | AW+W, B, AR, R | the same, and each access is answered |
| C host runner | write index, tile counter, `out_c` | write, poll, read C | returns, with the product |
| C++ register model | registers and memories without a clock | register writes, a run inside one of them | the runner comes out with the product |
| matmul programs, host writes | none kept between calls | build programs, images and writes | every tile reads the operands meant for it |
| hardware bundle | eighteen files of a directory | export file by file, die, export again, load | a load raises or returns the whole workload |
| compiler | offset per bank, clock | validate, allocate, schedule | tensors do not overlap, operands are ready |
| runtime, simulator | values, statistics | one op at a time, on one of three backends | no value is missing |
| tiled matmul, attention schedule | loop variables, accumulators, events | one micro-op at a time | every product and every token once, no gap in time |
| timeline, emitter | cycle, offset per bank | place an op, emit an instruction | order, no work lost, regions of their own |
| bank checker | bookings per cycle and bank | book, judge | its verdict is exact |
| KV cache, tiny GPT step | the cached rows, the step | prefill, append, decode | the window of the prompt; the values of the reference |
| vector collector | its own values, groups of vectors | one op at a time | it ends as the runtime did |
| quantisation | none | quantise, multiply | an entry errs by half a step at most |

Components interact by wires (controller to tile and memories), register writes
and reads (host to engine), one-clock pulses (START, CLEAR, write enables, done),
files (tool chain to host) and calls (the runtime and the vector collector call
the tiled matmul and the attention schedule; timeline, emitter and checker
follow each other).

The hard parts of the hardware are all timing: a register write acts one clock
after it is made, START is legal (but not ignored by everyone)
while a run is in progress, `program_len` is not latched, done is a pulse latched
by two different rules in the two wrappers, AXI responses are decoupled from the
accesses they answer, and a host polls at any speed.  Those of the toolchain,
which is sequential, are boundaries and agreements: tiles that do not divide a
dimension, banks filled by two rules at once, a validator, a schedule and a
runtime that must mean the same by "ready", two interpreters of one schedule, a
cache that slides, and events whose cycles are counted again in every stage.
The bundle directory is where work can be lost: its files are rewritten in
place, one by one, and an export can die between and inside them.

`PROJECT.json` lists these hazards at their lines with the properties that would catch them,
or the reason why none does.

## 2. The models

One TLA+ step is one rising clock edge.  An action reads unprimed registers and
assigns primed ones, as non-blocking assignments do.  The always_ff blocks that
share an edge are conjoined: `Engine` is in every action of a wrapper.

| Module | Models | Notes |
| --- | --- | --- |
| `InstructionController` | `rtl/instruction_controller.sv` | `ProgramWrite` is the host port; `StartEmpty`, `StartProgram`, `Hold`, `Advance`, `Finish`, `Rest` are the branches of the sequencer |
| `TileMath` | arithmetic of `rtl/systolic_tile_2x2.sv` | also `Interpret`, the meaning of a tile program, used by the abstract service |
| `TileEngine2x2` | `rtl/tile_engine_2x2.sv` | controller and tile, operands on ports |
| `TileEngineMem` | `rtl/tile_engine_mem_2x2.sv` | `EngineEdge(w, d, start, clear)`: one edge for given inputs |
| `HostTileEngine` | `rtl/host_tile_engine_2x2.sv` | one action per register |
| `AxiLiteTileEngine` | `rtl/axi_lite_host_regs.sv`, `rtl/axi_lite_tile_engine_2x2.sv` | write channel, read channel, `Sticky` |
| `AxiMaster` | masters of the AXI wrapper | blocking, streaming and eager, with the responses they are owed |
| `HostProgram` | `rtl_matmul_program.py`, words of `hardware_export.py` and `hardware_loader.py`, `host_driver.py` | tile programs, packed words (four bytes), memory images, write table |
| `HardwareBundle` | files of `hardware_export.py` and `hardware_loader.py` | one action to open a file, one to write it; `Crash` between or inside; `Load` |
| `CRunner` | `c_host_runner.py`: `Generate` and `opentsp_run_matmul_4x4` | one action per completed register access |
| `HostRunner`, `AxiHostRunner` | the runner on each register file | any number of idle clocks between accesses |
| `CppHostRunner` | the register model of `cpp_host_runner.py` and the runner on it | no clock; a run happens inside a write |
| `Compiler`, `ScheduleMath` | `compiler.py`, `ir.py` | one action per iteration of its three loops; each exception ends it; sums and products are recursive functions |
| `TiledMatmul`, `ScheduleVectors` | `tiled_matmul.py`, `rtl_schedule_vectors.py` | one action per micro-op; a cell counts how often each product was added |
| `AttentionSchedule` | `attention_schedule.py` | one action per event; tokens count their contributions |
| `AcceleratorRuntime` | `accelerator_runtime.py`, `simulator.py` | calls the two schedulers and waits for them; a value is a term; the exceptions of a missing operand or of shapes that do not fit depend on the backend, in kind and order (`Fetch`, `Complaint`) |
| `TinyGPT` | `tiny_gpt.py`, `tiny_gpt_adapter.py`, graph and reference of `models.py` | a prompt becomes a step, is compiled and run |
| `VectorCollector` | `collect_schedule_vectors_from_program` | a second interpreter, beside the runtime |
| `Quantisation` | `quant.py` | integers and fractions, exact |
| `Timeline`, `InstructionEmitter` | `timeline.py`, `instruction_emitter.py` | one op, one instruction at a time |
| `MemoryBank` | `memory_bank.py` | books an access, judges a slot |
| `Toolchain` | `bank_conflict_checker.py` and the composition of all of these | emitted streams and hand-written lists both reach the checker |
| `ProgramSequencer`, `Score` | abstract: strobes still to be played | no pc, memory or counter |
| `TileService` | abstract: atomic runs | a run's result is fixed at START |
| `SmallInstance`, `SmallMatmuls`, `MC*` | instances for TLC | |
| `InstructionController_proofs`, `MCInstructionController_proofs`, `TileEngineMem_proofs`, `HostTileEngine_proofs`, `AxiMaster_proofs`, `MCHostRunner_proofs` | theorems about the hardware and its host software | section 5 |
| `Stages_proofs` (each stage by itself), `Toolchain_proofs` (their composition and the decode step) | theorems about the toolchain | section 5 |

Refinements.  `MCInstructionController!PlaysTheProgram` maps the controller to
`ProgramSequencer`: the strobes still to be played are the cycles left of the
current instruction followed by the rest of the program.  `IsTileService` in
both wrappers maps them to one `TileService`: the abstract datapath is the
`Committed` value, what the datapath will be when everything under way has
happened.  It must not move while a run is going, so a late data write, a lost
START or a clear that bites a run would be seen at once.

The toolchain modules extend each other in the order of the calls, from
`Compiler` to `Toolchain`, and each leaves the variables of the others alone:
`ToolchainNext` is a compiler step, a runtime step, a step of the tiny GPT
adapter, of the vector collector or of a quantised product, a timeline step, an
emitter step or a checker step.  Arguments are chosen when a stage is called, so there is
one initial state, in which nothing has been called.

Modelling decisions.

- A slot's address is taken `% PROGRAM_LEN` (the low `$clog2(PROGRAM_LEN)`
  bits), which is exact for the powers of two the repository instantiates;
  `PowerOfTwo` states it.
- What a write port carries is kept only while its enable is up.
- Opcodes 7 to 15 behave alike and are one value, `UNUSED`.
- Tiles are functions over four cells; accumulators are bit patterns modulo
  `AccSpan` (2^ACC_WIDTH).
- Reset is an action that may happen at any edge in the free and patient runs.
- In the runtime a value is the term that computes it, `<<"matmul", x, y>>`;
  cached rows are a sequence of terms.  Two values are equal if they are the same
  computation in exact arithmetic, so rounding and the error of INT8 are not in
  it; `Quantisation` bounds the latter by itself.  In the tiled matmul and the
  attention schedule an element is how often each product was counted.
- Event and instruction text, tile ranges in the detail string and JSON layout
  are left out.  A JSON text cut short does not parse; a hex file cut short does.
- A 32-bit word is four bytes: an instruction is opcode, cycles low and high and
  a reserved byte, a tile four bytes in two's complement.
- The read port of the native wrapper has no state: `HostRunner` uses it
  directly.

## 3. The runs

| Run | Question | Bounds |
| --- | --- | --- |
| `controller` | controller invariants and `RunsEnd` with every input free; `PlaysTheProgram` and `DoneMeansEveryMac` for a host that leaves the inputs of a run alone | 2 slots, lengths 0 to 3 (below, at and above the memory), cycle counts 0 and 2, two pairs of operands |
| `host_free`, `axi_free` | `RunsLoadedProgram`, `ResultIsOfThisRun` with START, CLEAR and resets at any clock | 4 slots, two preloaded programs, one tile, one opcode and one slot rewritten |
| `host_patient`, `axi_patient` | `TileService` with liveness; `DoneMeansOver` | the same (AXI: one program, one length) |
| `axi_blocking` | `DoneReadMeansOver`, `EveryAccessAnswered`, all registers read | one access in flight |
| `axi_eager` | `EveryAccessAnswered`, violated | finding 1; at most two accesses owed per channel, more than can be pending |
| `host_runner` | `LoadedIsWhole`, then `OutputIsProduct`, `OutputIsComplete`, `RunnerReturns` on the native registers and on the C++ register model | the repository's matmul and one at the ends of int8; two exports, either of which may die anywhere |
| `axi_host_runner` | `OutputIsProduct`, `RunnerReturns` on the AXI registers | the same matmuls |
| `axi_c_runner` | `OutputIsComplete`, violated | finding 2 |
| `toolchain` | the properties of the toolchain modules, in one composition | seven families of inputs, below |
| `emitted_accesses` | `EmittedAccessesAreChecked`, violated | finding 3 |

The toolchain run takes seven families of inputs through the same composition:
graphs of six tensors and up to three of eleven ops in any order, legal or not,
with explicit, round-robin and nonexistent banks (only compiled); graphs of two
or three of eight ops and of a cache that is shifted, with each choice of
backends and two bank layouts, taken to a checked stream; twelve matmuls under
24 tilings; fifteen decode steps under eight settings; whole decoder blocks of
sixteen ops, the tiny GPT's for eight prompts (shorter and longer than a cache of
one to three rows, empty, too long, with a token that is none) and the voice
decoder's; pairs of quantised vectors with ties, outliers and zeros; and lists of
up to three accesses under four bank configurations.  Some ops have operands that
only one backend takes, or that each refuses with another exception.  Sizes and tiles divide each
other and do not, tiles reach beyond the matrix and the cache, accesses touch,
overlap, nest and leave the bank.  Vectors are collected from graphs of two ops
and from the decoder blocks, exceptions included.

Sizes (distinct states): `controller` 33,098; `host_runner` 78,778;
`axi_host_runner` 1,194; `toolchain` 200,147.

Why the bounds suffice.  A program of four slots holds a load, an accumulation
of two cycles and a store, in an order where the store is last and in one where
it comes before the loads, so every strobe can meet every input.  Lengths 0 and
4 are the empty and the full program; the controller runs add a length beyond
the memory, where the index wraps.  `GlobalSpan` is small in the engine runs as
the counter feeds nothing else.  `AccSpan` is 4 where only carry-over is asked
and 2^18 in the runner runs, above twice the largest sum of four int8 products.
The preloaded states are reachable through register writes; starting there
keeps the interesting steps near.  `PROGRAM_LEN = 8`, `PcSpan = 16` in the
runner runs hold the seven instructions and five data slots of a tile.

Fairness.  The only fairness is that the clock keeps ticking (`WF` of the clock
action) and, in the runner runs, that the host program keeps executing.  No
fairness is put on what a host chooses to write, and none on resets.  The
polling loop of the runner is an action that changes nothing in the runner, so
`RunnerReturns` says that done is there whenever it looks.

Type invariants that are proved in section 5 for every instance (of both
wrappers, the compiler and the two schedulers) are not run a second time.

Deadlock is checked in every run whose system goes on for ever, that is, all but
three: the runner on the C++ model has no clock under it and returns, and the
toolchain ends with its result.

## 4. Findings

1. `axi_eager`: `axi_lite_host_regs.sv` keeps its ready outputs high while a
   response is pending.  A second write fires and is acknowledged once for
   both; a second read overwrites read data.  The comment at line 158 and the
   test at `tests_rtl/test_axi_lite_host_regs.py:181` say accesses are
   acknowledged.  A master that waits for its responses, as all in the
   repository do, is not affected (`axi_blocking`, and the theorem
   `AxiEveryAccessAnswered` for a master that streams).
2. `axi_c_runner`: the generated C runner reads C only if STATUS bit 2 is set.
   The AXI wrapper's STATUS has no such bit, so on it the runner returns without
   a result, while the docs offer it for memory-mapped FPGA drivers.
3. `emitted_accesses`: `instruction_to_memory_access` compares `str()` of an
   enum member with the plain opcode names, so it skips every emitted
   instruction object; the dictionary form has no size under a name it looks
   for, and is refused.  An emitted stream is reported conflict-free unexamined.
   The tests only pass dictionaries and accesses written by hand.

## 5. Proofs

TLAPS proves, from the named assumptions on the constants alone
(`ControllerAssumption`, `EngineAssumption`, `HostAssumption`, `AxiAssumption`,
`AccAssumption`, `OperandAssumption`; of the runners `WorkloadAssumption`,
`RegisterAssumption`, `MemoryAssumption`; of the toolchain `CompilerAssumption`,
`TiledAssumption`, `AttentionAssumption`, `RuntimeAssumption`, `TinyGPTAssumption`,
`VectorAssumption`, `LayoutAssumption`, `MemoryBankAssumption`, `QuantAssumption`).
They give types and positive sizes, with two bounds of the models in them: no
tensor that is multiplied or attended to is empty, and no quantised row is long
enough for its int32 accumulator to wrap (133,144 entries).  The runners' three
say that the matrices are int8, that a C register holds four int8 products with
their sign, and that the seven instructions of a tile fit the memory and the pc
counts past them.

The hardware:

- `InstructionController_proofs`: `ControllerInv` is inductive.  It joins the
  four invariants of the `controller` run, which need each other: the pc bound
  needs the type of `program_len`, the agreement of busy, valid and the cycle
  counter needs the positivity of fetched counts, and `RunsProgramMemory` needs
  busy to close the write port.  The lemmas `ProgramWriteEffect`, `Fetch` and
  `NormalizedCycles` carry the facts about memories; `ClockInv` has one step
  per branch of the sequencer.
- `MCInstructionController_proofs`: the controller implements
  `ProgramSequencer` (`ControllerPlays`), and `DoneMeansEveryMac` holds for every
  program, length and pair of operands.  What an edge does is one of five cases
  of the program in the memory: it begins a program, begins an empty one, holds,
  advances or finishes.  The strobes left are those of the current instruction
  and of the rest; a clock takes the first away.  `SteadyInv` adds `Due`: what is
  in the accumulators and the multiplications ahead make up the promised result.
- `TileEngineMem_proofs`: lemmas about one engine edge for any inputs that fit
  its ports.  `EngineInv` joins the types, `ControllerInv`, positive cycle
  counts in memory (the opcode that is fetched is the one that holds),
  `RunsLoadedProgram` and the two halves of `ResultIsOfThisRun`: `NothingCarriesOver`
  and `StoreSurvives`, that no wipe takes away what the last STORE_C stores.
  `EngineStep` needs one thing of
  its inputs: START and a program write never share an edge.  Its second half
  is about `Committed`, what the datapath will be: an edge of a run leaves it as
  it is, an idle edge moves it by what that edge does.
- `HostTileEngine_proofs`, `AxiMaster_proofs`: `OnePulse` is that one thing, and
  holds because a clock decodes one register write.  With it `EngineInv` is
  inductive for a host that writes anything at any time, so `RunsLoadedProgram`
  and `ResultIsOfThisRun` are theorems of `Spec`.  For a patient host
  `HostDoneMeansOver` adds that the done pulse never meets a START pulse; without
  it the flag of a run would be latched into the next.
  `AxiEveryAccessAnswered` is for a streaming master, `AxiDoneReadMeansOver` for a
  blocking one.  The second rests on the first: a START is high only while its
  own response is pending, so no read fires in the one clock in which the flag of
  the earlier run is still up.
- `HostIsService`, `AxiIsService`: both wrappers under a patient master implement
  `TileService`, for any program, memory and operands.  `ServiceInv` says that no
  START and no CLEAR reaches a run.  Each edge is then an abstract register
  write, the START of a run, its end, or a stutter.  That the result fixed at
  START is the one reached at the end needs `Interpret` of a program to be that of
  its rest after its first instruction, and an instruction held n + 1 clocks to be
  one clock and then n, which is arithmetic modulo `AccSpan`.
- `MCHostRunner_proofs`: from two int8 matrices to their product, for any pair of
  them, any number of exports and crashes, either device and any speed of the
  host.  `SystemInv` is inductive; its parts are those of the way the data take.
  `DirectoryInv` says what each file holds at each point of an export: the files
  before the current one are whole, the current one is cut at most, and those
  after it are as the exports before left them.  A cut JSON file does not parse.
  A cut hex file loads short and without an error, but the `expected_c.json` of
  its tile is written after it and is then missing, whence `LoadedIsWhole` (the
  mutant that writes `expected_c.json` first breaks it).  `Generated` and
  `InTable` say that the runner is at a place in the table of one workload.
  `IsLoaded` says what a device holds after the first n writes of that table:
  each instruction and each data word by the places behind, nothing of the tile
  before.  Both devices are shown to it through a view (`RtlView`, and the C++
  registers as they are), so that what a START finds is the tile program in both
  (`LoadedIsTileProgram`, `OfferedIsTileProgram`), and `RunOfTile` computes its
  result: `TwoProducts` adds up both K tiles, `SignBack` undoes the wrap.
  `OutputInv` follows the sixteen reads.  On the registers the result is
  `Promises`: it is what `TileService` commits to at START, and it is there when
  the polling loop ends, since `HostIsService` needs nothing of the register
  widths and is used here for them as they are.  `AllOnce` adds that every cycle
  count in the device is one, as a reset leaves them and the runner writes them.

The toolchain:

- `Stages_proofs`, the compiler: `CompilerInv` is inductive for any graphs and any
  accelerator.  Beside the types it says what validation knows before each op
  (`Stages`), that allocations and schedule are those of the first tensors and
  ops (`Prefixes`), and that every allocation ends where its bank is filled to,
  before those that were made later in it (`Filled`).  `ProgramInv` adds what a
  compiled program promises its interpreters.
- The tiled matmul: `MatmulInv` says that a cell of the tile accumulator
  holds the products of the inner tiles before `k0`, a cell of the output all of
  its products if its tile comes before the current one in the order of the two
  outer loops, and none otherwise.  The edge tile is where it is delicate: `m1`,
  `n1` and `k1` are cut to the matrix, and the next tile begins where the last
  one would have ended (`Bounds`).  `WorkAddsUp` follows the same order: the
  finished tiles whole and this one up to `k0`.
- The vectors cut from it: `VectorInv` follows the order of the regions.  Those
  before this one are sliced whole by their mac_tile events, this one up to `k0`,
  and no two events of a region share an inner index (`SlicedTo`, `MacsApart`).
  The tile after this one begins where no region has yet, so an event is never
  taken for one of another tile.  An index then has one event and one step of two
  in it (`StepsOnce`), so a vector adds it once (`VectorsOfProduct`).
- The attention schedule: a token has its score when its tile is behind, and its
  weight and contribution likewise in the later phases, so the softmax sees all
  of them (`TokensContribute`); both local schedules are contiguous
  (`LocalSchedule`); the multiplications are those of the estimate
  (`AttentionMacs`).
- The bank checker: `BankInv` says what is booked, which slots are left and
  which conflicts are in the result.  The checker counts users of a cycle and a
  bank; `VerdictIsExact` speaks of accesses that overlap pairwise.  Intervals that
  meet pairwise meet in the cycle in which the last of them begins, which is the
  step from one to the other for any number of ports.  `sorted()` has a first
  element because the booked cycles and banks, though they may be negative, are
  bounded from below.
- Quantisation: `np.round` is off by half of the divisor at most, a derived scale
  clips nothing, and the error of a product is the sum of the errors of its terms
  (`BoundStep`), for vectors of any length.
- `Toolchain_proofs`: every step of the toolchain is a step of the compiler, of
  the tiled matmul and of the attention schedule, or leaves their variables
  alone (`ToolchainCompiles`, `ToolchainMultiplies`, `ToolchainDecodes`), so
  that their theorems are theorems of `ToolchainSpec`.  The last two need
  `ToolchainInv`: whoever calls a scheduler calls it with shapes it is made for.
  It says that what the runtime has stored is what validation knew before the op
  in turn (`RuntimeInv`), which gives `RuntimeFindsValues`; that the graph
  compiled for a prompt is the adapter's (`TinyInv`); and that the collector
  begins when the runtime has ended (`CollectorInv`).  `AllocationsDisjoint`
  follows by the order of two allocations of a bank, and `OperandsReady` since
  the schedule begins only when every op was validated against what precedes it.
- `FlowInv` follows the schedules on: statistics are contiguous local schedules
  and the timeline lays them end to end (`TimelineInv`), whence `TimelineOrdered`.
  `TimelineKeepsWork` needs two more invariants.  `StatsInv`: while op names
  differ, each report is of one op that ran, no op has two, and the work and the
  cycles of the reports are sums over the ops that ran.  `PlacedInv`: the work and
  the length of the timeline are sums over the ops placed so far, each of which
  has its one row in the summary, and there are no other rows (`Shows`; `Weight`
  adds up over joined lists).  At the end every op ran and every op is placed,
  which makes both the same sum.  With two ops of one name the last report would
  count twice.
  `EmitterInv` says that the regions written so far end where their banks are
  filled to, whence `RegionsGrow`.  `ToolchainVerdicts` carries the bank
  checker's theorems to both of its callers: an emitted stream hands it the
  empty list or is refused.
- The two interpreters (end of `Toolchain_proofs`): `ReplayInv` says of each by
  itself that its values and its reports are those of a history, one op after the
  other, none of them refused (`Reached`), and that it stands where the history
  ends: at the end of the program or at an op it was refused (`Turn`).  Histories of one
  program are the same as far as both go (`HistoriesAgree`), so both interpreters
  stop at the same op, with the same values; this is
  `CollectorMirrorsRuntime` (`ToolchainMirrors`).  A history records what a
  tiled matmul reported, which is the same for both as its three loops have one
  run for a shape and a configuration (`OneOutcome`, along the steps from the
  first: `OnTrail`).  The inner steps of its vectors are counted event by event,
  those of an event by a bijection (`StepsOfMac`, `TilesCounted`).
- The decode step (middle of `Toolchain_proofs`): in a program that assigns every
  name once, each stored value is the op applied to the stored values of its
  inputs (`ValuesInv`), as no later op writes an input again.  For the decoder block that makes sixteen equations.
  The eager reference solves the same sixteen, whence `DecodeMatchesReference` for
  every prompt and cache length; the cache is the last rows of prompt and step,
  since padding a list and sliding a row into it commute (`CacheIsWindow`).

Induction.  What a fold over a list makes for every list cannot be had from the
library's induction theorems here.  Where a theorem needs it, the definition is a
recursive function over `0 .. Len(list)` (`SumOf`, `ProductOf`, `ScoreOf`,
`Interpret`); that such a function exists is proved from the least number at
which it would not (`LeastNat`, with the library's `NatLessThanWellFounded`), and
so is what it returns.

Only model-checked: liveness (`RunsEnd`, `RunnerReturns`, `RunsFinish`, and the
fairness of `IsTileService`: the theorems are about the safety part; fairness and
ENABLED are out of the prover's reach); the runner on the AXI registers (finding
2; its `OutputIsProduct` is that of a runner which polls another bit).

## 6. Not modelled

See `PROJECT.json` for every component.

- Floating-point rounding: values of the runtime are exact terms.  The
  comparison of FP32 with INT8 results in `tiny_gpt_adapter.py` is a measurement.
- `benchmark.py` measures wall-clock time.  `scripts/` list files and call
  Verilator: the order of two subprocesses and a file list have no state.
- The FPGA tops wire the AXI engine to ports.  `mac_unit.sv` is instantiated by
  nothing; it is one cell of the systolic tile with one product in place of two.
- The hand-written and random vectors of `rtl_test_vectors.py` and the checks of
  argument types in `rtl_reference.py` are data and exceptions without an order.
- Rendering of C and C++ text, of the Makefile and of JSON.
- `cache_len = 0` of the tiny GPT, which numpy slices differently (`[-0:]` is the
  whole array): `TinyGPTAssumption` excludes it, and no caller passes it.
- What a load returns after an export over an older bundle died: a mixture of the
  two.  `OneExport` excludes it from `LoadedIsWhole`, as nothing in the code
  promises anything of it; it is listed as a hazard.
- Tensors without a dimension, tensors a graph input names but does not declare,
  `axis` attributes, and results of another shape than the output declares:
  `RuntimeAssumption` excludes the first two, and a value has the shape of its tensor.
- `PROGRAM_LEN = 2^PC_WIDTH`, where the write port of the controller accepts
  nothing; no instance of the repository has it.
- Metastability and the timing of the asynchronous reset are below the
  clock-edge abstraction.

## 7. Plan

Done: the RTL from the controller to both register files, AXI masters, bundle
directory and host runners, and the toolchain from a prompt to a checked stream
and to vectors.  Proofs: the engine's invariants in both wrappers, the AXI
channels, both refinements, the bundle directory and the runner on both of its
devices, the compiler, both schedulers with their work sums, the runtime, the
vectors and their collector, decode step, timeline order and work, emitter regions,
bank verdicts and quantisation.

Worth doing next:

- `OutputIsProduct` on the AXI registers: `AxiIsService` gives the promise, and
  the runner's part is proved for any device that keeps it.
