------------------------------ MODULE TiledMatmul ------------------------------
(***************************************************************************)
(* int8_tiled_matmul of opentsp/tiled_matmul.py: the three nested loops as *)
(* a machine whose steps are the micro-op events it emits.  The data are   *)
(* abstracted to what is summed: an accumulator cell counts, for each      *)
(* inner index k, how often a[i, k] * b[k, j] was added to it.             *)
(***************************************************************************)
EXTENDS ScheduleMath

CONSTANT Configs   \* bound: the TiledMatmulConfig values of this instance

Positive == Nat \ {0}
ASSUME TiledAssumption ==
  /\ Configs # {}
  /\ Configs \subseteq [tile_m : Positive, tile_n : Positive, tile_k : Positive,
                        mac_lanes : Positive, load_lanes : Positive, store_lanes : Positive,
                        load : Nat, compute : Nat, store : Nat]

VARIABLES
  shape, cfg,        \* the arguments; cfg passed validate()
  m0, n0, k0,        \* the loop variables
  stage,             \* the next event, "end", or "idle" between calls
  tile_cycle, tile_events,     \* the clock and the list of events
  tile_acc, acc      \* the accumulators of the output tile and of the output

args       == <<shape, cfg>>
loopVars   == <<m0, n0, k0>>
matmulVars == <<args, loopVars, stage, tile_cycle, tile_events, tile_acc, acc>>

m1 == Upto(m0, cfg.tile_m, shape.m)
n1 == Upto(n0, cfg.tile_n, shape.n)
k1 == Upto(k0, cfg.tile_k, shape.k)

Inner      == 0 .. shape.k - 1
Output     == (0 .. shape.m - 1) \X (0 .. shape.n - 1)
OutputTile == (m0 .. m1 - 1) \X (n0 .. n1 - 1)
NoTerms    == [k \in Inner |-> 0]

\* Before the first call.
MatmulInit ==
  /\ shape = [m |-> 1, k |-> 1, n |-> 1] /\ cfg = CHOOSE c \in Configs : TRUE
  /\ m0 = 0 /\ n0 = 0 /\ k0 = 0 /\ stage = "idle"
  /\ tile_cycle = 0 /\ tile_events = <<>>
  /\ acc = [ij \in Output |-> NoTerms] /\ tile_acc = acc

\* Operands of s.m x s.k and s.k x s.n.
CallMatmul(s, c) ==
  /\ stage = "idle"
  /\ shape' = s /\ cfg' = c
  /\ m0' = 0 /\ n0' = 0 /\ k0' = 0 /\ stage' = "load_a"
  /\ tile_cycle' = 0 /\ tile_events' = <<>>
  /\ acc' = [ij \in Output' |-> NoTerms'] /\ tile_acc' = acc'

ReturnMatmul ==
  /\ stage = "end" /\ stage' = "idle"
  /\ UNCHANGED <<args, loopVars, tile_cycle, tile_events, tile_acc, acc>>

LoadCycles(elements)  == cfg.load + CeilDiv(elements, cfg.load_lanes)
ComputeCycles(macs)   == cfg.compute + CeilDiv(macs, cfg.mac_lanes)
StoreCycles(elements) == cfg.store + CeilDiv(elements, cfg.store_lanes)

Emit(kind, kRange, cycles, bytes, macs) ==
  /\ tile_events' = Append(tile_events,
       [kind |-> kind, m_range |-> <<m0, m1>>, n_range |-> <<n0, n1>>, k_range |-> kRange,
        start |-> tile_cycle, end |-> tile_cycle + cycles, cycles |-> cycles,
        bytes |-> bytes, macs |-> macs])
  /\ tile_cycle' = tile_cycle + cycles

LoadATile ==
  /\ stage = "load_a" /\ stage' = "load_b"
  /\ LET elements == (m1 - m0) * (k1 - k0) IN
       Emit("load_a_tile", <<k0, k1>>, LoadCycles(elements), elements, 0)
  /\ UNCHANGED <<args, loopVars, tile_acc, acc>>

LoadBTile ==
  /\ stage = "load_b" /\ stage' = "mac"
  /\ LET elements == (k1 - k0) * (n1 - n0) IN
       Emit("load_b_tile", <<k0, k1>>, LoadCycles(elements), elements, 0)
  /\ UNCHANGED <<args, loopVars, tile_acc, acc>>

\* tile_acc += a[m0:m1, k0:k1] @ b[k0:k1, n0:n1]
MutantAccumulated ==
  [ij \in Output |-> [k \in Inner |->
     IF ij \in OutputTile /\ k \in k0 .. k1 - 1 THEN 1 ELSE 0]]
Accumulated ==
  [ij \in Output |-> [k \in Inner |->
     tile_acc[ij][k] + IF ij \in OutputTile /\ k \in k0 .. k1 - 1 THEN 1 ELSE 0]]

MutantLastTile == k0 + cfg.tile_k >= shape.k - 1
LastTile == k0 + cfg.tile_k >= shape.k

MacTile ==
  /\ stage = "mac"
  /\ LET macs == (m1 - m0) * (n1 - n0) * (k1 - k0) IN
       Emit("mac_tile", <<k0, k1>>, ComputeCycles(macs), 0, macs)
  /\ tile_acc' = Accumulated
  /\ IF LastTile THEN stage' = "store" /\ UNCHANGED k0
     ELSE stage' = "load_a" /\ k0' = k0 + cfg.tile_k
  /\ UNCHANGED <<args, m0, n0, acc>>

\* The next output tile: the n loop inside the m loop.  tile_acc starts at zero.
NextOutputTile ==
  LET lastN == n0 + cfg.tile_n >= shape.n
      lastM == m0 + cfg.tile_m >= shape.m
  IN /\ k0' = 0 /\ tile_acc' = [ij \in Output |-> NoTerms]
     /\ n0' = IF lastN THEN 0 ELSE n0 + cfg.tile_n
     /\ m0' = IF lastN /\ ~lastM THEN m0 + cfg.tile_m ELSE m0
     /\ stage' = IF lastN /\ lastM THEN "end" ELSE "load_a"

StoreCTile ==
  /\ stage = "store"
  /\ LET elements == (m1 - m0) * (n1 - n0) IN
       Emit("store_c_tile", <<0, shape.k>>, StoreCycles(elements), elements * 4, 0)
  /\ acc' = [ij \in Output |-> IF ij \in OutputTile THEN tile_acc[ij] ELSE acc[ij]]
  /\ NextOutputTile
  /\ UNCHANGED args

MatmulSteps == LoadATile \/ LoadBTile \/ MacTile \/ StoreCTile

\* The function by itself: called with operands of any shape, again and again.
Shapes     == [m : Positive, k : Positive, n : Positive]
MatmulNext == (\E s \in Shapes, c \in Configs : CallMatmul(s, c)) \/ MatmulSteps \/ ReturnMatmul
MatmulSpec == MatmulInit /\ [][MatmulNext]_matmulVars

-----------------------------------------------------------------------------
\* The loop variables stay inside the matrices and the accumulators keep their shape.
MatmulTypeOK ==
  /\ shape \in Shapes /\ cfg \in Configs
  /\ m0 \in 0 .. shape.m - 1 /\ n0 \in 0 .. shape.n - 1 /\ k0 \in 0 .. shape.k - 1
  /\ stage \in {"load_a", "load_b", "mac", "store", "end", "idle"}
  /\ tile_cycle \in Nat
  /\ tile_acc \in [Output -> [Inner -> Nat]] /\ acc \in [Output -> [Inner -> Nat]]

\* An output cell is written once, with every product of its sum added exactly
\* once, however the tiles divide the matrices; at the end all cells are written.
EveryProductOnce ==
  /\ \A ij \in Output : acc[ij] = NoTerms \/ \A k \in Inner : acc[ij][k] = 1
  /\ stage = "end" => \A ij \in Output : acc[ij] # NoTerms

\* The bytes of the output tiles that were stored.
StoredBytes ==
  SumOf([i \in DOMAIN tile_events |->
           IF tile_events[i].kind = "store_c_tile" THEN tile_events[i].bytes ELSE 0])

\* The work the events claim adds up to that of the product: all its
\* multiplications, and each output cell stored once as an int32.
WorkAddsUp ==
  stage = "end" =>
    /\ MacsOf(tile_events) = shape.m * shape.n * shape.k
    /\ StoredBytes = 4 * shape.m * shape.n
=============================================================================
