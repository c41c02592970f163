--------------------------- MODULE AttentionSchedule ---------------------------
(***************************************************************************)
(* schedule_attention_decode of opentsp/attention_schedule.py as a machine *)
(* whose steps are the events it adds.  The data are abstracted to which   *)
(* tokens have contributed how often to the scores and to the context.     *)
(* An empty cache, which makes the softmax raise, is not an input.         *)
(***************************************************************************)
EXTENDS ScheduleMath

CONSTANT Settings   \* bound: the AttentionScheduleConfig values of this instance

PositiveNat == Nat \ {0}
ASSUME AttentionAssumption ==
  /\ Settings # {}
  /\ Settings \subseteq [cache_tile : PositiveNat, vector_lanes : PositiveNat,
                         mac_lanes : PositiveNat, load_lanes : PositiveNat,
                         store_lanes : PositiveNat, load : Nat, compute : Nat,
                         reduce : Nat, store : Nat]

VARIABLES
  cache, setting,    \* the [tokens, dim] of the arguments; setting passed validate()
  t0,                \* the variable of both loops
  phase,             \* the next event, "end", or "idle" between calls
  now, trace,        \* cycle and events
  scored, weighted   \* contributions of each token to scores and context

attentionArgs == <<cache, setting>>
attentionVars == <<attentionArgs, t0, phase, now, trace, scored, weighted>>

Tokens     == 0 .. cache.tokens - 1
t1         == Upto(t0, setting.cache_tile, cache.tokens)
tileWork   == (t1 - t0) * cache.dim
LastTokens == t0 + setting.cache_tile >= cache.tokens

\* Before the first call.
AttentionInit ==
  /\ cache = [tokens |-> 1, dim |-> 1] /\ setting = CHOOSE c \in Settings : TRUE
  /\ t0 = 0 /\ phase = "idle" /\ now = 0 /\ trace = <<>>
  /\ scored = [t \in Tokens |-> 0] /\ weighted = scored

CallAttention(kv, c) ==
  /\ phase = "idle"
  /\ cache' = kv /\ setting' = c
  /\ t0' = 0 /\ phase' = "load_q_vector" /\ now' = 0 /\ trace' = <<>>
  /\ scored' = [t \in Tokens' |-> 0] /\ weighted' = scored'

ReturnAttention ==
  /\ phase = "end" /\ phase' = "idle"
  /\ UNCHANGED <<attentionArgs, t0, now, trace, scored, weighted>>

Load(elements)   == setting.load + CeilDiv(elements, setting.load_lanes)
Store(elements)  == setting.store + CeilDiv(elements, setting.store_lanes)
Compute(macs)    == setting.compute + CeilDiv(macs, setting.mac_lanes)
Vector(overhead) == overhead + CeilDiv(cache.tokens, setting.vector_lanes)

add_event(tokenRange, cycles, bytes, macs) ==
  /\ trace' = Append(trace,
       [kind |-> phase, token_range |-> tokenRange, start |-> now, end |-> now + cycles,
        cycles |-> cycles, bytes |-> bytes, macs |-> macs])
  /\ now' = now + cycles

\* The event of a phase that only moves on.
Straight(from, to, tokenRange, cycles, bytes) ==
  /\ phase = from /\ phase' = to
  /\ add_event(tokenRange, cycles, bytes, 0)
  /\ UNCHANGED <<attentionArgs, t0, scored, weighted>>

LoadQVector == Straight("load_q_vector", "load_k_tile", <<0, 1>>, Load(cache.dim), cache.dim * 4)
LoadKTile   == Straight("load_k_tile", "score_tile", <<t0, t1>>, Load(tileWork), tileWork * 4)
LoadVTile   == Straight("load_v_tile", "value_tile", <<t0, t1>>, Load(tileWork), tileWork * 4)

\* The end of a loop body: once more from the load, or on to the next phase.
MutantLoopOrGoOn(load, next) ==
  IF t0 + setting.cache_tile >= cache.tokens - 1 THEN t0' = 0 /\ phase' = next
  ELSE t0' = t0 + setting.cache_tile /\ phase' = load
LoopOrGoOn(load, next) ==
  IF LastTokens THEN t0' = 0 /\ phase' = next
  ELSE t0' = t0 + setting.cache_tile /\ phase' = load

ContributedOnce(f) == [t \in Tokens |-> f[t] + IF t \in t0 .. t1 - 1 THEN 1 ELSE 0]

ScoreTile ==
  /\ phase = "score_tile"
  /\ add_event(<<t0, t1>>, Compute(tileWork), 0, tileWork)
  /\ scored' = ContributedOnce(scored)
  /\ LoopOrGoOn("load_k_tile", "softmax_max_reduce")
  /\ UNCHANGED <<attentionArgs, weighted>>

SoftmaxPhases ==
  LET all == <<0, cache.tokens>> IN
  \/ Straight("softmax_max_reduce", "softmax_exp_sum", all, Vector(setting.reduce), 0)
  \/ Straight("softmax_exp_sum", "softmax_normalize", all, Vector(setting.reduce), 0)
  \/ Straight("softmax_normalize", "load_v_tile", all, Vector(setting.compute), 0)

MutantValueTile ==
  /\ phase = "value_tile"
  /\ add_event(<<t0, t1>>, Compute(tileWork), 0, tileWork)
  /\ weighted' = [t \in Tokens |-> IF t \in t0 .. t1 - 1 THEN 1 ELSE 0]
  /\ LoopOrGoOn("load_v_tile", "store_context")
  /\ UNCHANGED <<attentionArgs, scored>>
ValueTile ==
  /\ phase = "value_tile"
  /\ add_event(<<t0, t1>>, Compute(tileWork), 0, tileWork)
  /\ weighted' = ContributedOnce(weighted)
  /\ LoopOrGoOn("load_v_tile", "store_context")
  /\ UNCHANGED <<attentionArgs, scored>>

StoreContext == Straight("store_context", "end", <<0, 1>>, Store(cache.dim), cache.dim * 4)

AttentionSteps ==
  LoadQVector \/ LoadKTile \/ ScoreTile \/ SoftmaxPhases \/ LoadVTile \/ ValueTile \/ StoreContext

\* The function by itself: called with caches of any shape, again and again.
Caches        == [tokens : PositiveNat, dim : PositiveNat]
AttentionNext == (\E kv \in Caches, c \in Settings : CallAttention(kv, c)) \/ AttentionSteps \/ ReturnAttention
AttentionSpec == AttentionInit /\ [][AttentionNext]_attentionVars

-----------------------------------------------------------------------------
\* The softmax normalises a complete row: every cached token has been scored,
\* once, when its first phase begins, and stays so.
SoftmaxSeesEveryScore ==
  phase \notin {"idle", "load_q_vector", "load_k_tile", "score_tile"} => \A t \in Tokens : scored[t] = 1

\* The context that is stored holds every cached value, once.
ContextIsComplete ==
  phase \in {"store_context", "end"} => \A t \in Tokens : weighted[t] = 1

\* The multiplications the events claim are those the compiler's estimate for
\* attention_decode counts (compiler.py): one per score and one per value.
MacsMatchEstimate == phase = "end" => MacsOf(trace) = 2 * cache.tokens * cache.dim
=============================================================================
