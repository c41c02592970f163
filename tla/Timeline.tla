-------------------------------- MODULE Timeline --------------------------------
(***************************************************************************)
(* build_unified_timeline of opentsp/timeline.py: the local schedules of   *)
(* the accelerated ops placed one after the other in schedule order, and   *)
(* one baseline event for every other op.                                  *)
(***************************************************************************)
EXTENDS AcceleratorRuntime

VARIABLES
  include_fallback_ops,   \* the argument
  placed,                 \* ops placed
  events, cycle,          \* the timeline so far
  timeline                \* "no", "building", "built"

timelineVars == <<include_fallback_ops, placed, events, cycle, timeline>>

TimelineInit ==
  /\ include_fallback_ops = TRUE
  /\ placed = 0 /\ events = <<>> /\ cycle = 0 /\ timeline = "no"

StartTimeline ==
  /\ running = "ran" /\ timeline = "no" /\ timeline' = "building"
  /\ include_fallback_ops' \in BOOLEAN
  /\ UNCHANGED <<placed, events, cycle>>

\* _stat_map keeps the last statistics of a name.
MutantNamed(stats, name) == DOMAIN stats
Named(stats, name) == {i \in DOMAIN stats : stats[i].op_name = name}
StatOf(stats, name) == stats[CHOOSE i \in Named(stats, name) : \A j \in Named(stats, name) : j <= i]

\* _append_event for each event of a local schedule.
MutantShifted(op, source, list) ==
  [i \in DOMAIN list |->
    [op_name |-> op.name, source |-> source, micro_op |-> list[i].kind,
     start |-> cycle + list[i].start, end |-> cycle + list[i].cycles,
     cycles |-> list[i].cycles, bytes |-> list[i].bytes, macs |-> list[i].macs]]
Shifted(op, source, list) ==
  [i \in DOMAIN list |->
    [op_name |-> op.name, source |-> source, micro_op |-> list[i].kind,
     start |-> cycle + list[i].start, end |-> cycle + list[i].end,
     cycles |-> list[i].cycles, bytes |-> list[i].bytes, macs |-> list[i].macs]]

PlaceStat(op, source, stat) ==
  /\ events' = events \o Shifted(op, source, stat.events)
  /\ cycle' = cycle + stat.cycles

\* An op left out of the events still takes its cycles.
PlaceBaseline(op) ==
  LET whole == [kind |-> op.kind, start |-> 0, end |-> op.cycles, cycles |-> op.cycles,
                bytes |-> 0, macs |-> 0]
  IN /\ events' = IF include_fallback_ops THEN events \o Shifted(op, "baseline", <<whole>>) ELSE events
     /\ cycle' = cycle + op.cycles

PlaceOp ==
  /\ timeline = "building" /\ placed < Len(schedule)
  /\ LET op == schedule[placed + 1]
         matmul    == Named(matmul_stats, op.name)
         attention == Named(attention_stats, op.name)
     IN \/ matmul # {} /\ PlaceStat(op, "tiled_matmul", StatOf(matmul_stats, op.name))
        \/ matmul = {} /\ attention # {} /\ PlaceStat(op, "kv_attention", StatOf(attention_stats, op.name))
        \/ matmul = {} /\ attention = {} /\ PlaceBaseline(op)
  /\ placed' = placed + 1
  /\ UNCHANGED <<include_fallback_ops, timeline>>

EndTimeline ==
  /\ timeline = "building" /\ placed = Len(schedule) /\ timeline' = "built"
  /\ UNCHANGED <<include_fallback_ops, placed, events, cycle>>

TimelineSteps == StartTimeline \/ PlaceOp \/ EndTimeline

\* Rows of op, source, number of events and cycles, one for each op and source.
\* The order of the rows is left out.
KeyOf(e) == <<e.op_name, e.source>>
EventsOf(list, key) == SumOf([i \in DOMAIN list |-> IF KeyOf(list[i]) = key THEN 1 ELSE 0])
CyclesOf(list, key) == SumOf([i \in DOMAIN list |-> IF KeyOf(list[i]) = key THEN list[i].cycles ELSE 0])
op_summary(list) ==
  {<<key[1], key[2], EventsOf(list, key), CyclesOf(list, key)>> : key \in {KeyOf(list[i]) : i \in DOMAIN list}}

-----------------------------------------------------------------------------
\* The global timeline has no gap and no overlap when every op is in it, and
\* no overlap when the baseline ops are left out, whatever mixture of backends
\* the ops ran on.
TimelineOrdered ==
  /\ include_fallback_ops => Contiguous(events, cycle)
  /\ \A i \in DOMAIN events :
       /\ events[i].end <= cycle
       /\ i > 1 => events[i - 1].end <= events[i].start

Moved(list)     == SumOf([i \in DOMAIN list |-> list[i].macs + list[i].bytes])
AllMoved(stats) == SumOf([i \in DOMAIN stats |-> Moved(stats[i].events)])
DistinctNames   == \A i, j \in DOMAIN schedule : schedule[i].name = schedule[j].name => i = j

RowOf(source, stats) ==
  {<<stats[i].op_name, source, Len(stats[i].events), stats[i].cycles>> : i \in DOMAIN stats}
Baseline == {i \in DOMAIN schedule : /\ Named(matmul_stats, schedule[i].name) = {}
                                     /\ Named(attention_stats, schedule[i].name) = {}}

\* The timeline loses nothing and counts nothing twice: its summary has one row
\* for each op, with the events and cycles its backend reported (none for a
\* baseline op that was left out), every multiplication and byte is there once,
\* and it is as long as all its ops together.  Op names must differ, which
\* nothing checks: statistics of two ops of one name are the last one's.
TimelineKeepsWork ==
  (timeline = "built" /\ DistinctNames) =>
    /\ Moved(events) = AllMoved(matmul_stats) + AllMoved(attention_stats)
    /\ op_summary(events) =
         RowOf("tiled_matmul", matmul_stats) \cup RowOf("kv_attention", attention_stats)
         \cup IF include_fallback_ops
              THEN {<<schedule[i].name, "baseline", 1, schedule[i].cycles>> : i \in Baseline} ELSE {}
    /\ cycle = total_accelerator_cycles
                + SumOf([i \in DOMAIN schedule |-> IF i \in Baseline THEN schedule[i].cycles ELSE 0])
=============================================================================
