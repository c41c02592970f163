---------------------------- MODULE ScheduleVectors ----------------------------
(***************************************************************************)
(* systolic_vectors_from_tiled_matmul_schedule of                          *)
(* opentsp/rtl_schedule_vectors.py: the mac_tile events of a tiled matmul  *)
(* cut into test vectors for the 2x2 RTL tile.  A vector is a window of    *)
(* the output and the inner ranges of its tile pairs, in order; what it    *)
(* expects is the sum over these ranges (rtl_test_vectors.py).             *)
(***************************************************************************)
EXTENDS TiledMatmul, FiniteSets

\* Where the events of a region are in the list.
MacEvents(region) ==
  {n \in DOMAIN tile_events : /\ tile_events[n].kind = "mac_tile"
                              /\ <<tile_events[n].m_range, tile_events[n].n_range>> = region}

Regions == {<<tile_events[n].m_range, tile_events[n].n_range>> :
              n \in {n \in DOMAIN tile_events : tile_events[n].kind = "mac_tile"}}

\* Inner steps of two; the last one of an event is cut at the event's range,
\* and padded with zeros.
MutantInnerSteps(e) ==
  LET lo == e.k_range[1] hi == e.k_range[2] IN
  [s \in 1 .. CeilDiv(hi - lo, 2) |-> <<lo + 2 * (s - 1), Upto(lo + 2 * (s - 1), 2, shape.k)>>]
InnerSteps(e) ==
  LET lo == e.k_range[1] hi == e.k_range[2] IN
  [s \in 1 .. CeilDiv(hi - lo, 2) |-> <<lo + 2 * (s - 1), Upto(lo + 2 * (s - 1), 2, hi)>>]

\* range(lo, hi, 2)
Every2(range) == {x \in range[1] .. range[2] - 1 : (x - range[1]) % 2 = 0}

\* A vector's inner steps are numbered by their event and their place in it.
StepNumbers(region) ==
  UNION {{n} \X DOMAIN InnerSteps(tile_events[n]) : n \in MacEvents(region)}

\* Rows and columns are cut at the matrix, not at the region.
Vectors ==
  UNION {
    {[region |-> region,
      steps |-> [number \in StepNumbers(region) |-> InnerSteps(tile_events[number[1]])[number[2]]],
      rows |-> <<r, Upto(r, 2, shape.m)>>, cols |-> <<c, Upto(c, 2, shape.n)>>]
        : r \in Every2(region[1]), c \in Every2(region[2])}
    : region \in Regions}

Within(x, range) == range[1] <= x /\ x < range[2]

\* The inner steps of all vectors.
k_tile_count == Cardinality(UNION {{v} \X DOMAIN v.steps : v \in Vectors})

\* How often a vector adds the product at inner index k.
Summed(v, k) == Cardinality({s \in DOMAIN v.steps : Within(k, v.steps[s])})

-----------------------------------------------------------------------------
\* The vectors drive the RTL tile through the same product the scheduler
\* computes: every output cell is in the window of a vector, and every vector
\* adds each inner index once, odd and partial tiles included.
VectorsComputeProduct ==
  stage = "end" =>
    /\ \A v \in Vectors : \A k \in Inner : Summed(v, k) = 1
    /\ \A ij \in Output : \E v \in Vectors : Within(ij[1], v.rows) /\ Within(ij[2], v.cols)

\* The pairs of inner indices that the mac_tiles of a list give the RTL tile, one
\* for every two inner indices and each window of an event.
InnerPairs(list) ==
  LET Half(range) == CeilDiv(range[2] - range[1], 2)
      Pairs(e)    == Half(e.m_range) * Half(e.n_range) * Half(e.k_range)
  IN SumOf([i \in DOMAIN list |-> IF list[i].kind = "mac_tile" THEN Pairs(list[i]) ELSE 0])
=============================================================================
