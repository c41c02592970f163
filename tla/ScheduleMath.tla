----------------------------- MODULE ScheduleMath -----------------------------
(***************************************************************************)
(* What the schedulers of opentsp share: ceilings, tiles and lists of      *)
(* events; and the sums and products of lists.                             *)
(***************************************************************************)
EXTENDS Integers, Sequences

CeilDiv(n, d) == (n + d - 1) \div d

Upto(start, tile, limit) == IF start + tile < limit THEN start + tile ELSE limit

\* The sum and the product of a list of numbers, from its first to its last.
SumOf(list) ==
  LET upto[i \in 0 .. Len(list)] == IF i = 0 THEN 0 ELSE upto[i - 1] + list[i]
  IN  upto[Len(list)]
ProductOf(list) ==
  LET upto[i \in 0 .. Len(list)] == IF i = 0 THEN 1 ELSE upto[i - 1] * list[i]
  IN  upto[Len(list)]

\* The multiplications of a list of events.
MacsOf(list) == SumOf([i \in DOMAIN list |-> list[i].macs])

\* Every event starts where the one before it ended, the first one at 0, and
\* the last one ends at total.
Contiguous(list, total) ==
  /\ \A i \in DOMAIN list :
       /\ list[i].end = list[i].start + list[i].cycles
       /\ list[i].start = IF i = 1 THEN 0 ELSE list[i - 1].end
  /\ total = IF list = <<>> THEN 0 ELSE list[Len(list)].end
=============================================================================
