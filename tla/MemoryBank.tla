------------------------------ MODULE MemoryBank ------------------------------
(***************************************************************************)
(* check_memory_bank_conflicts of opentsp/memory_bank.py: it validates the *)
(* accesses, books each one in every cycle it is active, and judges each   *)
(* booked <<cycle, bank>>.  Messages and the order in which the accesses   *)
(* of a conflict are listed are left out.                                  *)
(***************************************************************************)
EXTENDS Integers, Sequences, FiniteSets

CONSTANTS
  Streams,   \* bound: the lists of accesses to check
  Banks      \* bound: the MemoryBankConfig values

MemoryAccess ==
  [kind : STRING, bank : Int, start_cycle : Int, cycles : Int, offset : Int, size_bytes : Int]

ASSUME MemoryBankAssumption ==
  /\ Streams \subseteq Seq(MemoryAccess)
  /\ Banks # {}
  /\ \A b \in Banks : {b.num_banks, b.bank_size_bytes, b.read_ports, b.write_ports} \subseteq Nat \ {0}

VARIABLES
  accesses, bank_cfg,   \* the arguments
  booked,               \* accesses_by_cycle_bank, as a set of <<cycle, bank, position>>
  at,                   \* the access being booked, then Len(accesses) + 1
  slots,                \* the <<cycle, bank>> still to be judged
  verdict,              \* "idle" before a call, "open" until the result is returned
  conflicts             \* what was found: kind, cycle (or none), bank, positions

bankVars == <<accesses, bank_cfg, booked, at, slots, verdict, conflicts>>

MemoryBankInit ==
  /\ accesses = <<>> /\ bank_cfg = CHOOSE b \in Banks : TRUE
  /\ booked = {} /\ at = 1 /\ slots = {} /\ verdict = "idle" /\ conflicts = {}

CallChecker(list, b) ==
  /\ verdict = "idle" /\ verdict' = "open"
  /\ accesses' = list /\ bank_cfg' = b
  /\ UNCHANGED <<booked, at, slots, conflicts>>

EndCycle(a) == a.start_cycle + a.cycles

Conflict(kind, cycle, bank, which) ==
  [kind |-> kind, cycle |-> cycle, bank |-> bank, accesses |-> which]

MutantInvalid(a) ==
  (IF a.kind \notin {"read", "write"} \/ a.start_cycle < 0 \/ a.cycles <= 0
        \/ a.offset < 0 \/ a.size_bytes <= 0
   THEN {"invalid_access"} ELSE {})
  \cup
  (IF a.bank \notin 0 .. bank_cfg.num_banks - 1 \/ a.offset >= bank_cfg.bank_size_bytes
   THEN {"out_of_bounds"} ELSE {})

\* _validate_access: the kinds of complaint about one access.
Invalid(a) ==
  (IF a.kind \notin {"read", "write"} \/ a.start_cycle < 0 \/ a.cycles <= 0
        \/ a.offset < 0 \/ a.size_bytes <= 0
   THEN {"invalid_access"} ELSE {})
  \cup
  (IF a.bank \notin 0 .. bank_cfg.num_banks - 1
        \/ a.offset + a.size_bytes > bank_cfg.bank_size_bytes
   THEN {"out_of_bounds"} ELSE {})

\* Accesses of no cycles are complained about but not booked.
MutantActive(n) ==
  {<<c, accesses[n].bank, n>> : c \in accesses[n].start_cycle .. EndCycle(accesses[n])}
Active(n) ==
  {<<c, accesses[n].bank, n>> : c \in accesses[n].start_cycle .. EndCycle(accesses[n]) - 1}

BookAccess ==
  /\ verdict = "open" /\ at <= Len(accesses)
  /\ at' = at + 1
  /\ booked' = booked \cup Active(at)
  /\ conflicts' = conflicts \cup
       {Conflict(kind, {}, accesses[at].bank, {at}) : kind \in Invalid(accesses[at])}
  /\ slots' = {<<b[1], b[2]>> : b \in booked'}
  /\ UNCHANGED <<accesses, bank_cfg, verdict>>

Users(slot, kind) ==
  {n \in DOMAIN accesses : <<slot[1], slot[2], n>> \in booked /\ accesses[n].kind = kind}

Before(s, t) == s[1] < t[1] \/ (s[1] = t[1] /\ s[2] < t[2])
NextSlot == CHOOSE s \in slots : \A t \in slots \ {s} : Before(s, t)

\* The read/write rule is asked only when the ports suffice.
MutantJudged(slot) ==
  LET reads  == Users(slot, "read")
      writes == Users(slot, "write")
      Found(kind, which) == {Conflict(kind, {slot[1]}, slot[2], which)}
  IN IF Cardinality(reads) > bank_cfg.read_ports THEN Found("read_port_conflict", reads)
     ELSE IF Cardinality(writes) > bank_cfg.write_ports THEN Found("write_port_conflict", writes)
     ELSE IF reads # {} /\ writes # {} /\ ~bank_cfg.same_cycle THEN Found("read_write_conflict", reads \cup writes)
     ELSE {}
Judged(slot) ==
  LET reads  == Users(slot, "read")
      writes == Users(slot, "write")
      Found(kind, which, found) == IF found THEN {Conflict(kind, {slot[1]}, slot[2], which)} ELSE {}
  IN Found("read_port_conflict", reads, Cardinality(reads) > bank_cfg.read_ports)
     \cup Found("write_port_conflict", writes, Cardinality(writes) > bank_cfg.write_ports)
     \cup Found("read_write_conflict", reads \cup writes,
                reads # {} /\ writes # {} /\ ~bank_cfg.same_cycle)

JudgeSlot ==
  /\ verdict = "open" /\ at > Len(accesses) /\ slots # {}
  /\ conflicts' = conflicts \cup Judged(NextSlot)
  /\ slots' = slots \ {NextSlot}
  /\ UNCHANGED <<accesses, bank_cfg, booked, at, verdict>>

Return ==
  /\ at > Len(accesses) /\ slots = {} /\ verdict = "open"
  /\ verdict' = IF conflicts = {} THEN "ok" ELSE "conflicts"
  /\ UNCHANGED <<accesses, bank_cfg, booked, at, slots, conflicts>>

CheckerSteps == BookAccess \/ JudgeSlot \/ Return

\* The checker by itself, called once with any list.
BankNext == (\E list \in Seq(MemoryAccess), b \in Banks : CallChecker(list, b)) \/ CheckerSteps
BankSpec == MemoryBankInit /\ [][BankNext]_bankVars

-----------------------------------------------------------------------------
(* What the answer must be, said without counting cycles: accesses as      *)
(* intervals, and ports as how many may overlap pairwise.                  *)

Overlap(a, b) == a.bank = b.bank /\ a.start_cycle < EndCycle(b) /\ b.start_cycle < EndCycle(a)

OfKind(kind) == {n \in DOMAIN accesses : accesses[n].kind = kind /\ accesses[n].cycles > 0}

Crowded(kind, ports) ==
  \E S \in SUBSET OfKind(kind) :
    Cardinality(S) > ports /\ \A n, m \in S : Overlap(accesses[n], accesses[m])

Collide == \E r \in OfKind("read"), w \in OfKind("write") : Overlap(accesses[r], accesses[w])

Fits(a) == /\ a.bank >= 0 /\ a.bank < bank_cfg.num_banks
           /\ \A byte \in a.offset .. a.offset + a.size_bytes - 1 : byte < bank_cfg.bank_size_bytes

Reported(kind) == \E c \in conflicts : c.kind = kind

\* The checker reports each kind of port conflict exactly when accesses of one
\* bank overlap pairwise beyond the ports, or a read overlaps a write that may
\* not: no conflict is missed because another one hides it, and none is made
\* up for accesses that only touch.
VerdictIsExact ==
  verdict \in {"ok", "conflicts"} =>
    /\ Reported("read_port_conflict") <=> Crowded("read", bank_cfg.read_ports)
    /\ Reported("write_port_conflict") <=> Crowded("write", bank_cfg.write_ports)
    /\ Reported("read_write_conflict") <=> (Collide /\ ~bank_cfg.same_cycle)

\* A list the checker passes touches no byte and no bank that does not exist,
\* and no access in it is empty.
OkMeansInBounds ==
  verdict = "ok" => \A n \in DOMAIN accesses : Fits(accesses[n]) /\ accesses[n].cycles > 0
=============================================================================
