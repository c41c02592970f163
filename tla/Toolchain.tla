------------------------------- MODULE Toolchain -------------------------------
(***************************************************************************)
(* The path from a graph to a checked instruction stream: compile, run,    *)
(* build the timeline, emit instructions, and give them to                 *)
(* opentsp/bank_conflict_checker.py.  The graph is the caller's, or the     *)
(* decode step that the tiny GPT adapter makes of a prompt.  The bank      *)
(* checker is also called by itself, on accesses written by hand.          *)
(***************************************************************************)
EXTENDS InstructionEmitter, MemoryBank, TinyGPT, VectorCollector, Quantisation
LOCAL INSTANCE SequencesExt

streamVars    == <<tinyVars, compilerVars, runtimeVars, backendVars, timelineVars, emitterVars,
                   vectorVars, product>>
toolchainVars == <<streamVars, bankVars>>

ToolchainInit ==
  /\ TinyGPTInit /\ CompilerInit /\ RuntimeInit /\ TimelineInit /\ EmitterInit /\ MemoryBankInit
  /\ VectorInit /\ QuantInit

-----------------------------------------------------------------------------
(* instruction_to_memory_access.  An emitted instruction is an object, or  *)
(* its to_dict().                                                          *)

Form == {"object", "to_dict"}

\* str() of a member of InstructionOpcode is not its value.
NameOf(instr, form) == IF form = "object" THEN <<"InstructionOpcode", instr.opcode>> ELSE <<instr.opcode>>

Reads  == {<<"LOAD_A">>, <<"LOAD_B">>}
Writes == {<<"STORE_C">>}

\* Neither form has a field of one of the three names of the size.
Converted(instr, form) ==
  IF NameOf(instr, form) \in Reads \cup Writes THEN "ValueError" ELSE "None"

\* check_instruction_memory_conflicts: what was not skipped was refused, so
\* that no access is left to check.
CheckEmitted ==
  /\ layout # <<>> /\ emitted = Len(events)
  /\ \E form \in Form, b \in Banks :
       IF \E i \in DOMAIN instructions : Converted(instructions[i], form) = "ValueError"
       THEN /\ verdict = "idle" /\ verdict' = "ValueError"
            /\ UNCHANGED <<accesses, bank_cfg, booked, at, slots, conflicts>>
       ELSE CallChecker(<<>>, b)

\* bound: an instance compiles a graph, checks a list, or multiplies.
Nothing == compiling = "idle" /\ adapter = "idle" /\ verdict = "idle" /\ product = <<>>

CheckByHand ==
  /\ Nothing /\ \E list \in Streams, b \in Banks : CallChecker(list, b)

-----------------------------------------------------------------------------
others == <<timelineVars, emitterVars, bankVars, product>>

CompileGraph == Nothing /\ \E c \in Compilations : Compile(c)
RunGraph     == adapter = "idle" /\ StartRun(Supplied)

\* bound: a program that has run goes on to a timeline or to test vectors.
ToolchainNext ==
  \/ (CompileGraph \/ CompilerSteps)
       /\ UNCHANGED <<tinyVars, runtimeVars, backendVars, vectorVars, others>>
  \/ (RunGraph \/ RuntimeSteps) /\ UNCHANGED <<tinyVars, compilerVars, vectorVars, others>>
  \/ product = <<>> /\ verdict = "idle" /\ TinyGPTSteps /\ UNCHANGED <<vectorVars, others>>
  \/ collecting = "no" /\ TimelineSteps
       /\ UNCHANGED <<tinyVars, compilerVars, runtimeVars, backendVars, emitterVars, bankVars, vectorVars, product>>
  \/ EmitterSteps
       /\ UNCHANGED <<tinyVars, compilerVars, runtimeVars, backendVars, timelineVars, bankVars, vectorVars, product>>
  \/ timeline = "no" /\ CollectorSteps /\ UNCHANGED <<tinyVars, compilerVars, runtimeVars, others>>
  \/ (CheckEmitted \/ CheckByHand \/ CheckerSteps) /\ UNCHANGED streamVars
  \/ Nothing /\ QuantizeAndMultiply
       /\ UNCHANGED <<tinyVars, compilerVars, runtimeVars, backendVars, timelineVars, emitterVars, bankVars, vectorVars>>

ToolchainSpec == ToolchainInit /\ [][ToolchainNext]_toolchainVars

-----------------------------------------------------------------------------
\* A conflict-checked stream was looked at: the checker gets an access for each
\* LOAD and each STORE the emitter made, as bank_conflict_checker.py says.
EmittedAccessesAreChecked ==
  verdict \in {"ok", "conflicts"} =>
    Len(SelectSeq(instructions, LAMBDA i : i.opcode \in {"LOAD_A", "LOAD_B", "STORE_C"}))
      <= Len(accesses)
=============================================================================
