----------------------------- MODULE HardwareBundle -----------------------------
(***************************************************************************)
(* The bundle directory between export_hardware_bundle (hardware_export.py)*)
(* and load_hardware_bundle (hardware_loader.py).  An export rewrites its  *)
(* eighteen files one by one in place, each write opening the file first;  *)
(* it can die at any point, and a later export or load finds what is left. *)
(***************************************************************************)
EXTENDS HostProgram

CONSTANT MaxExports   \* bound: exports into the directory
ASSUME ExportAssumption == MaxExports \in Nat \ {0}

VARIABLES
  disk,      \* the contents of each file
  exported,  \* the workloads whose export into the directory began
  saved,     \* how many files the last of them has written
  exporter,  \* "idle", "opened" while a file is being written, "between", "dead"
  bundle     \* what load_hardware_bundle returned, or raised, since then

bundleVars == <<disk, exported, saved, exporter, bundle>>

\* The order of export_hardware_bundle: expected_c.json is the last of a tile.
MutantTileFiles == <<"expected_c.json", "instructions.hex", "a_memory.hex", "b_memory.hex">>
TileFiles == <<"instructions.hex", "a_memory.hex", "b_memory.hex", "expected_c.json">>

FilesOf(t) == [k \in 1 .. 4 |-> <<Name(t), TileFiles[k]>>]
ExportOrder ==
  <<<<"root", "manifest.json">>, <<"root", "expected_c.json">>>>
    \o FilesOf(1) \o FilesOf(2) \o FilesOf(3) \o FilesOf(4)

File == ({"root"} \X {"manifest.json", "expected_c.json"})
          \cup ({Name(t) : t \in TileNumbers} \X {TileFiles[k] : k \in 1 .. 4})

\* A file is missing, holds JSON, or holds hex words, one to a line.  A JSON
\* text that was cut short does not parse.
Missing == [kind |-> "missing"]
Broken  == [kind |-> "broken"]
Json(v) == [kind |-> "json", value |-> v]
Hex(ws) == [kind |-> "hex", words |-> ws]

Content(w, file) ==
  LET p == TileProgram(w, CHOOSE t \in TileNumbers : Name(t) = file[1])
  IN CASE file = <<"root", "manifest.json">>   ->
            Json([t \in TileNumbers |-> ManifestEntry(TileProgram(w, t))])
       [] file = <<"root", "expected_c.json">> -> Json(MatMul(w[1], w[2]))
       [] file[2] = "instructions.hex"         -> Hex(InstructionWords(p))
       [] file[2] = "a_memory.hex"             -> Hex(MemoryWords(p, 0))
       [] file[2] = "b_memory.hex"             -> Hex(MemoryWords(p, 1))
       [] OTHER                                -> Json(p.expected_c)

\* What a write that stopped early leaves: nothing, some of the lines, or a
\* last line without its low digits, which still reads as a hex word.
Shorter(word) == <<word[2], word[3], word[4], 0>>
Cuts(content) ==
  IF content.kind = "json" THEN {Broken}
  ELSE {Hex(SubSeq(content.words, 1, n)) : n \in 0 .. Len(content.words)} \cup
       {Hex([SubSeq(content.words, 1, n) EXCEPT ![n] = Shorter(@)]) : n \in DOMAIN content.words}

\* The workload the directory should hold.
Latest == exported[Len(exported)]

NotLoaded == [result |-> "none"]

BundleInit ==
  /\ disk = [file \in File |-> Missing]
  /\ exported = <<>> /\ saved = 0 /\ exporter = "idle" /\ bundle = NotLoaded

-----------------------------------------------------------------------------
(* export_hardware_bundle                                                  *)

StartExport ==
  /\ exporter \in {"idle", "dead"} /\ Len(exported) < MaxExports
  /\ \E w \in Workloads : exported' = Append(exported, w)
  /\ saved' = 0 /\ exporter' = "between" /\ bundle' = NotLoaded
  /\ UNCHANGED disk

\* Opening a file for writing empties it, and no JSON text is empty.
OpenFile ==
  /\ exporter = "between"
  /\ LET file == ExportOrder[saved + 1]
     IN disk' = [disk EXCEPT ![file] =
                   IF Content(Latest, file).kind = "hex" THEN Hex(<<>>) ELSE Broken]
  /\ exporter' = "opened"
  /\ UNCHANGED <<exported, saved, bundle>>

WriteFile ==
  /\ exporter = "opened"
  /\ disk' = [disk EXCEPT ![ExportOrder[saved + 1]] = Content(Latest, ExportOrder[saved + 1])]
  /\ saved' = saved + 1
  /\ exporter' = (IF saved' = Len(ExportOrder) THEN "idle" ELSE "between")
  /\ UNCHANGED <<exported, bundle>>

\* The process dies between two files, or in the middle of one.
Crash ==
  /\ \/ exporter = "between" /\ UNCHANGED disk
     \/ /\ exporter = "opened"
        /\ LET file == ExportOrder[saved + 1]
           IN \E cut \in Cuts(Content(Latest, file)) : disk' = [disk EXCEPT ![file] = cut]
  /\ exporter' = "dead"
  /\ UNCHANGED <<exported, saved, bundle>>

-----------------------------------------------------------------------------
(* load_hardware_bundle: every file must be there and every JSON parse; of *)
(* the hex files only the number of instructions is checked.               *)

Manifest == disk[<<"root", "manifest.json">>]
Words(t, name) == disk[<<Name(t), name>>].words

Readable == \A file \in File : disk[file].kind \notin {"missing", "broken"}

CountsAgree ==
  \A t \in TileNumbers : Len(Words(t, "instructions.hex")) = Manifest.value[t].program_len

LoadedBundle ==
  [result |-> "loaded",
   expected_c |-> disk[<<"root", "expected_c.json">>].value,
   tile_programs |-> [t \in TileNumbers |->
     LoadedTileProgram(Manifest.value[t], Words(t, "instructions.hex"),
       Words(t, "a_memory.hex"), Words(t, "b_memory.hex"),
       disk[<<Name(t), "expected_c.json">>].value)]]

Load ==
  /\ exporter \in {"idle", "dead"} /\ bundle = NotLoaded
  /\ bundle' = (IF Readable /\ CountsAgree THEN LoadedBundle ELSE [result |-> "raised"])
  /\ UNCHANGED <<disk, exported, saved, exporter>>

BundleNext == StartExport \/ OpenFile \/ WriteFile \/ Crash \/ Load

-----------------------------------------------------------------------------
\* Nothing is left in the directory from another export: the last one ended, or
\* it was the first.
OneExport == exporter = "idle" \/ Len(exported) = 1

\* load_hardware_bundle either raises or returns the whole workload: each tile
\* program has its instructions, its operand tiles at the addresses they are
\* loaded from, its place in C and its expected result.  In particular the
\* bundle of a first export that died half-way, in the middle of a hex file too,
\* is never taken for a bundle.
LoadedIsWhole ==
  bundle.result = "loaded" /\ exported # <<>> /\ OneExport =>
    LET w == Latest IN
    /\ bundle.expected_c = MatMul(w[1], w[2])
    /\ bundle.expected_c = reconstruct_matrix_from_tile_outputs(
         bundle.tile_programs, [t \in TileNumbers |-> bundle.tile_programs[t].expected_c])
    /\ \A t \in TileNumbers :
         LET p == TileProgram(w, t)  tile == bundle.tile_programs[t] IN
         /\ <<tile.name, tile.c_row, tile.c_col>> = <<p.name, p.c_row, p.c_col>>
         /\ Len(tile.instructions) = Len(p.instructions)
         /\ \A pc \in DOMAIN p.instructions :
              /\ tile.instructions[pc].opcode = p.instructions[pc].opcode
              /\ tile.instructions[pc].cycles = p.instructions[pc].cycles
         /\ \A d \in p.data_tiles :
              LET memory == IF d.bank = 0 THEN tile.a_memory ELSE tile.b_memory
              IN d.addr < Len(memory) /\ memory[d.addr + 1] = d.values
         /\ tile.expected_c = p.expected_c
=============================================================================
