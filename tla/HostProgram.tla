------------------------------ MODULE HostProgram ------------------------------
(***************************************************************************)
(* The software side of a 4x4 matmul on the 2x2 engine: the four tile      *)
(* programs of opentsp/rtl_matmul_program.py, the words hardware_export.py *)
(* packs them into, the tiles hardware_loader.py unpacks again, and the    *)
(* register writes host_driver.py and c_host_runner.py make of them.       *)
(* A 32-bit word is its four bytes, the lowest first.                      *)
(***************************************************************************)
EXTENDS TileMath, Sequences

Dim    == 0 .. 3
Matrix == [Dim \X Dim -> Int8]

CONSTANT Workloads   \* bound: the <<A, B>> matrix pairs to multiply
ASSUME WorkloadAssumption == Workloads \subseteq Matrix \X Matrix

\* The definition the hardware is measured against: C = A x B.
MatMul(a, b) ==
  [rc \in Dim \X Dim |->
     a[<<rc[1], 0>>] * b[<<0, rc[2]>>] + a[<<rc[1], 1>>] * b[<<1, rc[2]>>]
       + a[<<rc[1], 2>>] * b[<<2, rc[2]>>] + a[<<rc[1], 3>>] * b[<<3, rc[2]>>]]

Block(m, r, k) == [ij \in Cell |-> m[<<r + ij[1], k + ij[2]>>]]

-----------------------------------------------------------------------------
(* rtl_matmul_program.py: one program for each output tile, in the order   *)
(* of the loops over c_row and c_col.                                      *)

TileNumbers == 1 .. 4
CRow(t) == 2 * ((t - 1) \div 2)
CCol(t) == 2 * ((t - 1) % 2)
Name(t) == <<"c00", "c01", "c10", "c11">>[t]

OpNames == <<"LOAD_A", "LOAD_B", "MAC_TILE", "STORE_C">>
OpName(opcode) == IF opcode \in DOMAIN OpNames THEN OpNames[opcode] ELSE "NOP"

\* Two K tiles, one cycle an instruction; a LOAD takes the tile at its own pc.
Opcodes == <<1, 2, 3, 1, 2, 3, 4>>
LoadPcs == {[k |-> 0, a |-> 0, b |-> 1], [k |-> 2, a |-> 3, b |-> 4]}

DataTiles(w, t) ==
  UNION {{[bank |-> 0, addr |-> ld.a, values |-> Block(w[1], CRow(t), ld.k)],
          [bank |-> 1, addr |-> ld.b, values |-> Block(w[2], ld.k, CCol(t))]} : ld \in LoadPcs}

TileProgram(w, t) ==
  [name |-> Name(t), c_row |-> CRow(t), c_col |-> CCol(t),
   instructions |-> [pc \in DOMAIN Opcodes |-> [opcode |-> Opcodes[pc], cycles |-> 1]],
   data_tiles |-> DataTiles(w, t),
   expected_c |-> Block(MatMul(w[1], w[2]), CRow(t), CCol(t))]

-----------------------------------------------------------------------------
(* hardware_export.py: words.                                              *)

ToU8(v)   == v % 256
FromU8(u) == IF u >= 128 THEN u - 256 ELSE u

pack_i8x4(values) ==
  <<ToU8(values[<<0, 0>>]), ToU8(values[<<0, 1>>]), ToU8(values[<<1, 0>>]), ToU8(values[<<1, 1>>])>>
unpack_i8x4(word) == [ij \in Cell |-> FromU8(word[2 * ij[1] + ij[2] + 1])]

pack_instruction_word(instr) ==
  <<instr.opcode, instr.cycles % 256, instr.cycles \div 256, 0>>
unpack_instruction_word(word) ==
  [opcode |-> word[1], cycles |-> word[2] + 256 * word[3], word |-> word]

InstructionWords(p) == [pc \in DOMAIN p.instructions |-> pack_instruction_word(p.instructions[pc])]

Highest(numbers) == CHOOSE n \in numbers : \A m \in numbers : m <= n

\* A memory image reaches to the highest address used, with zeros between.
MemoryWords(p, bank) ==
  LET used == {d \in p.data_tiles : d.bank = bank}
      at(n) == {d \in used : d.addr = n}
  IN [n \in 1 .. Highest({d.addr : d \in used}) + 1 |->
        IF at(n - 1) = {} THEN <<0, 0, 0, 0>>
        ELSE pack_i8x4((CHOOSE d \in at(n - 1) : TRUE).values)]

-----------------------------------------------------------------------------
(* hardware_loader.py: a tile program of a bundle, from its entry in the   *)
(* manifest and the contents of its four files.                            *)

LoadedTileProgram(entry, instrWords, aWords, bWords, expected) ==
  [name |-> entry.name, c_row |-> entry.c_row, c_col |-> entry.c_col,
   program_len |-> entry.program_len,
   instructions |-> [n \in DOMAIN instrWords |-> unpack_instruction_word(instrWords[n])],
   a_memory |-> [n \in DOMAIN aWords |-> unpack_i8x4(aWords[n])],
   b_memory |-> [n \in DOMAIN bWords |-> unpack_i8x4(bWords[n])],
   expected_c |-> expected]

ManifestEntry(p) ==
  [name |-> p.name, c_row |-> p.c_row, c_col |-> p.c_col, program_len |-> Len(p.instructions)]

\* A matrix from the outputs of its tiles, written in the order of the tiles.
reconstruct_matrix_from_tile_outputs(tiles, outputs) ==
  LET Covers(t, rc) == <<rc[1] - tiles[t].c_row, rc[2] - tiles[t].c_col>> \in Cell
  IN [rc \in Dim \X Dim |->
        LET writers == {t \in DOMAIN tiles : Covers(t, rc)} IN
        IF writers = {} THEN 0
        ELSE LET t == Highest(writers) IN outputs[t][<<rc[1] - tiles[t].c_row, rc[2] - tiles[t].c_col>>]]

\* The tile programs of a bundle whose files are all there.
WholeBundle(w) ==
  [t \in TileNumbers |->
     LET p == TileProgram(w, t)
     IN LoadedTileProgram(ManifestEntry(p), InstructionWords(p),
                          MemoryWords(p, 0), MemoryWords(p, 1), p.expected_c)]

-----------------------------------------------------------------------------
(* host_driver.py: the host writes of one tile program, and of the bundle. *)

ADDR == [CONTROL |-> 0, STATUS |-> 4, PROGRAM_LEN |-> 8, PC |-> 12,
         INSTR_ADDR |-> 16, INSTR_WORD |-> 20, DATA_ADDR |-> 24, DATA_BANK |-> 28,
         DATA_WORD |-> 32, C00 |-> 48, C01 |-> 52, C10 |-> 56, C11 |-> 60]

CONTROL_START == 1
CONTROL_CLEAR == 2

HostWrite(addr, value) == [addr |-> addr, value |-> value]

\* Two writes an instruction, three a word of a memory.
InstrWrites(tile) ==
  [n \in 1 .. 2 * Len(tile.instructions) |->
     IF n % 2 = 1 THEN HostWrite(ADDR.INSTR_ADDR, n \div 2)
                  ELSE HostWrite(ADDR.INSTR_WORD, tile.instructions[n \div 2].word)]

BankWrites(bank, memory) ==
  [n \in 1 .. 3 * Len(memory) |->
     CASE n % 3 = 1 -> HostWrite(ADDR.DATA_BANK, bank)
       [] n % 3 = 2 -> HostWrite(ADDR.DATA_ADDR, n \div 3)
       [] n % 3 = 0 -> HostWrite(ADDR.DATA_WORD, pack_i8x4(memory[n \div 3]))]

TileWrites(tile) ==
  <<HostWrite(ADDR.CONTROL, CONTROL_CLEAR)>>
    \o InstrWrites(tile) \o BankWrites(0, tile.a_memory) \o BankWrites(1, tile.b_memory)
    \o <<HostWrite(ADDR.PROGRAM_LEN, tile.program_len), HostWrite(ADDR.CONTROL, CONTROL_START)>>

BundleWrites(tiles) ==
  TileWrites(tiles[1]) \o TileWrites(tiles[2]) \o TileWrites(tiles[3]) \o TileWrites(tiles[4])

\* Four products of int8 values fit a C register with their sign.
ASSUME RegisterAssumption == AccSpan > 8 * 128 * 128

\* (int32_t) of a C register.
ToSigned(word) == IF 2 * word >= AccSpan THEN word - AccSpan ELSE word
=============================================================================
