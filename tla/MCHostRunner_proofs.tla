-------------------------- MODULE MCHostRunner_proofs --------------------------
(***************************************************************************)
(* From two matrices to their product, for any int8 matrices: whatever is  *)
(* loaded from a bundle directory is a whole workload, and the runner      *)
(* generated from it stores A x B, in front of the native register file    *)
(* at any speed of the host or in front of the C++ register model.         *)
(* The argument has six parts: the words of a bundle and what they unpack  *)
(* to; the files a directory holds at each point of an export; the table   *)
(* of register writes; what a run of a loaded tile program computes; the   *)
(* runner, which relies on no more than the device's promises; and the     *)
(* two devices, which keep them.                                           *)
(***************************************************************************)
EXTENDS MCHostRunner, HostTileEngine_proofs

-----------------------------------------------------------------------------
(* What is in a bundle, for any pair of matrices.                          *)

Pair == Matrix \X Matrix

LEMMA CellIs == Cell = {<<0, 0>>, <<0, 1>>, <<1, 0>>, <<1, 1>>}
BY DEF Cell

LEMMA TilesAre ==
  /\ TileNumbers = {1, 2, 3, 4}
  /\ <<CRow(1), CCol(1)>> = <<0, 0>> /\ <<CRow(2), CCol(2)>> = <<0, 2>>
  /\ <<CRow(3), CCol(3)>> = <<2, 0>> /\ <<CRow(4), CCol(4)>> = <<2, 2>>
BY DEF TileNumbers, CRow, CCol

LEMMA NamesAre ==
  Name(1) = "c00" /\ Name(2) = "c01" /\ Name(3) = "c10" /\ Name(4) = "c11"
BY DEF Name

\* A block of an int8 matrix is a tile.
LEMMA BlockType ==
  ASSUME NEW m \in Matrix, NEW r \in {0, 2}, NEW k \in {0, 2}
  PROVE  Block(m, r, k) \in Tile
<1>1. ASSUME NEW ij \in Cell PROVE m[<<r + ij[1], k + ij[2]>>] \in Int8
  <2>1. <<r + ij[1], k + ij[2]>> \in Dim \X Dim
    BY DEF Cell, Dim
  <2>2. QED
    BY <2>1 DEF Matrix
<1>2. QED
  BY <1>1 DEF Block, Tile

\* Two's complement in a byte and back.
LEMMA ByteRoundTrip ==
  ASSUME NEW v \in Int8
  PROVE  ToU8(v) \in 0 .. 255 /\ FromU8(ToU8(v)) = v
BY DEF ToU8, FromU8, Int8

LEMMA PackRoundTrip ==
  ASSUME NEW values \in Tile
  PROVE  unpack_i8x4(pack_i8x4(values)) = values
<1>1. \A ij \in Cell : values[ij] \in Int8
  BY DEF Tile
<1>2. ASSUME NEW ij \in Cell PROVE FromU8(pack_i8x4(values)[2 * ij[1] + ij[2] + 1]) = values[ij]
  <2>1. CASE ij = <<0, 0>>
    BY <1>1, <2>1, ByteRoundTrip DEF pack_i8x4
  <2>2. CASE ij = <<0, 1>>
    BY <1>1, <2>2, ByteRoundTrip DEF pack_i8x4
  <2>3. CASE ij = <<1, 0>>
    BY <1>1, <2>3, ByteRoundTrip DEF pack_i8x4
  <2>4. CASE ij = <<1, 1>>
    BY <1>1, <2>4, ByteRoundTrip DEF pack_i8x4
  <2>5. QED
    BY <2>1, <2>2, <2>3, <2>4, CellIs
<1>3. values = [ij \in Cell |-> values[ij]]
  BY DEF Tile
<1>4. QED
  BY <1>2, <1>3 DEF unpack_i8x4

LEMMA ZeroPacks == Zero \in Tile /\ pack_i8x4(Zero) = <<0, 0, 0, 0>>
<1>1. \A ij \in Cell : Zero[ij] = 0
  BY DEF Zero
<1>2. QED
  BY <1>1, CellIs DEF pack_i8x4, ToU8, Zero, Tile, Int8

\* The A and B tile at an address of a program's memories.
ATileAt(w, t, n) ==
  IF n = 0 THEN Block(w[1], CRow(t), 0) ELSE IF n = 3 THEN Block(w[1], CRow(t), 2) ELSE Zero
BTileAt(w, t, n) ==
  IF n = 1 THEN Block(w[2], 0, CCol(t)) ELSE IF n = 4 THEN Block(w[2], 2, CCol(t)) ELSE Zero

LEMMA TileAtType ==
  ASSUME NEW w \in Pair, NEW t \in TileNumbers, NEW n \in Nat
  PROVE  ATileAt(w, t, n) \in Tile /\ BTileAt(w, t, n) \in Tile
<1>1. CRow(t) \in {0, 2} /\ CCol(t) \in {0, 2} /\ w[1] \in Matrix /\ w[2] \in Matrix
  BY TilesAre DEF Pair
<1>2. QED
  BY <1>1, BlockType, ZeroPacks DEF ATileAt, BTileAt

LEMMA HighestIs ==
  ASSUME NEW S, NEW top \in S, \A m \in S : m \in Nat /\ m <= top
  PROVE  Highest(S) = top
<1>1. Highest(S) \in S /\ \A m \in S : m <= Highest(S)
  BY DEF Highest
<1>2. QED
  BY <1>1

\* The tiles of one bank, two of them, at the addresses of their LOADs.
LEMMA DataTilesAre ==
  ASSUME NEW w, NEW t
  PROVE  DataTiles(w, t) =
           {[bank |-> 0, addr |-> 0, values |-> Block(w[1], CRow(t), 0)],
            [bank |-> 1, addr |-> 1, values |-> Block(w[2], 0, CCol(t))],
            [bank |-> 0, addr |-> 3, values |-> Block(w[1], CRow(t), 2)],
            [bank |-> 1, addr |-> 4, values |-> Block(w[2], 2, CCol(t))]}
BY DEF DataTiles, LoadPcs

BankHolds(p, bank, lo, x, hi, y) ==
  {d \in p.data_tiles : d.bank = bank} =
    {[bank |-> bank, addr |-> lo, values |-> x], [bank |-> bank, addr |-> hi, values |-> y]}

Image(lo, x, hi, y) ==
  [n \in 1 .. hi + 1 |-> IF n - 1 = lo THEN pack_i8x4(x)
                         ELSE IF n - 1 = hi THEN pack_i8x4(y) ELSE <<0, 0, 0, 0>>]

LEMMA MemoryIs ==
  ASSUME NEW p, NEW bank, NEW lo \in Nat, NEW hi \in Nat, lo < hi, NEW x, NEW y,
         BankHolds(p, bank, lo, x, hi, y)
  PROVE  MemoryWords(p, bank) = Image(lo, x, hi, y)
<1> DEFINE used == {d \in p.data_tiles : d.bank = bank}
           first == [bank |-> bank, addr |-> lo, values |-> x]
           second == [bank |-> bank, addr |-> hi, values |-> y]
           at(n) == {d \in used : d.addr = n}
           Word(n) == IF at(n - 1) = {} THEN <<0, 0, 0, 0>>
                      ELSE pack_i8x4((CHOOSE d \in at(n - 1) : TRUE).values)
<1>1. used = {first, second}
  BY DEF BankHolds
<1>2. first.addr = lo /\ second.addr = hi /\ first.values = x /\ second.values = y
  OBVIOUS
<1> HIDE DEF used, first, second
<1>3. {d.addr : d \in used} = {lo, hi}
  BY <1>1, <1>2
<1>4. Highest({d.addr : d \in used}) = hi
  <2>1. Highest({lo, hi}) = hi
    BY HighestIs
  <2>2. QED
    BY <1>3, <2>1
<1>5. at(lo) = {first} /\ at(hi) = {second}
  BY <1>1, <1>2
<1>6. \A n \in Nat : n # lo /\ n # hi => at(n) = {}
  BY <1>1, <1>2
<1>7. (CHOOSE d \in at(lo) : TRUE) = first /\ (CHOOSE d \in at(hi) : TRUE) = second
  BY <1>5
<1>8. ASSUME NEW n \in 1 .. hi + 1
      PROVE  Word(n) = IF n - 1 = lo THEN pack_i8x4(x)
                       ELSE IF n - 1 = hi THEN pack_i8x4(y) ELSE <<0, 0, 0, 0>>
  <2>1. CASE n - 1 = lo
    BY <2>1, <1>2, <1>5, <1>7
  <2>2. CASE n - 1 = hi
    BY <2>2, <1>2, <1>5, <1>7
  <2>3. CASE n - 1 # lo /\ n - 1 # hi
    <3>1. n - 1 \in Nat
      OBVIOUS
    <3>2. at(n - 1) = {}
      BY <2>3, <1>6, <3>1
    <3>3. QED
      BY <2>3, <3>2
  <2>4. QED
    BY <2>1, <2>2, <2>3
<1>9. MemoryWords(p, bank) = [n \in 1 .. Highest({d.addr : d \in used}) + 1 |-> Word(n)]
  BY DEF MemoryWords, used
<1> HIDE DEF Word
<1>10. QED
  BY <1>4, <1>8, <1>9 DEF Image

LEMMA WordsOfMemories ==
  ASSUME NEW w \in Pair, NEW t \in TileNumbers
  PROVE  /\ MemoryWords(TileProgram(w, t), 0) = [n \in 1 .. 4 |-> pack_i8x4(ATileAt(w, t, n - 1))]
         /\ MemoryWords(TileProgram(w, t), 1) = [n \in 1 .. 5 |-> pack_i8x4(BTileAt(w, t, n - 1))]
<1> DEFINE p == TileProgram(w, t)
<1>1. p.data_tiles = DataTiles(w, t)
  BY DEF TileProgram
<1> HIDE DEF p
<1>2. BankHolds(p, 0, 0, Block(w[1], CRow(t), 0), 3, Block(w[1], CRow(t), 2))
  BY <1>1, DataTilesAre DEF BankHolds
<1>3. BankHolds(p, 1, 1, Block(w[2], 0, CCol(t)), 4, Block(w[2], 2, CCol(t)))
  BY <1>1, DataTilesAre DEF BankHolds
<1>4. MemoryWords(p, 0) = Image(0, Block(w[1], CRow(t), 0), 3, Block(w[1], CRow(t), 2))
  BY <1>2, MemoryIs
<1>5. MemoryWords(p, 1) = Image(1, Block(w[2], 0, CCol(t)), 4, Block(w[2], 2, CCol(t)))
  BY <1>3, MemoryIs
<1>6. ASSUME NEW n \in 1 .. 4
      PROVE  pack_i8x4(ATileAt(w, t, n - 1)) =
               (IF n - 1 = 0 THEN pack_i8x4(Block(w[1], CRow(t), 0))
                ELSE IF n - 1 = 3 THEN pack_i8x4(Block(w[1], CRow(t), 2)) ELSE <<0, 0, 0, 0>>)
  BY ZeroPacks DEF ATileAt
<1>7. ASSUME NEW n \in 1 .. 5
      PROVE  pack_i8x4(BTileAt(w, t, n - 1)) =
               (IF n - 1 = 1 THEN pack_i8x4(Block(w[2], 0, CCol(t)))
                ELSE IF n - 1 = 4 THEN pack_i8x4(Block(w[2], 2, CCol(t))) ELSE <<0, 0, 0, 0>>)
  BY ZeroPacks DEF BTileAt
<1>8. QED
  BY <1>4, <1>5, <1>6, <1>7 DEF p, Image

\* The words of the program: seven instructions, an opcode and one cycle each.
Word(n) == <<Opcodes[n], 1, 0, 0>>

LEMMA OpcodesAre == DOMAIN Opcodes = 1 .. 7 /\ Len(Opcodes) = 7 /\ \A n \in 1 .. 7 : Opcodes[n] \in 1 .. 4
BY DEF Opcodes

LEMMA ProgramFields ==
  ASSUME NEW w, NEW t
  PROVE  /\ TileProgram(w, t).name = Name(t) /\ TileProgram(w, t).c_row = CRow(t)
         /\ TileProgram(w, t).c_col = CCol(t)
         /\ TileProgram(w, t).instructions = [n \in 1 .. 7 |-> [opcode |-> Opcodes[n], cycles |-> 1]]
         /\ TileProgram(w, t).data_tiles = DataTiles(w, t)
         /\ TileProgram(w, t).expected_c = Block(MatMul(w[1], w[2]), CRow(t), CCol(t))
BY OpcodesAre DEF TileProgram

LEMMA WordsOfProgram ==
  ASSUME NEW w, NEW t
  PROVE  InstructionWords(TileProgram(w, t)) = [n \in 1 .. 7 |-> Word(n)]
<1>1. ASSUME NEW n \in 1 .. 7
      PROVE  pack_instruction_word([opcode |-> Opcodes[n], cycles |-> 1]) = Word(n)
  BY DEF pack_instruction_word, Word
<1> DEFINE instrs == TileProgram(w, t).instructions
<1>2. InstructionWords(TileProgram(w, t)) = [n \in DOMAIN instrs |-> pack_instruction_word(instrs[n])]
  BY DEF InstructionWords
<1>3. DOMAIN instrs = 1 .. 7 /\ \A n \in 1 .. 7 : instrs[n] = [opcode |-> Opcodes[n], cycles |-> 1]
  <2>1. instrs = [n \in 1 .. 7 |-> [opcode |-> Opcodes[n], cycles |-> 1]]
    BY ProgramFields
  <2> HIDE DEF instrs
  <2>2. QED
    BY <2>1
<1> HIDE DEF instrs
<1>4. QED
  BY <1>1, <1>2, <1>3

LEMMA LoadedFields ==
  ASSUME NEW entry, NEW iw, NEW aw, NEW bw, NEW e
  PROVE  LET tp == LoadedTileProgram(entry, iw, aw, bw, e) IN
         /\ tp.name = entry.name /\ tp.c_row = entry.c_row /\ tp.c_col = entry.c_col
         /\ tp.program_len = entry.program_len /\ tp.expected_c = e
         /\ tp.instructions = [n \in DOMAIN iw |-> unpack_instruction_word(iw[n])]
         /\ tp.a_memory = [n \in DOMAIN aw |-> unpack_i8x4(aw[n])]
         /\ tp.b_memory = [n \in DOMAIN bw |-> unpack_i8x4(bw[n])]
BY DEF LoadedTileProgram

LEMMA EntryFields ==
  ASSUME NEW w, NEW t
  PROVE  LET entry == ManifestEntry(TileProgram(w, t)) IN
         /\ entry.name = Name(t) /\ entry.c_row = CRow(t) /\ entry.c_col = CCol(t)
         /\ entry.program_len = 7
<1>1. Len(TileProgram(w, t).instructions) = 7
  <2>1. [n \in 1 .. 7 |-> [opcode |-> Opcodes[n], cycles |-> 1]] \in Seq([opcode : 1 .. 4, cycles : {1}])
    BY OpcodesAre
  <2>2. Len([n \in 1 .. 7 |-> [opcode |-> Opcodes[n], cycles |-> 1]]) = 7
    BY <2>1
  <2>3. TileProgram(w, t).instructions = [n \in 1 .. 7 |-> [opcode |-> Opcodes[n], cycles |-> 1]]
    BY ProgramFields
  <2>4. QED
    BY <2>2, <2>3
<1> DEFINE p == TileProgram(w, t)
<1>2. p.name = Name(t) /\ p.c_row = CRow(t) /\ p.c_col = CCol(t)
  BY DEF TileProgram
<1> HIDE DEF p
<1>3. QED
  BY <1>1, <1>2 DEF ManifestEntry, p

LEMMA WholeTileIs ==
  ASSUME NEW w \in Pair, NEW t \in TileNumbers
  PROVE  LET tp == WholeBundle(w)[t] IN
         /\ tp.name = Name(t) /\ tp.c_row = CRow(t) /\ tp.c_col = CCol(t)
         /\ tp.program_len = 7
         /\ tp.expected_c = Block(MatMul(w[1], w[2]), CRow(t), CCol(t))
         /\ tp.instructions = [n \in 1 .. 7 |-> unpack_instruction_word(Word(n))]
         /\ tp.a_memory = [n \in 1 .. 4 |-> ATileAt(w, t, n - 1)]
         /\ tp.b_memory = [n \in 1 .. 5 |-> BTileAt(w, t, n - 1)]
<1> DEFINE p == TileProgram(w, t)
           aw == MemoryWords(p, 0)
           bw == MemoryWords(p, 1)
           iw == InstructionWords(p)
           entry == ManifestEntry(p)
           ex == p.expected_c
<1>1. WholeBundle(w)[t] = LoadedTileProgram(entry, iw, aw, bw, ex)
  BY DEF WholeBundle
<1>2. /\ iw = [n \in 1 .. 7 |-> Word(n)]
      /\ aw = [n \in 1 .. 4 |-> pack_i8x4(ATileAt(w, t, n - 1))]
      /\ bw = [n \in 1 .. 5 |-> pack_i8x4(BTileAt(w, t, n - 1))]
      /\ ex = Block(MatMul(w[1], w[2]), CRow(t), CCol(t))
  BY WordsOfProgram, WordsOfMemories, ProgramFields
<1>3. /\ entry.name = Name(t) /\ entry.c_row = CRow(t) /\ entry.c_col = CCol(t)
      /\ entry.program_len = 7
  BY EntryFields
<1> HIDE DEF p, aw, bw, iw, entry, ex
<1>4. \A n \in 1 .. 5 : /\ unpack_i8x4(pack_i8x4(ATileAt(w, t, n - 1))) = ATileAt(w, t, n - 1)
                        /\ unpack_i8x4(pack_i8x4(BTileAt(w, t, n - 1))) = BTileAt(w, t, n - 1)
  BY TileAtType, PackRoundTrip
<1>5. [n \in DOMAIN iw |-> unpack_instruction_word(iw[n])] = [n \in 1 .. 7 |-> unpack_instruction_word(Word(n))]
  BY <1>2
<1>6. [n \in DOMAIN aw |-> unpack_i8x4(aw[n])] = [n \in 1 .. 4 |-> ATileAt(w, t, n - 1)]
  BY <1>2, <1>4
<1>7. [n \in DOMAIN bw |-> unpack_i8x4(bw[n])] = [n \in 1 .. 5 |-> BTileAt(w, t, n - 1)]
  BY <1>2, <1>4
<1>8. QED
  BY <1>1, <1>2, <1>3, <1>5, <1>6, <1>7, LoadedFields

\* Every element of C belongs to one tile.
Element == Dim \X Dim
TileOf(rc) == 1 + 2 * (rc[1] \div 2) + rc[2] \div 2

Within(rc, t) == <<rc[1] - CRow(t), rc[2] - CCol(t)>> \in Cell

LEMMA TileOfCovers ==
  ASSUME NEW rc \in Element
  PROVE  /\ TileOf(rc) \in TileNumbers /\ TileOf(rc) \in Nat
         /\ CRow(TileOf(rc)) \in {0, 2} /\ CCol(TileOf(rc)) \in {0, 2}
         /\ Within(rc, TileOf(rc))
         /\ \A t \in TileNumbers : Within(rc, t) => t = TileOf(rc)
<1>1. rc[1] \in {0, 1, 2, 3} /\ rc[2] \in {0, 1, 2, 3}
  BY DEF Dim, Element
<1>2. TileOf(rc) \in {1, 2, 3, 4}
  BY <1>1 DEF TileOf
<1>3. rc[1] \div 2 = (IF rc[1] <= 1 THEN 0 ELSE 1) /\ rc[2] \div 2 = (IF rc[2] <= 1 THEN 0 ELSE 1)
  BY <1>1
<1>4. Within(rc, TileOf(rc)) /\ \A t \in TileNumbers : Within(rc, t) => t = TileOf(rc)
  BY <1>1, <1>2, <1>3, TilesAre DEF TileOf, Cell, Within
<1>5. QED
  BY <1>2, <1>4, TilesAre

LEMMA BlockOfMatMul ==
  ASSUME NEW w, NEW rc \in Element, NEW r \in {0, 2}, NEW k \in {0, 2},
         <<rc[1] - r, rc[2] - k>> \in Cell
  PROVE  Block(MatMul(w[1], w[2]), r, k)[<<rc[1] - r, rc[2] - k>>] = MatMul(w[1], w[2])[rc]
<1>1. r + (rc[1] - r) = rc[1] /\ k + (rc[2] - k) = rc[2] /\ rc = <<rc[1], rc[2]>>
  BY DEF Dim, Element
<1>2. QED
  BY <1>1 DEF Block

LEMMA WholeReconstructs ==
  ASSUME NEW w \in Pair
  PROVE  reconstruct_matrix_from_tile_outputs(WholeBundle(w),
           [t \in TileNumbers |-> WholeBundle(w)[t].expected_c]) = MatMul(w[1], w[2])
<1> DEFINE tiles == WholeBundle(w)
           outputs == [t \in TileNumbers |-> WholeBundle(w)[t].expected_c]
           Writers(rc) == {t \in DOMAIN tiles : <<rc[1] - tiles[t].c_row, rc[2] - tiles[t].c_col>> \in Cell}
           Elem(rc) == IF Writers(rc) = {} THEN 0
                       ELSE LET t == Highest(Writers(rc))
                            IN outputs[t][<<rc[1] - tiles[t].c_row, rc[2] - tiles[t].c_col>>]
<1>1. DOMAIN tiles = TileNumbers
  BY DEF WholeBundle
<1>2. \A t \in TileNumbers : tiles[t].c_row = CRow(t) /\ tiles[t].c_col = CCol(t)
                             /\ outputs[t] = Block(MatMul(w[1], w[2]), CRow(t), CCol(t))
  BY WholeTileIs
<1>3. reconstruct_matrix_from_tile_outputs(tiles, outputs) = [rc \in Element |-> Elem(rc)]
  BY DEF reconstruct_matrix_from_tile_outputs, Element
<1> HIDE DEF tiles, outputs
<1>4. ASSUME NEW rc \in Element PROVE Elem(rc) = MatMul(w[1], w[2])[rc]
  <2> DEFINE tt == TileOf(rc)
  <2>1. /\ tt \in TileNumbers /\ tt \in Nat /\ CRow(tt) \in {0, 2} /\ CCol(tt) \in {0, 2}
        /\ Within(rc, tt) /\ \A t \in TileNumbers : Within(rc, t) => t = tt
    BY TileOfCovers
  <2> HIDE DEF tt
  <2>2. Writers(rc) = {tt}
    BY <1>1, <1>2, <2>1 DEF Within
  <2>3. Highest({tt}) = tt
    BY <2>1, HighestIs
  <2>4. Block(MatMul(w[1], w[2]), CRow(tt), CCol(tt))[<<rc[1] - CRow(tt), rc[2] - CCol(tt)>>] = MatMul(w[1], w[2])[rc]
    BY <2>1, BlockOfMatMul DEF Within
  <2>5. QED
    BY <1>2, <2>1, <2>2, <2>3, <2>4
<1> HIDE DEF Elem
<1>5. MatMul(w[1], w[2]) = [rc \in Element |-> MatMul(w[1], w[2])[rc]]
  BY DEF MatMul, Element
<1>6. QED
  BY <1>3, <1>4, <1>5 DEF tiles, outputs

-----------------------------------------------------------------------------
(* The files of a bundle, in the order they are written.                   *)

TileFile(t, k) == <<Name(t), TileFiles[k]>>

LEMMA FilesOfTile ==
  ASSUME NEW t \in TileNumbers
  PROVE  /\ FilesOf(t) \in Seq(File) /\ Len(FilesOf(t)) = 4
         /\ \A k \in 1 .. 4 : FilesOf(t)[k] = TileFile(t, k)
<1>1. \A k \in 1 .. 4 : TileFile(t, k) \in File
  BY DEF TileFile, File
<1>2. FilesOf(t) = [k \in 1 .. 4 |-> TileFile(t, k)]
  BY DEF FilesOf, TileFile
<1> HIDE DEF TileFile
<1>3. QED
  BY <1>1, <1>2

AndFilesOf(head, t) == head \o FilesOf(t)

LEMMA OneTileMore ==
  ASSUME NEW head \in Seq(File), NEW t \in TileNumbers
  PROVE  LET all == AndFilesOf(head, t) IN
         /\ all \in Seq(File) /\ Len(all) = Len(head) + 4
         /\ \A n \in 1 .. Len(head) : all[n] = head[n]
         /\ \A k \in 1 .. 4 : all[Len(head) + k] = TileFile(t, k)
<1> DEFINE files == FilesOf(t)
<1>1. files \in Seq(File) /\ Len(files) = 4 /\ \A k \in 1 .. 4 : files[k] = TileFile(t, k)
  BY FilesOfTile
<1> HIDE DEF files
<1>2. /\ head \o files \in Seq(File) /\ Len(head \o files) = Len(head) + Len(files)
      /\ \A n \in 1 .. Len(head) : (head \o files)[n] = head[n]
      /\ \A n \in 1 .. Len(files) : (head \o files)[Len(head) + n] = files[n]
  <2>1. files \in Seq(File)
    BY <1>1
  <2>2. QED
    BY <2>1
<1>3. QED
  BY <1>1, <1>2 DEF files, AndFilesOf

ManifestFile == <<"root", "manifest.json">>
ExpectedFile == <<"root", "expected_c.json">>

LEMMA OrderIs ==
  /\ ExportOrder \in Seq(File) /\ Len(ExportOrder) = 18
  /\ ExportOrder[1] = ManifestFile /\ ExportOrder[2] = ExpectedFile
  /\ \A k \in 1 .. 4 : /\ ExportOrder[2 + k] = TileFile(1, k) /\ ExportOrder[6 + k] = TileFile(2, k)
                       /\ ExportOrder[10 + k] = TileFile(3, k) /\ ExportOrder[14 + k] = TileFile(4, k)
<1> DEFINE s0 == <<ManifestFile, ExpectedFile>>
           s1 == AndFilesOf(s0, 1)
           s2 == AndFilesOf(s1, 2)
           s3 == AndFilesOf(s2, 3)
<1>1. s0 \in Seq(File) /\ Len(s0) = 2 /\ s0[1] = ManifestFile /\ s0[2] = ExpectedFile
  <2>1. ManifestFile \in File /\ ExpectedFile \in File
    BY DEF ManifestFile, ExpectedFile, File
  <2>2. QED
    BY <2>1
<1>2. ExportOrder = AndFilesOf(s3, 4)
  BY DEF ExportOrder, ManifestFile, ExpectedFile, AndFilesOf
<1>3. {1, 2, 3, 4} \subseteq TileNumbers
  BY TilesAre
<1> HIDE DEF s0
<1>4. /\ s1 \in Seq(File) /\ Len(s1) = 6 /\ \A n \in 1 .. 2 : s1[n] = s0[n]
      /\ \A k \in 1 .. 4 : s1[2 + k] = TileFile(1, k)
  <2>1. /\ s1 \in Seq(File) /\ Len(s1) = Len(s0) + 4
        /\ \A n \in 1 .. Len(s0) : s1[n] = s0[n]
        /\ \A k \in 1 .. 4 : s1[Len(s0) + k] = TileFile(1, k)
    BY <1>1, <1>3, OneTileMore
  <2>2. QED
    BY <1>1, <2>1
<1> HIDE DEF s1
<1>5. /\ s2 \in Seq(File) /\ Len(s2) = 10 /\ \A n \in 1 .. 6 : s2[n] = s1[n]
      /\ \A k \in 1 .. 4 : s2[6 + k] = TileFile(2, k)
  <2>1. /\ s2 \in Seq(File) /\ Len(s2) = Len(s1) + 4
        /\ \A n \in 1 .. Len(s1) : s2[n] = s1[n]
        /\ \A k \in 1 .. 4 : s2[Len(s1) + k] = TileFile(2, k)
    BY <1>4, <1>3, OneTileMore
  <2>2. QED
    BY <1>4, <2>1
<1> HIDE DEF s2
<1>6. /\ s3 \in Seq(File) /\ Len(s3) = 14 /\ \A n \in 1 .. 10 : s3[n] = s2[n]
      /\ \A k \in 1 .. 4 : s3[10 + k] = TileFile(3, k)
  <2>1. /\ s3 \in Seq(File) /\ Len(s3) = Len(s2) + 4
        /\ \A n \in 1 .. Len(s2) : s3[n] = s2[n]
        /\ \A k \in 1 .. 4 : s3[Len(s2) + k] = TileFile(3, k)
    BY <1>5, <1>3, OneTileMore
  <2>2. QED
    BY <1>5, <2>1
<1> HIDE DEF s3
<1>7. /\ ExportOrder \in Seq(File) /\ Len(ExportOrder) = 18 /\ \A n \in 1 .. 14 : ExportOrder[n] = s3[n]
      /\ \A k \in 1 .. 4 : ExportOrder[14 + k] = TileFile(4, k)
  <2>1. /\ ExportOrder \in Seq(File) /\ Len(ExportOrder) = Len(s3) + 4
        /\ \A n \in 1 .. Len(s3) : ExportOrder[n] = s3[n]
        /\ \A k \in 1 .. 4 : ExportOrder[Len(s3) + k] = TileFile(4, k)
    BY <1>2, <1>3, <1>6, OneTileMore
  <2>2. QED
    BY <1>6, <2>1
<1>8. QED
  BY <1>1, <1>4, <1>5, <1>6, <1>7

\* No file is written twice, and every file is written.
LEMMA TileFileIs ==
  ASSUME NEW t \in TileNumbers, NEW k \in 1 .. 4
  PROVE  /\ TileFile(t, k) \in File /\ TileFile(t, k) # ManifestFile /\ TileFile(t, k) # ExpectedFile
         /\ \A u \in TileNumbers, j \in 1 .. 4 : TileFile(t, k) = TileFile(u, j) => t = u /\ k = j
<1>1. TileFile(t, k) \in File
  BY DEF TileFile, File
<1>2. Name(t) # "root" /\ \A u \in TileNumbers : Name(t) = Name(u) => t = u
  BY TilesAre, NamesAre
<1>3. \A j \in 1 .. 4 : TileFiles[k] = TileFiles[j] => k = j
  BY DEF TileFiles
<1>4. QED
  BY <1>1, <1>2, <1>3 DEF TileFile, ManifestFile, ExpectedFile

LEMMA Position ==
  ASSUME NEW n \in 1 .. 18
  PROVE  \/ n = 1 \/ n = 2
         \/ \E t \in TileNumbers, k \in 1 .. 4 : n = 4 * t - 2 + k
<1>1. CASE n \in 3 .. 6
  <2>1. 1 \in TileNumbers /\ n - 2 \in 1 .. 4 /\ n = 4 * 1 - 2 + (n - 2)
    BY <1>1, TilesAre
  <2>2. QED
    BY <2>1
<1>2. CASE n \in 7 .. 10
  <2>1. 2 \in TileNumbers /\ n - 6 \in 1 .. 4 /\ n = 4 * 2 - 2 + (n - 6)
    BY <1>2, TilesAre
  <2>2. QED
    BY <2>1
<1>3. CASE n \in 11 .. 14
  <2>1. 3 \in TileNumbers /\ n - 10 \in 1 .. 4 /\ n = 4 * 3 - 2 + (n - 10)
    BY <1>3, TilesAre
  <2>2. QED
    BY <2>1
<1>4. CASE n \in 15 .. 18
  <2>1. 4 \in TileNumbers /\ n - 14 \in 1 .. 4 /\ n = 4 * 4 - 2 + (n - 14)
    BY <1>4, TilesAre
  <2>2. QED
    BY <2>1
<1>5. QED
  BY <1>1, <1>2, <1>3, <1>4

LEMMA TileFileAt ==
  ASSUME NEW t \in TileNumbers, NEW k \in 1 .. 4
  PROVE  4 * t - 2 + k \in 1 .. 18 /\ ExportOrder[4 * t - 2 + k] = TileFile(t, k)
<1>1. /\ ExportOrder[2 + k] = TileFile(1, k) /\ ExportOrder[6 + k] = TileFile(2, k)
      /\ ExportOrder[10 + k] = TileFile(3, k) /\ ExportOrder[14 + k] = TileFile(4, k)
  BY OrderIs
<1>2. CASE t = 1
  BY <1>1, <1>2
<1>3. CASE t = 2
  BY <1>1, <1>3
<1>4. CASE t = 3
  BY <1>1, <1>4
<1>5. CASE t = 4
  BY <1>1, <1>5
<1>6. QED
  BY <1>2, <1>3, <1>4, <1>5, TilesAre

LEMMA EachFileOnce ==
  ASSUME NEW m \in 1 .. 18, NEW n \in 1 .. 18, ExportOrder[m] = ExportOrder[n]
  PROVE  m = n
<1>1. ExportOrder[1] = ManifestFile /\ ExportOrder[2] = ExpectedFile /\ ManifestFile # ExpectedFile
  BY OrderIs DEF ManifestFile, ExpectedFile
<1>2. ASSUME NEW t \in TileNumbers, NEW k \in 1 .. 4, m = 4 * t - 2 + k PROVE m = n
  <2>1. ExportOrder[n] = TileFile(t, k)
    BY <1>2, TileFileAt
  <2>2. n # 1 /\ n # 2
    BY <1>1, <2>1, TileFileIs
  <2>3. PICK u \in TileNumbers, j \in 1 .. 4 : n = 4 * u - 2 + j
    BY <2>2, Position
  <2>4. ExportOrder[n] = TileFile(u, j)
    BY <2>3, TileFileAt
  <2>5. t = u /\ k = j
    BY <2>1, <2>4, TileFileIs
  <2>6. QED
    BY <1>2, <2>3, <2>5
<1>3. ASSUME m \in {1, 2} PROVE m = n
  <2>1. ASSUME NEW u \in TileNumbers, NEW j \in 1 .. 4, n = 4 * u - 2 + j PROVE FALSE
    <3>1. ExportOrder[n] = TileFile(u, j)
      BY <2>1, TileFileAt
    <3>2. QED
      BY <1>1, <1>3, <3>1, TileFileIs
  <2>2. n = 1 \/ n = 2
    BY <2>1, Position
  <2>3. QED
    BY <1>1, <1>3, <2>2
<1>4. QED
  BY <1>2, <1>3, Position

LEMMA EveryFile ==
  ASSUME NEW file \in File
  PROVE  \E n \in 1 .. 18 : file = ExportOrder[n]
<1>1. file = ManifestFile \/ file = ExpectedFile \/ \E t \in TileNumbers, k \in 1 .. 4 : file = TileFile(t, k)
  BY DEF File, ManifestFile, ExpectedFile, TileFile
<1>2. ExportOrder[1] = ManifestFile /\ ExportOrder[2] = ExpectedFile
  BY OrderIs
<1>3. \A t \in TileNumbers, k \in 1 .. 4 :
        4 * t - 2 + k \in 1 .. 18 /\ ExportOrder[4 * t - 2 + k] = TileFile(t, k)
  BY TileFileAt DEF TileNumbers
<1>4. QED
  BY <1>1, <1>2, <1>3

-----------------------------------------------------------------------------
(* What an export writes into each file.                                   *)

LEMMA TileNamed ==
  ASSUME NEW t \in TileNumbers
  PROVE  (CHOOSE u \in TileNumbers : Name(u) = Name(t)) = t
BY TilesAre, NamesAre

LEMMA ContentIs ==
  ASSUME NEW w
  PROVE  /\ Content(w, ManifestFile) = Json([t \in TileNumbers |-> ManifestEntry(TileProgram(w, t))])
         /\ Content(w, ExpectedFile) = Json(MatMul(w[1], w[2]))
         /\ \A t \in TileNumbers :
              /\ Content(w, TileFile(t, 1)) = Hex(InstructionWords(TileProgram(w, t)))
              /\ Content(w, TileFile(t, 2)) = Hex(MemoryWords(TileProgram(w, t), 0))
              /\ Content(w, TileFile(t, 3)) = Hex(MemoryWords(TileProgram(w, t), 1))
              /\ Content(w, TileFile(t, 4)) = Json(TileProgram(w, t).expected_c)
<1>1. Content(w, ManifestFile) = Json([t \in TileNumbers |-> ManifestEntry(TileProgram(w, t))])
  BY DEF Content, ManifestFile
<1>2. Content(w, ExpectedFile) = Json(MatMul(w[1], w[2]))
  BY DEF Content, ExpectedFile
<1>3. ASSUME NEW t \in TileNumbers
      PROVE  /\ Content(w, TileFile(t, 1)) = Hex(InstructionWords(TileProgram(w, t)))
             /\ Content(w, TileFile(t, 2)) = Hex(MemoryWords(TileProgram(w, t), 0))
             /\ Content(w, TileFile(t, 3)) = Hex(MemoryWords(TileProgram(w, t), 1))
             /\ Content(w, TileFile(t, 4)) = Json(TileProgram(w, t).expected_c)
  <2>1. Name(t) # "root"
    BY TilesAre, NamesAre
  <2>2. /\ TileFile(t, 1) = <<Name(t), "instructions.hex">> /\ TileFile(t, 2) = <<Name(t), "a_memory.hex">>
        /\ TileFile(t, 3) = <<Name(t), "b_memory.hex">> /\ TileFile(t, 4) = <<Name(t), "expected_c.json">>
    BY DEF TileFile, TileFiles
  <2> HIDE DEF TileFile
  <2>3. Content(w, <<Name(t), "instructions.hex">>) = Hex(InstructionWords(TileProgram(w, t)))
    BY <2>1, TileNamed DEF Content
  <2>4. Content(w, <<Name(t), "a_memory.hex">>) = Hex(MemoryWords(TileProgram(w, t), 0))
    BY <2>1, TileNamed DEF Content
  <2>5. Content(w, <<Name(t), "b_memory.hex">>) = Hex(MemoryWords(TileProgram(w, t), 1))
    BY <2>1, TileNamed DEF Content
  <2>6. Content(w, <<Name(t), "expected_c.json">>) = Json(TileProgram(w, t).expected_c)
    BY <2>1, TileNamed DEF Content
  <2>7. QED
    BY <2>2, <2>3, <2>4, <2>5, <2>6
<1>4. QED
  BY <1>1, <1>2, <1>3

LEMMA LastIsJson ==
  /\ ExportOrder[18] = TileFile(4, 4)
  /\ \A w : Content(w, ExportOrder[18]).kind = "json"
<1>1. ExportOrder[18] = TileFile(4, 4)
  <2>1. ExportOrder[14 + 4] = TileFile(4, 4)
    BY OrderIs
  <2>2. QED
    BY <2>1
<1>2. ASSUME NEW w PROVE Content(w, TileFile(4, 4)) = Json(TileProgram(w, 4).expected_c)
  BY ContentIs, TilesAre
<1>3. QED
  BY <1>1, <1>2 DEF Json

-----------------------------------------------------------------------------
(* A directory that holds every file of one export is loaded as it was     *)
(* exported.                                                               *)

Whole(w) ==
  [result |-> "loaded", expected_c |-> MatMul(w[1], w[2]), tile_programs |-> WholeBundle(w)]

Holds(d, w, n) == d[ExportOrder[n]] = Content(w, ExportOrder[n])

LEMMA FilesLoaded ==
  ASSUME NEW w, \A n \in 1 .. 18 : Holds(disk, w, n)
  PROVE  LoadedBundle = Whole(w)
<1>1. \A file \in File : disk[file] = Content(w, file)
  BY EveryFile DEF Holds
<1>2. ManifestFile \in File /\ ExpectedFile \in File
  BY DEF ManifestFile, ExpectedFile, File
<1>3. /\ Manifest.value = [t \in TileNumbers |-> ManifestEntry(TileProgram(w, t))]
      /\ disk[ExpectedFile].value = MatMul(w[1], w[2])
  <2>1. /\ disk[ManifestFile] = Json([t \in TileNumbers |-> ManifestEntry(TileProgram(w, t))])
        /\ disk[ExpectedFile] = Json(MatMul(w[1], w[2]))
    BY <1>1, <1>2, ContentIs
  <2>2. Manifest = disk[ManifestFile]
    BY DEF Manifest, ManifestFile
  <2>3. \A v : Json(v).value = v
    BY DEF Json
  <2>4. QED
    BY <2>1, <2>2, <2>3
<1>4. ASSUME NEW t \in TileNumbers
      PROVE  /\ Words(t, "instructions.hex") = InstructionWords(TileProgram(w, t))
             /\ Words(t, "a_memory.hex") = MemoryWords(TileProgram(w, t), 0)
             /\ Words(t, "b_memory.hex") = MemoryWords(TileProgram(w, t), 1)
             /\ disk[<<Name(t), "expected_c.json">>].value = TileProgram(w, t).expected_c
  <2>1. \A k \in 1 .. 4 : disk[TileFile(t, k)] = Content(w, TileFile(t, k))
    BY <1>1, TileFileIs
  <2>2. /\ disk[TileFile(t, 1)] = Hex(InstructionWords(TileProgram(w, t)))
        /\ disk[TileFile(t, 2)] = Hex(MemoryWords(TileProgram(w, t), 0))
        /\ disk[TileFile(t, 3)] = Hex(MemoryWords(TileProgram(w, t), 1))
        /\ disk[TileFile(t, 4)] = Json(TileProgram(w, t).expected_c)
    <3>1. /\ Content(w, TileFile(t, 1)) = Hex(InstructionWords(TileProgram(w, t)))
          /\ Content(w, TileFile(t, 2)) = Hex(MemoryWords(TileProgram(w, t), 0))
          /\ Content(w, TileFile(t, 3)) = Hex(MemoryWords(TileProgram(w, t), 1))
          /\ Content(w, TileFile(t, 4)) = Json(TileProgram(w, t).expected_c)
      BY ContentIs
    <3>2. QED
      BY <2>1, <3>1
  <2>3. /\ TileFile(t, 1) = <<Name(t), "instructions.hex">> /\ TileFile(t, 2) = <<Name(t), "a_memory.hex">>
        /\ TileFile(t, 3) = <<Name(t), "b_memory.hex">> /\ TileFile(t, 4) = <<Name(t), "expected_c.json">>
    BY DEF TileFile, TileFiles
  <2>4. QED
    BY <2>2, <2>3 DEF Words, Hex, Json
<1>5. ASSUME NEW t \in TileNumbers
      PROVE  LoadedTileProgram(Manifest.value[t], Words(t, "instructions.hex"), Words(t, "a_memory.hex"),
               Words(t, "b_memory.hex"), disk[<<Name(t), "expected_c.json">>].value) = WholeBundle(w)[t]
  BY <1>3, <1>4 DEF WholeBundle
<1>6. WholeBundle(w) = [t \in TileNumbers |-> WholeBundle(w)[t]]
  BY DEF WholeBundle
<1>7. QED
  BY <1>3, <1>5, <1>6 DEF LoadedBundle, Whole, ExpectedFile

\* What the directory holds.  The last file of a first export is JSON, so until
\* it is whole no load can succeed.
DirectoryInv ==
  /\ exported \in Seq(Workloads) /\ saved \in 0 .. 18
  /\ exporter \in {"idle", "opened", "between", "dead"}
  /\ disk = [file \in File |-> disk[file]]
  /\ exporter # "idle" => exported # <<>> /\ saved < 18
  /\ exported = <<>> => disk = [file \in File |-> Missing]
  /\ exporter = "idle" => saved = 18 \/ exported = <<>>
  /\ exported # <<>> => \A n \in 1 .. saved : Holds(disk, Latest, n)
  /\ Len(exported) = 1 /\ saved < 18 => disk[ExportOrder[18]].kind \in {"missing", "broken"}
  /\ bundle.result = "loaded" =>
       exported # <<>> /\ exporter \in {"idle", "dead"} /\ (OneExport => bundle = Whole(Latest))

LEMMA LastFile == \A n \in 1 .. 18 : ExportOrder[n] \in File
<1>1. ExportOrder \in Seq(File) /\ Len(ExportOrder) = 18
  BY OrderIs
<1>2. \A files \in Seq(File) : \A n \in 1 .. Len(files) : files[n] \in File
  OBVIOUS
<1>3. QED
  BY <1>1, <1>2

LEMMA StartsExport ==
  ASSUME DirectoryInv, StartExport
  PROVE  DirectoryInv'
<1>1. PICK w \in Workloads : exported' = Append(exported, w)
  BY DEF StartExport
<1>2. exported' \in Seq(Workloads) /\ exported' # <<>> /\ (Len(exported') = 1 => exported = <<>>)
  BY <1>1 DEF DirectoryInv
<1>3. exported = <<>> => disk[ExportOrder[18]] = Missing
  BY LastFile DEF DirectoryInv
<1>4. saved' = 0 /\ exporter' = "between" /\ bundle' = NotLoaded /\ disk' = disk
  BY DEF StartExport
<1>5. bundle'.result # "loaded"
  BY <1>4 DEF NotLoaded
<1>6. QED
  BY <1>2, <1>3, <1>4, <1>5 DEF DirectoryInv, Missing, Holds

\* Opening or cutting a file leaves the others alone.
LEMMA OthersStay ==
  ASSUME DirectoryInv, saved < 18, NEW x, disk' = [disk EXCEPT ![ExportOrder[saved + 1]] = x]
  PROVE  /\ disk' = [file \in File |-> disk'[file]]
         /\ \A n \in 1 .. 18 : n # saved + 1 => disk'[ExportOrder[n]] = disk[ExportOrder[n]]
         /\ disk'[ExportOrder[saved + 1]] = x
<1>1. saved + 1 \in 1 .. 18
  BY DEF DirectoryInv
<1>2. disk = [file \in File |-> disk[file]]
  BY DEF DirectoryInv
<1>3. ASSUME NEW n \in 1 .. 18, n # saved + 1 PROVE disk'[ExportOrder[n]] = disk[ExportOrder[n]]
  <2>1. ExportOrder[n] # ExportOrder[saved + 1] /\ ExportOrder[n] \in File
    BY <1>1, <1>3, EachFileOnce, LastFile
  <2>2. QED
    BY <1>2, <2>1
<1>4. ExportOrder[saved + 1] \in File
  BY <1>1, LastFile
<1>5. QED
  BY <1>2, <1>3, <1>4

LEMMA CutsOfJson ==
  ASSUME NEW content, content.kind = "json", NEW cut \in Cuts(content)
  PROVE  cut = Broken
BY DEF Cuts

LEMMA Interrupted ==
  ASSUME DirectoryInv, exporter # "idle", NEW x, disk' = [disk EXCEPT ![ExportOrder[saved + 1]] = x],
         saved = 17 => x = Broken, UNCHANGED <<exported, saved, bundle>>,
         exporter' \in {"opened", "between", "dead"}, bundle.result # "loaded"
  PROVE  DirectoryInv'
<1>1. saved < 18 /\ exported # <<>> /\ saved \in 0 .. 18
  BY DEF DirectoryInv
<1>2. /\ disk' = [file \in File |-> disk'[file]]
      /\ \A n \in 1 .. 18 : n # saved + 1 => disk'[ExportOrder[n]] = disk[ExportOrder[n]]
      /\ disk'[ExportOrder[saved + 1]] = x
  BY <1>1, OthersStay
<1>3. Latest' = Latest /\ \A n \in 1 .. saved : Holds(disk', Latest, n)
  <2>1. ASSUME NEW n \in 1 .. saved PROVE Holds(disk', Latest, n)
    <3>1. n \in 1 .. 18 /\ n # saved + 1
      BY <1>1
    <3>2. Holds(disk, Latest, n)
      BY <1>1 DEF DirectoryInv
    <3>3. QED
      BY <1>2, <3>1, <3>2 DEF Holds
  <2>2. Latest' = Latest
    BY DEF Latest
  <2>3. QED
    BY <2>1, <2>2
<1>4. Len(exported) = 1 => disk'[ExportOrder[18]].kind \in {"missing", "broken"}
  <2>1. CASE saved = 17
    BY <1>2, <2>1 DEF Broken
  <2>2. CASE saved # 17
    <3>1. Len(exported) = 1 => disk[ExportOrder[18]].kind \in {"missing", "broken"}
      BY <1>1 DEF DirectoryInv
    <3>2. 18 \in 1 .. 18 /\ 18 # saved + 1
      BY <1>1, <2>2
    <3>3. QED
      BY <1>2, <3>1, <3>2
  <2>3. QED
    BY <2>1, <2>2
<1>5. QED
  BY <1>1, <1>2, <1>3, <1>4, SMTT(30) DEF DirectoryInv

LEMMA OpensFile ==
  ASSUME DirectoryInv, OpenFile
  PROVE  DirectoryInv'
<1> DEFINE content == Content(Latest, ExportOrder[saved + 1])
           x == IF content.kind = "hex" THEN Hex(<<>>) ELSE Broken
<1>1. /\ disk' = [disk EXCEPT ![ExportOrder[saved + 1]] = x] /\ exporter = "between"
      /\ UNCHANGED <<exported, saved, bundle>> /\ exporter' = "opened"
  BY DEF OpenFile
<1>2. bundle.result # "loaded"
  BY <1>1 DEF DirectoryInv
<1>3. saved = 17 => x = Broken
  <2>1. saved = 17 => content.kind = "json"
    BY LastIsJson
  <2>2. QED
    BY <2>1
<1> HIDE DEF x
<1>4. QED
  BY <1>1, <1>2, <1>3, Interrupted

LEMMA Crashes ==
  ASSUME DirectoryInv, Crash
  PROVE  DirectoryInv'
<1>1. UNCHANGED <<exported, saved, bundle>> /\ exporter' = "dead" /\ exporter \in {"between", "opened"}
  BY DEF Crash
<1>2. bundle.result # "loaded"
  BY <1>1 DEF DirectoryInv
<1>3. CASE UNCHANGED disk
  BY <1>1, <1>2, <1>3 DEF DirectoryInv, Holds, Latest
<1>4. ASSUME NEW cut \in Cuts(Content(Latest, ExportOrder[saved + 1])),
             disk' = [disk EXCEPT ![ExportOrder[saved + 1]] = cut]
      PROVE  DirectoryInv'
  <2>1. saved = 17 => cut = Broken
    <3>1. saved = 17 => Content(Latest, ExportOrder[saved + 1]).kind = "json"
      BY LastIsJson
    <3>2. QED
      BY <3>1, CutsOfJson
  <2>2. QED
    BY <1>1, <1>2, <1>4, <2>1, Interrupted
<1>5. QED
  BY <1>3, <1>4 DEF Crash

LEMMA WritesFile ==
  ASSUME DirectoryInv, WriteFile
  PROVE  DirectoryInv'
<1> DEFINE x == Content(Latest, ExportOrder[saved + 1])
<1>1. /\ disk' = [disk EXCEPT ![ExportOrder[saved + 1]] = x] /\ exporter = "opened"
      /\ exporter' = (IF saved' = 18 THEN "idle" ELSE "between")
      /\ UNCHANGED <<exported, bundle>> /\ saved' = saved + 1
  BY OrderIs DEF WriteFile
<1> HIDE DEF x
<1>2. saved < 18 /\ exported # <<>> /\ saved \in 0 .. 18 /\ bundle.result # "loaded"
  BY <1>1 DEF DirectoryInv
<1>3. /\ disk' = [file \in File |-> disk'[file]]
      /\ \A n \in 1 .. 18 : n # saved + 1 => disk'[ExportOrder[n]] = disk[ExportOrder[n]]
      /\ disk'[ExportOrder[saved + 1]] = x
  BY <1>1, <1>2, OthersStay
<1>4. Latest' = Latest /\ \A n \in 1 .. saved + 1 : Holds(disk', Latest, n)
  <2>1. ASSUME NEW n \in 1 .. saved PROVE Holds(disk', Latest, n)
    <3>1. n \in 1 .. 18 /\ n # saved + 1
      BY <1>2
    <3>2. Holds(disk, Latest, n)
      BY <1>2 DEF DirectoryInv
    <3>3. QED
      BY <1>3, <3>1, <3>2 DEF Holds
  <2>2. Holds(disk', Latest, saved + 1) /\ Latest' = Latest
    BY <1>1, <1>3 DEF Holds, Latest, x
  <2>3. \A n \in 1 .. saved + 1 : n \in 1 .. saved \/ n = saved + 1
    BY <1>2
  <2>4. QED
    BY <2>1, <2>2, <2>3
<1>5. Len(exported) = 1 /\ saved' < 18 => disk'[ExportOrder[18]].kind \in {"missing", "broken"}
  <2>1. Len(exported) = 1 => disk[ExportOrder[18]].kind \in {"missing", "broken"}
    BY <1>2 DEF DirectoryInv
  <2>2. saved' < 18 => 18 \in 1 .. 18 /\ 18 # saved + 1
    BY <1>1, <1>2
  <2>3. QED
    BY <1>3, <2>1, <2>2
<1>6. QED
  BY <1>1, <1>2, <1>3, <1>4, <1>5, SMTT(30) DEF DirectoryInv

LEMMA Loads ==
  ASSUME DirectoryInv, Load
  PROVE  DirectoryInv'
<1>1. /\ UNCHANGED <<disk, exported, saved, exporter>> /\ exporter \in {"idle", "dead"}
      /\ bundle' = (IF Readable /\ CountsAgree THEN LoadedBundle ELSE [result |-> "raised"])
  BY DEF Load
<1>2. ASSUME bundle'.result = "loaded"
      PROVE  exported # <<>> /\ (OneExport => bundle' = Whole(Latest))
  <2>1. Readable /\ bundle' = LoadedBundle
    BY <1>1, <1>2
  <2>2. disk[ExportOrder[18]].kind \notin {"missing", "broken"}
    BY <2>1, LastFile DEF Readable
  <2>3. exported # <<>>
    <3>1. exported = <<>> => disk[ExportOrder[18]] = Missing
      BY <1>1, LastFile DEF DirectoryInv
    <3>2. QED
      BY <2>2, <3>1 DEF Missing
  <2>4. OneExport => saved = 18
    BY <1>1, <2>2, <2>3 DEF DirectoryInv, OneExport
  <2>5. saved = 18 => \A n \in 1 .. 18 : Holds(disk, Latest, n)
    BY <2>3 DEF DirectoryInv
  <2>6. QED
    BY <2>1, <2>3, <2>4, <2>5, FilesLoaded
<1>3. bundle'.result = "loaded" => (OneExport' => bundle' = Whole(Latest)')
  BY <1>1, <1>2 DEF OneExport, Whole, Latest
<1>4. QED
  BY <1>1, <1>2, <1>3 DEF DirectoryInv, Holds, Latest

LEMMA DirectoryStep ==
  ASSUME DirectoryInv, BundleNext
  PROVE  DirectoryInv'
BY StartsExport, OpensFile, WritesFile, Crashes, Loads DEF BundleNext

\* What a whole bundle says of its tiles is what LoadedIsWhole asks.
LEMMA UnpackedWord ==
  ASSUME NEW n \in 1 .. 7
  PROVE  /\ unpack_instruction_word(Word(n)).opcode = Opcodes[n]
         /\ unpack_instruction_word(Word(n)).cycles = 1
         /\ unpack_instruction_word(Word(n)).word = Word(n)
BY DEF unpack_instruction_word, Word

LEMMA TileIsWhole ==
  ASSUME NEW w \in Pair, NEW t \in TileNumbers
  PROVE  LET p == TileProgram(w, t)  loaded == WholeBundle(w)[t] IN
         /\ <<loaded.name, loaded.c_row, loaded.c_col>> = <<p.name, p.c_row, p.c_col>>
         /\ Len(loaded.instructions) = Len(p.instructions)
         /\ \A n \in DOMAIN p.instructions :
              /\ loaded.instructions[n].opcode = p.instructions[n].opcode
              /\ loaded.instructions[n].cycles = p.instructions[n].cycles
         /\ \A d \in p.data_tiles :
              LET memory == IF d.bank = 0 THEN loaded.a_memory ELSE loaded.b_memory
              IN d.addr < Len(memory) /\ memory[d.addr + 1] = d.values
         /\ loaded.expected_c = p.expected_c
<1> DEFINE p == TileProgram(w, t)
           tp == WholeBundle(w)[t]
<1>1. /\ p.name = Name(t) /\ p.c_row = CRow(t) /\ p.c_col = CCol(t)
      /\ p.instructions = [n \in 1 .. 7 |-> [opcode |-> Opcodes[n], cycles |-> 1]]
      /\ p.data_tiles = DataTiles(w, t)
      /\ p.expected_c = Block(MatMul(w[1], w[2]), CRow(t), CCol(t))
  BY ProgramFields
<1>2. /\ tp.name = Name(t) /\ tp.c_row = CRow(t) /\ tp.c_col = CCol(t)
      /\ tp.expected_c = Block(MatMul(w[1], w[2]), CRow(t), CCol(t))
      /\ tp.instructions = [n \in 1 .. 7 |-> unpack_instruction_word(Word(n))]
      /\ tp.a_memory = [n \in 1 .. 4 |-> ATileAt(w, t, n - 1)]
      /\ tp.b_memory = [n \in 1 .. 5 |-> BTileAt(w, t, n - 1)]
  BY WholeTileIs
<1> HIDE DEF p, tp
<1>3. Len(tp.instructions) = 7 /\ Len(p.instructions) = 7 /\ DOMAIN p.instructions = 1 .. 7
  BY <1>1, <1>2
<1>4. \A n \in 1 .. 7 : /\ tp.instructions[n].opcode = p.instructions[n].opcode
                        /\ tp.instructions[n].cycles = p.instructions[n].cycles
  BY <1>1, <1>2, UnpackedWord
<1>5. Len(tp.a_memory) = 4 /\ Len(tp.b_memory) = 5
  BY <1>2
<1>6. ASSUME NEW d \in p.data_tiles
      PROVE  LET memory == IF d.bank = 0 THEN tp.a_memory ELSE tp.b_memory
             IN d.addr < Len(memory) /\ memory[d.addr + 1] = d.values
  <2>1. /\ tp.a_memory[0 + 1] = Block(w[1], CRow(t), 0) /\ tp.a_memory[3 + 1] = Block(w[1], CRow(t), 2)
        /\ tp.b_memory[1 + 1] = Block(w[2], 0, CCol(t)) /\ tp.b_memory[4 + 1] = Block(w[2], 2, CCol(t))
    BY <1>2 DEF ATileAt, BTileAt
  <2>2. CASE d = [bank |-> 0, addr |-> 0, values |-> Block(w[1], CRow(t), 0)]
    BY <1>5, <2>1, <2>2
  <2>3. CASE d = [bank |-> 1, addr |-> 1, values |-> Block(w[2], 0, CCol(t))]
    BY <1>5, <2>1, <2>3
  <2>4. CASE d = [bank |-> 0, addr |-> 3, values |-> Block(w[1], CRow(t), 2)]
    BY <1>5, <2>1, <2>4
  <2>5. CASE d = [bank |-> 1, addr |-> 4, values |-> Block(w[2], 2, CCol(t))]
    BY <1>5, <2>1, <2>5
  <2>6. QED
    BY <1>1, <2>2, <2>3, <2>4, <2>5, DataTilesAre
<1>7. QED
  BY <1>1, <1>2, <1>3, <1>4, <1>6 DEF p, tp

LEMMA DirectoryLoadsWhole ==
  ASSUME DirectoryInv
  PROVE  LoadedIsWhole
<1> SUFFICES ASSUME bundle.result = "loaded", exported # <<>>, OneExport
             PROVE  LET w == Latest IN
    /\ bundle.expected_c = MatMul(w[1], w[2])
    /\ bundle.expected_c = reconstruct_matrix_from_tile_outputs(
         bundle.tile_programs, [t \in TileNumbers |-> bundle.tile_programs[t].expected_c])
    /\ \A t \in TileNumbers :
         LET p == TileProgram(w, t)  loaded == bundle.tile_programs[t] IN
         /\ <<loaded.name, loaded.c_row, loaded.c_col>> = <<p.name, p.c_row, p.c_col>>
         /\ Len(loaded.instructions) = Len(p.instructions)
         /\ \A n \in DOMAIN p.instructions :
              /\ loaded.instructions[n].opcode = p.instructions[n].opcode
              /\ loaded.instructions[n].cycles = p.instructions[n].cycles
         /\ \A d \in p.data_tiles :
              LET memory == IF d.bank = 0 THEN loaded.a_memory ELSE loaded.b_memory
              IN d.addr < Len(memory) /\ memory[d.addr + 1] = d.values
         /\ loaded.expected_c = p.expected_c
  BY DEF LoadedIsWhole
<1>1. bundle.expected_c = MatMul(Latest[1], Latest[2]) /\ bundle.tile_programs = WholeBundle(Latest)
  BY DEF DirectoryInv, Whole
<1>2. Latest \in Pair
  <2>1. Latest \in Workloads
    <3>1. exported \in Seq(Workloads) /\ Len(exported) \in 1 .. Len(exported)
      BY DEF DirectoryInv
    <3>2. QED
      BY <3>1 DEF Latest
  <2>2. QED
    BY <2>1, WorkloadAssumption DEF Pair
<1>3. bundle.expected_c = reconstruct_matrix_from_tile_outputs(
         bundle.tile_programs, [t \in TileNumbers |-> bundle.tile_programs[t].expected_c])
  BY <1>1, <1>2, WholeReconstructs
<1>4. QED
  BY <1>1, <1>2, <1>3, TileIsWhole

-----------------------------------------------------------------------------
(* The write table of a whole bundle: 44 writes a tile.                    *)

AnyWrite ==
  [addr : Nat,
   value : Nat \cup {Word(n) : n \in 1 .. 7} \cup {pack_i8x4(values) : values \in Tile}]

\* The write at each place of a tile's part of the table.
WriteAt(w, t, j) ==
  CASE j = 1        -> HostWrite(ADDR.CONTROL, CONTROL_CLEAR)
    [] j \in 2 .. 15  -> IF (j - 1) % 2 = 1 THEN HostWrite(ADDR.INSTR_ADDR, (j - 1) \div 2)
                                          ELSE HostWrite(ADDR.INSTR_WORD, Word((j - 1) \div 2))
    [] j \in 16 .. 27 -> (CASE (j - 15) % 3 = 1 -> HostWrite(ADDR.DATA_BANK, 0)
                            [] (j - 15) % 3 = 2 -> HostWrite(ADDR.DATA_ADDR, (j - 15) \div 3)
                            [] (j - 15) % 3 = 0 -> HostWrite(ADDR.DATA_WORD,
                                                     pack_i8x4(ATileAt(w, t, (j - 15) \div 3 - 1))))
    [] j \in 28 .. 42 -> (CASE (j - 27) % 3 = 1 -> HostWrite(ADDR.DATA_BANK, 1)
                            [] (j - 27) % 3 = 2 -> HostWrite(ADDR.DATA_ADDR, (j - 27) \div 3)
                            [] (j - 27) % 3 = 0 -> HostWrite(ADDR.DATA_WORD,
                                                     pack_i8x4(BTileAt(w, t, (j - 27) \div 3 - 1))))
    [] j = 43       -> HostWrite(ADDR.PROGRAM_LEN, 7)
    [] j = 44       -> HostWrite(ADDR.CONTROL, CONTROL_START)

LEMMA AddressesAre ==
  /\ ADDR.CONTROL = 0 /\ ADDR.PROGRAM_LEN = 8 /\ ADDR.INSTR_ADDR = 16 /\ ADDR.INSTR_WORD = 20
  /\ ADDR.DATA_ADDR = 24 /\ ADDR.DATA_BANK = 28 /\ ADDR.DATA_WORD = 32
BY DEF ADDR

LEMMA HostWriteType ==
  ASSUME NEW addr \in Nat,
         NEW value \in Nat \cup {Word(n) : n \in 1 .. 7} \cup {pack_i8x4(values) : values \in Tile}
  PROVE  HostWrite(addr, value) \in AnyWrite
BY DEF HostWrite, AnyWrite

InstrWrite(n) == IF n % 2 = 1 THEN HostWrite(ADDR.INSTR_ADDR, n \div 2)
                              ELSE HostWrite(ADDR.INSTR_WORD, Word(n \div 2))
BankWrite(bank, values, n) ==
  CASE n % 3 = 1 -> HostWrite(ADDR.DATA_BANK, bank)
    [] n % 3 = 2 -> HostWrite(ADDR.DATA_ADDR, n \div 3)
    [] n % 3 = 0 -> HostWrite(ADDR.DATA_WORD, pack_i8x4(values))

LEMMA InstrWritesAre ==
  ASSUME NEW w \in Pair, NEW t \in TileNumbers
  PROVE  LET part == InstrWrites(WholeBundle(w)[t]) IN
         /\ part \in Seq(AnyWrite) /\ Len(part) = 14 /\ \A n \in 1 .. 14 : part[n] = InstrWrite(n)
<1> DEFINE tp == WholeBundle(w)[t]
<1>1. tp.instructions = [n \in 1 .. 7 |-> unpack_instruction_word(Word(n))]
  BY WholeTileIs
<1> HIDE DEF tp
<1>2. Len(tp.instructions) = 7
  BY <1>1
<1>3. \A n \in 1 .. 7 : tp.instructions[n].word = Word(n)
  BY <1>1, UnpackedWord
<1>4. ASSUME NEW n \in 1 .. 14
      PROVE  (IF n % 2 = 1 THEN HostWrite(ADDR.INSTR_ADDR, n \div 2)
              ELSE HostWrite(ADDR.INSTR_WORD, tp.instructions[n \div 2].word)) = InstrWrite(n)
  <2>1. n % 2 # 1 => n \div 2 \in 1 .. 7
    OBVIOUS
  <2>2. QED
    BY <1>3, <2>1 DEF InstrWrite
<1>5. ASSUME NEW n \in 1 .. 14 PROVE InstrWrite(n) \in AnyWrite
  <2>1. n % 2 # 1 => n \div 2 \in 1 .. 7
    OBVIOUS
  <2>2. n \div 2 \in Nat
    OBVIOUS
  <2>3. QED
    BY <2>1, <2>2, AddressesAre, HostWriteType DEF InstrWrite
<1>6. InstrWrites(tp) = [n \in 1 .. 14 |-> InstrWrite(n)]
  <2>1. InstrWrites(tp) = [n \in 1 .. 14 |-> IF n % 2 = 1 THEN HostWrite(ADDR.INSTR_ADDR, n \div 2)
                             ELSE HostWrite(ADDR.INSTR_WORD, tp.instructions[n \div 2].word)]
    BY <1>2 DEF InstrWrites
  <2>2. QED
    BY <1>4, <2>1
<1>7. [n \in 1 .. 14 |-> InstrWrite(n)] \in Seq(AnyWrite)
  BY <1>5
<1>8. QED
  BY <1>6, <1>7 DEF tp

IsMemory(memory, size) == memory \in [1 .. size -> Tile]
IsBankPart(part, bank, memory, size) ==
  /\ part \in Seq(AnyWrite) /\ Len(part) = 3 * size
  /\ \A n \in 1 .. 3 * size : part[n] = BankWrite(bank, memory[n \div 3], n)

LEMMA BankWritesAre ==
  ASSUME NEW bank \in 0 .. 1, NEW size \in 1 .. 5, NEW memory, IsMemory(memory, size)
  PROVE  IsBankPart(BankWrites(bank, memory), bank, memory, size)
<1>1. memory \in [1 .. size -> Tile] /\ memory \in Seq(Tile) /\ Len(memory) = size
  BY DEF IsMemory
<1>2. BankWrites(bank, memory) = [n \in 1 .. 3 * size |-> BankWrite(bank, memory[n \div 3], n)]
  BY <1>1 DEF BankWrites, BankWrite
<1>3. ASSUME NEW n \in 1 .. 3 * size PROVE BankWrite(bank, memory[n \div 3], n) \in AnyWrite
  <2>1. n % 3 = 0 => n \div 3 \in 1 .. size
    OBVIOUS
  <2>2. n \div 3 \in Nat /\ n % 3 \in {0, 1, 2}
    OBVIOUS
  <2>3. n % 3 = 0 => memory[n \div 3] \in Tile
    BY <1>1, <2>1
  <2>4. /\ HostWrite(ADDR.DATA_BANK, bank) \in AnyWrite
        /\ HostWrite(ADDR.DATA_ADDR, n \div 3) \in AnyWrite
    BY <2>2, AddressesAre, HostWriteType
  <2>5. n % 3 = 0 => HostWrite(ADDR.DATA_WORD, pack_i8x4(memory[n \div 3])) \in AnyWrite
    BY <2>3, AddressesAre, HostWriteType
  <2>6. QED
    BY <2>2, <2>4, <2>5 DEF BankWrite
<1>4. [n \in 1 .. 3 * size |-> BankWrite(bank, memory[n \div 3], n)] \in Seq(AnyWrite)
  <2>1. 3 * size \in Nat
    OBVIOUS
  <2>2. QED
    BY <1>3, <2>1
<1>5. QED
  BY <1>2, <1>4 DEF IsBankPart

AndWrites(head, rest) == head \o rest

LEMMA MoreWrites ==
  ASSUME NEW head \in Seq(AnyWrite), NEW rest \in Seq(AnyWrite)
  PROVE  LET all == AndWrites(head, rest) IN
         /\ all \in Seq(AnyWrite) /\ Len(all) = Len(head) + Len(rest)
         /\ \A n \in 1 .. Len(head) : all[n] = head[n]
         /\ \A n \in 1 .. Len(rest) : all[Len(head) + n] = rest[n]
BY DEF AndWrites

\* The same, for parts of known lengths, the later places counted from the first.
IsPart(part, size) == part \in Seq(AnyWrite) /\ Len(part) = size
Joins(all, head, h, rest, r) ==
  /\ IsPart(all, h + r)
  /\ \A n \in 1 .. h : all[n] = head[n]
  /\ \A n \in h + 1 .. h + r : all[n] = rest[n - h]

LEMMA MoreWritesAt ==
  ASSUME NEW head, NEW rest, NEW h \in Nat, NEW r \in Nat, IsPart(head, h), IsPart(rest, r)
  PROVE  Joins(AndWrites(head, rest), head, h, rest, r)
<1> DEFINE all == AndWrites(head, rest)
<1>1. /\ all \in Seq(AnyWrite) /\ Len(all) = h + r
      /\ \A n \in 1 .. h : all[n] = head[n]
      /\ \A n \in 1 .. r : all[h + n] = rest[n]
  BY MoreWrites DEF IsPart
<1> HIDE DEF all
<1>2. ASSUME NEW n \in h + 1 .. h + r PROVE all[n] = rest[n - h]
  <2>1. n - h \in 1 .. r /\ h + (n - h) = n
    OBVIOUS
  <2>2. QED
    BY <1>1, <2>1
<1>3. QED
  BY <1>1, <1>2 DEF all, Joins, IsPart

LEMMA TileWritesAre ==
  ASSUME NEW w \in Pair, NEW t \in TileNumbers
  PROVE  LET part == TileWrites(WholeBundle(w)[t]) IN
         /\ part \in Seq(AnyWrite) /\ Len(part) = 44
         /\ \A j \in 1 .. 44 : part[j] = WriteAt(w, t, j)
<1> DEFINE tp == WholeBundle(w)[t]
           p1 == <<HostWrite(ADDR.CONTROL, CONTROL_CLEAR)>>
           p2 == InstrWrites(tp)
           p3 == BankWrites(0, tp.a_memory)
           p4 == BankWrites(1, tp.b_memory)
           p5 == <<HostWrite(ADDR.PROGRAM_LEN, tp.program_len), HostWrite(ADDR.CONTROL, CONTROL_START)>>
           s2 == AndWrites(p1, p2)
           s3 == AndWrites(s2, p3)
           s4 == AndWrites(s3, p4)
           s5 == AndWrites(s4, p5)
<1>1. /\ tp.program_len = 7 /\ tp.a_memory = [n \in 1 .. 4 |-> ATileAt(w, t, n - 1)]
      /\ tp.b_memory = [n \in 1 .. 5 |-> BTileAt(w, t, n - 1)]
  BY WholeTileIs
<1>2. TileWrites(tp) = s5
  BY DEF TileWrites, AndWrites
<1>3. p2 \in Seq(AnyWrite) /\ Len(p2) = 14 /\ \A n \in 1 .. 14 : p2[n] = InstrWrite(n)
  BY InstrWritesAre
<1> HIDE DEF tp, p2
<1>4. p1 \in Seq(AnyWrite) /\ Len(p1) = 1 /\ p1[1] = HostWrite(ADDR.CONTROL, CONTROL_CLEAR)
  <2>1. HostWrite(ADDR.CONTROL, CONTROL_CLEAR) \in AnyWrite
    BY AddressesAre, HostWriteType DEF CONTROL_CLEAR
  <2>2. QED
    BY <2>1
<1>5. /\ p5 \in Seq(AnyWrite) /\ Len(p5) = 2 /\ p5[1] = HostWrite(ADDR.PROGRAM_LEN, 7)
      /\ p5[2] = HostWrite(ADDR.CONTROL, CONTROL_START)
  <2>1. HostWrite(ADDR.PROGRAM_LEN, 7) \in AnyWrite /\ HostWrite(ADDR.CONTROL, CONTROL_START) \in AnyWrite
    BY AddressesAre, HostWriteType DEF CONTROL_START
  <2>2. QED
    BY <1>1, <2>1
<1>6. /\ tp.a_memory \in [1 .. 4 -> Tile] /\ \A n \in 1 .. 4 : tp.a_memory[n] = ATileAt(w, t, n - 1)
      /\ tp.b_memory \in [1 .. 5 -> Tile] /\ \A n \in 1 .. 5 : tp.b_memory[n] = BTileAt(w, t, n - 1)
  BY <1>1, TileAtType
<1>7. /\ p3 \in Seq(AnyWrite) /\ Len(p3) = 12
      /\ \A n \in 1 .. 12 : p3[n] = BankWrite(0, tp.a_memory[n \div 3], n)
  <2>1. IsBankPart(p3, 0, tp.a_memory, 4)
    BY <1>6, BankWritesAre DEF IsMemory
  <2>2. QED
    BY <2>1 DEF IsBankPart
<1>8. /\ p4 \in Seq(AnyWrite) /\ Len(p4) = 15
      /\ \A n \in 1 .. 15 : p4[n] = BankWrite(1, tp.b_memory[n \div 3], n)
  <2>1. IsBankPart(p4, 1, tp.b_memory, 5)
    BY <1>6, BankWritesAre DEF IsMemory
  <2>2. QED
    BY <2>1 DEF IsBankPart
<1> HIDE DEF p1, p3, p4, p5
<1>9. /\ s2 \in Seq(AnyWrite) /\ Len(s2) = 15 /\ \A n \in 1 .. 1 : s2[n] = p1[n]
      /\ \A n \in 2 .. 15 : s2[n] = p2[n - 1]
  <2>1. IsPart(p1, 1) /\ IsPart(p2, 14)
    BY <1>3, <1>4 DEF IsPart
  <2>2. Joins(s2, p1, 1, p2, 14)
    BY <2>1, MoreWritesAt
  <2>3. QED
    BY <2>2 DEF Joins, IsPart
<1> HIDE DEF s2
<1>10. /\ s3 \in Seq(AnyWrite) /\ Len(s3) = 27 /\ \A n \in 1 .. 15 : s3[n] = s2[n]
       /\ \A n \in 16 .. 27 : s3[n] = p3[n - 15]
  <2>1. IsPart(s2, 15) /\ IsPart(p3, 12)
    BY <1>7, <1>9 DEF IsPart
  <2>2. Joins(s3, s2, 15, p3, 12)
    BY <2>1, MoreWritesAt
  <2>3. QED
    BY <2>2 DEF Joins, IsPart
<1> HIDE DEF s3
<1>11. /\ s4 \in Seq(AnyWrite) /\ Len(s4) = 42 /\ \A n \in 1 .. 27 : s4[n] = s3[n]
       /\ \A n \in 28 .. 42 : s4[n] = p4[n - 27]
  <2>1. IsPart(s3, 27) /\ IsPart(p4, 15)
    BY <1>8, <1>10 DEF IsPart
  <2>2. Joins(s4, s3, 27, p4, 15)
    BY <2>1, MoreWritesAt
  <2>3. QED
    BY <2>2 DEF Joins, IsPart
<1> HIDE DEF s4
<1>12. /\ s5 \in Seq(AnyWrite) /\ Len(s5) = 44 /\ \A n \in 1 .. 42 : s5[n] = s4[n]
       /\ \A n \in 43 .. 44 : s5[n] = p5[n - 42]
  <2>1. IsPart(s4, 42) /\ IsPart(p5, 2)
    BY <1>5, <1>11 DEF IsPart
  <2>2. Joins(s5, s4, 42, p5, 2)
    BY <2>1, MoreWritesAt
  <2>3. QED
    BY <2>2 DEF Joins, IsPart
<1> HIDE DEF s5
<1>13. \A n \in 1 .. 42 : s5[n] = s4[n]
  BY <1>12
<1>14. \A n \in 1 .. 27 : s4[n] = s3[n]
  BY <1>11
<1>15. \A n \in 1 .. 15 : s3[n] = s2[n]
  BY <1>10
<1>16. \A n \in 2 .. 15 : s2[n] = p2[n - 1]
  BY <1>9
<1>17. \A n \in 43 .. 44 : s5[n] = p5[n - 42]
  BY <1>12
<1>18. ASSUME NEW j \in 1 .. 44 PROVE s5[j] = WriteAt(w, t, j)
  <2>1. CASE j = 1
    BY <1>4, <1>9, <1>10, <1>11, <1>12, <2>1 DEF WriteAt
  <2>2. CASE j \in 2 .. 15
    <3>1. s5[j] = s4[j]
      BY <1>13, <2>2
    <3>2. s4[j] = s3[j]
      BY <1>14, <2>2
    <3>3. s3[j] = s2[j] /\ s2[j] = p2[j - 1]
      BY <1>15, <1>16, <2>2
    <3>4. p2[j - 1] = InstrWrite(j - 1)
      BY <1>3, <2>2
    <3>5. QED
      BY <2>2, <3>1, <3>2, <3>3, <3>4 DEF WriteAt, InstrWrite
  <2>3. CASE j \in 16 .. 27
    <3>1. s5[j] = p3[j - 15] /\ j - 15 \in 1 .. 12
      <4>1. s5[j] = s4[j]
        BY <1>13, <2>3
      <4>2. s4[j] = s3[j]
        BY <1>14, <2>3
      <4>3. s3[j] = p3[j - 15]
        BY <1>10, <2>3
      <4>4. QED
        BY <2>3, <4>1, <4>2, <4>3
    <3>2. s5[j] = BankWrite(0, tp.a_memory[(j - 15) \div 3], j - 15)
      BY <1>7, <3>1
    <3>3. (j - 15) % 3 = 0 => (j - 15) \div 3 \in 1 .. 4
      BY <3>1
    <3>4. (j - 15) % 3 = 0 => tp.a_memory[(j - 15) \div 3] = ATileAt(w, t, (j - 15) \div 3 - 1)
      BY <1>6, <3>3
    <3>5. QED
      BY <2>3, <3>2, <3>4 DEF WriteAt, BankWrite
  <2>4. CASE j \in 28 .. 42
    <3>1. s5[j] = p4[j - 27] /\ j - 27 \in 1 .. 15
      <4>1. s5[j] = s4[j]
        BY <1>13, <2>4
      <4>2. s4[j] = p4[j - 27]
        BY <1>11, <2>4
      <4>3. QED
        BY <2>4, <4>1, <4>2
    <3>2. s5[j] = BankWrite(1, tp.b_memory[(j - 27) \div 3], j - 27)
      BY <1>8, <3>1
    <3>3. (j - 27) % 3 = 0 => (j - 27) \div 3 \in 1 .. 5
      BY <3>1
    <3>4. (j - 27) % 3 = 0 => tp.b_memory[(j - 27) \div 3] = BTileAt(w, t, (j - 27) \div 3 - 1)
      BY <1>6, <3>3
    <3>5. QED
      BY <2>4, <3>2, <3>4 DEF WriteAt, BankWrite
  <2>5. CASE j \in 43 .. 44
    <3>1. s5[j] = p5[j - 42] /\ (j = 43 \/ j = 44)
      BY <1>17, <2>5
    <3>2. QED
      BY <1>5, <3>1 DEF WriteAt
  <2>6. QED
    BY <2>1, <2>2, <2>3, <2>4, <2>5
<1>19. QED
  BY <1>2, <1>12, <1>18 DEF tp

\* The table of a bundle: 44 writes a tile.
PartOf(w, t) == TileWrites(WholeBundle(w)[t])
IsTable(table, w) ==
  /\ table \in Seq(AnyWrite) /\ Len(table) = 176
  /\ \A t \in TileNumbers : \A j \in 1 .. 44 : table[44 * (t - 1) + j] = WriteAt(w, t, j)

LEMMA TableIs ==
  ASSUME NEW w \in Pair
  PROVE  IsTable(BundleWrites(WholeBundle(w)), w)
<1> DEFINE s2 == AndWrites(PartOf(w, 1), PartOf(w, 2))
           s3 == AndWrites(s2, PartOf(w, 3))
           s4 == AndWrites(s3, PartOf(w, 4))
<1>1. BundleWrites(WholeBundle(w)) = s4
  BY DEF BundleWrites, AndWrites, PartOf
<1>2. \A t \in TileNumbers : IsPart(PartOf(w, t), 44)
  BY TileWritesAre DEF IsPart, PartOf
<1>3. \A t \in TileNumbers : \A j \in 1 .. 44 : PartOf(w, t)[j] = WriteAt(w, t, j)
  BY TileWritesAre DEF PartOf
<1>4. Joins(s2, PartOf(w, 1), 44, PartOf(w, 2), 44)
  BY <1>2, TilesAre, MoreWritesAt
<1> HIDE DEF s2
<1>5. IsPart(s2, 88)
  BY <1>4 DEF Joins
<1>6. Joins(s3, s2, 88, PartOf(w, 3), 44)
  BY <1>2, <1>5, TilesAre, MoreWritesAt
<1> HIDE DEF s3
<1>7. IsPart(s3, 132)
  BY <1>6 DEF Joins
<1>8. Joins(s4, s3, 132, PartOf(w, 4), 44)
  BY <1>2, <1>7, TilesAre, MoreWritesAt
<1> HIDE DEF s4
<1>9. /\ \A n \in 1 .. 132 : s4[n] = s3[n]
      /\ \A n \in 133 .. 176 : s4[n] = PartOf(w, 4)[n - 132]
  BY <1>8 DEF Joins
<1>10. /\ \A n \in 1 .. 88 : s3[n] = s2[n]
       /\ \A n \in 89 .. 132 : s3[n] = PartOf(w, 3)[n - 88]
  BY <1>6 DEF Joins
<1>11. /\ \A n \in 1 .. 44 : s2[n] = PartOf(w, 1)[n]
       /\ \A n \in 45 .. 88 : s2[n] = PartOf(w, 2)[n - 44]
  BY <1>4 DEF Joins
<1>12. ASSUME NEW j \in 1 .. 44
       PROVE  /\ s4[j] = WriteAt(w, 1, j) /\ s4[44 + j] = WriteAt(w, 2, j)
              /\ s4[88 + j] = WriteAt(w, 3, j) /\ s4[132 + j] = WriteAt(w, 4, j)
  <2>1. s4[j] = PartOf(w, 1)[j]
    <3>1. s4[j] = s3[j] /\ s3[j] = s2[j] /\ s2[j] = PartOf(w, 1)[j]
      BY <1>9, <1>10, <1>11
    <3>2. QED
      BY <3>1
  <2>2. s4[44 + j] = PartOf(w, 2)[j]
    <3>1. s4[44 + j] = s3[44 + j] /\ s3[44 + j] = s2[44 + j]
      BY <1>9, <1>10
    <3>2. s2[44 + j] = PartOf(w, 2)[44 + j - 44] /\ 44 + j - 44 = j
      BY <1>11
    <3>3. QED
      BY <3>1, <3>2
  <2>3. s4[88 + j] = PartOf(w, 3)[j]
    <3>1. s4[88 + j] = s3[88 + j]
      BY <1>9
    <3>2. s3[88 + j] = PartOf(w, 3)[88 + j - 88] /\ 88 + j - 88 = j
      BY <1>10
    <3>3. QED
      BY <3>1, <3>2
  <2>4. s4[132 + j] = PartOf(w, 4)[j]
    <3>1. s4[132 + j] = PartOf(w, 4)[132 + j - 132] /\ 132 + j - 132 = j
      BY <1>9
    <3>2. QED
      BY <3>1
  <2>5. QED
    BY <1>3, <2>1, <2>2, <2>3, <2>4, TilesAre
<1>13. s4 \in Seq(AnyWrite) /\ Len(s4) = 176
  BY <1>8 DEF Joins, IsPart
<1>14. ASSUME NEW t \in TileNumbers, NEW j \in 1 .. 44
       PROVE  s4[44 * (t - 1) + j] = WriteAt(w, t, j)
  <2>1. CASE t = 1
    BY <1>12, <2>1
  <2>2. CASE t = 2
    BY <1>12, <2>2
  <2>3. CASE t = 3
    BY <1>12, <2>3
  <2>4. CASE t = 4
    BY <1>12, <2>4
  <2>5. QED
    BY <2>1, <2>2, <2>3, <2>4, TilesAre
<1>15. IsTable(s4, w)
  BY <1>13, <1>14 DEF IsTable
<1>16. QED
  BY <1>1, <1>15

-----------------------------------------------------------------------------
(* What the table has loaded after the first j writes of a tile, whatever  *)
(* device takes it.  A loader is what the device has to show: its memories *)
(* with every accepted write in them, and its selected addresses.          *)

InstrPlace(n) == 3 + 2 * n
APlace(n)     == 18 + 3 * n
BPlace(n)     == 30 + 3 * n

LEMMA WritesAt ==
  ASSUME NEW w, NEW t
  PROVE  /\ \A n \in 0 .. 6 : /\ WriteAt(w, t, InstrPlace(n) - 1) = HostWrite(ADDR.INSTR_ADDR, n)
                              /\ WriteAt(w, t, InstrPlace(n)) = HostWrite(ADDR.INSTR_WORD, Word(n + 1))
         /\ \A n \in 0 .. 3 : /\ WriteAt(w, t, APlace(n) - 2) = HostWrite(ADDR.DATA_BANK, 0)
                              /\ WriteAt(w, t, APlace(n) - 1) = HostWrite(ADDR.DATA_ADDR, n)
                              /\ WriteAt(w, t, APlace(n)) = HostWrite(ADDR.DATA_WORD, pack_i8x4(ATileAt(w, t, n)))
         /\ \A n \in 0 .. 4 : /\ WriteAt(w, t, BPlace(n) - 2) = HostWrite(ADDR.DATA_BANK, 1)
                              /\ WriteAt(w, t, BPlace(n) - 1) = HostWrite(ADDR.DATA_ADDR, n)
                              /\ WriteAt(w, t, BPlace(n)) = HostWrite(ADDR.DATA_WORD, pack_i8x4(BTileAt(w, t, n)))
         /\ WriteAt(w, t, 1) = HostWrite(ADDR.CONTROL, CONTROL_CLEAR)
         /\ WriteAt(w, t, 43) = HostWrite(ADDR.PROGRAM_LEN, 7)
         /\ WriteAt(w, t, 44) = HostWrite(ADDR.CONTROL, CONTROL_START)
<1>1. ASSUME NEW n \in 0 .. 6
      PROVE  /\ WriteAt(w, t, InstrPlace(n) - 1) = HostWrite(ADDR.INSTR_ADDR, n)
             /\ WriteAt(w, t, InstrPlace(n)) = HostWrite(ADDR.INSTR_WORD, Word(n + 1))
  <2>1. (2 + 2 * n - 1) % 2 = 1 /\ (2 + 2 * n - 1) \div 2 = n /\ (3 + 2 * n - 1) % 2 = 0
        /\ (3 + 2 * n - 1) \div 2 = n + 1
    OBVIOUS
  <2>2. QED
    BY <2>1 DEF WriteAt, InstrPlace
<1>2. ASSUME NEW n \in 0 .. 3
      PROVE  /\ WriteAt(w, t, APlace(n) - 2) = HostWrite(ADDR.DATA_BANK, 0)
             /\ WriteAt(w, t, APlace(n) - 1) = HostWrite(ADDR.DATA_ADDR, n)
             /\ WriteAt(w, t, APlace(n)) = HostWrite(ADDR.DATA_WORD, pack_i8x4(ATileAt(w, t, n)))
  <2>1. CASE n = 0
    BY <2>1 DEF WriteAt, APlace
  <2>2. CASE n = 1
    BY <2>2 DEF WriteAt, APlace
  <2>3. CASE n = 2
    BY <2>3 DEF WriteAt, APlace
  <2>4. CASE n = 3
    BY <2>4 DEF WriteAt, APlace
  <2>5. QED
    BY <2>1, <2>2, <2>3, <2>4
<1>3. ASSUME NEW n \in 0 .. 4
      PROVE  /\ WriteAt(w, t, BPlace(n) - 2) = HostWrite(ADDR.DATA_BANK, 1)
             /\ WriteAt(w, t, BPlace(n) - 1) = HostWrite(ADDR.DATA_ADDR, n)
             /\ WriteAt(w, t, BPlace(n)) = HostWrite(ADDR.DATA_WORD, pack_i8x4(BTileAt(w, t, n)))
  <2>1. CASE n = 0
    BY <2>1 DEF WriteAt, BPlace
  <2>2. CASE n = 1
    BY <2>2 DEF WriteAt, BPlace
  <2>3. CASE n = 2
    BY <2>3 DEF WriteAt, BPlace
  <2>4. CASE n = 3
    BY <2>4 DEF WriteAt, BPlace
  <2>5. CASE n = 4
    BY <2>5 DEF WriteAt, BPlace
  <2>6. QED
    BY <2>1, <2>2, <2>3, <2>4, <2>5
<1>4. /\ WriteAt(w, t, 1) = HostWrite(ADDR.CONTROL, CONTROL_CLEAR)
      /\ WriteAt(w, t, 43) = HostWrite(ADDR.PROGRAM_LEN, 7)
      /\ WriteAt(w, t, 44) = HostWrite(ADDR.CONTROL, CONTROL_START)
  BY DEF WriteAt
<1>5. QED
  BY <1>1, <1>2, <1>3, <1>4

LEMMA PlacesCover ==
  ASSUME NEW j \in 2 .. 43
  PROVE  \/ \E n \in 0 .. 6 : j = InstrPlace(n) - 1 \/ j = InstrPlace(n)
         \/ \E n \in 0 .. 3 : j = APlace(n) - 2 \/ j = APlace(n) - 1 \/ j = APlace(n)
         \/ \E n \in 0 .. 4 : j = BPlace(n) - 2 \/ j = BPlace(n) - 1 \/ j = BPlace(n)
         \/ j = 43
<1>1. CASE j \in 2 .. 15
  <2>1. /\ (j - 2) \div 2 \in 0 .. 6
        /\ j = InstrPlace((j - 2) \div 2) - 1 \/ j = InstrPlace((j - 2) \div 2)
    BY <1>1 DEF InstrPlace
  <2>2. QED
    BY <2>1
<1>2. CASE j \in 16 .. 27
  <2>1. /\ (j - 16) \div 3 \in 0 .. 3
        /\ \/ j = APlace((j - 16) \div 3) - 2 \/ j = APlace((j - 16) \div 3) - 1
           \/ j = APlace((j - 16) \div 3)
    BY <1>2 DEF APlace
  <2>2. QED
    BY <2>1
<1>3. CASE j \in 28 .. 42
  <2>1. /\ (j - 28) \div 3 \in 0 .. 4
        /\ \/ j = BPlace((j - 28) \div 3) - 2 \/ j = BPlace((j - 28) \div 3) - 1
           \/ j = BPlace((j - 28) \div 3)
    BY <1>3 DEF BPlace
  <2>2. QED
    BY <2>1
<1>4. QED
  BY <1>1, <1>2, <1>3

Slots == 0 .. 6
Loader(S) ==
  [op : [S -> Opcode], a : [S -> Tile], b : [S -> Tile],
   ia : Nat, da : Nat, bank : 0 .. 1, len : Nat]

\* The write x, which is not to CONTROL, moves the loader s to r.
Takes(x, s, r) ==
  /\ r.op = IF x.addr = ADDR.INSTR_WORD THEN [s.op EXCEPT ![s.ia] = OpName(x.value[1])] ELSE s.op
  /\ r.a = IF x.addr = ADDR.DATA_WORD /\ s.bank = 0 THEN [s.a EXCEPT ![s.da] = unpack_i8x4(x.value)] ELSE s.a
  /\ r.b = IF x.addr = ADDR.DATA_WORD /\ s.bank = 1 THEN [s.b EXCEPT ![s.da] = unpack_i8x4(x.value)] ELSE s.b
  /\ r.ia = IF x.addr = ADDR.INSTR_ADDR THEN x.value ELSE s.ia
  /\ r.da = IF x.addr = ADDR.DATA_ADDR THEN x.value ELSE s.da
  /\ r.bank = IF x.addr = ADDR.DATA_BANK THEN x.value ELSE s.bank
  /\ r.len = IF x.addr = ADDR.PROGRAM_LEN THEN x.value ELSE s.len

OpsLoaded(j, s) ==
  \A n \in 0 .. 6 : /\ InstrPlace(n) <= j => s.op[n] = OpName(Opcodes[n + 1])
                    /\ j = InstrPlace(n) - 1 => s.ia = n
ALoaded(w, t, j, s) ==
  \A n \in 0 .. 3 : /\ APlace(n) <= j => s.a[n] = ATileAt(w, t, n)
                    /\ j = APlace(n) - 2 \/ j = APlace(n) - 1 => s.bank = 0
                    /\ j = APlace(n) - 1 => s.da = n
BLoaded(w, t, j, s) ==
  \A n \in 0 .. 4 : /\ BPlace(n) <= j => s.b[n] = BTileAt(w, t, n)
                    /\ j = BPlace(n) - 2 \/ j = BPlace(n) - 1 => s.bank = 1
                    /\ j = BPlace(n) - 1 => s.da = n
IsLoaded(w, t, j, s) ==
  OpsLoaded(j, s) /\ ALoaded(w, t, j, s) /\ BLoaded(w, t, j, s) /\ (j >= 43 => s.len = 7)

\* One write more of the program, of a bank, and of the length.
LEMMA AnotherInstr ==
  ASSUME NEW w, NEW t, NEW S, Slots \subseteq S, NEW s \in Loader(S), NEW r \in Loader(S),
         NEW n \in 0 .. 6, NEW k \in {InstrPlace(n) - 1, InstrPlace(n)},
         IsLoaded(w, t, k - 1, s), Takes(WriteAt(w, t, k), s, r)
  PROVE  IsLoaded(w, t, k, r)
<1>1. OpsLoaded(k - 1, s)
  BY DEF IsLoaded
<1>2. CASE k = InstrPlace(n) - 1
  <2>1. WriteAt(w, t, k).addr = ADDR.INSTR_ADDR /\ WriteAt(w, t, k).value = n
    BY <1>2, WritesAt DEF HostWrite
  <2>2. r.op = s.op /\ r.ia = n /\ r.a = s.a /\ r.b = s.b
    BY <2>1, AddressesAre DEF Takes
  <2>3. OpsLoaded(k, r)
    BY <1>1, <1>2, <2>2 DEF OpsLoaded, InstrPlace
  <2>4. QED
    BY <1>2, <2>2, <2>3 DEF IsLoaded, ALoaded, BLoaded, InstrPlace, APlace, BPlace
<1>3. CASE k = InstrPlace(n)
  <2>1. WriteAt(w, t, k).addr = ADDR.INSTR_WORD /\ WriteAt(w, t, k).value = Word(n + 1)
    BY <1>3, WritesAt DEF HostWrite
  <2>2. s.ia = n
    BY <1>1, <1>3 DEF OpsLoaded, InstrPlace
  <2>3. Word(n + 1)[1] = Opcodes[n + 1]
    BY DEF Word
  <2>4. r.op = [s.op EXCEPT ![n] = OpName(Opcodes[n + 1])] /\ r.a = s.a /\ r.b = s.b
    BY <2>1, <2>2, <2>3, AddressesAre DEF Takes
  <2>5. s.op \in [S -> Opcode] /\ \A m \in 0 .. 6 : m \in S
    BY DEF Loader, Slots
  <2>6. \A m \in 0 .. 6 : r.op[m] = IF m = n THEN OpName(Opcodes[n + 1]) ELSE s.op[m]
    BY <2>4, <2>5
  <2>7. OpsLoaded(k, r)
    BY <1>1, <1>3, <2>6 DEF OpsLoaded, InstrPlace
  <2>8. QED
    BY <1>3, <2>4, <2>7 DEF IsLoaded, ALoaded, BLoaded, InstrPlace, APlace, BPlace
<1>4. QED
  BY <1>2, <1>3

LEMMA AnotherA ==
  ASSUME NEW w \in Pair, NEW t \in TileNumbers, NEW S, Slots \subseteq S, NEW s \in Loader(S), NEW r \in Loader(S),
         NEW n \in 0 .. 3, NEW k \in {APlace(n) - 2, APlace(n) - 1, APlace(n)},
         IsLoaded(w, t, k - 1, s), Takes(WriteAt(w, t, k), s, r)
  PROVE  IsLoaded(w, t, k, r)
<1>1. ALoaded(w, t, k - 1, s) /\ OpsLoaded(k - 1, s)
  BY DEF IsLoaded
<1>2. k \in 16 .. 27
  BY DEF APlace
<1>3. r.op = s.op => OpsLoaded(k, r)
  BY <1>1, <1>2 DEF OpsLoaded, InstrPlace
<1>4. BLoaded(w, t, k, r)
  BY <1>2 DEF BLoaded, BPlace
<1>5. ALoaded(w, t, k, r) /\ r.op = s.op
  <2>1. CASE k = APlace(n) - 2
    <3>1. WriteAt(w, t, k).addr = ADDR.DATA_BANK /\ WriteAt(w, t, k).value = 0
      BY <2>1, WritesAt DEF HostWrite
    <3>2. r.op = s.op /\ r.a = s.a /\ r.bank = 0
      BY <3>1, AddressesAre DEF Takes
    <3>3. QED
      BY <1>1, <2>1, <3>2 DEF ALoaded, APlace
  <2>2. CASE k = APlace(n) - 1
    <3>1. WriteAt(w, t, k).addr = ADDR.DATA_ADDR /\ WriteAt(w, t, k).value = n
      BY <2>2, WritesAt DEF HostWrite
    <3>2. s.bank = 0
      BY <1>1, <2>2 DEF ALoaded, APlace
    <3>3. r.op = s.op /\ r.a = s.a /\ r.bank = s.bank /\ r.da = n
      BY <3>1, AddressesAre DEF Takes
    <3>4. QED
      BY <1>1, <2>2, <3>2, <3>3 DEF ALoaded, APlace
  <2>3. CASE k = APlace(n)
    <3>1. /\ WriteAt(w, t, k).addr = ADDR.DATA_WORD
          /\ WriteAt(w, t, k).value = pack_i8x4(ATileAt(w, t, n))
      BY <2>3, WritesAt DEF HostWrite
    <3>2. s.bank = 0 /\ s.da = n
      BY <1>1, <2>3 DEF ALoaded, APlace
    <3>3. unpack_i8x4(pack_i8x4(ATileAt(w, t, n))) = ATileAt(w, t, n)
      <4>1. n \in Nat
        OBVIOUS
      <4>2. QED
        BY <4>1, TileAtType, PackRoundTrip
    <3>4. r.op = s.op /\ r.a = [s.a EXCEPT ![n] = ATileAt(w, t, n)]
      BY <3>1, <3>2, <3>3, AddressesAre DEF Takes
    <3>5. s.a \in [S -> Tile] /\ \A m \in 0 .. 3 : m \in S
      BY DEF Loader, Slots
    <3>6. \A m \in 0 .. 3 : r.a[m] = IF m = n THEN ATileAt(w, t, n) ELSE s.a[m]
      BY <3>4, <3>5
    <3>7. QED
      BY <1>1, <2>3, <3>4, <3>6 DEF ALoaded, APlace
  <2>4. QED
    BY <2>1, <2>2, <2>3
<1>6. QED
  BY <1>2, <1>3, <1>4, <1>5 DEF IsLoaded

LEMMA AnotherB ==
  ASSUME NEW w \in Pair, NEW t \in TileNumbers, NEW S, Slots \subseteq S, NEW s \in Loader(S), NEW r \in Loader(S),
         NEW n \in 0 .. 4, NEW k \in {BPlace(n) - 2, BPlace(n) - 1, BPlace(n)},
         IsLoaded(w, t, k - 1, s), Takes(WriteAt(w, t, k), s, r)
  PROVE  IsLoaded(w, t, k, r)
<1>1. BLoaded(w, t, k - 1, s) /\ ALoaded(w, t, k - 1, s) /\ OpsLoaded(k - 1, s)
  BY DEF IsLoaded
<1>2. k \in 28 .. 42
  BY DEF BPlace
<1>3. r.op = s.op => OpsLoaded(k, r)
  BY <1>1, <1>2 DEF OpsLoaded, InstrPlace
<1>4. r.a = s.a => ALoaded(w, t, k, r)
  BY <1>1, <1>2 DEF ALoaded, APlace
<1>5. BLoaded(w, t, k, r) /\ r.op = s.op /\ r.a = s.a
  <2>1. CASE k = BPlace(n) - 2
    <3>1. WriteAt(w, t, k).addr = ADDR.DATA_BANK /\ WriteAt(w, t, k).value = 1
      BY <2>1, WritesAt DEF HostWrite
    <3>2. r.op = s.op /\ r.a = s.a /\ r.b = s.b /\ r.bank = 1
      BY <3>1, AddressesAre DEF Takes
    <3>3. QED
      BY <1>1, <2>1, <3>2 DEF BLoaded, BPlace
  <2>2. CASE k = BPlace(n) - 1
    <3>1. WriteAt(w, t, k).addr = ADDR.DATA_ADDR /\ WriteAt(w, t, k).value = n
      BY <2>2, WritesAt DEF HostWrite
    <3>2. s.bank = 1
      BY <1>1, <2>2 DEF BLoaded, BPlace
    <3>3. r.op = s.op /\ r.a = s.a /\ r.b = s.b /\ r.bank = s.bank /\ r.da = n
      BY <3>1, AddressesAre DEF Takes
    <3>4. QED
      BY <1>1, <2>2, <3>2, <3>3 DEF BLoaded, BPlace
  <2>3. CASE k = BPlace(n)
    <3>1. /\ WriteAt(w, t, k).addr = ADDR.DATA_WORD
          /\ WriteAt(w, t, k).value = pack_i8x4(BTileAt(w, t, n))
      BY <2>3, WritesAt DEF HostWrite
    <3>2. s.bank = 1 /\ s.da = n
      BY <1>1, <2>3 DEF BLoaded, BPlace
    <3>3. unpack_i8x4(pack_i8x4(BTileAt(w, t, n))) = BTileAt(w, t, n)
      <4>1. n \in Nat
        OBVIOUS
      <4>2. QED
        BY <4>1, TileAtType, PackRoundTrip
    <3>4. r.op = s.op /\ r.a = s.a /\ r.b = [s.b EXCEPT ![n] = BTileAt(w, t, n)]
      BY <3>1, <3>2, <3>3, AddressesAre DEF Takes
    <3>5. s.b \in [S -> Tile] /\ \A m \in 0 .. 4 : m \in S
      BY DEF Loader, Slots
    <3>6. \A m \in 0 .. 4 : r.b[m] = IF m = n THEN BTileAt(w, t, n) ELSE s.b[m]
      BY <3>4, <3>5
    <3>7. QED
      BY <1>1, <2>3, <3>4, <3>6 DEF BLoaded, BPlace
  <2>4. QED
    BY <2>1, <2>2, <2>3
<1>6. QED
  BY <1>2, <1>3, <1>4, <1>5 DEF IsLoaded

LEMMA LengthWritten ==
  ASSUME NEW w, NEW t, NEW s, NEW r, IsLoaded(w, t, 42, s), Takes(WriteAt(w, t, 43), s, r)
  PROVE  IsLoaded(w, t, 43, r)
<1>1. WriteAt(w, t, 43).addr = ADDR.PROGRAM_LEN /\ WriteAt(w, t, 43).value = 7
  BY WritesAt DEF HostWrite
<1>2. r.op = s.op /\ r.a = s.a /\ r.b = s.b /\ r.len = 7
  BY <1>1, AddressesAre DEF Takes
<1>3. OpsLoaded(43, r) /\ ALoaded(w, t, 43, r) /\ BLoaded(w, t, 43, r)
  BY <1>2 DEF IsLoaded, OpsLoaded, ALoaded, BLoaded, InstrPlace, APlace, BPlace
<1>4. QED
  BY <1>2, <1>3 DEF IsLoaded

LEMMA NothingLoaded ==
  ASSUME NEW w, NEW t, NEW s, NEW j \in 0 .. 1
  PROVE  IsLoaded(w, t, j, s)
BY DEF IsLoaded, OpsLoaded, ALoaded, BLoaded, InstrPlace, APlace, BPlace

\* The loader after a write of the table is loaded as far as the table has got.
LEMMA LoadedOn ==
  ASSUME NEW w \in Pair, NEW t \in TileNumbers, NEW S, Slots \subseteq S, NEW s \in Loader(S), NEW r \in Loader(S),
         NEW k \in 2 .. 43, IsLoaded(w, t, k - 1, s), Takes(WriteAt(w, t, k), s, r)
  PROVE  IsLoaded(w, t, k, r)
<1>1. CASE \E n \in 0 .. 6 : k = InstrPlace(n) - 1 \/ k = InstrPlace(n)
  BY <1>1, AnotherInstr
<1>2. CASE \E n \in 0 .. 3 : k = APlace(n) - 2 \/ k = APlace(n) - 1 \/ k = APlace(n)
  BY <1>2, AnotherA
<1>3. CASE \E n \in 0 .. 4 : k = BPlace(n) - 2 \/ k = BPlace(n) - 1 \/ k = BPlace(n)
  BY <1>3, AnotherB
<1>4. CASE k = 43
  <2>1. IsLoaded(w, t, 42, s)
    BY <1>4
  <2>2. QED
    BY <1>4, <2>1, LengthWritten
<1>5. QED
  BY <1>1, <1>2, <1>3, <1>4, PlacesCover

-----------------------------------------------------------------------------
(* What a run of a tile program leaves, in any datapath whose accumulator  *)
(* was wiped, and what the host makes of the words it reads.               *)

TileResult(w, t) ==
  [ij \in Cell |-> Block(MatMul(w[1], w[2]), CRow(t), CCol(t))[ij] % AccSpan]

IsTileProgram(w, t, p) ==
  /\ p \in Seq(Instruction) /\ Len(p) = 7
  /\ \A n \in 1 .. 7 : p[n].op = OpName(Opcodes[n]) /\ p[n].cycles = 1
  /\ p[1].a = ATileAt(w, t, 0) /\ p[2].b = BTileAt(w, t, 1)
  /\ p[4].a = ATileAt(w, t, 3) /\ p[5].b = BTileAt(w, t, 4)

LEMMA OpcodeNames ==
  /\ OpName(Opcodes[1]) = "LOAD_A" /\ OpName(Opcodes[2]) = "LOAD_B" /\ OpName(Opcodes[3]) = "MAC_TILE"
  /\ OpName(Opcodes[4]) = "LOAD_A" /\ OpName(Opcodes[5]) = "LOAD_B" /\ OpName(Opcodes[6]) = "MAC_TILE"
  /\ OpName(Opcodes[7]) = "STORE_C"
BY DEF Opcodes, OpName, OpNames

\* Two clocks of the tile, one for each K tile, add up to the block of the product.
LEMMA TwoProducts ==
  ASSUME NEW w \in Pair, NEW t \in TileNumbers
  PROVE  Accumulate(Accumulate(Zero, ATileAt(w, t, 0), BTileAt(w, t, 1), 1),
                    ATileAt(w, t, 3), BTileAt(w, t, 4), 1) = TileResult(w, t)
<1> DEFINE a0 == ATileAt(w, t, 0)
           b0 == BTileAt(w, t, 1)
           a1 == ATileAt(w, t, 3)
           b1 == BTileAt(w, t, 4)
           one == Accumulate(Zero, a0, b0, 1)
<1>1. AccSpan \in Nat \ {0}
  BY AccAssumption
<1>2. a0 \in Tile /\ b0 \in Tile /\ a1 \in Tile /\ b1 \in Tile
  BY TileAtType
<1>3. ASSUME NEW ij \in Cell
      PROVE  Product(a0, b0)[ij] + Product(a1, b1)[ij] = Block(MatMul(w[1], w[2]), CRow(t), CCol(t))[ij]
  <2> DEFINE A == w[1]
             B == w[2]
             r == CRow(t) + ij[1]
             k == CCol(t) + ij[2]
  <2>1. /\ CRow(t) \in {0, 2} /\ CCol(t) \in {0, 2}
        /\ ij[1] \in 0 .. 1 /\ ij[2] \in 0 .. 1 /\ ij = <<ij[1], ij[2]>>
    BY TilesAre DEF Cell
  <2>2. /\ a0[<<ij[1], 0>>] = A[<<r, 0>>] /\ a0[<<ij[1], 1>>] = A[<<r, 1>>]
        /\ a1[<<ij[1], 0>>] = A[<<r, 2>>] /\ a1[<<ij[1], 1>>] = A[<<r, 3>>]
    BY <2>1 DEF ATileAt, Block, Cell
  <2>3. /\ b0[<<0, ij[2]>>] = B[<<0, k>>] /\ b0[<<1, ij[2]>>] = B[<<1, k>>]
        /\ b1[<<0, ij[2]>>] = B[<<2, k>>] /\ b1[<<1, ij[2]>>] = B[<<3, k>>]
    BY <2>1 DEF BTileAt, Block, Cell
  <2>4. <<r, k>> \in Dim \X Dim /\ <<r, k>>[1] = r /\ <<r, k>>[2] = k
    BY <2>1 DEF Dim
  <2>5. Block(MatMul(A, B), CRow(t), CCol(t))[ij] = MatMul(A, B)[<<r, k>>]
    BY DEF Block
  <2>6. /\ \A m \in 0 .. 3 : <<r, m>> \in Dim \X Dim /\ <<m, k>> \in Dim \X Dim
        /\ A \in [Dim \X Dim -> Int8] /\ B \in [Dim \X Dim -> Int8] /\ Int8 \subseteq Int
    BY <2>1 DEF Dim, Pair, Matrix, Int8
  <2>7. ASSUME NEW m \in {0, 1, 2, 3} PROVE A[<<r, m>>] \in Int /\ B[<<m, k>>] \in Int
    <3>1. <<r, m>> \in Dim \X Dim /\ <<m, k>> \in Dim \X Dim
      BY <2>6
    <3>2. QED
      BY <2>6, <3>1
  <2>8. MatMul(A, B)[<<r, k>>] = A[<<r, 0>>] * B[<<0, k>>] + A[<<r, 1>>] * B[<<1, k>>]
                                   + A[<<r, 2>>] * B[<<2, k>>] + A[<<r, 3>>] * B[<<3, k>>]
    BY <2>4 DEF MatMul
  <2>9. /\ Product(a0, b0)[ij] = A[<<r, 0>>] * B[<<0, k>>] + A[<<r, 1>>] * B[<<1, k>>]
        /\ Product(a1, b1)[ij] = A[<<r, 2>>] * B[<<2, k>>] + A[<<r, 3>>] * B[<<3, k>>]
    BY <2>2, <2>3 DEF Product
  <2> HIDE DEF A, B, r, k, a0, b0, a1, b1
  <2>10. /\ A[<<r, 0>>] * B[<<0, k>>] \in Int /\ A[<<r, 1>>] * B[<<1, k>>] \in Int
         /\ A[<<r, 2>>] * B[<<2, k>>] \in Int /\ A[<<r, 3>>] * B[<<3, k>>] \in Int
    BY <2>7
  <2>11. \A e, f, g, h \in Int : (e + f) + (g + h) = e + f + g + h
    OBVIOUS
  <2>12. Product(a0, b0)[ij] + Product(a1, b1)[ij] = MatMul(A, B)[<<r, k>>]
    BY <2>8, <2>9, <2>10, <2>11
  <2>13. QED
    BY <2>5, <2>12 DEF A, B
<1>4. ASSUME NEW ij \in Cell
      PROVE  (one[ij] + 1 * Product(a1, b1)[ij]) % AccSpan
               = Block(MatMul(w[1], w[2]), CRow(t), CCol(t))[ij] % AccSpan
  <2>1. Product(a0, b0)[ij] \in Int /\ Product(a1, b1)[ij] \in Int
    BY <1>2, ProductInt
  <2>2. one[ij] = (0 + 1 * Product(a0, b0)[ij]) % AccSpan
    BY DEF Accumulate, Zero
  <2>3. ((Product(a0, b0)[ij] % AccSpan) + Product(a1, b1)[ij]) % AccSpan
          = (Product(a0, b0)[ij] + Product(a1, b1)[ij]) % AccSpan
    BY <1>1, <2>1, ModAdd
  <2> HIDE DEF one, a0, b0, a1, b1
  <2>4. 0 + 1 * Product(a0, b0)[ij] = Product(a0, b0)[ij] /\ 1 * Product(a1, b1)[ij] = Product(a1, b1)[ij]
    BY <2>1
  <2>5. QED
    BY <1>3, <2>2, <2>3, <2>4
<1> HIDE DEF one, a0, b0, a1, b1
<1>5. Accumulate(one, a1, b1, 1) = TileResult(w, t)
  BY <1>4 DEF Accumulate, TileResult
<1>6. QED
  BY <1>5 DEF one, a0, b0, a1, b1

LEMMA ExecLoadA ==
  ASSUME NEW dp \in DP, NEW x, x.op = "LOAD_A"
  PROVE  Exec(dp, x).a = x.a /\ Exec(dp, x).b = dp.b /\ Exec(dp, x).c = dp.c
BY DEF Exec, DP

LEMMA ExecLoadB ==
  ASSUME NEW dp \in DP, NEW x, x.op = "LOAD_B"
  PROVE  Exec(dp, x).a = dp.a /\ Exec(dp, x).b = x.b /\ Exec(dp, x).c = dp.c
BY DEF Exec, DP

LEMMA ExecMac ==
  ASSUME NEW dp \in DP, NEW x, x.op = "MAC_TILE"
  PROVE  Exec(dp, x).c = Accumulate(dp.c, dp.a, dp.b, x.cycles)
BY DEF Exec, DP

LEMMA ExecStore ==
  ASSUME NEW dp \in DP, NEW x, x.op = "STORE_C"
  PROVE  Exec(dp, x).stored = dp.c /\ Exec(dp, x).valid = TRUE
BY DEF Exec, DP

LEMMA RunOfTile ==
  ASSUME NEW w \in Pair, NEW t \in TileNumbers, NEW p, IsTileProgram(w, t, p),
         NEW dp \in DP, dp.c = Zero
  PROVE  /\ Interpret(dp, p).stored = TileResult(w, t) /\ Interpret(dp, p).valid = TRUE
         /\ Interpret(dp, p) \in DP
<1>1. p \in Seq(Instruction) /\ Len(p) = 7
  BY DEF IsTileProgram
<1>2. PICK f \in [0 .. 7 -> DP] :
        /\ f[0] = dp /\ Interpret(dp, p) = f[7]
        /\ \A n \in 1 .. 7 : f[n] = Exec(f[n - 1], p[n])
  <2>1. \E f \in [0 .. Len(p) -> DP] :
           /\ f[0] = dp /\ Interpret(dp, p) = f[Len(p)]
           /\ \A n \in 1 .. Len(p) : f[n] = Exec(f[n - 1], p[n])
    BY <1>1, InterpretRun
  <2>2. QED
    BY <1>1, <2>1
<1>3. /\ p[1].op = "LOAD_A" /\ p[2].op = "LOAD_B" /\ p[3].op = "MAC_TILE" /\ p[4].op = "LOAD_A"
      /\ p[5].op = "LOAD_B" /\ p[6].op = "MAC_TILE" /\ p[7].op = "STORE_C"
  BY OpcodeNames DEF IsTileProgram
<1>4. /\ p[1].a = ATileAt(w, t, 0) /\ p[2].b = BTileAt(w, t, 1)
      /\ p[4].a = ATileAt(w, t, 3) /\ p[5].b = BTileAt(w, t, 4)
      /\ p[3].cycles = 1 /\ p[6].cycles = 1
  BY DEF IsTileProgram
<1>5. /\ f[0] \in DP /\ f[1] \in DP /\ f[2] \in DP /\ f[3] \in DP
      /\ f[4] \in DP /\ f[5] \in DP /\ f[6] \in DP /\ f[7] \in DP
  BY <1>2
<1>6. /\ f[1] = Exec(f[0], p[1]) /\ f[2] = Exec(f[1], p[2]) /\ f[3] = Exec(f[2], p[3])
      /\ f[4] = Exec(f[3], p[4]) /\ f[5] = Exec(f[4], p[5]) /\ f[6] = Exec(f[5], p[6])
      /\ f[7] = Exec(f[6], p[7])
  BY <1>2
<1>7. f[1].a = ATileAt(w, t, 0) /\ f[1].c = Zero
  BY <1>2, <1>3, <1>4, <1>5, <1>6, ExecLoadA
<1>8. f[2].a = ATileAt(w, t, 0) /\ f[2].b = BTileAt(w, t, 1) /\ f[2].c = Zero
  BY <1>3, <1>4, <1>5, <1>6, <1>7, ExecLoadB
<1>9. f[3].c = Accumulate(Zero, ATileAt(w, t, 0), BTileAt(w, t, 1), 1)
  BY <1>3, <1>4, <1>5, <1>6, <1>8, ExecMac
<1>10. f[4].a = ATileAt(w, t, 3) /\ f[4].c = f[3].c
  BY <1>3, <1>4, <1>5, <1>6, ExecLoadA
<1>11. f[5].a = ATileAt(w, t, 3) /\ f[5].b = BTileAt(w, t, 4) /\ f[5].c = f[3].c
  BY <1>3, <1>4, <1>5, <1>6, <1>10, ExecLoadB
<1>12. f[6].c = Accumulate(f[3].c, ATileAt(w, t, 3), BTileAt(w, t, 4), 1)
  BY <1>3, <1>4, <1>5, <1>6, <1>11, ExecMac
<1>13. f[7].stored = f[6].c /\ f[7].valid = TRUE
  <2>1. f[6] \in DP /\ p[7].op = "STORE_C" /\ f[7] = Exec(f[6], p[7])
    BY <1>3, <1>5, <1>6
  <2>2. Exec(f[6], p[7]).stored = f[6].c /\ Exec(f[6], p[7]).valid = TRUE
    BY <2>1, ExecStore
  <2>3. QED
    BY <2>1, <2>2
<1>14. f[7].stored = TileResult(w, t)
  BY <1>9, <1>12, <1>13, TwoProducts
<1>15. QED
  BY <1>2, <1>5, <1>13, <1>14

\* The largest product of two int8 values.
Largest == 128 * 128

LEMMA LargestIs == Largest \in Nat /\ Largest = 128 * 128
BY DEF Largest

LEMMA UpTo128Times ==
  ASSUME NEW u \in 0 .. 128, NEW v \in 0 .. 128
  PROVE  u * v \in Nat /\ u * v <= Largest
<1>1. u * v \in Nat
  OBVIOUS
<1>2. u * v <= 128 * v /\ 128 * v <= 128 * 128
  <2>1. (128 - u) * v >= 0
    OBVIOUS
  <2>2. (128 - u) * v = 128 * v - u * v
    OBVIOUS
  <2>3. QED
    BY <1>1, <2>1, <2>2
<1>3. QED
  BY <1>1, <1>2, LargestIs

LEMMA Int8Times ==
  ASSUME NEW x \in Int8, NEW y \in Int8
  PROVE  x * y \in Int /\ -Largest <= x * y /\ x * y <= Largest
<1>1. x \in Int /\ y \in Int /\ -128 <= x /\ x <= 128 /\ -128 <= y /\ y <= 128
  BY DEF Int8
<1>2. /\ x * y \in Int /\ (-x) * (-y) = x * y
      /\ x * (-y) = -(x * y) /\ (-x) * y = -(x * y)
  BY <1>1
<1>3. CASE x >= 0 /\ y >= 0
  <2>1. x \in 0 .. 128 /\ y \in 0 .. 128
    BY <1>1, <1>3
  <2>2. x * y <= Largest /\ x * y >= 0
    BY <2>1, UpTo128Times
  <2>3. QED
    BY <1>2, <2>2, LargestIs
<1>4. CASE x >= 0 /\ y < 0
  <2>1. x \in 0 .. 128 /\ -y \in 0 .. 128
    BY <1>1, <1>4
  <2>2. x * (-y) <= Largest /\ x * (-y) >= 0
    BY <2>1, UpTo128Times
  <2>3. QED
    BY <1>2, <2>2, LargestIs
<1>5. CASE x < 0 /\ y >= 0
  <2>1. -x \in 0 .. 128 /\ y \in 0 .. 128
    BY <1>1, <1>5
  <2>2. (-x) * y <= Largest /\ (-x) * y >= 0
    BY <2>1, UpTo128Times
  <2>3. QED
    BY <1>2, <2>2, LargestIs
<1>6. CASE x < 0 /\ y < 0
  <2>1. -x \in 0 .. 128 /\ -y \in 0 .. 128
    BY <1>1, <1>6
  <2>2. (-x) * (-y) <= Largest /\ (-x) * (-y) >= 0
    <3>1. \A u \in 0 .. 128, v \in 0 .. 128 : u * v <= Largest /\ u * v >= 0
      BY UpTo128Times
    <3>2. QED
      BY <2>1, <3>1, Zenon
  <2>3. QED
    BY <1>2, <2>2, LargestIs
<1>7. QED
  BY <1>1, <1>2, <1>3, <1>4, <1>5, <1>6

\* An element of a product of int8 matrices fits the C registers with its sign.
Fits(v) == v \in Int /\ -(4 * Largest) <= v /\ v <= 4 * Largest

LEMMA MatMulRange ==
  ASSUME NEW w \in Pair, NEW rc \in Element
  PROVE  Fits(MatMul(w[1], w[2])[rc])
<1>1. /\ w[1] \in [Dim \X Dim -> Int8] /\ w[2] \in [Dim \X Dim -> Int8]
      /\ rc[1] \in Dim /\ rc[2] \in Dim /\ rc \in Dim \X Dim
  BY DEF Pair, Matrix, Element
<1>2. \A m \in {0, 1, 2, 3} : w[1][<<rc[1], m>>] \in Int8 /\ w[2][<<m, rc[2]>>] \in Int8
  BY <1>1 DEF Dim
<1> DEFINE v(m) == w[1][<<rc[1], m>>] * w[2][<<m, rc[2]>>]
<1>3. \A m \in {0, 1, 2, 3} : v(m) \in Int /\ -Largest <= v(m) /\ v(m) <= Largest
  BY <1>2, Int8Times
<1>4. MatMul(w[1], w[2])[rc] = v(0) + v(1) + v(2) + v(3)
  BY <1>1 DEF MatMul
<1> HIDE DEF v
<1>5. /\ v(0) \in Int /\ -Largest <= v(0) /\ v(0) <= Largest
      /\ v(1) \in Int /\ -Largest <= v(1) /\ v(1) <= Largest
      /\ v(2) \in Int /\ -Largest <= v(2) /\ v(2) <= Largest
      /\ v(3) \in Int /\ -Largest <= v(3) /\ v(3) <= Largest
  BY <1>3
<1>6. QED
  BY <1>4, <1>5, LargestIs DEF Fits

LEMMA SignBack ==
  ASSUME NEW v, Fits(v), AccSpan > 8 * Largest
  PROVE  ToSigned(v % AccSpan) = v
<1>1. /\ AccSpan \in Nat \ {0} /\ v \in Int /\ 2 * v < AccSpan /\ 2 * (v + AccSpan) >= AccSpan
      /\ v < AccSpan /\ v + AccSpan >= 0
  BY AccAssumption, LargestIs DEF Fits
<1>2. CASE v >= 0
  <2>1. v % AccSpan = v
    BY <1>1, <1>2
  <2>2. QED
    BY <1>1, <2>1 DEF ToSigned
<1>3. CASE v < 0
  <2>1. v + AccSpan \in 0 .. AccSpan - 1 /\ AccSpan * (-1) + (v + AccSpan) = v
    BY <1>1, <1>3
  <2>2. v = AccSpan * (v \div AccSpan) + (v % AccSpan) /\ v % AccSpan \in 0 .. AccSpan - 1 /\ v \div AccSpan \in Int
    BY <1>1, Remainder
  <2>3. v % AccSpan = v + AccSpan
    BY <1>1, <2>1, <2>2, ModUnique
  <2>4. QED
    BY <1>1, <2>3 DEF ToSigned
<1>4. QED
  BY <1>1, <1>2, <1>3

-----------------------------------------------------------------------------
(* The runner, whatever device answers it: where it stands in its table,   *)
(* and what it has stored of the product.                                  *)

\* The element rc has been read from the device.
IsRead(rc) ==
  \/ TileOf(rc) <= tile
  \/ phase = "read" /\ TileOf(rc) = tile + 1 /\ <<rc[1] - OutRow, rc[2] - OutCol>> \notin unread

OutputInv ==
  /\ out_c \in [Element -> {NotWritten} \cup {Written(v) : v \in Int}]
  /\ \A rc \in Element :
       out_c[rc] = IF IsRead(rc) THEN Written(MatMul(work[1], work[2])[rc]) ELSE NotWritten

InTable ==
  /\ phase \in {"write", "poll", "read", "end"}
  /\ tile \in 0 .. 4 /\ i \in Nat
  /\ phase = "end" <=> tile = 4
  /\ phase = "write" => 44 * tile < i /\ i <= 44 * tile + 44
  /\ phase \in {"poll", "read"} => i = 44 * tile + 44
  /\ phase = "read" => unread # {} /\ unread \subseteq Cell

Generated ==
  /\ work \in Workloads /\ IsTable(writes, work) /\ expected = MatMul(work[1], work[2])

RunnerInv == Generated /\ InTable /\ OutputInv

\* The place of the next write in the part of its tile.
Place == i - 44 * tile

LEMMA WorkIsPair == ASSUME Generated PROVE work \in Pair
BY WorkloadAssumption DEF Generated, Pair

LEMMA NextWrite ==
  ASSUME Generated, InTable, phase \in {"write", "poll", "read"}
  PROVE  /\ tile + 1 \in TileNumbers /\ Place \in 1 .. 44
         /\ writes[i] = WriteAt(work, tile + 1, Place)
<1>1. tile \in 0 .. 3 /\ Place \in 1 .. 44 /\ i \in Int
  BY DEF InTable, Place
<1>2. tile + 1 \in TileNumbers /\ 44 * (tile + 1 - 1) + Place = i
  BY <1>1 DEF TileNumbers, Place
<1>3. \A t \in TileNumbers : \A j \in 1 .. 44 : writes[44 * (t - 1) + j] = WriteAt(work, t, j)
  BY DEF Generated, IsTable
<1>4. writes[44 * (tile + 1 - 1) + Place] = WriteAt(work, tile + 1, Place)
  BY <1>1, <1>2, <1>3
<1>5. QED
  BY <1>1, <1>2, <1>4

\* Only the last write of a tile is a START.
LEMMA StartIsLast ==
  ASSUME NEW w \in Pair, NEW t \in TileNumbers, NEW j \in 1 .. 44
  PROVE  IsStart(WriteAt(w, t, j)) <=> j = 44
<1>1. REGISTER_DEFINES.CONTROL = 0
  BY AddressesAre DEF REGISTER_DEFINES
<1>2. CASE j = 1
  <2>1. WriteAt(w, t, j).value = 2
    BY <1>2, WritesAt DEF HostWrite, CONTROL_CLEAR
  <2>2. QED
    BY <1>2, <2>1 DEF IsStart, CONTROL_START
<1>3. CASE j \in 2 .. 43
  <2>1. WriteAt(w, t, j).addr # 0
    <3>1. /\ \A n \in 0 .. 6 : WriteAt(w, t, InstrPlace(n) - 1).addr = 16 /\ WriteAt(w, t, InstrPlace(n)).addr = 20
          /\ \A n \in 0 .. 3 : /\ WriteAt(w, t, APlace(n) - 2).addr = 28 /\ WriteAt(w, t, APlace(n) - 1).addr = 24
                               /\ WriteAt(w, t, APlace(n)).addr = 32
          /\ \A n \in 0 .. 4 : /\ WriteAt(w, t, BPlace(n) - 2).addr = 28 /\ WriteAt(w, t, BPlace(n) - 1).addr = 24
                               /\ WriteAt(w, t, BPlace(n)).addr = 32
          /\ WriteAt(w, t, 43).addr = 8
      BY WritesAt, AddressesAre DEF HostWrite
    <3>2. CASE \E n \in 0 .. 6 : j = InstrPlace(n) - 1 \/ j = InstrPlace(n)
      BY <3>1, <3>2
    <3>3. CASE \E n \in 0 .. 3 : j = APlace(n) - 2 \/ j = APlace(n) - 1 \/ j = APlace(n)
      BY <3>1, <3>3
    <3>4. CASE \E n \in 0 .. 4 : j = BPlace(n) - 2 \/ j = BPlace(n) - 1 \/ j = BPlace(n)
      BY <3>1, <3>4
    <3>5. CASE j = 43
      BY <3>1, <3>5
    <3>6. QED
      BY <1>3, <3>2, <3>3, <3>4, <3>5, PlacesCover
  <2>2. QED
    BY <1>1, <1>3, <2>1 DEF IsStart
<1>4. CASE j = 44
  <2>1. WriteAt(w, t, j).value = 1 /\ WriteAt(w, t, j).addr = 0
    BY <1>4, WritesAt, AddressesAre DEF HostWrite, CONTROL_START
  <2>2. QED
    BY <1>1, <1>4, <2>1 DEF IsStart, CONTROL_START
<1>5. QED
  BY <1>2, <1>3, <1>4

\* The element a C register is stored to.
LEMMA OutIs ==
  ASSUME InTable, tile < 4
  PROVE  OutRow = CRow(tile + 1) /\ OutCol = CCol(tile + 1)
BY TilesAre DEF InTable, OutRow, OutCol, CRow, CCol

LEMMA WriteSteps ==
  ASSUME RunnerInv, WroteReg
  PROVE  /\ RunnerInv' /\ work' = work /\ tile' = tile /\ phase = "write"
         /\ Place < 44 => phase' = "write" /\ Place' = Place + 1
         /\ Place = 44 => phase' = "poll"
<1>1. /\ phase = "write" /\ work' = work /\ writes' = writes /\ expected' = expected
      /\ tile' = tile /\ unread' = unread /\ out_c' = out_c
  BY DEF WroteReg
<1>2. /\ tile + 1 \in TileNumbers /\ Place \in 1 .. 44 /\ writes[i] = WriteAt(work, tile + 1, Place)
      /\ work \in Pair /\ Len(writes) = 176 /\ tile \in 0 .. 3 /\ i = 44 * tile + Place
  <2>1. /\ tile + 1 \in TileNumbers /\ Place \in 1 .. 44 /\ writes[i] = WriteAt(work, tile + 1, Place)
    BY <1>1, NextWrite DEF RunnerInv
  <2>2. work \in Pair /\ Len(writes) = 176
    BY WorkIsPair DEF RunnerInv, Generated, IsTable
  <2>3. tile \in 0 .. 3 /\ i = 44 * tile + Place
    BY <1>1 DEF RunnerInv, InTable, Place
  <2>4. QED
    BY <2>1, <2>2, <2>3
<1>3. IsStart(writes[i]) <=> Place = 44
  BY <1>2, StartIsLast
<1>4. Generated'
  BY <1>1 DEF RunnerInv, Generated
<1>5. Place < 44 => phase' = "write" /\ i' = i + 1 /\ Place' = Place + 1
  <2>1. Place < 44 => i # 176
    BY <1>2
  <2>2. Place < 44 => i' = i + 1 /\ phase' = "write"
    BY <1>1, <1>2, <1>3, <2>1 DEF WroteReg, Proceed
  <2>3. QED
    BY <1>1, <1>2, <2>2 DEF Place
<1>6. Place = 44 => phase' = "poll" /\ i' = i
  BY <1>1, <1>3 DEF WroteReg
<1>7. InTable'
  BY <1>1, <1>2, <1>5, <1>6 DEF InTable
<1>8. OutputInv'
  <2>1. ASSUME NEW rc \in Element PROVE IsRead(rc)' <=> IsRead(rc)
    BY <1>1, <1>2, <1>5, <1>6 DEF IsRead
  <2>2. QED
    BY <1>1, <2>1 DEF RunnerInv, OutputInv
<1>9. QED
  BY <1>1, <1>4, <1>5, <1>6, <1>7, <1>8 DEF RunnerInv

\* A status that says done says that there is a result to read.
LEMMA PollSteps ==
  ASSUME RunnerInv, NEW status, status.stored_valid, PollDone(status)
  PROVE  RunnerInv' /\ work' = work /\ tile' = tile /\ phase = "poll" /\ phase' = "read"
<1>1. /\ phase = "poll" /\ phase' = "read" /\ unread' = Cell /\ i' = i /\ tile' = tile
      /\ work' = work /\ writes' = writes /\ expected' = expected /\ out_c' = out_c
  BY DEF PollDone
<1>2. Generated' /\ InTable'
  <2>1. Cell # {}
    BY CellIs
  <2>2. QED
    BY <1>1, <2>1 DEF RunnerInv, Generated, InTable
<1>3. OutputInv'
  <2>1. tile \in 0 .. 3 /\ OutRow' = OutRow /\ OutCol' = OutCol
    BY <1>1 DEF RunnerInv, InTable, OutRow, OutCol
  <2>2. ASSUME NEW rc \in Element PROVE IsRead(rc)' <=> IsRead(rc)
    <3>1. TileOf(rc) = tile + 1 => <<rc[1] - OutRow, rc[2] - OutCol>> \in Cell
      BY <2>1, OutIs, TileOfCovers DEF Within, RunnerInv
    <3>2. QED
      BY <1>1, <2>1, <3>1 DEF IsRead
  <2>3. QED
    BY <1>1, <2>2 DEF RunnerInv, OutputInv
<1>4. QED
  BY <1>1, <1>2, <1>3 DEF RunnerInv

LEMMA NextCellIs ==
  ASSUME unread # {}, unread \subseteq Cell
  PROVE  NextCell \in unread
<1>1. \E ij \in unread : \A kl \in unread : 2 * ij[1] + ij[2] <= 2 * kl[1] + kl[2]
  <2>1. CASE <<0, 0>> \in unread
    BY <2>1, CellIs
  <2>2. CASE <<0, 0>> \notin unread /\ <<0, 1>> \in unread
    BY <2>2, CellIs
  <2>3. CASE <<0, 0>> \notin unread /\ <<0, 1>> \notin unread /\ <<1, 0>> \in unread
    BY <2>3, CellIs
  <2>4. CASE <<0, 0>> \notin unread /\ <<0, 1>> \notin unread /\ <<1, 0>> \notin unread
    <3>1. unread = {<<1, 1>>}
      BY <2>4, CellIs
    <3>2. QED
      BY <3>1
  <2>5. QED
    BY <2>1, <2>2, <2>3, <2>4
<1>2. QED
  BY <1>1 DEF NextCell

\* The right word, read from the next C register, goes to the right element.
LEMMA ReadSteps ==
  ASSUME RunnerInv, NEW word, ReadC(word), word = TileResult(work, tile + 1)[NextCell]
  PROVE  /\ RunnerInv' /\ work' = work /\ phase = "read"
         /\ \/ tile' = tile /\ phase' = "read"
            \/ phase' = "write" /\ Place' = 1
            \/ phase' = "end"
<1> DEFINE r == OutRow + NextCell[1]
           k == OutCol + NextCell[2]
           v == MatMul(work[1], work[2])[<<r, k>>]
<1>1. /\ phase = "read" /\ work' = work /\ writes' = writes /\ expected' = expected
      /\ unread' = unread \ {NextCell}
      /\ out_c' = [out_c EXCEPT ![<<r, k>>] = Written(ToSigned(word))]
  BY DEF ReadC
<1>2. /\ tile \in 0 .. 3 /\ i = 44 * tile + 44 /\ unread # {} /\ unread \subseteq Cell
      /\ work \in Pair /\ Len(writes) = 176 /\ tile + 1 \in TileNumbers
  <2>1. tile \in 0 .. 3 /\ i = 44 * tile + 44 /\ unread # {} /\ unread \subseteq Cell
    BY <1>1 DEF RunnerInv, InTable
  <2>2. work \in Pair /\ Len(writes) = 176
    BY WorkIsPair DEF RunnerInv, Generated, IsTable
  <2>3. QED
    BY <2>1, <2>2 DEF TileNumbers
<1>3. NextCell \in unread /\ NextCell \in Cell
  BY <1>2, NextCellIs
<1>4. /\ OutRow = CRow(tile + 1) /\ OutCol = CCol(tile + 1)
      /\ OutRow \in {0, 2} /\ OutCol \in {0, 2}
  <2>1. OutRow = CRow(tile + 1) /\ OutCol = CCol(tile + 1)
    BY <1>2, OutIs DEF RunnerInv
  <2>2. QED
    BY <1>2, <2>1, TilesAre
<1>5. /\ <<r, k>> \in Element /\ r - OutRow = NextCell[1] /\ k - OutCol = NextCell[2]
      /\ NextCell = <<NextCell[1], NextCell[2]>>
  BY <1>3, <1>4 DEF Cell, Element, Dim
<1>6. TileOf(<<r, k>>) = tile + 1
  <2>1. Within(<<r, k>>, tile + 1)
    BY <1>3, <1>4, <1>5 DEF Within
  <2>2. QED
    BY <1>2, <1>5, <2>1, TileOfCovers
<1>7. Written(ToSigned(word)) = Written(v)
  <2>1. word = Block(MatMul(work[1], work[2]), OutRow, OutCol)[NextCell] % AccSpan
    BY <1>3, <1>4 DEF TileResult
  <2>2. Block(MatMul(work[1], work[2]), OutRow, OutCol)[NextCell] = v
    BY <1>3 DEF Block
  <2>3. Fits(v)
    BY <1>2, <1>5, MatMulRange
  <2>4. AccSpan > 8 * Largest
    BY RegisterAssumption, AccAssumption DEF Largest
  <2>5. ToSigned(v % AccSpan) = v
    BY <2>3, <2>4, SignBack
  <2>6. QED
    BY <2>1, <2>2, <2>5
<1>8. CASE unread' = {}
  <2>1. tile' = tile + 1 /\ i' = i + 1 /\ phase' = (IF i = 176 THEN "end" ELSE "write")
    BY <1>2, <1>8 DEF ReadC, Proceed
  <2>2. InTable' /\ (phase' = "end" \/ (phase' = "write" /\ Place' = 1))
    BY <1>2, <2>1 DEF InTable, Place
  <2>3. ASSUME NEW rc \in Element
        PROVE  IsRead(rc)' <=> IsRead(rc) \/ rc = <<r, k>>
    <3>1. unread = {NextCell}
      BY <1>1, <1>3, <1>8
    <3>2. /\ TileOf(rc) \in Nat /\ phase' # "read"
          /\ IsRead(rc)' <=> TileOf(rc) <= tile + 1
      BY <2>1, TileOfCovers DEF IsRead
    <3>3. IsRead(rc) <=> TileOf(rc) <= tile
                      \/ (TileOf(rc) = tile + 1 /\ <<rc[1] - OutRow, rc[2] - OutCol>> # NextCell)
      BY <1>1, <3>1 DEF IsRead
    <3>4. rc = <<r, k>> => TileOf(rc) = tile + 1
      BY <1>6
    <3>5. <<rc[1] - OutRow, rc[2] - OutCol>> = NextCell => rc = <<r, k>>
      <4>1. rc[1] \in Int /\ rc[2] \in Int /\ rc = <<rc[1], rc[2]>>
        BY DEF Element, Dim
      <4>2. QED
        BY <1>4, <1>5, <4>1
    <3>6. TileOf(rc) <= tile + 1 <=> TileOf(rc) <= tile \/ TileOf(rc) = tile + 1
      BY <1>2, <3>2
    <3>7. QED
      BY <3>2, <3>3, <3>4, <3>5, <3>6
  <2>4. OutputInv'
    <3>1. \A rc \in Element : out_c'[rc] = IF rc = <<r, k>> THEN Written(v) ELSE out_c[rc]
      BY <1>1, <1>5, <1>7 DEF RunnerInv, OutputInv
    <3>2. v \in Int
      BY <1>2, <1>5, MatMulRange DEF Fits
    <3>3. out_c' \in [Element -> {NotWritten} \cup {Written(x) : x \in Int}]
      BY <1>1, <1>7, <3>2 DEF RunnerInv, OutputInv
    <3>4. ASSUME NEW rc \in Element
          PROVE out_c'[rc] = IF IsRead(rc)' THEN Written(MatMul(work'[1], work'[2])[rc]) ELSE NotWritten
      <4>1. out_c[rc] = IF IsRead(rc) THEN Written(MatMul(work[1], work[2])[rc]) ELSE NotWritten
        BY DEF RunnerInv, OutputInv
      <4>2. QED
        BY <1>1, <2>3, <3>1, <4>1
    <3>5. QED
      BY <3>3, <3>4 DEF OutputInv
  <2>5. Generated'
    BY <1>1 DEF RunnerInv, Generated
  <2>6. QED
    BY <1>1, <2>2, <2>4, <2>5 DEF RunnerInv
<1>9. CASE unread' # {}
  <2>1. tile' = tile /\ i' = i /\ phase' = "read" /\ OutRow' = OutRow /\ OutCol' = OutCol
    BY <1>1, <1>9 DEF ReadC, OutRow, OutCol
  <2>2. InTable'
    BY <1>1, <1>2, <1>9, <2>1 DEF InTable
  <2>3. ASSUME NEW rc \in Element
        PROVE  IsRead(rc)' <=> IsRead(rc) \/ rc = <<r, k>>
    <3>1. rc = <<r, k>> => TileOf(rc) = tile + 1 /\ <<rc[1] - OutRow, rc[2] - OutCol>> = NextCell
      BY <1>5, <1>6
    <3>2. <<rc[1] - OutRow, rc[2] - OutCol>> = NextCell => rc = <<r, k>>
      <4>1. rc[1] \in Int /\ rc[2] \in Int /\ rc = <<rc[1], rc[2]>>
        BY DEF Element, Dim
      <4>2. QED
        BY <1>4, <1>5, <4>1
    <3>3. QED
      BY <1>1, <2>1, <3>1, <3>2 DEF IsRead
  <2>4. OutputInv'
    <3>1. \A rc \in Element : out_c'[rc] = IF rc = <<r, k>> THEN Written(v) ELSE out_c[rc]
      BY <1>1, <1>5, <1>7 DEF RunnerInv, OutputInv
    <3>2. v \in Int
      BY <1>2, <1>5, MatMulRange DEF Fits
    <3>3. out_c' \in [Element -> {NotWritten} \cup {Written(x) : x \in Int}]
      BY <1>1, <1>7, <3>2 DEF RunnerInv, OutputInv
    <3>4. ASSUME NEW rc \in Element
          PROVE out_c'[rc] = IF IsRead(rc)' THEN Written(MatMul(work'[1], work'[2])[rc]) ELSE NotWritten
      <4>1. out_c[rc] = IF IsRead(rc) THEN Written(MatMul(work[1], work[2])[rc]) ELSE NotWritten
        BY DEF RunnerInv, OutputInv
      <4>2. QED
        BY <1>1, <2>3, <3>1, <4>1
    <3>5. QED
      BY <3>3, <3>4 DEF OutputInv
  <2>5. Generated'
    BY <1>1 DEF RunnerInv, Generated
  <2>6. QED
    BY <1>1, <2>1, <2>2, <2>4, <2>5 DEF RunnerInv
<1>10. QED
  BY <1>8, <1>9

LEMMA RunnerStays ==
  ASSUME RunnerInv, UNCHANGED runnerVars
  PROVE  RunnerInv' /\ Place' = Place
BY DEF runnerVars, RunnerInv, Generated, InTable, OutputInv, IsRead, OutRow, OutCol, Place

\* A runner generated from a whole bundle is at the start of its table.
LEMMA RunnerStarts ==
  ASSUME CallerInit, NEW w \in Workloads, Generate(w, Whole(w))
  PROVE  RunnerInv' /\ work' = w /\ phase' = "write" /\ Place' = 1 /\ tile' = 0
<1>1. /\ phase' = "write" /\ work' = w /\ i' = 1 /\ tile' = 0
      /\ writes' = BundleWrites(WholeBundle(w)) /\ expected' = MatMul(w[1], w[2])
      /\ out_c' = [rc \in Dim \X Dim |-> NotWritten]
  BY DEF CallerInit, Generate, Whole
<1>2. w \in Pair
  BY WorkloadAssumption DEF Pair
<1>3. Generated'
  BY <1>1, <1>2, TableIs DEF Generated
<1>4. InTable' /\ Place' = 1
  BY <1>1 DEF InTable, Place
<1>5. OutputInv'
  <2>1. ASSUME NEW rc \in Element PROVE ~IsRead(rc)'
    <3>1. TileOf(rc) \in 1 .. 4
      BY TileOfCovers DEF TileNumbers
    <3>2. QED
      BY <1>1, <3>1 DEF IsRead
  <2>2. QED
    BY <1>1, <2>1 DEF OutputInv, Element
<1>6. QED
  BY <1>1, <1>3, <1>4, <1>5 DEF RunnerInv

\* What the invariant says of the caller's matrix.
LEMMA RunnerIsRight ==
  ASSUME RunnerInv
  PROVE  OutputIsProduct /\ OutputIsComplete
<1>1. \A rc \in Element :
        out_c[rc] = IF IsRead(rc) THEN Written(MatMul(work[1], work[2])[rc]) ELSE NotWritten
  BY DEF RunnerInv, OutputInv
<1>2. \A v : Written(v).value = v
  BY DEF Written
<1>3. OutputIsProduct
  BY <1>1, <1>2 DEF OutputIsProduct, Element
<1>4. phase = "end" => \A rc \in Element : IsRead(rc)
  <2>1. \A rc \in Element : TileOf(rc) \in 1 .. 4
    BY TileOfCovers DEF TileNumbers
  <2>2. phase = "end" => tile = 4
    BY DEF RunnerInv, InTable
  <2>3. QED
    BY <2>1, <2>2 DEF IsRead
<1>5. expected = MatMul(work[1], work[2])
  BY DEF RunnerInv, Generated
<1>6. OutputIsComplete
  BY <1>1, <1>4, <1>5 DEF OutputIsComplete, Element
<1>7. QED
  BY <1>3, <1>6

\* What the table writes between CLEAR and START.
IsPlain(x) ==
  \/ x.addr = ADDR.INSTR_ADDR /\ x.value \in 0 .. 6
  \/ x.addr = ADDR.INSTR_WORD /\ \E n \in 1 .. 7 : x.value = Word(n)
  \/ x.addr = ADDR.DATA_ADDR /\ x.value \in 0 .. 6
  \/ x.addr = ADDR.DATA_BANK /\ x.value \in 0 .. 1
  \/ x.addr = ADDR.DATA_WORD /\ \E values \in Tile : x.value = pack_i8x4(values)
  \/ x.addr = ADDR.PROGRAM_LEN /\ x.value = 7

LEMMA WritesArePlain ==
  ASSUME NEW w \in Pair, NEW t \in TileNumbers, NEW j \in 2 .. 43
  PROVE  IsPlain(WriteAt(w, t, j))
<1>1. \A n \in 0 .. 6 : n + 1 \in 1 .. 7 /\ n \in Nat
  OBVIOUS
<1>2. CASE \E n \in 0 .. 6 : j = InstrPlace(n) - 1 \/ j = InstrPlace(n)
  BY <1>1, <1>2, WritesAt DEF IsPlain, HostWrite
<1>3. CASE \E n \in 0 .. 3 : j = APlace(n) - 2 \/ j = APlace(n) - 1 \/ j = APlace(n)
  <2>1. PICK n \in 0 .. 3 : j = APlace(n) - 2 \/ j = APlace(n) - 1 \/ j = APlace(n)
    BY <1>3
  <2>2. ATileAt(w, t, n) \in Tile
    BY <1>1, TileAtType
  <2>3. QED
    BY <2>1, <2>2, WritesAt DEF IsPlain, HostWrite
<1>4. CASE \E n \in 0 .. 4 : j = BPlace(n) - 2 \/ j = BPlace(n) - 1 \/ j = BPlace(n)
  <2>1. PICK n \in 0 .. 4 : j = BPlace(n) - 2 \/ j = BPlace(n) - 1 \/ j = BPlace(n)
    BY <1>4
  <2>2. BTileAt(w, t, n) \in Tile
    BY <1>1, TileAtType
  <2>3. QED
    BY <2>1, <2>2, WritesAt DEF IsPlain, HostWrite
<1>5. CASE j = 43
  BY <1>5, WritesAt DEF IsPlain, HostWrite
<1>6. QED
  BY <1>2, <1>3, <1>4, <1>5, PlacesCover

-----------------------------------------------------------------------------
(* The generated C++ register model.                                       *)

LEMMA CppRunnerIsRunner ==
  /\ Cpp!WroteReg <=> WroteReg
  /\ \A status : (Cpp!PollAgain(status) <=> PollAgain(status)) /\ (Cpp!PollDone(status) <=> PollDone(status))
  /\ \A word : Cpp!ReadC(word) <=> ReadC(word)
  /\ Cpp!NextCell = NextCell
<1>1. Cpp!WroteReg <=> WroteReg
  BY DEF Cpp!WroteReg, WroteReg, Cpp!Proceed, Proceed, Cpp!IsStart, IsStart, Cpp!REGISTER_DEFINES,
     REGISTER_DEFINES, Cpp!ADDR, ADDR, Cpp!CONTROL_START, CONTROL_START
<1>2. Cpp!NextCell = NextCell
  BY DEF Cpp!NextCell, NextCell
<1>3. ASSUME NEW status PROVE Cpp!PollAgain(status) <=> PollAgain(status)
  BY DEF Cpp!PollAgain, PollAgain, Cpp!runnerVars, runnerVars
<1>4. ASSUME NEW status PROVE Cpp!PollDone(status) <=> PollDone(status)
  BY DEF Cpp!PollDone, PollDone, Cpp!Proceed, Proceed, Cpp!Cell, Cell
<1>5. ASSUME NEW word PROVE Cpp!ReadC(word) <=> ReadC(word)
  BY <1>2 DEF Cpp!ReadC, ReadC, Cpp!Proceed, Proceed, Cpp!OutRow, OutRow, Cpp!OutCol, OutCol,
     Cpp!Written, Written, Cpp!ToSigned, ToSigned
<1>6. QED
  BY <1>1, <1>2, <1>3, <1>4, <1>5

LEMMA CppComputes ==
  /\ Cpp!Zero = Zero
  /\ \A dp, p : Cpp!Interpret(dp, p) = Interpret(dp, p)
  /\ \A word : Cpp!unpack_i8x4(word) = unpack_i8x4(word)
  /\ \A word : Cpp!OpName(word) = OpName(word)
<1>1. Cpp!Zero = Zero
  BY DEF Cpp!Zero, Zero, Cpp!Cell, Cell
<1>2. ASSUME NEW dp, NEW p PROVE Cpp!Interpret(dp, p) = Interpret(dp, p)
  BY DEF Cpp!Interpret, Interpret, Cpp!Exec, Exec, Cpp!Accumulate, Accumulate, Cpp!Product, Product,
     Cpp!Cell, Cell
<1>3. ASSUME NEW word PROVE Cpp!unpack_i8x4(word) = unpack_i8x4(word)
  BY DEF Cpp!unpack_i8x4, unpack_i8x4, Cpp!FromU8, FromU8, Cpp!Cell, Cell
<1>4. ASSUME NEW word PROVE Cpp!OpName(word) = OpName(word)
  BY DEF Cpp!OpName, OpName, Cpp!OpNames, OpNames
<1>5. QED
  BY <1>1, <1>2, <1>3, <1>4

LEMMA CppRegisters ==
  /\ Cpp!REGISTER_DEFINES.CONTROL = 0 /\ Cpp!REGISTER_DEFINES.PROGRAM_LEN = 8
  /\ Cpp!REGISTER_DEFINES.INSTR_ADDR = 16 /\ Cpp!REGISTER_DEFINES.INSTR_WORD = 20
  /\ Cpp!REGISTER_DEFINES.DATA_ADDR = 24 /\ Cpp!REGISTER_DEFINES.DATA_BANK = 28
  /\ Cpp!REGISTER_DEFINES.DATA_WORD = 32
  /\ Cpp!CONTROL_CLEAR = 2 /\ Cpp!CONTROL_START = 1
BY DEF Cpp!REGISTER_DEFINES, Cpp!ADDR, Cpp!CONTROL_CLEAR, Cpp!CONTROL_START

CppSlot == Cpp!Address

\* Its memories, as the engine reads them.
CppView ==
  [op |-> [n \in CppSlot |-> OpName(g_instr_mem[n][1])],
   a |-> [n \in CppSlot |-> unpack_i8x4(g_a_mem[n])],
   b |-> [n \in CppSlot |-> unpack_i8x4(g_b_mem[n])],
   ia |-> g_instr_addr, da |-> g_data_addr, bank |-> g_data_bank, len |-> g_program_len]

CppTypeOK ==
  /\ CppView \in Loader(CppSlot) /\ g_c \in Acc
  /\ g_instr_mem = [n \in CppSlot |-> g_instr_mem[n]]
  /\ g_a_mem = [n \in CppSlot |-> g_a_mem[n]] /\ g_b_mem = [n \in CppSlot |-> g_b_mem[n]]

LEMMA CppSlots == CppSlot = 0 .. 63 /\ Slots \subseteq CppSlot
BY DEF CppSlot, Cpp!Address, Cpp!Depth, Slots

LEMMA OpNameType == \A code : OpName(code) \in Opcode
<1>1. DOMAIN OpNames = 1 .. 4 /\ \A n \in 1 .. 4 : OpNames[n] \in Opcode
  BY DEF OpNames, Opcode
<1>2. "NOP" \in Opcode
  BY DEF Opcode
<1>3. QED
  BY <1>1, <1>2 DEF OpName

\* The view of a memory with one word written.
LEMMA TilesWritten ==
  ASSUME NEW S, NEW m, m = [n \in S |-> m[n]], NEW d, NEW word
  PROVE  LET r == [m EXCEPT ![d] = word] IN
         /\ r = [n \in S |-> r[n]]
         /\ [n \in S |-> unpack_i8x4(r[n])]
              = [[n \in S |-> unpack_i8x4(m[n])] EXCEPT ![d] = unpack_i8x4(word)]
OBVIOUS

LEMMA OpsWritten ==
  ASSUME NEW S, NEW m, m = [n \in S |-> m[n]], NEW d, NEW word
  PROVE  LET r == [m EXCEPT ![d] = word] IN
         /\ r = [n \in S |-> r[n]]
         /\ [n \in S |-> OpName(r[n][1])] = [[n \in S |-> OpName(m[n][1])] EXCEPT ![d] = OpName(word[1])]
OBVIOUS

LEMMA UpdateType ==
  ASSUME NEW S, NEW T, NEW m \in [S -> T], NEW d, NEW v \in T
  PROVE  [m EXCEPT ![d] = v] \in [S -> T]
OBVIOUS

\* A plain write moves a typed loader to a typed loader.
LEMMA TakesType ==
  ASSUME NEW S, NEW s \in Loader(S), NEW x, IsPlain(x), NEW r, Takes(x, s, r),
         r = [op |-> r.op, a |-> r.a, b |-> r.b, ia |-> r.ia, da |-> r.da, bank |-> r.bank, len |-> r.len]
  PROVE  r \in Loader(S)
<1>1. /\ s.op \in [S -> Opcode] /\ s.a \in [S -> Tile] /\ s.b \in [S -> Tile]
      /\ s.ia \in Nat /\ s.da \in Nat /\ s.bank \in 0 .. 1 /\ s.len \in Nat
  BY DEF Loader
<1>2. r.op \in [S -> Opcode]
  BY <1>1, OpNameType, UpdateType DEF Takes
<1>3. x.addr = ADDR.DATA_WORD => unpack_i8x4(x.value) \in Tile
  <2>1. x.addr = ADDR.DATA_WORD => \E values \in Tile : x.value = pack_i8x4(values)
    BY AddressesAre DEF IsPlain
  <2>2. QED
    BY <2>1, PackRoundTrip
<1>4. r.a \in [S -> Tile]
  BY <1>1, <1>3, UpdateType DEF Takes
<1>5. r.b \in [S -> Tile]
  BY <1>1, <1>3, UpdateType DEF Takes
<1>6. r.ia \in Nat
  BY <1>1, AddressesAre DEF Takes, IsPlain
<1>7. r.da \in Nat
  BY <1>1, AddressesAre DEF Takes, IsPlain
<1>8. r.bank \in 0 .. 1
  BY <1>1, AddressesAre DEF Takes, IsPlain
<1>9. r.len \in Nat
  BY <1>1, AddressesAre DEF Takes, IsPlain
<1>10. QED
  BY <1>2, <1>4, <1>5, <1>6, <1>7, <1>8, <1>9 DEF Loader

LEMMA CppTakes ==
  ASSUME CppTypeOK, NEW x, IsPlain(x), Cpp!host_write_reg(x.addr, x.value)
  PROVE  CppTypeOK' /\ Takes(x, CppView, CppView')
<1>1. /\ CppView.op = [n \in CppSlot |-> OpName(g_instr_mem[n][1])]
      /\ CppView.a = [n \in CppSlot |-> unpack_i8x4(g_a_mem[n])]
      /\ CppView.b = [n \in CppSlot |-> unpack_i8x4(g_b_mem[n])]
      /\ CppView.ia = g_instr_addr /\ CppView.da = g_data_addr /\ CppView.bank = g_data_bank
      /\ CppView.len = g_program_len
  BY DEF CppView
<1>2. /\ CppView'.op = [n \in CppSlot |-> OpName(g_instr_mem'[n][1])]
      /\ CppView'.a = [n \in CppSlot |-> unpack_i8x4(g_a_mem'[n])]
      /\ CppView'.b = [n \in CppSlot |-> unpack_i8x4(g_b_mem'[n])]
      /\ CppView'.ia = g_instr_addr' /\ CppView'.da = g_data_addr' /\ CppView'.bank = g_data_bank'
      /\ CppView'.len = g_program_len'
  BY DEF CppView, CppSlot, Cpp!Address, Cpp!Depth
<1>3. /\ g_instr_mem = [n \in CppSlot |-> g_instr_mem[n]] /\ g_c \in Acc
      /\ g_a_mem = [n \in CppSlot |-> g_a_mem[n]] /\ g_b_mem = [n \in CppSlot |-> g_b_mem[n]]
      /\ g_data_bank \in 0 .. 1
  BY <1>1 DEF CppTypeOK, Loader
<1>4. /\ Takes(x, CppView, CppView') /\ g_c' = g_c
      /\ g_instr_mem' = [n \in CppSlot |-> g_instr_mem'[n]]
      /\ g_a_mem' = [n \in CppSlot |-> g_a_mem'[n]] /\ g_b_mem' = [n \in CppSlot |-> g_b_mem'[n]]
  <2>1. CASE x.addr = ADDR.INSTR_ADDR /\ x.value \in 0 .. 6
    <3>1. Cpp!WriteInstrAddr(x.value)
      BY <2>1, CppRegisters, AddressesAre DEF Cpp!host_write_reg
    <3>2. x.value % 64 = x.value
      BY <2>1
    <3>3. /\ g_instr_addr' = x.value
          /\ UNCHANGED <<g_instr_mem, g_a_mem, g_b_mem, g_data_addr, g_data_bank, g_program_len, g_c>>
      BY <3>1, <3>2 DEF Cpp!WriteInstrAddr, Cpp!Depth
    <3>4. QED
      BY <1>1, <1>2, <1>3, <2>1, <3>3, AddressesAre DEF Takes
  <2>2. CASE x.addr = ADDR.INSTR_WORD
    <3>1. Cpp!WriteInstrWord(x.value)
      BY <2>2, CppRegisters, AddressesAre DEF Cpp!host_write_reg
    <3>2. /\ g_instr_mem' = [g_instr_mem EXCEPT ![g_instr_addr] = x.value]
          /\ UNCHANGED <<g_a_mem, g_b_mem, g_instr_addr, g_data_addr, g_data_bank, g_program_len, g_c>>
      BY <3>1 DEF Cpp!WriteInstrWord
    <3>3. /\ g_instr_mem' = [n \in CppSlot |-> g_instr_mem'[n]]
          /\ [n \in CppSlot |-> OpName(g_instr_mem'[n][1])]
               = [[n \in CppSlot |-> OpName(g_instr_mem[n][1])] EXCEPT ![g_instr_addr] = OpName(x.value[1])]
      BY <1>3, <3>2, OpsWritten
    <3>4. CppView'.op = [CppView.op EXCEPT ![CppView.ia] = OpName(x.value[1])]
      BY <1>1, <1>2, <3>3
    <3>5. /\ CppView'.a = CppView.a /\ CppView'.b = CppView.b /\ CppView'.ia = CppView.ia
          /\ CppView'.da = CppView.da /\ CppView'.bank = CppView.bank /\ CppView'.len = CppView.len
      BY <1>1, <1>2, <3>2
    <3>6. QED
      BY <1>3, <2>2, <3>2, <3>3, <3>4, <3>5, AddressesAre DEF Takes
  <2>3. CASE x.addr = ADDR.DATA_ADDR /\ x.value \in 0 .. 6
    <3>1. Cpp!WriteDataAddr(x.value)
      BY <2>3, CppRegisters, AddressesAre DEF Cpp!host_write_reg
    <3>2. x.value % 64 = x.value
      BY <2>3
    <3>3. /\ g_data_addr' = x.value
          /\ UNCHANGED <<g_instr_mem, g_a_mem, g_b_mem, g_instr_addr, g_data_bank, g_program_len, g_c>>
      BY <3>1, <3>2 DEF Cpp!WriteDataAddr, Cpp!Depth
    <3>4. QED
      BY <1>1, <1>2, <1>3, <2>3, <3>3, AddressesAre DEF Takes
  <2>4. CASE x.addr = ADDR.DATA_BANK /\ x.value \in 0 .. 1
    <3>1. Cpp!WriteDataBank(x.value)
      BY <2>4, CppRegisters, AddressesAre DEF Cpp!host_write_reg
    <3>2. x.value % 2 = x.value
      BY <2>4
    <3>3. /\ g_data_bank' = x.value
          /\ UNCHANGED <<g_instr_mem, g_a_mem, g_b_mem, g_instr_addr, g_data_addr, g_program_len, g_c>>
      BY <3>1, <3>2 DEF Cpp!WriteDataBank
    <3>4. QED
      BY <1>1, <1>2, <1>3, <2>4, <3>3, AddressesAre DEF Takes
  <2>5. CASE x.addr = ADDR.DATA_WORD
    <3>1. Cpp!WriteDataWord(x.value)
      BY <2>5, CppRegisters, AddressesAre DEF Cpp!host_write_reg
    <3>2. UNCHANGED <<g_instr_mem, g_instr_addr, g_data_addr, g_data_bank, g_program_len, g_c>>
      BY <3>1 DEF Cpp!WriteDataWord
    <3>3. CASE g_data_bank = 0
      <4>1. g_a_mem' = [g_a_mem EXCEPT ![g_data_addr] = x.value] /\ g_b_mem' = g_b_mem
        BY <3>1, <3>3 DEF Cpp!WriteDataWord
      <4>2. /\ g_a_mem' = [n \in CppSlot |-> g_a_mem'[n]]
            /\ [n \in CppSlot |-> unpack_i8x4(g_a_mem'[n])]
                 = [[n \in CppSlot |-> unpack_i8x4(g_a_mem[n])] EXCEPT ![g_data_addr] = unpack_i8x4(x.value)]
        BY <1>3, <4>1, TilesWritten
      <4>3. CppView'.a = [CppView.a EXCEPT ![CppView.da] = unpack_i8x4(x.value)]
        BY <1>1, <1>2, <4>2
      <4>4. /\ CppView'.op = CppView.op /\ CppView'.b = CppView.b /\ CppView'.ia = CppView.ia
            /\ CppView'.da = CppView.da /\ CppView'.bank = CppView.bank /\ CppView'.len = CppView.len
            /\ CppView.bank = 0
        BY <1>1, <1>2, <3>2, <3>3, <4>1
      <4>5. QED
        BY <1>3, <2>5, <3>2, <4>1, <4>2, <4>3, <4>4, AddressesAre DEF Takes
    <3>4. CASE g_data_bank = 1
      <4>1. g_b_mem' = [g_b_mem EXCEPT ![g_data_addr] = x.value] /\ g_a_mem' = g_a_mem
        BY <3>1, <3>4 DEF Cpp!WriteDataWord
      <4>2. /\ g_b_mem' = [n \in CppSlot |-> g_b_mem'[n]]
            /\ [n \in CppSlot |-> unpack_i8x4(g_b_mem'[n])]
                 = [[n \in CppSlot |-> unpack_i8x4(g_b_mem[n])] EXCEPT ![g_data_addr] = unpack_i8x4(x.value)]
        BY <1>3, <4>1, TilesWritten
      <4>3. CppView'.b = [CppView.b EXCEPT ![CppView.da] = unpack_i8x4(x.value)]
        BY <1>1, <1>2, <4>2
      <4>4. /\ CppView'.op = CppView.op /\ CppView'.a = CppView.a /\ CppView'.ia = CppView.ia
            /\ CppView'.da = CppView.da /\ CppView'.bank = CppView.bank /\ CppView'.len = CppView.len
            /\ CppView.bank = 1
        BY <1>1, <1>2, <3>2, <3>4, <4>1
      <4>5. QED
        BY <1>3, <2>5, <3>2, <4>1, <4>2, <4>3, <4>4, AddressesAre DEF Takes
    <3>5. QED
      BY <1>3, <3>3, <3>4
  <2>6. CASE x.addr = ADDR.PROGRAM_LEN
    <3>1. Cpp!WriteProgramLen(x.value)
      BY <2>6, CppRegisters, AddressesAre DEF Cpp!host_write_reg
    <3>2. /\ g_program_len' = x.value
          /\ UNCHANGED <<g_instr_mem, g_a_mem, g_b_mem, g_instr_addr, g_data_addr, g_data_bank, g_c>>
      BY <3>1 DEF Cpp!WriteProgramLen
    <3>3. QED
      BY <1>1, <1>2, <1>3, <2>6, <3>2, AddressesAre DEF Takes
  <2>7. QED
    BY <2>1, <2>2, <2>3, <2>4, <2>5, <2>6 DEF IsPlain
<1>5. CppView' \in Loader(CppSlot)
  <2>1. CppView \in Loader(CppSlot)
    BY DEF CppTypeOK
  <2>2. CppView' = [op |-> CppView'.op, a |-> CppView'.a, b |-> CppView'.b, ia |-> CppView'.ia,
                    da |-> CppView'.da, bank |-> CppView'.bank, len |-> CppView'.len]
    BY DEF CppView
  <2>3. QED
    BY <1>4, <2>1, <2>2, TakesType
<1>6. CppSlot' = CppSlot
  BY DEF CppSlot, Cpp!Address, Cpp!Depth
<1>7. QED
  BY <1>3, <1>4, <1>5, <1>6 DEF CppTypeOK

LEMMA ZeroWordIs == Cpp!ZeroWord = <<0, 0, 0, 0>> /\ unpack_i8x4(<<0, 0, 0, 0>>) = Zero
<1>1. Zero \in Tile
  BY ZeroTile
<1>2. QED
  BY <1>1, ZeroPacks, PackRoundTrip DEF Cpp!ZeroWord

\* The model wiped, or as the executable starts.
CppWiped ==
  /\ g_instr_mem = [n \in CppSlot |-> Cpp!ZeroWord]
  /\ g_a_mem = [n \in CppSlot |-> Cpp!ZeroWord] /\ g_b_mem = [n \in CppSlot |-> Cpp!ZeroWord]
  /\ g_instr_addr = 0 /\ g_data_addr = 0 /\ g_data_bank = 0 /\ g_program_len = 0 /\ g_c = Zero

LEMMA WipedIsTyped == CppWiped => CppTypeOK
<1> SUFFICES ASSUME CppWiped
             PROVE  CppTypeOK
  OBVIOUS
<1>1. /\ g_instr_mem = [n \in CppSlot |-> g_instr_mem[n]]
      /\ g_a_mem = [n \in CppSlot |-> g_a_mem[n]] /\ g_b_mem = [n \in CppSlot |-> g_b_mem[n]]
      /\ \A n \in CppSlot : g_a_mem[n] = <<0, 0, 0, 0>> /\ g_b_mem[n] = <<0, 0, 0, 0>>
  BY ZeroWordIs DEF CppWiped
<1>2. [n \in CppSlot |-> OpName(g_instr_mem[n][1])] \in [CppSlot -> Opcode]
  BY OpNameType
<1>3. /\ [n \in CppSlot |-> unpack_i8x4(g_a_mem[n])] \in [CppSlot -> Tile]
      /\ [n \in CppSlot |-> unpack_i8x4(g_b_mem[n])] \in [CppSlot -> Tile]
  BY <1>1, ZeroWordIs, ZeroTile
<1>4. /\ g_instr_addr = 0 /\ g_data_addr = 0 /\ g_data_bank = 0 /\ g_program_len = 0 /\ g_c \in Acc
  BY ZeroTile DEF CppWiped
<1>5. CppView \in Loader(CppSlot)
  BY <1>2, <1>3, <1>4 DEF CppView, Loader
<1>6. QED
  BY <1>1, <1>4, <1>5 DEF CppTypeOK

LEMMA WipedIsTypedNext == (CppWiped => CppTypeOK)'
BY WipedIsTyped, PTL

LEMMA LoadedIsTileProgram ==
  ASSUME NEW w \in Pair, NEW t \in TileNumbers, CppTypeOK, IsLoaded(w, t, 43, CppView)
  PROVE  IsTileProgram(w, t, Cpp!Loaded)
<1>1. /\ CppView.op = [n \in CppSlot |-> OpName(g_instr_mem[n][1])]
      /\ CppView.a = [n \in CppSlot |-> unpack_i8x4(g_a_mem[n])]
      /\ CppView.b = [n \in CppSlot |-> unpack_i8x4(g_b_mem[n])]
      /\ CppView.len = g_program_len
  BY DEF CppView
<1>2. /\ \A n \in 0 .. 6 : CppView.op[n] = OpName(Opcodes[n + 1])
      /\ \A n \in 0 .. 3 : CppView.a[n] = ATileAt(w, t, n)
      /\ \A n \in 0 .. 4 : CppView.b[n] = BTileAt(w, t, n)
      /\ CppView.len = 7
  BY DEF IsLoaded, OpsLoaded, ALoaded, BLoaded, InstrPlace, APlace, BPlace
<1>3. /\ CppView.op \in [CppSlot -> Opcode] /\ CppView.a \in [CppSlot -> Tile] /\ CppView.b \in [CppSlot -> Tile]
  BY DEF CppTypeOK, Loader
<1>4. Cpp!Loaded =
        [n \in 1 .. 7 |-> [op |-> CppView.op[n - 1], cycles |-> 1,
                           a |-> CppView.a[n - 1], b |-> CppView.b[n - 1]]]
  <2>1. \A n \in 1 .. 7 : n - 1 \in CppSlot
    BY CppSlots
  <2>2. \A n \in 1 .. 7 : /\ CppView.op[n - 1] = Cpp!OpName(g_instr_mem[n - 1][1])
                          /\ CppView.a[n - 1] = Cpp!unpack_i8x4(g_a_mem[n - 1])
                          /\ CppView.b[n - 1] = Cpp!unpack_i8x4(g_b_mem[n - 1])
    BY <1>1, <2>1, CppComputes
  <2>3. (IF g_program_len < Cpp!Depth THEN g_program_len ELSE Cpp!Depth) = 7
    BY <1>1, <1>2 DEF Cpp!Depth
  <2>4. QED
    BY <2>2, <2>3 DEF Cpp!Loaded
<1>5. ASSUME NEW n \in 1 .. 7
      PROVE  [op |-> CppView.op[n - 1], cycles |-> 1, a |-> CppView.a[n - 1], b |-> CppView.b[n - 1]] \in Instruction
  <2>1. n - 1 \in CppSlot
    BY CppSlots
  <2>2. QED
    BY <1>3, <2>1 DEF Instruction
<1>6. Cpp!Loaded \in Seq(Instruction) /\ Len(Cpp!Loaded) = 7
  <2>1. [n \in 1 .. 7 |-> [op |-> CppView.op[n - 1], cycles |-> 1,
                           a |-> CppView.a[n - 1], b |-> CppView.b[n - 1]]] \in Seq(Instruction)
    BY <1>5
  <2>2. QED
    BY <1>4, <2>1
<1>7. /\ \A n \in 1 .. 7 : Cpp!Loaded[n].op = OpName(Opcodes[n]) /\ Cpp!Loaded[n].cycles = 1
      /\ Cpp!Loaded[1].a = ATileAt(w, t, 0) /\ Cpp!Loaded[2].b = BTileAt(w, t, 1)
      /\ Cpp!Loaded[4].a = ATileAt(w, t, 3) /\ Cpp!Loaded[5].b = BTileAt(w, t, 4)
  <2>1. \A n \in 1 .. 7 : n - 1 \in 0 .. 6 /\ (n - 1) + 1 = n
    OBVIOUS
  <2>2. \A n \in 1 .. 7 : Cpp!Loaded[n].op = CppView.op[n - 1] /\ Cpp!Loaded[n].cycles = 1
    BY <1>4
  <2>3. /\ Cpp!Loaded[1].a = CppView.a[0] /\ Cpp!Loaded[2].b = CppView.b[1]
        /\ Cpp!Loaded[4].a = CppView.a[3] /\ Cpp!Loaded[5].b = CppView.b[4]
    BY <1>4
  <2>4. \A n \in 1 .. 7 : Cpp!Loaded[n].op = OpName(Opcodes[n])
    BY <1>2, <2>1, <2>2
  <2>5. QED
    BY <1>2, <2>2, <2>3, <2>4
<1>8. QED
  BY <1>6, <1>7 DEF IsTileProgram

LEMMA CppRuns ==
  ASSUME NEW w \in Pair, NEW t \in TileNumbers, CppTypeOK, IsLoaded(w, t, 43, CppView), Cpp!ExecuteModel
  PROVE  /\ CppTypeOK' /\ g_c' = TileResult(w, t)
         /\ g_status' = Cpp!DoneWord
<1> DEFINE dp == [a |-> Zero, b |-> Zero, c |-> Zero, stored |-> g_c, valid |-> FALSE]
<1>1. dp \in DP /\ dp.c = Zero
  BY ZeroTile DEF DP, CppTypeOK
<1>2. IsTileProgram(w, t, Cpp!Loaded)
  BY LoadedIsTileProgram
<1>3. g_c' = Interpret(dp, Cpp!Loaded).stored
  BY CppComputes DEF Cpp!ExecuteModel, Cpp!RunResult
<1> HIDE DEF dp
<1>4. /\ Interpret(dp, Cpp!Loaded).stored = TileResult(w, t)
      /\ Interpret(dp, Cpp!Loaded) \in DP
  BY <1>1, <1>2, RunOfTile
<1>5. g_c' = TileResult(w, t) /\ g_c' \in Acc
  BY <1>3, <1>4 DEF DP
<1>6. CppView' = CppView /\ CppSlot' = CppSlot
  BY DEF Cpp!ExecuteModel, CppView, CppSlot, Cpp!Address, Cpp!Depth
<1>7. CppTypeOK'
  BY <1>5, <1>6 DEF CppTypeOK, Cpp!ExecuteModel
<1>8. QED
  BY <1>5, <1>7 DEF Cpp!ExecuteModel

\* A CLEAR wipes the memories too.
LEMMA CppClears ==
  ASSUME NEW w \in Pair, NEW t \in TileNumbers,
         Cpp!host_write_reg(WriteAt(w, t, 1).addr, WriteAt(w, t, 1).value)
  PROVE  CppTypeOK'
<1>1. WriteAt(w, t, 1).addr = 0 /\ WriteAt(w, t, 1).value = 2
  BY WritesAt, AddressesAre DEF HostWrite, CONTROL_CLEAR
<1>2. Cpp!WriteControl(2)
  BY <1>1, CppRegisters DEF Cpp!host_write_reg
<1>3. Cpp!ClearModel
  BY <1>2, CppRegisters DEF Cpp!WriteControl
<1>4. CppWiped'
  BY <1>3, CppComputes DEF Cpp!ClearModel, CppWiped, CppSlot, Cpp!Address, Cpp!Depth, Cpp!ZeroWord
<1>5. QED
  BY <1>4, WipedIsTypedNext

LEMMA CppStartRuns ==
  ASSUME NEW w \in Pair, NEW t \in TileNumbers,
         Cpp!host_write_reg(WriteAt(w, t, 44).addr, WriteAt(w, t, 44).value)
  PROVE  Cpp!ExecuteModel
<1>1. WriteAt(w, t, 44).addr = 0 /\ WriteAt(w, t, 44).value = 1
  BY WritesAt, AddressesAre DEF HostWrite, CONTROL_START
<1>2. Cpp!WriteControl(1)
  BY <1>1, CppRegisters DEF Cpp!host_write_reg
<1>3. QED
  BY <1>2, CppRegisters DEF Cpp!WriteControl

\* The register model holds what the table has written since its CLEAR; once it
\* is started it holds the result of the tile, and says so.
CppInv ==
  /\ CppTypeOK
  /\ phase = "write" => IsLoaded(work, tile + 1, Place - 1, CppView)
  /\ phase \in {"poll", "read"} => g_c = TileResult(work, tile + 1)
  /\ phase = "poll" => g_status = Cpp!DoneWord

LEMMA CppWriteStep ==
  ASSUME RunnerInv, CppInv, phase = "write", Cpp!host_write_reg(writes[i].addr, writes[i].value), WroteReg
  PROVE  RunnerInv' /\ CppInv'
<1>1. /\ RunnerInv' /\ work' = work /\ tile' = tile
      /\ Place < 44 => phase' = "write" /\ Place' = Place + 1
      /\ Place = 44 => phase' = "poll"
  BY WriteSteps
<1>2. /\ tile + 1 \in TileNumbers /\ Place \in 1 .. 44
      /\ writes[i] = WriteAt(work, tile + 1, Place) /\ work \in Pair
  BY NextWrite, WorkIsPair DEF RunnerInv
<1>3. Cpp!host_write_reg(WriteAt(work, tile + 1, Place).addr, WriteAt(work, tile + 1, Place).value)
  BY <1>2
<1>4. CASE Place = 1
  <2>1. CppTypeOK'
    BY <1>2, <1>3, <1>4, CppClears
  <2>2. phase' = "write" /\ Place' - 1 = 1
    BY <1>1, <1>4
  <2>3. IsLoaded(work', tile' + 1, Place' - 1, CppView')
    BY <2>2, NothingLoaded
  <2>4. QED
    BY <1>1, <2>1, <2>2, <2>3 DEF CppInv
<1>5. CASE Place \in 2 .. 43
  <2>1. IsPlain(WriteAt(work, tile + 1, Place))
    BY <1>2, <1>5, WritesArePlain
  <2>2. CppTypeOK' /\ Takes(WriteAt(work, tile + 1, Place), CppView, CppView')
    BY <1>3, <2>1, CppTakes DEF CppInv
  <2>3. CppSlot' = CppSlot
    BY DEF CppSlot, Cpp!Address, Cpp!Depth
  <2>4. CppView \in Loader(CppSlot) /\ CppView' \in Loader(CppSlot)
    BY <2>2, <2>3 DEF CppInv, CppTypeOK
  <2>5. IsLoaded(work, tile + 1, Place - 1, CppView)
    BY DEF CppInv
  <2>6. IsLoaded(work, tile + 1, Place, CppView')
    BY <1>2, <1>5, <2>2, <2>4, <2>5, CppSlots, LoadedOn
  <2>7. phase' = "write" /\ Place' - 1 = Place
    BY <1>1, <1>5
  <2>8. IsLoaded(work', tile' + 1, Place' - 1, CppView')
    BY <1>1, <2>6, <2>7
  <2>9. QED
    BY <1>1, <2>2, <2>7, <2>8 DEF CppInv
<1>6. CASE Place = 44
  <2>1. IsLoaded(work, tile + 1, 43, CppView)
    BY <1>6 DEF CppInv
  <2>2. Cpp!ExecuteModel
    BY <1>2, <1>3, <1>6, CppStartRuns
  <2>3. CppTypeOK' /\ g_c' = TileResult(work, tile + 1) /\ g_status' = Cpp!DoneWord
    BY <1>2, <2>1, <2>2, CppRuns DEF CppInv
  <2>4. g_c' = TileResult(work', tile' + 1)
    BY <1>1, <2>3
  <2>5. g_status' = Cpp!DoneWord'
    BY <2>3 DEF Cpp!DoneWord
  <2>6. QED
    BY <1>1, <1>6, <2>3, <2>4, <2>5 DEF CppInv
<1>7. QED
  BY <1>2, <1>4, <1>5, <1>6

LEMMA CppStays ==
  ASSUME CppTypeOK, UNCHANGED cppVars
  PROVE  CppTypeOK' /\ CppView' = CppView /\ g_c' = g_c /\ g_status' = g_status /\ Cpp!DoneWord' = Cpp!DoneWord
<1>1. CppView' = CppView /\ CppSlot' = CppSlot /\ g_c' = g_c /\ g_status' = g_status
  BY DEF cppVars, CppView, CppSlot, Cpp!Address, Cpp!Depth
<1>2. CppTypeOK'
  BY <1>1 DEF cppVars, CppTypeOK
<1>3. Cpp!DoneWord' = Cpp!DoneWord
  BY DEF Cpp!DoneWord
<1>4. QED
  BY <1>1, <1>2, <1>3

LEMMA CppReadStep ==
  ASSUME RunnerInv, CppInv, UNCHANGED cppVars, NEW word, ReadC(word), word = g_c[NextCell]
  PROVE  RunnerInv' /\ CppInv'
<1>1. phase = "read" /\ CppTypeOK' /\ CppView' = CppView /\ g_c' = g_c
  BY CppStays DEF ReadC, CppInv
<1>2. word = TileResult(work, tile + 1)[NextCell]
  BY <1>1 DEF CppInv
<1>3. /\ RunnerInv' /\ work' = work
      /\ \/ tile' = tile /\ phase' = "read"
         \/ phase' = "write" /\ Place' = 1
         \/ phase' = "end"
  BY <1>2, ReadSteps
<1>4. CASE tile' = tile /\ phase' = "read"
  <2>1. g_c' = TileResult(work', tile' + 1)
    BY <1>1, <1>3, <1>4 DEF CppInv
  <2>2. QED
    BY <1>1, <1>3, <1>4, <2>1 DEF CppInv
<1>5. CASE phase' = "write" /\ Place' = 1
  <2>1. IsLoaded(work', tile' + 1, Place' - 1, CppView')
    BY <1>5, NothingLoaded
  <2>2. QED
    BY <1>1, <1>3, <1>5, <2>1 DEF CppInv
<1>6. CASE phase' = "end"
  BY <1>1, <1>3, <1>6 DEF CppInv
<1>7. QED
  BY <1>3, <1>4, <1>5, <1>6

LEMMA CppStep ==
  ASSUME RunnerInv, CppInv, Cpp!Callback
  PROVE  RunnerInv' /\ CppInv'
<1>1. CASE phase = "write" /\ Cpp!host_write_reg(writes[i].addr, writes[i].value) /\ Cpp!WroteReg
  BY <1>1, CppRunnerIsRunner, CppWriteStep
<1>2. CASE Cpp!PollAgain(g_status) /\ UNCHANGED cppVars
  <2>1. UNCHANGED runnerVars
    BY <1>2, CppRunnerIsRunner DEF PollAgain
  <2>2. RunnerInv' /\ Place' = Place
    BY <2>1, RunnerStays
  <2>3. phase' = phase /\ work' = work /\ tile' = tile
    BY <2>1 DEF runnerVars
  <2>4. CppInv'
    BY <1>2, <2>2, <2>3, CppStays DEF CppInv
  <2>5. QED
    BY <2>2, <2>4
<1>3. CASE Cpp!PollDone(g_status) /\ UNCHANGED cppVars
  <2>1. PollDone(g_status)
    BY <1>3, CppRunnerIsRunner
  <2>2. g_status.stored_valid
    BY <2>1 DEF PollDone, CppInv, Cpp!DoneWord
  <2>3. RunnerInv' /\ work' = work /\ tile' = tile /\ phase = "poll" /\ phase' = "read"
    BY <2>1, <2>2, PollSteps
  <2>4. CppInv'
    BY <1>3, <2>3, CppStays DEF CppInv
  <2>5. QED
    BY <2>3, <2>4
<1>4. CASE Cpp!ReadC(g_c[Cpp!NextCell]) /\ UNCHANGED cppVars
  <2>1. ReadC(g_c[NextCell])
    BY <1>4, CppRunnerIsRunner
  <2>2. QED
    BY <1>4, <2>1, CppReadStep
<1>5. QED
  BY <1>1, <1>2, <1>3, <1>4 DEF Cpp!Callback, Cpp!modelVars, cppVars

LEMMA CppStarts ==
  ASSUME Cpp!ModelInit
  PROVE  CppTypeOK
<1>1. CppWiped
  BY CppComputes DEF Cpp!ModelInit, CppWiped, CppSlot
<1>2. QED
  BY <1>1, WipedIsTyped

\* A runner that starts finds the model in any typed state.
LEMMA CppBegins ==
  ASSUME CppTypeOK', phase' = "write", Place' = 1
  PROVE  CppInv'
<1>1. IsLoaded(work', tile' + 1, Place' - 1, CppView')
  BY NothingLoaded
<1>2. QED
  BY <1>1 DEF CppInv

-----------------------------------------------------------------------------
(* The native register file.  A write is in its memories one edge after it *)
(* was sampled: the view has the write that is on its way in them already. *)

ViewOp  == IF WriteAccepted(instr_write) THEN [opcode_mem EXCEPT ![Idx(instr_write.addr)] = instr_write.op]
           ELSE opcode_mem
ViewCyc == IF WriteAccepted(instr_write)
           THEN [cycles_mem EXCEPT ![Idx(instr_write.addr)] = NormalizeCycles(instr_write.cycles)]
           ELSE cycles_mem
ViewA   == IF DataAccepted(data_write) /\ data_write.bank = 0
           THEN [a_mem EXCEPT ![Idx(data_write.addr)] = data_write.tile] ELSE a_mem
ViewB   == IF DataAccepted(data_write) /\ data_write.bank = 1
           THEN [b_mem EXCEPT ![Idx(data_write.addr)] = data_write.tile] ELSE b_mem

RtlView ==
  [op |-> ViewOp, a |-> ViewA, b |-> ViewB,
   ia |-> instr_addr_q, da |-> data_addr_q, bank |-> data_bank_q, len |-> program_len]

\* No program of the table holds an instruction for more than a cycle.
AllOnce == ViewCyc = [s \in Slot |-> 1]

LEMMA SizesAre ==
  /\ PROGRAM_LEN \in Nat /\ PcSpan \in Nat /\ 7 <= PROGRAM_LEN /\ PROGRAM_LEN < PcSpan
  /\ PROGRAM_LEN % PcSpan = PROGRAM_LEN /\ CyclesSpan \in Nat /\ CyclesSpan > 1
  /\ Slots \subseteq Slot /\ \A n \in 0 .. 7 : n \in PcValue /\ n % PcSpan = n
  /\ 1 \in CycleCount
<1>1. /\ PROGRAM_LEN \in Nat /\ PcSpan \in Nat /\ 7 <= PROGRAM_LEN /\ PROGRAM_LEN < PcSpan
      /\ CyclesSpan \in Nat /\ CyclesSpan > 1
  BY ControllerAssumption, MemoryAssumption, OpcodesAre
<1>2. \A n \in Nat : n < PcSpan => n % PcSpan = n /\ n \in PcValue
  BY <1>1 DEF PcValue
<1>3. QED
  BY <1>1, <1>2 DEF Slots, Slot, CycleCount

\* An address that is accepted is a slot, and its index.
LEMMA IndexIs == \A n \in Nat : n < PROGRAM_LEN % PcSpan <=> (n \in Slot /\ Idx(n) = n)
<1>1. \A n \in Nat : n < PROGRAM_LEN => n % PROGRAM_LEN = n
  BY SizesAre
<1>2. QED
  BY <1>1, SizesAre DEF Slot, Idx

LEMMA RtlViewType == WiredInv => RtlView \in Loader(Slot)
<1> SUFFICES ASSUME WiredInv
             PROVE  RtlView \in Loader(Slot)
  OBVIOUS
<1>1. /\ opcode_mem \in [Slot -> Opcode] /\ a_mem \in [Slot -> Tile] /\ b_mem \in [Slot -> Tile]
      /\ program_len \in PcValue /\ instr_addr_q \in PcValue /\ data_addr_q \in PcValue
      /\ data_bank_q \in 0 .. 1 /\ PortOK(instr_write) /\ DataOK(data_write)
  BY DEF WiredInv, WiredTypeOK, EngineTypeOK, ControllerTypeOK
<1>2. WriteAccepted(instr_write) => instr_write.op \in Opcode
  BY <1>1 DEF WriteAccepted, PortOK
<1>3. DataAccepted(data_write) => data_write.tile \in Tile
  BY <1>1 DEF DataAccepted, DataOK
<1>4. ViewOp \in [Slot -> Opcode]
  BY <1>1, <1>2, UpdateType DEF ViewOp
<1>5. ViewA \in [Slot -> Tile] /\ ViewB \in [Slot -> Tile]
  BY <1>1, <1>3, UpdateType DEF ViewA, ViewB
<1>6. program_len \in Nat /\ instr_addr_q \in Nat /\ data_addr_q \in Nat
  BY <1>1 DEF PcValue
<1>7. QED
  BY <1>1, <1>4, <1>5, <1>6 DEF RtlView, Loader

LEMMA RtlViewTypeNext == (WiredInv => RtlView \in Loader(Slot))'
BY RtlViewType, PTL

\* An edge puts what was on its way into the memories.
LEMMA Lands ==
  ASSUME WiredInv, Engine
  PROVE  opcode_mem' = ViewOp /\ cycles_mem' = ViewCyc /\ a_mem' = ViewA /\ b_mem' = ViewB
<1>1. ProgramWrite(instr_write) /\ DataWrite(data_write)
  BY DEF Engine, EngineEdge
<1>2. opcode_mem' = ViewOp /\ cycles_mem' = ViewCyc
  BY <1>1 DEF ProgramWrite, ViewOp, ViewCyc, programVars
<1>3. a_mem' = ViewA /\ b_mem' = ViewB
  <2>1. DataAccepted(data_write) => data_write.bank \in 0 .. 1
    BY DEF DataAccepted, WiredInv, WiredTypeOK, DataOK
  <2>2. QED
    BY <1>1, <2>1 DEF DataWrite, ViewA, ViewB, memVars
<1>4. QED
  BY <1>2, <1>3

\* Nothing else is on its way then, unless a word was written.
LEMMA NoPortView ==
  ASSUME WiredInv, Engine, NoPort
  PROVE  ViewOp' = ViewOp /\ ViewCyc' = ViewCyc /\ ViewA' = ViewA /\ ViewB' = ViewB
<1>1. ~instr_write'.we /\ ~data_write'.we
  BY DEF NoPort, NoProgramWrite, NoDataWrite
<1>2. /\ ViewOp' = opcode_mem' /\ ViewCyc' = cycles_mem' /\ ViewA' = a_mem' /\ ViewB' = b_mem'
  BY <1>1 DEF ViewOp, ViewCyc, ViewA, ViewB, WriteAccepted, DataAccepted
<1>3. QED
  BY <1>2, Lands

LEMMA NoWriteView ==
  ASSUME WiredInv, NoWrite
  PROVE  RtlView' = RtlView /\ ViewCyc' = ViewCyc
<1>1. ViewOp' = ViewOp /\ ViewCyc' = ViewCyc /\ ViewA' = ViewA /\ ViewB' = ViewB
  BY NoPortView DEF NoWrite
<1>2. QED
  BY <1>1 DEF NoWrite, RtlView, selectVars

\* A word written with no run going on is in the view, if it has a slot there.
LEMMA InstrWordView ==
  ASSUME WiredInv, NEW op \in Opcode, WriteInstrWord(op, 1), ~busy', AllOnce
  PROVE  /\ ViewOp' = [ViewOp EXCEPT ![instr_addr_q] = op] /\ AllOnce'
         /\ ViewA' = ViewA /\ ViewB' = ViewB
<1>1. /\ instr_write' = [we |-> TRUE, addr |-> instr_addr_q, op |-> op, cycles |-> 1]
      /\ ~data_write'.we /\ Engine
  BY DEF WriteInstrWord, NoDataWrite
<1>2. opcode_mem' = ViewOp /\ cycles_mem' = ViewCyc /\ a_mem' = ViewA /\ b_mem' = ViewB
  BY <1>1, Lands
<1>3. ViewA' = ViewA /\ ViewB' = ViewB
  BY <1>1, <1>2 DEF ViewA, ViewB, DataAccepted
<1>4. instr_addr_q \in Nat
  BY DEF WiredInv, WiredTypeOK, PcValue
<1>5. ViewOp \in [Slot -> Opcode]
  BY RtlViewType DEF RtlView, Loader
<1>6. WriteAccepted(instr_write)' <=> instr_addr_q < PROGRAM_LEN % PcSpan
  BY <1>1 DEF WriteAccepted
<1>7. /\ instr_write'.addr = instr_addr_q /\ instr_write'.op = op
      /\ NormalizeCycles(instr_write'.cycles) = 1
  BY <1>1 DEF NormalizeCycles
<1>8. CASE instr_addr_q < PROGRAM_LEN % PcSpan
  <2>1. Idx(instr_write'.addr) = instr_addr_q
    BY <1>4, <1>7, <1>8, IndexIs
  <2>2. ViewOp' = [ViewOp EXCEPT ![instr_addr_q] = op]
    BY <1>2, <1>6, <1>7, <1>8, <2>1 DEF ViewOp, Idx
  <2>3. ViewCyc' = [ViewCyc EXCEPT ![instr_addr_q] = 1]
    BY <1>2, <1>6, <1>7, <1>8, <2>1 DEF ViewCyc, Idx, NormalizeCycles
  <2>4. AllOnce'
    BY <2>3 DEF AllOnce, Slot
  <2>5. QED
    BY <1>3, <2>2, <2>4
<1>9. CASE ~(instr_addr_q < PROGRAM_LEN % PcSpan)
  <2>1. ViewOp' = ViewOp /\ ViewCyc' = ViewCyc
    BY <1>2, <1>6, <1>9 DEF ViewOp, ViewCyc
  <2>2. instr_addr_q \notin Slot
    BY <1>4, <1>9, IndexIs, SizesAre DEF Slot
  <2>3. [ViewOp EXCEPT ![instr_addr_q] = op] = ViewOp
    BY <1>5, <2>2
  <2>4. QED
    BY <1>3, <2>1, <2>3 DEF AllOnce, Slot
<1>10. QED
  BY <1>8, <1>9

LEMMA DataWordView ==
  ASSUME WiredInv, NEW values \in Tile, WriteDataWord(values), ~busy'
  PROVE  /\ ViewOp' = ViewOp /\ ViewCyc' = ViewCyc
         /\ ViewA' = IF data_bank_q = 0 THEN [ViewA EXCEPT ![data_addr_q] = values] ELSE ViewA
         /\ ViewB' = IF data_bank_q = 1 THEN [ViewB EXCEPT ![data_addr_q] = values] ELSE ViewB
<1>1. /\ data_write' = [we |-> TRUE, bank |-> data_bank_q, addr |-> data_addr_q, tile |-> values]
      /\ ~instr_write'.we /\ Engine
  BY DEF WriteDataWord, NoProgramWrite
<1>2. opcode_mem' = ViewOp /\ cycles_mem' = ViewCyc /\ a_mem' = ViewA /\ b_mem' = ViewB
  BY <1>1, Lands
<1>3. ViewOp' = ViewOp /\ ViewCyc' = ViewCyc
  BY <1>1, <1>2 DEF ViewOp, ViewCyc, WriteAccepted
<1>4. data_addr_q \in Nat /\ data_bank_q \in 0 .. 1
  BY DEF WiredInv, WiredTypeOK, PcValue
<1>5. ViewA \in [Slot -> Tile] /\ ViewB \in [Slot -> Tile]
  BY RtlViewType DEF RtlView, Loader
<1>6. DataAccepted(data_write)' <=> data_addr_q < PROGRAM_LEN % PcSpan
  BY <1>1 DEF DataAccepted
<1>7. data_write'.addr = data_addr_q /\ data_write'.tile = values /\ data_write'.bank = data_bank_q
  BY <1>1
<1>8. CASE data_addr_q < PROGRAM_LEN % PcSpan
  <2>1. Idx(data_write'.addr) = data_addr_q
    BY <1>4, <1>7, <1>8, IndexIs
  <2>2. ViewA' = IF data_bank_q = 0 THEN [ViewA EXCEPT ![data_addr_q] = values] ELSE ViewA
    BY <1>2, <1>6, <1>7, <1>8, <2>1 DEF ViewA, Idx
  <2>3. ViewB' = IF data_bank_q = 1 THEN [ViewB EXCEPT ![data_addr_q] = values] ELSE ViewB
    BY <1>2, <1>6, <1>7, <1>8, <2>1 DEF ViewB, Idx
  <2>4. QED
    BY <1>3, <2>2, <2>3
<1>9. CASE ~(data_addr_q < PROGRAM_LEN % PcSpan)
  <2>1. ViewA' = ViewA /\ ViewB' = ViewB
    BY <1>2, <1>6, <1>9 DEF ViewA, ViewB
  <2>2. data_addr_q \notin Slot
    BY <1>4, <1>9, IndexIs, SizesAre DEF Slot
  <2>3. [ViewA EXCEPT ![data_addr_q] = values] = ViewA /\ [ViewB EXCEPT ![data_addr_q] = values] = ViewB
    BY <1>5, <2>2
  <2>4. QED
    BY <1>3, <2>1, <2>3
<1>10. QED
  BY <1>8, <1>9

\* A plain write of the table is one register write with the values it has there.
LEMMA PlainWriteReg ==
  ASSUME NEW x, IsPlain(x), WriteReg(x.addr, x.value)
  PROVE  \/ x.addr = ADDR.PROGRAM_LEN /\ x.value = 7 /\ WriteProgramLen(7)
         \/ x.addr = ADDR.INSTR_ADDR /\ x.value \in 0 .. 6 /\ WriteInstrAddr(x.value)
         \/ x.addr = ADDR.DATA_ADDR /\ x.value \in 0 .. 6 /\ WriteDataAddr(x.value)
         \/ x.addr = ADDR.DATA_BANK /\ x.value \in 0 .. 1 /\ WriteDataBank(x.value)
         \/ x.addr = ADDR.INSTR_WORD /\ WriteInstrWord(OpName(x.value[1]), 1)
         \/ x.addr = ADDR.DATA_WORD /\ WriteDataWord(unpack_i8x4(x.value))
<1>1. /\ Register.CONTROL = 0 /\ Register.PROGRAM_LEN = 8 /\ Register.INSTR_ADDR = 16
      /\ Register.INSTR_WORD = 20 /\ Register.DATA_ADDR = 24 /\ Register.DATA_BANK = 28
      /\ Register.DATA_WORD = 32
  BY DEF Register
<1>2. CASE x.addr = ADDR.INSTR_ADDR /\ x.value \in 0 .. 6
  <2>1. WriteInstrAddr(x.value % PcSpan) /\ x.value % PcSpan = x.value
    BY <1>1, <1>2, AddressesAre, SizesAre DEF WriteReg
  <2>2. QED
    BY <1>2, <2>1
<1>3. CASE x.addr = ADDR.INSTR_WORD /\ \E n \in 1 .. 7 : x.value = Word(n)
  <2>1. PICK n \in 1 .. 7 : x.value = Word(n)
    BY <1>3
  <2>2. x.value[1] = Opcodes[n] /\ x.value[2] = 1 /\ x.value[3] = 0
    BY <2>1 DEF Word
  <2>3. x.value[1] \in 1 .. 4
    BY <2>2, OpcodesAre
  <2>4. x.value[1] % 16 = x.value[1]
    BY <2>3
  <2>5. (x.value[2] + 256 * x.value[3]) % CyclesSpan = 1
    <3>1. x.value[2] + 256 * x.value[3] = 1
      BY <2>2
    <3>2. 1 % CyclesSpan = 1
      BY SizesAre
    <3>3. QED
      BY <3>1, <3>2
  <2>6. WriteInstrWord(OpName(x.value[1] % 16), (x.value[2] + 256 * x.value[3]) % CyclesSpan)
    BY <1>1, <1>3, AddressesAre DEF WriteReg
  <2>7. QED
    BY <1>3, <2>4, <2>5, <2>6
<1>4. CASE x.addr = ADDR.DATA_ADDR /\ x.value \in 0 .. 6
  <2>1. WriteDataAddr(x.value % PcSpan) /\ x.value % PcSpan = x.value
    BY <1>1, <1>4, AddressesAre, SizesAre DEF WriteReg
  <2>2. QED
    BY <1>4, <2>1
<1>5. CASE x.addr = ADDR.DATA_BANK /\ x.value \in 0 .. 1
  <2>1. WriteDataBank(x.value % 2) /\ x.value % 2 = x.value
    BY <1>1, <1>5, AddressesAre DEF WriteReg
  <2>2. QED
    BY <1>5, <2>1
<1>6. CASE x.addr = ADDR.DATA_WORD
  BY <1>1, <1>6, AddressesAre DEF WriteReg
<1>7. CASE x.addr = ADDR.PROGRAM_LEN /\ x.value = 7
  <2>1. WriteProgramLen(x.value % PcSpan) /\ x.value % PcSpan = 7
    BY <1>1, <1>7, AddressesAre, SizesAre DEF WriteReg
  <2>2. QED
    BY <1>7, <2>1
<1>8. QED
  BY <1>2, <1>3, <1>4, <1>5, <1>6, <1>7 DEF IsPlain

LEMMA PlainValue ==
  ASSUME NEW x, IsPlain(x), x.addr = ADDR.DATA_WORD
  PROVE  unpack_i8x4(x.value) \in Tile
<1>1. PICK values \in Tile : x.value = pack_i8x4(values)
  BY AddressesAre DEF IsPlain
<1>2. QED
  BY <1>1, PackRoundTrip

\* A patient clock loads what a plain write says.
LEMMA RtlTakes ==
  ASSUME ServiceInv, AllOnce, ~Running, NEW x, IsPlain(x), WriteReg(x.addr, x.value)
  PROVE  AnyPatientClock /\ Quiet /\ Takes(x, RtlView, RtlView') /\ AllOnce'
<1>1. WiredInv
  BY DEF ServiceInv, PatientInv
<1>2. /\ RtlView.op = ViewOp /\ RtlView.a = ViewA /\ RtlView.b = ViewB /\ RtlView.ia = instr_addr_q
      /\ RtlView.da = data_addr_q /\ RtlView.bank = data_bank_q /\ RtlView.len = program_len
  BY DEF RtlView
<1>3. /\ RtlView'.op = ViewOp' /\ RtlView'.a = ViewA' /\ RtlView'.b = ViewB'
      /\ RtlView'.ia = instr_addr_q' /\ RtlView'.da = data_addr_q' /\ RtlView'.bank = data_bank_q'
      /\ RtlView'.len = program_len'
  BY DEF RtlView
<1>4. Engine /\ NoPort => ViewOp' = ViewOp /\ ViewCyc' = ViewCyc /\ ViewA' = ViewA /\ ViewB' = ViewB
  BY <1>1, NoPortView
<1>5. ViewCyc' = ViewCyc => AllOnce'
  BY DEF AllOnce, Slot
<1>6. CASE x.addr = ADDR.PROGRAM_LEN /\ x.value = 7 /\ WriteProgramLen(7)
  <2>1. AnyPatientClock /\ Quiet /\ Engine /\ NoPort /\ program_len' = 7 /\ UNCHANGED selectVars
    BY <1>6, SizesAre DEF WriteProgramLen, AnyPatientClock, AnyControlWrite, Quiet
  <2>2. Takes(x, RtlView, RtlView')
    BY <1>2, <1>3, <1>4, <1>6, <2>1, AddressesAre DEF Takes, selectVars
  <2>3. QED
    BY <1>4, <1>5, <2>1, <2>2
<1>7. CASE x.addr = ADDR.INSTR_ADDR /\ x.value \in 0 .. 6 /\ WriteInstrAddr(x.value)
  <2>1. /\ AnyPatientClock /\ Quiet /\ Engine /\ NoPort /\ instr_addr_q' = x.value
        /\ UNCHANGED <<program_len, data_addr_q, data_bank_q>>
    BY <1>7, SizesAre DEF WriteInstrAddr, AnyPatientClock, AnyLoadWrite, Quiet
  <2>2. Takes(x, RtlView, RtlView')
    BY <1>2, <1>3, <1>4, <1>7, <2>1, AddressesAre DEF Takes
  <2>3. QED
    BY <1>4, <1>5, <2>1, <2>2
<1>8. CASE x.addr = ADDR.DATA_ADDR /\ x.value \in 0 .. 6 /\ WriteDataAddr(x.value)
  <2>1. /\ AnyPatientClock /\ Quiet /\ Engine /\ NoPort /\ data_addr_q' = x.value
        /\ UNCHANGED <<program_len, instr_addr_q, data_bank_q>>
    BY <1>8, SizesAre DEF WriteDataAddr, AnyPatientClock, AnyLoadWrite, Quiet
  <2>2. Takes(x, RtlView, RtlView')
    BY <1>2, <1>3, <1>4, <1>8, <2>1, AddressesAre DEF Takes
  <2>3. QED
    BY <1>4, <1>5, <2>1, <2>2
<1>9. CASE x.addr = ADDR.DATA_BANK /\ x.value \in 0 .. 1 /\ WriteDataBank(x.value)
  <2>1. /\ AnyPatientClock /\ Quiet /\ Engine /\ NoPort /\ data_bank_q' = x.value
        /\ UNCHANGED <<program_len, instr_addr_q, data_addr_q>>
    BY <1>9 DEF WriteDataBank, AnyPatientClock, AnyLoadWrite, Quiet
  <2>2. Takes(x, RtlView, RtlView')
    BY <1>2, <1>3, <1>4, <1>9, <2>1, AddressesAre DEF Takes
  <2>3. QED
    BY <1>4, <1>5, <2>1, <2>2
<1>10. CASE x.addr = ADDR.INSTR_WORD /\ WriteInstrWord(OpName(x.value[1]), 1)
  <2>1. OpName(x.value[1]) \in Opcode
    BY OpNameType
  <2>2. AnyPatientClock /\ Quiet /\ UNCHANGED <<program_len, selectVars>>
    BY <1>10, <2>1, SizesAre DEF WriteInstrWord, AnyPatientClock, AnyLoadWrite, Quiet
  <2>3. ~busy'
    BY <2>2, IdleEdge
  <2>4. /\ ViewOp' = [ViewOp EXCEPT ![instr_addr_q] = OpName(x.value[1])] /\ AllOnce'
        /\ ViewA' = ViewA /\ ViewB' = ViewB
    BY <1>1, <1>10, <2>1, <2>3, InstrWordView
  <2>5. Takes(x, RtlView, RtlView')
    BY <1>2, <1>3, <1>10, <2>2, <2>4, AddressesAre DEF Takes, selectVars
  <2>6. QED
    BY <2>2, <2>4, <2>5
<1>11. CASE x.addr = ADDR.DATA_WORD /\ WriteDataWord(unpack_i8x4(x.value))
  <2>1. unpack_i8x4(x.value) \in Tile
    BY <1>11, PlainValue
  <2>2. AnyPatientClock /\ Quiet /\ UNCHANGED <<program_len, selectVars>>
    BY <1>11, <2>1 DEF WriteDataWord, AnyPatientClock, AnyLoadWrite, Quiet
  <2>3. ~busy'
    BY <2>2, IdleEdge
  <2>4. /\ ViewOp' = ViewOp /\ ViewCyc' = ViewCyc
        /\ ViewA' = IF data_bank_q = 0 THEN [ViewA EXCEPT ![data_addr_q] = unpack_i8x4(x.value)] ELSE ViewA
        /\ ViewB' = IF data_bank_q = 1 THEN [ViewB EXCEPT ![data_addr_q] = unpack_i8x4(x.value)] ELSE ViewB
    BY <1>1, <1>11, <2>1, <2>3, DataWordView
  <2>5. Takes(x, RtlView, RtlView')
    BY <1>2, <1>3, <1>11, <2>2, <2>4, AddressesAre DEF Takes, selectVars
  <2>6. QED
    BY <1>5, <2>2, <2>4, <2>5
<1>12. QED
  BY <1>6, <1>7, <1>8, <1>9, <1>10, <1>11, PlainWriteReg

LEMMA ControlAlone ==
  ASSUME NEW value, WriteReg(0, value)
  PROVE  WriteControl(value % 2 = 1, (value \div 2) % 2 = 1)
<1>1. /\ Register.CONTROL = 0 /\ Register.PROGRAM_LEN = 8 /\ Register.INSTR_ADDR = 16
      /\ Register.INSTR_WORD = 20 /\ Register.DATA_ADDR = 24 /\ Register.DATA_BANK = 28
      /\ Register.DATA_WORD = 32
  BY DEF Register
<1>2. QED
  BY <1>1 DEF WriteReg

\* The write to CONTROL that begins a tile, and the one that ends its writes.
LEMMA RtlClears ==
  ASSUME ServiceInv, AllOnce, ~Running, NEW w \in Pair, NEW t \in TileNumbers,
         WriteReg(WriteAt(w, t, 1).addr, WriteAt(w, t, 1).value)
  PROVE  AnyPatientClock /\ AllOnce' /\ Control(FALSE, TRUE)
<1>1. WriteAt(w, t, 1).addr = 0 /\ WriteAt(w, t, 1).value = 2
  BY WritesAt, AddressesAre DEF HostWrite, CONTROL_CLEAR, CONTROL_START
<1>2. WriteControl(2 % 2 = 1, (2 \div 2) % 2 = 1)
  BY <1>1, ControlAlone
<1>3. (2 % 2 = 1) = FALSE /\ ((2 \div 2) % 2 = 1) = TRUE
  OBVIOUS
<1>4. WriteControl(FALSE, TRUE)
  BY <1>2, <1>3
<1>5. AnyPatientClock /\ Control(FALSE, TRUE) /\ Engine /\ NoPort
  BY <1>4 DEF WriteControl, Control, AnyPatientClock, AnyControlWrite
<1>6. AllOnce'
  BY <1>5, NoPortView DEF AllOnce, Slot, ServiceInv, PatientInv
<1>7. QED
  BY <1>5, <1>6

LEMMA RtlStartsRun ==
  ASSUME ServiceInv, AllOnce, ~Running, NEW w \in Pair, NEW t \in TileNumbers,
         WriteReg(WriteAt(w, t, 44).addr, WriteAt(w, t, 44).value)
  PROVE  AnyPatientClock /\ AllOnce' /\ Control(TRUE, FALSE)
<1>1. WriteAt(w, t, 44).addr = 0 /\ WriteAt(w, t, 44).value = 1
  BY WritesAt, AddressesAre DEF HostWrite, CONTROL_CLEAR, CONTROL_START
<1>2. WriteControl(1 % 2 = 1, (1 \div 2) % 2 = 1)
  BY <1>1, ControlAlone
<1>3. (1 % 2 = 1) = TRUE /\ ((1 \div 2) % 2 = 1) = FALSE
  OBVIOUS
<1>4. WriteControl(TRUE, FALSE)
  BY <1>2, <1>3
<1>5. AnyPatientClock /\ Control(TRUE, FALSE) /\ Engine /\ NoPort
  BY <1>4 DEF WriteControl, Control, AnyPatientClock, AnyControlWrite
<1>6. AllOnce'
  BY <1>5, NoPortView DEF AllOnce, Slot, ServiceInv, PatientInv
<1>7. QED
  BY <1>5, <1>6

\* What a START finds after the writes of a tile.
LEMMA OfferedIsTileProgram ==
  ASSUME WiredInv, AllOnce, NEW w \in Pair, NEW t \in TileNumbers, IsLoaded(w, t, 43, RtlView)
  PROVE  IsTileProgram(w, t, Offered)
<1>1. /\ RtlView.op = ViewOp /\ RtlView.a = ViewA /\ RtlView.b = ViewB /\ RtlView.len = program_len
  BY DEF RtlView
<1>2. /\ \A n \in 0 .. 6 : ViewOp[n] = OpName(Opcodes[n + 1])
      /\ \A n \in 0 .. 3 : ViewA[n] = ATileAt(w, t, n)
      /\ \A n \in 0 .. 4 : ViewB[n] = BTileAt(w, t, n)
      /\ program_len = 7
  BY <1>1 DEF IsLoaded, OpsLoaded, ALoaded, BLoaded, InstrPlace, APlace, BPlace
<1>3. ViewOp \in [Slot -> Opcode] /\ ViewA \in [Slot -> Tile] /\ ViewB \in [Slot -> Tile]
  BY <1>1, RtlViewType DEF Loader
<1>4. \A n \in 1 .. 7 : n - 1 \in Slot /\ Idx(0 + n - 1) = n - 1 /\ n - 1 \in 0 .. 6 /\ (n - 1) + 1 = n
  <2>1. \A n \in 1 .. 7 : n - 1 \in Slots /\ 0 + n - 1 = n - 1 /\ n - 1 \in Nat /\ (n - 1) + 1 = n
    BY DEF Slots
  <2>2. \A n \in Slots : n \in Slot /\ n \in Nat
    BY SizesAre DEF Slots
  <2>3. \A n \in Slots : n < PROGRAM_LEN % PcSpan
    BY SizesAre DEF Slots
  <2>4. QED
    BY <2>1, <2>2, <2>3, IndexIs DEF Slots
<1>5. \A n \in 1 .. 7 : ViewCyc[n - 1] = 1
  BY <1>4 DEF AllOnce
<1>6. Offered = Listing(ViewOp, ViewCyc, ViewA, ViewB, 0, 7)
  BY <1>2 DEF Offered, ProgramAfter, ViewOp, ViewCyc, ViewA, ViewB
<1>7. Offered = [n \in 1 .. 7 |-> [op |-> ViewOp[n - 1], cycles |-> 1, a |-> ViewA[n - 1], b |-> ViewB[n - 1]]]
  <2>1. Offered = [n \in 1 .. 7 |->
            [op |-> ViewOp[Idx(0 + n - 1)], cycles |-> ViewCyc[Idx(0 + n - 1)],
             a |-> ViewA[Idx(0 + n - 1)], b |-> ViewB[Idx(0 + n - 1)]]]
    BY <1>6 DEF Listing
  <2>2. QED
    BY <1>4, <1>5, <2>1
<1>8. \A n \in 1 .. 7 :
        [op |-> ViewOp[n - 1], cycles |-> 1, a |-> ViewA[n - 1], b |-> ViewB[n - 1]] \in Instruction
  BY <1>3, <1>4 DEF Instruction
<1>9. Offered \in Seq(Instruction) /\ Len(Offered) = 7
  BY <1>7, <1>8
<1>10. \A n \in 1 .. 7 : Offered[n].op = ViewOp[n - 1] /\ Offered[n].cycles = 1
  BY <1>7
<1>11. \A n \in 1 .. 7 : Offered[n].op = OpName(Opcodes[n])
  BY <1>2, <1>4, <1>10
<1>12. /\ Offered[1].a = ViewA[0] /\ Offered[2].b = ViewB[1]
       /\ Offered[4].a = ViewA[3] /\ Offered[5].b = ViewB[4]
  BY <1>7
<1>13. /\ Offered[1].a = ATileAt(w, t, 0) /\ Offered[2].b = BTileAt(w, t, 1)
       /\ Offered[4].a = ATileAt(w, t, 3) /\ Offered[5].b = BTileAt(w, t, 4)
  BY <1>2, <1>12
<1>14. QED
  BY <1>9, <1>10, <1>11, <1>13 DEF IsTileProgram

LEMMA ClearedType ==
  ASSUME NEW dp \in DP
  PROVE  Cleared(dp) \in DP /\ Cleared(dp).c = Zero
BY ZeroTile DEF Cleared, DP

LEMMA PromisedType ==
  ASSUME ServiceInv, ~Running
  PROVE  Promised \in DP /\ (Promised.valid => Promised = Datapath)
<1>1. WiredInv /\ ~busy /\ ~start_q
  BY DEF ServiceInv, PatientInv, Running
<1>2. Promised = IF clear_tile_q THEN Cleared(Datapath) ELSE Datapath
  BY <1>1, HostBooleans, PromisedIs
<1>3. Datapath \in DP
  BY <1>1, HostBooleans, EngineTypes
<1>4. Cleared(Datapath).valid = FALSE
  BY <1>3 DEF Cleared, DP
<1>5. QED
  BY <1>2, <1>3, <1>4, ClearedType

\* The engine is committed to the result of the tile, with its valid bit.
Promises(w, t) == Promised.stored = TileResult(w, t) /\ Promised.valid

LEMMA RtlStartPromises ==
  ASSUME ServiceInv, AllOnce, ~Running, NEW w \in Pair, NEW t \in TileNumbers,
         IsLoaded(w, t, 43, RtlView), AnyPatientClock, Control(TRUE, FALSE)
  PROVE  Promises(w, t)'
<1>1. Promised' = Interpret(Cleared(Promised), Offered)
  BY IdleControls
<1>2. IsTileProgram(w, t, Offered)
  BY OfferedIsTileProgram DEF ServiceInv, PatientInv
<1>3. Cleared(Promised) \in DP /\ Cleared(Promised).c = Zero
  BY PromisedType, ClearedType
<1>4. /\ Interpret(Cleared(Promised), Offered).stored = TileResult(w, t)
      /\ Interpret(Cleared(Promised), Offered).valid = TRUE
  BY <1>2, <1>3, RunOfTile
<1>5. Promised'.stored = TileResult(w, t) /\ Promised'.valid
  BY <1>1, <1>4
<1>6. QED
  BY <1>5 DEF Promises

\* A promise is kept: a clock without a write leaves it, and ends no more than the run.
LEMMA PromiseKept ==
  ASSUME ServiceInv, NoWrite
  PROVE  Promised' = Promised /\ (~Running => ~Running')
<1>1. AnyPatientClock /\ Quiet
  BY DEF NoWrite, AnyPatientClock, Quiet
<1>2. CASE Running
  BY <1>1, <1>2, RunServed
<1>3. CASE ~Running
  BY <1>1, <1>3, IdleLoads
<1>4. QED
  BY <1>2, <1>3

\* The register file holds what the table has written since its CLEAR; from the
\* START on it is committed to the result of the tile, and idle when that is read.
RtlInv ==
  /\ ServiceInv /\ AllOnce
  /\ phase = "write" => ~Running /\ IsLoaded(work, tile + 1, Place - 1, RtlView)
  /\ phase \in {"poll", "read"} => Promises(work, tile + 1)
  /\ phase = "read" => ~Running

LEMMA RtlWriteStep ==
  ASSUME RunnerInv, RtlInv, phase = "write", WriteReg(writes[i].addr, writes[i].value), WroteReg
  PROVE  RunnerInv' /\ RtlInv'
<1>1. /\ RunnerInv' /\ work' = work /\ tile' = tile
      /\ Place < 44 => phase' = "write" /\ Place' = Place + 1
      /\ Place = 44 => phase' = "poll"
  BY WriteSteps
<1>2. /\ tile + 1 \in TileNumbers /\ Place \in 1 .. 44
      /\ writes[i] = WriteAt(work, tile + 1, Place) /\ work \in Pair
  BY NextWrite, WorkIsPair DEF RunnerInv
<1>3. WriteReg(WriteAt(work, tile + 1, Place).addr, WriteAt(work, tile + 1, Place).value)
  BY <1>2
<1>4. ServiceInv /\ AllOnce /\ ~Running /\ WiredInv
  BY DEF RtlInv, ServiceInv, PatientInv
<1>5. IsLoaded(work, tile + 1, Place - 1, RtlView)
  BY DEF RtlInv
<1>6. CASE Place = 1
  <2>1. WriteReg(WriteAt(work, tile + 1, 1).addr, WriteAt(work, tile + 1, 1).value)
    BY <1>3, <1>6
  <2>2. AnyPatientClock /\ AllOnce' /\ Control(FALSE, TRUE)
    BY <1>2, <1>4, <2>1, RtlClears
  <2>3. ServiceInv' /\ ~Running'
    BY <1>4, <2>2, ServiceInvStep, IdleControls
  <2>4. phase' = "write" /\ Place' - 1 = 1
    BY <1>1, <1>6
  <2>5. IsLoaded(work', tile' + 1, Place' - 1, RtlView')
    BY <2>4, NothingLoaded
  <2>6. QED
    BY <1>1, <2>2, <2>3, <2>4, <2>5 DEF RtlInv
<1>7. CASE Place \in 2 .. 43
  <2>1. IsPlain(WriteAt(work, tile + 1, Place))
    BY <1>2, <1>7, WritesArePlain
  <2>2. AnyPatientClock /\ Quiet /\ Takes(WriteAt(work, tile + 1, Place), RtlView, RtlView') /\ AllOnce'
    BY <1>3, <1>4, <2>1, RtlTakes
  <2>3. ServiceInv' /\ ~Running'
    BY <1>4, <2>2, ServiceInvStep, IdleLoads
  <2>4. RtlView \in Loader(Slot) /\ RtlView' \in Loader(Slot)
    <3>1. WiredInv'
      BY <2>3 DEF ServiceInv, PatientInv
    <3>2. Loader(Slot)' = Loader(Slot)
      BY DEF Loader, Slot, Tile
    <3>3. QED
      BY <1>4, <3>1, <3>2, RtlViewType, RtlViewTypeNext
  <2>5. IsLoaded(work, tile + 1, Place, RtlView')
    BY <1>2, <1>5, <1>7, <2>2, <2>4, SizesAre, LoadedOn
  <2>6. phase' = "write" /\ Place' - 1 = Place
    BY <1>1, <1>7
  <2>7. IsLoaded(work', tile' + 1, Place' - 1, RtlView')
    BY <1>1, <2>5, <2>6
  <2>8. QED
    BY <1>1, <2>2, <2>3, <2>6, <2>7 DEF RtlInv
<1>8. CASE Place = 44
  <2>1. WriteReg(WriteAt(work, tile + 1, 44).addr, WriteAt(work, tile + 1, 44).value)
    BY <1>3, <1>8
  <2>2. AnyPatientClock /\ AllOnce' /\ Control(TRUE, FALSE)
    BY <1>2, <1>4, <2>1, RtlStartsRun
  <2>3. ServiceInv'
    BY <1>4, <2>2, ServiceInvStep
  <2>4. IsLoaded(work, tile + 1, 43, RtlView)
    BY <1>5, <1>8
  <2>5. Promises(work, tile + 1)'
    BY <1>1, <1>2, <1>4, <2>2, <2>4, RtlStartPromises DEF Promises
  <2>6. QED
    BY <1>1, <1>8, <2>2, <2>3, <2>5 DEF RtlInv
<1>9. QED
  BY <1>2, <1>6, <1>7, <1>8

\* A clock at which the runner does not move.
LEMMA RtlWaits ==
  ASSUME RunnerInv, RtlInv, NoWrite, UNCHANGED runnerVars
  PROVE  RunnerInv' /\ RtlInv'
<1>1. RunnerInv' /\ Place' = Place /\ phase' = phase /\ work' = work /\ tile' = tile
  BY RunnerStays DEF runnerVars
<1>2. ServiceInv' /\ Promised' = Promised /\ (~Running => ~Running')
  BY ServiceInvStep, PromiseKept DEF RtlInv, AnyPatientClock
<1>3. RtlView' = RtlView /\ AllOnce'
  BY NoWriteView DEF RtlInv, ServiceInv, PatientInv, AllOnce, Slot
<1>4. Promises(work, tile + 1) => Promises(work, tile + 1)'
  BY <1>1, <1>2 DEF Promises
<1>5. QED
  BY <1>1, <1>2, <1>3, <1>4 DEF RtlInv

LEMMA RtlPollStep ==
  ASSUME RunnerInv, RtlInv, NoWrite, PollDone(Status)
  PROVE  RunnerInv' /\ RtlInv'
<1>1. phase = "poll" /\ done_sticky_q
  BY DEF PollDone, Status
<1>2. ~Running /\ Promises(work, tile + 1)
  BY <1>1 DEF RtlInv, ServiceInv, PatientInv, DoneMeansOver
<1>3. Promised = Datapath /\ Promised.valid
  BY <1>2, PromisedType DEF Promises, RtlInv
<1>4. stored_valid
  BY <1>3 DEF Datapath
<1>5. Status.stored_valid
  BY <1>4 DEF Status
<1>6. RunnerInv' /\ work' = work /\ tile' = tile /\ phase' = "read"
  BY <1>5, PollSteps
<1>7. ServiceInv' /\ Promised' = Promised /\ ~Running'
  BY <1>2, ServiceInvStep, PromiseKept DEF RtlInv, AnyPatientClock
<1>8. AllOnce'
  BY NoWriteView DEF RtlInv, ServiceInv, PatientInv, AllOnce, Slot
<1>9. Promises(work, tile + 1)'
  BY <1>2, <1>6, <1>7 DEF Promises
<1>10. QED
  BY <1>6, <1>7, <1>8, <1>9 DEF RtlInv

LEMMA RtlReadStep ==
  ASSUME RunnerInv, RtlInv, NoWrite, NEW word, word = stored_c[NextCell], ReadC(word)
  PROVE  RunnerInv' /\ RtlInv'
<1>1. phase = "read"
  BY DEF ReadC
<1>2. ~Running /\ Promises(work, tile + 1)
  BY <1>1 DEF RtlInv
<1>3. Promised = Datapath
  BY <1>2, PromisedType DEF Promises, RtlInv
<1>4. stored_c = TileResult(work, tile + 1)
  BY <1>2, <1>3 DEF Promises, Datapath
<1>5. /\ RunnerInv' /\ work' = work
      /\ \/ tile' = tile /\ phase' = "read"
         \/ phase' = "write" /\ Place' = 1
         \/ phase' = "end"
  BY <1>4, ReadSteps
<1>6. ServiceInv' /\ Promised' = Promised /\ ~Running'
  BY <1>2, ServiceInvStep, PromiseKept DEF RtlInv, AnyPatientClock
<1>7. AllOnce'
  BY NoWriteView DEF RtlInv, ServiceInv, PatientInv, AllOnce, Slot
<1>8. CASE tile' = tile /\ phase' = "read"
  <2>1. Promises(work, tile + 1)'
    BY <1>2, <1>5, <1>6, <1>8 DEF Promises
  <2>2. QED
    BY <1>5, <1>6, <1>7, <1>8, <2>1 DEF RtlInv
<1>9. CASE phase' = "write" /\ Place' = 1
  <2>1. IsLoaded(work', tile' + 1, Place' - 1, RtlView')
    BY <1>9, NothingLoaded
  <2>2. QED
    BY <1>5, <1>6, <1>7, <1>9, <2>1 DEF RtlInv
<1>10. CASE phase' = "end"
  BY <1>5, <1>6, <1>7, <1>10 DEF RtlInv
<1>11. QED
  BY <1>5, <1>8, <1>9, <1>10

LEMMA RtlAccessStep ==
  ASSUME RunnerInv, RtlInv, Access
  PROVE  RunnerInv' /\ RtlInv'
<1>1. CASE NoWrite /\ PollAgain(Status)
  BY <1>1, RtlWaits DEF PollAgain
<1>2. QED
  BY <1>1, RtlWriteStep, RtlPollStep, RtlReadStep DEF Access

\* A runner that starts finds the register file as it was reset.
LEMMA RtlBegins ==
  ASSUME ServiceInv', AllOnce', ~Running', phase' = "write", Place' = 1
  PROVE  RtlInv'
<1>1. IsLoaded(work', tile' + 1, Place' - 1, RtlView')
  BY NothingLoaded
<1>2. QED
  BY <1>1 DEF RtlInv

LEMMA RtlStarts ==
  ASSUME HostInit
  PROVE  ServiceInv /\ AllOnce /\ ~Running
<1>1. cycles_mem = [s \in Slot |-> 1] /\ ~instr_write.we
  BY DEF HostInit, EngineInit, ControllerInit, ProgramInit, RegistersInit, NoProgramWrite
<1>2. ViewCyc = cycles_mem
  BY <1>1 DEF ViewCyc, WriteAccepted
<1>3. QED
  BY <1>1, <1>2, InitServed DEF AllOnce

-----------------------------------------------------------------------------
(* From the directory to the product, on either device.                    *)

LEMMA DirectoryStarts ==
  ASSUME BundleInit
  PROVE  DirectoryInv
<1>1. bundle.result # "loaded"
  BY DEF BundleInit, NotLoaded
<1>2. \A file \in File : disk[file] = Missing
  BY DEF BundleInit
<1>3. /\ exported = <<>> /\ saved = 0 /\ exporter = "idle" /\ disk = [file \in File |-> Missing]
  BY DEF BundleInit
<1>4. exported \in Seq(Workloads) /\ Len(exported) = 0
  BY <1>3
<1>5. disk = [file \in File |-> disk[file]]
  BY <1>3
<1>6. QED
  BY <1>1, <1>3, <1>4, <1>5 DEF DirectoryInv

LEMMA DirectoryStartsNext == (BundleInit => DirectoryInv)'
<1>1. BundleInit => DirectoryInv
  BY DirectoryStarts
<1>2. QED
  BY <1>1, PTL

LEMMA DirectoryStays ==
  ASSUME DirectoryInv, UNCHANGED bundleVars
  PROVE  DirectoryInv'
BY DEF DirectoryInv, bundleVars, Holds, Latest, OneExport, Whole

\* Until a runner is generated both devices rest; then one of them serves it.
SystemInv ==
  /\ DirectoryInv
  /\ phase = "build" => /\ CallerInit /\ device = "none" /\ CppTypeOK
                        /\ ServiceInv /\ AllOnce /\ ~Running
  /\ phase # "build" => RunnerInv
  /\ device \in {"none", "rtl", "cpp"} /\ (device = "none" => phase = "build")
  /\ device = "cpp" => CppInv
  /\ device = "rtl" => RtlInv

LEMMA SystemStarts == MCInit => SystemInv
<1> SUFFICES ASSUME MCInit
             PROVE  SystemInv
  OBVIOUS
<1>1. DirectoryInv
  BY DirectoryStarts DEF MCInit
<1>2. phase = "build" /\ CallerInit /\ device = "none"
  BY DEF MCInit, Ungenerated
<1>3. CppTypeOK
  BY CppStarts DEF MCInit
<1>4. ServiceInv /\ AllOnce /\ ~Running
  BY RtlStarts DEF MCInit
<1>5. QED
  BY <1>1, <1>2, <1>3, <1>4 DEF SystemInv

\* The register file rests while its variables do not change.
LEMMA RtlRests ==
  ASSUME ServiceInv, AllOnce, ~Running, UNCHANGED vars
  PROVE  ServiceInv' /\ AllOnce' /\ ~Running'
<1>1. ServiceInv' /\ Running' = Running
  BY StutterServed
<1>2. cycles_mem' = cycles_mem /\ instr_write' = instr_write /\ busy' = busy
  BY DEF vars, hostVars, engineVars, ctrlVars, programVars, sequencerVars
<1>3. ViewCyc' = ViewCyc
  BY <1>2 DEF ViewCyc, WriteAccepted, Idx, NormalizeCycles
<1>4. QED
  BY <1>1, <1>3 DEF AllOnce, Slot

LEMMA DirectoryKeeps ==
  ASSUME SystemInv, Directory
  PROVE  SystemInv'
<1>1. phase = "build" /\ DirectoryInv'
  BY DirectoryStep DEF Directory, SystemInv
<1>2. /\ UNCHANGED vars /\ UNCHANGED runnerVars /\ UNCHANGED cppVars /\ device' = device
  BY DEF Directory, allVars
<1>3. ServiceInv' /\ AllOnce' /\ ~Running'
  BY <1>1, <1>2, RtlRests DEF SystemInv
<1>4. CppTypeOK'
  BY <1>1, <1>2, CppStays DEF SystemInv
<1>5. phase' = "build" /\ CallerInit' /\ device' = "none"
  BY <1>1, <1>2 DEF runnerVars, CallerInit, SystemInv
<1>6. QED
  BY <1>1, <1>3, <1>4, <1>5 DEF SystemInv

LEMMA BuildKeeps ==
  ASSUME SystemInv, Build
  PROVE  SystemInv'
<1>1. phase = "build" /\ Generate(Latest, bundle)
  BY DEF Build, Generate
<1>2. /\ CallerInit /\ CppTypeOK /\ ServiceInv /\ AllOnce /\ ~Running
      /\ bundle = Whole(Latest) /\ exported # <<>> /\ exported \in Seq(Workloads)
  BY <1>1 DEF SystemInv, DirectoryInv, Build
<1>3. Latest \in Workloads
  <2>1. Len(exported) \in 1 .. Len(exported)
    BY <1>2
  <2>2. QED
    BY <1>2, <2>1 DEF Latest
<1>4. Generate(Latest, Whole(Latest))
  BY <1>1, <1>2
<1>5. RunnerInv' /\ phase' = "write" /\ Place' = 1
  BY <1>2, <1>3, <1>4, RunnerStarts
<1>6. ServiceInv' /\ AllOnce' /\ ~Running'
  BY <1>2, RtlRests DEF Build
<1>7. CppTypeOK'
  BY <1>2, CppStays DEF Build
<1>8. CppInv' /\ RtlInv'
  BY <1>5, <1>6, <1>7, CppBegins, RtlBegins
<1>9. DirectoryInv'
  <2>1. BundleInit'
    BY DEF Build, BundleInit, File, NotLoaded, Missing, TileFiles, Name
  <2>2. QED
    BY <2>1, DirectoryStartsNext
<1>10. QED
  BY <1>5, <1>8, <1>9 DEF SystemInv, Build

LEMMA RtlKeeps ==
  ASSUME SystemInv, RtlAccess \/ RtlIdle
  PROVE  SystemInv'
<1>1. /\ device = "rtl" /\ device' = "rtl" /\ DirectoryInv'
  BY DirectoryStays DEF SystemInv, RtlAccess, RtlIdle
<1>2. RunnerInv /\ RtlInv
  BY <1>1 DEF SystemInv
<1>3. RunnerInv' /\ RtlInv'
  BY <1>2, RtlAccessStep, RtlWaits DEF RtlAccess, RtlIdle, Idle
<1>4. phase' # "build"
  BY <1>3 DEF RunnerInv, InTable
<1>5. QED
  BY <1>1, <1>3, <1>4 DEF SystemInv

LEMMA CppKeeps ==
  ASSUME SystemInv, CppAccess
  PROVE  SystemInv'
<1>1. /\ device = "cpp" /\ device' = "cpp" /\ DirectoryInv'
  BY DirectoryStays DEF SystemInv, CppAccess
<1>2. RunnerInv /\ CppInv
  BY <1>1 DEF SystemInv
<1>3. RunnerInv' /\ CppInv'
  BY <1>2, CppStep DEF CppAccess
<1>4. phase' # "build"
  BY <1>3 DEF RunnerInv, InTable
<1>5. QED
  BY <1>1, <1>3, <1>4 DEF SystemInv

LEMMA NothingKeeps ==
  ASSUME SystemInv, UNCHANGED mcVars
  PROVE  SystemInv'
<1>1. /\ UNCHANGED vars /\ UNCHANGED runnerVars /\ UNCHANGED bundleVars /\ UNCHANGED cppVars
      /\ device' = device
  BY DEF mcVars, allVars
<1>2. phase' = phase /\ work' = work /\ tile' = tile
  BY <1>1 DEF runnerVars
<1>3. DirectoryInv'
  BY <1>1, DirectoryStays DEF SystemInv
<1>4. CASE phase = "build"
  <2>1. ServiceInv' /\ AllOnce' /\ ~Running'
    BY <1>1, <1>4, RtlRests DEF SystemInv
  <2>2. CppTypeOK'
    BY <1>1, <1>4, CppStays DEF SystemInv
  <2>3. CallerInit'
    BY <1>1, <1>4 DEF runnerVars, CallerInit, SystemInv
  <2>4. QED
    BY <1>1, <1>2, <1>3, <1>4, <2>1, <2>2, <2>3 DEF SystemInv
<1>5. CASE phase # "build"
  <2>1. RunnerInv' /\ Place' = Place
    BY <1>1, <1>5, RunnerStays DEF SystemInv
  <2>2. device = "cpp" => CppInv'
    BY <1>1, <1>2, <2>1, CppStays DEF SystemInv, CppInv
  <2>3. device = "rtl" => RtlInv'
    <3>1. SUFFICES ASSUME device = "rtl"
                   PROVE  RtlInv'
      OBVIOUS
    <3>2. RtlInv
      BY <3>1 DEF SystemInv
    <3>3. ServiceInv' /\ Promised' = Promised /\ Running' = Running
      BY <1>1, <3>2, StutterServed DEF RtlInv
    <3>4. RtlView' = RtlView /\ ViewCyc' = ViewCyc
      BY <1>1 DEF RtlView, ViewOp, ViewCyc, ViewA, ViewB, WriteAccepted, DataAccepted, Idx, NormalizeCycles,
         vars, hostVars, selectVars, engineVars, ctrlVars, programVars, sequencerVars, dataVars, memVars
    <3>5. QED
      BY <1>2, <2>1, <3>2, <3>3, <3>4 DEF RtlInv, AllOnce, Slot, Promises
  <2>4. QED
    BY <1>1, <1>2, <1>3, <1>5, <2>1, <2>2, <2>3 DEF SystemInv
<1>6. QED
  BY <1>4, <1>5

\* From the bundle directory to the caller's matrix, on either device and at any
\* speed of the host, the system keeps its inductive invariant.
THEOREM SystemInvariance == MCSpec => []SystemInv
<1>1. SystemInv /\ [Directory \/ Build \/ RtlAccess \/ CppAccess \/ RtlIdle]_mcVars => SystemInv'
  BY DirectoryKeeps, BuildKeeps, RtlKeeps, CppKeeps, NothingKeeps
<1>2. QED
  BY <1>1, SystemStarts, PTL DEF MCSpec

\* load_hardware_bundle raises or returns the whole workload, for every pair of
\* int8 matrices and any number of exports and crashes.
THEOREM BundleIsWhole == MCSpec => []LoadedIsWhole
<1>1. SystemInv => LoadedIsWhole
  BY DirectoryLoadsWhole DEF SystemInv
<1>2. QED
  BY <1>1, SystemInvariance, PTL

LEMMA SystemIsRight == SystemInv => OutputIsProduct /\ OutputIsComplete
<1> SUFFICES ASSUME SystemInv
             PROVE  OutputIsProduct /\ OutputIsComplete
  OBVIOUS
<1>1. CASE phase = "build"
  BY <1>1 DEF SystemInv, CallerInit, OutputIsProduct, OutputIsComplete
<1>2. CASE phase # "build"
  BY <1>2, RunnerIsRight DEF SystemInv
<1>3. QED
  BY <1>1, <1>2

\* Every word the runner stores is the right element of A x B: none is read
\* before its run is over, from another run, or into the wrong place.
THEOREM RunnerComputesProduct == MCSpec => []OutputIsProduct
BY SystemInvariance, SystemIsRight, PTL

\* A runner that has returned has stored every element, and finds no mismatch.
THEOREM RunnerComplete == MCSpec => []OutputIsComplete
BY SystemInvariance, SystemIsRight, PTL
=============================================================================
