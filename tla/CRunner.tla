-------------------------------- MODULE CRunner --------------------------------
(***************************************************************************)
(* The generated C host runner, opentsp_run_matmul_4x4 as rendered by      *)
(* opentsp/c_host_runner.py, apart from the bus below write_reg and        *)
(* read_reg: what it does after each access has returned.                  *)
(***************************************************************************)
EXTENDS HostProgram

VARIABLES
  work,     \* the pair being multiplied
  writes,   \* OPENTSP_MATMUL_4X4_WRITES, the table generated for it
  expected, \* OPENTSP_MATMUL_4X4_EXPECTED_C
  i, tile,  \* the loop variables
  phase,    \* "build" before it is generated, "write", "poll" after a START,
            \* "read" once done was seen, "end"
  unread,   \* the C registers of this tile still to be read
  out_c     \* the caller's out_c, element by element

runnerVars == <<work, writes, expected, i, tile, phase, unread, out_c>>

NotWritten == [at |-> "unset"]
Written(v) == [at |-> "set", value |-> v]

CallerInit ==
  /\ i = 1 /\ tile = 0 /\ unread = {}
  /\ out_c = [rc \in Dim \X Dim |-> NotWritten]

\* A runner generated from a bundle that was exported and loaded without a fault.
RunnerInit ==
  /\ work \in Workloads /\ writes = BundleWrites(WholeBundle(work))
  /\ expected = MatMul(work[1], work[2])
  /\ phase = "write" /\ CallerInit

\* A runner that is still to be generated, from a bundle directory.
Ungenerated ==
  work = <<>> /\ writes = <<>> /\ expected = <<>> /\ phase = "build" /\ CallerInit

\* export_c_host_runner writes the two tables from a loaded bundle of w.
Generate(w, bundle) ==
  /\ phase = "build" /\ phase' = "write" /\ work' = w
  /\ writes' = BundleWrites(bundle.tile_programs) /\ expected' = bundle.expected_c
  /\ UNCHANGED <<i, tile, unread, out_c>>

\* The while loop goes on with the next write, or ends.
Proceed == i' = i + 1 /\ phase' = (IF i = Len(writes) THEN "end" ELSE "write")

\* The generated header names the registers of the host driver.
REGISTER_DEFINES ==
  [reg \in {"CONTROL", "STATUS", "PROGRAM_LEN", "INSTR_ADDR", "INSTR_WORD", "DATA_ADDR",
            "DATA_BANK", "DATA_WORD", "C00", "C01", "C10", "C11"} |-> ADDR[reg]]

IsStart(w) == w.addr = REGISTER_DEFINES.CONTROL /\ w.value = CONTROL_START

\* write_reg of writes[i] has returned; a START is followed by the polling loop.
WroteReg ==
  /\ phase = "write"
  /\ IF IsStart(writes[i]) THEN phase' = "poll" /\ UNCHANGED i ELSE Proceed
  /\ UNCHANGED <<work, writes, expected, tile, unread, out_c>>

\* read_reg of STATUS has returned, in the do-while loop without a timeout.
PollAgain(status) == phase = "poll" /\ ~status.done /\ UNCHANGED runnerVars

\* The word that says done also says whether there is a result to read.
MutantIgnoresStoredValid(status) ==
  /\ phase = "poll" /\ status.done
  /\ tile' = tile + 1 /\ Proceed /\ UNCHANGED <<work, writes, expected, unread, out_c>>
PollDone(status) ==
  /\ phase = "poll" /\ status.done
  /\ \/ /\ status.stored_valid
        /\ phase' = "read" /\ unread' = Cell /\ UNCHANGED <<i, tile>>
     \/ /\ ~status.stored_valid
        /\ tile' = tile + 1 /\ Proceed /\ UNCHANGED unread
  /\ UNCHANGED <<work, writes, expected, out_c>>

\* C00, C01, C10, C11 in this order.
NextCell == CHOOSE ij \in unread : \A kl \in unread : 2 * ij[1] + ij[2] <= 2 * kl[1] + kl[2]

OutRow == IF tile >= 2 THEN 2 ELSE 0
OutCol == IF tile % 2 = 1 THEN 2 ELSE 0

\* read_reg of the next C register has returned word.
ReadC(word) ==
  /\ phase = "read"
  /\ out_c' = [out_c EXCEPT ![<<OutRow + NextCell[1], OutCol + NextCell[2]>>] =
                 Written(ToSigned(word))]
  /\ unread' = unread \ {NextCell}
  /\ IF unread' = {} THEN tile' = tile + 1 /\ Proceed ELSE UNCHANGED <<tile, i, phase>>
  /\ UNCHANGED <<work, writes, expected>>

-----------------------------------------------------------------------------
\* Every word the runner stores into out_c is the right element of A x B: no
\* tile is read before its run is over, from an earlier run, or into the wrong
\* place, however slow or fast the host is.
OutputIsProduct ==
  \A rc \in Dim \X Dim :
    out_c[rc] # NotWritten => out_c[rc].value = MatMul(work[1], work[2])[rc]

\* When the runner returns it has written all of out_c, and main of the C++ host
\* finds no mismatch with the expected matrix that was generated with the table.
OutputIsComplete ==
  phase = "end" => \A rc \in Dim \X Dim : out_c[rc] = Written(expected[rc])

\* A runner that was called returns.
RunnerReturns == phase = "write" ~> phase = "end"
=============================================================================
