------------------------------ MODULE MCHostRunner ------------------------------
(***************************************************************************)
(* From the bundle directory to the product: a bundle is exported and      *)
(* loaded (HardwareBundle), a C runner is generated from it, and runs in   *)
(* front of the native register file (HostRunner) or of the generated C++  *)
(* register model (CppHostRunner).  Its own table is the only host.        *)
(***************************************************************************)
EXTENDS HostRunner, HardwareBundle, SmallMatmuls

VARIABLES
  device,   \* what answers write_reg and read_reg: "rtl" or "cpp"
  g_instr_mem, g_a_mem, g_b_mem, g_instr_addr, g_data_addr, g_data_bank, g_program_len,
  g_status, g_c

Cpp == INSTANCE CppHostRunner

NoTiles == {}

cppVars == <<g_instr_mem, g_a_mem, g_b_mem, g_instr_addr, g_data_addr,
             g_data_bank, g_program_len, g_status, g_c>>
mcVars  == <<allVars, bundleVars, device, cppVars>>

\* The directory, until a runner is generated from a load of one export.  What
\* is in it afterwards matters no more.
Directory ==
  phase = "build" /\ BundleNext /\ UNCHANGED <<allVars, device, cppVars>>

Build ==
  /\ bundle.result = "loaded" /\ OneExport
  /\ Generate(Latest, bundle)
  /\ device' \in {"rtl", "cpp"}
  /\ disk' = [file \in File |-> Missing] /\ exported' = <<>> /\ saved' = 0
  /\ exporter' = "idle" /\ bundle' = NotLoaded
  /\ UNCHANGED <<vars, cppVars>>

RtlAccess == device = "rtl" /\ Access /\ UNCHANGED <<bundleVars, device, cppVars>>
CppAccess == device = "cpp" /\ Cpp!Callback /\ UNCHANGED <<bundleVars, device, vars>>
RtlIdle   == device = "rtl" /\ Idle /\ UNCHANGED <<bundleVars, device, cppVars>>

MCInit == BundleInit /\ HostInit /\ Ungenerated /\ Cpp!ModelInit /\ device = "none"

MCSpec ==
  /\ MCInit
  /\ [][Directory \/ Build \/ RtlAccess \/ CppAccess \/ RtlIdle]_mcVars
  /\ WF_mcVars(RtlAccess \/ CppAccess)
=============================================================================
