------------------------------ MODULE SmallMatmuls ------------------------------
(* The 4x4 matmul the repository ships, and one at the ends of int8.       *)
EXTENDS HostProgram

Rows(r0, r1, r2, r3) ==
  [rc \in Dim \X Dim |-> <<r0, r1, r2, r3>>[rc[1] + 1][rc[2] + 1]]

DefaultA == Rows(<<1, -2, 3, 0>>, <<4, 5, -1, 2>>, <<-3, 1, 2, -4>>, <<0, 6, -5, 3>>)
DefaultB == Rows(<<2, 0, -1, 4>>, <<-3, 5, 2, 1>>, <<6, -2, 0, -3>>, <<1, 4, -5, 2>>)
ExtremeA == Rows(<<-128, -128, -128, -128>>, <<127, -128, 127, -128>>,
                 <<1, 0, 0, 0>>, <<127, 127, 127, 127>>)
ExtremeB == Rows(<<-128, 127, 1, 0>>, <<-128, 127, 0, 1>>,
                 <<-128, -128, 0, 0>>, <<-128, 127, 0, 127>>)

MCWorkloads == {<<DefaultA, DefaultB>>, <<ExtremeA, ExtremeB>>}
=============================================================================
