--------------------------- MODULE MC_PinctrlProbe ---------------------------
(***************************************************************************)
(* PinctrlProbe over rows of the Tegra234 table.                           *)
(***************************************************************************)
EXTENDS PinctrlProbe, Tegra234Tables

\* Five rows of tegra234_groups[]: each names four distinct functions, as
\* every row of the table does, so the table fills group_pins exactly.
MCRows == {touch_clk_pcc4, extperiph2_clk_pp1, dap4_sclk_pa4, can0_dout_paa0, qspi_comp}
=============================================================================
