----------------------------- MODULE MC_Pinctrl -----------------------------
(***************************************************************************)
(* Tegra234 instances of PinctrlTegra for TLC: a few rows of the real     *)
(* tables and small sets of inputs.                                        *)
(***************************************************************************)
EXTENDS PinctrlTegra, Tegra234Tables

\* One group, touch_clk_pcc4 (mux register 0x2000 of bank 1).
MCSocOne == Tegra234Soc(<<touch_clk_pcc4>>)

\* touch_clk_pcc4 and extperiph2_clk_pp1, whose mux register is register
\* 0x0000 of bank 0: the location every zero-filled pad field names.
MCSocTwo == Tegra234Soc(<<touch_clk_pcc4, extperiph2_clk_pp1>>)

\* touch_clk_pcc4 (bank 1) and dap4_sclk_pa4 (bank 0): both mux registers
\* are at offset 0x2000 and both drive registers at 0x2004.
MCSocBanks == Tegra234Soc(<<touch_clk_pcc4, dap4_sclk_pa4>>)

\* The functions of T234_FUNCTION_TABLE the banks run selects, in enum
\* order: GP and TOUCH for touch_clk_pcc4, I2S4 for dap4_sclk_pa4.
MCFunctionsBanks == <<"GP", "I2S4", "TOUCH">>

\* touch_clk_pcc4 and qspi_comp, a group with no GPIO select bit.
MCSocComp == Tegra234Soc(<<touch_clk_pcc4, qspi_comp>>)

\* Pin 201 (touch_clk_pcc4) and pin 114 (can2_dout_ps0), a GPIO-range
\* pin no group of the table owns.
MCGpioPinsOne == {114, 201}

\* Pins 93 (extperiph2_clk_pp1) and 201.
MCGpioPinsTwo == {93, 201}

\* Pins 4 (dap4_sclk_pa4) and 201.
MCGpioPinsBanks == {4, 201}

\* The boot firmware leaves a pad routed to GPIO or to SFIO (bit 10).
MCInitRegVals == {{}, {10}}

\* Device-tree sleep states: none, or one configs[] item on the first
\* group, out of range or not (pinctrl_force_sleep may then fail).
MCSleepStates == {<<>>} \cup {<<1, <<c>>>> : c \in Params \X Args}

\* The state TLC tells apart.  call only reports the last callback: no
\* action reads it, so two states that differ only in call have the same
\* successors.
StateView == <<regs, gpio_conf, backup_regs, gpioOwned, probed, suspended>>
=============================================================================
