--------------------------- MODULE Tegra234Tables ---------------------------
(***************************************************************************)
(* The static pin-group catalog of pinctrl-tegra234.c (src/unnamed/       *)
(* part_002), as the C designated initializers leave it.  The macros      *)
(* PINGROUP, PIN_PINGROUP_ENTRY_Y and DRV_PINGROUP_ENTRY_Y/N are the      *)
(* operators below; every field a macro does not name is zero, exactly    *)
(* as C zero-fills the members a designated initializer omits (this is    *)
(* what makes odrain_bit, ioreset_bit, rcv_sel_bit, pad_reg, pad_bank,    *)
(* pad_bit and parked_bitmask 0 for every Tegra234 group).                *)
(*                                                                         *)
(* Only the rows a model run needs are listed; each is copied field for   *)
(* field from the table.                                                   *)
(***************************************************************************)
EXTENDS Integers, TLC

\* PINGROUP_REG_Y(r) / PINGROUP_REG_N(r): a register that is present or
\* the -1 "absent" sentinel.
PingroupReg(yn, r) == IF yn = "Y" THEN r ELSE -1

\* Every member of struct tegra_pingroup that the driver reads, zeroed.
ZeroGroup ==
  [ pins |-> <<>>, funcs |-> <<>>,
    mux_reg |-> 0, mux_bank |-> 0, mux_bit |-> 0,
    pupd_reg |-> 0, pupd_bank |-> 0, pupd_bit |-> 0,
    tri_reg |-> 0, tri_bank |-> 0, tri_bit |-> 0,
    lpbk_reg |-> 0, lpbk_bank |-> 0, lpbk_bit |-> 0,
    pad_reg |-> 0, pad_bank |-> 0, pad_bit |-> 0,
    drv_reg |-> 0, drv_bank |-> 0,
    einput_bit |-> 0, odrain_bit |-> 0, lock_bit |-> 0, ioreset_bit |-> 0,
    rcv_sel_bit |-> 0, hsm_bit |-> 0, schmitt_bit |-> 0, lpmd_bit |-> 0,
    drvtype_bit |-> 0, sfsel_bit |-> 0,
    drvdn_bit |-> 0, drvdn_width |-> 0, drvup_bit |-> 0, drvup_width |-> 0,
    slwr_bit |-> 0, slwr_width |-> 0, slwf_bit |-> 0, slwf_width |-> 0,
    parked_bitmask |-> 0 ]

\* DRV_PINGROUP_ENTRY_N: no drive register.
DrvEntryN ==
  [ drv_reg |-> -1, drv_bank |-> -1, drvdn_bit |-> -1, drvup_bit |-> -1,
    slwr_bit |-> -1, slwf_bit |-> -1 ]

\* A DRV_PINGROUP_ENTRY_Y that forgets .drv_bank (C zero-fills it to 0).
DrvEntryYNoBank(r, dnb, dnw, upb, upw, srb, srw, sfb, sfw, bank) ==
  [ drv_reg |-> r,
    drvdn_bit |-> dnb, drvdn_width |-> dnw, drvup_bit |-> upb, drvup_width |-> upw,
    slwr_bit |-> srb, slwr_width |-> srw, slwf_bit |-> sfb, slwf_width |-> sfw ]

\* DRV_PINGROUP_ENTRY_Y(r, drvdn_b, drvdn_w, drvup_b, drvup_w, slwr_b,
\* slwr_w, slwf_b, slwf_w, bank).
DrvEntryY(r, dnb, dnw, upb, upw, srb, srw, sfb, sfw, bank) ==
  [ drv_reg |-> r, drv_bank |-> bank,
    drvdn_bit |-> dnb, drvdn_width |-> dnw, drvup_bit |-> upb, drvup_width |-> upw,
    slwr_bit |-> srb, slwr_width |-> srw, slwf_bit |-> sfb, slwf_width |-> sfw ]

\* PIN_PINGROUP_ENTRY_Y(r, bank, pupd, e_io_hv, e_lpbk, e_input, e_lpdr,
\* e_pbias_buf, gpio_sfio_sel, schmitt_b).  e_io_hv, e_lpdr and
\* e_pbias_buf feed fields no driver path reads.
PinEntryY(r, bank, pupd, e_lpbk, e_input, gpio_sfio_sel, schmitt_b) ==
  [ mux_reg |-> r, lpmd_bit |-> -1, lock_bit |-> -1, hsm_bit |-> -1,
    mux_bank |-> bank, mux_bit |-> 0,
    pupd_reg |-> PingroupReg(pupd, r), pupd_bank |-> bank, pupd_bit |-> 2,
    tri_reg |-> r, tri_bank |-> bank, tri_bit |-> 4,
    einput_bit |-> e_input, sfsel_bit |-> gpio_sfio_sel,
    schmitt_bit |-> schmitt_b, drvtype_bit |-> 13, drv_reg |-> -1,
    lpbk_reg |-> r, lpbk_bank |-> bank, lpbk_bit |-> e_lpbk ]

\* PINGROUP(pg_name, f0..f3, r, bank, pupd, ..., gpio_sfio_sel, schmitt_b):
\* the drive entry is written after the pin entry, so its drv_reg wins;
\* the group's pins array is the single pin TEGRA_PIN_<name>.
PinGroup(pin, fs, r, bank, pupd, e_lpbk, e_input, sfsel, schmitt, drive) ==
  drive @@ PinEntryY(r, bank, pupd, e_lpbk, e_input, sfsel, schmitt)
        @@ [pins |-> <<pin>>, funcs |-> fs] @@ ZeroGroup

(***************************************************************************)
(* Rows of tegra234_groups[] and of the drive_<name> macros.               *)
(***************************************************************************)
\* touch_clk_pcc4: pin 201, functions GP TOUCH RSVD2 RSVD3, bank 1.
touch_clk_pcc4 ==
  PinGroup(201, <<"GP", "TOUCH", "RSVD2", "RSVD3">>, \h2000, 1, "Y", 7, 6, 10, 12,
           DrvEntryY(\h2004, 12, 5, 20, 5, -1, -1, -1, -1, 1))

\* extperiph2_clk_pp1: pin 93, mux register 0x0000 of bank 0.
extperiph2_clk_pp1 ==
  PinGroup(93, <<"EXTPERIPH2", "RSVD1", "RSVD2", "RSVD3">>, \h0000, 0, "Y", 7, 6, 10, 12,
           DrvEntryY(\h0004, 12, 5, 20, 5, -1, -1, -1, -1, 0))

\* dap4_sclk_pa4: pin _GPIO(4), mux register 0x2000 of bank 0, the offset
\* touch_clk_pcc4 has in bank 1.
dap4_sclk_pa4 ==
  PinGroup(4, <<"I2S4", "RSVD1", "RSVD2", "RSVD3">>, \h2000, 0, "Y", 7, 6, 10, 12,
           DrvEntryY(\h2004, 12, 5, 20, 5, -1, -1, -1, -1, 0))

\* can0_dout_paa0: pin 159, drive fields at bits 28 and 30, two bits wide.
can0_dout_paa0 ==
  PinGroup(159, <<"CAN0", "RSVD1", "RSVD2", "RSVD3">>, \h3010, 1, "Y", 5, 6, 10, 12,
           DrvEntryY(\h3014, 28, 2, 30, 2, -1, -1, -1, -1, 1))

\* qspi_comp: pin _PIN(1) = 218, no pull, no GPIO select, no drive register.
qspi_comp ==
  PinGroup(218, <<"QSPI", "RSVD1", "RSVD2", "RSVD3">>, \hB060, 0, "N", -1, -1, -1, -1,
           DrvEntryN)

\* The entries of T234_FUNCTION_TABLE that these rows name, in enum
\* tegra_mux_dt order (the order probe walks the functions in).
T234Functions ==
  <<"GP", "CAN0", "QSPI", "EXTPERIPH2", "I2S4", "TOUCH", "RSVD1", "RSVD2", "RSVD3">>

\* NUM_GPIOS: TEGRA_PIN_HDMI_CEC_PGG0 + 1.
NUM_GPIOS == 217

\* tegra234_pinctrl (struct tegra_pinctrl_soc_data) over a list of groups.
Tegra234Soc(groups) ==
  [ ngpios |-> NUM_GPIOS, groups |-> groups,
    hsm_in_mux |-> FALSE, schmitt_in_mux |-> TRUE,
    drvtype_in_mux |-> TRUE, sfsel_in_mux |-> TRUE ]
=============================================================================
