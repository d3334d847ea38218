----------------------------- MODULE AdmaifRegs -----------------------------
(***************************************************************************)
(* The register map of sound/soc/tegra/tegra210_admaif.h.  Each SoC has    *)
(* an RX region, a TX region and a global region; channel ch (0-based) of  *)
(* a path has its registers at base + ch * CHANNEL_REG_STRIDE + offset,    *)
(* and the header gives the reset value of every channel's FIFO_CTRL.      *)
(* Those values pack the channel's window of the shared FIFO: the start    *)
(* in bits 0-7, the size minus one in bits 8-11 and, for TX, the start     *)
(* threshold from bit 20 (the layout the Tegra210 and Tegra186 values     *)
(* follow).                                                                *)
(*                                                                         *)
(* The state is one choice of inputs (SoC, path, two channels, a register *)
(* offset); the properties hold for every choice.                          *)
(***************************************************************************)
EXTENDS Integers, Sequences

VARIABLES soc, path, ch, ch2, off

vars == <<soc, path, ch, ch2, off>>

\* TEGRA_ADMAIF_CHANNEL_REG_STRIDE
TEGRA_ADMAIF_CHANNEL_REG_STRIDE == \h40

\* A Tegra186 map whose TX base was typed one channel short.
LayoutTxTypo ==
  [T210 |-> [last |-> \h75F, num_ch |-> 10, rx |-> \h0, tx |-> \h300, glob |-> \h700],
   T186 |-> [last |-> \hD5F, num_ch |-> 20, rx |-> \h0, tx |-> \h4C0, glob |-> \hD00]]

\* TEGRA210_/TEGRA186_ADMAIF_LAST_REG, _CHANNEL_COUNT, _RX_BASE, _TX_BASE
\* and _GLOBAL_BASE (0x75f, 10, 0x0, 0x300, 0x700; 0xd5f, 20, 0x0, 0x500,
\* 0xd00): the fields of struct tegra_admaif_soc_data.
Layout ==
  [T210 |-> [last |-> \h75F, num_ch |-> 10, rx |-> \h0, tx |-> \h300, glob |-> \h700],
   T186 |-> [last |-> \hD5F, num_ch |-> 20, rx |-> \h0, tx |-> \h500, glob |-> \hD00]]

\* The global registers: ENABLE, CG_0, STATUS, RX_ENABLE_STATUS and
\* TX_ENABLE_STATUS.
GlobalRegs == {\h0, \h8, \h10, \h20, \h24}

\* The per-channel registers of each path: ENABLE, SOFT_RESET, STATUS,
\* INT_STATUS, INT_MASK, INT_SET, INT_CLEAR, CH_ACIF_*_CTRL, FIFO_CTRL and
\* FIFO_READ (RX) / FIFO_WRITE (TX).
ChannelRegs == [RX |-> {\h0, \h4, \hC, \h10, \h14, \h18, \h1C, \h20, \h28, \h2C},
                TX |-> {\h0, \h4, \hC, \h10, \h14, \h18, \h1C, \h20, \h28, \h2C}]

\* ADMAIF_RX_PATH, ADMAIF_TX_PATH
Paths == {"RX", "TX"}

\* TEGRA210_ADMAIF_RX<n>_FIFO_CTRL_REG_DEFAULT, n = 1..10
T210RxFifoDefault ==
  <<\h300, \h304, \h208, \h20B, \h20E, \h211, \h214, \h217, \h21A, \h21D>>

\* TEGRA210_ADMAIF_TX<n>_FIFO_CTRL_REG_DEFAULT, n = 1..10
T210TxFifoDefault ==
  <<\h2000300, \h2000304, \h1800208, \h180020B, \h180020E, \h1800211, \h1800214,
    \h1800217, \h180021A, \h180021D>>

\* A Tegra186 RX table with RX5 typed as 0x20f.
T186RxFifoDefaultTypo ==
  <<\h300, \h304, \h308, \h30C, \h20F, \h213, \h216, \h219, \h21C, \h21F, \h222, \h225, \h228, \h22B, \h22E,
    \h231, \h234, \h237, \h23A, \h23D>>

\* TEGRA186_ADMAIF_RX<n>_FIFO_CTRL_REG_DEFAULT, n = 1..20
T186RxFifoDefault ==
  <<\h300, \h304, \h308, \h30C, \h210, \h213, \h216, \h219, \h21C, \h21F, \h222, \h225, \h228, \h22B, \h22E,
    \h231, \h234, \h237, \h23A, \h23D>>

\* TEGRA186_ADMAIF_TX<n>_FIFO_CTRL_REG_DEFAULT, n = 1..20
T186TxFifoDefault ==
  <<\h2000300, \h2000304, \h2000308, \h200030C, \h1800210, \h1800213, \h1800216,
    \h1800219, \h180021C, \h180021F, \h1800222, \h1800225, \h1800228, \h180022B,
    \h180022E, \h1800231, \h1800234, \h1800237, \h180023A, \h180023D>>

FifoDefault ==
  [T210 |-> [RX |-> T210RxFifoDefault, TX |-> T210TxFifoDefault],
   T186 |-> [RX |-> T186RxFifoDefault, TX |-> T186TxFifoDefault]]

-----------------------------------------------------------------------------
(* Addresses and FIFO windows.                                             *)

Base(s, p) == IF p = "RX" THEN Layout[s].rx ELSE Layout[s].tx

\* The base of the region that follows path p's.
NextBase(s, p) == IF p = "RX" THEN Layout[s].tx ELSE Layout[s].glob

\* base + TEGRA_ADMAIF_CHANNEL_REG_STRIDE * ch + reg
ChannelReg(s, p, c, r) == Base(s, p) + TEGRA_ADMAIF_CHANNEL_REG_STRIDE * c + r

FifoStart(v) == v % 256
FifoSizeM1(v) == (v \div 256) % 16

\* The FIFO entries channel c of path p owns after reset.
FifoWindow(s, p, c) ==
  LET v == FifoDefault[s][p][c + 1]
  IN FifoStart(v)..(FifoStart(v) + FifoSizeM1(v))

Init ==
  /\ soc \in {"T210", "T186"}
  /\ path \in Paths
  /\ ch \in 0..(Layout[soc].num_ch - 1)
  /\ ch2 \in 0..(Layout[soc].num_ch - 1)
  /\ off \in ChannelRegs[path]

Next == UNCHANGED vars

Spec == Init /\ [][Next]_vars

-----------------------------------------------------------------------------
(* Properties.                                                             *)

\* Every channel register of every RX or TX channel lies inside its
\* path's region, below the next region's base, and within LAST_REG: the
\* channel count, the stride and the three bases leave room for each
\* other (on Tegra186 the RX region ends exactly at TX_BASE).
ChannelRegsInRegion ==
  LET a == ChannelReg(soc, path, ch, off)
  IN /\ Base(soc, path) =< a
     /\ a < NextBase(soc, path)
     /\ \A g \in GlobalRegs : Layout[soc].glob + g =< Layout[soc].last

\* The reset FIFO_CTRL values give two different channels of a path
\* disjoint windows of the FIFO, and a channel the same window on RX and
\* TX.
FifoWindowsDisjoint ==
  /\ ch # ch2 => FifoWindow(soc, path, ch) \cap FifoWindow(soc, path, ch2) = {}
  /\ FifoWindow(soc, "RX", ch) = FifoWindow(soc, "TX", ch)
=============================================================================
