---------------------------- MODULE PinctrlTegra ----------------------------
(***************************************************************************)
(* The Tegra pin controller driver of src/unnamed/part_002                 *)
(* (pinctrl-tegra234.c): the register file it programs and every driver   *)
(* entry point that changes it, one action per callback.                   *)
(*                                                                         *)
(* A register is the set of its bits that read as 1 (a u32, bits 0..31).  *)
(* Each callback runs atomically: the pinctrl core and the PM core call    *)
(* them one at a time on this device (see README, "Concurrency").          *)
(***************************************************************************)
EXTENDS Integers, Sequences, FiniteSets, TLC

CONSTANTS
  Soc,          \* struct tegra_pinctrl_soc_data: groups, ngpios, *_in_mux
  Functions,    \* function names in tegra_mux_dt enum order
  Params,       \* enum tegra_pinconf_param values a caller passes
  Args,         \* config arguments a caller passes (u16 after unpacking)
  MaxBatch,     \* longest configs[] list of one pin_config_group_set call
  GpioPins,     \* pins of the GPIO range the GPIO side may request
  InitRegVals,  \* register values the boot firmware may leave behind
  SleepStates   \* the "sleep" pinctrl states the device tree may give

ASSUME Args \subseteq 0..65535
ASSUME MaxBatch \in Nat \ {0}
ASSUME GpioPins \subseteq 0..(Soc.ngpios - 1)

VARIABLES
  regs,         \* pmx->regs[bank] + reg: the hardware register file
  gpio_conf,    \* pmx->gpio_conf[pin]: mux register saved at GPIO request
  backup_regs,  \* pmx->backup_regs: register file saved at suspend
  gpioOwned,    \* pins the pinctrl core has granted to the GPIO side
  probed,       \* tegra_pinctrl_probe has run
  suspended,    \* between suspend_noirq and resume_noirq
  call          \* the last callback: its inputs and what it returned

vars == <<regs, gpio_conf, backup_regs, gpioOwned, probed, suspended, call>>

Bits == 0..31
GroupIds == 1..Len(Soc.groups)
Grp(gi) == Soc.groups[gi]

-----------------------------------------------------------------------------
(* Bit fields of a u32 register.                                           *)

\* The bits of a u16 argument.
ArgBits(n) == {i \in 0..15 : (n \div 2^i) % 2 = 1}

\* The bit positions of the field (mask << bit).
FieldBits(bit, width) == bit..(bit + width - 1)

\* (val >> bit) & ((1 << width) - 1)
FieldVal(v, bit, width) ==
  LET val[i \in 0..width] ==   \* the top i bits of the field
        IF i = 0 THEN 0
        ELSE 2 * val[i - 1] + (IF bit + width - i \in v THEN 1 ELSE 0)
  IN val[width]

\* val &= ~(mask << bit); val |= arg << bit  (bits past 31 fall off a u32)
PutField(v, bit, width, arg) ==
  (v \ FieldBits(bit, width)) \cup ({bit + i : i \in ArgBits(arg)} \cap Bits)

-----------------------------------------------------------------------------
(* tegra_pinconf_reg: where a parameter lives for a group.                 *)

Loc(bank, reg, bit, width) == [bank |-> bank, reg |-> reg, bit |-> bit, width |-> width]
MuxAt(g, bit, width) == Loc(g.mux_bank, g.mux_reg, bit, width)
DrvAt(g, bit, width) == Loc(g.drv_bank, g.drv_reg, bit, width)
MuxOrDrv(inMux, g, bit, width) ==
  IF inMux THEN MuxAt(g, bit, width) ELSE DrvAt(g, bit, width)

ConfRegTable(g) ==
  [ PULL                |-> Loc(g.pupd_bank, g.pupd_reg, g.pupd_bit, 2),
    TRISTATE            |-> Loc(g.tri_bank, g.tri_reg, g.tri_bit, 1),
    ENABLE_INPUT        |-> MuxAt(g, g.einput_bit, 1),
    OPEN_DRAIN          |-> MuxAt(g, g.odrain_bit, 1),
    LOCK                |-> MuxAt(g, g.lock_bit, 1),
    IORESET             |-> MuxAt(g, g.ioreset_bit, 1),
    RCV_SEL             |-> MuxAt(g, g.rcv_sel_bit, 1),
    LOOPBACK            |-> Loc(g.lpbk_bank, g.lpbk_reg, g.lpbk_bit, 1),
    HIGH_SPEED_MODE     |-> MuxOrDrv(Soc.hsm_in_mux, g, g.hsm_bit, 1),
    SCHMITT             |-> MuxOrDrv(Soc.schmitt_in_mux, g, g.schmitt_bit, 1),
    LOW_POWER_MODE      |-> DrvAt(g, g.lpmd_bit, 2),
    DRIVE_DOWN_STRENGTH |-> DrvAt(g, g.drvdn_bit, g.drvdn_width),
    DRIVE_UP_STRENGTH   |-> DrvAt(g, g.drvup_bit, g.drvup_width),
    SLEW_RATE_FALLING   |-> DrvAt(g, g.slwf_bit, g.slwf_width),
    SLEW_RATE_RISING    |-> DrvAt(g, g.slwr_bit, g.slwr_width),
    DRIVE_TYPE          |-> MuxOrDrv(Soc.drvtype_in_mux, g, g.drvtype_bit, 2),
    FUNCTION            |-> MuxAt(g, g.mux_bit, 2),
    PAD_POWER           |-> Loc(g.pad_bank, g.pad_reg, g.pad_bit, 1) ]

ConfReg(g, p) == ConfRegTable(g)[p]

\* -ENOTSUPP: the register or the bit is the -1 sentinel.
Unsupported(l) == l.reg < 0 \/ l.bit < 0

Addr(l) == <<l.bank, l.reg>>
MuxAddr(g) == Addr(MuxAt(g, g.mux_bit, 2))

\* Whether a group's parameter has a register location.
Supported(gi, p) == ~Unsupported(ConfReg(Grp(gi), p))

\* tegra_pinctrl_clear_parked_bits: the mux register, or the drive
\* register of a group without one.
PrimaryAddr(g) == IF g.mux_reg # -1 THEN MuxAddr(g) ELSE Addr(DrvAt(g, 0, 0))

\* The registers the modelled callbacks can reach.
Addrs ==
  {Addr(ConfReg(Grp(x[1]), x[2])) : x \in {y \in GroupIds \X Params : Supported(y[1], y[2])}}
  \cup {MuxAddr(Grp(gi)) : gi \in {x \in GroupIds : Grp(x).mux_reg >= 0}}
  \cup {PrimaryAddr(Grp(gi)) : gi \in {x \in GroupIds : Grp(x).parked_bitmask > 0}}

-----------------------------------------------------------------------------
(* Inputs and results.                                                     *)

\* A configs[] list: TEGRA_PINCONF_PACK(param, arg) items.
Batches == UNION {[1..n -> Params \X Args] : n \in 1..MaxBatch}

ASSUME SleepStates \subseteq {<<>>} \cup (GroupIds \X Batches)

NoCall == [op |-> "none", grp |-> 0, in |-> <<>>, ret |-> "OK", val |-> 0]
Call(op, gi, in, ret, val) == [op |-> op, grp |-> gi, in |-> in, ret |-> ret, val |-> val]

\* probe: func->groups, the groups whose funcs[] name each function, in
\* group order, one entry per group however many slots name it.
GroupOrder == [i \in GroupIds |-> i]
FunctionIndex ==
  [fn \in 1..Len(Functions) |->
     SelectSeq(GroupOrder, LAMBDA gn : Grp(gn).mux_reg # -1
                                      /\ \E k \in 1..4 : Grp(gn).funcs[k] = Functions[fn])]

\* The first of the four funcs[] slots that holds function f (0-based).
FuncSlot(g, f) ==
  (CHOOSE k \in 1..4 : g.funcs[k] = f /\ \A j \in 1..(k - 1) : g.funcs[j] # f) - 1

\* 1 << g->sfsel_bit.  A group without the bit has sfsel_bit = -1, and a
\* shift by -1 is undefined: AArch64 LSLV takes the count mod 32 (bit 31);
\* a compiler that proves the count negative may drop the OR.
SfselMasks(g) == IF g.sfsel_bit >= 0 THEN {{g.sfsel_bit}} ELSE {{31}, {}}

\* The single-pin group that owns a pin, 0 if none (the loop of
\* tegra_pinctrl_gpio_save_config and of tegra_pinctrl_gpio_request_enable).
GroupOfPin(pin) ==
  LET owners == {gi \in GroupIds : Len(Grp(gi).pins) = 1 /\ Grp(gi).pins[1] = pin}
  IN IF owners = {} THEN 0 ELSE CHOOSE gi \in owners : \A o \in owners : gi =< o

-----------------------------------------------------------------------------
(* tegra_pinconf_group_set: one configs[] item, and the loop.              *)

\* !arg on a u16
LogicalNot(a) == IF a = 0 THEN 1 ELSE 0

\* A range check off by one (arg > 1 << width).
SetOneOffByOne(r, g, c) ==
  LET p    == c[1]
      arg  == IF p = "PAD_POWER" THEN LogicalNot(c[2]) ELSE c[2]
      l    == ConfReg(g, p)
      val  == r[Addr(l)]
      barg == IF l.width = 1 THEN LogicalNot(LogicalNot(arg)) ELSE arg
  IN IF Unsupported(l) THEN [regs |-> r, ret |-> "ENOTSUPP"]
     ELSE IF p = "LOCK" /\ l.bit \in val /\ arg = 0 THEN [regs |-> r, ret |-> "EINVAL"]
     ELSE IF barg > 2^l.width THEN [regs |-> r, ret |-> "EINVAL"]
     ELSE [regs |-> [r EXCEPT ![Addr(l)] = PutField(val, l.bit, l.width, barg)],
           ret  |-> "OK"]

SetOne(r, g, c) ==
  LET p    == c[1]
      arg  == IF p = "PAD_POWER" THEN LogicalNot(c[2]) ELSE c[2]
      l    == ConfReg(g, p)
      val  == r[Addr(l)]
      barg == IF l.width = 1 THEN LogicalNot(LogicalNot(arg)) ELSE arg
  IN IF Unsupported(l) THEN [regs |-> r, ret |-> "ENOTSUPP"]
     ELSE IF p = "LOCK" /\ l.bit \in val /\ arg = 0 THEN [regs |-> r, ret |-> "EINVAL"]
     ELSE IF barg >= 2^l.width THEN [regs |-> r, ret |-> "EINVAL"]
     ELSE [regs |-> [r EXCEPT ![Addr(l)] = PutField(val, l.bit, l.width, barg)],
           ret  |-> "OK"]

\* The for loop returns at the first item that fails; earlier writes stay.
RECURSIVE SetLoop(_, _, _)
SetLoop(r, g, cfgs) ==
  IF cfgs = <<>> THEN [regs |-> r, ret |-> "OK"]
  ELSE LET res == SetOne(r, g, Head(cfgs))
       IN IF res.ret # "OK" THEN res ELSE SetLoop(res.regs, g, Tail(cfgs))

\* Where a logical field lives: a parameter's register location, or the
\* GPIO/SFIO select bit (SFSEL) of the mux register.
FieldLoc(g, f) == IF f = "SFSEL" THEN MuxAt(g, g.sfsel_bit, 1) ELSE ConfReg(g, f)

\* tegra_pinconf_group_get: the field, inverted for pad power (RegField
\* reads it from one register value).
RegField(v, g, f) ==
  LET l == FieldLoc(g, f)
      x == FieldVal(v, l.bit, l.width)
  IN IF f = "PAD_POWER" THEN LogicalNot(x) ELSE x

GetVal(r, g, p) == RegField(r[Addr(FieldLoc(g, p))], g, p)

-----------------------------------------------------------------------------
(* The driver callbacks.                                                   *)

Init ==
  /\ regs \in [Addrs -> InitRegVals]
  /\ gpio_conf = [p \in GpioPins |-> {}]
  /\ backup_regs = [a \in Addrs |-> {}]
  /\ gpioOwned = {}
  /\ probed = FALSE
  /\ suspended = FALSE
  /\ call = NoCall

\* tegra_pinctrl_probe: func->groups is FunctionIndex (fixed by the
\* tables); the register side is clearing every group's parked bits.
ParkedBitsAt(a) ==
  UNION {ArgBits(Grp(gi).parked_bitmask) :
           gi \in {x \in GroupIds : Grp(x).parked_bitmask > 0 /\ PrimaryAddr(Grp(x)) = a}}

Probe ==
  /\ ~probed
  /\ regs' = [a \in Addrs |-> regs[a] \ ParkedBitsAt(a)]
  /\ probed' = TRUE
  /\ call' = Call("probe", 0, <<>>, "OK", 0)
  /\ UNCHANGED <<gpio_conf, backup_regs, gpioOwned, suspended>>

\* The pinctrl core calls back only into a registered, awake device.
Active == probed /\ ~suspended

\* tegra_pinctrl_set_mux(function, group).  The core passes only pairs
\* taken from get_function_groups, so the group is in func->groups.
SetMux(fn, gi) ==
  LET g == Grp(gi)
      i == FuncSlot(g, Functions[fn])
  IN /\ Active
     /\ g.mux_reg >= 0
     /\ \E sf \in SfselMasks(g) :
          regs' = [regs EXCEPT ![MuxAddr(g)] =
                     ((@ \ FieldBits(g.mux_bit, 2)) \cup {g.mux_bit + b : b \in ArgBits(i)})
                     \cup (IF Soc.sfsel_in_mux THEN sf ELSE {})]
     /\ call' = Call("set_mux", gi, Functions[fn], "OK", 0)
     /\ UNCHANGED <<gpio_conf, backup_regs, gpioOwned, probed, suspended>>

\* tegra_pinconf_group_set(group, configs, num_configs)
PinconfGroupSet(gi, cfgs) ==
  LET res == SetLoop(regs, Grp(gi), cfgs)
  IN /\ Active
     /\ regs' = res.regs
     /\ call' = Call("group_set", gi, cfgs, res.ret, 0)
     /\ UNCHANGED <<gpio_conf, backup_regs, gpioOwned, probed, suspended>>

\* tegra_pinconf_group_get(group, config)
PinconfGroupGet(gi, p) ==
  /\ Active
  /\ call' = IF Supported(gi, p)
               THEN Call("group_get", gi, p, "OK", GetVal(regs, Grp(gi), p))
               ELSE Call("group_get", gi, p, "ENOTSUPP", 0)
  /\ UNCHANGED <<regs, gpio_conf, backup_regs, gpioOwned, probed, suspended>>

\* tegra_pinconf_get / tegra_pinconf_set: per-pin config is refused.
PinconfPinOp ==
  /\ Active
  /\ call' = Call("pin_config", 0, <<>>, "ENOTSUPP", 0)
  /\ UNCHANGED <<regs, gpio_conf, backup_regs, gpioOwned, probed, suspended>>

\* A request that ignores the error of gpio_save_config.
GpioRequestNoGroupUnchecked(pin) ==
  /\ Active
  /\ pin \in GpioPins \ gpioOwned
  /\ GroupOfPin(pin) = 0
  /\ gpioOwned' = gpioOwned \cup {pin}
  /\ call' = Call("gpio_request", 0, pin, "OK", 0)
  /\ UNCHANGED <<regs, gpio_conf, backup_regs, probed, suspended>>

\* tegra_pinctrl_gpio_request_enable(pin), for a pin the core has not
\* already granted to the GPIO side.  gpio_save_config fails when no
\* single-pin group owns the pin; otherwise it saves the mux register,
\* and with sfsel_in_mux the SFIO select bit is then cleared.  A group
\* without that bit fails the request after the save.
GpioRequestNoGroup(pin) ==
  /\ Active
  /\ pin \in GpioPins \ gpioOwned
  /\ GroupOfPin(pin) = 0
  /\ call' = Call("gpio_request", 0, pin, "EINVAL", 0)
  /\ UNCHANGED <<regs, gpio_conf, backup_regs, gpioOwned, probed, suspended>>

GpioRequestEnable(pin) ==
  LET gi == GroupOfPin(pin)
      g  == Grp(gi)
      ok == ~Soc.sfsel_in_mux \/ (g.mux_reg >= 0 /\ g.sfsel_bit >= 0)
  IN /\ Active
     /\ pin \in GpioPins \ gpioOwned
     /\ gi # 0
     /\ gpio_conf' = IF g.mux_reg >= 0 THEN [gpio_conf EXCEPT ![pin] = regs[MuxAddr(g)]]
                                       ELSE gpio_conf
     /\ regs' = IF Soc.sfsel_in_mux /\ ok
                  THEN [regs EXCEPT ![MuxAddr(g)] = @ \ {g.sfsel_bit}]
                  ELSE regs
     /\ gpioOwned' = IF ok THEN gpioOwned \cup {pin} ELSE gpioOwned
     /\ call' = Call("gpio_request", gi, pin, IF ok THEN "OK" ELSE "EINVAL", 0)
     /\ UNCHANGED <<backup_regs, probed, suspended>>

\* tegra_pinctrl_gpio_disable_free(pin) = gpio_restore_config: writes the
\* saved mux register back, whatever happened to it since.
GpioDisableFree(pin) ==
  LET gi == GroupOfPin(pin)
      g  == Grp(gi)
  IN /\ Active
     /\ pin \in gpioOwned
     /\ regs' = IF g.mux_reg >= 0 THEN [regs EXCEPT ![MuxAddr(g)] = gpio_conf[pin]]
                                  ELSE regs
     /\ gpioOwned' = gpioOwned \ {pin}
     /\ call' = Call("gpio_free", gi, pin, "OK", 0)
     /\ UNCHANGED <<gpio_conf, backup_regs, probed, suspended>>

\* tegra_pinctrl_suspend: copy every register to backup_regs, then
\* pinctrl_force_sleep selects the controller's sleep state: a list of
\* group config writes (none when the device tree gives no sleep state),
\* applied by tegra_pinconf_group_set (SleepStates: <<>> or a pair of a
\* group and a configs[] list).  A failing sleep state fails the
\* suspend, and the device stays awake.
Suspend ==
  /\ Active
  /\ backup_regs' = regs
  /\ \E s \in SleepStates :
       LET res == IF s = <<>> THEN [regs |-> regs, ret |-> "OK"]
                  ELSE SetLoop(regs, Grp(s[1]), s[2])
       IN /\ regs' = res.regs
          /\ suspended' = (res.ret = "OK")
          /\ call' = Call("suspend", 0, s, res.ret, 0)
  /\ UNCHANGED <<gpio_conf, gpioOwned, probed>>

\* tegra_pinctrl_resume: write every saved register back.
Resume ==
  /\ suspended
  /\ regs' = backup_regs
  /\ suspended' = FALSE
  /\ call' = Call("resume", 0, <<>>, "OK", 0)
  /\ UNCHANGED <<gpio_conf, backup_regs, gpioOwned, probed>>

Next ==
  \/ Probe
  \/ \E fn \in 1..Len(Functions) : \E k \in 1..Len(FunctionIndex[fn]) :
        SetMux(fn, FunctionIndex[fn][k])
  \/ \E gi \in GroupIds, cfgs \in Batches : PinconfGroupSet(gi, cfgs)
  \/ \E gi \in GroupIds, p \in Params : PinconfGroupGet(gi, p)
  \/ PinconfPinOp
  \/ \E pin \in GpioPins : GpioRequestNoGroup(pin) \/ GpioRequestEnable(pin)
  \/ \E pin \in GpioPins : GpioDisableFree(pin)
  \/ Suspend
  \/ Resume

Spec == Init /\ [][Next]_vars

-----------------------------------------------------------------------------
(* Refinement: the registers decoded into the logical fields of           *)
(* PinconfLogical.                                                         *)

\* A group's logical fields: the supported parameters a run passes, its
\* function select and, when it has one, its GPIO/SFIO select bit.
LFields(gi) ==
  {f \in Params \cup {"FUNCTION"} : Supported(gi, f)}
  \cup (IF Grp(gi).mux_reg >= 0 /\ Grp(gi).sfsel_bit >= 0 THEN {"SFSEL"} ELSE {})

FieldWidth(gi, f) == FieldLoc(Grp(gi), f).width

\* The fields held in the mux register, which a GPIO request saves.
GroupMuxFields(gi) ==
  IF gi = 0 \/ Grp(gi).mux_reg < 0 THEN {}
  ELSE {f \in LFields(gi) : Addr(FieldLoc(Grp(gi), f)) = MuxAddr(Grp(gi))}

\* The catalog tables the mapping reads, computed once.
FieldsOf == [gi \in GroupIds |-> LFields(gi)]
MuxFieldsOf == [gi \in GroupIds \cup {0} |-> GroupMuxFields(gi)]
OwnerOf == [pin \in GpioPins |-> GroupOfPin(pin)]

DecodeAll(r) == [gi \in GroupIds |-> [f \in FieldsOf[gi] |-> GetVal(r, Grp(gi), f)]]

DecodeSaved(gc) ==
  [pin \in GpioPins |-> [f \in MuxFieldsOf[OwnerOf[pin]] |->
                           RegField(gc[pin], Grp(OwnerOf[pin]), f)]]

MuxTargetSet ==
  {<<FunctionIndex[fn][k], Functions[fn], FuncSlot(Grp(FunctionIndex[fn][k]), Functions[fn])>> :
     <<fn, k>> \in {x \in (1..Len(Functions)) \X (1..Len(Soc.groups)) :
                     x[2] <= Len(FunctionIndex[x[1]])}}

Logical == INSTANCE PinconfLogical WITH
  Groups <- GroupIds, MuxTargets <- MuxTargetSet,
  InitConfs <- {DecodeAll(r) : r \in [Addrs -> InitRegVals]},
  InitSnap <- DecodeAll([a \in Addrs |-> {}]),
  InitSaved <- DecodeSaved([p \in GpioPins |-> {}]),
  SfselInMux <- Soc.sfsel_in_mux,
  Fields <- LAMBDA gi : FieldsOf[gi], Width <- FieldWidth,
  MuxFields <- LAMBDA gi : MuxFieldsOf[gi], PinOwner <- LAMBDA pin : OwnerOf[pin],
  conf <- DecodeAll(regs), saved <- DecodeSaved(gpio_conf),
  snap <- DecodeAll(backup_regs)

-----------------------------------------------------------------------------
(* Properties.                                                             *)

\* Types: registers are u32 values, results are the callbacks' error
\* codes and u16 arguments, and the pins granted to the GPIO side are
\* GPIO-range pins that a single-pin group owns (the pins
\* tegra_pinctrl_gpio_request_enable can save and restore).
TypeOK ==
  /\ regs \in [Addrs -> SUBSET Bits]
  /\ gpio_conf \in [GpioPins -> SUBSET Bits]
  /\ backup_regs \in [Addrs -> SUBSET Bits]
  /\ gpioOwned \subseteq {pin \in GpioPins : GroupOfPin(pin) # 0}
  /\ probed \in BOOLEAN
  /\ suspended \in BOOLEAN
  /\ call.ret \in {"OK", "EINVAL", "ENOTSUPP"}
  /\ call.val \in 0..65535

\* Every sequence of driver callbacks is one the logical specification
\* allows: a pinconf write, a mux selection, a GPIO request or release and
\* a suspend/resume cycle change exactly the logical fields they name,
\* with the results group_set, group_get and gpio_request return.
RefinesLogical == Logical!Spec

\* A callback about one group (set_mux, pin_config_group_set, GPIO request
\* and release) leaves every logical field of every other group as it
\* was: the (bank, reg) addressing of pmx_readl/pmx_writel and the
\* catalog rows never let one group's write land in another's register.
OtherGroupsKept ==
  [][call'.grp # 0 =>
       \A h \in GroupIds \ {call'.grp} : DecodeAll(regs')[h] = DecodeAll(regs)[h]]_vars

\* tegra_pinconf_group_set with no FUNCTION item leaves the group's
\* selected function as it was (spec 4.3: each parameter has its own
\* location, or none and is refused).
ConfigKeepsFunction ==
  [][(call'.op = "group_set" /\ \A i \in DOMAIN call'.in : call'.in[i][1] # "FUNCTION") =>
       GetVal(regs', Grp(call'.grp), "FUNCTION") = GetVal(regs, Grp(call'.grp), "FUNCTION")]_vars

\* Spec 4.4 and 7: a configs[] list is applied best-effort, each item on
\* its own; so after tegra_pinconf_group_set every item that would succeed
\* on its own (and is the list's only item for its parameter) has left
\* its field as it alone would leave it, whatever the other items did.
BestEffortBatch ==
  [][call'.op = "group_set" =>
       \A i \in DOMAIN call'.in :
         LET e   == call'.in[i]
             g   == Grp(call'.grp)
             one == SetOne(regs, g, e)
         IN (one.ret = "OK" /\ \A j \in DOMAIN call'.in \ {i} : call'.in[j][1] # e[1])
              => GetVal(regs', g, e[1]) = GetVal(one.regs, g, e[1])]_vars

\* tegra_pinctrl_set_mux changes only the group's 2-bit function field
\* and its SFIO select bit (spec 4.2), and no other register.
MuxWriteConfined ==
  [][call'.op = "set_mux" =>
       LET g       == Grp(call'.grp)
           allowed == FieldBits(g.mux_bit, 2)
                      \cup (IF g.sfsel_bit >= 0 THEN {g.sfsel_bit} ELSE {})
       IN \A a \in Addrs :
            (regs'[a] \ regs[a]) \cup (regs[a] \ regs'[a])
              \subseteq (IF a = MuxAddr(g) THEN allowed ELSE {})]_vars
=============================================================================
