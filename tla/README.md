# TLA+ models of the Tegra pinctrl driver, firmware inventory and ADMAIF register map

This directory holds TLA+ specifications of the behaviour in `src/`, and
the TLC configurations that check them. Most of that behaviour is in
`src/unnamed/part_002`, the Tegra pinctrl core driver (`pinctrl-tegra.c`)
followed by the Tegra234 SoC tables (`pinctrl-tegra234.c`). The rest is
the firmware-inventory module
(`src/drivers/platform/tegra/firmwares-inventory.c`) and the Tegra210 ADMAIF
register header (`src/sound/soc/tegra/tegra210_admaif.h`).

## 1. Inventory of the system

| Part | Source | State | Operations |
|---|---|---|---|
| Register access | part_002 28-38 | one u32 per (bank, offset) | `pmx_readl`, `pmx_writel` |
| Pinmux ops | part_002 224-397 | `func->groups` index, `gpio_conf[]` | `set_mux`, `gpio_request_enable` (= `gpio_save_config` + SFSEL clear), `gpio_disable_free` (= `gpio_restore_config`), function/group lookups |
| Pinconf ops | part_002 399-661 | registers | `tegra_pinconf_reg` (parameter → bank/reg/bit/width), `group_get`, `group_set`, per-pin get/set (always ENOTSUPP) |
| Probe | part_002 757-792, 860-961, 1838-1847 | `func->groups`, `ngroups` (static, kept across probes), `backup_regs`, `gpio_conf`, bank mappings | builds the function→groups index (may fail and be retried; the device may be unbound), allocates zeroed buffers, registers with the pinctrl core, clears parked bits |
| Suspend/resume | part_002 794-836 | `backup_regs` | noirq suspend copies every register, then `pinctrl_force_sleep`; resume writes the copy back |
| Tegra234 catalog | part_002 1189-1825 | constant | `PINGROUP`, `PIN_PINGROUP_ENTRY_Y/N`, `DRV_PINGROUP_ENTRY_Y/N` macros, ~200 rows, function table |
| DT map parsing, debugfs | part_002 69-222, 664-740 | none kept | parsing and formatting |
| Firmware inventory | `drivers/platform/tegra/firmwares-inventory.c` | `firmwares[10]` | module init/exit; `tegrafw_read_denver` and `tegrafw_read_trusty` callbacks |
| ADMAIF register map | `sound/soc/tegra/tegra210_admaif.h` | constant | register bases, stride, offsets, FIFO_CTRL reset values |
| Headers | part_000, part_001 | none | declarations only |

**How the parts interact.** The Linux pinctrl core calls the driver's
callbacks one at a time. It calls `set_mux` and `group_set` while applying
device-tree states, including the controller's own hog states during
`devm_pinctrl_register`. It calls `gpio_request_enable` and
`gpio_disable_free` when the GPIO driver takes or releases a pin.

The PM core calls `suspend_noirq` and `resume_noirq`. The sleep state
applied at suspend goes back through `group_set`.

All of these callbacks share one thing: the register file. Each group
reaches a parameter through the (bank, reg, bit, width) that
`tegra_pinconf_reg` derives from the catalog row. If two rows, or two
parameters, resolve to the same bits, they interfere.

**Hard behaviours.** These are listed in PROJECT.json under `hazards`:
- The pinmux ops are not strict, so `set_mux` can run on a pin the GPIO
  side holds.
- `gpio_free` writes back a whole saved register.
- `group_set` aborts on the first bad item, and a failing sleep state
  leaves partial writes behind.
- The shift by `sfsel_bit = -1` is undefined.
- Catalog fields that a macro leaves out default to 0 (C zero-fill), so
  they alias bit 0.
- Registers are addressed by bank, and the same offsets appear in
  different banks.
- Probe counts each function's groups into the static functions array,
  which nothing resets when probe runs again after a failure or an
  unbind. The `group_pins` buffer it fills is sized exactly for one
  attempt's entries. After a re-probe, `get_func_groups` hands the pinctrl
  core a slice that runs past the end of `group_pins`.
- `tegrafw_read_trusty` uses snprintf's untruncated return as a length.
  (`tegrafw_read_denver` has the same pattern, but its loop body is dead:
  see section 5.)
- Hog states are applied before the parked bits are cleared. On Tegra234
  no group has parked bits, so this cannot bite there.

## 2. Modules

- **`Tegra234Tables.tla`** — the catalog.
  - `PinGroup`, `PinEntryY`, `DrvEntryY` and `DrvEntryN` are the macros.
  - `ZeroGroup` supplies C's zero-fill of the members that a designated
    initializer does not name.
  - Five rows are included, each chosen for its shape:
    - `touch_clk_pcc4`: bank 1;
    - `dap4_sclk_pa4`: bank 0, at the same offsets as touch;
    - `extperiph2_clk_pp1`: register 0x0000 of bank 0;
    - `can0_dout_paa0`: drive fields at bits 28-31;
    - `qspi_comp`: no SFSEL, no pull, no drive register.
  - `T234Functions` is the function enum order.
- **`PinctrlTegra.tla`** — the driver.
  - **State:**
    - `regs` maps each reachable (bank, reg) to the set of its 1-bits;
    - `gpio_conf` holds the value saved per pin;
    - `backup_regs` is the suspend copy;
    - `gpioOwned` is the set of pins the core has granted to the GPIO side;
    - `probed` and `suspended` are flags;
    - `call` is an output record with the last callback's entry point,
      input, group, return code and value. No action reads `call`.
  - **Actions:** one per callback.
    - `Probe` is `tegra_pinctrl_probe` plus `clear_parked_bits`.
    - `SetMux` is `set_mux`.
    - `PinconfGroupSet` is `group_set`, through `SetLoop`/`SetOne`.
    - `PinconfGroupGet` is `group_get`.
    - `PinconfPinOp` is the per-pin ops.
    - `GpioRequestEnable` and `GpioRequestNoGroup` are `gpio_request_enable`
      together with the `gpio_save_config` it calls.
    - `GpioDisableFree` is `gpio_disable_free` together with
      `gpio_restore_config`.
    - `Suspend` is the copy plus a sleep state applied through `SetLoop`.
    - `Resume` is the write-back.
  - **Parameters:** `ConfRegTable` is the switch of `tegra_pinconf_reg`.
  - **Inputs:** `Next` takes them from the core's point of view.
    - `set_mux` receives only (function, group) pairs from `FunctionIndex`,
      which is the `func->groups` array that probe builds.
    - GPIO requests are for pins not already granted. The core refuses a
      second request itself.
- **`PinconfLogical.tla`** — the abstract specification: what the driver
  promises, with no registers.
  - Each group has logical fields: its supported parameters, `FUNCTION`,
    and `SFSEL`.
  - A write changes the named fields in order and stops at the first
    refusal.
  - A GPIO request saves the mux fields and sets `SFSEL` to GPIO. A free
    restores the mux fields.
  - Suspend snapshots the fields and resume restores them.
- **`FirmwaresInventory.tla`** — the firmware-inventory module.
  - **State:**
    - `firmwares` is the static array; a slot is NULL, or a device with
      `ok` TRUE or FALSE (FALSE: an error pointer was stored);
    - `registered` is the set of devices the tegrafw core holds;
    - `loaded` says whether the module is loaded;
    - `lastRead` is the last read callback: bytes touched, size, return.
  - **Actions:**
    - `TegraFirmwaresInit` is `tegra_firmwares_init`. Through `InitLoop`
      and `StoreAt` it makes each registration, guarded by
      `check_out_of_bounds`. Each registration either succeeds or stores
      an error pointer.
    - `TegraFirmwaresExit` is `tegra_firmwares_exit`, which unregisters
      every slot.
    - `ReadDenver` and `ReadTrusty` are the read callbacks. The core calls
      them only while the device is registered. `ReadDenver` always returns
      0 having written nothing: it reads the module's own
      `DEFINE_PER_CPU cpu_data` (line 42), which nothing writes, so
      `reg_midr` is 0 and the NVIDIA branch never runs.
  - The tegrafw core is not in the repository. The model assumes that
    unregistering a NULL or error pointer does nothing.
  - `snprintf` is modelled by what it does to lengths. For a string of
    length n it writes `min(n, size-1)` characters and a NUL, and returns
    n.
- **`AdmaifRegs.tla`** — the ADMAIF register header as tables.
  - `Layout`: the bases, channel count and LAST_REG of each SoC.
  - `ChannelRegs`, `GlobalRegs`: the register offsets.
  - The four FIFO_CTRL reset tables.
  - `FifoStart` and `FifoSizeM1` read a FIFO_CTRL value as bits 0-7 =
    window start and bits 8-11 = size minus one. This is the layout every
    value in the header follows; no code in `src/` decodes it.
  - The state is one choice of SoC, path, two channels and one offset.
    The properties are checked for every choice, with no steps taken.
- **`PinctrlProbe.tla`** — the function-to-groups loop of
  `tegra_pinctrl_probe` and the probe attempts that run it.
  - **State:**
    - `groups` is the group table, chosen at Init among the orders of a
      few real rows, then fixed;
    - `ngroups` and `groupsAt` are `functions[fn].ngroups` and
      `functions[fn].groups`. They live in the static
      `tegra234_functions[]`, so they survive from one attempt to the
      next;
    - `groupPins` is the `group_pins` buffer of the last attempt that ran
      the loop (0 is a NULL entry);
    - `bound`, `oops` (a BUG_ON fired) and `probes` (attempts so far).
  - **Operators:** `GroupLoop` and `FuncLoop` are the two loops,
    recursive over `gn` and `fn`. `ProbeLoop` is the `devm_kcalloc` and
    the loops. `FuncGroups(fn)` is `tegra_pinctrl_get_func_groups`: the
    `ngroups` entries from `func->groups`, with -1 for an entry past the
    buffer.
  - **Actions:**
    - `ProbeFailEarly`: an allocation fails before the loop;
    - `ProbeRun(ok)`: the loop runs, then probe returns 0 or the error
      of a later step (allocation, ioremap, `devm_pinctrl_register`);
    - `Unbind`: the driver core unbinds the device. The driver has no
      `.remove`, and devm frees `group_pins`.
  - The reference `GroupsNaming(fn)` is the table's mux groups whose
    `funcs[]` name `fn`, in table order.
- **`MC_PinctrlProbe.tla`** — five rows of the real table as the
  `Rows` the runs draw tables from.
- **`MC_Firmwares.tla`** — the model-checking instance of
  `FirmwaresInventory`; the constants are set in the cfgs.
- **`MC_Pinctrl.tla`** — the model-checking instance.
  - It defines the catalog subsets, GPIO pin sets and initial register
    values used by the runs.
  - `StateView` leaves out `call`. No action reads `call`, so two states
    that differ only in `call` have the same futures. The action
    properties compare `call'` within a single step, and TLC evaluates
    that step before it applies the view.

**Refinement.** `PinctrlTegra` declares
`Logical == INSTANCE PinconfLogical WITH conf <- DecodeAll(regs), ...`.
The mapping decodes each field from its register bits, the same way
`group_get` does. The catalog-dependent mapping tables (`FieldsOf`,
`MuxFieldsOf`, `OwnerOf`) are computed once.

## 3. Runs

| Run | Cfg | Checks | Shows |
|---|---|---|---|
| core | `MC_Pinctrl_core.cfg` | `TypeOK`, `RefinesLogical` | On touch_clk_pcc4 with PULL, FUNCTION and LOCK, args {1, 4}, lists of up to 2 items, two GPIO pins (one with no group), two initial register values and sleep states built from the same items: every callback sequence implements `PinconfLogical`. This covers set_mux on a GPIO-held pin, free after reconfiguration, and suspend with a failing sleep state. The GPIO side only ever holds pins that a single-pin group owns (`TypeOK`); pin 114 has no group. |
| banks | `MC_Pinctrl_banks.cfg` | `OtherGroupsKept` | touch (bank 1) and dap4 (bank 0) share offsets 0x2000/0x2004. No callback on one changes the other's decoded fields. |
| odrain | `MC_Pinctrl_odrain.cfg` | `ConfigKeepsFunction` (violation) | Setting OPEN_DRAIN rewrites the function field (finding 1). |
| padpower | `MC_Pinctrl_padpower.cfg` | `OtherGroupsKept` (violation) | Every group's PAD_POWER is bit 0 of 0x0000 in bank 0 (finding 2). |
| batch | `MC_Pinctrl_batch.cfg` | `BestEffortBatch` (violation) | `group_set` drops the items after the first refused one (finding 3). |
| sfsel | `MC_Pinctrl_sfsel.cfg` | `MuxWriteConfined` (violation) | `set_mux` on qspi_comp sets bit 31 (finding 4). |
| registry | `MC_Firmwares_registry.cfg` | `RegisteredTracked`, `AllListedRegistered` | With CONFIG_TRUSTY and every success/failure outcome of the 7 registrations, over load → read → unload → reload, every device the core holds sits in a slot, so exit unregisters it and nothing leaks across reloads. The 10-slot array never cuts the list short. |
| probe_index | `MC_PinctrlProbe_index.cfg` | `IndexExactOnFirstProbe`, `GroupPinsFit` | For every order of up to three of the five rows and up to two probe attempts: the first attempt that binds builds an index in which every function's slice is exactly the groups naming it, in table order, and the BUG_ON is never reached on any attempt. |
| reprobe | `MC_PinctrlProbe_reprobe.cfg` | `FuncGroupsExact` (violation) | A second attempt, after a probe that failed past the loop or after an unbind, doubles every `ngroups`. `get_func_groups` then reports other functions' groups and reads past `group_pins` (finding 5). |
| trusty | `MC_Firmwares_trusty.cfg` | `ReadReturnWithinBuffer` (violation) | `tegrafw_read_trusty` returns 4100 for a 4100-character version read into 4096 bytes (finding 6). |
| admaif_layout | `AdmaifRegs_layout.cfg` | `ChannelRegsInRegion`, `FifoWindowsDisjoint` | On Tegra210 and Tegra186 every channel register stays inside its region and below the next base. On Tegra186 the RX region ends exactly at TX_BASE. The FIFO_CTRL reset values give distinct channels disjoint FIFO windows, and each channel the same window on RX and TX. |

**Why the bounds are enough.**
- **Arguments.** 1 and 4 cover three cases: a value that fits a 1-bit or
  2-bit field, a value too wide for a 2-bit field, and a value that a
  1-bit field collapses with `!!`.
- **Batch length.** Lists of two items are enough to show abort-after-write.
- **Registers and pins.** Two initial register values (all zero, and bit
  10 = SFSEL set) let a GPIO request observe both SFSEL values. One
  GPIO pin has a group and one does not.
- **Groups.** Each property that relates groups has two groups whose
  registers collide or are neighbours.

- **Firmware runs.** The registry run has all 2^7 registration outcomes.
  The trusty lengths are a version string that fits the 4096-byte buffer
  and one that does not.
- **Probe runs.** Tables of up to three rows give 85 orders. Each row
  names four distinct functions, as all 199 rows of `tegra234_groups[]`
  do, so the buffer is exactly full, as on the real table. Two attempts
  are enough for the re-probe to double `ngroups`.
- **ADMAIF run.** It enumerates every channel pair and every offset of
  both SoCs, so it is exhaustive.

**Mutants.** Each passing property is broken by a plausible code bug,
listed in PROJECT.json:
- an off-by-one in the range check of `group_set`;
- a drive entry that forgets `.drv_bank`;
- a request that ignores the error from `gpio_save_config`;
- an exit loop that pre-increments `dev`;
- a `FIRMWARES_SIZE` of 6;
- a Tegra186 TX base typed one channel short;
- a FIFO_CTRL default typed as `0x20f`;
- a probe loop without the `gfn == 4` skip (every mux group appended to
  every function);
- a probe loop that sets `func->groups` after filling the function's
  entries.

## 4. Fairness and liveness

There is none. Every callback is synchronous: it runs to completion inside
one call from the pinctrl or PM core, and nothing in the driver waits for
or schedules anything else. A "must eventually happen" claim would
therefore be a claim about the callers, not this code. The specifications
are safety-only (`Init /\ [][Next]_vars`).

Deadlock checking stays on for the pinctrl and firmware runs. Once
probed, the device always accepts `group_get`, and after a suspend it
always accepts resume. The probe runs turn it off. After the last attempt
they allow, an unbound device stays unbound, and nothing in the driver
runs again until the driver core binds it.

## 5. Not modelled, and why

- **DT map parsing and debugfs.** These are parsing and formatting with
  no retained state. Their output is the set of (group, configs) inputs
  that the model already enumerates.
- **The hog window in probe.** Allocation and registration failures are
  modelled (`PinctrlProbe`). The register side of probe is one action of
  `PinctrlTegra`, and on Tegra234 `parked_bitmask` is 0 for every group, so
  `clear_parked_bits` writes nothing. The window is a real ordering hazard
  only on other SoCs.
- **The size of `gpio_conf`.** It is allocated in bytes and indexed by
  pin (hazard listed). The model does not carry device-tree resource
  sizes.
- **Firmware inventory.**
  - What the tegrafw core does with a read's return value is not
    modelled. The `trusty` run shows only that the return can exceed
    `size`.
  - What `tegrafw_unregister` does with NULL or error pointers is not
    modelled; the core is outside the repository.
  - The loop body of `tegrafw_read_denver` is dead code: it reads the
    module's own zeroed `cpu_data` rather than the arch's per-CPU data, so
    its snprintf calls are not modelled.
- **ADMAIF.**
  - The enums and the `struct tegra_admaif` members declare state of a
    driver (`tegra210_admaif.c`) that is not in `src/`.
  - The header still contains unresolved merge-conflict markers (lines
    5-9, 155-158, 165-183), so it does not compile as is. Which side of
    the conflict holds is not modelled.
- **The IVC and UFS headers.** They contain no behaviour.
- **LOCK semantics.** They are modelled, but `lock_bit` is -1 on
  Tegra234, so LOCK is always ENOTSUPP there.

## 6. Plan for later sittings

1. Split `Probe` into register-with-hogs, `clear_parked_bits` and the GPIO
   range. Add a SoC table variant with `parked_bitmask` set, and check
   that hogs survive.
2. Compose `PinctrlProbe`'s index with `PinctrlTegra`'s `SetMux` through a
   model of the pinctrl core's `match_string` lookup.
3. Add catalog rows with other shapes (`PIN_PINGROUP_ENTRY_N` rows,
   drive-only groups), and a run of `OtherGroupsKept` across three groups.
4. Add a property relating `backup_regs` to the state at resume across a
   failed suspend.
