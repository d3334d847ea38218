--------------------------- MODULE PinconfLogical ---------------------------
(***************************************************************************)
(* What the Tegra pin controller promises its callers, with no registers: *)
(* every pin group has a set of logical fields (its configurable          *)
(* parameters, the selected function FUNCTION and the GPIO/SFIO select    *)
(* SFSEL), each holding a small number.  A pinconf write changes exactly  *)
(* the fields it names, in order, and stops at the first one it refuses;  *)
(* a mux selection sets FUNCTION (and routes the pad to the function);    *)
(* a GPIO request saves the group's mux fields and routes the pad to      *)
(* GPIO, and the release puts them back; suspend snapshots the fields and *)
(* resume restores them.  PinctrlTegra implements this specification      *)
(* under the mapping that decodes each field from its register bits.     *)
(*                                                                         *)
(* call is what the caller sees of the last callback: which entry point   *)
(* ran and with which input (the first conjuncts of each action), for     *)
(* which group, and what it returned.                                      *)
(***************************************************************************)
EXTENDS Integers, Sequences

CONSTANTS
  Groups,       \* pin group indices
  Params,       \* parameter names a caller passes
  Args,         \* argument values a caller passes
  MaxBatch,     \* longest configs[] list
  GpioPins,     \* GPIO-range pins the GPIO side may request
  SleepStates,  \* <<>> or <<group, configs[] list>>
  MuxTargets,   \* <<group, function, slot>>: the selections the core may make
  InitConfs,    \* the field values the boot firmware may leave
  InitSnap,     \* the fields the zeroed suspend buffer holds
  InitSaved,    \* the fields the zeroed GPIO save buffer holds, per pin
  SfselInMux,   \* the GPIO/SFIO select is a mux-register field
  Fields(_),    \* the logical fields of a group
  Width(_, _),  \* a field's width in bits
  MuxFields(_), \* the fields a GPIO request saves (0: no group)
  PinOwner(_)   \* the group that owns a pin, 0 if none

VARIABLES conf, saved, snap, gpioOwned, probed, suspended, call

vars == <<conf, saved, snap, gpioOwned, probed, suspended, call>>

Batches == UNION {[1..n -> Params \X Args] : n \in 1..MaxBatch}
Result(op, gi, in, ret, val) == [op |-> op, grp |-> gi, in |-> in, ret |-> ret, val |-> val]
Not(a) == IF a = 0 THEN 1 ELSE 0
Active == probed /\ ~suspended

\* One configs[] item on the fields: refused when the group has no such
\* field, when it would clear a set lock, or when the value is too wide.
\* One-bit fields take any nonzero argument as 1; pad power is inverted.
ApplyOne(c, gi, e) ==
  LET p   == e[1]
      arg == IF p = "PAD_POWER" THEN Not(e[2]) ELSE e[2]
      v   == IF Width(gi, p) = 1 THEN Not(Not(arg)) ELSE arg
  IN IF p \notin Fields(gi) THEN [conf |-> c, ret |-> "ENOTSUPP"]
     ELSE IF p = "LOCK" /\ c[gi]["LOCK"] = 1 /\ arg = 0 THEN [conf |-> c, ret |-> "EINVAL"]
     ELSE IF v >= 2^Width(gi, p) THEN [conf |-> c, ret |-> "EINVAL"]
     ELSE [conf |-> [c EXCEPT ![gi][p] = v], ret |-> "OK"]

RECURSIVE ApplyList(_, _, _)
ApplyList(c, gi, cfgs) ==
  IF cfgs = <<>> THEN [conf |-> c, ret |-> "OK"]
  ELSE LET res == ApplyOne(c, gi, Head(cfgs))
       IN IF res.ret # "OK" THEN res ELSE ApplyList(res.conf, gi, Tail(cfgs))

Init ==
  /\ conf \in InitConfs
  /\ saved = InitSaved
  /\ snap = InitSnap
  /\ gpioOwned = {}
  /\ probed = FALSE
  /\ suspended = FALSE
  /\ call = Result("none", 0, <<>>, "OK", 0)

Probe ==
  /\ call'.op = "probe"
  /\ ~probed
  /\ probed' = TRUE
  /\ call' = Result("probe", 0, <<>>, "OK", 0)
  /\ UNCHANGED <<conf, saved, snap, gpioOwned, suspended>>

MuxSelect(gi, fn, slot) ==
  /\ call'.op = "set_mux" /\ call'.in = fn
  /\ Active
  /\ conf' = [conf EXCEPT ![gi] = [f \in DOMAIN @ |->
                 CASE f = "FUNCTION"               -> slot
                   [] f = "SFSEL" /\ SfselInMux    -> 1
                   [] OTHER                        -> @[f]]]
  /\ call' = Result("set_mux", gi, fn, "OK", 0)
  /\ UNCHANGED <<saved, snap, gpioOwned, probed, suspended>>

ConfigSet(gi, cfgs) ==
  LET res == ApplyList(conf, gi, cfgs)
  IN /\ call'.op = "group_set" /\ call'.in = cfgs
     /\ Active
     /\ conf' = res.conf
     /\ call' = Result("group_set", gi, cfgs, res.ret, 0)
     /\ UNCHANGED <<saved, snap, gpioOwned, probed, suspended>>

ConfigGet(gi, p) ==
  /\ call'.op = "group_get" /\ call'.in = p
  /\ Active
  /\ call' = IF p \in Fields(gi) THEN Result("group_get", gi, p, "OK", conf[gi][p])
                                 ELSE Result("group_get", gi, p, "ENOTSUPP", 0)
  /\ UNCHANGED <<conf, saved, snap, gpioOwned, probed, suspended>>

PinConfig ==
  /\ call'.op = "pin_config"
  /\ Active
  /\ call' = Result("pin_config", 0, <<>>, "ENOTSUPP", 0)
  /\ UNCHANGED <<conf, saved, snap, gpioOwned, probed, suspended>>

\* A request saves the group's mux fields and routes the pad to GPIO; it
\* is refused when no group owns the pin or the group has no SFSEL field.
GpioRequest(pin) ==
  LET gi == PinOwner(pin)
      ok == gi # 0 /\ (~SfselInMux \/ "SFSEL" \in Fields(gi))
  IN /\ call'.op = "gpio_request" /\ call'.in = pin
     /\ Active
     /\ pin \in GpioPins \ gpioOwned
     /\ saved' = IF gi = 0 THEN saved
                 ELSE [saved EXCEPT ![pin] = [f \in MuxFields(gi) |-> conf[gi][f]]]
     /\ conf' = IF ok /\ SfselInMux THEN [conf EXCEPT ![gi]["SFSEL"] = 0] ELSE conf
     /\ gpioOwned' = IF ok THEN gpioOwned \cup {pin} ELSE gpioOwned
     /\ call' = Result("gpio_request", gi, pin, IF ok THEN "OK" ELSE "EINVAL", 0)
     /\ UNCHANGED <<snap, probed, suspended>>

GpioFree(pin) ==
  LET gi == PinOwner(pin)
  IN /\ call'.op = "gpio_free" /\ call'.in = pin
     /\ Active
     /\ pin \in gpioOwned
     /\ conf' = [conf EXCEPT ![gi] = [f \in DOMAIN @ |->
                   IF f \in MuxFields(gi) THEN saved[pin][f] ELSE @[f]]]
     /\ gpioOwned' = gpioOwned \ {pin}
     /\ call' = Result("gpio_free", gi, pin, "OK", 0)
     /\ UNCHANGED <<saved, snap, probed, suspended>>

Suspend ==
  /\ call'.op = "suspend"
  /\ Active
  /\ snap' = conf
  /\ \E s \in SleepStates :
       LET res == IF s = <<>> THEN [conf |-> conf, ret |-> "OK"]
                  ELSE ApplyList(conf, s[1], s[2])
       IN /\ conf' = res.conf
          /\ suspended' = (res.ret = "OK")
          /\ call' = Result("suspend", 0, s, res.ret, 0)
  /\ UNCHANGED <<saved, gpioOwned, probed>>

Resume ==
  /\ call'.op = "resume"
  /\ suspended
  /\ conf' = snap
  /\ suspended' = FALSE
  /\ call' = Result("resume", 0, <<>>, "OK", 0)
  /\ UNCHANGED <<saved, snap, gpioOwned, probed>>

Next ==
  \/ Probe
  \/ \E t \in MuxTargets : MuxSelect(t[1], t[2], t[3])
  \/ \E gi \in Groups, cfgs \in Batches : ConfigSet(gi, cfgs)
  \/ \E gi \in Groups, p \in Params : ConfigGet(gi, p)
  \/ PinConfig
  \/ \E pin \in GpioPins : GpioRequest(pin) \/ GpioFree(pin)
  \/ Suspend
  \/ Resume

Spec == Init /\ [][Next]_vars
=============================================================================
