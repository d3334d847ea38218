---------------------------- MODULE PinctrlProbe ----------------------------
(***************************************************************************)
(* The function-to-groups index that tegra_pinctrl_probe builds            *)
(* (src/unnamed/part_002), and the probe attempts that build it.  For     *)
(* each function in enum order probe points func->groups at the next free *)
(* entry of a fresh group_pins buffer of ngroups * 4 entries, appends     *)
(* every mux group whose funcs[] names the function and counts it in      *)
(* func->ngroups.  The functions array (tegra234_functions[]) is static   *)
(* and outlives the device: nothing resets ngroups between attempts.      *)
(* tegra_pinctrl_get_func_groups hands the pinctrl core the slice of      *)
(* ngroups entries at func->groups.                                        *)
(*                                                                         *)
(* A probe may fail before the loop (an allocation of pmx or group_pins),  *)
(* or after it (the regs, backup_regs or gpio_conf allocation, an ioremap, *)
(* devm_pinctrl_register); the driver core may probe again (deferred or   *)
(* manual bind) and may unbind a bound device (the driver has no .remove   *)
(* and does not suppress the bind attributes).  devm frees group_pins on  *)
(* failure or unbind.                                                      *)
(*                                                                         *)
(* The group table is a variable fixed at Init: one order of a few rows   *)
(* of the real table, so the loop is checked over several inputs.          *)
(***************************************************************************)
EXTENDS Integers, Sequences, Functions

CONSTANTS
  Rows,       \* rows of tegra234_groups[] the table may be built from
  MaxGroups,  \* the most rows in one table
  Functions,  \* the function names, in enum tegra_mux_dt order
  MaxProbes   \* the most probe attempts

VARIABLES
  groups,     \* soc_data->groups: the table, fixed
  ngroups,    \* functions[fn].ngroups (static)
  groupsAt,   \* functions[fn].groups: an index into group_pins (static)
  groupPins,  \* pmx->group_pins of the last probe that ran the loop; 0 = NULL
  bound,      \* the last probe returned 0 and the device is not unbound
  oops,       \* a BUG_ON fired
  probes      \* probe attempts so far

vars == <<groups, ngroups, groupsAt, groupPins, bound, oops, probes>>

FnIds == 1..Len(Functions)

\* g->funcs[gfn] == fn for some gfn < 4 (the loop's break and gfn == 4 test).
Names(g, fn) == \E gfn \in 1..4 : g.funcs[gfn] = Functions[fn]

-----------------------------------------------------------------------------
(* The loops of tegra_pinctrl_probe.  st holds group_pins, the write      *)
(* index (group_pins - pmx->group_pins), the static array and the oops.   *)

\* An inner loop without the `if (gfn == 4) continue`: every mux group is
\* appended to every function.
RECURSIVE GroupLoopNoSkip(_, _, _)
GroupLoopNoSkip(st, fn, gn) ==
  IF gn > Len(groups) \/ st.oops THEN st
  ELSE IF groups[gn].mux_reg = -1 THEN GroupLoopNoSkip(st, fn, gn + 1)
  ELSE IF st.next >= Len(groups) * 4 THEN [st EXCEPT !.oops = TRUE]
  ELSE GroupLoopNoSkip([st EXCEPT !.pins[st.next + 1] = gn, !.next = @ + 1,
                                  !.ngroups[fn] = @ + 1], fn, gn + 1)

\* for (gn = ...): skip groups without a mux register and groups whose
\* funcs[] do not name fn; BUG_ON when the buffer is full; else append.
RECURSIVE GroupLoop(_, _, _)
GroupLoop(st, fn, gn) ==
  IF gn > Len(groups) \/ st.oops THEN st
  ELSE IF groups[gn].mux_reg = -1 \/ ~Names(groups[gn], fn) THEN GroupLoop(st, fn, gn + 1)
  ELSE IF st.next >= Len(groups) * 4 THEN [st EXCEPT !.oops = TRUE]
  ELSE GroupLoop([st EXCEPT !.pins[st.next + 1] = gn, !.next = @ + 1,
                            !.ngroups[fn] = @ + 1], fn, gn + 1)

\* A function loop that sets func->groups after filling the function's
\* entries instead of before.
RECURSIVE FuncLoopLateStart(_, _)
FuncLoopLateStart(st, fn) ==
  IF fn > Len(Functions) THEN st
  ELSE LET done == GroupLoop(st, fn, 1)
       IN FuncLoopLateStart([done EXCEPT !.groupsAt[fn] = done.next], fn + 1)

\* for (fn = ...): func->groups = group_pins, then the inner loop.
RECURSIVE FuncLoop(_, _)
FuncLoop(st, fn) ==
  IF fn > Len(Functions) THEN st
  ELSE FuncLoop(GroupLoop([st EXCEPT !.groupsAt[fn] = st.next], fn, 1), fn + 1)

\* devm_kcalloc(ngroups * 4) and the loops, from the static array as the
\* last attempt left it.
ProbeLoop ==
  FuncLoop([pins |-> [i \in 1..(Len(groups) * 4) |-> 0], next |-> 0,
            ngroups |-> ngroups, groupsAt |-> groupsAt, oops |-> FALSE], 1)

\* tegra_pinctrl_get_func_groups: the ngroups entries from func->groups;
\* -1 stands for an entry past the end of group_pins.
FuncGroups(fn) ==
  [i \in 1..ngroups[fn] |->
     IF groupsAt[fn] + i =< Len(groupPins) THEN groupPins[groupsAt[fn] + i] ELSE -1]

-----------------------------------------------------------------------------
(* Actions.                                                                *)

Init ==
  /\ groups \in UNION {Injection(1..n, Rows) : n \in 1..MaxGroups}
  /\ ngroups = [fn \in FnIds |-> 0]
  /\ groupsAt = [fn \in FnIds |-> 0]
  /\ groupPins = <<>>
  /\ bound = FALSE
  /\ oops = FALSE
  /\ probes = 0

CanProbe == ~bound /\ ~oops /\ probes < MaxProbes

\* tegra_pinctrl_probe returns -ENOMEM before the loop (pmx or group_pins).
ProbeFailEarly ==
  /\ CanProbe
  /\ probes' = probes + 1
  /\ UNCHANGED <<groups, ngroups, groupsAt, groupPins, bound, oops>>

\* tegra_pinctrl_probe runs the loop, then returns 0 (ok) or the error of
\* a later step (not ok).
ProbeRun(ok) ==
  /\ CanProbe
  /\ probes' = probes + 1
  /\ LET st == ProbeLoop
     IN /\ groupPins' = st.pins
        /\ ngroups' = st.ngroups
        /\ groupsAt' = st.groupsAt
        /\ oops' = st.oops
        /\ bound' = (ok /\ ~st.oops)
  /\ UNCHANGED <<groups>>

\* The driver core unbinds the device: no .remove, devm frees group_pins.
Unbind ==
  /\ bound
  /\ bound' = FALSE
  /\ UNCHANGED <<groups, ngroups, groupsAt, groupPins, oops, probes>>

Next ==
  \/ ProbeFailEarly
  \/ \E ok \in BOOLEAN : ProbeRun(ok)
  \/ Unbind

Spec == Init /\ [][Next]_vars

-----------------------------------------------------------------------------
(* Properties.                                                             *)

\* The reference: the table's mux groups whose funcs[] name fn, in table
\* order.
GroupsNaming(fn) ==
  SelectSeq([gn \in 1..Len(groups) |-> gn],
            LAMBDA gn : groups[gn].mux_reg # -1 /\ Names(groups[gn], fn))

\* While the device is bound, tegra_pinctrl_get_func_groups gives the
\* pinctrl core, for every function, exactly the groups that can be muxed
\* to it, in table order, and nothing read past group_pins.
FuncGroupsExact ==
  bound => \A fn \in FnIds : FuncGroups(fn) = GroupsNaming(fn)

\* After the first probe attempt, tegra_pinctrl_get_func_groups gives the
\* pinctrl core, for every function, exactly the groups that can be
\* muxed to it, in table order.
IndexExactOnFirstProbe ==
  (bound /\ probes = 1) => \A fn \in FnIds : FuncGroups(fn) = GroupsNaming(fn)

\* The BUG_ON of the probe loop never fires: ngroups * 4 entries hold
\* every (group, function) pair the loop appends.
GroupPinsFit == ~oops
=============================================================================
