------------------------- MODULE FirmwaresInventory -------------------------
(***************************************************************************)
(* drivers/platform/tegra/firmwares-inventory.c: module init registers    *)
(* the MTS (Denver) firmware, the trusty firmware when CONFIG_TRUSTY, and *)
(* five device-tree version strings with the tegrafw core, keeping each   *)
(* returned pointer in the static array firmwares[FIRMWARES_SIZE]; module *)
(* exit hands every slot of the array to tegrafw_unregister.  While a     *)
(* device is registered the core may call its read callback, which        *)
(* formats into the caller's buffer with snprintf.                        *)
(*                                                                         *)
(* The tegrafw core is not in this repository: a registration returns a   *)
(* device or an error pointer (both are stored), and unregistering a      *)
(* NULL or error pointer is taken to do nothing.  Strings are abstracted  *)
(* to their lengths: snprintf(buf, size, ...) of a string of length n     *)
(* writes min(n, size - 1) characters and a NUL (nothing when size is 0)  *)
(* and returns n.                                                          *)
(***************************************************************************)
EXTENDS Integers, Sequences, FiniteSets

CONSTANTS
  TRUSTY,      \* IS_ENABLED(CONFIG_TRUSTY)
  BufSizes,    \* the size argument the tegrafw core passes to a read
  TrustyLens   \* lengths of trusty_version_str_get()

ASSUME TRUSTY \in BOOLEAN
ASSUME BufSizes \subseteq Nat

VARIABLES
  firmwares,   \* the static array: a slot is NULL, a device or an error
  registered,  \* devices the tegrafw core holds
  loaded,      \* the module is loaded (module_init has run)
  lastRead     \* the last read callback: bytes touched, buffer size, return

vars == <<firmwares, registered, loaded, lastRead>>

Min2(a, b) == IF a =< b THEN a ELSE b

NULL == [fw |-> "none", ok |-> FALSE]
Slot(name, ok) == [fw |-> name, ok |-> ok]

\* A FIRMWARES_SIZE that leaves no room for trusty.
FIRMWARES_SIZE_Small == 6

\* #define FIRMWARES_SIZE 10
FIRMWARES_SIZE == 10

\* The versions[] of tegra_firmwares_init, and every registration it makes
\* in order.
Versions == <<"mb1", "mb2", "mb1-bct", "qb", "osl">>
Registrations == <<"MTS">> \o (IF TRUSTY THEN <<"trusty">> ELSE <<>>) \o Versions

\* The firmwares init names.
Listed == {Registrations[k] : k \in 1..Len(Registrations)}

NoRead == [touched |-> 0, size |-> 0, ret |-> 0]

-----------------------------------------------------------------------------
(* tegra_firmwares_init: one registration stored through dev.  st is the   *)
(* array, the index dev points at, and the devices the core holds.        *)

\* *dev++ = tegrafw_register(...): the core holds the device when the
\* registration succeeds; the pointer (device or error) is stored.
StoreAt(st, name, ok) ==
  [slots |-> [st.slots EXCEPT ![st.dev] = Slot(name, ok)],
   dev   |-> st.dev + 1,
   regd  |-> IF ok THEN st.regd \cup {name} ELSE st.regd]

\* The registrations from the k-th on; check_out_of_bounds returns 0 from
\* init as soon as dev has reached the end of the array.
RECURSIVE InitLoop(_, _, _)
InitLoop(st, k, outcome) ==
  IF k > Len(Registrations) \/ st.dev >= FIRMWARES_SIZE THEN st
  ELSE InitLoop(StoreAt(st, Registrations[k], outcome[k]), k + 1, outcome)

\* module_init on a freshly loaded image (the static array is zero).  The
\* core keeps whatever an earlier load left registered.
TegraFirmwaresInit ==
  /\ ~loaded
  /\ \E outcome \in [1..Len(Registrations) -> BOOLEAN] :
       LET st == InitLoop([slots |-> [i \in 0..(FIRMWARES_SIZE - 1) |-> NULL],
                           dev |-> 0, regd |-> registered], 1, outcome)
       IN /\ firmwares' = st.slots
          /\ registered' = st.regd
  /\ loaded' = TRUE
  /\ UNCHANGED lastRead

\* An exit loop that pre-increments dev (tegrafw_unregister(*++dev)) and
\* so never unregisters slot 0.
TegraFirmwaresExitSkipFirst ==
  /\ loaded
  /\ registered' = registered \ {firmwares[i].fw : i \in {j \in 1..(FIRMWARES_SIZE - 1) : firmwares[j].ok}}
  /\ loaded' = FALSE
  /\ UNCHANGED <<firmwares, lastRead>>

\* tegra_firmwares_exit: tegrafw_unregister of every slot, NULL and error
\* pointers included.
TegraFirmwaresExit ==
  /\ loaded
  /\ registered' = registered \ {firmwares[i].fw : i \in {j \in DOMAIN firmwares : firmwares[j].ok}}
  /\ loaded' = FALSE
  /\ UNCHANGED <<firmwares, lastRead>>

-----------------------------------------------------------------------------
(* The read callbacks.                                                     *)

\* snprintf into a buffer of size bytes at offset off: the bytes touched
\* end at the returned offset; the result is the full length n.
SnprintfEnd(off, size, n) == IF size = 0 THEN off ELSE off + Min2(n, size - 1) + 1

Registered(name) ==
  /\ loaded
  /\ name \in registered
  /\ \E i \in DOMAIN firmwares : firmwares[i] = Slot(name, TRUE)

\* tegrafw_read_denver(dev, version, size).  for_each_online_cpu reads
\* the module's own DEFINE_PER_CPU cpu_data (line 42), which nothing
\* writes: reg_midr is 0, MIDR_IMPLEMENTOR is never ARM_CPU_IMP_NVIDIA,
\* so no snprintf runs and v - version is 0, whatever the CPUs are.
ReadDenver(size) ==
  /\ Registered("MTS")
  /\ lastRead' = [touched |-> 0, size |-> size, ret |-> 0]
  /\ UNCHANGED <<firmwares, registered, loaded>>

\* tegrafw_read_trusty(dev, data, size): the version string of the first
\* trusty device found, or "NULL" and 0 when there is none.
ReadTrusty(size) ==
  /\ TRUSTY
  /\ Registered("trusty")
  /\ \/ \E n \in TrustyLens :
          lastRead' = [touched |-> SnprintfEnd(0, size, n), size |-> size, ret |-> n]
     \/ lastRead' = [touched |-> SnprintfEnd(0, size, 4), size |-> size, ret |-> 0]
  /\ UNCHANGED <<firmwares, registered, loaded>>

Init ==
  /\ firmwares = [i \in 0..(FIRMWARES_SIZE - 1) |-> NULL]
  /\ registered = {}
  /\ loaded = FALSE
  /\ lastRead = NoRead

Next ==
  \/ TegraFirmwaresInit
  \/ TegraFirmwaresExit
  \/ \E s \in BufSizes : ReadDenver(s) \/ ReadTrusty(s)

Spec == Init /\ [][Next]_vars

-----------------------------------------------------------------------------
(* Properties.                                                             *)

TypeOK ==
  /\ firmwares \in [0..(FIRMWARES_SIZE - 1) ->
                      {NULL} \cup [fw : Listed, ok : BOOLEAN]]
  /\ registered \subseteq Listed
  /\ loaded \in BOOLEAN
  /\ lastRead.touched \in Nat

\* Every device the tegrafw core holds while the module is loaded sits in
\* a slot of firmwares[], so tegra_firmwares_exit unregisters it; and
\* after an unload the core holds nothing of the module's.
RegisteredTracked ==
  IF loaded THEN \A d \in registered : \E i \in DOMAIN firmwares : firmwares[i] = Slot(d, TRUE)
  ELSE registered = {}

\* tegra_firmwares_init attempts every firmware it lists (MTS, trusty
\* when configured, the five version strings): check_out_of_bounds never
\* cuts the list short, because firmwares[] is large enough.
AllListedRegistered ==
  loaded => \A k \in 1..Len(Registrations) :
              \E i \in DOMAIN firmwares : firmwares[i].fw = Registrations[k]

\* A read callback returns the number of bytes it left in the caller's
\* buffer, which is less than size: the count the tegrafw core, like a
\* sysfs show(), takes as the length of the text it got (snprintf's
\* untruncated return breaks this, where scnprintf would not).
ReadReturnWithinBuffer == lastRead.size > 0 => lastRead.ret < lastRead.size
=============================================================================
