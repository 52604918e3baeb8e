------------------------------- MODULE Uptime -------------------------------
(***************************************************************************)
(* The tick count: pit_callback adds one to 64 bits, and cmd_uptime, with  *)
(* interrupts on, reads them half by half.  The C code reads the count     *)
(* twice, for the seconds and for the rest; the compiler may make one of   *)
(* the two, and may load the halves in either order.                       *)
(***************************************************************************)
EXTENDS Integers, Sequences

CONSTANTS
  LowHalves, HighHalves,   \* how many values each half has, 2^32
  TicksPerSecond           \* 1000

ASSUME UptimeAssumption ==
  /\ LowHalves \in Nat \ {0} /\ HighHalves \in Nat \ {0}
  /\ TicksPerSecond \in Nat \ {0}

VARIABLES
  ticks,    \* pit_ticks
  loads,    \* the halves cmd_uptime has loaded
  began,    \* history: the count when it was called, or -1
  carried   \* history: since then the low half went round

clock == <<ticks, loads, began, carried>>

ClockInit == ticks = 0 /\ loads = <<>> /\ began = -1 /\ carried = FALSE

pit_callback ==
  /\ ticks' = (ticks + 1) % (LowHalves * HighHalves)
  /\ carried' = (carried \/ (began # -1 /\ ticks' % LowHalves = 0))
  /\ UNCHANGED <<loads, began>>

Half(name) == [half |-> name, value |-> IF name = "low" THEN ticks % LowHalves ELSE ticks \div LowHalves]

BeginUptime ==
  /\ loads' = <<>> /\ began' = ticks /\ carried' = FALSE
  /\ UNCHANGED ticks

\* The two halves of one reading differ.
LoadHalf ==
  /\ Len(loads) < 4
  /\ \E name \in {"low", "high"} :
       /\ Len(loads) % 2 = 1 => name # loads[Len(loads)].half
       /\ loads' = Append(loads, Half(name))
  /\ UNCHANGED <<ticks, began, carried>>

\* A reading is two loads; the second may be the first again.
Complete == Len(loads) \in {2, 4}
Reading(i) ==
  LET loaded(name) == loads[CHOOSE k \in {i, i + 1} : loads[k].half = name].value
  IN loaded("high") * LowHalves + loaded("low")
First == Reading(1)
Second == Reading(Len(loads) - 1)

\* Wrong variant: the seconds and the rest come from different readings.
Swapped == (Second \div TicksPerSecond) * TicksPerSecond + (First % TicksPerSecond)
\* The time shown: whole seconds of the first reading, the rest of the second.
Shown == (First \div TicksPerSecond) * TicksPerSecond + (Second % TicksPerSecond)

\* The time is gone when it has been shown.
EndUptime ==
  /\ Complete
  /\ loads' = <<>> /\ began' = -1 /\ carried' = FALSE
  /\ UNCHANGED ticks

\* The command, from its call to its return.
cmd_uptime ==
  \/ began = -1 /\ BeginUptime
  \/ began # -1 /\ (LoadHalf \/ EndUptime)

UptimeSpec == ClockInit /\ [][pit_callback \/ cmd_uptime]_clock

\* The uptime shown is never ahead of the clock.  It is behind the time of the
\* call only when the count is read twice, and then by less than a second.
\* Only a carry between the halves, every 49 days, makes it wrong.
UptimeNear ==
  Complete /\ ~carried =>
    /\ Shown <= ticks
    /\ Shown >= began - (IF Len(loads) = 2 THEN 0 ELSE TicksPerSecond - 1)

=============================================================================
