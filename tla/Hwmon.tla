------------------------------- MODULE Hwmon -------------------------------
(***************************************************************************)
(* HwmonCollector (collectors/sensors_hwmon.py): one pass lists the chips, *)
(* then reads them one directory after the other, while chips come and go. *)
(* What the ids that it gives out denote is the question: docs/PAYLOAD.md  *)
(* has the id of a sensor as its join key.                                 *)
(*                                                                         *)
(* A directory is its place in the sorted listing (hwmon10 is before       *)
(* hwmon2); the kernel puts a chip where it likes.  Labels, kinds and      *)
(* values are left out; a value that cannot be read or is out of range     *)
(* makes its file unusable in that pass.                                   *)
(***************************************************************************)
EXTENDS Integers, FiniteSetsExt

CONSTANTS Directories,  \* places in the sorted listing of /sys/class/hwmon
          Chips,
          Driver,       \* [Chips -> what the name file says]
          Rails         \* [Chips -> sets of "temp1", "fan1", "in0", "power1", "curr1", "pwm1"]

ASSUME HwmonAssumption == Directories \subseteq Nat

VARIABLES slots,   \* the chip in each directory that exists
          reading, \* whether a pass is going on
          todo,    \* the directories it has yet to read
          seen,    \* driver_seen
          found,   \* the sensors of the pass
          sent,    \* what the last pass returned
          calm     \* passes begun since a chip came or went

hwmonVars == <<slots, reading, todo, seen, found, sent, calm>>

NoChips == [d \in {} |-> 0]

HwmonInit ==
    /\ slots = NoChips /\ reading = FALSE /\ todo = {} /\ seen = [k \in {} |-> 0]
    /\ found = {} /\ sent = {} /\ calm = 0

ListRoot ==
    /\ ~reading /\ reading' = TRUE
    /\ todo' = DOMAIN slots /\ calm' = Min({calm + 1, 2})
    /\ UNCHANGED <<slots, seen, found, sent>>

\* The files of a chip that hold a value; a power rail has a twin.
Files(chip) ==
    [rail : Rails[chip] \ {"power1"}, twin : {"input"}]
        \cup [rail : Rails[chip] \cap {"power1"}, twin : {"average", "input"}]

Sensor(chip, id, file) == [chip |-> chip, id |-> <<id, file.rail>>, twin |-> file.twin]

Named(chip, id, usable, rails) ==
    {Sensor(chip, id, f) : f \in {g \in usable : g.rail \in rails}}

\* _temp_sensors, _fan_sensors and _volt_sensors: each takes its own rails.
MonitorSensors(chip, id, usable) == Named(chip, id, usable, {"temp1", "fan1", "in0"})

\* _curr_sensors and _pwm_sensors.
DriveSensors(chip, id, usable) == Named(chip, id, usable, {"curr1", "pwm1"})

\* Mutant: both twins of a power rail are taken.
PowerSensorsBoth(chip, id, usable) == Named(chip, id, usable, {"power1"})

\* _power_sensors: power1_average comes first in the listing, power1_input is
\* taken if there is no average that can be used.
PowerSensors(chip, id, usable) ==
    {Sensor(chip, id, f) :
        f \in {g \in usable : /\ g.rail = "power1"
                              /\ g.twin = "input" =>
                                    [rail |-> "power1", twin |-> "average"] \notin usable}}

\* One directory; the occurrence of its driver is part of the id.
Read(d) ==
    /\ LET chip   == slots[d]
           driver == Driver[chip]
           count  == IF driver \in DOMAIN seen THEN seen[driver] ELSE 0
       IN  /\ seen' = [k \in DOMAIN seen \cup {driver} |->
                          IF k = driver THEN count + 1 ELSE seen[k]]
           /\ \E usable \in SUBSET Files(chip) :
                 found' = found \cup MonitorSensors(chip, <<driver, count>>, usable)
                                \cup PowerSensors(chip, <<driver, count>>, usable)
                                \cup DriveSensors(chip, <<driver, count>>, usable)
    /\ todo' = todo \ {d}
    /\ UNCHANGED <<slots, reading, sent, calm>>

\* Mutant: the listing is not sorted.
ScanUnsorted == reading /\ \E d \in todo : d \in DOMAIN slots /\ Read(d)

Scan == reading /\ todo # {} /\ Min(todo) \in DOMAIN slots /\ Read(Min(todo))

\* What a pass has at hand is gone with it.
Leave == reading' = FALSE /\ todo' = {} /\ found' = {} /\ seen' = [k \in {} |-> 0]

\* A directory that is gone cannot be listed: the whole collector fails.
ScanFails ==
    /\ reading /\ todo # {} /\ Min(todo) \notin DOMAIN slots
    /\ Leave /\ UNCHANGED <<slots, sent, calm>>

Return ==
    /\ reading /\ todo = {}
    /\ Leave /\ sent' = found /\ UNCHANGED <<slots, calm>>

Appear(chip, d) ==
    /\ d \notin DOMAIN slots /\ \A e \in DOMAIN slots : slots[e] # chip
    /\ slots' = [e \in DOMAIN slots \cup {d} |-> IF e = d THEN chip ELSE slots[e]]
    /\ calm' = 0 /\ UNCHANGED <<reading, todo, seen, found, sent>>

Disappear(d) ==
    /\ d \in DOMAIN slots
    /\ slots' = [e \in DOMAIN slots \ {d} |-> slots[e]]
    /\ calm' = 0 /\ UNCHANGED <<reading, todo, seen, found, sent>>

HwmonNext ==
    \/ ListRoot \/ Scan \/ ScanFails \/ Return
    \/ \E d \in Directories : Disappear(d) \/ \E chip \in Chips : Appear(chip, d)

HwmonSpec == HwmonInit /\ [][HwmonNext]_hwmonVars

-----------------------------------------------------------------------------
\* Properties

\* No two sensors of one payload share the id the backend joins them by
\* (docs/PAYLOAD.md:132), whatever comes, goes or cannot be read while the pass
\* is going on: not several chips of one driver, and not the two files of one
\* power rail (sensors_hwmon.py 167-168, 258-263).
UniqueIds == \A s, t \in found : s.id = t.id => s = t

\* An id denotes the same chip in two passes in a row, between whose beginnings
\* and ends no chip came or went, although every pass numbers the chips anew
\* (sensors_hwmon.py 254-263).
StableIds ==
    [][ (reading /\ ~reading' /\ calm = 2 /\ todo = {}) =>
            \A s \in sent, t \in sent' : s.id = t.id => s.chip = t.chip ]_hwmonVars
=============================================================================
