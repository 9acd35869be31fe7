------------------------------ MODULE MCParts ------------------------------
(***************************************************************************)
(* Small instances of the components that stand alone: in every behaviour  *)
(* one of them moves, the others keep their initial state.                 *)
(***************************************************************************)
EXTENDS MCCronSchedule, Rates, CronTimers, Hwmon, NvidiaVram, Startup, EnrollCommand,
        Uninstall, Containers

VARIABLE part   \* the component that moves

vars == <<part, ratesVars, cronVars, timerVars, hwmonVars, vramVars, startupVars,
          enrollVars, uninstallVars, containerVars>>

Only(name) ==
    /\ part = name /\ UNCHANGED part
    /\ name # "rates"     => UNCHANGED ratesVars
    /\ name # "schedule"  => UNCHANGED cronVars
    /\ name # "timers"    => UNCHANGED timerVars
    /\ name # "hwmon"     => UNCHANGED hwmonVars
    /\ name # "vram"      => UNCHANGED vramVars
    /\ name # "startup"   => UNCHANGED startupVars
    /\ name # "enroll"    => UNCHANGED enrollVars
    /\ name # "uninstall" => UNCHANGED uninstallVars
    /\ name # "docker"    => UNCHANGED containerVars

PartsInit ==
    /\ part \in {"rates", "schedule", "timers", "hwmon", "vram", "startup", "enroll",
                 "uninstall", "docker"}
    /\ RatesInit /\ CronInit /\ TimersInit /\ HwmonInit /\ VramInit /\ StartupInit
    /\ EnrollInit /\ UninstallInit /\ ContainersInit

PartsNext ==
    \/ RatesNext     /\ Only("rates")
    \/ CronNext      /\ Only("schedule")
    \/ TimersNext    /\ Only("timers")
    \/ HwmonNext     /\ Only("hwmon")
    \/ VramNext      /\ Only("vram")
    \/ StartupNext   /\ Only("startup")
    \/ EnrollNext    /\ Only("enroll")
    \/ UninstallNext /\ Only("uninstall")
    \/ ContainersNext /\ Only("docker")

PartsSpec == PartsInit /\ [][PartsNext]_vars

-----------------------------------------------------------------------------
\* Chips, cards and modules

NvmeTwiceAndCard == [c \in Chips |-> IF c = "card" THEN "amdgpu" ELSE "nvme"]
PowerOnCard      == [c \in Chips |-> IF c = "card" THEN {"power1", "pwm1"} ELSE {"temp1"}]

BusByIndex == [g \in Cards |-> g + 1]
AllOrNone  == {{}, Cards}

NetAndPlugin == <<"net", "plugin">>
=============================================================================
