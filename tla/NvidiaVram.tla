----------------------------- MODULE NvidiaVram -----------------------------
(***************************************************************************)
(* The VRAM temperatures of NvidiaGpuCollector (collectors/gpu_nvidia.py). *)
(* NVML tells them for some cards; for the others the external tool gddr6  *)
(* is run once per pass, and what it prints is matched to NVML's devices.  *)
(*                                                                         *)
(* NVML and the tool are external.  A temperature is represented by the    *)
(* card it was measured on; a card is its NVML index.                      *)
(***************************************************************************)
EXTENDS Integers, SequencesExt

CONSTANTS Gpus,      \* how many devices NVML counts
          Bus,       \* [0 .. Gpus - 1 -> PCI bus numbers]
          BusTold,   \* what may be the set of cards whose bus NVML tells
          NoCard     \* no temperature, no bus

Cards == 0 .. Gpus - 1

ASSUME VramAssumption == Gpus \in Nat \ {0} /\ NoCard \notin Cards

VARIABLES usable,   \* the cards whose memory the sensors tell within 1 .. 150
          byNvml,   \* the cards whose memory NVML tells
          lost,     \* the cards that NVML counts and has no handle for
          busKnown, \* the cards whose bus NVML tells
          listed,   \* the cards the tool lists, in its order
          gddr6,    \* "unresolved", "found" or "none": _gddr6_resolved, _gddr6_bin
          vram,     \* the VRAM temperature of each card in the last pass
          matched   \* whether that pass had every card on a line with a bus and a value

vramVars == <<usable, byNvml, lost, busKnown, listed, gddr6, vram, matched>>
machine  == <<usable, byNvml, lost, busKnown, listed>>

VramInit ==
    /\ usable = {} /\ byNvml = {} /\ lost = {} /\ busKnown = {} /\ listed = <<>>
    /\ gddr6 = "unresolved" /\ vram = [g \in Cards |-> NoCard] /\ matched = FALSE

\* The cards, their sensors and the tool are what they are, and change.
CardsChange ==
    /\ \/ usable' \in SUBSET Cards /\ byNvml' \in SUBSET usable' /\ UNCHANGED lost
       \/ lost' \in {{}, {0}} /\ UNCHANGED <<usable, byNvml>>
    /\ UNCHANGED <<busKnown, listed, gddr6, vram, matched>>

ListingChanges ==
    /\ busKnown' \in BusTold /\ listed' \in SetToAllKPermutations(Cards)
    /\ UNCHANGED <<usable, byNvml, lost, gddr6, vram, matched>>

\* _gddr6_path: off, not root, not installed, or found; decided once.
Resolve ==
    /\ gddr6 = "unresolved" /\ gddr6' \in {"found", "none"}
    /\ UNCHANGED <<machine, vram, matched>>

\* The values of a row that are within 1 .. 150, in its order.
InRange(row) ==
    LET kept   == {i \in DOMAIN row : row[i] \in usable}
        nth(n) == CHOOSE i \in kept : Cardinality({j \in kept : j <= i}) = n
    IN  [n \in 1 .. Cardinality(kept) |-> row[nth(n)]]

\* parse_gddr6_output of a row that may end early: values that are out of
\* range are dropped, then the first bus gets the first value.
ParseGddr6(row) ==
    LET temps == InRange(row)
    IN  [byBus   |-> [i \in 1 .. Len(temps) |-> <<Bus[listed[i]], temps[i]>>],
         ordered |-> temps]

\* Mutant: by the place in the row alone.
MatchByPlace(g, parsed) ==
    IF g < Len(parsed.ordered) THEN parsed.ordered[g + 1] ELSE NoCard

\* By the bus, a later line before an earlier one; else by the place.
Match(g, parsed) ==
    LET lines == {i \in DOMAIN parsed.byBus : parsed.byBus[i][1] = Bus[g]}
    IN  IF g \in busKnown /\ lines # {} THEN parsed.byBus[Max(lines)][2]
        ELSE IF g < Len(parsed.ordered) THEN parsed.ordered[g + 1] ELSE NoCard

\* collect: the tool is run in its 2.5 seconds when the first card needs it.
CollectVram ==
    /\ gddr6 # "unresolved" /\ lost = {}
    /\ \E end \in 0 .. Len(listed) :
          LET row    == IF gddr6 = "found" THEN SubSeq(listed, 1, end) ELSE <<>>
              parsed == ParseGddr6(row)
          IN  /\ vram' = [g \in Cards |-> IF g \in byNvml THEN g ELSE Match(g, parsed)]
              /\ matched' = ( /\ Len(parsed.ordered) = Len(listed) /\ ToSet(listed) = Cards
                              /\ busKnown = Cards
                              /\ \A g, o \in Cards : Bus[g] = Bus[o] => g = o )
    /\ UNCHANGED <<machine, gddr6>>

\* The binary cannot be started: never again, and no temperature from it.
ToolFails ==
    /\ gddr6 = "found" /\ byNvml # Cards /\ lost = {}
    /\ gddr6' = "none" /\ matched' = FALSE
    /\ vram' = [g \in Cards |-> IF g \in byNvml THEN g ELSE NoCard]
    /\ UNCHANGED machine

\* nvmlDeviceGetHandleByIndex is not guarded: no card is told at all.
CollectFails ==
    /\ lost # {} /\ vram' = [g \in Cards |-> NoCard] /\ matched' = FALSE
    /\ UNCHANGED <<machine, gddr6>>

VramNext == CardsChange \/ ListingChanges \/ Resolve \/ CollectVram \/ ToolFails
            \/ CollectFails

VramSpec == VramInit /\ [][VramNext]_vramVars

-----------------------------------------------------------------------------
\* Properties

\* What is shipped as the VRAM temperature of a card was measured on it.  The
\* tool's "readings are matched to NVML devices by PCI bus number"
\* (gpu_nvidia.py 14-16).
OwnVram == \A g \in Cards : vram[g] \in {g, NoCard}

\* So it is when the tool has a usable value for every card it lists and lists
\* every card by a bus number of its own that NVML tells, in whatever order
\* the tool and NVML have them (gpu_nvidia.py 53-57, 197-200).
OwnVramByBus == matched => \A g \in Cards : vram[g] = g
=============================================================================
