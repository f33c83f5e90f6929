--------------------------------- MODULE Ppc ---------------------------------
(***************************************************************************)
(* The protection of the psc3 peripherals (security.rs, ppc.rs).  The      *)
(* policy is three lists of regions; what reaches the controller are       *)
(* arrays of register words, computed from the lists at compile time and   *)
(* written word by word.                                                   *)
(*                                                                         *)
(* A word of the attribute registers is the set of its bits, and a word of *)
(* the protection-context masks the set of its byte slots that are 0xFF    *)
(* (no slot is ever anything but 0xFF or 0).                               *)
(***************************************************************************)
EXTENDS Integers

CONSTANTS
    PPC_REGION_COUNT,
    REGIONS_PER_ATTR_REG,
    REGIONS_PER_PC_MASK_REG,
    NS_SECURE_ONLY_REGIONS,
    NS_UNPRIVILEGED_REGIONS,
    PC_MASK_EXCLUDED_REGIONS

ASSUME PpcAssumption ==
    /\ PPC_REGION_COUNT \in Nat
    /\ REGIONS_PER_ATTR_REG \in Nat \ {0}
    /\ REGIONS_PER_PC_MASK_REG \in Nat \ {0}

PpcRegion == 0 .. PPC_REGION_COUNT - 1

DivCeil(a, b) == (a + b - 1) \div b

AttrWords == 0 .. DivCeil(PPC_REGION_COUNT, REGIONS_PER_ATTR_REG) - 1
MaskWords == 0 .. DivCeil(PPC_REGION_COUNT, REGIONS_PER_PC_MASK_REG) - 1
AttrBits == 0 .. REGIONS_PER_ATTR_REG - 1
MaskSlots == 0 .. REGIONS_PER_PC_MASK_REG - 1

\* The bits of regions, in their words; a number that is no region has none.
RegionBits(regions) ==
    [w \in AttrWords |-> {r % REGIONS_PER_ATTR_REG :
        r \in {q \in regions \cap PpcRegion : q \div REGIONS_PER_ATTR_REG = w}}]

\* set_region_bit and clear_region_bit, for each of regions.
SetRegionBits(mask, regions) == [w \in AttrWords |-> mask[w] \cup RegionBits(regions)[w]]
ClearRegionBits(mask, regions) == [w \in AttrWords |-> mask[w] \ RegionBits(regions)[w]]

NoBits == [w \in AttrWords |-> {}]

BuildFullNsAttrMask == SetRegionBits(NoBits, PpcRegion)

BuildNsAttrs == ClearRegionBits(BuildFullNsAttrMask, NS_SECURE_ONLY_REGIONS)

BuildNsPAttrs == SetRegionBits(NoBits, NS_UNPRIVILEGED_REGIONS)

BuildPcMasksToTheEnd ==                        \* mutant of BuildPcMasks
    [w \in MaskWords |-> {slot \in MaskSlots :
        w * REGIONS_PER_PC_MASK_REG + slot \notin PC_MASK_EXCLUDED_REGIONS}]

\* A full word, less the slots behind the last region and those of the
\* excluded regions.
BuildPcMasks ==
    [w \in MaskWords |-> {slot \in MaskSlots :
        LET region == w * REGIONS_PER_PC_MASK_REG + slot IN
        region < PPC_REGION_COUNT /\ region \notin PC_MASK_EXCLUDED_REGIONS}]

\* The three tables of registers, as get_permissions and the bus read them.
AttrSet(table, region) ==
    region % REGIONS_PER_ATTR_REG \in table[region \div REGIONS_PER_ATTR_REG]

MaskSet(table, region) ==
    region % REGIONS_PER_PC_MASK_REG \in table[region \div REGIONS_PER_PC_MASK_REG]
===============================================================================
