--------------------------------- MODULE Mpu ---------------------------------
(***************************************************************************)
(* The regions of the Armv8-M memory protection unit as the driver builds  *)
(* them (libraries/cortex_m/src/mpu.rs), and the range check the platform  *)
(* makes on a caller's pointer (cmse.rs).                                  *)
(*                                                                         *)
(* A configuration is the sequence of the slots in use.  Addresses are     *)
(* bytes; the memories of the boards end below 2^32, so no sum wraps.      *)
(***************************************************************************)
EXTENDS Integers, Sequences

CONSTANTS
    Granule,     \* 32: the alignment of a region's ends
    MaxRegions   \* N of Mpu<N>, 8 in the dispatcher

ASSUME MpuAssumption ==
    /\ Granule \in Nat \ {0}
    /\ MaxRegions \in Nat

Permissions ==
    {"ReadWriteExecute", "ReadWriteXN", "ReadXN", "ReadExecute", "ReadPrivXN", "ReadPrivExecute"}

\* What RBAR.AP and RBAR.XN grant to unprivileged code for each permission.
UserReads(p) == p \notin {"ReadPrivXN", "ReadPrivExecute"}
UserWrites(p) == p \in {"ReadWriteExecute", "ReadWriteXN"}
ExecuteNever(p) == p \in {"ReadWriteExecute", "ReadXN", "ReadPrivXN"}

Region == [base : Nat, size : Nat, perm : Permissions]
Window == [base : Nat, end : Nat, read : BOOLEAN, write : BOOLEAN, execute : BOOLEAN,
           asked : Permissions]

AlignDown(a) == a - (a % Granule)
AlignUp(a) == AlignDown(a + Granule - 1)

Overlap(w, base, end) == base < w.end /\ w.base < end

\* Why allocate_region returns an error: AddressNotAligned, SizeTooSmall,
\* RegionOverlap, NoRegionsAvailable.
CanAllocate(config, base, size) ==
    /\ base % Granule = 0
    /\ (base + size) % Granule = 0
    /\ size >= Granule
    /\ \A i \in DOMAIN config : ~Overlap(config[i], base, base + size)
    /\ Len(config) < MaxRegions

\* Every caller drops the error ("let _ ="), which leaves the region out.
Allocated(config, base, size, p) ==
    IF CanAllocate(config, base, size)
    THEN Append(config, [base |-> base, end |-> base + size,
                         read |-> UserReads(p), write |-> UserWrites(p),
                         execute |-> UserReads(p) /\ ~ExecuteNever(p), asked |-> p])
    ELSE config

\* allocate_region for one after the other.
Configured(regions) ==
    LET config[k \in 0 .. Len(regions)] ==
          IF k = 0 THEN <<>>
          ELSE Allocated(config[k - 1], regions[k].base, regions[k].size, regions[k].perm)
    IN config[Len(regions)]

------------------------------------------------------------------------------

\* Unprivileged code may touch the byte at a.
Grants(config, a, isWrite) ==
    \E i \in DOMAIN config :
        /\ config[i].base <= a /\ a < config[i].end
        /\ IF isWrite THEN config[i].write ELSE config[i].read

\* TestTarget::check_range with the unprivileged variant of TT: the first and
\* the last byte are in one region, and it grants the access.
RangeGranted(config, base, size, isWrite) ==
    \/ size = 0
    \/ \E i \in DOMAIN config :
        /\ config[i].base <= base /\ base + size <= config[i].end
        /\ IF isWrite THEN config[i].write ELSE config[i].read
==============================================================================
