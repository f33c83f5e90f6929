----------------------------- MODULE MemoryCheck -----------------------------
(***************************************************************************)
(* What the partition manager asks of a non-secure, unprivileged caller's  *)
(* vectors before it makes a connection of them (call_from_slices), from   *)
(* the answers of the test-target instruction at their two ends.           *)
(*                                                                         *)
(* sau and mpu are the region tables the instruction consults: those of    *)
(* the board and those of the process that executes.  A region has a first *)
(* byte (base) and a last one (limit).                                     *)
(***************************************************************************)
EXTENDS Integers, Sequences

CONSTANTS
    AddressSpace,    \* 2^32: one past the largest usize
    TtGranule,       \* 32: no region begins or ends inside a granule
    PSA_MAX_IOVEC

IdauBlock == 268435456     \* 2^28

ASSUME MemoryCheckAssumption ==
    /\ AddressSpace \in Nat \ {0}
    /\ TtGranule \in Nat \ {0}
    /\ PSA_MAX_IOVEC \in Nat
    /\ IdauBlock % TtGranule = 0

Buffer == [base : 0 .. AddressSpace - 1, len : Nat]

Bytes(b) == b.base .. b.base + b.len - 1

------------------------------------------------------------------------------

\* The region of the table that holds the byte at a.  The instruction has a
\* number for it only if it is the only one.
Region(table, a) ==
    LET hits == {i \in DOMAIN table : table[i].base <= a /\ a <= table[i].limit} IN
    IF \E i \in hits : hits = {i} THEN hits ELSE {}

\* The implementation-defined attribution of both chips: bit 28 of the address
\* is set in the secure alias of each block of memory.
IdauRegion(a) == a \div IdauBlock

\* A byte is non-secure if exactly one region of the SAU makes it so and the
\* IDAU agrees: what two regions claim is secure.
NonSecure(sau, a) ==
    /\ \E i \in Region(sau, a) : sau[i].attribute = "NonSecure"
    /\ IdauRegion(a) % 2 = 0

\* TTAT: regions and rights of unprivileged non-secure code at one byte.
Tt(sau, mpu, a) ==
    [sregion |-> Region(sau, a), iregion |-> IdauRegion(a), mregion |-> Region(mpu, a),
     secure |-> ~NonSecure(sau, a),
     readable |-> \E i \in Region(mpu, a) : mpu[i].read,
     writable |-> \E i \in Region(mpu, a) : mpu[i].write]

RangeIsUniformAtStart(sau, mpu, b) ==          \* mutant of RangeIsUniform
    b.len > 0 /\ b.base + (b.len - 1) < AddressSpace

\* TestTarget::check_range: one answer for a range inside a granule, the same
\* answer at both ends for a longer one.
RangeIsUniform(sau, mpu, b) ==
    /\ b.len > 0
    /\ b.base + (b.len - 1) < AddressSpace
    /\ \/ (b.base % TtGranule) + b.len <= TtGranule
       \/ Tt(sau, mpu, b.base) = Tt(sau, mpu, b.base + b.len - 1)

\* has_permission_on_memory of the platforms.  psc3 asks for the security
\* state and the right, musca_b1 for the non-secure right that implies both.
HasPermission(sau, mpu, b, isWrite) ==
    \/ b.len = 0
    \/ /\ b.base # 0
       /\ RangeIsUniform(sau, mpu, b)
       /\ LET t == Tt(sau, mpu, b.base) IN
            ~t.secure /\ IF isWrite THEN t.writable ELSE t.readable

\* validate_pointer_range: the end, too, is a usize.
PointerValid(b) == b.len = 0 \/ (b.base # 0 /\ b.base + b.len < AddressSpace)

OverlapFromRight(l, r) ==                      \* mutant of Overlap
    l.base <= r.base /\ r.base < l.base + l.len

OverlapOrTouch(l, r) ==                        \* mutant of Overlap
    r.base <= l.base + l.len /\ l.base <= r.base + r.len

Overlap(l, r) == r.base < l.base + l.len /\ l.base < r.base + r.len

\* validate_invec_payload_nonoverlap: no byte is read through two inputs.
PayloadsApart(ins) ==
    \A i, j \in DOMAIN ins : i < j =>
        /\ ins[i].base + ins[i].len < AddressSpace
        /\ ins[j].base + ins[j].len < AddressSpace
        /\ ~Overlap(ins[i], ins[j])

\* call_from_slices makes a connection.
CallAccepted(sau, mpu, ins, outs) ==
    /\ Len(ins) + Len(outs) <= PSA_MAX_IOVEC
    /\ PayloadsApart(ins)
    /\ \A i \in DOMAIN ins : PointerValid(ins[i]) /\ HasPermission(sau, mpu, ins[i], FALSE)
    /\ \A i \in DOMAIN outs : PointerValid(outs[i]) /\ HasPermission(sau, mpu, outs[i], TRUE)

------------------------------------------------------------------------------

\* set_region, after its checks.  A region declared Secure is written with its
\* enable bit clear.
SauAligned(r) == r.base % TtGranule = 0 /\ (r.limit + 1) % TtGranule = 0

WithRegion(sau, r) ==
    IF r.attribute = "Secure" THEN sau ELSE Append(sau, r)
==============================================================================
