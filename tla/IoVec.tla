-------------------------------- MODULE IoVec --------------------------------
(***************************************************************************)
(* One connection and the life of its input and output vectors             *)
(* (spm_api/connection.rs).                                                *)
(*                                                                         *)
(* A vector is prepared (mapped, and handed to the service), then          *)
(* finished: an input vector is marked unmapped, an output vector is       *)
(* committed with the number of bytes the service says it wrote.  Sizes    *)
(* stand for the buffers; a slot without a vector has size 0, which is     *)
(* what the code reads from MaybeUsize::none.  invec_accessed is left      *)
(* out: the code initialises it to 0 and never writes another value.       *)
(***************************************************************************)
EXTENDS Integers, FiniteSets

CONSTANT PSA_MAX_IOVEC   \* vectors per direction
CONSTANT Sizes           \* the buffer sizes that occur

ASSUME IoVecAssumption ==
    /\ PSA_MAX_IOVEC \in Nat \ {0}
    /\ Sizes \subseteq Nat

VecIdx == 0 .. PSA_MAX_IOVEC - 1

\* One past the last index is what a service gets wrong, and is refused.
AnyIdx == 0 .. PSA_MAX_IOVEC

\* What a service passes to commit: up to one byte more than a buffer has.
Written == UNION {0 .. s + 1 : s \in Sizes}

InVec == [size : Nat, mapped : BOOLEAN, unmapped : BOOLEAN]
OutVec == [size : Nat, written : Nat, mapped : BOOLEAN, unmapped : BOOLEAN]

\* owner is the call that built the connection: the code has it as the
\* identity of the Connection value on that call's stack.
ConnectionOf(Owners, Handles) ==
    [owner : Owners, handle : Handles,
     invec : [VecIdx -> InVec], outvec : [VecIdx -> OutVec]]

\* The connection call_from_slices builds: nothing mapped, nothing written.
NewConnection(owner, handle, ins, outs) ==
    [owner |-> owner, handle |-> handle,
     invec |-> [i \in VecIdx |->
        [size |-> ins[i], mapped |-> FALSE, unmapped |-> FALSE]],
     outvec |-> [j \in VecIdx |->
        [size |-> outs[j], written |-> 0, mapped |-> FALSE, unmapped |-> FALSE]]]

------------------------------------------------------------------------------

CanPrepareIn(c, i) == i \in VecIdx /\ ~c.invec[i].mapped

PreparedIn(c, i) == [c EXCEPT !.invec[i].mapped = TRUE]

CanPrepareOutAgain(c, j) ==                    \* mutant of CanPrepareOut
    j \in VecIdx /\ ~c.outvec[j].mapped

CanPrepareOut(c, j) ==
    j \in VecIdx /\ ~c.outvec[j].mapped /\ c.outvec[j].written = 0

PreparedOut(c, j) == [c EXCEPT !.outvec[j].mapped = TRUE]

CanMarkIn(c, i) == i \in VecIdx /\ ~c.invec[i].unmapped

MarkedIn(c, i) == [c EXCEPT !.invec[i].unmapped = TRUE]

CanCommitAnyLength(c, j, n) ==                 \* mutant of CanCommit
    j \in VecIdx /\ ~c.outvec[j].unmapped

CanCommit(c, j, n) ==
    j \in VecIdx /\ ~c.outvec[j].unmapped /\ n <= c.outvec[j].size

\* The size the message carries shrinks to what was written.
CommittedVec(v, n) == [v EXCEPT !.written = n, !.size = n, !.unmapped = TRUE]

Committed(c, j, n) == [c EXCEPT !.outvec[j] = CommittedVec(@, n)]

\* update_vec_mapping, of the IPC build only: both flags follow the mapping, so
\* that a vector which is given back can be asked for again.
SetMapped(c, isOut, i, mapped) ==
    IF isOut THEN [c EXCEPT !.outvec[i] = [@ EXCEPT !.mapped = mapped, !.unmapped = ~mapped]]
    ELSE [c EXCEPT !.invec[i] = [@ EXCEPT !.mapped = mapped, !.unmapped = ~mapped]]

------------------------------------------------------------------------------
\* SfnApi::access_invec, access_outvec and access_invec_outvec: at most one
\* vector of each direction, prepared before the closure runs and finished
\* after it.  The empty set of a direction means it is not accessed.

Accesses ==
    {a \in [ins : SUBSET AnyIdx, outs : SUBSET AnyIdx] :
        /\ Cardinality(a.ins) <= 1
        /\ Cardinality(a.outs) <= 1
        /\ a.ins \cup a.outs # {}}

InOk(c, a) == \A i \in a.ins : CanPrepareIn(c, i)
OutOk(c, a) == \A j \in a.outs : CanPrepareOut(c, j)

\* The closure runs only when every preparation succeeds...
CanBegin(c, a) == InOk(c, a) /\ OutOk(c, a)

\* ...but an input vector stays mapped when the output vector is refused.
MapIn(c, a) ==
    [i \in VecIdx |-> IF i \in a.ins /\ InOk(c, a)
                     THEN [c.invec[i] EXCEPT !.mapped = TRUE] ELSE c.invec[i]]

MapOut(c, a) ==
    [j \in VecIdx |-> IF j \in a.outs /\ CanBegin(c, a)
                     THEN [c.outvec[j] EXCEPT !.mapped = TRUE] ELSE c.outvec[j]]

Begun(c, a) == [c EXCEPT !.invec = MapIn(c, a), !.outvec = MapOut(c, a)]

CommitOk(c, a, n) == \A j \in a.outs : CanCommit(c, j, n)
MarkOk(c, a) == \A i \in a.ins : CanMarkIn(c, i)

\* The output vector is committed first; when that is refused the input
\* vector is not marked.
UnmapIn(c, a, n) ==
    [i \in VecIdx |-> IF i \in a.ins /\ CommitOk(c, a, n) /\ MarkOk(c, a)
                     THEN [c.invec[i] EXCEPT !.unmapped = TRUE] ELSE c.invec[i]]

CommitOut(c, a, n) ==
    [j \in VecIdx |-> IF j \in a.outs /\ CommitOk(c, a, n)
                     THEN CommittedVec(c.outvec[j], n) ELSE c.outvec[j]]

Ended(c, a, n) ==
    [c EXCEPT !.invec = UnmapIn(c, a, n), !.outvec = CommitOut(c, a, n)]
==============================================================================
