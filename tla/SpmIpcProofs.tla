----------------------------- MODULE SpmIpcProofs -----------------------------
(***************************************************************************)
(* Proofs about the IPC dispatcher, for any services, windows, custom      *)
(* regions, buffers and numbers of vectors, slots and MPU regions.         *)
(*                                                                         *)
(* The registers and the MPU are global, and what they must hold at a      *)
(* return was fixed at the call.  IInv says of every call of the chain     *)
(* what is put away for it: the saved registers, its frames on the stack   *)
(* of its process, its connection; and of the MPU that it follows the      *)
(* connection on top.                                                      *)
(***************************************************************************)
EXTENDS SpmIpc, NumberInduction, SequenceTheorems, FiniteSetTheorems

------------------------------------------------------------------------------
(* What allocate_region makes of any sequence of regions: every window is  *)
(* one of the regions, and no two share a byte.  The configuration is      *)
(* built by recursion: BuildingDef shows that the recursion has a          *)
(* solution, ConfiguredSound goes along it.                                *)

\* The configurations after each region of R.
Building(R) ==
    LET config[k \in 0 .. Len(R)] ==
          IF k = 0 THEN <<>>
          ELSE Allocated(config[k - 1], R[k].base, R[k].size, R[k].perm)
    IN config

\* The recursion has a solution, and Building is one.
LEMMA BuildingDef ==
    ASSUME NEW R \in Seq(Region)
    PROVE  \A k \in 0 .. Len(R) : Building(R)[k] =
             IF k = 0 THEN <<>>
             ELSE Allocated(Building(R)[k - 1], R[k].base, R[k].size, R[k].perm)
<1> DEFINE Step(config, k) == IF k = 0 THEN <<>>
                              ELSE Allocated(config[k - 1], R[k].base, R[k].size, R[k].perm)
           Solves(config, n) == config = [k \in 0 .. n |-> Step(config, k)]
           S == {n \in Nat : \E config : Solves(config, n)}
<1>1. 0 \in S
  <2>1. Solves([k \in 0 .. 0 |-> <<>>], 0)
    OBVIOUS
  <2>. QED BY <2>1
<1>2. ASSUME NEW n \in Nat, n \in S PROVE n + 1 \in S
  <2>1. PICK c : Solves(c, n)
    BY <1>2
  <2> DEFINE d == [k \in 0 .. n + 1 |-> IF k = n + 1 THEN Step(c, k) ELSE c[k]]
  <2>2. \A k \in 0 .. n : d[k] = c[k] /\ c[k] = Step(c, k)
    BY <2>1
  <2>3. \A k \in 0 .. n + 1 : d[k] = Step(d, k)
    <3> TAKE k \in 0 .. n + 1
    <3>1. CASE k = n + 1
      BY <2>2, <3>1
    <3>2. CASE k # n + 1
      <4>1. k \in 0 .. n
        BY <3>2
      <4>2. d[k] = Step(c, k)
        <5> HIDE DEF d, Step
        <5>. QED BY <2>2, <4>1
      <4>3. k # 0 => d[k - 1] = c[k - 1]
        BY <2>2, <4>1
      <4> HIDE DEF d
      <4>. QED BY <4>2, <4>3
    <3>. QED BY <3>1, <3>2
  <2>4. Solves(d, n + 1)
    BY <2>3
  <2> HIDE DEF d, Solves
  <2>. QED BY <2>4
<1>3. Len(R) \in S
  <2> HIDE DEF S
  <2>. QED BY <1>1, <1>2, Induction
<1>4. Building(R) = CHOOSE config : Solves(config, Len(R))
  BY DEF Building
<1>5. Solves(Building(R), Len(R))
  <2> HIDE DEF Solves
  <2>. QED BY <1>3, <1>4
<1>. QED BY <1>5

\* What allocate_region makes of r when it accepts it.
WindowOf(r) ==
    [base |-> r.base, end |-> r.base + r.size, read |-> UserReads(r.perm),
     write |-> UserWrites(r.perm), execute |-> UserReads(r.perm) /\ ~ExecuteNever(r.perm),
     asked |-> r.perm]

\* Every window is one of the first n regions, of a granule at least.
Comes(config, R, n) ==
    \A k \in DOMAIN config : \E j \in 1 .. n :
        config[k] = WindowOf(R[j]) /\ R[j].size >= Granule

Apart(config) ==
    \A k, l \in DOMAIN config : k # l => ~Overlap(config[k], config[l].base, config[l].end)

Sound(config, R, n) ==
    /\ config \in Seq(Window) /\ Len(config) <= MaxRegions
    /\ Comes(config, R, n)
    /\ Apart(config)

\* One region more.
LEMMA AllocatedSound ==
    ASSUME NEW R \in Seq(Region), NEW n \in Nat, n + 1 <= Len(R),
           NEW config, Sound(config, R, n)
    PROVE  Sound(Allocated(config, R[n+1].base, R[n+1].size, R[n+1].perm), R, n + 1)
<1> DEFINE r == R[n + 1]
           next == Allocated(config, r.base, r.size, r.perm)
<1>1. r \in Region
  OBVIOUS
<1>2. /\ config \in Seq(Window) /\ Len(config) <= MaxRegions
      /\ Comes(config, R, n) /\ Apart(config)
  BY DEF Sound
<1>3. CASE ~CanAllocate(config, r.base, r.size)
  <2>1. next = config
    BY <1>3 DEF Allocated
  <2>2. Comes(config, R, n + 1)
    BY <1>2 DEF Comes
  <2>. QED BY <1>2, <2>1, <2>2 DEF Sound
<1>4. CASE CanAllocate(config, r.base, r.size)
  <2>1. next = Append(config, WindowOf(r))
    BY <1>4 DEF Allocated, WindowOf
  <2>2. WindowOf(r) \in Window
    BY <1>1 DEF WindowOf, Window, Region, UserReads, UserWrites, ExecuteNever
  <2>3. /\ next \in Seq(Window) /\ Len(next) = Len(config) + 1
        /\ DOMAIN next = DOMAIN config \cup {Len(config) + 1}
        /\ \A k \in DOMAIN config : next[k] = config[k]
        /\ next[Len(config) + 1] = WindowOf(r)
    BY <1>2, <2>1, <2>2
  <2>4. Len(next) <= MaxRegions
    BY <1>2, <1>4, <2>3, MpuAssumption DEF CanAllocate
  <2>5. Comes(next, R, n + 1)
    BY <1>2, <1>4, <2>3 DEF Comes, CanAllocate
  <2>6. Apart(next)
    <3>1. \A k \in DOMAIN config : ~Overlap(config[k], WindowOf(r).base, WindowOf(r).end)
      BY <1>4 DEF CanAllocate, WindowOf
    <3>2. \A k \in DOMAIN config : ~Overlap(WindowOf(r), config[k].base, config[k].end)
      BY <3>1 DEF Overlap
    <3>. QED BY <1>2, <2>3, <3>1, <3>2 DEF Apart
  <2>. QED BY <2>3, <2>4, <2>5, <2>6 DEF Sound
<1>. QED BY <1>3, <1>4

\* For any regions in any order: each window of the configuration is one of
\* them, windows do not overlap, and there are no more than the MPU has.
THEOREM ConfiguredSound ==
    ASSUME NEW R \in Seq(Region)
    PROVE  Sound(Configured(R), R, Len(R))
<1> DEFINE S == {n \in Nat : n <= Len(R) => Sound(Building(R)[n], R, n)}
<1>1. 0 \in S
  <2>1. Building(R)[0] = <<>>
    <3>1. 0 \in 0 .. Len(R)
      OBVIOUS
    <3>. QED BY <3>1, BuildingDef
  <2>2. Sound(<<>>, R, 0)
    BY MpuAssumption DEF Sound, Comes, Apart
  <2>. QED BY <2>1, <2>2
<1>2. ASSUME NEW n \in Nat, n \in S PROVE n + 1 \in S
  <2> SUFFICES ASSUME n + 1 <= Len(R) PROVE Sound(Building(R)[n + 1], R, n + 1)
    OBVIOUS
  <2>1. Building(R)[n + 1] =
          Allocated(Building(R)[n], R[n+1].base, R[n+1].size, R[n+1].perm)
    BY BuildingDef
  <2>2. Sound(Building(R)[n], R, n)
    BY <1>2
  <2>. QED BY <2>1, <2>2, AllocatedSound
<1>3. Len(R) \in S
  <2> HIDE DEF S
  <2>. QED BY <1>1, <1>2, Induction
<1>4. Configured(R) = Building(R)[Len(R)]
  BY DEF Configured, Building
<1>. QED BY <1>3, <1>4

\* The regions of R that allocate_region is to take.
Sized(R) == {k \in DOMAIN R : R[k].size > 0}

\* It finds nothing to refuse: whole granules, apart, and not too many.
Fits(R) ==
    /\ \A k \in Sized(R) : R[k].base % Granule = 0 /\ (R[k].base + R[k].size) % Granule = 0
    /\ \A k, l \in Sized(R) : k # l =>
         R[k].base + R[k].size <= R[l].base \/ R[l].base + R[l].size <= R[k].base
    /\ Cardinality(Sized(R)) <= MaxRegions

\* Between two ends of granules lies a granule at least.
LEMMA GranuleBetween ==
    ASSUME NEW a \in Nat, NEW b \in Nat, a < b, a % Granule = 0, b % Granule = 0
    PROVE  a + Granule <= b
<1>. USE MpuAssumption
<1>1. PICK q \in Nat, r \in 0 .. Granule - 1 : a = q * Granule + r /\ a % Granule = r
  BY DivMod
<1>2. PICK t \in Nat, u \in 0 .. Granule - 1 : b = t * Granule + u /\ b % Granule = u
  BY DivMod
<1>3. a = q * Granule /\ b = t * Granule
  BY <1>1, <1>2
<1>4. q + 1 <= t
  BY <1>3, TimesOrder
<1>5. (q + 1) * Granule <= t * Granule
  BY <1>4, TimesOrder
<1>6. (q + 1) * Granule = q * Granule + Granule
  OBVIOUS
<1>. QED BY <1>3, <1>5, <1>6

\* After n regions of R no region that counts is left out.
Complete(config, R, n) ==
    /\ Len(config) <= Cardinality({k \in Sized(R) : k <= n})
    /\ \A j \in Sized(R) : j <= n => \E k \in DOMAIN config : config[k] = WindowOf(R[j])

LEMMA AllocatedComplete ==
    ASSUME NEW R \in Seq(Region), Fits(R), NEW n \in Nat, n + 1 <= Len(R),
           NEW config, Sound(config, R, n), Complete(config, R, n)
    PROVE  Complete(Allocated(config, R[n+1].base, R[n+1].size, R[n+1].perm), R, n + 1)
<1> DEFINE r == R[n + 1]
           next == Allocated(config, r.base, r.size, r.perm)
           before == {k \in Sized(R) : k <= n}
<1>1. /\ r \in Region /\ n + 1 \in DOMAIN R /\ DOMAIN R = 1 .. Len(R) /\ Len(R) \in Nat
      /\ \A k \in DOMAIN R : R[k] \in Region
  OBVIOUS
<1>2. config \in Seq(Window) /\ Len(config) \in Nat
  BY DEF Sound
<1>3. /\ IsFiniteSet(Sized(R)) /\ Cardinality(Sized(R)) \in Nat
      /\ IsFiniteSet(before) /\ Cardinality(before) \in Nat
  <2>1. IsFiniteSet(1 .. Len(R))
    BY <1>1, FS_Interval
  <2>2. Sized(R) \subseteq 1 .. Len(R) /\ before \subseteq 1 .. Len(R)
    BY DEF Sized
  <2>. QED BY <2>1, <2>2, FS_Subset, FS_CardinalityType
<1>4. CASE r.size = 0
  <2>1. next = config
    BY <1>4, MpuAssumption DEF Allocated, CanAllocate
  <2>2. n + 1 \notin Sized(R)
    BY <1>4 DEF Sized
  <2>3. {k \in Sized(R) : k <= n + 1} = before /\ \A j \in Sized(R) : j <= n + 1 => j <= n
    BY <1>1, <2>2 DEF Sized
  <2>. QED BY <2>1, <2>3 DEF Complete
<1>5. CASE r.size # 0
  <2>1. n + 1 \in Sized(R) /\ r.size > 0
    BY <1>1, <1>5 DEF Sized, Region
  <2>2. /\ {k \in Sized(R) : k <= n + 1} = before \cup {n + 1} /\ n + 1 \notin before
        /\ \A j \in Sized(R) : j <= n + 1 => j <= n \/ j = n + 1
    BY <1>1, <2>1 DEF Sized
  <2>3. Cardinality(before \cup {n + 1}) = Cardinality(before) + 1
    BY <1>3, <2>2, FS_AddElement
  <2>4. Cardinality(before \cup {n + 1}) <= MaxRegions
    <3>1. Cardinality(before \cup {n + 1}) <= Cardinality(Sized(R))
      BY <1>3, <2>1, FS_Subset
    <3>. QED BY <1>3, <2>3, <3>1, MpuAssumption DEF Fits
  <2>5. CanAllocate(config, r.base, r.size)
    <3>1. r.base % Granule = 0 /\ (r.base + r.size) % Granule = 0
      BY <2>1 DEF Fits
    <3>2. r.size >= Granule
      <4>1. r.base \in Nat /\ r.size \in Nat
        BY <1>1 DEF Region
      <4>2. r.base + Granule <= r.base + r.size
        BY <2>1, <3>1, <4>1, GranuleBetween
      <4>. QED BY <4>1, <4>2, MpuAssumption
    <3>3. ASSUME NEW k \in DOMAIN config PROVE ~Overlap(config[k], r.base, r.base + r.size)
      <4>1. PICK j \in 1 .. n : config[k] = WindowOf(R[j]) /\ R[j].size >= Granule
        BY DEF Sound, Comes
      <4>2. j \in Sized(R) /\ j # n + 1
        BY <1>1, <4>1, MpuAssumption DEF Sized, Region
      <4>3. R[j].base + R[j].size <= r.base \/ r.base + r.size <= R[j].base
        BY <2>1, <4>2 DEF Fits
      <4>4. config[k].base = R[j].base /\ config[k].end = R[j].base + R[j].size
        BY <4>1 DEF WindowOf
      <4>5. R[j].base \in Nat /\ R[j].size \in Nat /\ r.base \in Nat /\ r.size \in Nat
        BY <1>1, <4>2 DEF Region, Sized
      <4>. QED BY <4>3, <4>4, <4>5 DEF Overlap
    <3>4. Len(config) < MaxRegions
      BY <1>2, <1>3, <2>3, <2>4, MpuAssumption DEF Complete
    <3>. QED BY <3>1, <3>2, <3>3, <3>4 DEF CanAllocate
  <2>6. next = Append(config, WindowOf(r))
    BY <2>5 DEF Allocated, WindowOf
  <2>7. /\ Len(next) = Len(config) + 1
        /\ DOMAIN next = DOMAIN config \cup {Len(config) + 1}
        /\ \A k \in DOMAIN config : next[k] = config[k]
        /\ next[Len(config) + 1] = WindowOf(r)
    BY <1>2, <2>6
  <2>8. Len(next) <= Cardinality({k \in Sized(R) : k <= n + 1})
    <3>1. Len(config) <= Cardinality(before)
      BY DEF Complete
    <3>2. Cardinality({k \in Sized(R) : k <= n + 1}) = Cardinality(before) + 1
      BY <2>2, <2>3, Zenon
    <3> HIDE DEF before, next
    <3>. QED BY <1>2, <1>3, <2>7, <3>1, <3>2
  <2>9. ASSUME NEW j \in Sized(R), j <= n + 1 PROVE \E k \in DOMAIN next : next[k] = WindowOf(R[j])
    <3>1. CASE j = n + 1
      BY <2>7, <3>1
    <3>2. CASE j <= n
      BY <2>7, <3>2 DEF Complete
    <3>. QED BY <2>2, <2>9, <3>1, <3>2
  <2>. QED BY <2>8, <2>9 DEF Complete
<1>. QED BY <1>4, <1>5

\* No region is left out of the configuration when all of them fit.
THEOREM ConfiguredComplete ==
    ASSUME NEW R \in Seq(Region), Fits(R)
    PROVE  \A j \in Sized(R) : \E k \in DOMAIN Configured(R) : Configured(R)[k] = WindowOf(R[j])
<1> DEFINE S == {n \in Nat : n <= Len(R) => Sound(Building(R)[n], R, n)
                                           /\ Complete(Building(R)[n], R, n)}
<1>1. 0 \in S
  <2>1. Building(R)[0] = <<>>
    <3>1. 0 \in 0 .. Len(R)
      OBVIOUS
    <3>. QED BY <3>1, BuildingDef
  <2>2. Sound(<<>>, R, 0)
    BY MpuAssumption DEF Sound, Comes, Apart
  <2>3. {k \in Sized(R) : k <= 0} = {} /\ Cardinality({}) = 0
    BY FS_EmptySet DEF Sized
  <2>4. Complete(<<>>, R, 0)
    <3>1. \A j \in Sized(R) : ~(j <= 0)
      BY DEF Sized
    <3>2. Cardinality({k \in Sized(R) : k <= 0}) = 0
      BY <2>3, Zenon
    <3>3. Len(<<>>) <= Cardinality({k \in Sized(R) : k <= 0})
      BY <3>2
    <3>. QED BY <3>1, <3>3 DEF Complete
  <2>. QED BY <2>1, <2>2, <2>4
<1>2. ASSUME NEW n \in Nat, n \in S PROVE n + 1 \in S
  <2> SUFFICES ASSUME n + 1 <= Len(R)
               PROVE  Sound(Building(R)[n + 1], R, n + 1) /\ Complete(Building(R)[n + 1], R, n + 1)
    OBVIOUS
  <2>1. Building(R)[n + 1] =
          Allocated(Building(R)[n], R[n+1].base, R[n+1].size, R[n+1].perm)
    BY BuildingDef
  <2>2. Sound(Building(R)[n], R, n) /\ Complete(Building(R)[n], R, n)
    BY <1>2
  <2>. QED BY <2>1, <2>2, AllocatedSound, AllocatedComplete
<1>3. Len(R) \in S
  <2> HIDE DEF S
  <2>. QED BY <1>1, <1>2, Induction
<1>4. Configured(R) = Building(R)[Len(R)]
  BY DEF Configured, Building
<1>5. \A j \in Sized(R) : j <= Len(R)
  BY DEF Sized
<1>. QED BY <1>3, <1>4, <1>5 DEF Complete

------------------------------------------------------------------------------
(* The chain of calls and what is put away for it. *)

\* All calls but the innermost wait, and each goes to a service further down.
Chain ==
    /\ \A l \in 1 .. Level : frames[l].step = "calling" <=> l < Level
    /\ \A l, m \in 1 .. Level : l < m => Rank[frames[m].handle] < Rank[frames[l].handle]
    /\ \A l \in 1 .. Level :
        frames[l].step \notin {"call", "done"} => frames[l].handle \in Processes

\* The registers of the process of level l while it runs.
RunningCpu(l) ==
    [unprivileged |-> TRUE, psp |-> <<frames[l].handle, l>>, psplim |-> frames[l].handle]

Saved == \A l \in 2 .. Level : frames[l].saved = RunningCpu(l - 1)

Occupied == \A l \in 1 .. Level - 1 : occupant[frames[l].handle] = l

Registers ==
    IF Unprivileged THEN cpu = RunningCpu(Level) /\ occupant[Process] = Level
    ELSE ~cpu.unprivileged

\* How many calls have their connection on the stack.
Height ==
    IF Level > 0 /\ frames[Level].step \in {"call", "done"} THEN Level - 1 ELSE Level

Stack ==
    /\ connections.top = Height
    /\ \A i \in Slots :
        LET c == connections.slots[i] IN
        IF i < connections.top
        THEN c # Absent /\ c.owner = i + 1 /\ c.handle = frames[i + 1].handle
        ELSE c = Absent

\* init_done is set before the init code runs, ready when it has.
Initialised ==
    /\ \A p \in Processes : ready[p] => initDone[p]
    /\ \A p \in Processes : initDone[p] /\ ~ready[p] =>
        Level > 0 /\ Process = p /\ frames[Level].step \in {"init", "initialising"}
    /\ \A l \in 1 .. Level :
        /\ frames[l].step \in {"init", "initialising"} =>
            initDone[frames[l].handle] /\ ~ready[frames[l].handle]
        /\ frames[l].step \in {"start", "running", "calling", "return"} => ready[frames[l].handle]

MpuFollows ==
    connections.top > 0 => mpu = MpuConfig(Active(connections).handle, connections, frames)

\* A vector given back with bytes in it is not mapped.
FinalVec(v) == v.written # 0 => v.unmapped /\ ~v.mapped

Final ==
    \A i \in Slots : connections.slots[i] # Absent =>
        \A j \in VecIdx : FinalVec(connections.slots[i].outvec[j])

IInv ==
    /\ TypeOK /\ Chain /\ Saved /\ Occupied /\ Registers /\ Stack /\ Initialised
    /\ MpuFollows /\ Final

------------------------------------------------------------------------------
(* The regions of a process. *)

Conn == ConnectionOf(Levels, Handles)

\* The ends of a region are numbers, the upper one not below the lower.
LEMMA AlignType ==
    ASSUME NEW base \in Nat, NEW size \in Nat
    PROVE  /\ AlignDown(base) \in Nat
           /\ AlignUp(base + size) - AlignDown(base) \in Nat
<1>1. \A a \in Nat : a % Granule \in Nat /\ a % Granule < Granule /\ a % Granule <= a
  BY MpuAssumption
<1>2. base + size + Granule - 1 \in Nat
  BY MpuAssumption
<1>. QED BY <1>1, <1>2, MpuAssumption DEF AlignDown, AlignUp

LEMMA VecRegionsType ==
    ASSUME NEW c \in Conn, NEW f \in Frame
    PROVE  /\ VecRegions(c, f) \in Seq(Region)
           /\ Len(VecRegions(c, f)) = 2 * PSA_MAX_IOVEC
<1>1. ASSUME NEW base \in Nat, NEW size \in Nat, NEW p \in Permissions
      PROVE  VecRegion(base, size, p) \in Region
  BY AlignType DEF VecRegion, Region
<1>2. NoRegion \in Region
  BY DEF NoRegion, Region, Permissions
<1>3. /\ "ReadXN" \in Permissions /\ "ReadWriteXN" \in Permissions
      /\ PSA_MAX_IOVEC \in Nat \ {0}
  BY IoVecAssumption DEF Permissions
<1>4. \A i \in VecIdx : /\ f.ins[i].base \in Nat /\ f.outs[i].base \in Nat
                        /\ c.invec[i].size \in Nat /\ c.outvec[i].size \in Nat
  BY DEF Frame, Vectors, Conn, ConnectionOf, InVec, OutVec
<1>5. \A k \in 1 .. 2 * PSA_MAX_IOVEC :
        /\ k <= PSA_MAX_IOVEC => k - 1 \in VecIdx
        /\ ~(k <= PSA_MAX_IOVEC) => k - PSA_MAX_IOVEC - 1 \in VecIdx
  BY <1>3 DEF VecIdx
<1>6. VecRegions(c, f) \in [1 .. 2 * PSA_MAX_IOVEC -> Region]
  BY <1>1, <1>2, <1>3, <1>4, <1>5 DEF VecRegions
<1>7. 2 * PSA_MAX_IOVEC \in Nat
  BY <1>3
<1>. QED BY <1>6, <1>7

LEMMA RegionsType ==
    ASSUME NEW p \in Processes, NEW s \in StackOf(Conn), NEW calls,
           CanTake(s) => calls[Active(s).owner] \in Frame
    PROVE  Regions(p, s, calls) \in Seq(Region)
<1>1. CanTake(s) => Active(s) \in Conn
  BY MaxConnectionsAssumption DEF CanTake, Active, StackOf, Slots
<1>2. <<[base |-> Rom[p].base, size |-> Rom[p].size, perm |-> "ReadExecute"],
        [base |-> Ram[p].base, size |-> Ram[p].size, perm |-> "ReadWriteXN"]>> \in Seq(Region)
  BY SpmIpcAssumption DEF Region, Permissions
<1>3. Custom[p] \in Seq(Region)
  BY SpmIpcAssumption
<1>4. (IF CanTake(s) /\ Active(s).handle = p
       THEN VecRegions(Active(s), calls[Active(s).owner]) ELSE <<>>) \in Seq(Region)
  BY <1>1, VecRegionsType
<1>. QED BY <1>2, <1>3, <1>4 DEF Regions

LEMMA MpuConfigType ==
    ASSUME NEW p \in Processes, NEW s \in StackOf(Conn), NEW calls,
           CanTake(s) => calls[Active(s).owner] \in Frame
    PROVE  MpuConfig(p, s, calls) \in Seq(Window) /\ Len(MpuConfig(p, s, calls)) <= MaxRegions
BY RegionsType, ConfiguredSound DEF MpuConfig, Sound

\* Of the calls only the vectors of the owner of the top connection count.
LEMMA ConfigOfCalls ==
    ASSUME NEW p, NEW s, NEW f, NEW g,
           f[Active(s).owner].ins = g[Active(s).owner].ins,
           f[Active(s).owner].outs = g[Active(s).owner].outs
    PROVE  MpuConfig(p, s, f) = MpuConfig(p, s, g)
<1>1. VecRegions(Active(s), f[Active(s).owner]) = VecRegions(Active(s), g[Active(s).owner])
  BY DEF VecRegions
<1>. QED BY <1>1 DEF MpuConfig, Regions

------------------------------------------------------------------------------
(* Steps of the innermost call. *)

\* Everything but the step of the innermost call is as before.
LEMMA GotoFrames ==
    ASSUME TypeOK, Level > 0, NEW s \in Steps, Goto(s)
    PROVE  /\ frames' \in Seq(Frame) /\ Len(frames') = Len(frames)
           /\ \A l \in 1 .. Len(frames) :
                /\ frames'[l].handle = frames[l].handle
                /\ frames'[l].ins = frames[l].ins /\ frames'[l].outs = frames[l].outs
                /\ frames'[l].saved = frames[l].saved
                /\ frames'[l].step = IF l = Len(frames) THEN s ELSE frames[l].step
<1>0. frames' = [frames EXCEPT ![Len(frames)].step = s]
  BY Zenon DEF Goto, Level
<1>1. frames \in Seq(Frame) /\ Len(frames) \in 1 .. Len(frames)
  BY DEF TypeOK, Level
<1>2. [frames[Len(frames)] EXCEPT !.step = s] \in Frame
  <2>1. \A f \in Frame : [f EXCEPT !.step = s] \in Frame
    BY DEF Frame
  <2>. QED BY <1>1, <2>1
<1>3. frames' \in Seq(Frame) /\ Len(frames') = Len(frames)
  BY <1>0, <1>1, <1>2
<1>. QED BY <1>0, <1>1, <1>3 DEF Frame

\* The calls below the innermost have other processes.
LEMMA OtherProcesses ==
    ASSUME TypeOK, Chain
    PROVE  \A l \in 1 .. Len(frames) - 1 :
             frames[l].handle \in Processes /\ frames[l].handle # frames[Len(frames)].handle
<1>1. \A l \in 1 .. Len(frames) : frames[l] \in Frame
  BY DEF TypeOK
<1>2. \A l \in 1 .. Len(frames) - 1 : Rank[frames[Len(frames)].handle] < Rank[frames[l].handle]
  BY DEF TypeOK, Chain, Level
<1>3. \A l \in 1 .. Len(frames) : Rank[frames[l].handle] \in Nat
  BY <1>1, SpmIpcAssumption DEF Frame
<1>4. \A l \in 1 .. Len(frames) - 1 : frames[l].step = "calling"
  BY DEF TypeOK, Chain, Level
<1>5. \A l \in 1 .. Len(frames) - 1 : frames[l].handle \in Processes
  BY <1>4 DEF TypeOK, Chain, Level
<1>6. \A l \in 1 .. Len(frames) - 1 : frames[l].handle # frames[Len(frames)].handle
  BY <1>2, <1>3
<1>. QED BY <1>5, <1>6

\* A step of the innermost call, which may take the stack of its process.
LEMMA GotoChain ==
    ASSUME TypeOK, Chain, Saved, Occupied, Level > 0,
           NEW s \in Steps \ {"call", "calling"}, Goto(s),
           s # "done" => Process \in Processes,
           occupant' = occupant \/ occupant' = [occupant EXCEPT ![Process] = Level]
    PROVE  Chain' /\ Saved' /\ Occupied'
<1>1. /\ Len(frames') = Len(frames) /\ Len(frames) \in Nat
      /\ \A l \in 1 .. Len(frames) :
           /\ frames'[l].handle = frames[l].handle
           /\ frames'[l].saved = frames[l].saved
           /\ frames'[l].step = IF l = Len(frames) THEN s ELSE frames[l].step
  BY GotoFrames DEF TypeOK
<1>2. Chain'
  BY <1>1 DEF Chain, Level, Process
<1>3. Saved'
  BY <1>1 DEF Saved, Level, RunningCpu
<1>4. Occupied'
  <2>1. \A l \in 1 .. Len(frames) - 1 :
          frames[l].handle \in Processes /\ frames[l].handle # Process
    BY OtherProcesses DEF Process, Level
  <2>2. \A l \in 1 .. Len(frames) - 1 : occupant'[frames[l].handle] = occupant[frames[l].handle]
    BY <2>1 DEF TypeOK
  <2>. QED BY <1>1, <2>2 DEF Occupied, Level
<1>. QED BY <1>2, <1>3, <1>4

\* The MPU still follows when neither it nor the stack changes, and the call
\* on top has its vectors as before.
LEMMA MpuKept ==
    ASSUME MpuFollows, UNCHANGED <<mpu, connections>>,
           connections.top > 0 =>
             /\ frames'[Active(connections).owner].ins = frames[Active(connections).owner].ins
             /\ frames'[Active(connections).owner].outs = frames[Active(connections).owner].outs
    PROVE  MpuFollows'
<1> SUFFICES ASSUME connections.top > 0
             PROVE  mpu = MpuConfig(Active(connections).handle, connections, frames')
  BY DEF MpuFollows, MpuConfig, Regions, VecRegions, Active, CanTake
<1>. QED BY ConfigOfCalls DEF MpuFollows

\* Which call owns the connection on top.
LEMMA TopOwner ==
    ASSUME TypeOK, Stack, connections.top > 0
    PROVE  /\ CanTake(connections) /\ Active(connections) \in Conn
           /\ connections.top \in 1 .. Len(frames) /\ connections.top \in 1 .. MaxConnections
           /\ connections.top - 1 \in Slots
           /\ Active(connections).owner = connections.top
           /\ Active(connections).handle = frames[connections.top].handle
<1>1. connections.top \in 1 .. MaxConnections /\ connections.top - 1 \in Slots
  BY MaxConnectionsAssumption DEF TypeOK, StackOf, Slots
<1>2. connections.slots[connections.top - 1] \in Conn
  BY <1>1 DEF TypeOK, StackOf, Stack, Conn
<1>3. connections.top <= Len(frames)
  BY DEF TypeOK, Stack, Height, Level
<1>. QED BY <1>1, <1>2, <1>3 DEF Stack, CanTake, Active, TypeOK

\* A step that leaves the stack and the MPU alone.
LEMMA GotoStack ==
    ASSUME TypeOK, Stack, MpuFollows, Final, Level > 0, NEW s \in Steps, Goto(s),
           s \in {"call", "done"} <=> frames[Level].step \in {"call", "done"},
           UNCHANGED <<connections, mpu>>
    PROVE  Stack' /\ MpuFollows' /\ Final'
<1>1. /\ Len(frames') = Len(frames) /\ Len(frames) \in Nat \ {0}
      /\ \A l \in 1 .. Len(frames) :
           /\ frames'[l].handle = frames[l].handle
           /\ frames'[l].ins = frames[l].ins /\ frames'[l].outs = frames[l].outs
           /\ frames'[l].step = IF l = Len(frames) THEN s ELSE frames[l].step
  BY GotoFrames DEF TypeOK, Level
<1>2. Height' = Height
  BY <1>1 DEF Height, Level
<1>3. \A i \in Slots : i < connections.top => frames'[i + 1].handle = frames[i + 1].handle
  <2>1. connections.top <= Len(frames) /\ connections.top \in Nat
    BY <1>1 DEF Stack, Height, Level, TypeOK, StackOf
  <2>. QED BY <1>1, <2>1 DEF Slots
<1>4. Stack'
  BY <1>2, <1>3 DEF Stack
<1>5. MpuFollows'
  BY <1>1, TopOwner, MpuKept
<1>6. Final'
  BY DEF Final
<1>. QED BY <1>4, <1>5, <1>6

LEMMA DispatchRefusedIInv == IInv /\ DispatchRefused => IInv'
<1> SUFFICES ASSUME IInv, DispatchRefused PROVE IInv'
  OBVIOUS
<1>1. /\ Level > 0 /\ frames[Level].step = "call" /\ Goto("done")
      /\ UNCHANGED <<connections, initDone, cpu, occupant, ready, mpu>>
  BY DEF DispatchRefused, At
<1>2. /\ TypeOK /\ Chain /\ Saved /\ Occupied /\ Registers /\ Stack /\ Initialised
      /\ MpuFollows /\ Final
  BY DEF IInv
<1>3. "done" \in Steps
  BY DEF Steps
<1>4. /\ frames' \in Seq(Frame) /\ Len(frames') = Len(frames) /\ Len(frames) \in Nat \ {0}
      /\ \A l \in 1 .. Len(frames) :
           /\ frames'[l].handle = frames[l].handle
           /\ frames'[l].step = IF l = Len(frames) THEN "done" ELSE frames[l].step
  BY <1>1, <1>2, <1>3, GotoFrames DEF TypeOK, Level
<1>5. TypeOK'
  BY <1>1, <1>2, <1>4 DEF TypeOK
<1>6. Chain' /\ Saved' /\ Occupied'
  BY <1>1, <1>2, <1>3, GotoChain
<1>7. Stack' /\ MpuFollows' /\ Final'
  BY <1>1, <1>2, <1>3, GotoStack
<1>8. Registers'
  BY <1>1, <1>2, <1>4 DEF Registers, Unprivileged, At, Level
<1>9. Initialised'
  BY <1>1, <1>2, <1>4 DEF Initialised, Level, Process
<1>. QED BY <1>5, <1>6, <1>7, <1>8, <1>9 DEF IInv

\* The process of the innermost call gets its stack.
LEMMA StartRegisters ==
    ASSUME TypeOK, Level > 0, Process \in Processes, Start(Process),
           NEW s \in {"initialising", "running"}, Goto(s)
    PROVE  Registers' /\ cpu' \in Cpu /\ occupant' \in [Processes -> Levels \cup {0}]
<1>1. s \in Steps
  BY DEF Steps
<1>2. /\ Len(frames') = Len(frames) /\ Len(frames) \in Levels
      /\ frames'[Len(frames)].handle = Process /\ frames'[Len(frames)].step = s
  BY <1>1, GotoFrames, MaxConnectionsAssumption DEF TypeOK, Level, Process, Levels, MaxDepth
<1>3. /\ cpu' = [unprivileged |-> TRUE, psp |-> <<Process, Len(frames)>>, psplim |-> Process]
      /\ occupant' = [occupant EXCEPT ![Process] = Len(frames)]
  BY DEF Start, Level
<1>4. cpu' \in Cpu
  BY <1>2, <1>3 DEF Cpu
<1>5. occupant' \in [Processes -> Levels \cup {0}] /\ occupant'[Process] = Len(frames)
  BY <1>2, <1>3 DEF TypeOK
<1>6. Unprivileged' /\ Process' = Process /\ Level' = Len(frames)
  BY <1>2 DEF Unprivileged, At, Level, Process, Levels
<1>7. RunningCpu(Level)' = cpu'
  BY <1>2, <1>3, <1>6 DEF RunningCpu, Level
<1>. QED BY <1>4, <1>5, <1>6, <1>7 DEF Registers

LEMMA InitProcessIInv == IInv /\ InitProcess => IInv'
<1> SUFFICES ASSUME IInv, InitProcess PROVE IInv'
  OBVIOUS
<1>1. /\ Level > 0 /\ frames[Level].step = "init" /\ Goto("initialising") /\ Start(Process)
      /\ UNCHANGED <<connections, initDone, ready, mpu>>
  BY DEF InitProcess, At
<1>2. /\ TypeOK /\ Chain /\ Saved /\ Occupied /\ Registers /\ Stack /\ Initialised
      /\ MpuFollows /\ Final
  BY DEF IInv
<1>3. "initialising" \in Steps /\ Process \in Processes
  BY <1>1, <1>2 DEF Steps, Chain, Process, Level, TypeOK
<1>4. /\ frames' \in Seq(Frame) /\ Len(frames') = Len(frames) /\ Len(frames) \in Nat \ {0}
      /\ \A l \in 1 .. Len(frames) :
           /\ frames'[l].handle = frames[l].handle
           /\ frames'[l].step = IF l = Len(frames) THEN "initialising" ELSE frames[l].step
  BY <1>1, <1>2, <1>3, GotoFrames DEF TypeOK, Level
<1>5. Registers' /\ cpu' \in Cpu /\ occupant' \in [Processes -> Levels \cup {0}]
  BY <1>1, <1>2, <1>3, StartRegisters
<1>6. TypeOK'
  BY <1>1, <1>2, <1>4, <1>5 DEF TypeOK
<1>7. Chain' /\ Saved' /\ Occupied'
  BY <1>1, <1>2, <1>3, GotoChain DEF Start
<1>8. Stack' /\ MpuFollows' /\ Final'
  BY <1>1, <1>2, <1>3, GotoStack
<1>9. Initialised'
  BY <1>1, <1>2, <1>4 DEF Initialised, Level, Process
<1>. QED BY <1>5, <1>6, <1>7, <1>8, <1>9 DEF IInv

LEMMA CallProcessIInv == IInv /\ CallProcess => IInv'
<1> SUFFICES ASSUME IInv, CallProcess PROVE IInv'
  OBVIOUS
<1>1. /\ Level > 0 /\ frames[Level].step = "start"
      /\ UNCHANGED <<connections, initDone, ready, mpu>>
  BY DEF CallProcess, At
<1>2. /\ TypeOK /\ Chain /\ Saved /\ Occupied /\ Registers /\ Stack /\ Initialised
      /\ MpuFollows /\ Final
  BY DEF IInv
<1>3. /\ "running" \in Steps /\ "return" \in Steps
      /\ Process \in Processes
  BY <1>1, <1>2 DEF Steps, Chain, Process, Level, TypeOK
<1>4. PICK s \in {"running", "return"} :
        /\ Goto(s)
        /\ s = "running" => Start(Process)
        /\ s = "return" => UNCHANGED <<cpu, occupant>>
  BY DEF CallProcess
<1>5. /\ frames' \in Seq(Frame) /\ Len(frames') = Len(frames) /\ Len(frames) \in Nat \ {0}
      /\ \A l \in 1 .. Len(frames) :
           /\ frames'[l].handle = frames[l].handle
           /\ frames'[l].step = IF l = Len(frames) THEN s ELSE frames[l].step
  BY <1>1, <1>2, <1>3, <1>4, GotoFrames DEF TypeOK, Level
<1>6. Registers' /\ cpu' \in Cpu /\ occupant' \in [Processes -> Levels \cup {0}]
  <2>1. CASE s = "running"
    BY <1>1, <1>2, <1>3, <1>4, <2>1, StartRegisters
  <2>2. CASE s = "return"
    BY <1>1, <1>2, <1>4, <1>5, <2>2 DEF Registers, Unprivileged, At, Level, TypeOK
  <2>. QED BY <2>1, <2>2
<1>7. TypeOK'
  BY <1>1, <1>2, <1>5, <1>6 DEF TypeOK
<1>8. Chain' /\ Saved' /\ Occupied'
  BY <1>1, <1>2, <1>3, <1>4, GotoChain DEF Start
<1>9. Stack' /\ MpuFollows' /\ Final'
  BY <1>1, <1>2, <1>3, <1>4, GotoStack
<1>10. Initialised'
  BY <1>1, <1>2, <1>5 DEF Initialised, Level, Process
<1>. QED BY <1>6, <1>7, <1>8, <1>9, <1>10 DEF IInv

LEMMA ProcessExitIInv == IInv /\ ProcessExit => IInv'
<1> SUFFICES ASSUME IInv, ProcessExit PROVE IInv'
  OBVIOUS
<1>1. /\ Level > 0 /\ frames[Level].step \in {"initialising", "running"}
      /\ cpu' = [cpu EXCEPT !.unprivileged = FALSE]
      /\ UNCHANGED <<connections, initDone, occupant, mpu>>
  BY DEF ProcessExit, At
<1>2. /\ TypeOK /\ Chain /\ Saved /\ Occupied /\ Registers /\ Stack /\ Initialised
      /\ MpuFollows /\ Final
  BY DEF IInv
<1>3. /\ "start" \in Steps /\ "return" \in Steps
      /\ Process \in Processes
  BY <1>1, <1>2 DEF Steps, Chain, Process, Level, TypeOK
<1>4. PICK s \in {"start", "return"} :
        /\ Goto(s)
        /\ s = "start" => /\ frames[Level].step = "initialising"
                          /\ ready' = [ready EXCEPT ![Process] = TRUE]
        /\ s = "return" => frames[Level].step = "running" /\ UNCHANGED ready
  BY <1>1 DEF ProcessExit, At
<1>5. /\ frames' \in Seq(Frame) /\ Len(frames') = Len(frames) /\ Len(frames) \in Nat \ {0}
      /\ \A l \in 1 .. Len(frames) :
           /\ frames'[l].handle = frames[l].handle
           /\ frames'[l].step = IF l = Len(frames) THEN s ELSE frames[l].step
  BY <1>1, <1>2, <1>3, <1>4, GotoFrames DEF TypeOK, Level
<1>6. cpu' \in Cpu /\ ~cpu'.unprivileged
  BY <1>1, <1>2 DEF TypeOK, Cpu
<1>7. Registers'
  BY <1>5, <1>6 DEF Registers, Unprivileged, At, Level
<1>8. ready' \in [Processes -> BOOLEAN]
  BY <1>2, <1>4 DEF TypeOK
<1>9. TypeOK'
  BY <1>1, <1>2, <1>5, <1>6, <1>8 DEF TypeOK
<1>10. Chain' /\ Saved' /\ Occupied'
  BY <1>1, <1>2, <1>3, <1>4, GotoChain
<1>11. Stack' /\ MpuFollows' /\ Final'
  BY <1>1, <1>2, <1>3, <1>4, GotoStack
<1>12. Initialised'
  <2>1. CASE s = "start"
    <3>1. \A p \in Processes : ready'[p] = (ready[p] \/ p = Process)
      BY <1>2, <1>4, <2>1 DEF TypeOK
    <3>2. initDone[Process]
      BY <1>1, <1>2, <1>4, <2>1 DEF Initialised, Level, Process, TypeOK
    <3>3. \A l \in 1 .. Len(frames) - 1 : frames[l].step = "calling" /\ frames[l].handle \in Processes
      BY <1>2, <1>5 DEF Chain, Level
    <3>4. \A l \in 1 .. Len(frames) :
            /\ frames'[l].step \notin {"init", "initialising"}
            /\ ready'[frames'[l].handle]
      <4> TAKE l \in 1 .. Len(frames)
      <4>1. CASE l = Len(frames)
        BY <1>3, <1>5, <2>1, <3>1, <4>1 DEF Process, Level
      <4>2. CASE l # Len(frames)
        <5>1. l \in 1 .. Len(frames) - 1
          BY <1>5, <4>2
        <5>2. frames'[l].step = "calling" /\ frames'[l].handle = frames[l].handle
          BY <1>5, <3>3, <4>2, <5>1
        <5>3. ready[frames[l].handle]
          BY <1>2, <3>3, <5>1 DEF Initialised, Level
        <5>. QED BY <3>1, <3>3, <5>1, <5>2, <5>3
      <4>. QED BY <4>1, <4>2
    <3>5. \A p \in Processes : ready'[p] = initDone[p]
      BY <1>2, <3>1, <3>2, <1>8 DEF Initialised, TypeOK
    <3>. QED BY <1>1, <1>5, <3>4, <3>5 DEF Initialised, Level
  <2>2. CASE s = "return"
    BY <1>1, <1>2, <1>4, <1>5, <2>2 DEF Initialised, Level, Process
  <2>. QED BY <2>1, <2>2
<1>. QED BY <1>7, <1>9, <1>10, <1>11, <1>12 DEF IInv

------------------------------------------------------------------------------
(* Calls and returns. *)

\* A new call above the chain, from cpu as it stands.
LEMMA NewFrameType ==
    ASSUME TypeOK, NEW h \in Handles, NEW c \in Processes \cup {Client},
           NEW ins \in [VecIdx -> InBuffers[c]], NEW outs \in [VecIdx -> OutBuffers[c]]
    PROVE  /\ NewFrame(h, ins, outs) \in Frame
           /\ NewFrame(h, ins, outs).handle = h /\ NewFrame(h, ins, outs).step = "call"
           /\ NewFrame(h, ins, outs).saved = cpu
<1>1. ins \in Vectors /\ outs \in Vectors
  BY SpmIpcAssumption DEF Vectors
<1>. QED BY <1>1 DEF NewFrame, Frame, Steps, TypeOK

LEMMA ClientCallsIInv ==
    ASSUME IInv, NEW h \in Handles, NEW ins \in [VecIdx -> InBuffers[Client]],
           NEW outs \in [VecIdx -> OutBuffers[Client]], ClientCalls(h, ins, outs)
    PROVE  IInv'
<1>1. /\ frames = <<>> /\ frames' = <<NewFrame(h, ins, outs)>>
      /\ UNCHANGED <<connections, initDone, cpu, occupant, ready, mpu>>
  BY DEF ClientCalls
<1>2. /\ TypeOK /\ Registers /\ Stack /\ Initialised /\ Final
  BY DEF IInv
<1>3. /\ frames' \in Seq(Frame) /\ Len(frames') = 1 /\ Len(frames) = 0
      /\ frames'[1].handle = h /\ frames'[1].step = "call"
  BY <1>1, <1>2, NewFrameType
<1>4. TypeOK'
  BY <1>1, <1>2, <1>3, MaxConnectionsAssumption DEF TypeOK, MaxDepth
<1>5. Chain' /\ Saved' /\ Occupied'
  BY <1>3, SpmIpcAssumption DEF Chain, Saved, Occupied, Level
<1>6. Registers'
  BY <1>1, <1>2, <1>3 DEF Registers, Unprivileged, At, Level
<1>7. connections.top = 0 /\ Height' = 0
  BY <1>2, <1>3 DEF Stack, Height, Level
<1>8. Stack' /\ MpuFollows' /\ Final'
  BY <1>1, <1>2, <1>7 DEF Stack, MpuFollows, Final, Slots
<1>9. Initialised'
  BY <1>1, <1>2, <1>3 DEF Initialised, Level
<1>. QED BY <1>4, <1>5, <1>6, <1>8, <1>9 DEF IInv

LEMMA SvcPsaCallIInv ==
    ASSUME IInv, NEW h \in Handles, NEW ins \in [VecIdx -> InBuffers[Process]],
           NEW outs \in [VecIdx -> OutBuffers[Process]],
           Rank[h] < Rank[Process], SvcPsaCall(h, ins, outs)
    PROVE  IInv'
<1> DEFINE n == Len(frames)
           waiting == [frames EXCEPT ![n].step = "calling"]
           f == NewFrame(h, ins, outs)
<1>1. /\ n > 0 /\ frames[n].step = "running" /\ n < MaxDepth
      /\ frames' = Append(waiting, f)
      /\ cpu' = [cpu EXCEPT !.unprivileged = FALSE]
      /\ UNCHANGED <<connections, initDone, occupant, ready, mpu>>
  BY DEF SvcPsaCall, At, Level
<1>2. /\ TypeOK /\ Chain /\ Saved /\ Occupied /\ Registers /\ Stack /\ Initialised
      /\ MpuFollows /\ Final
  BY DEF IInv
<1>3. n \in Nat /\ Process = frames[n].handle /\ Process \in Processes
  <2>1. n \in Nat /\ n \in 1 .. n
    BY <1>1, <1>2 DEF TypeOK
  <2>2. Process = frames[n].handle
    BY DEF Process, Level
  <2>3. frames[n].handle \in Processes
    BY <1>1, <1>2, <2>1 DEF Chain, Level
  <2>. QED BY <2>1, <2>2, <2>3
<1>4. f \in Frame /\ f.handle = h /\ f.step = "call" /\ f.saved = cpu
  BY <1>2, <1>3, NewFrameType
<1>5. /\ waiting \in Seq(Frame) /\ Len(waiting) = n
      /\ \A l \in 1 .. n :
           /\ waiting[l].handle = frames[l].handle
           /\ waiting[l].ins = frames[l].ins /\ waiting[l].outs = frames[l].outs
           /\ waiting[l].saved = frames[l].saved
           /\ waiting[l].step = IF l = n THEN "calling" ELSE frames[l].step
  <2>1. \A g \in Frame : [g EXCEPT !.step = "calling"] \in Frame
    BY DEF Frame, Steps
  <2>2. frames \in Seq(Frame) /\ n \in 1 .. n /\ frames[n] \in Frame
    BY <1>1, <1>2 DEF TypeOK
  <2>3. waiting \in Seq(Frame) /\ Len(waiting) = n
    BY <2>1, <2>2
  <2>. QED BY <2>2, <2>3 DEF Frame
<1>6. /\ frames' \in Seq(Frame) /\ Len(frames') = n + 1
      /\ frames'[n + 1] = f /\ \A l \in 1 .. n : frames'[l] = waiting[l]
  <2> HIDE DEF waiting, f, n
  <2>. QED BY <1>1, <1>3, <1>4, <1>5
<1> HIDE DEF waiting, f
<1>7. cpu' \in Cpu /\ ~cpu'.unprivileged
  BY <1>1, <1>2 DEF TypeOK, Cpu
<1>8. TypeOK'
  BY <1>1, <1>2, <1>3, <1>6, <1>7, MaxConnectionsAssumption DEF TypeOK, MaxDepth
<1>9. Chain'
  <2>1. \A l \in 1 .. n + 1 : frames'[l].step = "calling" <=> l < n + 1
    BY <1>2, <1>3, <1>4, <1>5, <1>6 DEF Chain, Level
  <2>2. \A l, m \in 1 .. n + 1 : l < m => Rank[frames'[m].handle] < Rank[frames'[l].handle]
    <3> TAKE l, m \in 1 .. n + 1
    <3> HAVE l < m
    <3>1. CASE m <= n
      BY <1>2, <1>3, <1>5, <1>6, <3>1 DEF Chain, Level
    <3>2. CASE m = n + 1
      <4>1. l \in 1 .. n /\ frames'[m].handle = h /\ frames'[l].handle = frames[l].handle
        BY <1>3, <1>4, <1>5, <1>6, <3>2
      <4>2. frames[l].handle \in Handles
        <5>1. frames[l] \in Frame
          BY <1>2, <4>1 DEF TypeOK
        <5>. QED BY <5>1 DEF Frame
      <4>3. Rank[Process] <= Rank[frames[l].handle]
        <5>1. CASE l = n
          BY <1>3, <4>2, <5>1, SpmIpcAssumption
        <5>2. CASE l < n
          BY <1>2, <1>3, <4>1, <4>2, <5>2, SpmIpcAssumption DEF Chain, Level
        <5>. QED BY <4>1, <5>1, <5>2, <1>3
      <4>. QED BY <1>3, <4>1, <4>2, <4>3, SpmIpcAssumption
    <3>. QED BY <1>3, <3>1, <3>2
  <2>3. \A l \in 1 .. n + 1 :
          frames'[l].step \notin {"call", "done"} => frames'[l].handle \in Processes
    BY <1>1, <1>2, <1>3, <1>4, <1>5, <1>6 DEF Chain, Level
  <2>. QED BY <1>6, <2>1, <2>2, <2>3 DEF Chain, Level
<1>10. cpu = RunningCpu(n) /\ occupant[Process] = n
  BY <1>1, <1>2 DEF Registers, Unprivileged, At, Level
<1>11. Saved'
  <2> SUFFICES ASSUME NEW l \in 2 .. n + 1 PROVE frames'[l].saved = RunningCpu(l - 1)'
    BY <1>6 DEF Saved, Level
  <2>1. l - 1 \in 1 .. n /\ RunningCpu(l - 1)' = RunningCpu(l - 1)
    <3>1. l - 1 \in 1 .. n
      BY <1>3
    <3>2. frames'[l - 1].handle = frames[l - 1].handle
      BY <1>5, <1>6, <3>1
    <3>. QED BY <3>1, <3>2 DEF RunningCpu
  <2>2. CASE l = n + 1
    BY <1>3, <1>4, <1>6, <1>10, <2>1, <2>2
  <2>3. CASE l # n + 1
    BY <1>2, <1>3, <1>5, <1>6, <2>1, <2>3 DEF Saved, Level
  <2>. QED BY <2>2, <2>3
<1>12. Occupied'
  BY <1>1, <1>2, <1>3, <1>5, <1>6, <1>10 DEF Occupied, Level
<1>13. Registers'
  BY <1>3, <1>4, <1>6, <1>7 DEF Registers, Unprivileged, At, Level
<1>14. Height' = n /\ Height = n
  BY <1>1, <1>3, <1>4, <1>6 DEF Height, Level
<1>15. Stack'
  <2>1. \A i \in Slots : i < n => frames'[i + 1].handle = frames[i + 1].handle
    BY <1>3, <1>5, <1>6 DEF Slots
  <2>. QED BY <1>1, <1>2, <1>14, <2>1 DEF Stack
<1>16. MpuFollows'
  BY <1>1, <1>2, <1>5, <1>6, TopOwner, MpuKept
<1>17. Final'
  BY <1>1, <1>2 DEF Final
<1>18. Initialised'
  <2>1. \A p \in Processes : initDone[p] => ready[p]
    BY <1>1, <1>2 DEF Initialised, Level
  <2>2. ready[Process]
    BY <1>1, <1>2, <1>3 DEF Initialised, Level
  <2>3. \A l \in 1 .. n + 1 :
        /\ frames'[l].step \notin {"init", "initialising"}
        /\ frames'[l].step \in {"start", "running", "calling", "return"} => ready[frames'[l].handle]
    <3> TAKE l \in 1 .. n + 1
    <3>1. CASE l = n + 1
      BY <1>4, <1>6, <3>1
    <3>2. CASE l = n
      BY <1>3, <1>5, <1>6, <2>2, <3>2
    <3>3. CASE l < n
      BY <1>2, <1>3, <1>5, <1>6, <3>3 DEF Initialised, Chain, Level
    <3>. QED BY <1>3, <3>1, <3>2, <3>3
  <2>. QED BY <1>1, <1>2, <1>6, <2>1, <2>3 DEF Initialised, Level
<1>. QED BY <1>8, <1>9, <1>11, <1>12, <1>13, <1>15, <1>16, <1>17, <1>18 DEF IInv

LEMMA ClientReturnsIInv == IInv /\ ClientReturns => IInv'
<1> SUFFICES ASSUME IInv, ClientReturns PROVE IInv'
  OBVIOUS
<1>1. /\ Len(frames) = 1 /\ frames[1].step = "done" /\ frames' = <<>>
      /\ UNCHANGED <<connections, initDone, cpu, occupant, ready, mpu>>
  BY DEF ClientReturns, At, Level
<1>2. /\ TypeOK /\ Registers /\ Stack /\ Initialised /\ Final
  BY DEF IInv
<1>3. frames' \in Seq(Frame) /\ Len(frames') = 0
  BY <1>1
<1>4. TypeOK'
  BY <1>1, <1>2, <1>3, MaxConnectionsAssumption DEF TypeOK, MaxDepth
<1>5. Chain' /\ Saved' /\ Occupied'
  BY <1>3 DEF Chain, Saved, Occupied, Level
<1>6. Registers'
  BY <1>1, <1>2, <1>3 DEF Registers, Unprivileged, At, Level
<1>7. connections.top = 0 /\ Height' = 0
  BY <1>1, <1>2, <1>3 DEF Stack, Height, Level
<1>8. Stack' /\ MpuFollows' /\ Final'
  BY <1>1, <1>2, <1>7 DEF Stack, MpuFollows, Final, Slots
<1>9. Initialised'
  BY <1>1, <1>2, <1>3 DEF Initialised, Level
<1>. QED BY <1>4, <1>5, <1>6, <1>8, <1>9 DEF IInv

LEMMA PsaCallReturnIInv == IInv /\ PsaCallReturn => IInv'
<1> SUFFICES ASSUME IInv, PsaCallReturn PROVE IInv'
  OBVIOUS
<1> DEFINE n == Len(frames)
           below == Front(frames)
<1>1. /\ n > 1 /\ frames[n].step = "done" /\ cpu' = frames[n].saved
      /\ frames' = [below EXCEPT ![n - 1].step = "running"]
      /\ UNCHANGED <<connections, initDone, occupant, ready, mpu>>
  BY DEF PsaCallReturn, At, Level
<1>2. /\ TypeOK /\ Chain /\ Saved /\ Occupied /\ Registers /\ Stack /\ Initialised
      /\ MpuFollows /\ Final
  BY DEF IInv
<1>3. frames \in Seq(Frame) /\ n \in Nat /\ n <= MaxDepth
  BY <1>2 DEF TypeOK
<1>4. below \in Seq(Frame) /\ Len(below) = n - 1 /\ \A l \in 1 .. n - 1 : below[l] = frames[l]
  BY <1>1, <1>3 DEF Front
<1>5. /\ frames' \in Seq(Frame) /\ Len(frames') = n - 1
      /\ \A l \in 1 .. n - 1 :
           /\ frames'[l].handle = frames[l].handle
           /\ frames'[l].ins = frames[l].ins /\ frames'[l].outs = frames[l].outs
           /\ frames'[l].saved = frames[l].saved
           /\ frames'[l].step = IF l = n - 1 THEN "running" ELSE frames[l].step
  <2>1. \A g \in Frame : [g EXCEPT !.step = "running"] \in Frame
    BY DEF Frame, Steps
  <2>2. n - 1 \in 1 .. n - 1 /\ below[n - 1] \in Frame
    BY <1>1, <1>3, <1>4
  <2> HIDE DEF below, n
  <2>3. frames' \in Seq(Frame) /\ Len(frames') = n - 1
    BY <1>1, <1>4, <2>1, <2>2
  <2>. QED BY <1>1, <1>4, <2>2, <2>3 DEF Frame
<1> HIDE DEF below
<1>6. n - 1 \in 1 .. n - 1 /\ frames[n - 1].step = "calling" /\ frames[n - 1].handle \in Processes
  BY <1>1, <1>2, <1>3 DEF Chain, Level
<1>7. cpu' = RunningCpu(n - 1) /\ cpu' \in Cpu
  <2>1. cpu' = RunningCpu(n - 1)
    BY <1>1, <1>2, <1>3 DEF Saved, Level
  <2>2. frames[n] \in Frame
    BY <1>1, <1>3
  <2>. QED BY <1>1, <2>1, <2>2 DEF Frame
<1>8. TypeOK'
  BY <1>1, <1>2, <1>3, <1>5, <1>7, MaxConnectionsAssumption DEF TypeOK, MaxDepth
<1>9. Chain'
  <2>1. \A l \in 1 .. n - 1 : frames'[l].step = "calling" <=> l < n - 1
    BY <1>2, <1>3, <1>5 DEF Chain, Level
  <2>2. \A l, m \in 1 .. n - 1 : l < m => Rank[frames'[m].handle] < Rank[frames'[l].handle]
    BY <1>2, <1>3, <1>5 DEF Chain, Level
  <2>3. \A l \in 1 .. n - 1 :
          frames'[l].step \notin {"call", "done"} => frames'[l].handle \in Processes
    BY <1>2, <1>3, <1>5, <1>6 DEF Chain, Level
  <2>. QED BY <1>5, <2>1, <2>2, <2>3 DEF Chain, Level
<1>10. Saved'
  <2> SUFFICES ASSUME NEW l \in 2 .. n - 1 PROVE frames'[l].saved = RunningCpu(l - 1)'
    BY <1>5 DEF Saved, Level
  <2>1. l \in 1 .. n - 1 /\ l - 1 \in 1 .. n - 1 /\ l \in 2 .. n
    BY <1>3
  <2>2. RunningCpu(l - 1)' = RunningCpu(l - 1)
    BY <1>5, <2>1 DEF RunningCpu
  <2>. QED BY <1>2, <1>5, <2>1, <2>2 DEF Saved, Level
<1>11. Occupied'
  BY <1>1, <1>2, <1>3, <1>5 DEF Occupied, Level
<1>12. Registers'
  <2>1. Unprivileged' /\ Level' = n - 1 /\ Process' = frames[n - 1].handle
    BY <1>5, <1>6 DEF Unprivileged, At, Level, Process
  <2>2. occupant[frames[n - 1].handle] = n - 1
    BY <1>2, <1>6 DEF Occupied, Level
  <2>3. RunningCpu(Level)' = RunningCpu(n - 1)
    BY <1>5, <1>6, <2>1 DEF RunningCpu
  <2>. QED BY <1>1, <1>7, <2>1, <2>2, <2>3 DEF Registers
<1>13. Height' = n - 1 /\ Height = n - 1
  BY <1>1, <1>3, <1>5, <1>6 DEF Height, Level
<1>14. Stack'
  <2>1. \A i \in Slots : i < n - 1 => frames'[i + 1].handle = frames[i + 1].handle
    BY <1>3, <1>5 DEF Slots
  <2>. QED BY <1>1, <1>2, <1>13, <2>1 DEF Stack
<1>15. MpuFollows'
  <2>1. connections.top = n - 1
    BY <1>2, <1>13 DEF Stack
  <2>. QED BY <1>1, <1>2, <1>5, <1>6, <2>1, TopOwner, MpuKept
<1>16. Final'
  BY <1>1, <1>2 DEF Final
<1>17. Initialised'
  <2>1. \A p \in Processes : initDone[p] => ready[p]
    BY <1>1, <1>2 DEF Initialised, Level
  <2>2. \A l \in 1 .. n - 1 : frames[l].step = "calling" /\ ready[frames[l].handle]
    BY <1>2, <1>3 DEF Initialised, Chain, Level
  <2>3. \A l \in 1 .. n - 1 :
          frames'[l].step \notin {"init", "initialising"} /\ ready[frames'[l].handle]
    BY <1>5, <2>2
  <2>. QED BY <1>1, <1>2, <1>5, <2>1, <2>3 DEF Initialised, Level
<1>. QED BY <1>8, <1>9, <1>10, <1>11, <1>12, <1>14, <1>15, <1>16, <1>17 DEF IInv

\* What call_from_slices builds for the innermost call.
LEMMA NewConnectionType ==
    ASSUME NEW f \in Frame, NEW l \in Levels,
           NEW c, c = NewConnection(l, f.handle, [i \in VecIdx |-> f.ins[i].size],
                                                [i \in VecIdx |-> f.outs[i].size])
    PROVE  /\ c \in Conn /\ c.owner = l /\ c.handle = f.handle
           /\ \A j \in VecIdx : FinalVec(c.outvec[j])
<1>1. f.handle \in Handles /\ f.ins \in Vectors /\ f.outs \in Vectors
  BY DEF Frame
<1>2. \A i \in VecIdx : f.ins[i].size \in Nat /\ f.outs[i].size \in Nat
  BY <1>1 DEF Vectors
<1>3. /\ c.owner = l /\ c.handle = f.handle
      /\ \A j \in VecIdx : c.outvec[j].written = 0
  BY DEF NewConnection
<1>4. c \in Conn
  BY <1>1, <1>2 DEF NewConnection, Conn, ConnectionOf, InVec, OutVec
<1>. QED BY <1>3, <1>4 DEF FinalVec

LEMMA DispatchIInv == IInv /\ Dispatch => IInv'
<1> SUFFICES ASSUME IInv, Dispatch PROVE IInv'
  OBVIOUS
<1> DEFINE h == frames[Level].handle
           c == NewConnection(Level, h, [i \in VecIdx |-> frames[Level].ins[i].size],
                                        [i \in VecIdx |-> frames[Level].outs[i].size])
           added == Added(connections, c)
<1>0. PICK n : n = Len(frames)
  OBVIOUS
<1>1. /\ n > 0 /\ frames[n].step = "call" /\ h \in Processes /\ CanAdd(connections)
      /\ connections' = added /\ initDone' = [initDone EXCEPT ![h] = TRUE]
      /\ Goto(IF initDone[h] THEN "start" ELSE "init")
      /\ mpu' = MpuConfig(h, added, frames)
      /\ UNCHANGED <<cpu, occupant, ready>>
  BY <1>0, Zenon DEF Dispatch, At, Level
<1>2. /\ TypeOK /\ Chain /\ Saved /\ Occupied /\ Registers /\ Stack /\ Initialised
      /\ MpuFollows /\ Final
  BY DEF IInv
<1>3. n \in Nat /\ n \in Levels /\ frames[n] \in Frame /\ Level = n /\ Process = h
  BY <1>0, <1>1, <1>2, MaxConnectionsAssumption DEF TypeOK, Levels, MaxDepth, Level, Process
<1>4. PICK s \in {"start", "init"} : Goto(s) /\ (s = "start" <=> initDone[h])
  <2>1. CASE initDone[h]
    BY <1>1, <2>1
  <2>2. CASE ~initDone[h]
    BY <1>1, <2>2
  <2>. QED BY <2>1, <2>2
<1>5. s \in Steps \ {"call", "calling"} /\ s # "done"
  BY DEF Steps
<1>6. /\ frames' \in Seq(Frame) /\ Len(frames') = n
      /\ \A l \in 1 .. n :
           /\ frames'[l].handle = frames[l].handle
           /\ frames'[l].ins = frames[l].ins /\ frames'[l].outs = frames[l].outs
           /\ frames'[l].step = IF l = n THEN s ELSE frames[l].step
  BY <1>0, <1>1, <1>2, <1>3, <1>4, <1>5, GotoFrames
<1>7. Chain' /\ Saved' /\ Occupied'
  BY <1>1, <1>2, <1>3, <1>4, <1>5, GotoChain
<1>8. Registers'
  BY <1>0, <1>1, <1>2, <1>3, <1>6 DEF Registers, Unprivileged, At, Level
<1>9. /\ c \in Conn /\ c.owner = n /\ c.handle = h /\ c # Absent
      /\ \A j \in VecIdx : FinalVec(c.outvec[j])
  BY <1>3, NewConnectionType, SpmIpcAssumption DEF Conn, Levels, MaxDepth
<1> HIDE DEF c
<1>10. connections.top = n - 1 /\ n - 1 \in Slots
  <2>1. Height = n - 1
    BY <1>1, <1>3 DEF Height
  <2>2. connections.top = n - 1 /\ connections.top < MaxConnections
    BY <1>1, <1>2, <2>1 DEF Stack, CanAdd
  <2>. QED BY <1>1, <1>3, <2>2, MaxConnectionsAssumption DEF Slots
<1>11. /\ added \in StackOf(Conn) /\ added.top = n
       /\ \A i \in Slots : added.slots[i] = IF i = n - 1 THEN c ELSE connections.slots[i]
  <2>1. connections.slots \in [Slots -> Conn \cup {Absent}]
    BY <1>2 DEF TypeOK, StackOf, Conn
  <2>2. added = [slots |-> [connections.slots EXCEPT ![n - 1] = c], top |-> n]
    BY <1>3, <1>10 DEF Added
  <2>3. n \in 0 .. MaxConnections
    BY <1>3, <1>10, MaxConnectionsAssumption DEF Slots
  <2>. QED BY <1>9, <1>10, <2>1, <2>2, <2>3 DEF StackOf
<1>12. Active(added) = c
  BY <1>10, <1>11 DEF Active
<1> HIDE DEF added
<1>13. mpu' \in Seq(Window) /\ Len(mpu') <= MaxRegions
  BY <1>1, <1>3, <1>9, <1>11, <1>12, MpuConfigType
<1>14. initDone' \in [Processes -> BOOLEAN] /\ \A p \in Processes : initDone'[p] = (initDone[p] \/ p = h)
  BY <1>1, <1>2 DEF TypeOK
<1>15. TypeOK'
  BY <1>0, <1>1, <1>2, <1>6, <1>11, <1>13, <1>14 DEF TypeOK, Conn
<1>16. Stack'
  <2>1. Height' = n
    BY <1>1, <1>3, <1>6 DEF Height, Level
  <2>2. \A i \in Slots : i < n - 1 => frames'[i + 1].handle = frames[i + 1].handle
    BY <1>3, <1>6 DEF Slots
  <2>3. ASSUME NEW i \in Slots
        PROVE  IF i < n
               THEN added.slots[i] # Absent /\ added.slots[i].owner = i + 1
                    /\ added.slots[i].handle = frames'[i + 1].handle
               ELSE added.slots[i] = Absent
    <3>1. CASE i = n - 1
      <4>1. added.slots[i] = c /\ i + 1 = n /\ i < n /\ n \in 1 .. n
        BY <1>1, <1>3, <1>11, <3>1
      <4>2. frames'[n].handle = h
        BY <1>3, <1>6, <4>1
      <4>. QED BY <1>9, <4>1, <4>2
    <3>2. CASE i < n - 1
      <4>1. added.slots[i] = connections.slots[i] /\ i < n /\ i < connections.top
        BY <1>3, <1>10, <1>11, <3>2 DEF Slots
      <4>. QED BY <1>2, <2>2, <3>2, <4>1 DEF Stack
    <3>3. CASE i > n - 1
      BY <1>2, <1>3, <1>10, <1>11, <3>3 DEF Stack, Slots
    <3>. QED BY <1>3, <3>1, <3>2, <3>3 DEF Slots
  <2>. QED BY <1>1, <1>11, <2>1, <2>3 DEF Stack
<1>17. MpuFollows'
  <2>1. MpuConfig(h, added, frames) = MpuConfig(h, added, frames')
    <3>1. n \in 1 .. n
      BY <1>1, <1>3
    <3>2. frames[n].ins = frames'[n].ins /\ frames[n].outs = frames'[n].outs
      BY <1>6, <3>1
    <3>. QED BY <1>9, <1>12, <3>2, ConfigOfCalls
  <2>2. Active(added).handle = h
    BY <1>9, <1>12
  <2>3. mpu' = MpuConfig(Active(added).handle, added, frames')
    BY <1>1, <2>1, <2>2
  <2>. QED BY <1>1, <2>3 DEF MpuFollows, MpuConfig, Regions, CanTake, Active
<1>18. Final'
  BY <1>1, <1>2, <1>9, <1>11 DEF Final
<1>19. Initialised'
  <2>1. \A p \in Processes : initDone[p] = ready[p]
    BY <1>0, <1>1, <1>2, <1>3 DEF Initialised, TypeOK
  <2>2. \A p \in Processes : ready[p] => initDone'[p]
    BY <1>14, <2>1
  <2>3. s = "init" => ~ready[h]
    BY <1>1, <1>4, <2>1
  <2>4. s = "start" => ready[h]
    BY <1>1, <1>4, <2>1
  <2>5. \A p \in Processes : initDone'[p] /\ ~ready[p] => p = h /\ s = "init"
    BY <1>14, <2>1, <2>4
  <2>6. \A l \in 1 .. n - 1 : frames[l].step = "calling" /\ ready[frames[l].handle]
    BY <1>0, <1>2, <1>3 DEF Initialised, Chain, Level
  <2>7. ASSUME NEW l \in 1 .. n
        PROVE  /\ frames'[l].step \in {"init", "initialising"} =>
                    initDone'[frames'[l].handle] /\ ~ready[frames'[l].handle]
               /\ frames'[l].step \in {"start", "running", "calling", "return"} =>
                    ready[frames'[l].handle]
    <3>1. CASE l = n
      BY <1>1, <1>3, <1>6, <1>14, <2>3, <2>4, <3>1
    <3>2. CASE l # n
      BY <1>3, <1>6, <2>6, <3>2
    <3>. QED BY <3>1, <3>2
  <2>8. Process' = h /\ Level' = n /\ (frames[Level].step)' = s
    BY <1>1, <1>3, <1>6 DEF Process, Level
  <2>. QED BY <1>1, <1>3, <1>6, <2>2, <2>5, <2>7, <2>8 DEF Initialised, Level
<1>. QED BY <1>7, <1>8, <1>15, <1>16, <1>17, <1>18, <1>19 DEF IInv

LEMMA ReturnIInv == IInv /\ Return => IInv'
<1> SUFFICES ASSUME IInv, Return PROVE IInv'
  OBVIOUS
<1> DEFINE popped == Popped(connections)
<1>0. PICK n : n = Len(frames)
  OBVIOUS
<1>1. /\ n > 0 /\ frames[n].step = "return" /\ Goto("done")
      /\ connections' = popped
      /\ mpu' = IF CanTake(popped) THEN MpuConfig(Active(popped).handle, popped, frames) ELSE mpu
      /\ UNCHANGED <<initDone, cpu, occupant, ready>>
  BY <1>0, Zenon DEF Return, At, Level
<1>2. /\ TypeOK /\ Chain /\ Saved /\ Occupied /\ Registers /\ Stack /\ Initialised
      /\ MpuFollows /\ Final
  BY DEF IInv
<1>3. n \in Nat /\ Level = n /\ n \in 1 .. n /\ "done" \in Steps \ {"call", "calling"}
  BY <1>0, <1>1, <1>2 DEF TypeOK, Level, Steps
<1>4. /\ frames' \in Seq(Frame) /\ Len(frames') = n
      /\ \A l \in 1 .. n :
           /\ frames'[l].handle = frames[l].handle
           /\ frames'[l].ins = frames[l].ins /\ frames'[l].outs = frames[l].outs
           /\ frames'[l].step = IF l = n THEN "done" ELSE frames[l].step
  BY <1>0, <1>1, <1>2, <1>3, GotoFrames
<1>5. Chain' /\ Saved' /\ Occupied'
  BY <1>1, <1>2, <1>3, GotoChain
<1>6. Registers'
  BY <1>0, <1>1, <1>2, <1>3, <1>4 DEF Registers, Unprivileged, At, Level
<1>7. connections.top = n /\ n - 1 \in Slots
  <2>1. Height = n
    BY <1>1, <1>3 DEF Height
  <2>2. connections.top = n /\ n \in 0 .. MaxConnections
    BY <1>2, <2>1 DEF Stack, TypeOK, StackOf
  <2>. QED BY <1>1, <1>3, <2>2, MaxConnectionsAssumption DEF Slots
<1>8. /\ popped \in StackOf(Conn) /\ popped.top = n - 1
      /\ \A i \in Slots : popped.slots[i] = IF i = n - 1 THEN Absent ELSE connections.slots[i]
  <2>1. connections.slots \in [Slots -> Conn \cup {Absent}]
    BY <1>2 DEF TypeOK, StackOf, Conn
  <2>2. popped = [slots |-> [connections.slots EXCEPT ![n - 1] = Absent], top |-> n - 1]
    BY <1>1, <1>3, <1>7 DEF Popped
  <2>3. n - 1 \in 0 .. MaxConnections
    BY <1>3, <1>7, MaxConnectionsAssumption DEF Slots
  <2>. QED BY <1>7, <2>1, <2>2, <2>3 DEF StackOf
<1> HIDE DEF popped
<1>9. Stack'
  <2>1. Height' = n - 1
    BY <1>3, <1>4 DEF Height, Level
  <2>2. \A i \in Slots : i < n - 1 => frames'[i + 1].handle = frames[i + 1].handle
    BY <1>3, <1>4 DEF Slots
  <2>3. ASSUME NEW i \in Slots
        PROVE  IF i < n - 1
               THEN popped.slots[i] # Absent /\ popped.slots[i].owner = i + 1
                    /\ popped.slots[i].handle = frames'[i + 1].handle
               ELSE popped.slots[i] = Absent
    <3>1. CASE i = n - 1
      BY <1>3, <1>8, <3>1
    <3>2. CASE i < n - 1
      <4>1. popped.slots[i] = connections.slots[i] /\ i < connections.top
        BY <1>3, <1>7, <1>8, <3>2 DEF Slots
      <4>. QED BY <1>2, <2>2, <3>2, <4>1 DEF Stack
    <3>3. CASE i > n - 1
      <4>1. popped.slots[i] = connections.slots[i] /\ ~(i < connections.top)
        BY <1>3, <1>7, <1>8, <3>3 DEF Slots
      <4>. QED BY <1>2, <1>3, <3>3, <4>1 DEF Stack, Slots
    <3>. QED BY <1>3, <3>1, <3>2, <3>3 DEF Slots
  <2>. QED BY <1>1, <1>8, <2>1, <2>3 DEF Stack
<1>10. ASSUME n > 1
       PROVE  /\ CanTake(popped) /\ Active(popped).owner = n - 1
              /\ Active(popped).handle = frames[n - 1].handle /\ frames[n - 1].handle \in Processes
              /\ n - 1 \in 1 .. n /\ frames[n - 1] \in Frame
  <2>1. n - 2 \in Slots /\ n - 2 < connections.top /\ n - 2 # n - 1 /\ n - 2 + 1 = n - 1
    BY <1>3, <1>7, <1>10, MaxConnectionsAssumption DEF Slots
  <2>2. popped.slots[n - 2] = connections.slots[n - 2]
    BY <1>8, <2>1
  <2>3. Active(popped) = connections.slots[n - 2]
    BY <1>3, <1>8, <2>2 DEF Active
  <2>4. /\ connections.slots[n - 2] # Absent /\ connections.slots[n - 2].owner = n - 1
        /\ connections.slots[n - 2].handle = frames[n - 1].handle
    BY <1>2, <2>1 DEF Stack
  <2>5. CanTake(popped)
    BY <1>3, <1>8, <1>10, <2>3, <2>4 DEF CanTake, Active
  <2>6. n - 1 \in 1 .. Len(frames) - 1 /\ n - 1 \in 1 .. n /\ n - 1 \in 1 .. Len(frames)
    BY <1>0, <1>3, <1>10
  <2>7. frames[n - 1].handle \in Processes /\ frames[n - 1] \in Frame
    BY <1>2, <2>6, OtherProcesses DEF TypeOK
  <2>. QED BY <2>3, <2>4, <2>5, <2>6, <2>7
<1>11. n = 1 => ~CanTake(popped)
  BY <1>8 DEF CanTake
<1>12. mpu' \in Seq(Window) /\ Len(mpu') <= MaxRegions
  <2>1. CASE n = 1
    BY <1>1, <1>2, <1>11, <2>1 DEF TypeOK
  <2>2. CASE n > 1
    BY <1>1, <1>8, <1>10, <2>2, MpuConfigType
  <2>. QED BY <1>1, <1>3, <2>1, <2>2
<1>13. TypeOK'
  BY <1>0, <1>1, <1>2, <1>4, <1>8, <1>12 DEF TypeOK, Conn
<1>14. MpuFollows'
  <2>1. CASE n = 1
    BY <1>1, <1>8, <2>1 DEF MpuFollows
  <2>2. CASE n > 1
    <3>1. /\ frames[n - 1].ins = frames'[n - 1].ins
          /\ frames[n - 1].outs = frames'[n - 1].outs
      BY <1>4, <1>10, <2>2
    <3>2. MpuConfig(Active(popped).handle, popped, frames)
            = MpuConfig(Active(popped).handle, popped, frames')
      BY <1>10, <2>2, <3>1, ConfigOfCalls
    <3>3. mpu' = MpuConfig(Active(popped).handle, popped, frames')
      BY <1>1, <1>10, <2>2, <3>2
    <3>. QED BY <1>1, <3>3 DEF MpuFollows, MpuConfig, Regions, CanTake, Active
  <2>. QED BY <1>1, <1>3, <2>1, <2>2
<1>15. Final'
  BY <1>1, <1>2, <1>8 DEF Final
<1>16. Initialised'
  <2>1. \A p \in Processes : initDone[p] => ready[p]
    BY <1>0, <1>1, <1>2, <1>3 DEF Initialised
  <2>2. \A l \in 1 .. n - 1 : frames[l].step = "calling" /\ ready[frames[l].handle]
    BY <1>0, <1>2, <1>3 DEF Initialised, Chain, Level
  <2>3. ASSUME NEW l \in 1 .. n
        PROVE  /\ frames'[l].step \notin {"init", "initialising"}
               /\ frames'[l].step \in {"start", "running", "calling", "return"} =>
                    ready[frames'[l].handle]
    BY <1>3, <1>4, <2>2
  <2>. QED BY <1>1, <1>2, <1>4, <2>1, <2>3 DEF Initialised, Level
<1>. QED BY <1>5, <1>6, <1>9, <1>13, <1>14, <1>15, <1>16 DEF IInv

------------------------------------------------------------------------------
(* Accesses and releases. *)

\* What a step may do to an output vector.
OutStep(v, w) ==
    /\ v.written # 0 => w.written = v.written /\ w.size = v.size /\ ~InHand(w)
    /\ w.size # v.size => w.size = w.written /\ w.size < v.size

\* d is c with some vector accessed or given back.
VecStep(c, d) ==
    /\ d \in Conn /\ d.owner = c.owner /\ d.handle = c.handle
    /\ \A j \in VecIdx : /\ FinalVec(d.outvec[j]) /\ OutStep(c.outvec[j], d.outvec[j])
                         /\ d.invec[j].size = c.invec[j].size

LEMMA SameVec == ASSUME NEW v \in OutVec, FinalVec(v) PROVE OutStep(v, v)
BY DEF FinalVec, OutStep, InHand, OutVec

\* c with one vector replaced.
LEMMA WithOut ==
    ASSUME NEW c \in Conn, NEW i \in VecIdx, NEW v \in OutVec,
           NEW d, d = [c EXCEPT !.outvec[i] = v]
    PROVE  /\ d \in Conn /\ d.owner = c.owner /\ d.handle = c.handle /\ d.invec = c.invec
           /\ \A j \in VecIdx : d.outvec[j] = IF j = i THEN v ELSE c.outvec[j]
BY DEF Conn, ConnectionOf

LEMMA WithIn ==
    ASSUME NEW c \in Conn, NEW i \in VecIdx, NEW v \in InVec,
           NEW d, d = [c EXCEPT !.invec[i] = v]
    PROVE  /\ d \in Conn /\ d.owner = c.owner /\ d.handle = c.handle /\ d.outvec = c.outvec
           /\ \A j \in VecIdx : d.invec[j] = IF j = i THEN v ELSE c.invec[j]
BY DEF Conn, ConnectionOf

LEMMA AccessStep ==
    ASSUME NEW c \in Conn, \A j \in VecIdx : FinalVec(c.outvec[j]),
           NEW isOut \in BOOLEAN, NEW i \in AnyIdx,
           IF isOut THEN CanPrepareOut(c, i) ELSE CanPrepareIn(c, i),
           NEW d, d = SetMapped(IF isOut THEN PreparedOut(c, i) ELSE PreparedIn(c, i), isOut, i, TRUE)
    PROVE  VecStep(c, d)
<1>1. /\ c.invec \in [VecIdx -> InVec] /\ c.outvec \in [VecIdx -> OutVec]
      /\ i \in VecIdx
  BY DEF Conn, ConnectionOf, CanPrepareOut, CanPrepareIn
<1>2. CASE isOut
  <2> DEFINE v == [c.outvec[i] EXCEPT !.mapped = TRUE]
             e == [c EXCEPT !.outvec[i] = v]
             w == [v EXCEPT !.mapped = TRUE, !.unmapped = FALSE]
  <2>1. c.outvec[i] \in OutVec /\ c.outvec[i].written = 0
    BY <1>1, <1>2 DEF CanPrepareOut
  <2>2. v \in OutVec /\ w \in OutVec /\ w.written = 0 /\ w.size = c.outvec[i].size
    BY <2>1 DEF OutVec
  <2>3. d = SetMapped(e, TRUE, i, TRUE)
    BY <1>2 DEF PreparedOut
  <2> HIDE DEF e, v
  <2>4. /\ e \in Conn /\ e.owner = c.owner /\ e.handle = c.handle /\ e.invec = c.invec
        /\ \A j \in VecIdx : e.outvec[j] = IF j = i THEN v ELSE c.outvec[j]
    BY <1>1, <2>2, WithOut DEF e
  <2> DEFINE g == [e EXCEPT !.outvec[i] = w]
  <2>5. d = g
    BY <1>1, <2>3, <2>4 DEF SetMapped
  <2> HIDE DEF w, g
  <2>6. /\ g \in Conn /\ g.owner = e.owner /\ g.handle = e.handle /\ g.invec = e.invec
        /\ \A j \in VecIdx : g.outvec[j] = IF j = i THEN w ELSE e.outvec[j]
    BY <1>1, <2>2, <2>4, WithOut DEF g
  <2>7. FinalVec(w) /\ OutStep(c.outvec[i], w)
    BY <2>1, <2>2 DEF FinalVec, OutStep
  <2>. QED BY <1>1, <2>4, <2>5, <2>6, <2>7, SameVec DEF VecStep
<1>3. CASE ~isOut
  <2> DEFINE v == [c.invec[i] EXCEPT !.mapped = TRUE]
             e == [c EXCEPT !.invec[i] = v]
             w == [v EXCEPT !.mapped = TRUE, !.unmapped = FALSE]
  <2>1. v \in InVec /\ w \in InVec /\ v.size = c.invec[i].size /\ w.size = v.size
    BY <1>1 DEF InVec
  <2>2. d = SetMapped(e, FALSE, i, TRUE)
    BY <1>3 DEF PreparedIn
  <2> HIDE DEF e, v
  <2>3. /\ e \in Conn /\ e.owner = c.owner /\ e.handle = c.handle /\ e.outvec = c.outvec
        /\ \A j \in VecIdx : e.invec[j] = IF j = i THEN v ELSE c.invec[j]
    BY <1>1, <2>1, WithIn DEF e
  <2> DEFINE g == [e EXCEPT !.invec[i] = w]
  <2>4. d = g
    BY <1>1, <2>2, <2>3 DEF SetMapped
  <2> HIDE DEF w, g
  <2>5. /\ g \in Conn /\ g.owner = e.owner /\ g.handle = e.handle /\ g.outvec = e.outvec
        /\ \A j \in VecIdx : g.invec[j] = IF j = i THEN w ELSE e.invec[j]
    BY <1>1, <2>1, <2>3, WithIn DEF g
  <2>6. \A j \in VecIdx : FinalVec(d.outvec[j]) /\ OutStep(c.outvec[j], d.outvec[j])
    BY <1>1, <2>3, <2>4, <2>5, SameVec
  <2>7. \A j \in VecIdx : d.invec[j].size = c.invec[j].size
    BY <2>1, <2>3, <2>4, <2>5
  <2>. QED BY <2>3, <2>4, <2>5, <2>6, <2>7 DEF VecStep
<1>. QED BY <1>2, <1>3

LEMMA ReleaseStep ==
    ASSUME NEW c \in Conn, \A j \in VecIdx : FinalVec(c.outvec[j]),
           NEW isOut \in BOOLEAN, NEW i \in AnyIdx, NEW n \in Nat,
           IF isOut THEN CanCommit(c, i, n) ELSE CanMarkIn(c, i),
           NEW d, d = SetMapped(IF isOut THEN Committed(c, i, n) ELSE MarkedIn(c, i), isOut, i, FALSE)
    PROVE  VecStep(c, d)
<1>1. /\ c.invec \in [VecIdx -> InVec] /\ c.outvec \in [VecIdx -> OutVec]
      /\ i \in VecIdx
  BY DEF Conn, ConnectionOf, CanCommit, CanMarkIn
<1>2. CASE isOut
  <2> DEFINE v == CommittedVec(c.outvec[i], n)
             e == [c EXCEPT !.outvec[i] = v]
             w == [v EXCEPT !.mapped = FALSE, !.unmapped = TRUE]
  <2>1. c.outvec[i] \in OutVec /\ c.outvec[i].written = 0 /\ n <= c.outvec[i].size
    BY <1>1, <1>2 DEF CanCommit, FinalVec
  <2>2. /\ v \in OutVec /\ w \in OutVec
        /\ w.written = n /\ w.size = n /\ ~w.mapped /\ w.unmapped
    BY <2>1 DEF OutVec, CommittedVec
  <2>3. d = SetMapped(e, TRUE, i, FALSE)
    BY <1>2 DEF Committed
  <2> HIDE DEF e, v
  <2>4. /\ e \in Conn /\ e.owner = c.owner /\ e.handle = c.handle /\ e.invec = c.invec
        /\ \A j \in VecIdx : e.outvec[j] = IF j = i THEN v ELSE c.outvec[j]
    BY <1>1, <2>2, WithOut DEF e
  <2> DEFINE g == [e EXCEPT !.outvec[i] = w]
  <2>5. d = g
    BY <1>1, <2>3, <2>4 DEF SetMapped
  <2> HIDE DEF w, g
  <2>6. /\ g \in Conn /\ g.owner = e.owner /\ g.handle = e.handle /\ g.invec = e.invec
        /\ \A j \in VecIdx : g.outvec[j] = IF j = i THEN w ELSE e.outvec[j]
    BY <1>1, <2>2, <2>4, WithOut DEF g
  <2>7. FinalVec(w) /\ OutStep(c.outvec[i], w)
    BY <2>1, <2>2 DEF FinalVec, OutStep, OutVec
  <2>. QED BY <1>1, <2>4, <2>5, <2>6, <2>7, SameVec DEF VecStep
<1>3. CASE ~isOut
  <2> DEFINE v == [c.invec[i] EXCEPT !.unmapped = TRUE]
             e == [c EXCEPT !.invec[i] = v]
             w == [v EXCEPT !.mapped = FALSE, !.unmapped = TRUE]
  <2>1. v \in InVec /\ w \in InVec /\ v.size = c.invec[i].size /\ w.size = v.size
    BY <1>1 DEF InVec
  <2>2. d = SetMapped(e, FALSE, i, FALSE)
    BY <1>3 DEF MarkedIn
  <2> HIDE DEF e, v
  <2>3. /\ e \in Conn /\ e.owner = c.owner /\ e.handle = c.handle /\ e.outvec = c.outvec
        /\ \A j \in VecIdx : e.invec[j] = IF j = i THEN v ELSE c.invec[j]
    BY <1>1, <2>1, WithIn DEF e
  <2> DEFINE g == [e EXCEPT !.invec[i] = w]
  <2>4. d = g
    BY <1>1, <2>2, <2>3 DEF SetMapped
  <2> HIDE DEF w, g
  <2>5. /\ g \in Conn /\ g.owner = e.owner /\ g.handle = e.handle /\ g.outvec = e.outvec
        /\ \A j \in VecIdx : g.invec[j] = IF j = i THEN w ELSE e.invec[j]
    BY <1>1, <2>1, <2>3, WithIn DEF g
  <2>6. \A j \in VecIdx : FinalVec(d.outvec[j]) /\ OutStep(c.outvec[j], d.outvec[j])
    BY <1>1, <2>3, <2>4, <2>5, SameVec
  <2>7. \A j \in VecIdx : d.invec[j].size = c.invec[j].size
    BY <2>1, <2>3, <2>4, <2>5
  <2>. QED BY <2>3, <2>4, <2>5, <2>6, <2>7 DEF VecStep
<1>. QED BY <1>2, <1>3

LEMMA UpdateIInv ==
    ASSUME IInv, At("running"), CanTake(connections),
           NEW d, VecStep(Active(connections), d), Update(d)
    PROVE  IInv'
<1> DEFINE s == [connections EXCEPT !.slots = [@ EXCEPT ![connections.top - 1] = d]]
<1>0. PICK n : n = Len(frames)
  OBVIOUS
<1>1. /\ n > 0 /\ frames[n].step = "running"
      /\ connections' = s /\ mpu' = MpuConfig(d.handle, s, frames)
      /\ UNCHANGED <<initDone, frames, cpu, occupant, ready>>
  BY <1>0, Zenon DEF Update, At, Level
<1>2. /\ TypeOK /\ Chain /\ Saved /\ Occupied /\ Registers /\ Stack /\ Initialised
      /\ MpuFollows /\ Final
  BY DEF IInv
<1>3. n \in Nat /\ Level = n /\ n \in 1 .. n /\ frames[n] \in Frame
  BY <1>0, <1>1, <1>2 DEF TypeOK, Level
<1>4. frames[n].handle \in Processes
  BY <1>1, <1>2, <1>3 DEF Chain
<1>5. connections.top = n
  BY <1>1, <1>2, <1>3 DEF Stack, Height
<1>6. n - 1 \in Slots /\ Active(connections).owner = n /\ Active(connections).handle = frames[n].handle
  BY <1>1, <1>2, <1>5, TopOwner
<1>7. /\ d \in Conn /\ d.owner = n /\ d.handle = frames[n].handle /\ d # Absent
      /\ \A j \in VecIdx : FinalVec(d.outvec[j])
  BY <1>6, SpmIpcAssumption DEF VecStep, Conn, Levels, MaxDepth
<1>8. /\ s \in StackOf(Conn) /\ s.top = n
      /\ \A i \in Slots : s.slots[i] = IF i = n - 1 THEN d ELSE connections.slots[i]
  <2>1. connections.slots \in [Slots -> Conn \cup {Absent}]
    BY <1>2 DEF TypeOK, StackOf, Conn
  <2>2. n \in 0 .. MaxConnections
    BY <1>3, <1>6, MaxConnectionsAssumption DEF Slots
  <2>3. s = [connections EXCEPT !.slots = [connections.slots EXCEPT ![n - 1] = d]]
    BY <1>5
  <2>4. s = [slots |-> [connections.slots EXCEPT ![n - 1] = d], top |-> n]
    BY <1>2, <1>5, <2>3 DEF TypeOK, StackOf
  <2> HIDE DEF s
  <2>. QED BY <1>6, <1>7, <2>1, <2>2, <2>4 DEF StackOf
<1> HIDE DEF s
<1>9. Active(s) = d
  BY <1>6, <1>8 DEF Active
<1>10. mpu' \in Seq(Window) /\ Len(mpu') <= MaxRegions
  BY <1>1, <1>3, <1>4, <1>7, <1>8, <1>9, MpuConfigType
<1>11. TypeOK'
  BY <1>1, <1>2, <1>8, <1>10 DEF TypeOK, Conn
<1>12. Chain' /\ Saved' /\ Occupied' /\ Registers' /\ Initialised'
  BY <1>1, <1>2 DEF Chain, Saved, Occupied, Registers, Initialised, Level, Process, RunningCpu,
                    Unprivileged, At
<1>13. Stack'
  <2>1. Height' = n
    BY <1>1, <1>2, <1>5 DEF Stack, Height, Level
  <2>2. ASSUME NEW i \in Slots
        PROVE  IF i < n
               THEN s.slots[i] # Absent /\ s.slots[i].owner = i + 1
                    /\ s.slots[i].handle = frames[i + 1].handle
               ELSE s.slots[i] = Absent
    <3>1. CASE i = n - 1
      BY <1>3, <1>7, <1>8, <3>1
    <3>2. CASE i # n - 1
      BY <1>2, <1>5, <1>8, <3>2 DEF Stack
    <3>. QED BY <3>1, <3>2
  <2>. QED BY <1>1, <1>8, <2>1, <2>2 DEF Stack
<1>14. MpuFollows'
  <2>1. mpu' = MpuConfig(Active(s).handle, s, frames)
    BY <1>1, <1>9
  <2>. QED BY <1>1, <2>1 DEF MpuFollows, MpuConfig, Regions, CanTake, Active
<1>15. Final'
  BY <1>1, <1>2, <1>7, <1>8 DEF Final
<1>. QED BY <1>11, <1>12, <1>13, <1>14, <1>15 DEF IInv

\* An access and a release are such steps of the active connection.
LEMMA AccessVecStep ==
    ASSUME IInv, NEW h \in Handles, NEW isOut \in BOOLEAN, NEW i \in AnyIdx, AccessVec(h, isOut, i)
    PROVE  /\ At("running") /\ CanTake(connections)
           /\ \E d : VecStep(Active(connections), d) /\ Update(d)
<1> DEFINE c == Active(connections)
           d == SetMapped(IF isOut THEN PreparedOut(c, i) ELSE PreparedIn(c, i), isOut, i, TRUE)
<1>1. /\ At("running") /\ CanTake(connections) /\ Update(d)
      /\ IF isOut THEN CanPrepareOut(c, i) ELSE CanPrepareIn(c, i)
  BY DEF AccessVec, Valid
<1>2. connections.top - 1 \in Slots /\ c \in Conn
  BY <1>1, TopOwner DEF IInv, CanTake
<1>3. \A j \in VecIdx : FinalVec(c.outvec[j])
  BY <1>1, <1>2 DEF IInv, Final, Active, CanTake
<1>4. VecStep(c, d)
  <2> HIDE DEF c
  <2>. QED BY <1>1, <1>2, <1>3, AccessStep
<1>. QED BY <1>1, <1>4

LEMMA ReleaseVecStep ==
    ASSUME IInv, NEW h \in Handles, NEW isOut \in BOOLEAN, NEW i \in AnyIdx, NEW n \in Written,
           ReleaseVec(h, isOut, i, n)
    PROVE  /\ At("running") /\ CanTake(connections)
           /\ \E d : VecStep(Active(connections), d) /\ Update(d)
<1> DEFINE c == Active(connections)
           d == SetMapped(IF isOut THEN Committed(c, i, n) ELSE MarkedIn(c, i), isOut, i, FALSE)
<1>1. /\ At("running") /\ CanTake(connections) /\ Update(d)
      /\ IF isOut THEN CanCommit(c, i, n) ELSE CanMarkIn(c, i)
  BY DEF ReleaseVec, Valid
<1>2. connections.top - 1 \in Slots /\ c \in Conn
  BY <1>1, TopOwner DEF IInv, CanTake
<1>3. \A j \in VecIdx : FinalVec(c.outvec[j])
  BY <1>1, <1>2 DEF IInv, Final, Active, CanTake
<1>4. n \in Nat
  BY IoVecAssumption DEF Written
<1>5. VecStep(c, d)
  <2> HIDE DEF c
  <2>. QED BY <1>1, <1>2, <1>3, <1>4, ReleaseStep
<1>. QED BY <1>1, <1>5

LEMMA InitIInv == Init => IInv
<1> SUFFICES ASSUME Init PROVE IInv
  OBVIOUS
<1>1. /\ frames = <<>> /\ Len(frames) = 0 /\ connections.top = 0 /\ ~cpu.unprivileged
      /\ connections.slots = [i \in Slots |-> Absent]
  BY DEF Init, EmptyStack
<1>2. connections \in StackOf(ConnectionOf(Levels, Handles))
  BY <1>1, MaxConnectionsAssumption DEF Init, EmptyStack, StackOf
<1>3. cpu \in Cpu
  BY DEF Init, Cpu
<1>4. TypeOK
  BY <1>1, <1>2, <1>3, MpuAssumption, MaxConnectionsAssumption DEF Init, TypeOK, MaxDepth
<1>5. Chain /\ Saved /\ Occupied /\ Registers
  BY <1>1 DEF Chain, Saved, Occupied, Registers, Unprivileged, At, Level
<1>6. Stack /\ MpuFollows /\ Final
  BY <1>1 DEF Stack, Height, Level, MpuFollows, Final, Slots
<1>7. Initialised
  BY <1>1 DEF Init, Initialised, Level
<1>. QED BY <1>4, <1>5, <1>6, <1>7 DEF IInv

\* The next step, with the service's three calls told apart.
LEMMA NextCases ==
    ASSUME IInv, Next
    PROVE  \/ IInv' /\ UNCHANGED connections
           \/ Dispatch
           \/ Return
           \/ /\ At("running") /\ CanTake(connections)
              /\ \E d : VecStep(Active(connections), d) /\ Update(d)
<1>1. CASE \E h \in Handles, ins \in [VecIdx -> InBuffers[Client]],
              outs \in [VecIdx -> OutBuffers[Client]] : ClientCalls(h, ins, outs)
  BY <1>1, ClientCallsIInv DEF ClientCalls
<1>2. CASE DispatchRefused
  BY <1>2, DispatchRefusedIInv DEF DispatchRefused
<1>3. CASE InitProcess
  BY <1>3, InitProcessIInv DEF InitProcess
<1>4. CASE CallProcess
  BY <1>4, CallProcessIInv DEF CallProcess
<1>5. CASE ProcessExit
  BY <1>5, ProcessExitIInv DEF ProcessExit
<1>6. CASE PsaCallReturn
  BY <1>6, PsaCallReturnIInv DEF PsaCallReturn
<1>7. CASE ClientReturns
  BY <1>7, ClientReturnsIInv DEF ClientReturns
<1>8. CASE \E h \in Handles, ins \in [VecIdx -> InBuffers[Process]],
              outs \in [VecIdx -> OutBuffers[Process]] :
             Rank[h] < Rank[Process] /\ SvcPsaCall(h, ins, outs)
  BY <1>8, SvcPsaCallIInv DEF SvcPsaCall
<1>9. CASE \E h \in Handles, isOut \in BOOLEAN, i \in AnyIdx : AccessVec(h, isOut, i)
  BY <1>9, AccessVecStep
<1>10. CASE \E h \in Handles, isOut \in BOOLEAN, i \in AnyIdx, n \in Written :
               ReleaseVec(h, isOut, i, n)
  BY <1>10, ReleaseVecStep
<1>. QED BY <1>1, <1>2, <1>3, <1>4, <1>5, <1>6, <1>7, <1>8, <1>9, <1>10 DEF Next, Service

LEMMA NextIInv == IInv /\ [Next]_vars => IInv'
<1> SUFFICES ASSUME IInv, [Next]_vars PROVE IInv'
  OBVIOUS
<1>1. CASE Next
  BY <1>1, NextCases, DispatchIInv, ReturnIInv, UpdateIInv
<1>2. CASE UNCHANGED vars
  BY <1>2 DEF vars, IInv, TypeOK, Chain, Saved, Occupied, Registers, Stack, Initialised, MpuFollows,
              Final, FinalVec, Level, Process, RunningCpu, Unprivileged, At, Height, MpuConfig,
              Regions, CanTake, Active
<1>. QED BY <1>1, <1>2

------------------------------------------------------------------------------
(* Where a region of the MPU comes from. *)

LEMMA ConcatElement ==
    ASSUME NEW S, NEW s \in Seq(S), NEW t \in Seq(S), NEW k \in 1 .. Len(s \o t)
    PROVE  \/ \E i \in 1 .. Len(s) : (s \o t)[k] = s[i]
           \/ \E i \in 1 .. Len(t) : (s \o t)[k] = t[i]
<1>1. /\ Len(s) \in Nat /\ Len(t) \in Nat /\ k \in 1 .. Len(s) + Len(t)
      /\ (s \o t)[k] = IF k <= Len(s) THEN s[k] ELSE t[k - Len(s)]
  BY ConcatProperties
<1>2. CASE k <= Len(s)
  BY <1>1, <1>2
<1>3. CASE ~(k <= Len(s))
  <2>1. k - Len(s) \in 1 .. Len(t)
    BY <1>1, <1>3
  <2>. QED BY <1>1, <1>3, <2>1
<1>. QED BY <1>2, <1>3

LEMMA RegionOrigin ==
    ASSUME NEW p \in Processes, NEW s \in StackOf(Conn), NEW calls,
           CanTake(s) => calls[Active(s).owner] \in Frame,
           NEW k \in 1 .. Len(Regions(p, s, calls)), NEW r, r = Regions(p, s, calls)[k]
    PROVE  \/ r.base = Rom[p].base /\ r.size = Rom[p].size
           \/ r.base = Ram[p].base /\ r.size = Ram[p].size
           \/ \E i \in 1 .. Len(Custom[p]) : r = Custom[p][i]
           \/ /\ CanTake(s) /\ Active(s).handle = p
              /\ \E i \in 1 .. 2 * PSA_MAX_IOVEC : r = VecRegions(Active(s), calls[Active(s).owner])[i]
<1> DEFINE own == <<[base |-> Rom[p].base, size |-> Rom[p].size, perm |-> "ReadExecute"],
                    [base |-> Ram[p].base, size |-> Ram[p].size, perm |-> "ReadWriteXN"]>>
           vecs == IF CanTake(s) /\ Active(s).handle = p
                   THEN VecRegions(Active(s), calls[Active(s).owner]) ELSE <<>>
<1>1. own \in Seq(Region) /\ Custom[p] \in Seq(Region)
  BY SpmIpcAssumption DEF Region, Permissions
<1>2. vecs \in Seq(Region) /\ own \o Custom[p] \in Seq(Region)
  <2>1. CanTake(s) => Active(s) \in Conn
    BY MaxConnectionsAssumption DEF CanTake, Active, StackOf, Slots
  <2>2. vecs \in Seq(Region)
    BY <2>1, VecRegionsType
  <2>3. own \o Custom[p] \in Seq(Region)
    BY <1>1, ConcatProperties
  <2>. QED BY <2>2, <2>3
<1>3. Regions(p, s, calls) = (own \o Custom[p]) \o vecs
  BY DEF Regions
<1>4. \A i \in 1 .. Len(own) :
        \/ own[i].base = Rom[p].base /\ own[i].size = Rom[p].size
        \/ own[i].base = Ram[p].base /\ own[i].size = Ram[p].size
  OBVIOUS
<1>5. \A i \in 1 .. Len(vecs) :
        /\ CanTake(s) /\ Active(s).handle = p
        /\ i \in 1 .. 2 * PSA_MAX_IOVEC /\ vecs[i] = VecRegions(Active(s), calls[Active(s).owner])[i]
  <2>1. CASE CanTake(s) /\ Active(s).handle = p
    <3>1. Active(s) \in Conn
      BY <2>1, MaxConnectionsAssumption DEF CanTake, Active, StackOf, Slots
    <3>2. Len(vecs) = 2 * PSA_MAX_IOVEC
      BY <2>1, <3>1, VecRegionsType
    <3>. QED BY <2>1, <3>2
  <2>2. CASE ~(CanTake(s) /\ Active(s).handle = p)
    BY <2>2
  <2>. QED BY <2>1, <2>2
<1> HIDE DEF own, vecs
<1>6. \/ \E i \in 1 .. Len(own \o Custom[p]) : r = (own \o Custom[p])[i]
      \/ \E i \in 1 .. Len(vecs) : r = vecs[i]
  <2> DEFINE first == own \o Custom[p]
  <2>1. k \in 1 .. Len(first \o vecs) /\ r = (first \o vecs)[k]
    BY <1>3
  <2>2. first \in Seq(Region)
    BY <1>2
  <2> HIDE DEF first
  <2>3. \/ \E i \in 1 .. Len(first) : r = first[i]
        \/ \E i \in 1 .. Len(vecs) : r = vecs[i]
    BY <1>2, <2>1, <2>2, ConcatElement
  <2>. QED BY <2>3 DEF first
<1>7. ASSUME NEW i \in 1 .. Len(own \o Custom[p]), r = (own \o Custom[p])[i]
      PROVE  \/ \E l \in 1 .. Len(own) : r = own[l]
             \/ \E l \in 1 .. Len(Custom[p]) : r = Custom[p][l]
  BY <1>1, <1>7, ConcatElement
<1>. QED BY <1>4, <1>5, <1>6, <1>7

\* A region of a vector that allocate_region takes.
LEMMA VecRegionOrigin ==
    ASSUME NEW c \in Conn, NEW f \in Frame, NEW k \in 1 .. 2 * PSA_MAX_IOVEC,
           VecRegions(c, f)[k].size >= Granule
    PROVE  \/ \E i \in VecIdx : /\ InHand(c.invec[i]) /\ c.invec[i].size > 0
                                /\ VecRegions(c, f)[k] = VecRegion(f.ins[i].base, c.invec[i].size, "ReadXN")
           \/ \E j \in VecIdx : /\ InHand(c.outvec[j]) /\ c.outvec[j].size > 0
                                /\ VecRegions(c, f)[k] = VecRegion(f.outs[j].base, c.outvec[j].size, "ReadWriteXN")
<1>1. ~(NoRegion.size >= Granule)
  BY MpuAssumption DEF NoRegion
<1>2. /\ k <= PSA_MAX_IOVEC => k - 1 \in VecIdx
      /\ ~(k <= PSA_MAX_IOVEC) => k - PSA_MAX_IOVEC - 1 \in VecIdx
  BY IoVecAssumption DEF VecIdx
<1>3. CASE k <= PSA_MAX_IOVEC
  <2>1. VecRegions(c, f)[k] =
          IF InHand(c.invec[k - 1]) /\ c.invec[k - 1].size > 0
          THEN VecRegion(f.ins[k - 1].base, c.invec[k - 1].size, "ReadXN") ELSE NoRegion
    BY <1>3 DEF VecRegions
  <2>. QED BY <1>1, <1>2, <1>3, <2>1
<1>4. CASE ~(k <= PSA_MAX_IOVEC)
  <2>1. VecRegions(c, f)[k] =
          IF InHand(c.outvec[k - PSA_MAX_IOVEC - 1]) /\ c.outvec[k - PSA_MAX_IOVEC - 1].size > 0
          THEN VecRegion(f.outs[k - PSA_MAX_IOVEC - 1].base, c.outvec[k - PSA_MAX_IOVEC - 1].size,
                         "ReadWriteXN") ELSE NoRegion
    BY <1>4 DEF VecRegions
  <2>. QED BY <1>1, <1>2, <1>4, <2>1
<1>. QED BY <1>3, <1>4

\* The window of a vector covers its granules and no others.
LEMMA VecWindow ==
    ASSUME NEW base \in Nat, NEW size \in Nat, NEW p \in Permissions
    PROVE  /\ WindowOf(VecRegion(base, size, p)).base = AlignDown(base)
           /\ WindowOf(VecRegion(base, size, p)).end = AlignUp(base + size)
           /\ WindowOf(VecRegion(base, size, p)).write = UserWrites(p)
<1>1. AlignDown(base) \in Nat /\ AlignUp(base + size) - AlignDown(base) \in Nat
  BY AlignType
<1>2. AlignUp(base + size) \in Int
  <2>1. base + size + Granule - 1 \in Nat
    BY MpuAssumption
  <2>2. (base + size + Granule - 1) % Granule \in Int
    BY <2>1, MpuAssumption
  <2>. QED BY <2>1, <2>2 DEF AlignUp, AlignDown
<1>. QED BY <1>1, <1>2 DEF WindowOf, VecRegion

------------------------------------------------------------------------------
(* Theorems. *)

\* What is put away for each call of the chain stays what its return needs
\* (spm_ipc.rs, svc_call.rs, api.rs).
THEOREM Invariance == Spec => []IInv
BY InitIInv, NextIInv, PTL DEF Spec

\* The type invariant: in particular a call that finds the stack full is
\* refused, and the MPU is never given more regions than it has.
THEOREM TypeCorrect == Spec => []TypeOK
<1>1. IInv => TypeOK
  BY DEF IInv
<1>. QED BY <1>1, Invariance, PTL

\* Whoever runs unprivileged runs on its own stack, whatever calls were nested
\* and returned in between, and the stack of a waiting service is untouched.
THEOREM OwnStack == Spec => []RunsOnOwnStack
<1>1. IInv => RunsOnOwnStack
  BY DEF IInv, Registers, Occupied, RunsOnOwnStack, RunningCpu, Process, Unprivileged, At, Level
<1>. QED BY <1>1, Invariance, PTL

\* The init code of a service binary runs before the service and not again.
THEOREM InitOnce == Spec => []InitOnceFirst
<1> SUFFICES ASSUME IInv PROVE InitOnceFirst
  BY Invariance, PTL
<1>1. ASSUME Level > 0 PROVE Level \in 1 .. Level /\ Process = frames[Level].handle
  BY <1>1 DEF IInv, TypeOK, Level, Process
<1>. QED BY <1>1 DEF IInv, Initialised, InitOnceFirst, At

LEMMA OwnMemory == IInv => OnlyOwnMemory
<1> SUFFICES ASSUME IInv, Unprivileged PROVE OnlyOwnMemory
  BY DEF OnlyOwnMemory
<1> DEFINE c == Active(connections)
           covers(w, v, size) == /\ w.base = AlignDown(v.base) /\ w.end = AlignUp(v.base + size)
                                 /\ size > 0
           isOwn(w) == \E r \in {Rom[Process], Ram[Process]} \cup ToSet(Custom[Process]) :
               w.base = r.base /\ w.end = r.base + r.size
           isIn(w) == \E i \in VecIdx : /\ InHand(c.invec[i]) /\ ~w.write
                                        /\ covers(w, frames[Level].ins[i], c.invec[i].size)
           isOut(w) == \E j \in VecIdx : /\ InHand(c.outvec[j])
                                         /\ covers(w, frames[Level].outs[j], c.outvec[j].size)
           regions == Regions(Process, connections, frames)
<1>1. /\ Level \in 1 .. Level /\ frames[Level] \in Frame /\ Process \in Processes
      /\ connections.top = Level /\ connections.top > 0
  <2>1. Level > 0 /\ frames[Level].step \in {"initialising", "running"}
    BY DEF Unprivileged, At
  <2>2. Level \in 1 .. Level /\ frames[Level] \in Frame
    BY <2>1 DEF IInv, TypeOK, Level
  <2>3. Process \in Processes
    BY <2>1, <2>2 DEF IInv, Chain, Process
  <2>4. connections.top = Level
    BY <2>1 DEF IInv, Stack, Height
  <2>. QED BY <2>1, <2>2, <2>3, <2>4
<1>2. /\ CanTake(connections) /\ c \in Conn /\ c.owner = Level /\ c.handle = Process
      /\ connections \in StackOf(Conn)
  BY <1>1, TopOwner DEF IInv, Process, TypeOK, Conn
<1>3. mpu = Configured(regions) /\ regions \in Seq(Region)
  BY <1>1, <1>2, RegionsType DEF IInv, MpuFollows, MpuConfig
<1>4. Comes(mpu, regions, Len(regions))
  BY <1>3, ConfiguredSound DEF Sound
<1> SUFFICES ASSUME NEW k \in DOMAIN mpu PROVE isOwn(mpu[k]) \/ isIn(mpu[k]) \/ isOut(mpu[k])
  BY <1>2 DEF OnlyOwnMemory
<1> HIDE DEF isOwn, isIn, isOut, covers, c, regions
<1>5. PICK j \in 1 .. Len(regions) : mpu[k] = WindowOf(regions[j]) /\ regions[j].size >= Granule
  BY <1>4 DEF Comes
<1> DEFINE r == regions[j]
<1>6. \/ r.base = Rom[Process].base /\ r.size = Rom[Process].size
      \/ r.base = Ram[Process].base /\ r.size = Ram[Process].size
      \/ \E i \in 1 .. Len(Custom[Process]) : r = Custom[Process][i]
      \/ \E i \in 1 .. 2 * PSA_MAX_IOVEC : r = VecRegions(c, frames[Level])[i]
  BY <1>1, <1>2, RegionOrigin DEF c, regions
<1>7. mpu[k].base = r.base /\ mpu[k].end = r.base + r.size
  BY <1>5 DEF WindowOf
<1> HIDE DEF r
<1>8. CASE \/ r.base = Rom[Process].base /\ r.size = Rom[Process].size
           \/ r.base = Ram[Process].base /\ r.size = Ram[Process].size
  BY <1>7, <1>8 DEF isOwn
<1>9. CASE \E i \in 1 .. Len(Custom[Process]) : r = Custom[Process][i]
  <2>1. Custom[Process] \in Seq(Region)
    BY <1>1, SpmIpcAssumption
  <2>2. r \in ToSet(Custom[Process])
    BY <1>9, <2>1 DEF ToSet
  <2>. QED BY <1>7, <2>2 DEF isOwn
<1>10. CASE \E i \in 1 .. 2 * PSA_MAX_IOVEC : r = VecRegions(c, frames[Level])[i]
  <2>1. \A i \in VecIdx : /\ frames[Level].ins[i].base \in Nat /\ frames[Level].outs[i].base \in Nat
                          /\ c.invec[i].size \in Nat /\ c.outvec[i].size \in Nat
    BY <1>1, <1>2 DEF Frame, Vectors, Conn, ConnectionOf, InVec, OutVec
  <2>2. r.size >= Granule
    BY <1>5 DEF r
  <2>3. \/ \E i \in VecIdx : /\ InHand(c.invec[i]) /\ c.invec[i].size > 0
                             /\ r = VecRegion(frames[Level].ins[i].base, c.invec[i].size, "ReadXN")
        \/ \E i \in VecIdx : /\ InHand(c.outvec[i]) /\ c.outvec[i].size > 0
                             /\ r = VecRegion(frames[Level].outs[i].base, c.outvec[i].size, "ReadWriteXN")
    BY <1>1, <1>2, <1>10, <2>2, VecRegionOrigin
  <2>4. ASSUME NEW i \in VecIdx, InHand(c.invec[i]), c.invec[i].size > 0,
               r = VecRegion(frames[Level].ins[i].base, c.invec[i].size, "ReadXN")
        PROVE  isIn(mpu[k])
    <3>1. "ReadXN" \in Permissions /\ ~UserWrites("ReadXN")
      BY DEF Permissions, UserWrites
    <3>2. covers(mpu[k], frames[Level].ins[i], c.invec[i].size) /\ ~mpu[k].write
      BY <1>5, <2>1, <2>4, <3>1, VecWindow DEF covers, r
    <3>. QED BY <2>4, <3>2 DEF isIn
  <2>5. ASSUME NEW i \in VecIdx, InHand(c.outvec[i]), c.outvec[i].size > 0,
               r = VecRegion(frames[Level].outs[i].base, c.outvec[i].size, "ReadWriteXN")
        PROVE  isOut(mpu[k])
    <3>1. "ReadWriteXN" \in Permissions
      BY DEF Permissions
    <3>2. covers(mpu[k], frames[Level].outs[i], c.outvec[i].size)
      BY <1>5, <2>1, <2>5, <3>1, VecWindow DEF covers, r
    <3>. QED BY <2>5, <3>2 DEF isOut
  <2>. QED BY <2>3, <2>4, <2>5
<1>. QED BY <1>6, <1>8, <1>9, <1>10

\* A process reaches its own windows and the vectors of its own call that it
\* holds, and nothing else, at every instant it runs.
THEOREM Isolation == Spec => []OnlyOwnMemory
BY OwnMemory, Invariance, PTL

LEMMA OutputStep ==
    ASSUME IInv, [Next]_vars, NEW i \in Slots, NEW j \in VecIdx,
           connections.slots[i] # Absent, connections'.slots[i] # Absent
    PROVE  OutStep(connections.slots[i].outvec[j], connections'.slots[i].outvec[j])
<1>1. connections.slots \in [Slots -> Conn \cup {Absent}]
  BY DEF IInv, TypeOK, StackOf, Conn
<1>2. connections.slots[i].outvec[j] \in OutVec /\ FinalVec(connections.slots[i].outvec[j])
  BY <1>1 DEF IInv, Final, Conn, ConnectionOf
<1>3. CASE UNCHANGED connections
  BY <1>2, <1>3, SameVec
<1>4. CASE Dispatch
  <2>1. connections.top \in Slots /\ connections.slots[connections.top] = Absent
    <3>1. connections.top \in Slots
      BY <1>4, MaxConnectionsAssumption DEF Dispatch, CanAdd, IInv, TypeOK, StackOf, Slots
    <3>2. ~(connections.top < connections.top)
      BY <3>1 DEF Slots
    <3>. QED BY <3>1, <3>2 DEF IInv, Stack
  <2>2. \A k \in Slots \ {connections.top} : connections'.slots[k] = connections.slots[k]
    BY <1>1, <1>4 DEF Dispatch, Added
  <2>. QED BY <1>2, <2>1, <2>2, SameVec
<1>5. CASE Return
  <2>1. \A k \in Slots : \/ connections'.slots[k] = connections.slots[k]
                         \/ connections'.slots[k] = Absent
    BY <1>1, <1>5 DEF Return, Popped
  <2>. QED BY <1>2, <2>1, SameVec
<1>6. CASE /\ At("running") /\ CanTake(connections)
           /\ \E d : VecStep(Active(connections), d) /\ Update(d)
  <2>1. PICK d : VecStep(Active(connections), d) /\ Update(d)
    BY <1>6
  <2>2. connections.top - 1 \in Slots
    BY <1>6, TopOwner DEF IInv, CanTake
  <2>3. connections'.slots[i] = IF i = connections.top - 1 THEN d ELSE connections.slots[i]
    BY <1>1, <2>1, <2>2 DEF Update, IInv, TypeOK, StackOf
  <2>4. CASE i = connections.top - 1
    BY <2>1, <2>3, <2>4 DEF VecStep, Active
  <2>5. CASE i # connections.top - 1
    BY <1>2, <2>3, <2>5, SameVec
  <2>. QED BY <2>4, <2>5
<1>7. UNCHANGED vars => UNCHANGED connections
  BY DEF vars
<1>. QED BY <1>3, <1>4, <1>5, <1>6, <1>7, NextCases

\* What a service has given back in an output vector is final, and the length
\* the client will see only shrinks, to what was written.
THEOREM OutputStaysFinal == Spec => OutputFinal
<1>1. IInv /\ [Next]_vars =>
        [\A i \in Slots, j \in VecIdx :
          LET c == connections.slots[i]
              d == connections'.slots[i] IN
          c # Absent /\ d # Absent =>
              LET v == c.outvec[j]
                  w == d.outvec[j] IN
              /\ v.written # 0 => /\ w.written = v.written /\ w.size = v.size
                                  /\ ~InHand(w)
              /\ w.size # v.size => w.size = w.written /\ w.size < v.size]_vars
  BY OutputStep DEF OutStep
<1>. QED BY <1>1, Invariance, PTL DEF Spec, OutputFinal

------------------------------------------------------------------------------
(* What each call was made with. *)

\* Who made the call of level l.
Caller(l) == IF l = 1 THEN Client ELSE frames[l - 1].handle

\* The vectors of a call are buffers of its caller.
FromCaller == \A l \in 1 .. Level :
    /\ frames[l].ins \in [VecIdx -> InBuffers[Caller(l)]]
    /\ frames[l].outs \in [VecIdx -> OutBuffers[Caller(l)]]

\* Those of its connection are no larger, whatever was committed.
AsPassed == \A l \in 1 .. connections.top : \A i \in VecIdx :
    /\ connections.slots[l - 1].invec[i].size <= frames[l].ins[i].size
    /\ connections.slots[l - 1].outvec[i].size <= frames[l].outs[i].size

Requests == FromCaller /\ AsPassed

\* A step keeps the calls of the chain, or ends the innermost or makes one.
CallsStep ==
    /\ Len(frames') \in Nat /\ Len(frames') <= Len(frames) + 1
    /\ \A l \in 1 .. Len(frames') : l <= Len(frames) =>
         /\ frames'[l].handle = frames[l].handle
         /\ frames'[l].ins = frames[l].ins /\ frames'[l].outs = frames[l].outs
    /\ \A l \in 1 .. Len(frames') : l > Len(frames) =>
         /\ frames'[l].ins \in [VecIdx -> InBuffers[Caller(l)]]
         /\ frames'[l].outs \in [VecIdx -> OutBuffers[Caller(l)]]

LEMMA NextCalls ==
    ASSUME IInv, Next
    PROVE  CallsStep
<1>1. /\ TypeOK /\ frames \in Seq(Frame) /\ Len(frames) \in Nat
  BY DEF IInv, TypeOK
<1>2. ASSUME Level > 0, NEW s \in Steps, Goto(s) PROVE CallsStep
  BY <1>1, <1>2, GotoFrames DEF CallsStep
<1>3. ASSUME UNCHANGED frames PROVE CallsStep
  BY <1>1, <1>3 DEF CallsStep
<1>4. CASE \E h \in Handles, ins \in [VecIdx -> InBuffers[Client]],
              outs \in [VecIdx -> OutBuffers[Client]] : ClientCalls(h, ins, outs)
  <2>1. PICK h \in Handles, ins \in [VecIdx -> InBuffers[Client]],
             outs \in [VecIdx -> OutBuffers[Client]] : ClientCalls(h, ins, outs)
    BY <1>4
  <2>2. /\ Len(frames) = 0 /\ Len(frames') = 1
        /\ frames'[1].ins = ins /\ frames'[1].outs = outs
    BY <2>1 DEF ClientCalls, NewFrame
  <2>. QED BY <2>2 DEF CallsStep, Caller
<1>5. CASE Dispatch
  BY <1>2, <1>5 DEF Dispatch, At, Steps
<1>6. CASE DispatchRefused
  BY <1>2, <1>6 DEF DispatchRefused, At, Steps
<1>7. CASE InitProcess
  BY <1>2, <1>7 DEF InitProcess, At, Steps
<1>8. CASE CallProcess
  BY <1>2, <1>8 DEF CallProcess, At, Steps
<1>9. CASE ProcessExit
  BY <1>2, <1>9 DEF ProcessExit, At, Steps
<1>10. CASE Return
  BY <1>2, <1>10 DEF Return, At, Steps
<1>11. CASE PsaCallReturn
  <2> DEFINE n == Len(frames)
             below == Front(frames)
  <2>1. n > 1 /\ n - 1 \in 1 .. n - 1 /\ frames' = [below EXCEPT ![n - 1].step = "running"]
    BY <1>1, <1>11 DEF PsaCallReturn, At, Level
  <2>2. below \in Seq(Frame) /\ Len(below) = n - 1 /\ \A l \in 1 .. n - 1 : below[l] = frames[l]
    BY <1>1, <2>1 DEF Front
  <2> HIDE DEF below, n
  <2>3. /\ Len(frames') = n - 1
        /\ \A l \in 1 .. n - 1 :
             /\ frames'[l].handle = frames[l].handle
             /\ frames'[l].ins = frames[l].ins /\ frames'[l].outs = frames[l].outs
    BY <2>1, <2>2 DEF Frame
  <2>. QED BY <1>1, <2>1, <2>3 DEF CallsStep, n
<1>12. CASE ClientReturns
  <2>1. Len(frames') = 0
    BY <1>12 DEF ClientReturns
  <2>. QED BY <1>1, <2>1 DEF CallsStep
<1>13. CASE At("running") /\ \E h \in Handles, ins \in [VecIdx -> InBuffers[Process]],
                                outs \in [VecIdx -> OutBuffers[Process]] :
                               Rank[h] < Rank[Process] /\ SvcPsaCall(h, ins, outs)
  <2>1. PICK h \in Handles, ins \in [VecIdx -> InBuffers[Process]],
             outs \in [VecIdx -> OutBuffers[Process]] : SvcPsaCall(h, ins, outs)
    BY <1>13
  <2> DEFINE n == Len(frames)
             waiting == [frames EXCEPT ![n].step = "calling"]
             f == NewFrame(h, ins, outs)
  <2>2. n \in 1 .. n /\ frames' = Append(waiting, f) /\ f.ins = ins /\ f.outs = outs
    BY <1>1, <2>1 DEF SvcPsaCall, At, Level, NewFrame
  <2>3. /\ DOMAIN waiting = 1 .. n /\ Len(waiting) = n /\ waiting \in Seq(Frame)
        /\ \A l \in 1 .. n :
             /\ waiting[l].handle = frames[l].handle
             /\ waiting[l].ins = frames[l].ins /\ waiting[l].outs = frames[l].outs
    <3>1. \A g \in Frame : [g EXCEPT !.step = "calling"] \in Frame
      BY DEF Frame, Steps
    <3>2. frames[n] \in Frame
      BY <1>1, <2>2
    <3>. QED BY <1>1, <2>2, <3>1, <3>2 DEF Frame
  <2> HIDE DEF waiting, f, n
  <2>4. /\ Len(frames') = n + 1 /\ frames'[n + 1] = f
        /\ \A l \in 1 .. n : frames'[l] = waiting[l]
    BY <2>2, <2>3
  <2>5. Caller(n + 1) = Process
    BY <1>1, <2>2 DEF Caller, Process, Level, n
  <2>6. n \in Nat /\ n = Len(frames)
    BY <1>1 DEF n
  <2>7. \A l \in 1 .. n + 1 : l <= n \/ l = n + 1
    BY <2>6
  <2>8. frames'[n + 1].ins \in [VecIdx -> InBuffers[Caller(n + 1)]]
        /\ frames'[n + 1].outs \in [VecIdx -> OutBuffers[Caller(n + 1)]]
    BY <2>2, <2>4, <2>5
  <2>. QED BY <2>3, <2>4, <2>6, <2>7, <2>8 DEF CallsStep
<1>14. CASE \E h \in Handles, isOut \in BOOLEAN, i \in AnyIdx : AccessVec(h, isOut, i)
  BY <1>3, <1>14 DEF AccessVec, Update
<1>15. CASE \E h \in Handles, isOut \in BOOLEAN, i \in AnyIdx, n \in Written :
               ReleaseVec(h, isOut, i, n)
  BY <1>3, <1>15 DEF ReleaseVec, Update
<1>. QED BY <1>4, <1>5, <1>6, <1>7, <1>8, <1>9, <1>10, <1>11, <1>12, <1>13, <1>14, <1>15
         DEF Next, Service

LEMMA StepFromCaller ==
    ASSUME IInv, FromCaller, CallsStep
    PROVE  FromCaller'
<1>1. Len(frames) \in Nat
  BY DEF IInv, TypeOK
<1> SUFFICES ASSUME NEW l \in 1 .. Len(frames')
             PROVE  /\ frames'[l].ins \in [VecIdx -> InBuffers[Caller(l)']]
                    /\ frames'[l].outs \in [VecIdx -> OutBuffers[Caller(l)']]
  BY DEF FromCaller, Level
<1>2. l = 1 \/ (l - 1 \in 1 .. Len(frames') /\ l - 1 <= Len(frames))
  BY <1>1 DEF CallsStep
<1>3. Caller(l)' = Caller(l)
  BY <1>2 DEF Caller, CallsStep
<1>4. CASE l <= Len(frames)
  BY <1>1, <1>3, <1>4 DEF CallsStep, FromCaller, Level
<1>5. CASE l > Len(frames)
  BY <1>3, <1>5 DEF CallsStep
<1>. QED BY <1>1, <1>4, <1>5 DEF CallsStep

LEMMA TopInChain == IInv => connections.top \in Nat /\ connections.top <= Len(frames)
BY DEF IInv, TypeOK, StackOf, Stack, Height, Level

LEMMA StepAsPassed ==
    ASSUME IInv, IInv', AsPassed, CallsStep, Next
    PROVE  AsPassed'
<1>1. /\ connections.top \in Nat /\ connections.top <= Len(frames) /\ Len(frames) \in Nat
      /\ connections'.top \in Nat /\ connections'.top <= Len(frames') /\ Len(frames') \in Nat
  <2>1. (IInv => connections.top \in Nat /\ connections.top <= Len(frames))'
    BY TopInChain, PTL
  <2>. QED BY <2>1, TopInChain DEF IInv, TypeOK
<1>2. \A l \in 1 .. connections'.top : l <= connections.top =>
         frames'[l].ins = frames[l].ins /\ frames'[l].outs = frames[l].outs
  BY <1>1 DEF CallsStep
<1>3. CASE UNCHANGED connections
  <2>1. \A l \in 1 .. connections'.top : l \in 1 .. connections.top /\ l <= connections.top
    BY <1>1, <1>3
  <2>. QED BY <1>2, <1>3, <2>1 DEF AsPassed
<1>4. CASE Dispatch
  <2> DEFINE n == Len(frames)
             sizes(v) == [i \in VecIdx |-> v[i].size]
             c == NewConnection(Level, frames[n].handle, sizes(frames[n].ins), sizes(frames[n].outs))
  <2>1. /\ n > 0 /\ frames[n].step = "call" /\ connections' = Added(connections, c)
        /\ CanAdd(connections)
    BY <1>4 DEF Dispatch, At, Level
  <2>2. connections.top = n - 1
    BY <2>1 DEF IInv, Stack, Height, Level
  <2>3. /\ n - 1 \in Slots /\ connections.slots \in [Slots -> Conn \cup {Absent}]
    BY <1>1, <2>1, <2>2, MaxConnectionsAssumption, SMTT(30) DEF CanAdd, Slots, IInv, TypeOK, StackOf, Conn
  <2>4. /\ connections'.top = n /\ connections'.slots[n - 1] = c
        /\ \A i \in Slots : i # n - 1 => connections'.slots[i] = connections.slots[i]
    <3> HIDE DEF c
    <3>. QED BY <1>1, <2>1, <2>2, <2>3 DEF Added
  <2>5. /\ frames[n] \in Frame
        /\ frames'[n].ins = frames[n].ins /\ frames'[n].outs = frames[n].outs
    BY <1>1, <2>1, <2>4, SMTT(30) DEF CallsStep, IInv, TypeOK
  <2>6. \A i \in VecIdx : /\ c.invec[i].size = frames[n].ins[i].size
                          /\ c.outvec[i].size = frames[n].outs[i].size
    BY DEF NewConnection
  <2>7. \A i \in VecIdx : frames[n].ins[i].size \in Nat /\ frames[n].outs[i].size \in Nat
    BY <2>5 DEF Frame, Vectors
  <2> HIDE DEF c
  <2>8. ASSUME NEW l \in 1 .. connections'.top, NEW i \in VecIdx
        PROVE  /\ connections'.slots[l - 1].invec[i].size <= frames'[l].ins[i].size
               /\ connections'.slots[l - 1].outvec[i].size <= frames'[l].outs[i].size
    <3>1. CASE l = n
      BY <2>4, <2>5, <2>6, <2>7, <3>1
    <3>2. CASE l # n
      <4>1. l \in 1 .. connections.top /\ l - 1 \in Slots /\ l - 1 # n - 1
        BY <1>1, <2>2, <2>3, <2>4, <3>2, MaxConnectionsAssumption DEF Slots
      <4>. QED BY <1>2, <2>4, <4>1 DEF AsPassed
    <3>. QED BY <3>1, <3>2
  <2>. QED BY <2>8 DEF AsPassed
<1>5. CASE Return
  <2> DEFINE n == Len(frames)
  <2>1. n > 0 /\ frames[n].step = "return" /\ connections' = Popped(connections)
    BY <1>5 DEF Return, At, Level
  <2>2. connections.top = n
    BY <2>1 DEF IInv, Stack, Height, Level
  <2>3. /\ n - 1 \in Slots /\ connections.slots \in [Slots -> Conn \cup {Absent}]
    BY <1>1, <2>1, <2>2, MaxConnectionsAssumption DEF Slots, IInv, TypeOK, StackOf, Conn
  <2>4. /\ connections'.top = n - 1
        /\ \A i \in Slots : i # n - 1 => connections'.slots[i] = connections.slots[i]
    BY <1>1, <2>1, <2>2, <2>3 DEF Popped
  <2>5. \A l \in 1 .. n - 1 : l \in 1 .. connections.top /\ l - 1 \in Slots /\ l - 1 # n - 1
    BY <1>1, <2>2, <2>3, MaxConnectionsAssumption DEF Slots
  <2>6. \A l \in 1 .. connections'.top : l \in 1 .. n - 1 /\ l <= connections.top
    BY <1>1, <2>2, <2>4
  <2>. QED BY <1>2, <2>4, <2>5, <2>6 DEF AsPassed
<1>6. CASE At("running") /\ CanTake(connections)
           /\ \E d : VecStep(Active(connections), d) /\ Update(d)
  <2> DEFINE n == connections.top
  <2>1. PICK d : VecStep(Active(connections), d) /\ Update(d)
    BY <1>6
  <2>2. n > 0 /\ n - 1 \in Slots /\ Active(connections) \in Conn
    BY <1>6, TopOwner DEF IInv, CanTake
  <2>3. /\ connections.slots \in [Slots -> Conn \cup {Absent}]
        /\ connections' = [connections EXCEPT !.slots = [@ EXCEPT ![n - 1] = d]]
        /\ connections \in StackOf(Conn)
    BY <2>1 DEF Update, IInv, TypeOK, StackOf, Conn
  <2>4. /\ connections'.top = n /\ connections'.slots[n - 1] = d
        /\ \A i \in Slots : i # n - 1 => connections'.slots[i] = connections.slots[i]
    BY <2>2, <2>3 DEF StackOf
  <2>5. d \in Conn /\ \A i \in VecIdx : /\ d.invec[i].size = Active(connections).invec[i].size
                                        /\ d.outvec[i].size <= Active(connections).outvec[i].size
    <3>1. d \in Conn /\ \A i \in VecIdx : /\ d.invec[i].size = Active(connections).invec[i].size
                                          /\ OutStep(Active(connections).outvec[i], d.outvec[i])
      BY <2>1 DEF VecStep
    <3>2. \A i \in VecIdx : d.outvec[i].size \in Nat /\ Active(connections).outvec[i].size \in Nat
      BY <2>2, <3>1 DEF Conn, ConnectionOf, OutVec
    <3>. QED BY <3>1, <3>2 DEF OutStep
  <2>6. frames' = frames
    BY <2>1 DEF Update
  <2>7. n \in 1 .. n /\ frames[n] \in Frame
    BY <1>1, <2>2 DEF IInv, TypeOK
  <2>8. \A i \in VecIdx : /\ Active(connections).invec[i].size <= frames[n].ins[i].size
                          /\ Active(connections).outvec[i].size <= frames[n].outs[i].size
    BY <2>7 DEF AsPassed, Active
  <2>9. \A i \in VecIdx : /\ frames[n].ins[i].size \in Nat /\ frames[n].outs[i].size \in Nat
                          /\ d.outvec[i].size \in Nat /\ Active(connections).outvec[i].size \in Nat
    BY <2>2, <2>5, <2>7 DEF Frame, Vectors, Conn, ConnectionOf, OutVec
  <2>10. ASSUME NEW l \in 1 .. n, NEW i \in VecIdx
         PROVE  /\ connections'.slots[l - 1].invec[i].size <= frames[l].ins[i].size
                /\ connections'.slots[l - 1].outvec[i].size <= frames[l].outs[i].size
    <3>1. CASE l = n
      BY <2>4, <2>5, <2>8, <2>9, <3>1
    <3>2. CASE l # n
      <4>1. l - 1 \in Slots /\ l - 1 # n - 1
        BY <1>1, <2>2, <3>2, MaxConnectionsAssumption DEF Slots
      <4>. QED BY <2>4, <4>1 DEF AsPassed
    <3>. QED BY <3>1, <3>2
  <2>. QED BY <2>4, <2>6, <2>10 DEF AsPassed
<1>. QED BY <1>3, <1>4, <1>5, <1>6, NextCases

\* Each call keeps the vectors its caller passed, and none grows.
THEOREM RequestsInvariance == Spec => []Requests
<1>1. Init => Requests
  <2>1. Init => Len(frames) = 0 /\ connections.top = 0
    BY DEF Init, EmptyStack
  <2>. QED BY <2>1 DEF Requests, FromCaller, AsPassed, Level
<1>2. IInv /\ IInv' /\ Requests /\ [Next]_vars => Requests'
  <2> SUFFICES ASSUME IInv, IInv', Requests, [Next]_vars PROVE Requests'
    OBVIOUS
  <2>1. CASE Next
    BY <2>1, NextCalls, StepFromCaller, StepAsPassed DEF Requests
  <2>2. CASE UNCHANGED vars
    BY <2>2 DEF vars, Requests, FromCaller, AsPassed, Caller, Level
  <2>. QED BY <2>1, <2>2
<1>. QED BY <1>1, <1>2, Invariance, PTL DEF Spec
------------------------------------------------------------------------------
(* What is accessed can be reached. *)

\* The ends of granules are in the order of the bytes.
LEMMA AlignOrder ==
    ASSUME NEW a \in Nat, NEW b \in Nat
    PROVE  /\ AlignDown(a) \in Nat /\ AlignDown(a) <= a /\ AlignDown(a) % Granule = 0
           /\ AlignUp(a) \in Nat /\ a <= AlignUp(a) /\ AlignUp(a) % Granule = 0
           /\ a <= b => AlignUp(a) <= AlignUp(b)
<1>. USE MpuAssumption
<1>1. ASSUME NEW n \in Nat
      PROVE  \E q \in Nat : AlignDown(n) = q * Granule /\ q * Granule <= n /\ n < (q + 1) * Granule
  <2>1. PICK q \in Nat, r \in 0 .. Granule - 1 : n = q * Granule + r /\ n % Granule = r
    BY DivMod
  <2>2. AlignDown(n) = q * Granule
    BY <2>1 DEF AlignDown
  <2>3. (q + 1) * Granule = q * Granule + Granule
    OBVIOUS
  <2>. QED BY <2>1, <2>2, <2>3
<1>2. ASSUME NEW n \in Nat
      PROVE  AlignDown(n) \in Nat /\ AlignDown(n) <= n /\ n < AlignDown(n) + Granule
             /\ AlignDown(n) % Granule = 0
  <2>1. PICK q \in Nat : AlignDown(n) = q * Granule /\ q * Granule <= n /\ n < (q + 1) * Granule
    BY <1>1
  <2>2. (q + 1) * Granule = q * Granule + Granule /\ q * Granule \in Nat
    OBVIOUS
  <2>3. (q * Granule + 0) % Granule = 0
    BY DivIs
  <2>4. (q * Granule) % Granule = 0
    BY <2>2, <2>3
  <2>. QED BY <2>1, <2>2, <2>4
<1>3. ASSUME NEW m \in Nat, NEW n \in Nat, m <= n PROVE AlignDown(m) <= AlignDown(n)
  <2>1. PICK q \in Nat : AlignDown(m) = q * Granule /\ q * Granule <= m
    BY <1>1
  <2>2. PICK t \in Nat : AlignDown(n) = t * Granule /\ n < (t + 1) * Granule
    BY <1>1
  <2>3. q * Granule < (t + 1) * Granule
    BY <1>3, <2>1, <2>2
  <2>4. q < t + 1
    BY <2>3, TimesOrder
  <2>5. q * Granule <= t * Granule
    BY <2>4, TimesOrder
  <2>. QED BY <2>1, <2>2, <2>5
<1>4. a + Granule - 1 \in Nat /\ b + Granule - 1 \in Nat
  OBVIOUS
<1>5. AlignUp(a) \in Nat /\ a <= AlignUp(a) /\ AlignUp(a) % Granule = 0
  <2>1. AlignUp(a) \in Nat /\ a + Granule - 1 < AlignUp(a) + Granule /\ AlignUp(a) % Granule = 0
    BY <1>2, <1>4 DEF AlignUp
  <2>. QED BY <2>1
<1>6. a <= b => AlignUp(a) <= AlignUp(b)
  BY <1>3, <1>4 DEF AlignUp
<1>. QED BY <1>2, <1>5, <1>6

\* The region of a vector holds it, and that of a longer one holds more.
LEMMA VecRegionHolds ==
    ASSUME NEW base \in Nat, NEW size \in Nat, NEW longer \in Nat, size <= longer, NEW p
    PROVE  LET r == VecRegion(base, size, p)
               q == VecRegion(base, longer, p) IN
           /\ r.base = q.base /\ r.base \in Nat /\ r.size \in Nat /\ q.size \in Nat
           /\ r.base + r.size <= q.base + q.size
           /\ r.base % Granule = 0 /\ (r.base + r.size) % Granule = 0
           /\ r.base <= base /\ base + size <= r.base + r.size
<1>1. /\ AlignDown(base) \in Nat /\ AlignDown(base) <= base /\ AlignDown(base) % Granule = 0
      /\ AlignUp(base + size) \in Nat /\ base + size <= AlignUp(base + size)
      /\ AlignUp(base + size) % Granule = 0
      /\ AlignUp(base + longer) \in Nat /\ AlignUp(base + size) <= AlignUp(base + longer)
  BY AlignOrder
<1>2. /\ VecRegion(base, size, p).base = AlignDown(base)
      /\ VecRegion(base, size, p).size = AlignUp(base + size) - AlignDown(base)
      /\ VecRegion(base, longer, p).base = AlignDown(base)
      /\ VecRegion(base, longer, p).size = AlignUp(base + longer) - AlignDown(base)
  BY DEF VecRegion
<1>3. AlignDown(base) + (AlignUp(base + size) - AlignDown(base)) = AlignUp(base + size)
  BY <1>1
<1>. QED BY <1>1, <1>2, <1>3

LEMMA Widened ==
    ASSUME NEW base \in Nat, NEW size \in Nat, NEW longer \in Nat, size <= longer, size > 0, NEW p,
           NEW r, r = VecRegion(base, size, p), NEW w, w = VecRegion(base, longer, p)
    PROVE  /\ w.size > 0 /\ w.base <= r.base /\ r.base + r.size <= w.base + w.size
           /\ r.base % Granule = 0 /\ (r.base + r.size) % Granule = 0
<1>1. /\ r.base = w.base /\ r.base \in Nat /\ r.size \in Nat /\ w.size \in Nat
      /\ r.base + r.size <= w.base + w.size
      /\ r.base % Granule = 0 /\ (r.base + r.size) % Granule = 0
      /\ r.base <= base /\ base + size <= r.base + r.size
  BY VecRegionHolds
<1>. QED BY <1>1

\* Smaller regions fit where larger ones do.
LEMMA SmallerFit ==
    ASSUME NEW R \in Seq(Region), NEW F \in Seq(Region), Len(R) = Len(F), Fits(F),
           \A k \in Sized(R) :
             /\ F[k].size > 0 /\ F[k].base <= R[k].base
             /\ R[k].base + R[k].size <= F[k].base + F[k].size
             /\ R[k].base % Granule = 0 /\ (R[k].base + R[k].size) % Granule = 0
    PROVE  Fits(R)
<1>1. /\ DOMAIN R = 1 .. Len(R) /\ DOMAIN F = 1 .. Len(R) /\ Len(R) \in Nat
      /\ \A k \in DOMAIN R : R[k] \in Region /\ F[k] \in Region
  OBVIOUS
<1>2. Sized(R) \subseteq Sized(F) /\ Sized(F) \subseteq 1 .. Len(R)
  BY <1>1 DEF Sized
<1>3. \A k \in Sized(R) : /\ R[k].base \in Nat /\ R[k].size \in Nat
                          /\ F[k].base \in Nat /\ F[k].size \in Nat
  BY <1>1, <1>2 DEF Region
<1>4. \A k, l \in Sized(R) : k # l =>
        R[k].base + R[k].size <= R[l].base \/ R[l].base + R[l].size <= R[k].base
  <2> TAKE k, l \in Sized(R)
  <2> HAVE k # l
  <2>1. F[k].base + F[k].size <= F[l].base \/ F[l].base + F[l].size <= F[k].base
    BY <1>2 DEF Fits
  <2>2. /\ F[k].base <= R[k].base /\ R[k].base + R[k].size <= F[k].base + F[k].size
        /\ F[l].base <= R[l].base /\ R[l].base + R[l].size <= F[l].base + F[l].size
    OBVIOUS
  <2>3. /\ R[k].base \in Nat /\ R[k].size \in Nat /\ F[k].base \in Nat /\ F[k].size \in Nat
        /\ R[l].base \in Nat /\ R[l].size \in Nat /\ F[l].base \in Nat /\ F[l].size \in Nat
    BY <1>3
  <2>4. ASSUME NEW rb \in Nat, NEW rs \in Nat, NEW fb \in Nat, NEW fs \in Nat,
               NEW qb \in Nat, NEW qs \in Nat, NEW gb \in Nat, NEW gs \in Nat,
               fb <= rb, rb + rs <= fb + fs, gb <= qb, qb + qs <= gb + gs,
               fb + fs <= gb \/ gb + gs <= fb
        PROVE  rb + rs <= qb \/ qb + qs <= rb
    BY <2>4
  <2>. QED BY <2>1, <2>2, <2>3, <2>4
<1>5. Cardinality(Sized(R)) <= MaxRegions
  <2>1. IsFiniteSet(1 .. Len(R))
    BY <1>1, FS_Interval
  <2>2. IsFiniteSet(Sized(F))
    BY <1>2, <2>1, FS_Subset
  <2>3. /\ Cardinality(Sized(R)) <= Cardinality(Sized(F)) /\ IsFiniteSet(Sized(R))
    BY <1>2, <2>2, FS_Subset
  <2>4. Cardinality(Sized(R)) \in Nat /\ Cardinality(Sized(F)) \in Nat
    BY <2>2, <2>3, FS_CardinalityType
  <2>. QED BY <2>3, <2>4, MpuAssumption DEF Fits
<1>. QED BY <1>4, <1>5 DEF Fits

\* The windows of a process, and its custom regions.
OwnRegions(p) ==
    <<[base |-> Rom[p].base, size |-> Rom[p].size, perm |-> "ReadExecute"],
      [base |-> Ram[p].base, size |-> Ram[p].size, perm |-> "ReadWriteXN"]>> \o Custom[p]

\* The granules of all vectors of a call, as they are passed.
WholeVec(v, p) == IF v.size > 0 THEN VecRegion(v.base, v.size, p) ELSE NoRegion

WholeVecs(ins, outs) ==
    [k \in 1 .. 2 * PSA_MAX_IOVEC |->
        IF k <= PSA_MAX_IOVEC THEN WholeVec(ins[k - 1], "ReadXN")
        ELSE WholeVec(outs[k - PSA_MAX_IOVEC - 1], "ReadWriteXN")]

\* The map leaves room for every call that can be made: all vectors of one, in
\* hand at once, are in granules apart from each other and from the windows of
\* the service, and the MPU has regions enough.
MapFits ==
    \A p \in Processes, c \in Processes \cup {Client} :
        c = Client \/ Rank[p] < Rank[c] =>
            \A ins \in [VecIdx -> InBuffers[c]], outs \in [VecIdx -> OutBuffers[c]] :
                Fits(OwnRegions(p) \o WholeVecs(ins, outs))

\* The regions of the vectors come behind those of the process.
LEMMA RegionsSplit ==
    ASSUME NEW p \in Processes, NEW s \in StackOf(Conn), NEW calls, CanTake(s),
           Active(s).handle = p, calls[Active(s).owner] \in Frame
    PROVE  /\ Regions(p, s, calls) = OwnRegions(p) \o VecRegions(Active(s), calls[Active(s).owner])
           /\ OwnRegions(p) \in Seq(Region)
<1>1. /\ <<[base |-> Rom[p].base, size |-> Rom[p].size, perm |-> "ReadExecute"],
           [base |-> Ram[p].base, size |-> Ram[p].size, perm |-> "ReadWriteXN"]>> \in Seq(Region)
      /\ Custom[p] \in Seq(Region)
  BY SpmIpcAssumption DEF Region, Permissions
<1>2. OwnRegions(p) \in Seq(Region)
  BY <1>1, ConcatProperties DEF OwnRegions
<1>. QED BY <1>2 DEF Regions, OwnRegions

\* What the MPU is configured from, while a service runs, fits.
LEMMA RunningFits ==
    ASSUME MapFits, IInv, Requests, At("running")
    PROVE  LET c == Active(connections)
               f == frames[Level] IN
           /\ c \in Conn /\ f \in Frame /\ Process \in Processes
           /\ OwnRegions(Process) \in Seq(Region)
           /\ VecRegions(c, f) \in Seq(Region) /\ Len(VecRegions(c, f)) = 2 * PSA_MAX_IOVEC
           /\ OwnRegions(Process) \o VecRegions(c, f) \in Seq(Region)
           /\ Fits(OwnRegions(Process) \o VecRegions(c, f))
           /\ mpu = Configured(OwnRegions(Process) \o VecRegions(c, f))
<1> DEFINE n == Len(frames)
           c == Active(connections)
           f == frames[n]
           p == f.handle
           own == OwnRegions(p)
           R == own \o VecRegions(c, f)
           F == own \o WholeVecs(f.ins, f.outs)
<1>1. /\ n \in 1 .. n /\ n \in Nat /\ f \in Frame /\ f.step = "running" /\ Level = n /\ Process = p
  BY DEF IInv, TypeOK, At, Level, Process
<1>2. p \in Processes /\ connections.top = n
  BY <1>1 DEF IInv, Chain, Stack, Height, Level
<1>3. /\ CanTake(connections) /\ c \in Conn /\ c.owner = n /\ c.handle = p
      /\ connections \in StackOf(Conn)
  BY <1>1, <1>2, TopOwner DEF IInv, TypeOK, Conn
<1>4. Regions(p, connections, frames) = R /\ own \in Seq(Region)
  BY <1>1, <1>2, <1>3, RegionsSplit
<1>5. mpu = Configured(R)
  <2>1. mpu = MpuConfig(p, connections, frames)
    BY <1>1, <1>2, <1>3 DEF IInv, MpuFollows
  <2>. QED BY <1>4, <2>1 DEF MpuConfig
<1>6. /\ f.ins \in [VecIdx -> InBuffers[Caller(n)]] /\ f.outs \in [VecIdx -> OutBuffers[Caller(n)]]
      /\ \A i \in VecIdx : /\ c.invec[i].size <= f.ins[i].size
                           /\ c.outvec[i].size <= f.outs[i].size
  <2>1. \A i \in VecIdx : /\ c.invec[i].size <= f.ins[i].size
                          /\ c.outvec[i].size <= f.outs[i].size
    BY <1>1, <1>2 DEF Requests, AsPassed, Active
  <2>2. f.ins \in [VecIdx -> InBuffers[Caller(n)]] /\ f.outs \in [VecIdx -> OutBuffers[Caller(n)]]
    BY <1>1 DEF Requests, FromCaller
  <2>. QED BY <2>1, <2>2
<1>7. Fits(F)
  <2>1. CASE n = 1
    BY <1>2, <1>6, <2>1 DEF MapFits, Caller
  <2>2. CASE n # 1
    <3>1. n - 1 \in 1 .. Level /\ n \in 1 .. Level /\ n - 1 < n
      BY <1>1, <2>2
    <3>2. frames[n - 1].step = "calling" /\ Rank[p] < Rank[frames[n - 1].handle]
      BY <1>1, <3>1 DEF IInv, Chain
    <3>3. Caller(n) \in Processes /\ Rank[p] < Rank[Caller(n)]
      BY <2>2, <3>1, <3>2 DEF IInv, Chain, Caller
    <3>. QED BY <1>2, <1>6, <3>3 DEF MapFits
  <2>. QED BY <2>1, <2>2
<1>8. PSA_MAX_IOVEC \in Nat \ {0} /\ 2 * PSA_MAX_IOVEC \in Nat
  BY IoVecAssumption
<1>9. VecRegions(c, f) \in Seq(Region) /\ Len(VecRegions(c, f)) = 2 * PSA_MAX_IOVEC
  BY <1>1, <1>3, VecRegionsType
<1>10. \A i \in VecIdx : /\ f.ins[i].base \in Nat /\ f.outs[i].base \in Nat
                         /\ f.ins[i].size \in Nat /\ f.outs[i].size \in Nat
                         /\ c.invec[i].size \in Nat /\ c.outvec[i].size \in Nat
  BY <1>1, <1>3 DEF Frame, Vectors, Conn, ConnectionOf, InVec, OutVec
<1>11. ASSUME NEW v \in [base : Nat, size : Nat], NEW q \in Permissions PROVE WholeVec(v, q) \in Region
  <2>1. NoRegion \in Region
    BY DEF NoRegion, Region, Permissions
  <2>2. VecRegion(v.base, v.size, q) \in Region
    BY AlignType DEF VecRegion, Region
  <2>. QED BY <2>1, <2>2 DEF WholeVec
<1>12. ASSUME NEW k \in 1 .. 2 * PSA_MAX_IOVEC
       PROVE  /\ k <= PSA_MAX_IOVEC => k - 1 \in VecIdx
              /\ ~(k <= PSA_MAX_IOVEC) => k - PSA_MAX_IOVEC - 1 \in VecIdx
  BY <1>8 DEF VecIdx
<1>13. /\ WholeVecs(f.ins, f.outs) \in Seq(Region)
       /\ Len(WholeVecs(f.ins, f.outs)) = 2 * PSA_MAX_IOVEC
  <2>1. f.ins \in Vectors /\ f.outs \in Vectors
    BY <1>1 DEF Frame
  <2>2. "ReadXN" \in Permissions /\ "ReadWriteXN" \in Permissions
    BY DEF Permissions
  <2>3. ASSUME NEW k \in 1 .. 2 * PSA_MAX_IOVEC PROVE WholeVecs(f.ins, f.outs)[k] \in Region
    <3>1. CASE k <= PSA_MAX_IOVEC
      <4>1. f.ins[k - 1] \in [base : Nat, size : Nat]
        BY <1>12, <2>1, <3>1 DEF Vectors
      <4>. QED BY <1>11, <2>2, <3>1, <4>1 DEF WholeVecs
    <3>2. CASE ~(k <= PSA_MAX_IOVEC)
      <4>1. f.outs[k - PSA_MAX_IOVEC - 1] \in [base : Nat, size : Nat]
        BY <1>12, <2>1, <3>2 DEF Vectors
      <4>. QED BY <1>11, <2>2, <3>2, <4>1 DEF WholeVecs
    <3>. QED BY <3>1, <3>2
  <2>4. WholeVecs(f.ins, f.outs) \in [1 .. 2 * PSA_MAX_IOVEC -> Region]
    BY <2>3 DEF WholeVecs
  <2>. QED BY <1>8, <2>4
\* A region of a vector in hand lies in that of the vector as it was passed.
<1>14. ASSUME NEW k \in 1 .. 2 * PSA_MAX_IOVEC, VecRegions(c, f)[k].size > 0
       PROVE  LET r == VecRegions(c, f)[k]
                  w == WholeVecs(f.ins, f.outs)[k] IN
              /\ w.size > 0 /\ w.base <= r.base /\ r.base + r.size <= w.base + w.size
              /\ r.base % Granule = 0 /\ (r.base + r.size) % Granule = 0
  <2>1. CASE k <= PSA_MAX_IOVEC
    <3>1. k - 1 \in VecIdx
      BY <1>12, <2>1
    <3>2. VecRegions(c, f)[k] = IF InHand(c.invec[k - 1]) /\ c.invec[k - 1].size > 0
                                THEN VecRegion(f.ins[k - 1].base, c.invec[k - 1].size, "ReadXN")
                                ELSE NoRegion
      BY <2>1 DEF VecRegions
    <3>3. c.invec[k - 1].size > 0 /\ VecRegions(c, f)[k] = VecRegion(f.ins[k - 1].base, c.invec[k - 1].size, "ReadXN")
      BY <1>14, <3>2 DEF NoRegion
    <3>4. WholeVecs(f.ins, f.outs)[k] = VecRegion(f.ins[k - 1].base, f.ins[k - 1].size, "ReadXN")
      BY <1>6, <1>10, <2>1, <3>1, <3>3 DEF WholeVecs, WholeVec
    <3> DEFINE b == f.ins[k - 1].base
               s == c.invec[k - 1].size
               t == f.ins[k - 1].size
    <3>5. b \in Nat /\ s \in Nat /\ t \in Nat /\ s <= t /\ s > 0
      BY <1>6, <1>10, <3>1, <3>3
    <3> HIDE DEF b, s, t
    <3>6. LET r == VecRegion(b, s, "ReadXN")
              w == VecRegion(b, t, "ReadXN") IN
          /\ w.size > 0 /\ w.base <= r.base /\ r.base + r.size <= w.base + w.size
          /\ r.base % Granule = 0 /\ (r.base + r.size) % Granule = 0
      BY <3>5, Widened
    <3>. QED BY <3>3, <3>4, <3>6 DEF b, s, t
  <2>2. CASE ~(k <= PSA_MAX_IOVEC)
    <3> DEFINE j == k - PSA_MAX_IOVEC - 1
    <3>1. j \in VecIdx
      BY <1>12, <2>2
    <3>2. VecRegions(c, f)[k] = IF InHand(c.outvec[j]) /\ c.outvec[j].size > 0
                                THEN VecRegion(f.outs[j].base, c.outvec[j].size, "ReadWriteXN")
                                ELSE NoRegion
      BY <2>2 DEF VecRegions
    <3>3. c.outvec[j].size > 0 /\ VecRegions(c, f)[k] = VecRegion(f.outs[j].base, c.outvec[j].size, "ReadWriteXN")
      BY <1>14, <3>2 DEF NoRegion
    <3>4. WholeVecs(f.ins, f.outs)[k] = VecRegion(f.outs[j].base, f.outs[j].size, "ReadWriteXN")
      BY <1>6, <1>10, <2>2, <3>1, <3>3 DEF WholeVecs, WholeVec
    <3> DEFINE b == f.outs[j].base
               s == c.outvec[j].size
               t == f.outs[j].size
    <3>5. b \in Nat /\ s \in Nat /\ t \in Nat /\ s <= t /\ s > 0
      BY <1>6, <1>10, <3>1, <3>3
    <3> HIDE DEF b, s, t
    <3>6. LET r == VecRegion(b, s, "ReadWriteXN")
              w == VecRegion(b, t, "ReadWriteXN") IN
          /\ w.size > 0 /\ w.base <= r.base /\ r.base + r.size <= w.base + w.size
          /\ r.base % Granule = 0 /\ (r.base + r.size) % Granule = 0
      BY <3>5, Widened
    <3>. QED BY <3>3, <3>4, <3>6 DEF b, s, t
  <2>. QED BY <2>1, <2>2
<1>15. /\ R \in Seq(Region) /\ F \in Seq(Region)
       /\ Len(R) = Len(own) + 2 * PSA_MAX_IOVEC /\ Len(F) = Len(R) /\ Len(own) \in Nat
       /\ \A k \in 1 .. Len(R) :
            IF k <= Len(own) THEN R[k] = own[k] /\ F[k] = own[k]
            ELSE /\ R[k] = VecRegions(c, f)[k - Len(own)]
                 /\ F[k] = WholeVecs(f.ins, f.outs)[k - Len(own)]
  <2> DEFINE V == VecRegions(c, f)
             W == WholeVecs(f.ins, f.outs)
  <2>1. own \in Seq(Region) /\ V \in Seq(Region) /\ W \in Seq(Region)
        /\ Len(V) = 2 * PSA_MAX_IOVEC /\ Len(W) = 2 * PSA_MAX_IOVEC
        /\ R = own \o V /\ F = own \o W
    BY <1>4, <1>9, <1>13
  <2> HIDE DEF c, f, own, V, W, R, F
  <2>2. Len(own) \in Nat /\ 2 * PSA_MAX_IOVEC \in Nat
    BY <1>8, <2>1
  <2>3. ASSUME NEW X, X \in Seq(Region), Len(X) = 2 * PSA_MAX_IOVEC, NEW Y, Y = own \o X
        PROVE  /\ Y \in Seq(Region) /\ Len(Y) = Len(own) + 2 * PSA_MAX_IOVEC
               /\ \A k \in 1 .. Len(Y) : Y[k] = IF k <= Len(own) THEN own[k] ELSE X[k - Len(own)]
    <3>1. /\ own \o X \in Seq(Region) /\ Len(own \o X) = Len(own) + Len(X)
          /\ \A k \in 1 .. Len(own) + Len(X) :
               (own \o X)[k] = IF k <= Len(own) THEN own[k] ELSE X[k - Len(own)]
      <4>1. own \in Seq(Region) /\ X \in Seq(Region)
        BY <2>1, <2>3
      <4>. QED BY <4>1, ConcatProperties, Zenon
    <3>. QED BY <2>3, <3>1, Zenon
  <2>4. /\ R \in Seq(Region) /\ Len(R) = Len(own) + 2 * PSA_MAX_IOVEC
        /\ \A k \in 1 .. Len(R) : R[k] = IF k <= Len(own) THEN own[k] ELSE V[k - Len(own)]
    BY <2>1, <2>3
  <2>5. /\ F \in Seq(Region) /\ Len(F) = Len(own) + 2 * PSA_MAX_IOVEC
        /\ \A k \in 1 .. Len(F) : F[k] = IF k <= Len(own) THEN own[k] ELSE W[k - Len(own)]
    BY <2>1, <2>3
  <2>. QED BY <2>2, <2>4, <2>5 DEF V, W
<1>16. ASSUME NEW k \in Sized(R)
       PROVE  /\ F[k].size > 0 /\ F[k].base <= R[k].base
              /\ R[k].base + R[k].size <= F[k].base + F[k].size
              /\ R[k].base % Granule = 0 /\ (R[k].base + R[k].size) % Granule = 0
  <2> HIDE DEF c, f, own, R, F
  <2>1. k \in 1 .. Len(R) /\ R[k].size > 0 /\ R[k] \in Region
    BY <1>15 DEF Sized
  <2>2. CASE k <= Len(own)
    <3>1. R[k] = F[k] /\ k \in Sized(F)
      BY <1>15, <2>1, <2>2 DEF Sized
    <3>2. R[k].base \in Nat /\ R[k].size \in Nat
      BY <2>1 DEF Region
    <3>3. F[k].base % Granule = 0 /\ (F[k].base + F[k].size) % Granule = 0
      BY <1>7, <3>1 DEF Fits
    <3>. QED BY <2>1, <3>1, <3>2, <3>3
  <2>3. CASE ~(k <= Len(own))
    <3>1. k - Len(own) \in 1 .. 2 * PSA_MAX_IOVEC
      BY <1>8, <1>15, <2>1, <2>3
    <3>. QED BY <1>14, <1>15, <2>1, <2>3, <3>1
  <2>. QED BY <2>2, <2>3
<1>17. Fits(R)
  <2> HIDE DEF R, F
  <2>. QED BY <1>7, <1>15, <1>16, SmallerFit
<1>. QED BY <1>1, <1>2, <1>3, <1>4, <1>5, <1>9, <1>15, <1>17

LEMMA FittingReachable ==
    ASSUME MapFits, IInv, Requests
    PROVE  AccessedReachable
<1> DEFINE c == Active(connections)
           f == frames[Level]
           own == OwnRegions(Process)
           R == own \o VecRegions(c, f)
<1> SUFFICES ASSUME At("running"), NEW i \in VecIdx
             PROVE  /\ InHand(c.invec[i]) =>
                         \A a \in f.ins[i].base .. f.ins[i].base + c.invec[i].size - 1 :
                             Grants(mpu, a, FALSE)
                    /\ InHand(c.outvec[i]) =>
                         \A a \in f.outs[i].base .. f.outs[i].base + c.outvec[i].size - 1 :
                             Grants(mpu, a, TRUE)
  BY DEF AccessedReachable
<1>1. /\ c \in Conn /\ f \in Frame /\ own \in Seq(Region)
      /\ VecRegions(c, f) \in Seq(Region) /\ Len(VecRegions(c, f)) = 2 * PSA_MAX_IOVEC
      /\ R \in Seq(Region) /\ Fits(R) /\ mpu = Configured(R)
  BY RunningFits
<1> HIDE DEF own
<1>2. /\ f.ins[i].base \in Nat /\ f.outs[i].base \in Nat
      /\ c.invec[i].size \in Nat /\ c.outvec[i].size \in Nat
  BY <1>1 DEF Frame, Vectors, Conn, ConnectionOf, InVec, OutVec
<1>3. /\ PSA_MAX_IOVEC \in Nat \ {0} /\ i \in 0 .. PSA_MAX_IOVEC - 1
      /\ i + 1 \in 1 .. 2 * PSA_MAX_IOVEC /\ i + 1 <= PSA_MAX_IOVEC /\ (i + 1) - 1 = i
      /\ PSA_MAX_IOVEC + i + 1 \in 1 .. 2 * PSA_MAX_IOVEC
      /\ ~(PSA_MAX_IOVEC + i + 1 <= PSA_MAX_IOVEC)
      /\ (PSA_MAX_IOVEC + i + 1) - PSA_MAX_IOVEC - 1 = i
  BY IoVecAssumption DEF VecIdx
\* A vector's region, if it has bytes, is in the configuration.
<1>4. ASSUME NEW k \in 1 .. 2 * PSA_MAX_IOVEC, NEW base \in Nat, NEW size \in Nat,
             NEW p \in {"ReadXN", "ReadWriteXN"}, NEW a \in base .. base + size - 1,
             VecRegions(c, f)[k] = VecRegion(base, size, p)
      PROVE  Grants(mpu, a, p = "ReadWriteXN")
  <2> DEFINE r == VecRegion(base, size, p)
             k0 == Len(own) + k
  <2>1. /\ r.base \in Nat /\ r.size \in Nat /\ r.base <= base /\ base + size <= r.base + r.size
    BY VecRegionHolds
  <2>2. a \in Int /\ base <= a /\ a < base + size
    BY <1>4
  <2>3. R[k0] = r /\ k0 \in 1 .. Len(R)
    <3> HIDE DEF c, f, r
    <3>1. Len(own) \in Nat /\ k0 \in 1 .. Len(own) + Len(VecRegions(c, f)) /\ ~(k0 <= Len(own))
          /\ k0 - Len(own) = k
      BY <1>1, <1>3
    <3> HIDE DEF k0
    <3>. QED BY <1>1, <1>4, <3>1, ConcatProperties DEF r
  <2>4. k0 \in Sized(R)
    <3>1. r.size > 0
      BY <2>1, <2>2
    <3> HIDE DEF k0, r, R
    <3>. QED BY <1>1, <2>3, <3>1 DEF Sized
  <2>5. PICK w \in DOMAIN mpu : mpu[w] = WindowOf(r)
    <3> HIDE DEF k0, r, R
    <3>. QED BY <1>1, <2>3, <2>4, ConfiguredComplete
  <2>6. /\ mpu[w].base = r.base /\ mpu[w].end = r.base + r.size
        /\ mpu[w].read = UserReads(p) /\ mpu[w].write = UserWrites(p)
    BY <2>5 DEF WindowOf, VecRegion
  <2>7. mpu[w].base <= a /\ a < mpu[w].end
    <3> HIDE DEF r
    <3>. QED BY <2>1, <2>2, <2>6
  <2>8. IF p = "ReadWriteXN" THEN mpu[w].write ELSE mpu[w].read
    BY <2>6 DEF UserReads, UserWrites
  <2>. QED BY <2>7, <2>8 DEF Grants
<1>5. ASSUME InHand(c.invec[i]), NEW a \in f.ins[i].base .. f.ins[i].base + c.invec[i].size - 1
      PROVE  Grants(mpu, a, FALSE)
  <2>1. c.invec[i].size > 0
    BY <1>2
  <2>2. VecRegions(c, f)[i + 1] = VecRegion(f.ins[i].base, c.invec[i].size, "ReadXN")
    BY <1>3, <1>5, <2>1 DEF VecRegions
  <2>3. Grants(mpu, a, "ReadXN" = "ReadWriteXN")
    BY <1>2, <1>3, <1>4, <2>2
  <2>. QED BY <2>3
<1>6. ASSUME InHand(c.outvec[i]), NEW a \in f.outs[i].base .. f.outs[i].base + c.outvec[i].size - 1
      PROVE  Grants(mpu, a, TRUE)
  <2>1. c.outvec[i].size > 0
    BY <1>2
  <2>2. VecRegions(c, f)[PSA_MAX_IOVEC + i + 1] = VecRegion(f.outs[i].base, c.outvec[i].size, "ReadWriteXN")
    BY <1>3, <1>6, <2>1 DEF VecRegions
  <2>3. Grants(mpu, a, "ReadWriteXN" = "ReadWriteXN")
    BY <1>2, <1>3, <1>4, <2>2
  <2>. QED BY <2>3
<1>. QED BY <1>5, <1>6

\* Where the map leaves room for the vectors, a service reads and writes what
\* it holds of them down to the last byte (svc.rs:174 and 191), whatever was
\* accessed, committed and given back before, in whatever order.
THEOREM HeldIsReachable ==
    ASSUME MapFits
    PROVE  Spec => []AccessedReachable
<1>1. IInv /\ Requests => AccessedReachable
  BY FittingReachable
<1>. QED BY <1>1, Invariance, RequestsInvariance, PTL
===============================================================================
