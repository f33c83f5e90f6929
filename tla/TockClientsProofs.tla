-------------------------- MODULE TockClientsProofs --------------------------
(***************************************************************************)
(* Proofs about boot, kernel and Tock processes, for any number of         *)
(* processes, regions and buffers, any lengths of sections, lines and      *)
(* nonces, and resets at any moments.                                      *)
(*                                                                         *)
(* Reserving is enough: the owner of the mutex is the only one on its way  *)
(* to, in, or on its way out of the secure world.  Then, each with an      *)
(* invariant of its own: the statics over a reset, the nonce of the        *)
(* dialogue, and the tables of the memory controllers.                     *)
(***************************************************************************)
EXTENDS TockClients, NumberInduction

\* From a successful reserve to the release.
Holding == {"reserved", "asleep", "building", "calling", "inside", "serving",
            "leaving", "returned", "dead"}

\* Between enter_secure_state and exit_secure_state.
Within == {"inside", "serving", "leaving"}

Types ==
    /\ board \in Boards
    /\ cursor \in Int
    /\ inSecureState \in BOOLEAN
    /\ stage \in [Procs -> Stages]
    /\ request \in [Procs -> [ins : Seq(Buffer), outs : Seq(Buffer)]]

HolderOwns == \A p \in Procs : stage[p] \in Holding => owner = p

\* Between the clearing of .bss, whose third word is the flag, and the kernel
\* nobody is inside; before, the flag is whatever RAM holds.
FlagMeansWithin ==
    /\ phase = "ns" /\ inSecureState => \E p \in Procs : stage[p] \in Within
    /\ phase = "bss" /\ cursor >= Len(Bss) => ~inSecureState
    /\ phase \notin {"bss", "ns"} => ~inSecureState

\* Processes run when the kernel does.
OnlyNsHolds == phase # "ns" => \A p \in Procs : stage[p] \notin Holding

ServedApart == \A p \in Procs : stage[p] = "serving" => PayloadsApart(request[p].ins)

IInv == Types /\ HolderOwns /\ FlagMeansWithin /\ OnlyNsHolds /\ ServedApart

\* What boot does behind .bss: the flag stays as it is.
Quiet ==
    /\ phase \notin {"bss", "ns"}
    /\ cursor' \in {0, cursor, cursor + 1}
    /\ UNCHANGED <<board, inSecureState>>

\* Every step of boot but the clearing of .bss and the port's own is quiet.
LEMMA BootIsQuiet ==
    ASSUME BootStep
    PROVE  ZeroBss \/ Quiet \/ (Transmit /\ UNCHANGED <<board, phase, cursor, inSecureState>>)
<1>. USE DEF Quiet
<1>1. CASE CopyData BY <1>1 DEF CopyData, Round, Advance
<1>2. CASE InitChip BY <1>2 DEF InitChip, Advance
<1>3. CASE InitChipFails BY <1>3 DEF InitChipFails
<1>4. CASE InitSerial BY <1>4 DEF InitSerial, StaticInit, Halt, Advance
<1>5. CASE ConfigureNvic BY <1>5 DEF ConfigureNvic, Round, Advance
<1>6. CASE ConfigureAircr BY <1>6 DEF ConfigureAircr, Advance
<1>7. CASE ConfigureNsAttrs BY <1>7 DEF ConfigureNsAttrs, Round, Advance
<1>8. CASE ConfigureNsPAttrs BY <1>8 DEF ConfigureNsPAttrs, Round, Advance
<1>9. CASE ConfigurePcMasks BY <1>9 DEF ConfigurePcMasks, Round, Advance
<1>10. CASE LockProtectionContexts BY <1>10 DEF LockProtectionContexts, Advance
<1>11. CASE SetRegion BY <1>11 DEF SetRegion, Halt, Round, Advance
<1>12. CASE InitStatics BY <1>12 DEF InitStatics, StaticInit, Halt, Advance
<1>13. CASE SetSpm BY <1>13 DEF SetSpm, Advance
<1>14. CASE EnableIdauNscCode BY <1>14 DEF EnableIdauNscCode, Advance
<1>15. CASE EnableUart1Ns BY <1>15 DEF EnableUart1Ns, Advance
<1>16. CASE BeginMpc BY <1>16 DEF BeginMpc, OnlyMpc, Halt
<1>17. CASE MarkBlock BY <1>17 DEF MarkBlock, OnlyMpc, InJob
<1>18. CASE NextWord BY <1>18 DEF NextWord, OnlyMpc, InJob
<1>19. CASE EndMpc BY <1>19 DEF EndMpc, OnlyMpc, InJob
<1>20. CASE MpcDone BY <1>20 DEF MpcDone, OnlyMpc, Advance
<1>21. CASE SendByte BY <1>21 DEF SendByte, Round, Advance
<1>22. CASE Jump BY <1>22 DEF Jump, Advance
<1>23. CASE Transmit BY <1>23 DEF Transmit
<1>. QED BY <1>1, <1>2, <1>3, <1>4, <1>5, <1>6, <1>7, <1>8, <1>9, <1>10, <1>11, <1>12,
            <1>13, <1>14, <1>15, <1>16, <1>17, <1>18, <1>19, <1>20, <1>21, <1>22, <1>23 DEF BootStep

\* Inputs are built of one buffer of the process or of two.
LEMMA InVecsType ==
    ASSUME NEW b \in Boards, NEW p \in Procs, NEW ins \in InVecs(b, p)
    PROVE  ins \in Seq(Buffer)
<1>1. Buffers[b][p] \subseteq Buffer
  BY ClientsAssumption
<1>2. CASE \E i \in Buffers[b][p] : ins = <<i>>
  BY <1>1, <1>2
<1>3. CASE ins \in Buffers[b][p] \X Buffers[b][p]
  <2>1. PICK i \in Buffer, j \in Buffer : ins = <<i, j>>
    BY <1>1, <1>3
  <2>2. <<i, j>> \in Seq(Buffer)
    OBVIOUS
  <2>. QED BY <2>1, <2>2
<1>. QED BY <1>2, <1>3 DEF InVecs

LEMMA OutVecsType ==
    ASSUME NEW b \in Boards, NEW p \in Procs, NEW outs \in OutVecs(b, p)
    PROVE  outs \in Seq(Buffer)
<1>1. Buffers[b][p] \subseteq Buffer
  BY ClientsAssumption
<1>2. PICK o \in Buffer : outs = <<o>>
  BY <1>1 DEF OutVecs
<1>3. <<o>> \in Seq(Buffer)
  OBVIOUS
<1>. QED BY <1>2, <1>3

\* Two buffers that pass the overlap test have no byte in common.
LEMMA OverlapIsSharing ==
    ASSUME NEW l \in Buffer, NEW r \in Buffer, ~Overlap(l, r)
    PROVE  Bytes(l) \cap Bytes(r) = {}
<1>1. /\ l.base \in Int /\ l.len \in Int
      /\ r.base \in Int /\ r.len \in Int
  BY MemoryCheckAssumption DEF Buffer
<1>2. ASSUME NEW a \in Bytes(l), a \in Bytes(r)
      PROVE  FALSE
  <2>1. a \in Int /\ l.base <= a /\ a < l.base + l.len
    BY <1>1 DEF Bytes
  <2>2. r.base <= a /\ a < r.base + r.len
    BY <1>1, <1>2 DEF Bytes
  <2>. QED BY <1>1, <2>1, <2>2 DEF Overlap
<1>. QED BY <1>2

------------------------------------------------------------------------------

LEMMA InitIInv == Init => IInv
<1>. SUFFICES ASSUME Init PROVE IInv
  OBVIOUS
<1>1. Types
  <2>1. <<>> \in Seq(Buffer) OBVIOUS
  <2>. QED BY <2>1 DEF Init, BootInit, Types, Stages, NoRequest, Begin
<1>2. HolderOwns
  BY DEF Init, HolderOwns, Holding, Begin
<1>3. FlagMeansWithin
  BY DEF Init, BootInit, FlagMeansWithin, Bss
<1>4. ServedApart
  BY DEF Init, ServedApart, Begin
<1>5. OnlyNsHolds
  BY DEF Init, OnlyNsHolds, Holding, Begin
<1>. QED BY <1>1, <1>2, <1>3, <1>4, <1>5 DEF IInv

\* The steps that move one process on within Holding, without owner, flag or
\* vectors: the shape most actions have.
LEMMA MoveKeeps ==
    ASSUME IInv, NEW p \in Procs, NEW s \in Stages,
           stage' = [stage EXCEPT ![p] = s],
           UNCHANGED <<board, phase, cursor, owner, inSecureState, request>>,
           s \in Holding => stage[p] \in Holding,
           stage[p] \in Within => s \in Within,
           s = "serving" => PayloadsApart(request[p].ins)
    PROVE  IInv'
<1>. USE DEF IInv
<1>1. Types'
  BY DEF Types
<1>2. stage'[p] = s /\ \A q \in Procs : q # p => stage'[q] = stage[q]
  BY DEF Types
<1>3. HolderOwns'
  BY <1>2 DEF HolderOwns
<1>4. FlagMeansWithin'
  BY <1>2 DEF FlagMeansWithin
<1>5. ServedApart'
  BY <1>2 DEF ServedApart
<1>6. OnlyNsHolds'
  BY <1>2 DEF OnlyNsHolds
<1>. QED BY <1>1, <1>3, <1>4, <1>5, <1>6

LEMMA BootIInv == IInv /\ Boots => IInv'
<1>. SUFFICES ASSUME IInv, Boots PROVE IInv'
  OBVIOUS
<1>. USE DEF IInv
<1>1. UNCHANGED <<owner, stage, request>>
  BY DEF Boots, clientVars
<1>2. CASE ZeroBss
  <2>1. /\ phase = "bss" /\ UNCHANGED board
        /\ cursor' \in {0, cursor + 1}
        /\ inSecureState' \in BOOLEAN
    BY <1>2 DEF ZeroBss, Advance, Round, Types
  <2>2. Types' BY <1>1, <2>1 DEF Types
  <2>3. FlagMeansWithin'
    <3>1. CASE cursor = Len(Bss)
      <4>1. ~inSecureState' BY <1>2, <3>1 DEF ZeroBss, FlagMeansWithin, Types
      <4>. QED BY <4>1 DEF FlagMeansWithin
    <3>2. CASE cursor # Len(Bss)
      <4>1. /\ phase' = "bss" /\ cursor' = cursor + 1
            /\ inSecureState' = (Bss[cursor + 1] # "inSecureState" /\ inSecureState)
        BY <1>2, <3>2 DEF ZeroBss, Round
      <4>2. Len(Bss) = 3 /\ Bss[3] = "inSecureState" BY DEF Bss
      <4>3. CASE cursor = 2
        <5>1. Bss[cursor + 1] = "inSecureState" BY <4>2, <4>3
        <5>2. ~inSecureState' BY <4>1, <5>1
        <5>. QED BY <5>2 DEF FlagMeansWithin
      <4>4. CASE cursor > 3
        <5>1. ~inSecureState BY <2>1, <4>2, <4>4 DEF FlagMeansWithin, Types
        <5>. QED BY <5>1, <4>1 DEF FlagMeansWithin
      <4>5. CASE cursor < 2
        BY <4>1, <4>2, <4>5 DEF FlagMeansWithin, Types
      <4>. QED BY <3>2, <4>2, <4>3, <4>4, <4>5 DEF Types
    <3>. QED BY <3>1, <3>2
  <2>. QED BY <1>1, <2>1, <2>2, <2>3 DEF HolderOwns, OnlyNsHolds, ServedApart
<1>3. CASE Quiet
  <2>1. ~inSecureState /\ ~inSecureState' BY <1>3 DEF Quiet, FlagMeansWithin
  <2>2. Types' BY <1>1, <1>3, <2>1 DEF Types, Quiet
  <2>3. FlagMeansWithin' BY <2>1 DEF FlagMeansWithin
  <2>. QED BY <1>1, <1>3, <2>2, <2>3 DEF Quiet, HolderOwns, OnlyNsHolds, ServedApart
<1>4. CASE Transmit /\ UNCHANGED <<board, phase, cursor, inSecureState>>
  BY <1>1, <1>4 DEF Types, HolderOwns, FlagMeansWithin, OnlyNsHolds, ServedApart
<1>. QED BY <1>2, <1>3, <1>4, BootIsQuiet DEF Boots

LEMMA StartIInv == IInv /\ StartKernel => IInv'
<1>. SUFFICES ASSUME IInv, StartKernel PROVE IInv'
  OBVIOUS
<1>. USE DEF IInv
<1>1. /\ phase \in {"kernel", "capsules"} /\ cursor' \in {0, cursor}
      /\ owner' \in {NoProc, owner}
      /\ UNCHANGED <<board, inSecureState, stage, request>>
  BY DEF StartKernel, StartKernelPsc3, StartCapsulesPsc3, StartFailsPsc3, StartKernelMusca,
         KernelOnly, Advance
<1>2. Types' BY <1>1 DEF Types
<1>3. \A p \in Procs : stage[p] \notin Holding BY <1>1 DEF OnlyNsHolds
<1>4. HolderOwns' /\ OnlyNsHolds' BY <1>1, <1>3 DEF HolderOwns, OnlyNsHolds
<1>5. FlagMeansWithin' BY <1>1 DEF FlagMeansWithin
<1>6. ServedApart' BY <1>1 DEF ServedApart
<1>. QED BY <1>2, <1>4, <1>5, <1>6

LEMMA ResetIInv == IInv /\ ResetAll => IInv'
<1>. SUFFICES ASSUME IInv, ResetAll PROVE IInv'
  OBVIOUS
<1>. USE DEF IInv
<1>1. /\ phase' = "bss" /\ cursor' = 0
      /\ stage' = [p \in Procs |-> Begin(p)]
      /\ request' = [p \in Procs |-> NoRequest]
      /\ UNCHANGED <<board, inSecureState>>
  BY DEF ResetAll, Reset
<1>2. \A p \in Procs : stage'[p] \in {"prompt", "work"}
  BY <1>1 DEF Begin
<1>3. Types'
  <2>1. NoRequest \in [ins : Seq(Buffer), outs : Seq(Buffer)] BY DEF NoRequest
  <2>. QED BY <1>1, <2>1 DEF Types, Stages, Begin
<1>4. FlagMeansWithin' BY <1>1 DEF FlagMeansWithin, Bss
<1>. QED BY <1>2, <1>3, <1>4 DEF HolderOwns, OnlyNsHolds, ServedApart, Holding

LEMMA NextIInv == IInv /\ [Next]_vars => IInv'
<1>. SUFFICES ASSUME IInv, [Next]_vars PROVE IInv'
  OBVIOUS
<1>1. CASE Boots \/ StartKernel \/ ResetAll
  BY <1>1, BootIInv, StartIInv, ResetIInv
<1>2. CASE UNCHANGED vars
  BY <1>2 DEF vars, bootVars, clientVars, IInv, Types, HolderOwns, FlagMeansWithin,
              OnlyNsHolds, ServedApart
<1>3. ASSUME NEW p \in Procs, Reserve(p) PROVE IInv'
  <2>. USE <1>3 DEF IInv
  <2>1. /\ stage' = [stage EXCEPT ![p] = "reserved"] /\ owner = NoProc /\ owner' = p
        /\ UNCHANGED <<board, phase, cursor, inSecureState, request>> /\ phase = "ns" /\ stage[p] = "work"
    BY DEF Reserve, At, Goto, bootVars
  <2>2. /\ stage'[p] = "reserved"
        /\ \A q \in Procs : q # p => stage'[q] = stage[q]
    BY <2>1 DEF Types
  <2>3. Types' BY <2>1 DEF Types, Stages
  <2>4. HolderOwns'
    BY <2>1, <2>2, ClientsAssumption DEF HolderOwns
  <2>5. FlagMeansWithin' BY <2>1, <2>2 DEF FlagMeansWithin, Within
  <2>6. ServedApart' /\ OnlyNsHolds' BY <2>1, <2>2 DEF ServedApart, OnlyNsHolds
  <2>. QED BY <2>3, <2>4, <2>5, <2>6
<1>4. ASSUME NEW p \in Procs, ReserveFails(p) PROVE IInv'
  <2>1. /\ stage' = [stage EXCEPT ![p] = "yielded"] /\ stage[p] = "work"
        /\ UNCHANGED <<board, phase, cursor, owner, inSecureState, request>>
    BY <1>4 DEF ReserveFails, At, Goto, bootVars
  <2>. QED BY <2>1, MoveKeeps DEF Stages, Holding, Within
<1>5. ASSUME NEW p \in Procs, Upcall(p) PROVE IInv'
  <2>1. /\ stage' = [stage EXCEPT ![p] = "work"] /\ stage[p] = "yielded"
        /\ UNCHANGED <<board, phase, cursor, owner, inSecureState, request>>
    BY <1>5 DEF Upcall, At, Goto, bootVars
  <2>. QED BY <2>1, MoveKeeps DEF Stages, Holding, Within
<1>6. ASSUME NEW p \in Procs, Sleep(p) PROVE IInv'
  <2>1. /\ stage' = [stage EXCEPT ![p] = "asleep"] /\ stage[p] = "reserved"
        /\ UNCHANGED <<board, phase, cursor, owner, inSecureState, request>>
    BY <1>6 DEF Sleep, At, Goto, bootVars
  <2>. QED BY <2>1, MoveKeeps DEF Stages, Holding, Within
<1>7. ASSUME NEW p \in Procs, SleepFails(p) PROVE IInv'
  <2>1. /\ stage' = [stage EXCEPT ![p] = "dead"] /\ stage[p] = "reserved"
        /\ UNCHANGED <<board, phase, cursor, owner, inSecureState, request>>
    BY <1>7 DEF SleepFails, At, Goto, bootVars
  <2>. QED BY <2>1, MoveKeeps DEF Stages, Holding, Within
<1>8. ASSUME NEW p \in Procs, NEW ins \in InVecs(board, p), BuildInVec(p, ins) PROVE IInv'
  <2>. USE <1>8 DEF IInv
  <2>1. /\ stage' = [stage EXCEPT ![p] = "building"] /\ stage[p] \in {"reserved", "asleep"}
        /\ request' = [request EXCEPT ![p].ins = ins]
        /\ UNCHANGED <<board, phase, cursor, owner, inSecureState>> /\ phase = "ns"
    BY DEF BuildInVec, At, Goto, bootVars
  <2>2. /\ stage'[p] = "building"
        /\ \A q \in Procs : q # p => stage'[q] = stage[q] /\ request'[q] = request[q]
    BY <2>1 DEF Types
  <2>3. ins \in Seq(Buffer) BY InVecsType DEF Types
  <2>4. Types' BY <2>1, <2>3 DEF Types, Stages
  <2>5. HolderOwns' BY <2>1, <2>2 DEF HolderOwns, Holding
  <2>6. FlagMeansWithin' BY <2>1, <2>2 DEF FlagMeansWithin, Within
  <2>7. ServedApart' /\ OnlyNsHolds' BY <2>1, <2>2 DEF ServedApart, OnlyNsHolds
  <2>. QED BY <2>4, <2>5, <2>6, <2>7
<1>9. ASSUME NEW p \in Procs, NEW outs \in OutVecs(board, p), BuildOutVec(p, outs) PROVE IInv'
  <2>. USE <1>9 DEF IInv
  <2>1. /\ stage' = [stage EXCEPT ![p] = "calling"] /\ stage[p] = "building"
        /\ request' = [request EXCEPT ![p].outs = outs]
        /\ UNCHANGED <<board, phase, cursor, owner, inSecureState>> /\ phase = "ns"
    BY DEF BuildOutVec, At, Goto, bootVars
  <2>2. /\ stage'[p] = "calling"
        /\ \A q \in Procs : q # p => stage'[q] = stage[q] /\ request'[q] = request[q]
    BY <2>1 DEF Types
  <2>3. outs \in Seq(Buffer) BY OutVecsType DEF Types
  <2>4. Types' BY <2>1, <2>3 DEF Types, Stages
  <2>5. HolderOwns' BY <2>1, <2>2 DEF HolderOwns, Holding
  <2>6. FlagMeansWithin' BY <2>1, <2>2 DEF FlagMeansWithin, Within
  <2>7. ServedApart' /\ OnlyNsHolds' BY <2>1, <2>2 DEF ServedApart, OnlyNsHolds
  <2>. QED BY <2>4, <2>5, <2>6, <2>7
<1>10. ASSUME NEW p \in Procs, EnterVeneer(p) PROVE IInv'
  <2>. USE <1>10 DEF IInv
  <2>1. stage[p] = "calling" /\ inSecureState' = TRUE /\ UNCHANGED <<board, phase, cursor, owner, request>> /\ phase = "ns"
    BY DEF EnterVeneer, At, BootDone
  <2>2. owner = p BY <2>1 DEF HolderOwns, Holding
  \* Whoever is inside owns the mutex as well.
  <2>3. ~inSecureState
    BY <2>1, <2>2 DEF FlagMeansWithin, HolderOwns, Within, Holding
  <2>4. stage' = [stage EXCEPT ![p] = "inside"]
    BY <2>3 DEF EnterVeneer, Goto
  <2>5. stage'[p] = "inside" /\ \A q \in Procs : q # p => stage'[q] = stage[q]
    BY <2>4 DEF Types
  <2>6. Types' BY <2>1, <2>4 DEF Types, Stages
  <2>7. HolderOwns' BY <2>1, <2>2, <2>5 DEF HolderOwns
  <2>8. FlagMeansWithin' BY <2>1, <2>5 DEF FlagMeansWithin, Within
  <2>9. ServedApart' /\ OnlyNsHolds' BY <2>1, <2>5 DEF ServedApart, OnlyNsHolds
  <2>. QED BY <2>6, <2>7, <2>8, <2>9
<1>11. ASSUME NEW p \in Procs, Connect(p) PROVE IInv'
  <2>1. /\ stage' = [stage EXCEPT ![p] = "serving"] /\ stage[p] = "inside"
        /\ UNCHANGED <<board, phase, cursor, owner, inSecureState, request>>
    BY <1>11 DEF Connect, At, Goto, bootVars
  <2>2. PayloadsApart(request[p].ins)
    BY <1>11 DEF Connect, Accepted, CallAccepted
  <2>. QED BY <2>1, <2>2, MoveKeeps DEF Stages, Holding, Within
<1>12. ASSUME NEW p \in Procs, ConnectFails(p) PROVE IInv'
  <2>1. /\ stage' = [stage EXCEPT ![p] = "leaving"] /\ stage[p] = "inside"
        /\ UNCHANGED <<board, phase, cursor, owner, inSecureState, request>>
    BY <1>12 DEF ConnectFails, At, Goto, bootVars
  <2>. QED BY <2>1, MoveKeeps DEF Stages, Holding, Within
<1>13. ASSUME NEW p \in Procs, Serve(p) PROVE IInv'
  <2>1. /\ stage' = [stage EXCEPT ![p] = "leaving"] /\ stage[p] = "serving"
        /\ UNCHANGED <<board, phase, cursor, owner, inSecureState, request>>
    BY <1>13 DEF Serve, At, Goto, bootVars
  <2>. QED BY <2>1, MoveKeeps DEF Stages, Holding, Within
<1>14. ASSUME NEW p \in Procs, ExitVeneer(p) PROVE IInv'
  <2>. USE <1>14 DEF IInv
  <2>1. /\ stage' = [stage EXCEPT ![p] = "returned"] /\ stage[p] = "leaving"
        /\ inSecureState' = FALSE
        /\ UNCHANGED <<board, phase, cursor, owner, request>> /\ phase = "ns"
    BY DEF ExitVeneer, At, Goto, BootDone
  <2>2. stage'[p] = "returned" /\ \A q \in Procs : q # p => stage'[q] = stage[q]
    BY <2>1 DEF Types
  <2>3. Types' BY <2>1 DEF Types, Stages
  <2>4. HolderOwns' BY <2>1, <2>2 DEF HolderOwns, Holding
  <2>5. FlagMeansWithin' BY <2>1 DEF FlagMeansWithin
  <2>6. ServedApart' /\ OnlyNsHolds' BY <2>1, <2>2 DEF ServedApart, OnlyNsHolds
  <2>. QED BY <2>3, <2>4, <2>5, <2>6
<1>15. ASSUME NEW p \in Procs, Release(p) PROVE IInv'
  <2>. USE <1>15 DEF IInv
  <2>1. /\ stage' = [stage EXCEPT ![p] = Begin(p)] /\ stage[p] = "returned"
        /\ request' = [request EXCEPT ![p] = NoRequest]
        /\ UNCHANGED <<board, phase, cursor, inSecureState>> /\ phase = "ns"
    BY DEF Release, At, Goto, bootVars
  <2>2. /\ stage'[p] \in {"prompt", "work"}
        /\ \A q \in Procs : q # p => stage'[q] = stage[q] /\ request'[q] = request[q]
    BY <2>1 DEF Types, Begin
  <2>3. Types'
    <3>1. NoRequest \in [ins : Seq(Buffer), outs : Seq(Buffer)] BY DEF NoRequest
    <3>. QED BY <2>1, <3>1 DEF Types, Stages, Begin
  \* No other process holds: it would own what p owns.
  <2>4. \A q \in Procs : q # p => stage[q] \notin Holding
    BY <2>1 DEF HolderOwns, Holding
  <2>5. HolderOwns' BY <2>2, <2>4 DEF HolderOwns, Holding
  <2>6. FlagMeansWithin' BY <2>1, <2>2 DEF FlagMeansWithin, Within
  <2>7. ServedApart' /\ OnlyNsHolds' BY <2>1, <2>2 DEF ServedApart, OnlyNsHolds
  <2>. QED BY <2>3, <2>5, <2>6, <2>7
<1>17. ASSUME NEW p \in Procs, NEW line \in Lines, ReadLine(p, line) PROVE IInv'
  <2>1. /\ stage' = stage \/ stage' = [stage EXCEPT ![p] = "accepted"]
        /\ stage[p] = "prompt"
        /\ UNCHANGED <<board, phase, cursor, owner, inSecureState, request>>
    BY <1>17 DEF ReadLine, Parse, Accept, At, Goto, bootVars
  <2>2. CASE stage' = stage
    BY <2>1, <2>2 DEF IInv, Types, HolderOwns, FlagMeansWithin, OnlyNsHolds, ServedApart
  <2>3. CASE stage' = [stage EXCEPT ![p] = "accepted"]
    BY <2>1, <2>3, MoveKeeps DEF Stages, Holding, Within
  <2>. QED BY <2>1, <2>2, <2>3
<1>18. ASSUME NEW p \in Procs, ConsoleFails(p) PROVE IInv'
  <2>1. UNCHANGED <<board, phase, cursor, owner, inSecureState, stage, request>>
    BY <1>18 DEF ConsoleFails, bootVars
  <2>. QED BY <2>1 DEF IInv, Types, HolderOwns, FlagMeansWithin, OnlyNsHolds, ServedApart
<1>19. ASSUME NEW p \in Procs, Exists(p) PROVE IInv'
  <2>1. PICK s \in {"work", "prompt"} :
          /\ stage' = [stage EXCEPT ![p] = s] /\ stage[p] = "accepted"
          /\ UNCHANGED <<board, phase, cursor, owner, inSecureState, request>>
    BY <1>19 DEF Exists, At, Goto, bootVars
  <2>. QED BY <2>1, MoveKeeps DEF Stages, Holding, Within
<1>16. ASSUME NEW p \in Procs, Step(p) PROVE IInv'
  BY <1>16, <1>6, <1>7, <1>19, <1>8, <1>9, <1>10, <1>11, <1>12, <1>13, <1>14, <1>15 DEF Step
<1>. QED BY <1>1, <1>2, <1>3, <1>4, <1>5, <1>16, <1>17, <1>18 DEF Next

\* The invariant the theorems below rest on holds in every reachable state.
THEOREM Invariance == Spec => []IInv
<1>1. Init => IInv BY InitIInv
<1>2. IInv /\ [Next]_vars => IInv' BY NextIInv
<1>. QED BY <1>1, <1>2, PTL DEF Spec

------------------------------------------------------------------------------

\* A process that has reserved the SPE never finds the veneer taken
\* (veneers.rs:66), however many processes there are.
OwnerMayEnter == \A p \in Procs : stage[p] = "calling" => ~inSecureState

\* So the gate refuses no client that keeps to the mutex.
THEOREM GateIsFree == Spec => []OwnerMayEnter
<1>1. IInv => OwnerMayEnter
  BY DEF IInv, OwnerMayEnter, FlagMeansWithin, OnlyNsHolds, HolderOwns, Within, Holding
<1>. QED BY <1>1, Invariance, PTL

\* The release whose result the app drops succeeds (tock_spe_mutex, release).
THEOREM ReleaseIsOwners == Spec => []ReleaseSucceeds
<1>1. IInv => ReleaseSucceeds
  BY DEF IInv, ReleaseSucceeds, HolderOwns, Holding
<1>. QED BY <1>1, Invariance, PTL

\* A service never sees one byte through two inputs, whatever buffers the
\* process passes (validate_invec_payload_nonoverlap).
THEOREM NoDoubleFetch == Spec => []InputsApart
<1>1. IInv => InputsApart
  <2>. SUFFICES ASSUME IInv, NEW p \in Procs, stage[p] = "serving",
                       NEW i \in DOMAIN request[p].ins, NEW j \in DOMAIN request[p].ins,
                       i # j
                PROVE  Bytes(request[p].ins[i]) \cap Bytes(request[p].ins[j]) = {}
    BY DEF InputsApart
  <2>1. request[p].ins \in Seq(Buffer) BY DEF IInv, Types
  <2>2. PayloadsApart(request[p].ins) BY DEF IInv, ServedApart
  <2>3. /\ i \in Nat /\ j \in Nat
        /\ request[p].ins[i] \in Buffer /\ request[p].ins[j] \in Buffer
    BY <2>1
  <2>4. CASE i < j
    BY <2>2, <2>3, <2>4, OverlapIsSharing DEF PayloadsApart
  <2>5. CASE j < i
    <3>1. Bytes(request[p].ins[j]) \cap Bytes(request[p].ins[i]) = {}
      BY <2>2, <2>3, <2>5, OverlapIsSharing DEF PayloadsApart
    <3>. QED BY <3>1
  <2>. QED BY <2>3, <2>4, <2>5
<1>. QED BY <1>1, Invariance, PTL

------------------------------------------------------------------------------
(* The statics: what a reset leaves in RAM, and who writes it after that.  *)

\* The order of start(): main's first step needs both loops of the startup
\* code, and nothing comes back to them.
LEMMA OrderOfBoot ==
    ASSUME board \in Boards, Advance, phase # "ns"
    PROVE  /\ phase' # "bss"
           /\ phase = "bss" <=> phase' = "data"
           /\ phase' \in {"init", "serial"} => phase \in {"data", "init"}
           /\ phase' \notin {"data", "init", "serial"} => phase \notin {"bss", "data"}
<1>1. PICK i \in DOMAIN Order(board) : Order(board)[i] = phase /\ phase' = Order(board)[i + 1]
  BY DEF Advance
<1>2. CASE board = "musca_b1"
  <2>1. Order(board) = MuscaOrder
    BY <1>2 DEF Order
  <2> QED
    BY <1>1, <2>1 DEF MuscaOrder
<1>3. CASE board = "psc3m5_evk"
  <2>1. Order(board) = Psc3Order
    BY <1>3 DEF Order
  <2> QED
    BY <1>1, <2>1 DEF Psc3Order
<1>4. CASE board = "psc3m5_evk_ipc"
  <2>1. Order(board) = Psc3IpcOrder
    BY <1>4 DEF Order
  <2> QED
    BY <1>1, <2>1 DEF Psc3IpcOrder
<1> QED
  BY <1>2, <1>3, <1>4, BootAssumption

\* What the clearing of .bss and the copying of .data have done so far, and
\* that it lasts: a flag of static_buf! is set by main only, the once lock too.
Cleared ==
    /\ phase \in {"data", "init", "serial"} \/ (phase = "bss" /\ cursor >= 1) => ram.used = {}
    /\ phase \in {"data", "init", "serial"} \/ (phase = "bss" /\ cursor >= 2) =>
           spm = "Uninitialized"

Copied ==
    /\ phase = "data" => \A w \in 1 .. DataWords : w <= cursor => ram.data[w] = "image"
    /\ phase \notin {"bss", "data"} => \A w \in 1 .. DataWords : ram.data[w] = "image"

StaticsInv ==
    /\ cursor \in Nat
    /\ ram \in [used : SUBSET Statics, data : [1 .. DataWords -> {"stale", "image"}]]
    /\ Cleared
    /\ Copied

\* A step behind the startup code that leaves the statics alone.
Bystander ==
    /\ phase \notin {"bss", "data"} /\ phase' \notin {"bss", "data"}
    /\ phase' \in {"init", "serial"} => phase \in {"init", "serial"}
    /\ cursor' \in {0, cursor, cursor + 1}
    /\ UNCHANGED <<ram, spm>>

\* Most steps of boot are bystanders.
LEMMA BootLeavesStatics ==
    ASSUME board \in Boards, BootStep
    PROVE  \/ ZeroBss \/ CopyData \/ InitSerial \/ InitStatics \/ SetSpm \/ Bystander
           \/ UNCHANGED <<phase, cursor, ram, spm>>
<1>1. ASSUME phase \notin {"bss", "data", "ns"}, UNCHANGED <<ram, spm>>,
             \/ Advance
             \/ UNCHANGED phase /\ cursor' \in {cursor, cursor + 1}
             \/ phase' \in {"failed", "halted"} /\ UNCHANGED cursor
      PROVE  Bystander
  <2>1. CASE Advance
    <3>1. cursor' = 0
      BY <2>1 DEF Advance
    <3> QED
      BY <1>1, <2>1, <3>1, OrderOfBoot DEF Bystander
  <2> QED
    BY <1>1, <2>1 DEF Bystander
<1>2. CASE InitChip BY <1>1, <1>2 DEF InitChip
<1>3. CASE InitChipFails BY <1>1, <1>3 DEF InitChipFails
<1>4. CASE ConfigureNvic BY <1>1, <1>4 DEF ConfigureNvic, Round
<1>5. CASE ConfigureAircr BY <1>1, <1>5 DEF ConfigureAircr
<1>6. CASE ConfigureNsAttrs BY <1>1, <1>6 DEF ConfigureNsAttrs, Round
<1>7. CASE ConfigureNsPAttrs BY <1>1, <1>7 DEF ConfigureNsPAttrs, Round
<1>8. CASE ConfigurePcMasks BY <1>1, <1>8 DEF ConfigurePcMasks, Round
<1>9. CASE LockProtectionContexts BY <1>1, <1>9 DEF LockProtectionContexts
<1>10. CASE SetRegion BY <1>1, <1>10 DEF SetRegion, Halt, Round
<1>11. CASE EnableIdauNscCode BY <1>1, <1>11 DEF EnableIdauNscCode
<1>12. CASE EnableUart1Ns BY <1>1, <1>12 DEF EnableUart1Ns
<1>13. CASE BeginMpc BY <1>1, <1>13 DEF BeginMpc, OnlyMpc, Halt
<1>14. CASE MarkBlock BY <1>1, <1>14 DEF MarkBlock, OnlyMpc, InJob
<1>15. CASE NextWord BY <1>1, <1>15 DEF NextWord, OnlyMpc, InJob
<1>16. CASE EndMpc BY <1>1, <1>16 DEF EndMpc, OnlyMpc, InJob
<1>17. CASE MpcDone BY <1>1, <1>17 DEF MpcDone, OnlyMpc
<1>18. CASE SendByte BY <1>1, <1>18 DEF SendByte, Round
<1>19. CASE Jump BY <1>1, <1>19 DEF Jump
<1>20. CASE Transmit BY <1>20 DEF Transmit
<1> QED
  BY <1>2, <1>3, <1>4, <1>5, <1>6, <1>7, <1>8, <1>9, <1>10, <1>11, <1>12, <1>13, <1>14,
     <1>15, <1>16, <1>17, <1>18, <1>19, <1>20 DEF BootStep

LEMMA BootKeepsStatics ==
    ASSUME board \in Boards, StaticsInv, BootStep
    PROVE  StaticsInv'
<1> USE BootAssumption DEF StaticsInv
<1>1. CASE ZeroBss
  <2>1. phase = "bss" /\ Len(Bss) = 3 /\ Bss[1] = "used" /\ Bss[2] = "spm"
    BY <1>1 DEF ZeroBss, Bss
  <2>2. CASE cursor = Len(Bss)
    <3>1. /\ phase' = "data" /\ cursor' = 0 /\ UNCHANGED <<ram, spm>>
      BY <1>1, <2>1, <2>2, OrderOfBoot DEF ZeroBss, Advance
    <3> QED
      BY <2>1, <2>2, <3>1 DEF Cleared, Copied
  <2>3. CASE cursor # Len(Bss)
    <3>1. /\ ram' = IF Bss[cursor + 1] = "used" THEN [ram EXCEPT !.used = {}] ELSE ram
          /\ spm' = IF Bss[cursor + 1] = "spm" THEN "Uninitialized" ELSE spm
          /\ phase' = "bss" /\ cursor' = cursor + 1
      BY <1>1, <2>1, <2>3 DEF ZeroBss, Round
    <3>2. ram' \in [used : SUBSET Statics, data : [1 .. DataWords -> {"stale", "image"}]]
      BY <3>1
    <3>3. ram'.used = {}
      <4>1. CASE cursor = 0
        BY <2>1, <3>1, <4>1
      <4>2. CASE cursor >= 1
        BY <2>1, <3>1, <4>2 DEF Cleared
      <4> QED
        BY <4>1, <4>2
    <3>4. cursor' >= 2 => spm' = "Uninitialized"
      <4>1. CASE cursor = 1
        BY <2>1, <3>1, <4>1
      <4>2. CASE cursor >= 2
        BY <2>1, <3>1, <4>2 DEF Cleared
      <4> QED
        BY <3>1, <4>1, <4>2
    <3> QED
      BY <3>1, <3>2, <3>3, <3>4, SMTT(30) DEF Cleared, Copied
  <2> QED
    BY <2>2, <2>3
<1>2. CASE CopyData
  <2>1. phase = "data" /\ UNCHANGED spm
    BY <1>2 DEF CopyData
  <2>2. CASE cursor = DataWords
    <3>1. /\ phase' \notin {"bss", "data"} /\ cursor' = 0 /\ UNCHANGED ram
      BY <1>2, <2>1, <2>2, OrderOfBoot DEF CopyData, Advance
    <3> QED
      BY <2>1, <2>2, <3>1 DEF Cleared, Copied
  <2>3. CASE cursor # DataWords
    <3>1. /\ ram' = [ram EXCEPT !.data[cursor + 1] = "image"]
          /\ phase' = "data" /\ cursor' = cursor + 1
      BY <1>2, <2>1, <2>3 DEF CopyData, Round
    <3>2. /\ ram'.used = ram.used
          /\ ram'.data = [ram.data EXCEPT ![cursor + 1] = "image"]
          /\ ram' \in [used : SUBSET Statics, data : [1 .. DataWords -> {"stale", "image"}]]
      BY <3>1
    <3>3. \A w \in 1 .. DataWords : w <= cursor' => ram'.data[w] = "image"
      BY <2>1, <3>1, <3>2 DEF Copied
    <3>4. Cleared'
      BY <2>1, <3>1, <3>2 DEF Cleared
    <3>5. Copied'
      BY <3>1, <3>3 DEF Copied
    <3>6. cursor' \in Nat
      BY <3>1
    <3> QED
      BY <3>2, <3>4, <3>5, <3>6, Zenon
  <2> QED
    BY <2>2, <2>3
<1>3. ASSUME NEW static \in Statics, StaticInit(static), UNCHANGED spm,
             phase \in {"serial", "statics"}
      PROVE  StaticsInv'
  <2>1. CASE static \in ram.used
    BY <1>3, <2>1 DEF StaticInit, Halt, Cleared, Copied
  <2>2. CASE static \notin ram.used
    <3>1. /\ phase' \notin {"bss", "data", "init", "serial"} /\ cursor' = 0
          /\ ram' = [ram EXCEPT !.used = @ \cup {static}]
      BY <1>3, <2>2, OrderOfBoot DEF StaticInit, Advance
    <3>2. /\ ram'.data = ram.data
          /\ ram' \in [used : SUBSET Statics, data : [1 .. DataWords -> {"stale", "image"}]]
      BY <3>1
    <3> QED
      BY <1>3, <3>1, <3>2 DEF Cleared, Copied
  <2> QED
    BY <2>1, <2>2
<1>4. CASE InitSerial
  BY <1>3, <1>4 DEF InitSerial, Statics
<1>5. CASE InitStatics
  BY <1>3, <1>5 DEF InitStatics, Statics
<1>6. CASE SetSpm
  <2>1. /\ phase = "spm" /\ phase' \notin {"bss", "data", "init", "serial"} /\ cursor' = 0
        /\ UNCHANGED ram
    BY <1>6, OrderOfBoot DEF SetSpm, Advance
  <2> QED
    BY <2>1 DEF Cleared, Copied
<1>7. CASE Bystander
  BY <1>7 DEF Bystander, Cleared, Copied
<1>8. CASE UNCHANGED <<phase, cursor, ram, spm>>
  BY <1>8 DEF Cleared, Copied
<1> QED
  BY <1>1, <1>2, <1>4, <1>5, <1>6, <1>7, <1>8, BootLeavesStatics

\* The statics have been cleared or copied as far as boot has come, whenever
\* the system was reset.
THEOREM StaticsInvariance == Spec => []StaticsInv
<1>1. Init => StaticsInv
  BY BootAssumption DEF Init, BootInit, StaticsInv, Cleared, Copied, Statics, StaleData
<1>2. board \in Boards /\ StaticsInv /\ [Next]_vars => StaticsInv'
  <2> SUFFICES ASSUME board \in Boards, StaticsInv, [Next]_vars PROVE StaticsInv'
    OBVIOUS
  <2>1. CASE Boots
    BY <2>1, BootKeepsStatics DEF Boots
  <2>2. CASE StartKernel
    <3>1. /\ phase \in {"kernel", "capsules"} /\ UNCHANGED <<ram, spm>>
          /\ Advance \/ (phase' = "failed" /\ UNCHANGED cursor)
      BY <2>2 DEF StartKernel, StartKernelPsc3, StartCapsulesPsc3, StartFailsPsc3,
                  StartKernelMusca, KernelOnly
    <3>2. phase' \notin {"bss", "data", "init", "serial"} /\ cursor' \in {0, cursor}
      BY <3>1, OrderOfBoot DEF Advance
    <3> QED
      BY <3>1, <3>2 DEF StaticsInv, Cleared, Copied
  <2>3. CASE ResetAll
    <3>1. phase' = "bss" /\ cursor' = 0 /\ ram' = [ram EXCEPT !.data = StaleData]
      BY <2>3 DEF ResetAll, Reset
    <3>2. StaleData \in [1 .. DataWords -> {"stale", "image"}]
      BY DEF StaleData
    <3> QED
      BY <3>1, <3>2 DEF StaticsInv, Cleared, Copied
  <2>4. CASE UNCHANGED <<phase, cursor, ram, spm>>
    BY <2>4 DEF StaticsInv, Cleared, Copied
  <2>5. ASSUME NEW p \in Procs, NEW line \in Lines, ReadLine(p, line)
        PROVE  UNCHANGED <<phase, cursor, ram, spm>>
    BY <2>5 DEF ReadLine, bootVars
  <2>6. ASSUME NEW p \in Procs, Step(p) PROVE UNCHANGED <<phase, cursor, ram, spm>>
    BY <2>6 DEF Step, Exists, Sleep, SleepFails, BuildInVec, BuildOutVec, EnterVeneer, BootDone,
                Connect, ConnectFails, Serve, ExitVeneer, Release, bootVars
  <2>7. ASSUME NEW p \in Procs, ConsoleFails(p) \/ Reserve(p) \/ ReserveFails(p) \/ Upcall(p)
        PROVE  UNCHANGED <<phase, cursor, ram, spm>>
    BY <2>7 DEF ConsoleFails, Reserve, ReserveFails, Upcall, bootVars
  <2>8. CASE UNCHANGED vars
    BY <2>4, <2>8 DEF vars, bootVars
  <2> QED
    BY <2>1, <2>2, <2>3, <2>4, <2>5, <2>6, <2>7, <2>8 DEF Next
<1>3. IInv => board \in Boards
  BY DEF IInv, Types
<1> QED
  BY <1>1, <1>2, <1>3, Invariance, PTL DEF Spec

\* No static has a value of an earlier boot once main runs, for any number of
\* resets at any moments (startup.rs:19-64).
THEOREM FreshStatics == Spec => []StaticsFresh
<1>1. IInv /\ StaticsInv => StaticsFresh
  <2> SUFFICES ASSUME IInv, StaticsInv, phase \notin {"bss", "data"}
               PROVE  /\ \A w \in DOMAIN ram.data : ram.data[w] = "image"
                      /\ ~(Running \/ phase = "jump") => ~inSecureState
                      /\ phase \in {"init", "serial"} => ram.used = {} /\ spm = "Uninitialized"
    BY DEF StaticsFresh
  <2>1. \A w \in DOMAIN ram.data : ram.data[w] = "image"
    BY DEF StaticsInv, Copied
  <2>2. ~(Running \/ phase = "jump") => ~inSecureState
    BY DEF IInv, FlagMeansWithin, Running
  <2>3. phase \in {"init", "serial"} => ram.used = {} /\ spm = "Uninitialized"
    BY DEF StaticsInv, Cleared
  <2> QED
    BY <2>1, <2>2, <2>3
<1> QED
  BY <1>1, Invariance, StaticsInvariance, PTL

------------------------------------------------------------------------------
(* The nonce that is typed in.                                             *)

HexState == [out : Seq(0 .. 255), hi : Digits \cup {NoDigit}]

LEMMA HexStepType ==
    ASSUME NEW acc \in HexState, NEW c \in Digits \cup {NoDigit}
    PROVE  HexStep(acc, c) \in HexState
<1>1. CASE Len(acc.out) = NonceBytes \/ c \notin Digits \/ acc.hi = NoDigit
  BY <1>1 DEF HexStep, HexState, NoDigit
<1>2. CASE Len(acc.out) # NonceBytes /\ c \in Digits /\ acc.hi # NoDigit
  <2>1. acc.hi \in 0 .. 15 /\ c \in 0 .. 15
    BY <1>2 DEF HexState, Digits
  <2>2. acc.hi * 16 + c \in 0 .. 255
    BY <2>1
  <2>3. Append(acc.out, acc.hi * 16 + c) \in Seq(0 .. 255)
    BY <2>2 DEF HexState
  <2>4. HexStep(acc, c) = [out |-> Append(acc.out, acc.hi * 16 + c), hi |-> NoDigit]
    BY <1>2 DEF HexStep
  <2> QED
    BY <2>3, <2>4 DEF HexState
<1> QED
  BY <1>1, <1>2

\* The recursion along the line has a solution, and Parsed is one.
LEMMA ParsedDef ==
    ASSUME NEW line \in Seq(Digits \cup {NoDigit})
    PROVE  /\ ParseHex(line) = Parsed(line)[Len(line)].out
           /\ Parsed(line)[0] = [out |-> <<>>, hi |-> NoDigit]
           /\ \A k \in 1 .. Len(line) : Parsed(line)[k] = HexStep(Parsed(line)[k - 1], line[k])
<1> DEFINE Digit(w, k) == IF k = 0 THEN [out |-> <<>>, hi |-> NoDigit]
                          ELSE HexStep(w[k - 1], line[k])
           Solves(w, n) == w = [k \in 0 .. n |-> Digit(w, k)]
           S == {n \in Nat : \E w : Solves(w, n)}
<1>1. 0 \in S
  <2>1. Solves([k \in 0 .. 0 |-> [out |-> <<>>, hi |-> NoDigit]], 0)
    OBVIOUS
  <2> QED
    BY <2>1
<1>2. ASSUME NEW n \in Nat, n \in S PROVE n + 1 \in S
  <2>1. PICK c : Solves(c, n)
    BY <1>2
  <2> DEFINE d == [k \in 0 .. n + 1 |-> IF k = n + 1 THEN Digit(c, k) ELSE c[k]]
  <2>2. \A k \in 0 .. n : d[k] = c[k] /\ c[k] = Digit(c, k)
    BY <2>1
  <2>3. \A k \in 0 .. n + 1 : d[k] = Digit(d, k)
    <3> TAKE k \in 0 .. n + 1
    <3>1. CASE k = n + 1
      BY <2>2, <3>1
    <3>2. CASE k # n + 1
      <4>1. k \in 0 .. n
        BY <3>2
      <4>2. d[k] = Digit(c, k)
        <5> HIDE DEF d, Digit
        <5> QED
          BY <2>2, <4>1
      <4>3. k # 0 => d[k - 1] = c[k - 1]
        BY <2>2, <4>1
      <4> HIDE DEF d
      <4> QED
        BY <4>2, <4>3
    <3> QED
      BY <3>1, <3>2
  <2>4. Solves(d, n + 1)
    BY <2>3
  <2> HIDE DEF d, Solves
  <2> QED
    BY <2>4
<1>3. Len(line) \in S
  <2> HIDE DEF S
  <2> QED
    BY <1>1, <1>2, Induction
<1>4. Parsed(line) = CHOOSE w : Solves(w, Len(line))
  BY DEF Parsed
<1>5. Solves(Parsed(line), Len(line))
  <2> HIDE DEF Solves
  <2> QED
    BY <1>3, <1>4
<1>6. \A k \in 0 .. Len(line) : Parsed(line)[k] = Digit(Parsed(line), k)
  <2> HIDE DEF Digit
  <2> QED
    BY <1>5
<1> QED
  BY <1>6 DEF ParseHex

\* k characters hold the digits of all bytes so far, and one more if a digit
\* waits; if there is none to spare, the bytes are made of exactly them.
Tight(line, k, acc) == 2 * Len(acc.out) + (IF acc.hi = NoDigit THEN 0 ELSE 1) = k

MadeOf(line, k, acc) ==
    /\ \A i \in 1 .. Len(acc.out) :
        /\ line[2 * i - 1] \in Digits /\ line[2 * i] \in Digits
        /\ acc.out[i] = line[2 * i - 1] * 16 + line[2 * i]
    /\ acc.hi # NoDigit => k > 0 /\ acc.hi = line[k]

LEMMA ParsedSoFar ==
    ASSUME NEW line \in Seq(Digits \cup {NoDigit})
    PROVE  \A k \in 0 .. Len(line) : LET acc == Parsed(line)[k] IN
             /\ acc \in HexState
             /\ Len(acc.out) <= NonceBytes
             /\ 2 * Len(acc.out) + (IF acc.hi = NoDigit THEN 0 ELSE 1) <= k
             /\ Tight(line, k, acc) => MadeOf(line, k, acc)
<1> DEFINE Good(k, acc) ==
             /\ acc \in HexState
             /\ Len(acc.out) <= NonceBytes
             /\ 2 * Len(acc.out) + (IF acc.hi = NoDigit THEN 0 ELSE 1) <= k
             /\ Tight(line, k, acc) => MadeOf(line, k, acc)
           S == {k \in Nat : k <= Len(line) => Good(k, Parsed(line)[k])}
<1>1. 0 \in S
  <2>1. Parsed(line)[0] = [out |-> <<>>, hi |-> NoDigit]
    BY ParsedDef
  <2>2. <<>> \in Seq(0 .. 255) /\ Len(<<>>) = 0
    OBVIOUS
  <2>3. Good(0, [out |-> <<>>, hi |-> NoDigit])
    BY <2>2, ClientsAssumption DEF HexState, Tight, MadeOf
  <2> QED
    BY <2>1, <2>3
<1>2. ASSUME NEW k \in Nat, k \in S PROVE k + 1 \in S
  <2> SUFFICES ASSUME k + 1 <= Len(line) PROVE Good(k + 1, Parsed(line)[k + 1])
    <3> HIDE DEF Good
    <3> QED
      OBVIOUS
  <2>1. PICK acc : acc = Parsed(line)[k]
    OBVIOUS
  <2>2. PICK c \in Digits \cup {NoDigit} : c = line[k + 1]
    OBVIOUS
  <2>3. Good(k, acc)
    <3> HIDE DEF Good
    <3> QED
      BY <1>2, <2>1
  <2>4. Parsed(line)[k + 1] = HexStep(acc, c)
    BY <2>1, <2>2, ParsedDef
  <2>5. HexStep(acc, c) \in HexState
    BY <2>3, HexStepType
  <2>6. CASE Len(acc.out) = NonceBytes
    <3>1. HexStep(acc, c) = acc
      BY <2>6 DEF HexStep
    <3>2. ~Tight(line, k + 1, acc)
      BY <2>3 DEF Tight, HexState
    <3> QED
      BY <2>3, <2>4, <3>1, <3>2 DEF HexState
  <2>7. CASE Len(acc.out) # NonceBytes /\ c \notin Digits
    <3>1. HexStep(acc, c) = [acc EXCEPT !.hi = NoDigit]
      BY <2>7 DEF HexStep
    <3>2. HexStep(acc, c).out = acc.out /\ HexStep(acc, c).hi = NoDigit
      BY <2>3, <3>1 DEF HexState
    <3>3. ~Tight(line, k + 1, HexStep(acc, c))
      BY <2>3, <3>2 DEF Tight, HexState
    <3> QED
      BY <2>3, <2>4, <2>5, <3>2, <3>3 DEF HexState
  <2>8. CASE Len(acc.out) # NonceBytes /\ c \in Digits /\ acc.hi = NoDigit
    <3>1. HexStep(acc, c) = [acc EXCEPT !.hi = c]
      BY <2>8 DEF HexStep
    <3>2. HexStep(acc, c).out = acc.out /\ HexStep(acc, c).hi = c /\ c # NoDigit
      BY <2>3, <2>8, <3>1 DEF HexState, Digits, NoDigit
    <3>3. Tight(line, k + 1, HexStep(acc, c)) => Tight(line, k, acc)
      <4>1. Len(acc.out) \in Nat
        BY <2>3 DEF HexState
      <4> QED
        BY <2>8, <3>2, <4>1 DEF Tight
    <3>4. MadeOf(line, k, acc) => MadeOf(line, k + 1, HexStep(acc, c))
      BY <2>2, <2>8, <3>2 DEF MadeOf
    <3> QED
      BY <2>3, <2>4, <2>5, <2>8, <3>2, <3>3, <3>4 DEF HexState
  <2>9. CASE Len(acc.out) # NonceBytes /\ c \in Digits /\ acc.hi # NoDigit
    <3> DEFINE next == HexStep(acc, c)
               m == Len(acc.out)
    <3>1. next = [out |-> Append(acc.out, acc.hi * 16 + c), hi |-> NoDigit]
      BY <2>9 DEF HexStep
    <3>2. /\ m \in Nat /\ Len(next.out) = m + 1 /\ next.hi = NoDigit
          /\ next.out[m + 1] = acc.hi * 16 + c
          /\ \A i \in 1 .. m : next.out[i] = acc.out[i]
      BY <2>3, <3>1 DEF HexState
    <3>3. Tight(line, k + 1, next) => Tight(line, k, acc) /\ k = 2 * m + 1
      BY <2>9, <3>2 DEF Tight
    <3>4. ASSUME Tight(line, k + 1, next) PROVE MadeOf(line, k + 1, next)
      <4>1. MadeOf(line, k, acc) /\ k = 2 * m + 1
        BY <2>3, <3>3, <3>4
      <4>2. acc.hi = line[2 * (m + 1) - 1] /\ c = line[2 * (m + 1)] /\ acc.hi \in Digits
        <5>1. acc.hi = line[k] /\ acc.hi \in Digits
          BY <2>3, <2>9, <4>1 DEF MadeOf, HexState
        <5>2. k = 2 * (m + 1) - 1 /\ k + 1 = 2 * (m + 1)
          BY <3>2, <4>1
        <5> HIDE DEF m
        <5> QED
          BY <2>2, <5>1, <5>2
      <4>3. ASSUME NEW i \in 1 .. m + 1
            PROVE  /\ line[2 * i - 1] \in Digits /\ line[2 * i] \in Digits
                   /\ next.out[i] = line[2 * i - 1] * 16 + line[2 * i]
        <5>1. CASE i = m + 1
          <6> HIDE DEF m, next
          <6> QED
            BY <2>9, <3>2, <4>2, <5>1
        <5>2. CASE i # m + 1
          <6>1. i \in 1 .. m
            BY <3>2, <5>2
          <6>2. /\ line[2 * i - 1] \in Digits /\ line[2 * i] \in Digits
                /\ acc.out[i] = line[2 * i - 1] * 16 + line[2 * i]
            BY <4>1, <6>1 DEF MadeOf
          <6> HIDE DEF m, next
          <6> QED
            BY <3>2, <6>1, <6>2
        <5> QED
          BY <5>1, <5>2
      <4> HIDE DEF next
      <4> QED
        BY <3>2, <4>3 DEF MadeOf
    <3>5. 2 * Len(next.out) + (IF next.hi = NoDigit THEN 0 ELSE 1) <= k + 1
      BY <2>3, <2>9, <3>2
    <3>6. Len(next.out) <= NonceBytes
      BY <2>3, <2>9, <3>2, ClientsAssumption
    <3> QED
      BY <2>4, <2>5, <3>4, <3>5, <3>6
  <2> QED
    BY <2>6, <2>7, <2>8, <2>9
<1>3. \A k \in Nat : k \in S
  <2> HIDE DEF S
  <2> QED
    BY <1>1, <1>2, Induction
<1>4. \A k \in 0 .. Len(line) : Good(k, Parsed(line)[k])
  <2> HIDE DEF Good
  <2> QED
    BY <1>3
<1> QED
  BY <1>4

LEMMA Nibbles == \A a, b \in 0 .. 15 : (a * 16 + b) \div 16 = a /\ (a * 16 + b) % 16 = b
OBVIOUS

\* A line of two characters per byte that parses to all the bytes is the
\* bytes' digits.
LEMMA AcceptedLine ==
    ASSUME NEW line \in Seq(Digits \cup {NoDigit}), Len(line) = 2 * NonceBytes,
           Len(ParseHex(line)) = NonceBytes
    PROVE  line = [i \in 1 .. 2 * NonceBytes |->
                     LET byte == ParseHex(line)[(i + 1) \div 2] IN
                     IF i % 2 = 1 THEN byte \div 16 ELSE byte % 16]
<1>1. NonceBytes \in Nat
  BY ClientsAssumption
<1>2. PICK acc : acc = Parsed(line)[Len(line)]
  OBVIOUS
<1>3. ParseHex(line) = acc.out
  BY <1>2, ParsedDef
<1>4. /\ acc \in HexState
      /\ 2 * Len(acc.out) + (IF acc.hi = NoDigit THEN 0 ELSE 1) <= Len(line)
      /\ Tight(line, Len(line), acc) => MadeOf(line, Len(line), acc)
  <2>1. Len(line) \in 0 .. Len(line)
    BY <1>1
  <2> QED
    BY <1>2, <2>1, ParsedSoFar
<1>5. Tight(line, Len(line), acc)
  <2>1. Len(acc.out) = NonceBytes
    BY <1>3
  <2> QED
    BY <1>1, <1>4, <2>1 DEF Tight
<1>6. \A i \in 1 .. NonceBytes :
        /\ line[2 * i - 1] \in 0 .. 15 /\ line[2 * i] \in 0 .. 15
        /\ acc.out[i] = line[2 * i - 1] * 16 + line[2 * i]
  BY <1>3, <1>4, <1>5 DEF MadeOf, Digits
<1>7. ASSUME NEW i \in 1 .. 2 * NonceBytes
      PROVE  line[i] = LET byte == acc.out[(i + 1) \div 2] IN
                       IF i % 2 = 1 THEN byte \div 16 ELSE byte % 16
  <2>1. CASE i % 2 = 1
    <3>1. PICK j \in 1 .. NonceBytes : i = 2 * j - 1 /\ (i + 1) \div 2 = j
      BY <1>1, <2>1
    <3>2. PICK a, b \in 0 .. 15 : a = line[i] /\ acc.out[j] = a * 16 + b
      BY <1>6, <3>1
    <3>3. (a * 16 + b) \div 16 = a
      BY <3>2, Nibbles
    <3> QED
      BY <2>1, <3>1, <3>2, <3>3
  <2>2. CASE i % 2 # 1
    <3>1. PICK j \in 1 .. NonceBytes : i = 2 * j /\ (i + 1) \div 2 = j
      BY <1>1, <2>2
    <3>2. PICK a, b \in 0 .. 15 : b = line[i] /\ acc.out[j] = a * 16 + b
      BY <1>6, <3>1
    <3>3. (a * 16 + b) % 16 = b
      BY <3>2, Nibbles
    <3> QED
      BY <2>2, <3>1, <3>2, <3>3
  <2> QED
    BY <2>1, <2>2
<1>8. line = [i \in 1 .. 2 * NonceBytes |-> line[i]]
  OBVIOUS
<1> QED
  BY <1>3, <1>7, <1>8

LEMMA SeqElement ==
    ASSUME NEW S, NEW s \in Seq(S), NEW i \in 1 .. Len(s)
    PROVE  s[i] \in S
OBVIOUS

\* The bytes that parse_hex writes are bytes, and not too many.
LEMMA OverwriteType ==
    ASSUME NEW line \in Lines, NEW nonce \in [1 .. NonceBytes -> 0 .. 255]
    PROVE  /\ Overwrite(nonce, ParseHex(line)) \in [1 .. NonceBytes -> 0 .. 255]
           /\ Len(ParseHex(line)) = NonceBytes =>
                \A i \in 1 .. NonceBytes : Overwrite(nonce, ParseHex(line))[i] = ParseHex(line)[i]
<1>1. ParseHex(line) \in Seq(0 .. 255) /\ Len(ParseHex(line)) <= NonceBytes
  <2>1. line \in Seq(Digits \cup {NoDigit})
    BY ClientsAssumption
  <2>2. Len(line) \in 0 .. Len(line)
    BY <2>1
  <2>3. PICK acc : acc = Parsed(line)[Len(line)]
    OBVIOUS
  <2>4. ParseHex(line) = acc.out
    BY <2>1, <2>3, ParsedDef
  <2>5. acc \in HexState /\ Len(acc.out) <= NonceBytes
    BY <2>1, <2>2, <2>3, ParsedSoFar
  <2> QED
    BY <2>4, <2>5 DEF HexState
<1>2. PICK bytes \in Seq(0 .. 255) : bytes = ParseHex(line)
  BY <1>1
<1>3. \A i \in 1 .. NonceBytes : Overwrite(nonce, bytes)[i] = IF i <= Len(bytes) THEN bytes[i] ELSE nonce[i]
  BY DEF Overwrite
<1>4. \A i \in 1 .. NonceBytes : i <= Len(bytes) => bytes[i] \in 0 .. 255
  <2>1. \A i \in 1 .. NonceBytes : i <= Len(bytes) => i \in 1 .. Len(bytes)
    BY ClientsAssumption
  <2> QED
    BY <2>1, SeqElement
<1> QED
  BY <1>2, <1>3, <1>4, ClientsAssumption DEF Overwrite

DialogType ==
    dialog \in [Procs -> [typed : Seq(Digits \cup {NoDigit}), nonce : [1 .. NonceBytes -> 0 .. 255]]]

\* The line accepted last and the nonce, as NonceAsTyped relates them.
LEMMA DialogStep ==
    ASSUME IInv, DialogType, NonceAsTyped, [Next]_vars
    PROVE  DialogType' /\ NonceAsTyped'
<1> DEFINE Spelled(d) == d.typed = [i \in 1 .. 2 * NonceBytes |->
                            LET byte == d.nonce[(i + 1) \div 2] IN
                            IF i % 2 = 1 THEN byte \div 16 ELSE byte % 16]
<1>1. stage \in [Procs -> Stages]
  BY DEF IInv, Types
<1>2. NoDialog \in [typed : Seq(Digits \cup {NoDigit}), nonce : [1 .. NonceBytes -> 0 .. 255]]
  <2>1. <<>> \in Seq(Digits \cup {NoDigit})
    OBVIOUS
  <2> QED
    BY <2>1 DEF NoDialog
<1>3. ASSUME UNCHANGED dialog,
             \A p \in Procs : stage'[p] = "accepted" => stage[p] = "accepted"
      PROVE  DialogType' /\ NonceAsTyped'
  BY <1>3 DEF DialogType, NonceAsTyped
<1>4. ASSUME NEW p \in Procs, NEW s \in Stages, stage' = [stage EXCEPT ![p] = s],
             s # "accepted", UNCHANGED dialog
      PROVE  DialogType' /\ NonceAsTyped'
  BY <1>1, <1>3, <1>4
<1>5. CASE UNCHANGED <<dialog, stage>>
  BY <1>3, <1>5
<1>6. CASE Boots \/ StartKernel
  BY <1>5, <1>6 DEF Boots, clientVars, StartKernel, StartKernelPsc3, StartCapsulesPsc3,
                    StartFailsPsc3, StartKernelMusca, KernelOnly
<1>7. CASE ResetAll
  BY <1>2, <1>7 DEF ResetAll, DialogType, NonceAsTyped, Begin
<1>8. ASSUME NEW p \in Procs, NEW line \in Lines, ReadLine(p, line)
      PROVE  DialogType' /\ NonceAsTyped'
  <2> DEFINE nonce == Overwrite(dialog[p].nonce, ParseHex(line))
  <2>1. /\ nonce \in [1 .. NonceBytes -> 0 .. 255]
        /\ Len(ParseHex(line)) = NonceBytes =>
             \A i \in 1 .. NonceBytes : nonce[i] = ParseHex(line)[i]
    BY OverwriteType DEF DialogType
  <2>2. line \in Seq(Digits \cup {NoDigit}) /\ <<>> \in Seq(Digits \cup {NoDigit})
    BY ClientsAssumption
  <2>3. stage[p] = "prompt"
    BY <1>8 DEF ReadLine, At
  <2>4. CASE Len(line) # 2 * NonceBytes
    BY <1>5, <1>8, <2>4 DEF ReadLine
  <2>5. CASE Len(line) = 2 * NonceBytes /\ Len(ParseHex(line)) # NonceBytes
    <3>1. dialog' = [dialog EXCEPT ![p] = [typed |-> <<>>, nonce |-> nonce]] /\ UNCHANGED stage
      BY <1>8, <2>5 DEF ReadLine, Parse, DialogType
    <3> HIDE DEF nonce
    <3>2. DialogType'
      BY <2>1, <2>2, <3>1 DEF DialogType
    <3> QED
      BY <2>3, <3>1, <3>2, ZenonT(30) DEF DialogType, NonceAsTyped
  <2>6. CASE Len(line) = 2 * NonceBytes /\ Len(ParseHex(line)) = NonceBytes
    <3>1. /\ dialog' = [dialog EXCEPT ![p] = [typed |-> line, nonce |-> nonce]]
          /\ stage' = [stage EXCEPT ![p] = "accepted"]
      BY <1>8, <2>6 DEF ReadLine, Accept, Goto, DialogType
    <3>2. Spelled([typed |-> line, nonce |-> nonce])
      <4>1. line = [i \in 1 .. 2 * NonceBytes |->
                     LET byte == ParseHex(line)[(i + 1) \div 2] IN
                     IF i % 2 = 1 THEN byte \div 16 ELSE byte % 16]
        BY <2>2, <2>6, AcceptedLine
      <4>2. \A i \in 1 .. 2 * NonceBytes : nonce[(i + 1) \div 2] = ParseHex(line)[(i + 1) \div 2]
        <5>1. \A i \in 1 .. 2 * NonceBytes : (i + 1) \div 2 \in 1 .. NonceBytes
          BY ClientsAssumption
        <5> HIDE DEF nonce
        <5> QED
          BY <2>1, <2>6, <5>1
      <4> HIDE DEF nonce
      <4> QED
        BY <4>1, <4>2
    <3> HIDE DEF nonce
    <3>3. DialogType'
      BY <2>1, <2>2, <3>1 DEF DialogType
    <3>4. ASSUME NEW q \in Procs, stage'[q] = "accepted" PROVE Spelled(dialog'[q])
      <4>1. CASE q = p
        <5>1. dialog'[q] = [typed |-> line, nonce |-> nonce]
          BY <3>1, <4>1 DEF DialogType
        <5> HIDE DEF Spelled
        <5> QED
          BY <3>2, <5>1
      <4>2. CASE q # p
        BY <1>1, <3>1, <3>4, <4>2 DEF DialogType, NonceAsTyped
      <4> QED
        BY <4>1, <4>2
    <3> QED
      BY <3>3, <3>4 DEF NonceAsTyped
  <2> QED
    BY <2>4, <2>5, <2>6
<1>9. ASSUME NEW p \in Procs, ConsoleFails(p) PROVE DialogType' /\ NonceAsTyped'
  BY <1>1, <1>2, <1>9, ZenonT(30) DEF ConsoleFails, At, DialogType, NonceAsTyped
<1>10. ASSUME NEW p \in Procs, Exists(p) PROVE DialogType' /\ NonceAsTyped'
  <2>1. PICK s \in {"work", "prompt"} : stage' = [stage EXCEPT ![p] = s]
    BY <1>10 DEF Exists, Goto
  <2>2. dialog' = [dialog EXCEPT ![p] = NoDialog]
    BY <1>10 DEF Exists
  <2> QED
    BY <1>1, <1>2, <2>1, <2>2, ZenonT(30) DEF DialogType, NonceAsTyped
<1>11. ASSUME NEW p \in Procs, Reserve(p) \/ ReserveFails(p) \/ Upcall(p)
       PROVE  DialogType' /\ NonceAsTyped'
  BY <1>4, <1>11 DEF Reserve, ReserveFails, Upcall, Goto, Stages
<1>12. ASSUME NEW p \in Procs, Sleep(p) \/ SleepFails(p) PROVE DialogType' /\ NonceAsTyped'
  BY <1>4, <1>12 DEF Sleep, SleepFails, Goto, Stages
<1>13. ASSUME NEW p \in Procs,
              \/ \E ins \in InVecs(board, p) : BuildInVec(p, ins)
              \/ \E outs \in OutVecs(board, p) : BuildOutVec(p, outs)
       PROVE  DialogType' /\ NonceAsTyped'
  BY <1>4, <1>13 DEF BuildInVec, BuildOutVec, Goto, Stages
<1>14. ASSUME NEW p \in Procs, EnterVeneer(p) PROVE DialogType' /\ NonceAsTyped'
  <2>1. PICK s \in {"returned", "inside"} : stage' = [stage EXCEPT ![p] = s]
    BY <1>14 DEF EnterVeneer, Goto
  <2> QED
    BY <1>4, <1>14, <2>1 DEF EnterVeneer, Stages
<1>15. ASSUME NEW p \in Procs, Connect(p) \/ ConnectFails(p) \/ Serve(p) \/ ExitVeneer(p)
       PROVE  DialogType' /\ NonceAsTyped'
  BY <1>4, <1>15 DEF Connect, ConnectFails, Serve, ExitVeneer, Goto, Stages
<1>16. ASSUME NEW p \in Procs, Release(p) PROVE DialogType' /\ NonceAsTyped'
  BY <1>4, <1>16 DEF Release, Goto, Begin, Stages
<1>17. CASE UNCHANGED vars
  BY <1>5, <1>17 DEF vars, clientVars
<1> QED
  BY <1>6, <1>7, <1>8, <1>9, <1>10, <1>11, <1>12, <1>13, <1>14, <1>15, <1>16, <1>17
  DEF Next, Step

THEOREM DialogInvariance == Spec => [](DialogType /\ NonceAsTyped)
<1>1. Init => DialogType /\ NonceAsTyped
  <2>1. <<>> \in Seq(Digits \cup {NoDigit})
    OBVIOUS
  <2> QED
    BY <2>1 DEF Init, DialogType, NonceAsTyped, NoDialog, Begin
<1> QED
  BY <1>1, DialogStep, Invariance, PTL DEF Spec

\* The nonce that goes into the token is what was typed, for any line and any
\* length of the nonce (main.rs:36-78, 94-133).
THEOREM NonceIsTyped == Spec => []NonceAsTyped
BY DialogInvariance, PTL

------------------------------------------------------------------------------
(* The memory protection controllers.                                      *)

Job == [memory : Nat, size : Nat, base : Nat, limit : Nat, blockSize : Nat \ {0}]

\* The blocks from the first one asked for to the one in front of last, in the
\* word w of the table.
Marked(m, w, last) ==
    {k \in Bits : StartBlock(m) <= w * WordBits + k /\ w * WordBits + k < last}

\* What set_non_secure computes is exact where its assertions hold.
LEMMA BlocksExact ==
    ASSUME NEW m \in Job, m.memory % m.blockSize = 0,
           m.size % (m.blockSize * WordBits) = 0, CanSetNonSecure(m)
    PROVE  /\ StartBlock(m) \in Nat /\ EndBlock(m) \in Nat /\ StartBlock(m) < EndBlock(m)
           /\ m.base = m.memory + StartBlock(m) * m.blockSize
           /\ m.limit + 1 = m.memory + EndBlock(m) * m.blockSize
           /\ \A n \in Nat : n < EndBlock(m) => n \div WordBits \in Words(m)
<1> DEFINE s == m.blockSize
<1>1. /\ s \in Nat \ {0} /\ WordBits \in Nat \ {0}
      /\ m.memory \in Nat /\ m.base \in Nat /\ m.limit \in Nat /\ m.size \in Nat
  BY BootAssumption DEF Job
<1>2. /\ m.memory <= m.base /\ m.base < m.limit /\ m.limit <= m.memory + m.size - 1
      /\ m.base % s = 0 /\ (m.limit + 1) % s = 0 /\ m.memory % s = 0
  BY DEF CanSetNonSecure
<1> HIDE DEF s
<1>a. ASSUME NEW n \in Nat, n % s = 0 PROVE \E q \in Nat : n = q * s
  <2>1. PICK q \in Nat, r \in 0 .. s - 1 : n = q * s + r /\ n % s = r
    BY <1>1, DivMod, ZenonT(30)
  <2>2. r = 0
    BY <1>a, <2>1
  <2> QED
    BY <1>1, <2>1, <2>2
<1>3. PICK a \in Nat : m.memory = a * s
  BY <1>1, <1>2, <1>a
<1>4. PICK b \in Nat : m.base = b * s
  BY <1>1, <1>2, <1>a
<1>5. PICK e \in Nat : m.limit + 1 = e * s
  <2>1. m.limit + 1 \in Nat
    BY <1>1
  <2> QED
    BY <1>2, <1>a, <2>1
<1>6. PICK words \in Nat : m.size = words * (s * WordBits) /\ Words(m) = 0 .. words - 1
  <2>1. PICK t \in Nat \ {0} : t = s * WordBits
    BY <1>1
  <2>2. PICK q \in Nat, r \in 0 .. t - 1 : m.size = q * t + r /\ m.size \div t = q /\ m.size % t = r
    BY <1>1, DivMod
  <2>3. m.size % t = 0
    BY <2>1 DEF s
  <2>4. m.size = q * t
    BY <2>2, <2>3
  <2>5. Words(m) = 0 .. q - 1
    BY <2>1, <2>2 DEF Words, s
  <2> QED
    BY <2>1, <2>4, <2>5
<1>7. a <= b /\ b < e
  <2>1. a * s <= b * s /\ b * s < e * s
    BY <1>1, <1>2, <1>3, <1>4, <1>5
  <2> QED
    BY <1>1, <2>1, TimesOrder
<1>8. StartBlock(m) = b - a
  <2>1. m.base - m.memory = (b - a) * s + 0
    BY <1>1, <1>3, <1>4
  <2>2. b - a \in Nat /\ 0 \in 0 .. s - 1
    BY <1>1, <1>7
  <2>3. ((b - a) * s + 0) \div s = b - a
    BY <1>1, <2>2, DivIs
  <2> QED
    BY <2>1, <2>3 DEF StartBlock, s
<1>9. EndBlock(m) = e - a
  <2>1. m.limit + 1 - m.memory = (e - a) * s + 0
    BY <1>1, <1>3, <1>5
  <2>2. e - a \in Nat /\ 0 \in 0 .. s - 1
    BY <1>1, <1>7
  <2>3. ((e - a) * s + 0) \div s = e - a
    BY <1>1, <2>2, DivIs
  <2> QED
    BY <2>1, <2>3 DEF EndBlock, s
<1>10. e - a <= words * WordBits
  <2>1. e * s <= a * s + words * (s * WordBits)
    <3>1. m.limit + 1 <= m.memory + m.size
      BY <1>1, <1>2
    <3> QED
      BY <1>3, <1>5, <1>6, <3>1
  <2>2. words * (s * WordBits) = (words * WordBits) * s
    BY <1>1
  <2>3. words * WordBits \in Nat
    BY <1>1
  <2>4. e * s <= (a + words * WordBits) * s
    BY <1>1, <2>1, <2>2, <2>3
  <2> QED
    BY <1>1, <2>3, <2>4, TimesOrder
<1>11. ASSUME NEW n \in Nat, n < e - a PROVE n \div WordBits \in Words(m)
  <2>1. PICK q \in Nat, r \in 0 .. WordBits - 1 :
          n = q * WordBits + r /\ n \div WordBits = q
    BY <1>1, DivMod
  <2>2. q * WordBits < words * WordBits
    <3>1. PICK x \in Nat : x = q * WordBits
      BY <1>1
    <3>2. PICK y \in Nat : y = words * WordBits
      BY <1>1
    <3>3. x < y
      BY <1>10, <1>11, <2>1, <3>1, <3>2
    <3> QED
      BY <3>1, <3>2, <3>3
  <2>3. q < words
    BY <1>1, <2>2, TimesOrder
  <2> QED
    BY <1>6, <2>1, <2>3
<1>12. m.base = m.memory + StartBlock(m) * s /\ m.limit + 1 = m.memory + EndBlock(m) * s
  BY <1>1, <1>3, <1>4, <1>5, <1>8, <1>9
<1> QED
  BY <1>7, <1>8, <1>9, <1>11, <1>12 DEF s

\* The words asked for are the blocks from the first to the last.
LEMMA AskedIsMarked ==
    ASSUME board \in Boards, NEW j \in DOMAIN Jobs, CanSetNonSecure(Jobs[j])
    PROVE  Asked[board][j] = [w \in Words(Jobs[j]) |-> Marked(Jobs[j], w, EndBlock(Jobs[j]))]
<1>1. Jobs \in Seq(Job) /\ Jobs[j] \in Job
  <2>1. MpcJobs \in [Boards -> Seq(Job)]
    BY BootAssumption DEF Job
  <2>2. Jobs \in Seq(Job)
    BY <2>1 DEF Jobs
  <2>3. j \in 1 .. Len(Jobs)
    BY <2>2
  <2> QED
    BY <2>2, <2>3, SeqElement
<1> DEFINE m == Jobs[j]
<1>2. /\ m \in Job /\ m.memory % m.blockSize = 0 /\ m.size % (m.blockSize * WordBits) = 0
      /\ CanSetNonSecure(m)
  BY <1>1, BootAssumption DEF Jobs
<1>3. Asked[board][j] = [w \in Words(m) |-> {k \in Bits :
        /\ m.base <= m.memory + (w * WordBits + k) * m.blockSize
        /\ m.memory + (w * WordBits + k) * m.blockSize <= m.limit}]
  BY DEF Asked, Jobs
<1> HIDE DEF m
<1>4. ASSUME NEW w \in Words(m), NEW k \in Bits
      PROVE  (/\ m.base <= m.memory + (w * WordBits + k) * m.blockSize
              /\ m.memory + (w * WordBits + k) * m.blockSize <= m.limit)
             <=> StartBlock(m) <= w * WordBits + k /\ w * WordBits + k < EndBlock(m)
  <2>1. w \in Nat /\ k \in Nat /\ WordBits \in Nat
    BY BootAssumption DEF Words, Bits
  <2>2. PICK n \in Nat : n = w * WordBits + k
    BY <2>1
  <2>3. /\ m.blockSize \in Nat \ {0} /\ m.memory \in Nat /\ m.limit \in Nat
        /\ StartBlock(m) \in Nat /\ EndBlock(m) \in Nat
    BY <1>2, BlocksExact DEF Job
  <2>4. m.base <= m.memory + n * m.blockSize <=> StartBlock(m) * m.blockSize <= n * m.blockSize
    BY <1>2, <2>3, BlocksExact
  <2>5. m.memory + n * m.blockSize <= m.limit <=> n * m.blockSize < EndBlock(m) * m.blockSize
    BY <1>2, <2>3, BlocksExact
  <2> QED
    BY <2>2, <2>3, <2>4, <2>5, TimesOrder
<1>5. Asked[board][j] = [w \in Words(m) |-> Marked(m, w, EndBlock(m))]
  <2>1. \A w \in Words(m) : {k \in Bits :
            /\ m.base <= m.memory + (w * WordBits + k) * m.blockSize
            /\ m.memory + (w * WordBits + k) * m.blockSize <= m.limit} = Marked(m, w, EndBlock(m))
    BY <1>4 DEF Marked
  <2> QED
    BY <1>3, <2>1
<1> QED
  BY <1>5 DEF m

\* One block more is one bit more, in its word.
LEMMA MarkedNext ==
    ASSUME NEW m, NEW n \in Nat, NEW start \in Nat, start = StartBlock(m), start <= n
    PROVE  \A w \in Nat : Marked(m, w, n + 1) =
             IF w = n \div WordBits THEN Marked(m, w, n) \cup {n % WordBits} ELSE Marked(m, w, n)
<1>1. WordBits \in Nat \ {0}
  BY BootAssumption
<1>2. PICK q \in Nat, r \in 0 .. WordBits - 1 :
        n = q * WordBits + r /\ n \div WordBits = q /\ n % WordBits = r
  BY <1>1, DivMod
<1>3. ASSUME NEW w \in Nat, NEW k \in Bits
      PROVE  w * WordBits + k = n <=> w = q /\ k = r
  <2>1. k \in 0 .. WordBits - 1
    BY DEF Bits
  <2>2. ASSUME w * WordBits + k = n PROVE w = q /\ k = r
    <3>1. (w * WordBits + k) \div WordBits = w /\ (w * WordBits + k) % WordBits = k
      BY <1>1, <2>1, DivIs
    <3> QED
      BY <1>2, <2>2, <3>1
  <2> QED
    BY <1>2, <2>2
<1>4. ASSUME NEW w \in Nat
      PROVE  Marked(m, w, n + 1) = {k \in Bits : k \in Marked(m, w, n) \/ w * WordBits + k = n}
  <2>1. ASSUME NEW k \in Bits
        PROVE  start <= w * WordBits + k /\ w * WordBits + k < n + 1
               <=> (start <= w * WordBits + k /\ w * WordBits + k < n) \/ w * WordBits + k = n
    <3>1. PICK i \in Nat : i = w * WordBits + k
      BY <1>1 DEF Bits
    <3> QED
      BY <3>1
  <2> QED
    BY <2>1 DEF Marked
<1>5. r \in Bits
  BY DEF Bits
<1>6. ASSUME NEW w \in Nat, w # q PROVE Marked(m, w, n + 1) = Marked(m, w, n)
  <2>1. Marked(m, w, n) \subseteq Bits
    BY DEF Marked
  <2>2. \A k \in Bits : w * WordBits + k # n
    BY <1>3, <1>6
  <2> QED
    BY <1>4, <2>1, <2>2
<1>7. Marked(m, q, n + 1) = Marked(m, q, n) \cup {r}
  <2>1. Marked(m, q, n) \subseteq Bits
    BY DEF Marked
  <2>2. \A k \in Bits : q * WordBits + k = n <=> k = r
    BY <1>2, <1>3
  <2>3. Marked(m, q, n + 1) = {k \in Bits : k \in Marked(m, q, n) \/ q * WordBits + k = n}
    BY <1>2, <1>4
  <2> QED
    BY <1>5, <2>1, <2>2, <2>3
<1> QED
  BY <1>2, <1>6, <1>7

\* No block is in front of the first one, and none is dropped on the way.
LEMMA MarkedBounds ==
    ASSUME NEW m, NEW a \in Nat, NEW b \in Nat, a <= b, StartBlock(m) \in Nat, NEW w \in Nat
    PROVE  /\ Marked(m, w, StartBlock(m)) = {}
           /\ Marked(m, w, a) \subseteq Marked(m, w, b)
           /\ Marked(m, w, a) \subseteq Bits
<1>1. ASSUME NEW k \in Bits PROVE w * WordBits + k \in Nat
  BY BootAssumption DEF Bits
<1>2. ASSUME NEW k \in Bits
      PROVE  /\ ~(StartBlock(m) <= w * WordBits + k /\ w * WordBits + k < StartBlock(m))
             /\ w * WordBits + k < a => w * WordBits + k < b
  <2>1. PICK i \in Nat : i = w * WordBits + k
    BY <1>1
  <2> QED
    BY <2>1
<1> QED
  BY <1>2 DEF Marked

\* The words of the running job: what is in hand, and what is written.
Working ==
    LET m == Jobs[job] IN
    /\ phase = "mpc" /\ job \in DOMAIN Jobs /\ CanSetNonSecure(m)
    /\ loop.block \in StartBlock(m) .. EndBlock(m)
    /\ loop.idx \in Words(m)
    /\ loop.word = Marked(m, loop.idx, loop.block)
    /\ lut[job][loop.idx] \subseteq Marked(m, loop.idx, loop.block)
    /\ \A w \in Words(m) \ {loop.idx} : lut[job][w] = Marked(m, w, loop.block)

AfterMpc == {"message", "jump", "kernel", "capsules", "ns"}

MpcInv ==
    /\ lut = [j \in DOMAIN Jobs |-> lut[j]]
    /\ \A j \in DOMAIN Jobs : lut[j] \in [Words(Jobs[j]) -> SUBSET Bits]
    /\ job \in 1 .. Len(Jobs) + 1
    /\ loop \in [block : Int, idx : Int, word : SUBSET Bits]
    /\ \A j \in DOMAIN Jobs : j < job => lut[j] = Asked[board][j]
    /\ \A j \in DOMAIN Jobs :
         j > job \/ (j = job /\ loop = Idle) => lut[j] = [w \in Words(Jobs[j]) |-> {}]
    /\ loop # Idle => Working
    /\ phase \in AfterMpc => job = Len(Jobs) + 1

\* The jobs of a board, with what Mpc::new ensures.
LEMMA JobType ==
    ASSUME board \in Boards
    PROVE  /\ Jobs \in Seq(Job)
           /\ DOMAIN Jobs = 1 .. Len(Jobs) /\ Len(Jobs) \in Nat
           /\ \A j \in DOMAIN Jobs :
                /\ Jobs[j] \in Job
                /\ Jobs[j].memory % Jobs[j].blockSize = 0
                /\ Jobs[j].size % (Jobs[j].blockSize * WordBits) = 0
           /\ board # "musca_b1" => Jobs = <<>>
<1>1. MpcJobs \in [Boards -> Seq(Job)]
  BY BootAssumption DEF Job
<1>2. Jobs \in Seq(Job)
  BY <1>1 DEF Jobs
<1>3. \A j \in DOMAIN Jobs : Jobs[j] \in Job
  BY <1>2, SeqElement
<1> QED
  BY <1>2, <1>3, BootAssumption DEF Jobs

\* A job whose assertions hold: its blocks are those of its words.
LEMMA JobBlocks ==
    ASSUME board \in Boards, NEW j \in DOMAIN Jobs, CanSetNonSecure(Jobs[j])
    PROVE  /\ StartBlock(Jobs[j]) \in Nat /\ EndBlock(Jobs[j]) \in Nat
           /\ StartBlock(Jobs[j]) < EndBlock(Jobs[j])
           /\ \A n \in Nat : n < EndBlock(Jobs[j]) => n \div WordBits \in Words(Jobs[j])
           /\ Words(Jobs[j]) \subseteq Nat
<1>1. Words(Jobs[j]) \subseteq Nat
  BY DEF Words
<1> QED
  BY <1>1, JobType, BlocksExact

\* A round of the loop, whichever word it is in: m is the running job.
LEMMA RoundKeepsWorking ==
    ASSUME board \in Boards, MpcInv, MarkBlock \/ NextWord
    PROVE  /\ Working' /\ loop' # Idle
           /\ loop' \in [block : Int, idx : Int, word : SUBSET Bits]
           /\ lut'[job] \in [Words(Jobs[job]) -> SUBSET Bits]
           /\ lut' = [j \in DOMAIN Jobs |-> lut'[j]]
           /\ \A j \in DOMAIN Jobs : j # job => lut'[j] = lut[j]
<1> DEFINE m == Jobs[job]
           n == loop.block
           idx == n \div WordBits
<1>1. /\ Working /\ job \in DOMAIN Jobs /\ CanSetNonSecure(m)
      /\ n < EndBlock(m) /\ UNCHANGED <<board, phase, job>>
  BY DEF MarkBlock, NextWord, InJob, OnlyMpc, MpcInv, Working
<1>2. /\ StartBlock(m) \in Nat /\ n \in Nat /\ StartBlock(m) <= n /\ n + 1 <= EndBlock(m)
      /\ EndBlock(m) \in Nat /\ idx \in Words(m) /\ idx \in Nat /\ Words(m) \subseteq Nat
  <2>1. /\ StartBlock(m) \in Nat /\ EndBlock(m) \in Nat /\ Words(m) \subseteq Nat
        /\ \A i \in Nat : i < EndBlock(m) => i \div WordBits \in Words(m)
    BY <1>1, JobBlocks
  <2>2. n \in StartBlock(m) .. EndBlock(m)
    BY <1>1 DEF Working
  <2> HIDE DEF m, n
  <2>3. n \in Nat /\ StartBlock(m) <= n /\ n + 1 <= EndBlock(m)
    BY <1>1, <2>1, <2>2
  <2>4. idx \in Words(m)
    BY <1>1, <2>1, <2>3
  <2> QED
    BY <2>1, <2>3, <2>4
<1>3. \A w \in Nat : Marked(m, w, n + 1) =
        IF w = idx THEN Marked(m, w, n) \cup {n % WordBits} ELSE Marked(m, w, n)
  <2> HIDE DEF m, n
  <2> QED
    BY <1>2, MarkedNext
<1>4. /\ loop.word = Marked(m, loop.idx, n) /\ loop.idx \in Words(m)
      /\ lut[job][loop.idx] \subseteq Marked(m, loop.idx, n)
      /\ \A w \in Words(m) \ {loop.idx} : lut[job][w] = Marked(m, w, n)
  BY <1>1 DEF Working
<1>5. \A w \in Nat : Marked(m, w, n) \subseteq Bits
  <2> HIDE DEF m, n
  <2> QED
    BY <1>2, MarkedBounds
<1>6. lut = [j \in DOMAIN Jobs |-> lut[j]] /\ lut[job] \in [Words(m) -> SUBSET Bits]
  BY <1>1 DEF MpcInv
<1>7. /\ loop.block \in Int /\ loop.word \subseteq Bits
      /\ loop \in [block : Int, idx : Int, word : SUBSET Bits]
  BY DEF MpcInv
<1>8. n % WordBits \in Bits
  <2>1. PICK q \in Nat, r \in 0 .. WordBits - 1 : n % WordBits = r
    BY <1>2, BootAssumption, DivMod
  <2> QED
    BY <2>1 DEF Bits
<1>9. ASSUME loop' = [block |-> n + 1, idx |-> idx, word |-> Marked(m, idx, n + 1)],
             lut'[job][idx] = lut[job][idx], lut[job][idx] \subseteq Marked(m, idx, n),
             \A w \in Words(m) \ {idx} : lut'[job][w] = Marked(m, w, n + 1)
      PROVE  /\ Working' /\ loop' # Idle
             /\ loop' \in [block : Int, idx : Int, word : SUBSET Bits]
  <2>1. loop'.block = n + 1 /\ loop'.idx = idx /\ loop'.word = Marked(m, idx, n + 1)
    BY <1>9
  <2>2. Jobs' = Jobs /\ m' = m
    BY <1>1 DEF Jobs
  <2>3. n + 1 \in StartBlock(m) .. EndBlock(m) /\ n + 1 \in Int /\ idx \in Int
    <3> HIDE DEF m, n, idx
    <3> QED
      BY <1>2
  <2>4. Marked(m, idx, n) \subseteq Marked(m, idx, n + 1) /\ Marked(m, idx, n + 1) \subseteq Bits
    <3> HIDE DEF m, n, idx
    <3> QED
      BY <1>2, <1>3, <1>5, <1>8
  <2>5. loop' # Idle
    <3>1. Idle.idx = -1
      BY DEF Idle
    <3> HIDE DEF m, n, idx
    <3> QED
      BY <1>2, <2>1, <3>1
  <2>6. loop' \in [block : Int, idx : Int, word : SUBSET Bits]
    <3> HIDE DEF m, n, idx
    <3> QED
      BY <1>9, <2>3, <2>4
  <2>7. Working'
    <3>1. phase' = "mpc" /\ job' = job
      BY <1>1 DEF Working
    <3>2. lut'[job][idx] \subseteq Marked(m, idx, n + 1)
      BY <1>9, <2>4
    <3>3. job' \in DOMAIN Jobs' /\ CanSetNonSecure(m)' /\ Jobs'[job'] = m
      BY <1>1, <2>2, <3>1 DEF CanSetNonSecure
    <3> HIDE DEF m, n, idx
    <3>4. loop'.block \in StartBlock(m) .. EndBlock(m) /\ loop'.idx \in Words(m)
      BY <1>2, <2>1, <2>3
    <3>5. loop'.word = Marked(m, loop'.idx, loop'.block)
      BY <2>1
    <3>6. lut'[job'][loop'.idx] \subseteq Marked(m, loop'.idx, loop'.block)
      BY <2>1, <3>1, <3>2
    <3>7. \A w \in Words(m) \ {loop'.idx} : lut'[job'][w] = Marked(m, w, loop'.block)
      BY <1>9, <2>1, <3>1
    <3> QED
      BY <2>2, <3>1, <3>3, <3>4, <3>5, <3>6, <3>7
      DEF Working, CanSetNonSecure, StartBlock, EndBlock, Words, Marked
  <2> QED
    BY <2>5, <2>6, <2>7
<1>10. CASE MarkBlock
  <2>1. /\ idx = loop.idx /\ UNCHANGED lut
        /\ loop' = [loop EXCEPT !.word = @ \cup {n % WordBits}, !.block = @ + 1]
    BY <1>10 DEF MarkBlock
  <2>2. loop' = [block |-> n + 1, idx |-> idx, word |-> loop.word \cup {n % WordBits}]
    BY <1>7, <2>1
  <2>3. loop.word \cup {n % WordBits} = Marked(m, idx, n + 1)
    BY <1>2, <1>3, <1>4, <2>1
  <2>4. \A w \in Words(m) \ {idx} : lut'[job][w] = Marked(m, w, n + 1)
    BY <1>2, <1>3, <1>4, <2>1
  <2>5. lut'[job][idx] = lut[job][idx] /\ lut[job][idx] \subseteq Marked(m, idx, n)
    BY <1>4, <2>1
  <2> HIDE DEF m, n, idx
  <2> QED
    BY <1>6, <1>9, <2>1, <2>2, <2>3, <2>4, <2>5 DEF m
<1>11. CASE NextWord
  <2>1. /\ idx # loop.idx
        /\ lut' = [lut EXCEPT ![job][loop.idx] = loop.word]
        /\ loop' = [block |-> n + 1, idx |-> idx, word |-> lut[job][idx] \cup {n % WordBits}]
    BY <1>11 DEF NextWord
  <2>2. lut[job][idx] = Marked(m, idx, n)
    BY <1>2, <1>4, <2>1
  <2>3. lut[job][idx] \cup {n % WordBits} = Marked(m, idx, n + 1)
    BY <1>2, <1>3, <2>2
  <2> HIDE DEF m, n, idx
  <2>4. /\ lut'[job] = [lut[job] EXCEPT ![loop.idx] = loop.word]
        /\ lut' = [j \in DOMAIN Jobs |-> lut'[j]]
        /\ \A j \in DOMAIN Jobs : j # job => lut'[j] = lut[j]
    BY <1>1, <1>6, <2>1
  <2>5. lut'[job] \in [Words(m) -> SUBSET Bits]
    BY <1>4, <1>6, <1>7, <2>4
  <2>6. \A w \in Words(m) : lut'[job][w] = IF w = loop.idx THEN loop.word ELSE lut[job][w]
    BY <1>6, <2>4
  <2>7. \A w \in Words(m) \ {idx} : lut'[job][w] = Marked(m, w, n + 1)
    BY <1>2, <1>3, <1>4, <2>1, <2>6
  <2>8. lut'[job][idx] = lut[job][idx]
    BY <1>2, <2>1, <2>6
  <2> QED
    BY <1>9, <2>1, <2>2, <2>3, <2>4, <2>5, <2>7, <2>8 DEF m
<1> QED
  BY <1>10, <1>11

\* What is not a round of the loop, and does not begin or end a job.
Elsewhere ==
    /\ UNCHANGED <<board, lut, job, loop>>
    /\ phase' = phase \/ phase # "mpc" \/ job \notin DOMAIN Jobs
    /\ phase' \in AfterMpc => phase \in AfterMpc \/ board # "musca_b1" \/ job \notin DOMAIN Jobs

LEMMA MpcOrder ==
    ASSUME board \in Boards, Advance, phase # "ns"
    PROVE  phase' \in AfterMpc => phase \in AfterMpc \cup {"mpc"} \/ board # "musca_b1"
<1>1. PICK i \in DOMAIN Order(board) : Order(board)[i] = phase /\ phase' = Order(board)[i + 1]
  BY DEF Advance
<1>2. CASE board = "musca_b1"
  <2>1. Order(board) = MuscaOrder
    BY <1>2 DEF Order
  <2> QED
    BY <1>1, <2>1 DEF MuscaOrder, AfterMpc
<1> QED
  BY <1>2

LEMMA BootElsewhere ==
    ASSUME board \in Boards, BootStep
    PROVE  BeginMpc \/ MarkBlock \/ NextWord \/ EndMpc \/ Elsewhere
<1>1. ASSUME phase \notin {"mpc", "ns"}, UNCHANGED <<board, lut, job, loop>>,
             \/ Advance
             \/ UNCHANGED phase
             \/ phase' \in {"failed", "halted"}
      PROVE  Elsewhere
  <2>1. CASE Advance
    BY <1>1, <2>1, MpcOrder DEF Elsewhere
  <2> QED
    BY <1>1, <2>1 DEF Elsewhere, AfterMpc
<1>2. CASE ZeroBss BY <1>1, <1>2 DEF ZeroBss, Round
<1>3. CASE CopyData BY <1>1, <1>3 DEF CopyData, Round
<1>4. CASE InitChip BY <1>1, <1>4 DEF InitChip
<1>5. CASE InitChipFails BY <1>1, <1>5 DEF InitChipFails
<1>6. CASE InitSerial BY <1>1, <1>6 DEF InitSerial, StaticInit, Halt
<1>7. CASE ConfigureNvic BY <1>1, <1>7 DEF ConfigureNvic, Round
<1>8. CASE ConfigureAircr BY <1>1, <1>8 DEF ConfigureAircr
<1>9. CASE ConfigureNsAttrs BY <1>1, <1>9 DEF ConfigureNsAttrs, Round
<1>10. CASE ConfigureNsPAttrs BY <1>1, <1>10 DEF ConfigureNsPAttrs, Round
<1>11. CASE ConfigurePcMasks BY <1>1, <1>11 DEF ConfigurePcMasks, Round
<1>12. CASE LockProtectionContexts BY <1>1, <1>12 DEF LockProtectionContexts
<1>13. CASE SetRegion BY <1>1, <1>13 DEF SetRegion, Halt, Round
<1>14. CASE InitStatics BY <1>1, <1>14 DEF InitStatics, StaticInit, Halt
<1>15. CASE SetSpm BY <1>1, <1>15 DEF SetSpm
<1>16. CASE EnableIdauNscCode BY <1>1, <1>16 DEF EnableIdauNscCode
<1>17. CASE EnableUart1Ns BY <1>1, <1>17 DEF EnableUart1Ns
<1>18. CASE MpcDone BY <1>18 DEF MpcDone, OnlyMpc, Elsewhere
<1>19. CASE SendByte BY <1>1, <1>19 DEF SendByte, Round
<1>20. CASE Transmit BY <1>20 DEF Transmit, Elsewhere
<1>21. CASE Jump BY <1>1, <1>21 DEF Jump
<1> QED
  BY <1>2, <1>3, <1>4, <1>5, <1>6, <1>7, <1>8, <1>9, <1>10, <1>11, <1>12, <1>13, <1>14,
     <1>15, <1>16, <1>17, <1>18, <1>19, <1>20, <1>21 DEF BootStep

LEMMA ElsewhereKeepsMpc ==
    ASSUME board \in Boards, MpcInv, Elsewhere
    PROVE  MpcInv'
<1>1. UNCHANGED <<board, lut, job, loop>> /\ Jobs' = Jobs
  BY DEF Elsewhere, Jobs
<1>2. (loop # Idle)' => Working'
  <2>1. loop # Idle => Working /\ phase' = phase
    BY DEF MpcInv, Elsewhere, Working
  <2> QED
    BY <1>1, <2>1 DEF Working, CanSetNonSecure, StartBlock, EndBlock, Words, Marked
<1>3. phase' \in AfterMpc => job' = Len(Jobs') + 1
  <2>1. board # "musca_b1" \/ job \notin DOMAIN Jobs => job = Len(Jobs) + 1
    <3>1. job \in 1 .. Len(Jobs) + 1 /\ Len(Jobs) \in Nat /\ DOMAIN Jobs = 1 .. Len(Jobs)
      BY JobType DEF MpcInv
    <3>2. board # "musca_b1" => Len(Jobs) = 0
      BY JobType
    <3> QED
      BY <3>1, <3>2
  <2> QED
    BY <1>1, <2>1 DEF MpcInv, Elsewhere
<1> QED
  BY <1>1, <1>2, <1>3 DEF MpcInv, Asked, Words

\* Before the first block nothing is marked, in no word.
LEMMA BeginKeepsMpc ==
    ASSUME board \in Boards, MpcInv, BeginMpc
    PROVE  MpcInv'
<1> DEFINE m == Jobs[job]
           first == StartBlock(m)
<1>1. /\ phase = "mpc" /\ job \in DOMAIN Jobs /\ loop = Idle
      /\ UNCHANGED <<board, lut, job>> /\ Jobs' = Jobs
  BY DEF BeginMpc, OnlyMpc, Jobs
<1>2. CASE ~CanSetNonSecure(m)
  <2>1. phase' = "halted" /\ loop' = Idle
    BY <1>1, <1>2 DEF BeginMpc, Halt
  <2> QED
    BY <1>1, <2>1 DEF MpcInv, AfterMpc, Asked, Words
<1>3. CASE CanSetNonSecure(m)
  <2>1. phase' = "mpc" /\ loop' = [block |-> first, idx |-> first \div WordBits,
                                   word |-> lut[job][first \div WordBits]]
    BY <1>1, <1>3 DEF BeginMpc
  <2>2. /\ first \in Nat /\ EndBlock(m) \in Nat /\ first < EndBlock(m)
        /\ first \div WordBits \in Words(m) /\ Words(m) \subseteq Nat
    BY <1>1, <1>3, JobBlocks
  <2>3. lut[job] = [w \in Words(m) |-> {}]
    BY <1>1 DEF MpcInv
  <2>4. \A w \in Words(m) : Marked(m, w, first) = {}
    BY <2>2, MarkedBounds
  <2>5. loop'.block = first /\ loop'.idx = first \div WordBits /\ loop'.word = {}
    BY <2>1, <2>2, <2>3
  <2>6. loop' # Idle /\ loop' \in [block : Int, idx : Int, word : SUBSET Bits]
    <3>1. Idle.idx = -1
      BY DEF Idle
    <3> HIDE DEF m, first
    <3> QED
      BY <2>1, <2>2, <2>3, <2>5, <3>1
  <2>7. Working'
    <3>1. /\ phase' = "mpc" /\ job' \in DOMAIN Jobs' /\ CanSetNonSecure(m)' /\ m' = m
      BY <1>1, <1>3, <2>1 DEF CanSetNonSecure
    <3>2. first \in first .. EndBlock(m)
      BY <2>2
    <3> QED
      BY <1>1, <2>2, <2>3, <2>4, <2>5, <3>1, <3>2
      DEF Working, CanSetNonSecure, StartBlock, EndBlock, Words, Marked
  <2> HIDE DEF m, first
  <2> QED
    BY <1>1, <2>1, <2>6, <2>7 DEF MpcInv, AfterMpc, Asked, Words
<1> QED
  BY <1>2, <1>3

LEMMA RoundKeepsMpc ==
    ASSUME board \in Boards, MpcInv, MarkBlock \/ NextWord
    PROVE  MpcInv'
<1>1. /\ phase = "mpc" /\ loop # Idle /\ job \in DOMAIN Jobs
      /\ UNCHANGED <<board, phase, job>> /\ Jobs' = Jobs
  BY DEF MarkBlock, NextWord, InJob, OnlyMpc, Jobs
<1>2. /\ Working' /\ loop' # Idle
      /\ loop' \in [block : Int, idx : Int, word : SUBSET Bits]
      /\ lut'[job] \in [Words(Jobs[job]) -> SUBSET Bits]
      /\ lut' = [j \in DOMAIN Jobs |-> lut'[j]]
      /\ \A j \in DOMAIN Jobs : j # job => lut'[j] = lut[j]
  BY RoundKeepsWorking
<1>3. \A j \in DOMAIN Jobs : lut'[j] \in [Words(Jobs[j]) -> SUBSET Bits]
  BY <1>2 DEF MpcInv
<1>4. \A j \in DOMAIN Jobs : j \in Nat
  BY JobType
<1>5. \A j \in DOMAIN Jobs : j < job => lut'[j] = Asked[board][j]
  BY <1>1, <1>2, <1>4 DEF MpcInv
<1>6. \A j \in DOMAIN Jobs : j > job => lut'[j] = [w \in Words(Jobs[j]) |-> {}]
  BY <1>1, <1>2, <1>4 DEF MpcInv
<1> QED
  BY <1>1, <1>2, <1>3, <1>5, <1>6 DEF MpcInv, AfterMpc, Asked, Words

\* The last word written back, the table is what was asked for.
LEMMA EndKeepsMpc ==
    ASSUME board \in Boards, MpcInv, EndMpc
    PROVE  MpcInv'
<1> DEFINE m == Jobs[job]
<1>1. /\ phase = "mpc" /\ job \in DOMAIN Jobs /\ loop # Idle /\ Working
      /\ loop.block = EndBlock(m) /\ loop' = Idle /\ job' = job + 1
      /\ UNCHANGED <<board, phase>> /\ Jobs' = Jobs
      /\ lut' = [lut EXCEPT ![job][loop.idx] = loop.word]
  BY DEF EndMpc, InJob, OnlyMpc, Jobs, MpcInv
<1>2. /\ CanSetNonSecure(m) /\ loop.idx \in Words(m)
      /\ loop.word = Marked(m, loop.idx, EndBlock(m))
      /\ \A w \in Words(m) \ {loop.idx} : lut[job][w] = Marked(m, w, EndBlock(m))
  BY <1>1 DEF Working
<1>3. lut = [j \in DOMAIN Jobs |-> lut[j]] /\ lut[job] \in [Words(m) -> SUBSET Bits]
  BY <1>1 DEF MpcInv
<1>4. /\ lut' = [j \in DOMAIN Jobs |-> lut'[j]]
      /\ lut'[job] = [lut[job] EXCEPT ![loop.idx] = loop.word]
      /\ \A j \in DOMAIN Jobs : j # job => lut'[j] = lut[j]
  <2> HIDE DEF m
  <2> QED
    BY <1>1, <1>3
<1>5. lut'[job] = [w \in Words(m) |-> Marked(m, w, EndBlock(m))]
  <2> HIDE DEF m
  <2> QED
    BY <1>2, <1>3, <1>4
<1>6. lut'[job] = Asked[board][job]
  BY <1>1, <1>2, <1>5, AskedIsMarked
<1>7. lut'[job] \in [Words(m) -> SUBSET Bits]
  <2>1. \A w \in Words(m) : Marked(m, w, EndBlock(m)) \subseteq Bits
    BY DEF Marked
  <2> HIDE DEF m
  <2> QED
    BY <1>5, <2>1
<1>8. \A j \in DOMAIN Jobs : lut'[j] \in [Words(Jobs[j]) -> SUBSET Bits]
  BY <1>4, <1>7 DEF MpcInv
<1>9. DOMAIN Jobs = 1 .. Len(Jobs) /\ Len(Jobs) \in Nat /\ job \in 1 .. Len(Jobs)
  BY <1>1, JobType
<1>10. job' \in 1 .. Len(Jobs) + 1
  BY <1>1, <1>9
<1>11. \A j \in DOMAIN Jobs : j < job' => lut'[j] = Asked[board][j]
  <2> TAKE j \in DOMAIN Jobs
  <2>1. j < job' => j < job \/ j = job
    BY <1>1, <1>9
  <2>2. j < job => lut'[j] = Asked[board][j]
    <3>1. j < job => j # job
      BY <1>9
    <3> QED
      BY <1>4, <3>1 DEF MpcInv
  <2> QED
    BY <1>6, <2>1, <2>2
<1>12. \A j \in DOMAIN Jobs : j >= job' => lut'[j] = [w \in Words(Jobs[j]) |-> {}]
  <2> TAKE j \in DOMAIN Jobs
  <2>1. j >= job' => j > job /\ j # job
    BY <1>1, <1>9
  <2> QED
    BY <1>4, <2>1 DEF MpcInv
<1>13. loop' \in [block : Int, idx : Int, word : SUBSET Bits]
  BY <1>1 DEF Idle
<1>14. \A j \in DOMAIN Jobs : j > job' \/ (j = job' /\ loop' = Idle) => j >= job'
  BY <1>9, <1>10
<1> HIDE DEF m
<1> QED
  BY <1>1, <1>4, <1>8, <1>10, <1>11, <1>12, <1>13, <1>14 DEF MpcInv, AfterMpc, Asked, Words

LEMMA ClosedKeepsMpc ==
    ASSUME board \in Boards, lut = ClosedLut(board), job = 1, loop = Idle, phase = "bss"
    PROVE  MpcInv
<1>1. Jobs = MpcJobs[board]
  BY DEF Jobs
<1>2. lut = [j \in DOMAIN Jobs |-> [w \in Words(Jobs[j]) |-> {}]]
  BY <1>1 DEF ClosedLut
<1>3. DOMAIN Jobs = 1 .. Len(Jobs) /\ Len(Jobs) \in Nat
  BY JobType
<1>4. loop \in [block : Int, idx : Int, word : SUBSET Bits]
  BY DEF Idle
<1>5. \A j \in DOMAIN Jobs : ~(j < job)
  BY <1>3
<1>6. job \in 1 .. Len(Jobs) + 1
  BY <1>3
<1>7. lut = [j \in DOMAIN Jobs |-> lut[j]]
  BY <1>2
<1>8. \A j \in DOMAIN Jobs : lut[j] \in [Words(Jobs[j]) -> SUBSET Bits]
  BY <1>2
<1> QED
  BY <1>2, <1>4, <1>5, <1>6, <1>7, <1>8 DEF MpcInv, AfterMpc

\* The tables hold what set_non_secure has got to, whatever the ranges and
\* their places in the words are.
THEOREM MpcInvariance == Spec => []MpcInv
<1>1. Init => MpcInv
  BY ClosedKeepsMpc DEF Init, BootInit
<1>2. board \in Boards /\ MpcInv /\ [Next]_vars => MpcInv'
  <2> SUFFICES ASSUME board \in Boards, MpcInv, [Next]_vars PROVE MpcInv'
    OBVIOUS
  <2>1. CASE Boots
    BY <2>1, BootElsewhere, ElsewhereKeepsMpc, BeginKeepsMpc, RoundKeepsMpc, EndKeepsMpc DEF Boots
  <2>2. CASE StartKernel
    <3>1. /\ phase \in {"kernel", "capsules"} /\ UNCHANGED <<board, lut, job, loop>>
      BY <2>2 DEF StartKernel, StartKernelPsc3, StartCapsulesPsc3, StartFailsPsc3,
                  StartKernelMusca, KernelOnly
    <3>2. Elsewhere
      BY <3>1 DEF Elsewhere, AfterMpc
    <3> QED
      BY <3>2, ElsewhereKeepsMpc
  <2>3. CASE ResetAll
    <3>1. /\ lut' = ClosedLut(board) /\ job' = 1 /\ loop' = Idle /\ phase' = "bss"
          /\ board' = board /\ Jobs' = Jobs
      BY <2>3 DEF ResetAll, Reset, Jobs
    <3>2. ClosedLut(board)' = ClosedLut(board')
      BY DEF ClosedLut, Words
    <3>3. (board \in Boards /\ lut = ClosedLut(board) /\ job = 1 /\ loop = Idle /\ phase = "bss")'
      BY <3>1 DEF ClosedLut, Words, Idle
    <3>4. (board \in Boards /\ lut = ClosedLut(board) /\ job = 1 /\ loop = Idle /\ phase = "bss"
           => MpcInv)'
      BY ClosedKeepsMpc, PTL
    <3> QED
      BY <3>3, <3>4
  <2>4. CASE UNCHANGED <<board, phase, lut, job, loop>>
    BY <2>4, ElsewhereKeepsMpc DEF Elsewhere
  <2>5. ASSUME NEW p \in Procs, NEW line \in Lines, ReadLine(p, line)
        PROVE  UNCHANGED <<board, phase, lut, job, loop>>
    BY <2>5 DEF ReadLine, bootVars
  <2>6. ASSUME NEW p \in Procs, Step(p) PROVE UNCHANGED <<board, phase, lut, job, loop>>
    BY <2>6 DEF Step, Exists, Sleep, SleepFails, BuildInVec, BuildOutVec, EnterVeneer, BootDone,
                Connect, ConnectFails, Serve, ExitVeneer, Release, bootVars
  <2>7. ASSUME NEW p \in Procs, ConsoleFails(p) \/ Reserve(p) \/ ReserveFails(p) \/ Upcall(p)
        PROVE  UNCHANGED <<board, phase, lut, job, loop>>
    BY <2>7 DEF ConsoleFails, Reserve, ReserveFails, Upcall, bootVars
  <2>8. CASE UNCHANGED vars
    BY <2>4, <2>8 DEF vars, bootVars
  <2> QED
    BY <2>1, <2>2, <2>3, <2>4, <2>5, <2>6, <2>7, <2>8 DEF Next
<1>3. IInv => board \in Boards
  BY DEF IInv, Types
<1> QED
  BY <1>1, <1>2, <1>3, Invariance, PTL DEF Spec

\* Never is a block open that set_non_secure was not asked to open, and before
\* the non-secure image runs each one it was asked for is (mpc.rs:82-127): for
\* any controllers, ranges, block and word sizes, wherever in a word a range
\* begins and ends.
THEOREM MpcExact == Spec => []MpcOpensExactly
<1>1. board \in Boards /\ MpcInv => MpcOpensExactly
  <2> SUFFICES ASSUME board \in Boards, MpcInv PROVE MpcOpensExactly
    OBVIOUS
  <2>1. /\ DOMAIN Jobs = 1 .. Len(Jobs) /\ Len(Jobs) \in Nat
        /\ DOMAIN lut = DOMAIN Jobs /\ job \in 1 .. Len(Jobs) + 1
    BY JobType DEF MpcInv
  <2>2. ASSUME NEW j \in DOMAIN Jobs, NEW w \in DOMAIN lut[j]
        PROVE  lut[j][w] \subseteq Asked[board][j][w]
    <3>1. w \in Words(Jobs[j])
      BY DEF MpcInv
    <3>2. CASE j < job
      BY <3>2 DEF MpcInv
    <3>3. CASE j > job \/ (j = job /\ loop = Idle)
      BY <3>1, <3>3 DEF MpcInv
    <3>4. CASE j = job /\ loop # Idle
      <4>1. /\ CanSetNonSecure(Jobs[j]) /\ loop.block \in StartBlock(Jobs[j]) .. EndBlock(Jobs[j])
            /\ lut[j][w] \subseteq Marked(Jobs[j], w, loop.block)
        BY <3>1, <3>4 DEF MpcInv, Working
      <4>2. StartBlock(Jobs[j]) \in Nat /\ EndBlock(Jobs[j]) \in Nat /\ w \in Nat
        BY <3>1, <4>1, JobBlocks
      <4>3. loop.block \in Nat /\ loop.block <= EndBlock(Jobs[j])
        BY <4>1, <4>2
      <4>4. Marked(Jobs[j], w, loop.block) \subseteq Marked(Jobs[j], w, EndBlock(Jobs[j]))
        BY <4>2, <4>3, MarkedBounds
      <4>5. Asked[board][j][w] = Marked(Jobs[j], w, EndBlock(Jobs[j]))
        BY <3>1, <4>1, AskedIsMarked
      <4> QED
        BY <4>1, <4>4, <4>5
    <3> QED
      BY <2>1, <3>2, <3>3, <3>4
  <2>3. ASSUME Running PROVE lut = Asked[board]
    <3>1. job = Len(Jobs) + 1
      BY <2>3 DEF Running, MpcInv, AfterMpc
    <3>2. \A j \in DOMAIN Jobs : lut[j] = Asked[board][j]
      BY <2>1, <3>1 DEF MpcInv
    <3>3. lut = [j \in DOMAIN Jobs |-> lut[j]]
      BY DEF MpcInv
    <3>4. Asked[board] = [j \in DOMAIN Jobs |-> Asked[board][j]]
      BY DEF Asked, Jobs
    <3> QED
      BY <3>2, <3>3, <3>4
  <2> QED
    BY <2>2, <2>3 DEF MpcOpensExactly
<1>2. IInv => board \in Boards
  BY DEF IInv, Types
<1> QED
  BY <1>1, <1>2, Invariance, MpcInvariance, PTL

------------------------------------------------------------------------------
(* Types. *)

RestType ==
    /\ phase \in Phases
    /\ spm \in {"Uninitialized", "Initialized"}
    /\ owner \in Procs \cup {NoProc}
    /\ \A p \in Procs :
        /\ request[p].ins \in InVecs(board, p) \cup {<<>>}
        /\ request[p].outs \in OutVecs(board, p) \cup {<<>>}
    /\ answer \in [Procs -> {"none", "error", "done"}]

PhasesOf(b) == {Order(b)[i] : i \in DOMAIN Order(b)}

LEMMA PhasesOfBoards ==
    /\ {"failed", "halted"} \subseteq Phases
    /\ \A b \in Boards :
        /\ "bss" \in Phases
        /\ \A i \in DOMAIN Order(b) : Order(b)[i] \in Phases
<1>1. Phases = (UNION {PhasesOf(b) : b \in Boards}) \cup {"failed", "halted"}
  BY DEF Phases, PhasesOf
<1>2. ASSUME NEW b \in Boards PROVE "bss" \in PhasesOf(b)
  <2>1. Order(b)[1] = "bss" /\ 1 \in DOMAIN Order(b)
    <3>1. CASE b = "musca_b1"
      BY <3>1 DEF Order, MuscaOrder
    <3>2. CASE b = "psc3m5_evk"
      BY <3>2 DEF Order, Psc3Order
    <3>3. CASE b = "psc3m5_evk_ipc"
      BY <3>3 DEF Order, Psc3IpcOrder
    <3> QED
      BY <3>1, <3>2, <3>3, BootAssumption
  <2> QED
    BY <2>1 DEF PhasesOf
<1>3. \A b \in Boards : \A i \in DOMAIN Order(b) : Order(b)[i] \in PhasesOf(b)
  BY DEF PhasesOf
<1>4. \A b \in Boards : PhasesOf(b) \subseteq Phases
  BY <1>1
<1>5. {"failed", "halted"} \subseteq Phases
  BY <1>1
<1>6. \A b \in Boards : "bss" \in Phases
  BY <1>2, <1>4
<1>7. \A b \in Boards : \A i \in DOMAIN Order(b) : Order(b)[i] \in Phases
  BY <1>3, <1>4, Zenon
<1> QED
  BY <1>5, <1>6, <1>7, Zenon

\* The phase behind one that is not the last is a phase.
LEMMA AdvanceStays ==
    ASSUME board \in Boards, Advance, phase # "ns"
    PROVE  phase' \in Phases
<1>1. PICK i \in DOMAIN Order(board) : Order(board)[i] = phase /\ phase' = Order(board)[i + 1]
  BY DEF Advance
<1>2. i + 1 \in DOMAIN Order(board)
  <2>1. CASE board = "musca_b1"
    <3>1. Order(board) = MuscaOrder
      BY <2>1 DEF Order
    <3> QED
      BY <1>1, <3>1 DEF MuscaOrder
  <2>2. CASE board = "psc3m5_evk"
    <3>1. Order(board) = Psc3Order
      BY <2>2 DEF Order
    <3> QED
      BY <1>1, <3>1 DEF Psc3Order
  <2>3. CASE board = "psc3m5_evk_ipc"
    <3>1. Order(board) = Psc3IpcOrder
      BY <2>3 DEF Order
    <3> QED
      BY <1>1, <3>1 DEF Psc3IpcOrder
  <2> QED
    BY <2>1, <2>2, <2>3, BootAssumption
<1> QED
  BY <1>1, <1>2, PhasesOfBoards

LEMMA BootKeepsRest ==
    ASSUME board \in Boards, phase \in Phases, spm \in {"Uninitialized", "Initialized"}, BootStep
    PROVE  phase' \in Phases /\ spm' \in {"Uninitialized", "Initialized"} /\ board' = board
<1>1. ASSUME phase # "ns", board' = board,
             \/ Advance
             \/ UNCHANGED phase
             \/ phase' \in {"failed", "halted"},
             spm' \in {spm, "Uninitialized", "Initialized"}
      PROVE  phase' \in Phases /\ spm' \in {"Uninitialized", "Initialized"} /\ board' = board
  <2> QED
    BY <1>1, AdvanceStays, PhasesOfBoards
<1>2. CASE ZeroBss BY <1>1, <1>2 DEF ZeroBss, Round
<1>3. CASE CopyData BY <1>1, <1>3 DEF CopyData, Round
<1>4. CASE InitChip BY <1>1, <1>4 DEF InitChip
<1>5. CASE InitChipFails BY <1>1, <1>5 DEF InitChipFails
<1>6. CASE InitSerial BY <1>1, <1>6 DEF InitSerial, StaticInit, Halt
<1>7. CASE ConfigureNvic BY <1>1, <1>7 DEF ConfigureNvic, Round
<1>8. CASE ConfigureAircr BY <1>1, <1>8 DEF ConfigureAircr
<1>9. CASE ConfigureNsAttrs BY <1>1, <1>9 DEF ConfigureNsAttrs, Round
<1>10. CASE ConfigureNsPAttrs BY <1>1, <1>10 DEF ConfigureNsPAttrs, Round
<1>11. CASE ConfigurePcMasks BY <1>1, <1>11 DEF ConfigurePcMasks, Round
<1>12. CASE LockProtectionContexts BY <1>1, <1>12 DEF LockProtectionContexts
<1>13. CASE SetRegion BY <1>1, <1>13 DEF SetRegion, Halt, Round
<1>14. CASE InitStatics BY <1>1, <1>14 DEF InitStatics, StaticInit, Halt
<1>15. CASE SetSpm BY <1>1, <1>15 DEF SetSpm
<1>16. CASE EnableIdauNscCode BY <1>1, <1>16 DEF EnableIdauNscCode
<1>17. CASE EnableUart1Ns BY <1>1, <1>17 DEF EnableUart1Ns
<1>18. CASE BeginMpc BY <1>1, <1>18 DEF BeginMpc, OnlyMpc, Halt
<1>19. CASE MarkBlock BY <1>1, <1>19 DEF MarkBlock, InJob, OnlyMpc
<1>20. CASE NextWord BY <1>1, <1>20 DEF NextWord, InJob, OnlyMpc
<1>21. CASE EndMpc BY <1>1, <1>21 DEF EndMpc, InJob, OnlyMpc
<1>22. CASE MpcDone BY <1>1, <1>22 DEF MpcDone, OnlyMpc
<1>23. CASE SendByte BY <1>1, <1>23 DEF SendByte, Round
<1>24. CASE Transmit BY <1>24 DEF Transmit
<1>25. CASE Jump BY <1>1, <1>25 DEF Jump
<1> QED
  BY <1>2, <1>3, <1>4, <1>5, <1>6, <1>7, <1>8, <1>9, <1>10, <1>11, <1>12, <1>13, <1>14, <1>15,
     <1>16, <1>17, <1>18, <1>19, <1>20, <1>21, <1>22, <1>23, <1>24, <1>25 DEF BootStep

LEMMA RestStep ==
    ASSUME IInv, RestType, [Next]_vars
    PROVE  RestType'
<1> USE DEF RestType
<1>1. board \in Boards /\ request \in [Procs -> [ins : Seq(Buffer), outs : Seq(Buffer)]]
  BY DEF IInv, Types
<1>2. ASSUME board' = board, phase' \in Phases, spm' \in {"Uninitialized", "Initialized"},
             owner' \in Procs \cup {NoProc}, UNCHANGED request,
             answer' \in [Procs -> {"none", "error", "done"}]
      PROVE  RestType'
  BY <1>2 DEF InVecs, OutVecs
<1>3. CASE Boots
  <2>1. board' = board /\ phase' \in Phases /\ spm' \in {"Uninitialized", "Initialized"}
    BY <1>1, <1>3, BootKeepsRest DEF Boots
  <2> QED
    BY <1>2, <1>3, <2>1 DEF Boots, clientVars
<1>4. CASE StartKernel
  <2>1. /\ phase \in {"kernel", "capsules"} /\ UNCHANGED <<board, spm, request, answer>>
        /\ owner' \in {owner, NoProc}
        /\ Advance \/ phase' = "failed"
    BY <1>4 DEF StartKernel, StartKernelPsc3, StartCapsulesPsc3, StartFailsPsc3,
                StartKernelMusca, KernelOnly
  <2>2. phase' \in Phases
    BY <1>1, <2>1, AdvanceStays, PhasesOfBoards
  <2> QED
    BY <1>2, <2>1, <2>2
<1>5. CASE ResetAll
  <2>1. /\ board' = board /\ phase' = "bss" /\ UNCHANGED <<spm, owner>>
        /\ request' = [p \in Procs |-> NoRequest] /\ answer' = [p \in Procs |-> "none"]
    BY <1>5 DEF ResetAll, Reset
  <2>2. "bss" \in Phases
    BY <1>1, PhasesOfBoards
  <2>3. \A p \in Procs : request'[p].ins = <<>> /\ request'[p].outs = <<>>
    BY <2>1 DEF NoRequest
  <2> QED
    BY <2>1, <2>2, <2>3
<1>6. ASSUME NEW p \in Procs, NEW line \in Lines, ReadLine(p, line) PROVE RestType'
  BY <1>2, <1>6 DEF ReadLine, bootVars
<1>7. ASSUME NEW p \in Procs, ConsoleFails(p) \/ Reserve(p) \/ ReserveFails(p) \/ Upcall(p)
      PROVE  RestType'
  BY <1>2, <1>7 DEF ConsoleFails, Reserve, ReserveFails, Upcall, bootVars
<1>8. ASSUME NEW p \in Procs, Step(p) PROVE RestType'
  <2>1. CASE Exists(p) BY <1>2, <2>1 DEF Exists, bootVars
  <2>2. CASE Sleep(p) \/ SleepFails(p) BY <1>2, <2>2 DEF Sleep, SleepFails, bootVars
  <2>3. ASSUME NEW ins \in InVecs(board, p), BuildInVec(p, ins) PROVE RestType'
    <3>1. request' = [request EXCEPT ![p].ins = ins]
          /\ UNCHANGED <<board, phase, spm, owner, answer>>
      BY <2>3 DEF BuildInVec, bootVars
    <3>2. \A q \in Procs : /\ request'[q].outs = request[q].outs
                           /\ request'[q].ins = IF q = p THEN ins ELSE request[q].ins
      BY <1>1, <3>1
    <3> QED
      BY <3>1, <3>2 DEF InVecs, OutVecs
  <2>4. ASSUME NEW outs \in OutVecs(board, p), BuildOutVec(p, outs) PROVE RestType'
    <3>1. request' = [request EXCEPT ![p].outs = outs]
          /\ UNCHANGED <<board, phase, spm, owner, answer>>
      BY <2>4 DEF BuildOutVec, bootVars
    <3>2. \A q \in Procs : /\ request'[q].ins = request[q].ins
                           /\ request'[q].outs = IF q = p THEN outs ELSE request[q].outs
      BY <1>1, <3>1
    <3> QED
      BY <3>1, <3>2 DEF InVecs, OutVecs
  <2>5. CASE EnterVeneer(p) BY <1>2, <2>5 DEF EnterVeneer, BootDone
  <2>6. CASE Connect(p) BY <1>2, <2>6 DEF Connect, bootVars
  <2>7. CASE ConnectFails(p) BY <1>2, <2>7 DEF ConnectFails, bootVars
  <2>8. CASE Serve(p) BY <1>2, <2>8 DEF Serve, bootVars
  <2>9. CASE ExitVeneer(p) BY <1>2, <2>9 DEF ExitVeneer, BootDone
  <2>10. CASE Release(p)
    <3>1. /\ request' = [request EXCEPT ![p] = NoRequest] /\ UNCHANGED <<board, phase, spm>>
          /\ owner' \in {owner, NoProc} /\ answer' = [answer EXCEPT ![p] = "none"]
      BY <2>10 DEF Release, bootVars
    <3>2. \A q \in Procs : request'[q] = IF q = p THEN NoRequest ELSE request[q]
      BY <1>1, <3>1
    <3>3. NoRequest.ins = <<>> /\ NoRequest.outs = <<>>
      BY DEF NoRequest
    <3> QED
      BY <3>1, <3>2, <3>3 DEF InVecs, OutVecs
  <2> QED
    BY <1>8, <2>1, <2>2, <2>3, <2>4, <2>5, <2>6, <2>7, <2>8, <2>9, <2>10 DEF Step
<1>9. CASE UNCHANGED vars
  BY <1>2, <1>9 DEF vars, bootVars, clientVars
<1> QED
  BY <1>3, <1>4, <1>5, <1>6, <1>7, <1>8, <1>9 DEF Next

LEMMA RestAtPowerOn == Init => RestType
<1> SUFFICES ASSUME Init PROVE RestType
  OBVIOUS
<1>1. board \in Boards /\ phase = "bss" /\ spm \in {"Uninitialized", "Initialized"}
  BY DEF Init, BootInit
<1>2. "bss" \in Phases
  BY <1>1, PhasesOfBoards
<1> QED
  BY <1>1, <1>2 DEF Init, RestType, NoRequest

\* No loop leaves its words or blocks, and no process or board a state the
\* code does not know.
THEOREM TypeCorrect == Spec => []TypeOK
<1>1. Init => RestType
  BY RestAtPowerOn
<1>2. IInv /\ RestType /\ [Next]_vars => RestType'
  BY RestStep
<1>3. IInv /\ MpcInv /\ DialogType /\ RestType => TypeOK
  <2> SUFFICES ASSUME IInv, MpcInv, DialogType, RestType PROVE TypeOK
    OBVIOUS
  <2>1. board \in Boards /\ inSecureState \in BOOLEAN /\ stage \in [Procs -> Stages]
    BY DEF IInv, Types
  <2>2. ASSUME InJob PROVE LoopInRange
    <3>1. Working /\ loop.word \subseteq Bits
      BY <2>2 DEF InJob, MpcInv
    <3> QED
      BY <3>1 DEF Working, LoopInRange
  <2> QED
    BY <2>1, <2>2 DEF TypeOK, RestType, DialogType
<1> QED
  BY <1>1, <1>2, <1>3, Invariance, MpcInvariance, DialogInvariance, PTL DEF Spec
==============================================================================
