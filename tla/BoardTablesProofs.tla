--------------------------- MODULE BoardTablesProofs ---------------------------
(***************************************************************************)
(* Proofs about the tables that boot writes, and about what they make of a *)
(* call, for any boards, tables, processes, regions and buffers that the   *)
(* assumptions of Ppc, Boot and TockClients admit.                         *)
(*                                                                         *)
(* Three things meet in a byte that a service reads for a process: the SAU *)
(* and the memory controllers, which boot has set up round by round, and   *)
(* the MPU of the process.  TablesInv says how far boot is with each       *)
(* table; behind it, what a table holds is what its source says.           *)
(***************************************************************************)
EXTENDS TockClientsProofs

------------------------------------------------------------------------------
(* How far boot is. *)

AfterSpm == {"nscCode", "uart1", "mpc", "message", "jump", "kernel", "capsules", "ns"}

Late == {"sau", "statics", "spm"} \cup AfterSpm

AfterNvic == {"aircr", "nsAttrs", "nsPAttrs", "pcMasks", "lock"} \cup Late

Stopped == {"failed", "halted"}

\* All regions of the SAU are set; on musca_b1 the statics come before them.
SauDone == phase \in {"spm"} \cup AfterSpm \/ (phase = "statics" /\ HasPpc(board))

SauPending == phase # "sau" /\ phase \notin Stopped /\ ~SauDone

\* The interrupts after n rounds.
NvicAfter(n) == [w \in 0 .. NvicWords[board] - 1 |->
    IF w < n THEN NonSecureIrqs(board, w) ELSE {}]

NvicRounds == LastNsIrq[board] \div WordBits + 1

NvicInv ==
    /\ phase \notin AfterNvic \cup {"nvic"} \cup Stopped => regs.itns = NvicAfter(0)
    /\ phase = "nvic" => cursor <= NvicRounds /\ regs.itns = NvicAfter(cursor)
    /\ phase \in AfterNvic => regs.itns = NvicAfter(NvicRounds)

\* The words of the PPC up to the cursor, and those of the tables that are done.
NsAttrsInv == HasPpc(board) => \A w \in AttrWords :
    (phase = "nsAttrs" /\ w < cursor) \/ phase \in {"nsPAttrs", "pcMasks", "lock"} \cup Late =>
        regs.nsAttrs[w] = BuildNsAttrs[w]

NsPAttrsInv == HasPpc(board) => \A w \in AttrWords :
    (phase = "nsPAttrs" /\ w < cursor) \/ phase \in {"pcMasks", "lock"} \cup Late =>
        regs.nsPAttrs[w] = BuildNsPAttrs[w]

PcMasksInv == HasPpc(board) => \A w \in MaskWords :
    (phase = "pcMasks" /\ w < cursor) \/ phase \in {"lock"} \cup Late =>
        regs.pcMasks[w] = BuildPcMasks[w]

LockInv == HasPpc(board) /\ phase \in Late => regs.locked

\* The two registers of musca_b1's other controllers.
NscCodeInv == board = "musca_b1" /\ phase \in AfterSpm \ {"nscCode"} => regs.nscCode

Uart1Inv ==
    board = "musca_b1" /\ phase \in AfterSpm \ {"nscCode", "uart1"} => "uart1" \in regs.apbNs

\* What the SAU holds are the first n regions of the table, those declared
\* Secure left out, each once; f says where in the table a region is from.
SauFrom(f, n) ==
    /\ f \in [DOMAIN sau -> Enabled(board) \cap (1 .. n)]
    /\ \A i \in DOMAIN sau : sau[i] = SauRegions[board][f[i]] /\ SauAligned(sau[i])
    /\ \A i, j \in DOMAIN sau : f[i] = f[j] => i = j
    /\ \A k \in Enabled(board) \cap (1 .. n) : \E i \in DOMAIN sau : f[i] = k

SauInv ==
    /\ sau \in Seq([base : Nat, limit : Nat, attribute : Attributes])
    /\ SauPending => sau = <<>>
    /\ phase = "sau" => /\ cursor <= Len(SauRegions[board])
                        /\ \E f \in [DOMAIN sau -> 1 .. cursor] : SauFrom(f, cursor)
    /\ SauDone => LET n == Len(SauRegions[board]) IN
                  \E f \in [DOMAIN sau -> 1 .. n] : SauFrom(f, n)

RegsType ==
    /\ cursor \in Nat
    /\ regs \in [itns : [0 .. NvicWords[board] - 1 -> SUBSET Bits], enabled : SUBSET Int,
                 sysresetreqs : BOOLEAN, busError : BOOLEAN,
                 nsAttrs : [AttrWords -> SUBSET AttrBits], nsPAttrs : [AttrWords -> SUBSET AttrBits],
                 pcMasks : [MaskWords -> SUBSET MaskSlots], locked : BOOLEAN,
                 nscCode : BOOLEAN, apbNs : SUBSET {"uart1"}]

SpmInv == phase \in AfterSpm => spm = "Initialized"

TablesInv ==
    /\ RegsType /\ NvicInv /\ NsAttrsInv /\ NsPAttrsInv /\ PcMasksInv /\ LockInv
    /\ NscCodeInv /\ Uart1Inv /\ SauInv /\ SpmInv

------------------------------------------------------------------------------
(* The order of start(), as far as the tables are concerned.               *)

\* The phases that write a table.
TablePhases == {"nvic", "nsAttrs", "nsPAttrs", "pcMasks", "lock", "sau", "spm", "nscCode", "uart1"}

\* No phase behind that of a table comes but over the table's.
TableOrder ==
    /\ phase' \notin Stopped \cup {"bss"}
    /\ phase' \notin AfterNvic => phase \notin AfterNvic \cup {"nvic"} \cup Stopped
    /\ phase' \in AfterNvic => phase \in AfterNvic \cup {"nvic"}
    /\ HasPpc(board) =>
        /\ phase' \in {"nsPAttrs", "pcMasks", "lock"} \cup Late =>
               phase \in {"nsAttrs", "nsPAttrs", "pcMasks", "lock"} \cup Late
        /\ phase' \in {"pcMasks", "lock"} \cup Late =>
               phase \in {"nsPAttrs", "pcMasks", "lock"} \cup Late
        /\ phase' \in {"lock"} \cup Late => phase \in {"pcMasks", "lock"} \cup Late
        /\ phase' \in Late => phase \in {"lock"} \cup Late
    /\ board = "musca_b1" =>
        /\ phase' \in AfterSpm \ {"nscCode"} => phase \in AfterSpm
        /\ phase' \in AfterSpm \ {"nscCode", "uart1"} => phase \in AfterSpm \ {"nscCode"}
    /\ SauPending' \/ phase' = "sau" => SauPending
    /\ SauDone' => SauDone \/ phase = "sau"
    /\ phase' \in AfterSpm => phase \in AfterSpm \cup {"spm"}

LEMMA TablesInOrder ==
    ASSUME board \in Boards, board' = board, Advance, phase # "ns"
    PROVE  TableOrder
<1> USE DEF TableOrder, AfterNvic, Late, AfterSpm, Stopped, SauPending, SauDone, HasPpc
<1>1. PICK i \in DOMAIN Order(board) : Order(board)[i] = phase /\ phase' = Order(board)[i + 1]
  BY DEF Advance
<1>2. CASE board = "musca_b1"
  <2>1. Order(board) = MuscaOrder
    BY <1>2 DEF Order
  <2>. QED BY <1>1, <1>2, <2>1 DEF MuscaOrder
<1>3. CASE board = "psc3m5_evk"
  <2>1. Order(board) = Psc3Order
    BY <1>3 DEF Order
  <2>. QED BY <1>1, <1>3, <2>1 DEF Psc3Order
<1>4. CASE board = "psc3m5_evk_ipc"
  <2>1. Order(board) = Psc3IpcOrder
    BY <1>4 DEF Order
  <2>. QED BY <1>1, <1>4, <2>1 DEF Psc3IpcOrder
<1>. QED BY <1>2, <1>3, <1>4, BootAssumption

\* A step that is no round of phase own, nor its end.
Aside(own) ==
    \/ UNCHANGED <<phase, cursor>>
    \/ UNCHANGED phase /\ phase # own
    \/ TableOrder /\ phase # own /\ cursor' = 0
    \/ phase' \in Stopped

\* A step that writes no table.
Plain ==
    /\ UNCHANGED <<board, sau>> /\ cursor' \in {0, cursor, cursor + 1}
    /\ regs' = regs \/ regs' = [regs EXCEPT !.sysresetreqs = TRUE]
    /\ spm' = spm \/ phase = "bss"
    /\ \A own \in TablePhases : Aside(own)

LEMMA BootWritesTables ==
    ASSUME board \in Boards, BootStep
    PROVE  \/ ConfigureNvic \/ ConfigureNsAttrs \/ ConfigureNsPAttrs \/ ConfigurePcMasks
           \/ LockProtectionContexts \/ SetRegion \/ SetSpm \/ EnableIdauNscCode \/ EnableUart1Ns
           \/ Plain
<1>1. ASSUME phase \notin TablePhases \cup {"ns"}, UNCHANGED <<board, sau>>,
             regs' = regs \/ regs' = [regs EXCEPT !.sysresetreqs = TRUE],
             spm' = spm \/ phase = "bss",
             \/ Advance
             \/ UNCHANGED <<phase, cursor>>
             \/ UNCHANGED phase /\ cursor' = cursor + 1
             \/ phase' \in Stopped /\ UNCHANGED cursor
      PROVE  Plain
  <2>1. CASE Advance
    <3>1. TableOrder /\ cursor' = 0
      BY <1>1, <2>1, TablesInOrder DEF Advance
    <3>. QED BY <1>1, <3>1 DEF Plain, Aside
  <2>. QED BY <1>1, <2>1 DEF Plain, Aside
<1> USE DEF TablePhases, Stopped
<1>2. CASE ZeroBss BY <1>1, <1>2 DEF ZeroBss, Round
<1>3. CASE CopyData BY <1>1, <1>3 DEF CopyData, Round
<1>4. CASE InitChip BY <1>1, <1>4 DEF InitChip
<1>5. CASE InitChipFails BY <1>1, <1>5 DEF InitChipFails
<1>6. CASE InitSerial BY <1>1, <1>6 DEF InitSerial, StaticInit, Halt
<1>7. CASE ConfigureAircr BY <1>1, <1>7 DEF ConfigureAircr
<1>8. CASE InitStatics BY <1>1, <1>8 DEF InitStatics, StaticInit, Halt
<1>9. CASE BeginMpc BY <1>1, <1>9 DEF BeginMpc, OnlyMpc, Halt
<1>10. CASE MarkBlock BY <1>1, <1>10 DEF MarkBlock, InJob, OnlyMpc
<1>11. CASE NextWord BY <1>1, <1>11 DEF NextWord, InJob, OnlyMpc
<1>12. CASE EndMpc BY <1>1, <1>12 DEF EndMpc, InJob, OnlyMpc
<1>13. CASE MpcDone BY <1>1, <1>13 DEF MpcDone, OnlyMpc
<1>14. CASE SendByte BY <1>1, <1>14 DEF SendByte, Round
<1>15. CASE Transmit BY <1>15 DEF Transmit, Plain, Aside
<1>16. CASE Jump BY <1>1, <1>16 DEF Jump
<1>. QED BY <1>2, <1>3, <1>4, <1>5, <1>6, <1>7, <1>8, <1>9, <1>10, <1>11, <1>12, <1>13,
            <1>14, <1>15, <1>16 DEF BootStep

LEMMA TableTypes ==
    ASSUME NEW b \in Boards
    PROVE  /\ LastNsIrq[b] \in Nat /\ NvicWords[b] \in Nat /\ LastNsIrq[b] \div WordBits \in Nat
           /\ SauRegions[b] \in Seq([base : Nat, limit : Nat, attribute : Attributes])
           /\ Len(SauRegions[b]) \in Nat
           /\ \A k \in Enabled(b) : SauRegions[b][k].base \in Nat /\ SauRegions[b][k].limit \in Nat
<1>1. /\ LastNsIrq \in [Boards -> Nat] /\ NvicWords \in [Boards -> Nat]
      /\ SauRegions \in [Boards -> Seq([base : Nat, limit : Nat, attribute : Attributes])]
  BY TableAssumption, Zenon
<1>2. WordBits \in Nat \ {0}
  BY BootAssumption, Zenon
<1>3. SauRegions[b] \in Seq([base : Nat, limit : Nat, attribute : Attributes])
  BY <1>1
<1>4. LastNsIrq[b] \in Nat /\ NvicWords[b] \in Nat
  BY <1>1
<1>5. \A k \in DOMAIN SauRegions[b] :
        SauRegions[b][k] \in [base : Nat, limit : Nat, attribute : Attributes]
  <2>1. ASSUME NEW S, NEW s \in Seq(S) PROVE \A k \in DOMAIN s : s[k] \in S
    OBVIOUS
  <2>. QED BY <1>3, <2>1, Zenon
<1>6. \A k \in Enabled(b) : SauRegions[b][k].base \in Nat /\ SauRegions[b][k].limit \in Nat
  BY <1>5 DEF Enabled
<1>7. ASSUME NEW S, NEW s \in Seq(S) PROVE Len(s) \in Nat
  OBVIOUS
<1>8. Len(SauRegions[b]) \in Nat
  BY <1>3, <1>7, Zenon
<1>9. LastNsIrq[b] \div WordBits \in Nat
  BY <1>2, <1>4
<1>. QED BY <1>3, <1>4, <1>6, <1>8, <1>9, Zenon

\* What leaves a table alone leaves it as far as it is.
LEMMA AsideKeeps ==
    ASSUME board \in Boards, TablesInv, board' = board
    PROVE  /\ Aside("nvic") /\ regs'.itns = regs.itns => NvicInv'
           /\ Aside("nsAttrs") /\ regs'.nsAttrs = regs.nsAttrs => NsAttrsInv'
           /\ Aside("nsPAttrs") /\ regs'.nsPAttrs = regs.nsPAttrs => NsPAttrsInv'
           /\ Aside("pcMasks") /\ regs'.pcMasks = regs.pcMasks => PcMasksInv'
           /\ Aside("lock") /\ regs'.locked = regs.locked => LockInv'
           /\ Aside("nscCode") /\ regs'.nscCode = regs.nscCode => NscCodeInv'
           /\ Aside("uart1") /\ regs'.apbNs = regs.apbNs => Uart1Inv'
           /\ Aside("sau") /\ sau' = sau => SauInv'
           /\ Aside("spm") /\ (spm' = spm \/ phase = "bss") => SpmInv'
<1> USE DEF TablesInv
<1>1. \A w \in AttrWords \cup MaskWords : ~(w < 0)
  BY DEF AttrWords, MaskWords
<1>2. phase' \in Stopped => phase' \notin AfterNvic \cup Late \cup AfterSpm \cup TablePhases
                            /\ ~SauDone' /\ ~SauPending'
  BY DEF Stopped, AfterNvic, Late, AfterSpm, TablePhases, SauDone, SauPending
<1>3. /\ {"lock"} \cup Late \subseteq {"pcMasks", "lock"} \cup Late
      /\ TablePhases \cap Stopped = {}
  BY DEF TablePhases, Stopped
<1>4. Aside("nvic") /\ regs'.itns = regs.itns => NvicInv'
  <2> SUFFICES ASSUME Aside("nvic"), regs'.itns = regs.itns PROVE NvicInv'
    OBVIOUS
  <2>1. NvicAfter(0)' = NvicAfter(0) /\ NvicAfter(cursor)' = (NvicAfter(cursor'))
        /\ NvicRounds' = NvicRounds /\ NvicAfter(NvicRounds)' = NvicAfter(NvicRounds)
    BY DEF NvicAfter, NvicRounds
  <2>2. NvicRounds \in Nat
    BY TableTypes DEF NvicRounds
  <2>3. CASE UNCHANGED phase
    BY <2>1, <2>3 DEF NvicInv, Aside, AfterNvic, TableOrder, Stopped
  <2>4. CASE TableOrder /\ phase # "nvic" /\ cursor' = 0
    <3>1. phase' = "nvic" => phase \notin AfterNvic \cup {"nvic"} \cup Stopped
      BY <2>4 DEF TableOrder, AfterNvic, Late, AfterSpm
    <3>. QED BY <2>1, <2>2, <2>4, <3>1 DEF NvicInv, TableOrder
  <2>5. CASE phase' \in Stopped
    BY <1>2, <2>5 DEF NvicInv, TablePhases
  <2>. QED BY <2>3, <2>4, <2>5 DEF Aside
<1>5. Aside("nsAttrs") /\ regs'.nsAttrs = regs.nsAttrs => NsAttrsInv'
  BY <1>1, <1>2 DEF NsAttrsInv, Aside, TableOrder, TablePhases, Late, Stopped, AfterSpm
<1>6. Aside("nsPAttrs") /\ regs'.nsPAttrs = regs.nsPAttrs => NsPAttrsInv'
  BY <1>1, <1>2 DEF NsPAttrsInv, Aside, TableOrder, TablePhases, Late, Stopped, AfterSpm
<1>7. Aside("pcMasks") /\ regs'.pcMasks = regs.pcMasks => PcMasksInv'
  BY <1>1, <1>2 DEF PcMasksInv, Aside, TableOrder, TablePhases, Late, Stopped, AfterSpm
<1>8. Aside("lock") /\ regs'.locked = regs.locked => LockInv'
  BY <1>2 DEF LockInv, Aside, TableOrder
<1>9. Aside("nscCode") /\ regs'.nscCode = regs.nscCode => NscCodeInv'
  BY <1>2 DEF NscCodeInv, Aside, TableOrder
<1>10. Aside("uart1") /\ regs'.apbNs = regs.apbNs => Uart1Inv'
  BY <1>2 DEF Uart1Inv, Aside, TableOrder
<1>11. Aside("sau") /\ sau' = sau => SauInv'
  <2> SUFFICES ASSUME Aside("sau"), sau' = sau PROVE SauInv'
    OBVIOUS
  <2>1. \A f, n : SauFrom(f, n)' <=> SauFrom(f, n)
    BY DEF SauFrom
  <2>2. SauRegions[board] \in Seq([base : Nat, limit : Nat, attribute : Attributes])
        /\ Len(SauRegions[board]) \in Nat
    BY TableTypes
  <2>3. CASE UNCHANGED <<phase, cursor>> \/ (UNCHANGED phase /\ phase # "sau")
    BY <2>1, <2>3 DEF SauInv, SauPending, SauDone
  <2>4. CASE phase' \in Stopped
    BY <1>2, <1>3, <2>4 DEF SauInv, TablePhases
  <2>5. CASE TableOrder /\ phase # "sau" /\ cursor' = 0
    <3>1. /\ SauPending' \/ phase' = "sau" => SauPending
          /\ SauDone' => SauDone
      BY <2>5 DEF TableOrder
    <3>2. CASE phase' = "sau"
      <4>1. sau = <<>>
        BY <3>1, <3>2 DEF SauInv
      <4>2. SauFrom(<<>>, 0) /\ <<>> \in [DOMAIN sau -> 1 .. 0]
        BY <4>1 DEF SauFrom
      <4>3. ~SauDone' /\ ~SauPending'
        BY <3>2 DEF SauDone, SauPending, AfterSpm
      <4>4. SauFrom(<<>>, 0)' /\ <<>> \in [DOMAIN sau' -> 1 .. cursor']
        BY <2>1, <2>5, <4>2
      <4>5. cursor' <= Len(SauRegions[board'])
        BY <2>2, <2>5
      <4>6. \E f \in [DOMAIN sau' -> 1 .. cursor'] : SauFrom(f, cursor)'
        BY <2>5, <4>4 DEF SauFrom
      <4>. QED BY <3>2, <4>3, <4>5, <4>6 DEF SauInv
    <3>3. CASE phase' # "sau"
      BY <2>1, <3>1, <3>3 DEF SauInv
    <3>. QED BY <3>2, <3>3
  <2>. QED BY <2>3, <2>4, <2>5 DEF Aside
<1>12. Aside("spm") /\ (spm' = spm \/ phase = "bss") => SpmInv'
  BY <1>2 DEF SpmInv, Aside, TableOrder, AfterSpm
<1>. QED BY <1>4, <1>5, <1>6, <1>7, <1>8, <1>9, <1>10, <1>11, <1>12

\* What writes no table leaves each as far as it is.
LEMMA PlainKeepsTables ==
    ASSUME board \in Boards, TablesInv, Plain
    PROVE  TablesInv'
<1>1. /\ UNCHANGED <<board, sau>>
      /\ regs'.itns = regs.itns /\ regs'.nsAttrs = regs.nsAttrs
      /\ regs'.nsPAttrs = regs.nsPAttrs /\ regs'.pcMasks = regs.pcMasks
      /\ regs'.locked = regs.locked /\ regs'.nscCode = regs.nscCode /\ regs'.apbNs = regs.apbNs
      /\ RegsType'
  <2>1. cursor' \in Nat /\ UNCHANGED <<board, sau>>
    BY DEF Plain, TablesInv, RegsType
  <2>2. CASE regs' = regs
    BY <2>1, <2>2 DEF TablesInv, RegsType
  <2>3. CASE regs' = [regs EXCEPT !.sysresetreqs = TRUE]
    BY <2>1, <2>3 DEF TablesInv, RegsType
  <2>. QED BY <2>1, <2>2, <2>3 DEF Plain
<1>2. /\ Aside("nvic") /\ Aside("nsAttrs") /\ Aside("nsPAttrs") /\ Aside("pcMasks")
      /\ Aside("lock") /\ Aside("nscCode") /\ Aside("uart1") /\ Aside("sau") /\ Aside("spm")
      /\ spm' = spm \/ phase = "bss"
  BY DEF Plain, TablePhases
<1>. QED BY <1>1, <1>2, AsideKeeps DEF TablesInv

------------------------------------------------------------------------------
(* The rounds.                                                             *)

\* A round, or the end, of one phase is aside from those of the others.
LEMMA RoundsAside ==
    ASSUME board \in Boards, board' = board, phase # "ns", Round \/ Advance \/ Halt
    PROVE  \A own : own # phase => Aside(own)
<1>1. CASE Round BY <1>1 DEF Round, Aside
<1>2. CASE Halt BY <1>2 DEF Halt, Aside, Stopped
<1>3. CASE Advance BY <1>3, TablesInOrder DEF Advance, Aside
<1>. QED BY <1>1, <1>2, <1>3

\* All words of the PPC's tables are words of its registers.
LEMMA BuildTypes ==
    /\ BuildNsAttrs \in [AttrWords -> SUBSET AttrBits]
    /\ BuildNsPAttrs \in [AttrWords -> SUBSET AttrBits]
    /\ BuildPcMasks \in [MaskWords -> SUBSET MaskSlots]
    /\ \E n \in Int : AttrWords = 0 .. n
    /\ \E n \in Int : MaskWords = 0 .. n
<1>1. \A r \in PpcRegion : r % REGIONS_PER_ATTR_REG \in AttrBits
  BY PpcAssumption DEF PpcRegion, AttrBits
<1>2. ASSUME NEW regions PROVE RegionBits(regions) \in [AttrWords -> SUBSET AttrBits]
  BY <1>1 DEF RegionBits
<1>3. NoBits \in [AttrWords -> SUBSET AttrBits]
  BY DEF NoBits
<1>4. ASSUME NEW mask \in [AttrWords -> SUBSET AttrBits], NEW regions
      PROVE  /\ SetRegionBits(mask, regions) \in [AttrWords -> SUBSET AttrBits]
             /\ ClearRegionBits(mask, regions) \in [AttrWords -> SUBSET AttrBits]
  BY <1>2 DEF SetRegionBits, ClearRegionBits
<1>5. BuildFullNsAttrMask \in [AttrWords -> SUBSET AttrBits]
  BY <1>3, <1>4 DEF BuildFullNsAttrMask
<1>6. BuildPcMasks \in [MaskWords -> SUBSET MaskSlots]
  BY DEF BuildPcMasks
<1>7. /\ DivCeil(PPC_REGION_COUNT, REGIONS_PER_ATTR_REG) \in Int
      /\ DivCeil(PPC_REGION_COUNT, REGIONS_PER_PC_MASK_REG) \in Int
  BY PpcAssumption DEF DivCeil
<1>8. (\E n \in Int : AttrWords = 0 .. n) /\ (\E n \in Int : MaskWords = 0 .. n)
  BY <1>7 DEF AttrWords, MaskWords
<1>. QED BY <1>3, <1>4, <1>5, <1>6, <1>8 DEF BuildNsAttrs, BuildNsPAttrs

LEMMA NvicKeepsTables ==
    ASSUME board \in Boards, TablesInv, ConfigureNvic
    PROVE  TablesInv'
<1>1. /\ phase = "nvic" /\ UNCHANGED <<board, spm, sau>> /\ cursor \in Nat
      /\ cursor <= NvicRounds /\ regs.itns = NvicAfter(cursor)
  BY DEF ConfigureNvic, TablesInv, RegsType, NvicInv
<1>2. LastNsIrq[board] \div WordBits \in Nat /\ NvicWords[board] \in Nat
  BY TableTypes
<1>3. NvicRounds' = NvicRounds /\ NvicRounds \in Nat
  BY <1>1, <1>2 DEF NvicRounds
<1>4. CASE cursor <= LastNsIrq[board] \div WordBits
  <2>1. regs' = [regs EXCEPT !.itns[cursor] = @ \cup NonSecureIrqs(board, cursor)] /\ Round
    BY <1>4 DEF ConfigureNvic
  <2>2. NonSecureIrqs(board, cursor) \subseteq Bits
    BY DEF NonSecureIrqs
  <2>3. regs'.itns = [regs.itns EXCEPT ![cursor] = @ \cup NonSecureIrqs(board, cursor)]
    BY <2>1 DEF TablesInv, RegsType
  <2>4. /\ RegsType'
        /\ regs'.nsAttrs = regs.nsAttrs /\ regs'.nsPAttrs = regs.nsPAttrs
        /\ regs'.pcMasks = regs.pcMasks /\ regs'.locked = regs.locked
        /\ regs'.nscCode = regs.nscCode /\ regs'.apbNs = regs.apbNs
    <3>1. regs'.itns \in [0 .. NvicWords[board] - 1 -> SUBSET Bits]
      BY <2>2, <2>3 DEF TablesInv, RegsType
    <3>2. cursor' \in Nat
      BY <1>1, <2>1 DEF Round
    <3>. QED BY <1>1, <2>1, <3>1, <3>2 DEF TablesInv, RegsType
  <2>5. regs'.itns = [w \in 0 .. NvicWords[board] - 1 |->
                        IF w < cursor + 1 THEN NonSecureIrqs(board, w) ELSE {}]
    <3> DEFINE X == NonSecureIrqs(board, cursor)
               F == [w \in 0 .. NvicWords[board] - 1 |->
                        IF w < cursor + 1 THEN NonSecureIrqs(board, w) ELSE {}]
    <3>1. regs.itns = [w \in 0 .. NvicWords[board] - 1 |->
                          IF w < cursor THEN NonSecureIrqs(board, w) ELSE {}]
      BY <1>1 DEF NvicAfter
    <3>2. ASSUME NEW w \in 0 .. NvicWords[board] - 1
          PROVE  [regs.itns EXCEPT ![cursor] = @ \cup X][w] = F[w]
      <4>1. CASE w = cursor
        <5>1. regs.itns[w] = {} /\ {} \cup X = X
          BY <1>1, <3>1, <4>1
        <5>2. [regs.itns EXCEPT ![cursor] = @ \cup X][w] = X
          <6> HIDE DEF X
          <6>. QED BY <3>1, <4>1, <5>1
        <5>3. F[w] = NonSecureIrqs(board, w)
          BY <1>1, <4>1
        <5>. QED BY <4>1, <5>2, <5>3
      <4>2. CASE w # cursor
        <5>1. (w < cursor + 1) <=> (w < cursor)
          BY <1>1, <1>2, <4>2
        <5>. QED BY <3>1, <4>2, <5>1
      <4>. QED BY <4>1, <4>2
    <3>. QED BY <2>3, <3>1, <3>2
  <2>6. phase' = "nvic" /\ cursor' = cursor + 1 /\ cursor' <= NvicRounds'
    BY <1>1, <1>2, <1>3, <1>4, <2>1 DEF Round, NvicRounds
  <2>7. NvicInv'
    BY <1>1, <2>5, <2>6 DEF NvicInv, NvicAfter, AfterNvic, Late, AfterSpm
  <2>8. \A own : own # "nvic" => Aside(own)
    BY <1>1, <2>1, RoundsAside
  <2>. QED BY <1>1, <2>4, <2>7, <2>8, AsideKeeps DEF TablesInv
<1>5. CASE ~(cursor <= LastNsIrq[board] \div WordBits)
  <2>1. regs' = [regs EXCEPT !.enabled = DOMAIN regs.itns] /\ Advance
    BY <1>5 DEF ConfigureNvic
  <2>2. DOMAIN regs.itns \subseteq Int
    BY <1>2 DEF TablesInv, RegsType
  <2>3. /\ RegsType' /\ regs'.itns = regs.itns
        /\ regs'.nsAttrs = regs.nsAttrs /\ regs'.nsPAttrs = regs.nsPAttrs
        /\ regs'.pcMasks = regs.pcMasks /\ regs'.locked = regs.locked
        /\ regs'.nscCode = regs.nscCode /\ regs'.apbNs = regs.apbNs
    BY <1>1, <2>1, <2>2 DEF TablesInv, RegsType, Advance
  <2>4. TableOrder
    BY <1>1, <2>1, TablesInOrder
  <2>5. phase' \in AfterNvic /\ phase' # "nvic"
    BY <1>1, <2>4 DEF TableOrder, AfterNvic, Late, AfterSpm
  <2>6. cursor = NvicRounds
    BY <1>1, <1>2, <1>5 DEF NvicRounds
  <2>7. NvicAfter(NvicRounds)' = NvicAfter(NvicRounds)
    BY <1>1, <1>3 DEF NvicAfter
  <2>8. NvicInv'
    BY <1>1, <2>3, <2>5, <2>6, <2>7 DEF NvicInv
  <2>9. \A own : own # "nvic" => Aside(own)
    BY <1>1, <2>1, RoundsAside
  <2>. QED BY <1>1, <2>3, <2>8, <2>9, AsideKeeps DEF TablesInv
<1>. QED BY <1>4, <1>5

LEMMA NsAttrsKeepTables ==
    ASSUME board \in Boards, TablesInv, ConfigureNsAttrs
    PROVE  TablesInv'
<1>1. /\ phase = "nsAttrs" /\ UNCHANGED <<board, spm, sau>> /\ cursor \in Nat
  BY DEF ConfigureNsAttrs, TablesInv, RegsType
<1>2. CASE cursor \in AttrWords
  <2>1. /\ regs' = [regs EXCEPT !.nsAttrs[cursor] = BuildNsAttrs[cursor], !.busError = TRUE] /\ Round
    BY <1>2 DEF ConfigureNsAttrs
  <2>2. BuildNsAttrs[cursor] \in SUBSET AttrBits
    BY <1>2, BuildTypes
  <2>3. regs'.nsAttrs = [regs.nsAttrs EXCEPT ![cursor] = BuildNsAttrs[cursor]]
    BY <2>1 DEF TablesInv, RegsType
  <2>4. /\ RegsType'
        /\ regs'.itns = regs.itns /\ regs'.nsPAttrs = regs.nsPAttrs /\ regs'.pcMasks = regs.pcMasks
        /\ regs'.locked = regs.locked /\ regs'.nscCode = regs.nscCode /\ regs'.apbNs = regs.apbNs
    <3>1. regs'.nsAttrs \in [AttrWords -> SUBSET AttrBits]
      BY <2>2, <2>3 DEF TablesInv, RegsType
    <3>2. cursor' \in Nat
      BY <1>1, <2>1 DEF Round
    <3>. QED BY <1>1, <2>1, <3>1, <3>2 DEF TablesInv, RegsType
  <2>5. NsAttrsInv'
    <3>1. phase' = "nsAttrs" /\ cursor' = cursor + 1 /\ AttrWords \subseteq Int
      BY <1>1, <2>1 DEF Round, AttrWords
    <3>2. \A w \in AttrWords : w < cursor' => w < cursor \/ w = cursor
      BY <1>1, <3>1
    <3>3. regs.nsAttrs \in [AttrWords -> SUBSET AttrBits]
      BY DEF TablesInv, RegsType
    <3>. QED BY <1>1, <2>3, <3>1, <3>2, <3>3 DEF TablesInv, NsAttrsInv, Late, AfterSpm
  <2>6. \A own : own # "nsAttrs" => Aside(own)
    BY <1>1, <2>1, RoundsAside
  <2>. QED BY <1>1, <2>4, <2>5, <2>6, AsideKeeps DEF TablesInv
<1>3. CASE cursor \notin AttrWords
  <2>1. Advance /\ regs' = regs
    BY <1>3 DEF ConfigureNsAttrs
  <2>2. RegsType' /\ TableOrder
    BY <1>1, <2>1, TablesInOrder DEF Advance, TablesInv, RegsType
  <2>3. \A w \in AttrWords : w < cursor
    BY <1>1, <1>3, BuildTypes
  <2>4. NsAttrsInv'
    BY <1>1, <2>1, <2>3 DEF TablesInv, NsAttrsInv, Advance
  <2>5. \A own : own # "nsAttrs" => Aside(own)
    BY <1>1, <2>1, RoundsAside
  <2>. QED BY <1>1, <2>1, <2>2, <2>4, <2>5, AsideKeeps DEF TablesInv
<1>. QED BY <1>2, <1>3

LEMMA NsPAttrsKeepTables ==
    ASSUME board \in Boards, TablesInv, ConfigureNsPAttrs
    PROVE  TablesInv'
<1>1. /\ phase = "nsPAttrs" /\ UNCHANGED <<board, spm, sau>> /\ cursor \in Nat
  BY DEF ConfigureNsPAttrs, TablesInv, RegsType
<1>2. CASE cursor \in AttrWords
  <2>1. /\ regs' = [regs EXCEPT !.nsPAttrs[cursor] = BuildNsPAttrs[cursor]] /\ Round
    BY <1>2 DEF ConfigureNsPAttrs
  <2>2. BuildNsPAttrs[cursor] \in SUBSET AttrBits
    BY <1>2, BuildTypes
  <2>3. regs'.nsPAttrs = [regs.nsPAttrs EXCEPT ![cursor] = BuildNsPAttrs[cursor]]
    BY <2>1 DEF TablesInv, RegsType
  <2>4. /\ RegsType'
        /\ regs'.itns = regs.itns /\ regs'.nsAttrs = regs.nsAttrs /\ regs'.pcMasks = regs.pcMasks
        /\ regs'.locked = regs.locked /\ regs'.nscCode = regs.nscCode /\ regs'.apbNs = regs.apbNs
    <3>1. regs'.nsPAttrs \in [AttrWords -> SUBSET AttrBits]
      BY <2>2, <2>3 DEF TablesInv, RegsType
    <3>2. cursor' \in Nat
      BY <1>1, <2>1 DEF Round
    <3>. QED BY <1>1, <2>1, <3>1, <3>2 DEF TablesInv, RegsType
  <2>5. NsPAttrsInv'
    <3>1. phase' = "nsPAttrs" /\ cursor' = cursor + 1 /\ AttrWords \subseteq Int
      BY <1>1, <2>1 DEF Round, AttrWords
    <3>2. \A w \in AttrWords : w < cursor' => w < cursor \/ w = cursor
      BY <1>1, <3>1
    <3>3. regs.nsPAttrs \in [AttrWords -> SUBSET AttrBits]
      BY DEF TablesInv, RegsType
    <3>. QED BY <1>1, <2>3, <3>1, <3>2, <3>3 DEF TablesInv, NsPAttrsInv, Late, AfterSpm
  <2>6. \A own : own # "nsPAttrs" => Aside(own)
    BY <1>1, <2>1, RoundsAside
  <2>. QED BY <1>1, <2>4, <2>5, <2>6, AsideKeeps DEF TablesInv
<1>3. CASE cursor \notin AttrWords
  <2>1. Advance /\ regs' = regs
    BY <1>3 DEF ConfigureNsPAttrs
  <2>2. RegsType' /\ TableOrder
    BY <1>1, <2>1, TablesInOrder DEF Advance, TablesInv, RegsType
  <2>3. \A w \in AttrWords : w < cursor
    BY <1>1, <1>3, BuildTypes
  <2>4. NsPAttrsInv'
    BY <1>1, <2>1, <2>3 DEF TablesInv, NsPAttrsInv, Advance
  <2>5. \A own : own # "nsPAttrs" => Aside(own)
    BY <1>1, <2>1, RoundsAside
  <2>. QED BY <1>1, <2>1, <2>2, <2>4, <2>5, AsideKeeps DEF TablesInv
<1>. QED BY <1>2, <1>3

LEMMA PcMasksKeepTables ==
    ASSUME board \in Boards, TablesInv, ConfigurePcMasks
    PROVE  TablesInv'
<1>1. /\ phase = "pcMasks" /\ UNCHANGED <<board, spm, sau>> /\ cursor \in Nat
  BY DEF ConfigurePcMasks, TablesInv, RegsType
<1>2. CASE cursor \in MaskWords
  <2>1. /\ regs' = [regs EXCEPT !.pcMasks[cursor] = BuildPcMasks[cursor]] /\ Round
    BY <1>2 DEF ConfigurePcMasks
  <2>2. BuildPcMasks[cursor] \in SUBSET MaskSlots
    BY <1>2, BuildTypes
  <2>3. regs'.pcMasks = [regs.pcMasks EXCEPT ![cursor] = BuildPcMasks[cursor]]
    BY <2>1 DEF TablesInv, RegsType
  <2>4. /\ RegsType'
        /\ regs'.itns = regs.itns /\ regs'.nsAttrs = regs.nsAttrs /\ regs'.nsPAttrs = regs.nsPAttrs
        /\ regs'.locked = regs.locked /\ regs'.nscCode = regs.nscCode /\ regs'.apbNs = regs.apbNs
    <3>1. regs'.pcMasks \in [MaskWords -> SUBSET MaskSlots]
      BY <2>2, <2>3 DEF TablesInv, RegsType
    <3>2. cursor' \in Nat
      BY <1>1, <2>1 DEF Round
    <3>. QED BY <1>1, <2>1, <3>1, <3>2 DEF TablesInv, RegsType
  <2>5. PcMasksInv'
    <3>1. phase' = "pcMasks" /\ cursor' = cursor + 1 /\ MaskWords \subseteq Int
      BY <1>1, <2>1 DEF Round, MaskWords
    <3>2. \A w \in MaskWords : w < cursor' => w < cursor \/ w = cursor
      BY <1>1, <3>1
    <3>3. regs.pcMasks \in [MaskWords -> SUBSET MaskSlots]
      BY DEF TablesInv, RegsType
    <3>. QED BY <1>1, <2>3, <3>1, <3>2, <3>3 DEF TablesInv, PcMasksInv, Late, AfterSpm
  <2>6. \A own : own # "pcMasks" => Aside(own)
    BY <1>1, <2>1, RoundsAside
  <2>. QED BY <1>1, <2>4, <2>5, <2>6, AsideKeeps DEF TablesInv
<1>3. CASE cursor \notin MaskWords
  <2>1. Advance /\ regs' = regs
    BY <1>3 DEF ConfigurePcMasks
  <2>2. RegsType' /\ TableOrder
    BY <1>1, <2>1, TablesInOrder DEF Advance, TablesInv, RegsType
  <2>3. \A w \in MaskWords : w < cursor
    BY <1>1, <1>3, BuildTypes
  <2>4. PcMasksInv'
    BY <1>1, <2>1, <2>3 DEF TablesInv, PcMasksInv, Advance
  <2>5. \A own : own # "pcMasks" => Aside(own)
    BY <1>1, <2>1, RoundsAside
  <2>. QED BY <1>1, <2>1, <2>2, <2>4, <2>5, AsideKeeps DEF TablesInv
<1>. QED BY <1>2, <1>3

\* The phases of a single write.
LEMMA WritesKeepTables ==
    ASSUME board \in Boards, TablesInv,
           LockProtectionContexts \/ EnableIdauNscCode \/ EnableUart1Ns \/ SetSpm
    PROVE  TablesInv'
<1> USE DEF TablesInv
<1>1. /\ UNCHANGED <<board, sau>> /\ phase # "ns" /\ Advance
      /\ cursor' = 0 /\ cursor' \in Nat
  BY DEF LockProtectionContexts, EnableIdauNscCode, EnableUart1Ns, SetSpm, Advance
<1>2. TableOrder /\ \A own : own # phase => Aside(own)
  BY <1>1, TablesInOrder, RoundsAside
<1>3. CASE LockProtectionContexts
  <2>1. phase = "lock" /\ spm' = spm /\ regs' = [regs EXCEPT !.locked = TRUE]
    BY <1>3 DEF LockProtectionContexts
  <2>2. /\ RegsType' /\ regs'.itns = regs.itns
        /\ regs'.nsAttrs = regs.nsAttrs /\ regs'.nsPAttrs = regs.nsPAttrs
        /\ regs'.pcMasks = regs.pcMasks /\ regs'.locked
        /\ regs'.nscCode = regs.nscCode /\ regs'.apbNs = regs.apbNs
    BY <1>1, <2>1 DEF RegsType
  <2>3. LockInv'
    BY <2>2 DEF LockInv
  <2>. QED BY <1>1, <1>2, <2>1, <2>2, <2>3, AsideKeeps
<1>4. CASE EnableIdauNscCode
  <2>1. phase = "nscCode" /\ spm' = spm /\ regs' = [regs EXCEPT !.nscCode = TRUE]
    BY <1>4 DEF EnableIdauNscCode
  <2>2. /\ RegsType' /\ regs'.itns = regs.itns
        /\ regs'.nsAttrs = regs.nsAttrs /\ regs'.nsPAttrs = regs.nsPAttrs
        /\ regs'.pcMasks = regs.pcMasks /\ regs'.locked = regs.locked
        /\ regs'.nscCode /\ regs'.apbNs = regs.apbNs
    BY <1>1, <2>1 DEF RegsType
  <2>3. NscCodeInv'
    BY <2>2 DEF NscCodeInv
  <2>. QED BY <1>1, <1>2, <2>1, <2>2, <2>3, AsideKeeps
<1>5. CASE EnableUart1Ns
  <2>1. phase = "uart1" /\ spm' = spm /\ regs' = [regs EXCEPT !.apbNs = @ \cup {"uart1"}]
    BY <1>5 DEF EnableUart1Ns
  <2>2. /\ RegsType' /\ regs'.itns = regs.itns
        /\ regs'.nsAttrs = regs.nsAttrs /\ regs'.nsPAttrs = regs.nsPAttrs
        /\ regs'.pcMasks = regs.pcMasks /\ regs'.locked = regs.locked
        /\ regs'.nscCode = regs.nscCode /\ "uart1" \in regs'.apbNs
    BY <1>1, <2>1 DEF RegsType
  <2>3. Uart1Inv'
    BY <2>2 DEF Uart1Inv
  <2>. QED BY <1>1, <1>2, <2>1, <2>2, <2>3, AsideKeeps
<1>6. CASE SetSpm
  <2>1. phase = "spm" /\ spm' = "Initialized" /\ regs' = regs
    BY <1>6 DEF SetSpm
  <2>2. RegsType'
    BY <1>1, <2>1 DEF RegsType
  <2>3. SpmInv'
    BY <2>1 DEF SpmInv
  <2>. QED BY <1>1, <1>2, <2>1, <2>2, <2>3, AsideKeeps
<1>. QED BY <1>3, <1>4, <1>5, <1>6

\* The next region: behind those that are there, if it is enabled.
LEMMA SauGrows ==
    ASSUME board \in Boards, NEW n \in Nat, n + 1 <= Len(SauRegions[board]),
           sau \in Seq([base : Nat, limit : Nat, attribute : Attributes]),
           NEW f \in [DOMAIN sau -> 1 .. n], SauFrom(f, n),
           SauAligned(SauRegions[board][n + 1]), board' = board,
           sau' = WithRegion(sau, SauRegions[board][n + 1])
    PROVE  /\ sau' \in Seq([base : Nat, limit : Nat, attribute : Attributes])
           /\ \E g \in [DOMAIN sau' -> 1 .. n + 1] : SauFrom(g, n + 1)'
<1> DEFINE r == SauRegions[board][n + 1]
           E == [base : Nat, limit : Nat, attribute : Attributes]
           m == Len(sau)
<1>1. n + 1 \in DOMAIN SauRegions[board] /\ r \in E
  <2>1. SauRegions[board] \in Seq(E)
    BY TableTypes
  <2>2. n + 1 \in 1 .. Len(SauRegions[board])
    BY TableTypes
  <2>3. ASSUME NEW S, NEW s \in Seq(S), NEW k \in 1 .. Len(s) PROVE k \in DOMAIN s /\ s[k] \in S
    OBVIOUS
  <2> HIDE DEF E
  <2>. QED BY <2>1, <2>2, <2>3
<1>2. n + 1 \in Enabled(board) <=> r.attribute # "Secure"
  BY <1>1 DEF Enabled
<1>3. Enabled(board) \cap (1 .. n + 1) =
        IF r.attribute # "Secure" THEN (Enabled(board) \cap (1 .. n)) \cup {n + 1}
        ELSE Enabled(board) \cap (1 .. n)
  <2>1. 1 .. n + 1 = (1 .. n) \cup {n + 1}
    OBVIOUS
  <2>. QED BY <1>2, <2>1
<1>4. m \in Nat /\ DOMAIN sau = 1 .. m
  <2>1. ASSUME NEW S, NEW s \in Seq(S) PROVE Len(s) \in Nat /\ DOMAIN s = 1 .. Len(s)
    OBVIOUS
  <2>. QED BY <2>1
<1>5. CASE r.attribute = "Secure"
  <2>1. sau' = sau
    BY <1>5 DEF WithRegion
  <2>2. f \in [DOMAIN sau' -> 1 .. n + 1]
    BY <2>1
  <2>3. SauFrom(f, n + 1)'
    BY <1>3, <1>5, <2>1 DEF SauFrom
  <2>. QED BY <2>1, <2>2, <2>3
<1>6. CASE r.attribute # "Secure"
  <2>0. PICK g : g = [i \in 1 .. m + 1 |-> IF i = m + 1 THEN n + 1 ELSE f[i]]
    OBVIOUS
  <2>1. sau' = Append(sau, r)
    BY <1>6 DEF WithRegion
  <2>2. /\ sau' \in Seq(E) /\ DOMAIN sau' = 1 .. m + 1
        /\ \A i \in 1 .. m : sau'[i] = sau[i]
        /\ sau'[m + 1] = r
    <3>1. ASSUME NEW S, NEW s \in Seq(S), NEW e \in S
          PROVE  /\ Append(s, e) \in Seq(S) /\ DOMAIN Append(s, e) = 1 .. Len(s) + 1
                 /\ \A i \in 1 .. Len(s) : Append(s, e)[i] = s[i]
                 /\ Append(s, e)[Len(s) + 1] = e
      OBVIOUS
    <3> HIDE DEF E, r
    <3>2. sau \in Seq(E)
      BY DEF E
    <3>. QED BY <1>1, <2>1, <3>1, <3>2
  <2>3. \A i \in 1 .. m : /\ f[i] \in Enabled(board) \cap (1 .. n) /\ f[i] # n + 1
                          /\ sau[i] = SauRegions[board][f[i]] /\ SauAligned(sau[i])
    <3>1. /\ f \in [DOMAIN sau -> Enabled(board) \cap (1 .. n)]
          /\ \A i \in DOMAIN sau : sau[i] = SauRegions[board][f[i]] /\ SauAligned(sau[i])
      BY DEF SauFrom
    <3>2. \A l \in 1 .. n : l # n + 1
      OBVIOUS
    <3> HIDE DEF m
    <3>3. \A i \in 1 .. m : f[i] \in Enabled(board) \cap (1 .. n)
      BY <1>4, <3>1
    <3>. QED BY <1>4, <3>1, <3>2, <3>3
  <2>4. ~(m + 1 \in 1 .. m) /\ (\A i \in 1 .. m + 1 : i = m + 1 \/ i \in 1 .. m)
        /\ \A i \in 1 .. m : i \in 1 .. m + 1 /\ i # m + 1
    <3> HIDE DEF m
    <3>. QED BY <1>4
  <2>5. g \in [DOMAIN sau' -> Enabled(board) \cap (1 .. n + 1)]
    BY <1>3, <1>6, <2>0, <2>2, <2>3, <2>4
  <2>6. \A i \in DOMAIN sau' : sau'[i] = SauRegions[board][g[i]] /\ SauAligned(sau'[i])
    BY <2>0, <2>2, <2>3, <2>4
  <2>7. \A i, j \in DOMAIN sau' : g[i] = g[j] => i = j
    <3>1. \A i, j \in 1 .. m : f[i] = f[j] => i = j
      BY <1>4 DEF SauFrom
    <3>. QED BY <2>0, <2>2, <2>3, <2>4, <3>1
  <2>8. \A k \in Enabled(board) \cap (1 .. n + 1) : \E i \in DOMAIN sau' : g[i] = k
    <3> TAKE k \in Enabled(board) \cap (1 .. n + 1)
    <3>1. CASE k = n + 1
      <4>1. m + 1 \in DOMAIN sau' /\ g[m + 1] = n + 1
        BY <1>4, <2>0, <2>2
      <4>. QED BY <3>1, <4>1
    <3>2. CASE k # n + 1
      <4>1. k \in Enabled(board) \cap (1 .. n)
        BY <1>3, <3>2
      <4>2. PICK i \in 1 .. m : f[i] = k
        BY <1>4, <4>1 DEF SauFrom
      <4>3. i \in DOMAIN sau' /\ g[i] = f[i]
        BY <2>0, <2>2, <2>4
      <4>. QED BY <4>2, <4>3
    <3>. QED BY <3>1, <3>2
  <2>9. SauFrom(g, n + 1)'
    <3>1. Enabled(board)' = Enabled(board)
      BY DEF Enabled
    <3>2. board' = board
      OBVIOUS
    <3>. QED BY ONLY <2>5, <2>6, <2>7, <2>8, <3>1, <3>2 DEF SauFrom
  <2>10. g \in [DOMAIN sau' -> 1 .. n + 1]
    BY <2>5
  <2>. QED BY <2>2, <2>9, <2>10, Zenon
<1>. QED BY <1>5, <1>6

LEMMA SetRegionKeepsTables ==
    ASSUME board \in Boards, TablesInv, SetRegion
    PROVE  TablesInv'
<1>1. /\ phase = "sau" /\ UNCHANGED <<board, spm, regs>> /\ cursor \in Nat
      /\ cursor <= Len(SauRegions[board]) /\ (Round \/ Advance \/ Halt)
      /\ sau \in Seq([base : Nat, limit : Nat, attribute : Attributes])
  BY DEF SetRegion, TablesInv, RegsType, SauInv
<1>2. PICK f \in [DOMAIN sau -> 1 .. cursor] : SauFrom(f, cursor)
  BY <1>1 DEF TablesInv, SauInv
<1>3. Len(SauRegions[board]) \in Nat /\ cursor \in Nat /\ cursor <= Len(SauRegions[board])
  BY <1>1, TableTypes
<1>4. RegsType' /\ \A own : own # "sau" => Aside(own)
  BY <1>1, RoundsAside DEF TablesInv, RegsType, Round, Advance, Halt
<1>5. SauInv'
  <2>1. CASE cursor = Len(SauRegions[board])
    <3>1. Advance /\ sau' = sau
      BY <2>1 DEF SetRegion
    <3>2. TableOrder
      BY <1>1, <3>1, TablesInOrder
    <3>3. phase' # "sau" /\ ~SauPending'
      BY <1>1, <3>2 DEF TableOrder, SauPending
    <3>4. SauFrom(f, Len(SauRegions[board]))'
      BY <1>1, <1>2, <2>1, <3>1 DEF SauFrom
    <3>. QED BY <1>1, <1>2, <2>1, <3>1, <3>3, <3>4 DEF SauInv
  <2>2. CASE cursor # Len(SauRegions[board]) /\ cursor < SauCount
             /\ SauAligned(SauRegions[board][cursor + 1])
    <3>1. sau' = WithRegion(sau, SauRegions[board][cursor + 1]) /\ Round
      BY <2>2 DEF SetRegion
    <3>2. cursor + 1 <= Len(SauRegions[board])
      BY <1>3, <2>2
    <3>0. PICK n \in Nat : n = cursor
      BY <1>3
    <3>3. /\ sau' \in Seq([base : Nat, limit : Nat, attribute : Attributes])
          /\ \E g \in [DOMAIN sau' -> 1 .. n + 1] : SauFrom(g, n + 1)'
      <4>1. /\ board' = board /\ SauAligned(SauRegions[board][n + 1])
            /\ sau \in Seq([base : Nat, limit : Nat, attribute : Attributes])
            /\ sau' = WithRegion(sau, SauRegions[board][n + 1]) /\ n + 1 <= Len(SauRegions[board])
            /\ f \in [DOMAIN sau -> 1 .. n] /\ SauFrom(f, n)
        BY <1>1, <1>2, <2>2, <3>0, <3>1, <3>2
      <4>. QED BY <4>1, SauGrows
    <3>4. phase' = "sau" /\ cursor' = cursor + 1
      BY <1>1, <3>1 DEF Round
    <3>5. \E g \in [DOMAIN sau' -> 1 .. cursor'] : SauFrom(g, cursor)'
      BY <3>0, <3>3, <3>4 DEF SauFrom
    <3>6. ~SauDone' /\ ~SauPending'
      BY <3>4 DEF SauDone, SauPending, AfterSpm
    <3>. QED BY <1>1, <3>2, <3>3, <3>4, <3>5, <3>6 DEF SauInv
  <2>3. CASE cursor # Len(SauRegions[board])
             /\ ~(cursor < SauCount /\ SauAligned(SauRegions[board][cursor + 1]))
    <3>1. Halt /\ sau' = sau
      BY <2>3 DEF SetRegion
    <3>2. Aside("sau")
      BY <3>1 DEF Aside, Halt, Stopped
    <3>. QED BY <1>1, <3>1, <3>2, AsideKeeps
  <2>. QED BY <2>1, <2>2, <2>3
<1>. QED BY <1>1, <1>4, <1>5, AsideKeeps DEF TablesInv

LEMMA ResetTables ==
    ASSUME board \in Boards, board' = board, phase' = "bss", cursor' = 0, sau' = <<>>,
           NEW attr \in ResetAttrs(board), regs' = ResetRegs(board, attr)
    PROVE  TablesInv'
<1>1. attr \subseteq AttrBits /\ {} \subseteq Bits
  BY DEF ResetAttrs
<1>2. RegsType'
  BY <1>1 DEF RegsType, ResetRegs
<1>3. NvicInv'
  <2>1. NvicAfter(0)' = [w \in 0 .. NvicWords[board] - 1 |-> {}]
    <3>1. \A w \in 0 .. NvicWords[board] - 1 : ~(w < 0)
      BY TableTypes
    <3>. QED BY <3>1 DEF NvicAfter
  <2>. QED BY <2>1 DEF NvicInv, ResetRegs, AfterNvic, Late, AfterSpm
<1>4. SauInv'
  BY DEF SauInv, SauDone, AfterSpm
<1>. QED BY <1>2, <1>3, <1>4
     DEF TablesInv, NsAttrsInv, NsPAttrsInv, PcMasksInv, LockInv, NscCodeInv, Uart1Inv, SpmInv,
         Late, AfterSpm

\* A step of a process leaves all of boot as it is but the flag.
ClientStep == \E p \in Procs :
    \/ \E line \in Lines : ReadLine(p, line)
    \/ ConsoleFails(p)
    \/ Reserve(p) \/ ReserveFails(p) \/ Upcall(p)
    \/ Step(p)

LEMMA ClientsLeaveBoot == ClientStep \/ UNCHANGED vars => BootDone
<1>1. ASSUME NEW p \in Procs, Step(p) PROVE BootDone
  BY <1>1 DEF Step, Exists, Sleep, SleepFails, BuildInVec, BuildOutVec, EnterVeneer, Connect,
              ConnectFails, Serve, ExitVeneer, Release, BootDone, bootVars
<1>2. ASSUME NEW p \in Procs, NEW line \in Lines, ReadLine(p, line) PROVE BootDone
  BY <1>2 DEF ReadLine, BootDone, bootVars
<1>3. ASSUME NEW p \in Procs, ConsoleFails(p) \/ Reserve(p) \/ ReserveFails(p) \/ Upcall(p)
      PROVE  BootDone
  BY <1>3 DEF ConsoleFails, Reserve, ReserveFails, Upcall, BootDone, bootVars
<1>4. UNCHANGED vars => BootDone
  BY DEF vars, bootVars, BootDone
<1>. QED BY <1>1, <1>2, <1>3, <1>4 DEF ClientStep

LEMMA NextParts == [Next]_vars <=> Boots \/ StartKernel \/ ResetAll \/ ClientStep \/ UNCHANGED vars
BY DEF Next, ClientStep

LEMMA TablesStep ==
    ASSUME board \in Boards, TablesInv, [Next]_vars
    PROVE  TablesInv'
<1>1. CASE Boots
  <2>1. \/ ConfigureNvic \/ ConfigureNsAttrs \/ ConfigureNsPAttrs \/ ConfigurePcMasks
        \/ LockProtectionContexts \/ SetRegion \/ SetSpm \/ EnableIdauNscCode \/ EnableUart1Ns
        \/ Plain
    BY <1>1, BootWritesTables DEF Boots
  <2>. QED BY <2>1, NvicKeepsTables, NsAttrsKeepTables, NsPAttrsKeepTables, PcMasksKeepTables,
              WritesKeepTables, SetRegionKeepsTables, PlainKeepsTables
<1>2. CASE StartKernel
  <2>1. /\ phase \in {"kernel", "capsules"} /\ UNCHANGED <<board, sau, regs, spm>>
        /\ Advance \/ (phase' = "failed" /\ cursor' = cursor)
    BY <1>2 DEF StartKernel, StartKernelPsc3, StartCapsulesPsc3, StartFailsPsc3,
                StartKernelMusca, KernelOnly
  <2>2. \A own \in TablePhases : Aside(own)
    <3>1. CASE Advance
      <4>1. TableOrder /\ cursor' = 0
        BY <2>1, <3>1, TablesInOrder DEF Advance
      <4>. QED BY <2>1, <4>1 DEF Aside, TablePhases
    <3>2. CASE phase' = "failed"
      BY <3>2 DEF Aside, Stopped
    <3>. QED BY <2>1, <3>1, <3>2
  <2>3. Plain
    BY <2>1, <2>2 DEF Plain, Advance
  <2>. QED BY <2>3, PlainKeepsTables
<1>3. CASE ResetAll
  BY <1>3, ResetTables DEF ResetAll, Reset
<1>4. CASE ClientStep \/ UNCHANGED vars
  <2>1. UNCHANGED <<board, phase, cursor, regs, sau, spm>>
    BY <1>4, ClientsLeaveBoot DEF BootDone
  <2>2. Plain
    BY <2>1 DEF Plain, Aside
  <2>. QED BY <2>2, PlainKeepsTables
<1>. QED BY <1>1, <1>2, <1>3, <1>4, NextParts

LEMMA TablesAtPowerOn == Init => TablesInv
<1> SUFFICES ASSUME Init PROVE TablesInv
  OBVIOUS
<1>1. /\ board \in Boards /\ phase = "bss" /\ cursor = 0 /\ sau = <<>>
      /\ \E attr \in ResetAttrs(board) : regs = ResetRegs(board, attr)
  BY DEF Init, BootInit
<1>2. PICK attr \in ResetAttrs(board) : regs = ResetRegs(board, attr)
  BY <1>1
<1>3. attr \subseteq AttrBits
  BY <1>2 DEF ResetAttrs
<1>4. RegsType
  BY <1>1, <1>2, <1>3 DEF RegsType, ResetRegs
<1>5. NvicInv
  <2>1. NvicAfter(0) = [w \in 0 .. NvicWords[board] - 1 |-> {}]
    <3>1. \A w \in 0 .. NvicWords[board] - 1 : ~(w < 0)
      BY <1>1, TableTypes
    <3>. QED BY <3>1 DEF NvicAfter
  <2>. QED BY <1>1, <1>2, <2>1 DEF NvicInv, ResetRegs, AfterNvic, Late, AfterSpm
<1>6. SauInv
  BY <1>1 DEF SauInv, SauDone, AfterSpm
<1>. QED BY <1>1, <1>4, <1>5, <1>6
     DEF TablesInv, NsAttrsInv, NsPAttrsInv, PcMasksInv, LockInv, NscCodeInv, Uart1Inv, SpmInv,
         Late, AfterSpm

\* At every moment each table holds what boot has written so far, whatever
\* was in it before, and behind its phase all of it (nvic.rs:139, ppc.rs,
\* sau.rs:91).
THEOREM TablesInvariance == Spec => []TablesInv
<1>1. Init => TablesInv
  BY TablesAtPowerOn
<1>2. IInv /\ TablesInv /\ [Next]_vars => TablesInv'
  BY TablesStep DEF IInv, Types
<1>. QED BY <1>1, <1>2, Invariance, PTL DEF Spec

------------------------------------------------------------------------------
(* What the tables say once the image runs.                                *)

\* The word and the bit of a region are its own.
LEMMA RegionOfBit ==
    ASSUME NEW q \in Nat, NEW r \in Nat, NEW d \in Nat \ {0}, q \div d = r \div d, q % d = r % d
    PROVE  q = r
<1>1. PICK a \in Nat, b \in 0 .. d - 1 : q = a * d + b /\ q \div d = a /\ q % d = b
  BY DivMod
<1>2. PICK a2 \in Nat, b2 \in 0 .. d - 1 : r = a2 * d + b2 /\ r \div d = a2 /\ r % d = b2
  BY DivMod
<1>. QED BY <1>1, <1>2

LEMMA BitOfRegion ==
    ASSUME NEW r \in PpcRegion, NEW regions
    PROVE  /\ r \div REGIONS_PER_ATTR_REG \in AttrWords
           /\ r % REGIONS_PER_ATTR_REG \in RegionBits(regions)[r \div REGIONS_PER_ATTR_REG]
                <=> r \in regions
<1> DEFINE R == REGIONS_PER_ATTR_REG
           w == r \div R
<1>1. /\ R \in Nat \ {0} /\ PPC_REGION_COUNT \in Nat /\ r \in Nat /\ r < PPC_REGION_COUNT
      /\ PpcRegion \subseteq Nat
  BY PpcAssumption DEF PpcRegion
<1>2. w \in AttrWords
  <2>1. PICK q \in Nat, s \in 0 .. R - 1 : r = q * R + s /\ w = q
    BY <1>1, DivMod
  <2>2. PICK t \in Nat, u \in 0 .. R - 1 :
          PPC_REGION_COUNT + R - 1 = t * R + u /\ DivCeil(PPC_REGION_COUNT, R) = t
    <3>1. PPC_REGION_COUNT + R - 1 \in Nat
      BY <1>1
    <3>. QED BY <1>1, <3>1, DivMod DEF DivCeil
  <2>3. q * R < t * R
    <3>1. q * R \in Nat /\ t * R \in Nat
      BY <1>1
    <3>. QED BY <1>1, <2>1, <2>2, <3>1
  <2>4. q < t
    BY <1>1, <2>3, TimesOrder
  <2>. QED BY <2>1, <2>2, <2>4 DEF AttrWords
<1>3. RegionBits(regions)[w] = {q % R : q \in {q \in regions \cap PpcRegion : q \div R = w}}
  BY <1>2 DEF RegionBits
<1>4. ASSUME NEW q \in PpcRegion, q \div R = w, q % R = r % R PROVE q = r
  BY <1>1, <1>4, RegionOfBit
<1> HIDE DEF w, R
<1>5. r % R \in RegionBits(regions)[w] <=> r \in regions
  <2>1. r \div R = w
    BY DEF w
  <2>2. r \in regions => r % R \in RegionBits(regions)[w]
    BY <1>3, <2>1
  <2>3. r % R \in RegionBits(regions)[w] => r \in regions
    BY <1>3, <1>4
  <2>. QED BY <2>2, <2>3
<1>. QED BY <1>2, <1>5 DEF w, R

LEMMA AttrsAsListed ==
    ASSUME NEW r \in PpcRegion
    PROVE  /\ AttrSet(BuildNsAttrs, r) <=> r \notin NS_SECURE_ONLY_REGIONS
           /\ AttrSet(BuildNsPAttrs, r) <=> r \in NS_UNPRIVILEGED_REGIONS
<1> DEFINE w == r \div REGIONS_PER_ATTR_REG
           k == r % REGIONS_PER_ATTR_REG
<1>1. /\ w \in AttrWords
      /\ k \in RegionBits(PpcRegion)[w]
      /\ k \in RegionBits(NS_SECURE_ONLY_REGIONS)[w] <=> r \in NS_SECURE_ONLY_REGIONS
      /\ k \in RegionBits(NS_UNPRIVILEGED_REGIONS)[w] <=> r \in NS_UNPRIVILEGED_REGIONS
  BY BitOfRegion
<1> HIDE DEF w, k
<1>2. /\ BuildNsAttrs[w] =
           ({} \cup RegionBits(PpcRegion)[w]) \ RegionBits(NS_SECURE_ONLY_REGIONS)[w]
      /\ BuildNsPAttrs[w] = {} \cup RegionBits(NS_UNPRIVILEGED_REGIONS)[w]
  BY <1>1 DEF BuildNsAttrs, BuildNsPAttrs, BuildFullNsAttrMask, SetRegionBits, ClearRegionBits, NoBits
<1>. QED BY <1>1, <1>2 DEF AttrSet, w, k

LEMMA MasksAsListed ==
    /\ \A r \in PpcRegion : MaskSet(BuildPcMasks, r) <=> r \notin PC_MASK_EXCLUDED_REGIONS
    /\ \A w \in MaskWords, k \in MaskSlots :
         k \in BuildPcMasks[w] => w * REGIONS_PER_PC_MASK_REG + k \in PpcRegion
<1> DEFINE M == REGIONS_PER_PC_MASK_REG
<1>1. M \in Nat \ {0} /\ PPC_REGION_COUNT \in Nat
  BY PpcAssumption
<1>2. ASSUME NEW r \in PpcRegion
      PROVE  MaskSet(BuildPcMasks, r) <=> r \notin PC_MASK_EXCLUDED_REGIONS
  <2>1. r \in Nat /\ r < PPC_REGION_COUNT
    BY <1>1 DEF PpcRegion
  <2>2. PICK q \in Nat, s \in 0 .. M - 1 : r = q * M + s /\ r \div M = q /\ r % M = s
    BY <1>1, <2>1, DivMod
  <2>3. PICK t \in Nat, u \in 0 .. M - 1 :
          PPC_REGION_COUNT + M - 1 = t * M + u /\ DivCeil(PPC_REGION_COUNT, M) = t
    <3>1. PPC_REGION_COUNT + M - 1 \in Nat
      BY <1>1
    <3>. QED BY <1>1, <3>1, DivMod DEF DivCeil
  <2>4. q * M < t * M
    <3>1. q * M \in Nat /\ t * M \in Nat
      BY <1>1
    <3>. QED BY <1>1, <2>1, <2>2, <2>3, <3>1
  <2>5. q < t
    BY <1>1, <2>4, TimesOrder
  <2>6. q \in MaskWords /\ s \in MaskSlots
    BY <2>2, <2>3, <2>5 DEF MaskWords, MaskSlots
  <2>7. BuildPcMasks[q] = {slot \in MaskSlots :
          q * M + slot < PPC_REGION_COUNT /\ q * M + slot \notin PC_MASK_EXCLUDED_REGIONS}
    BY <2>6 DEF BuildPcMasks
  <2>. QED BY <2>1, <2>2, <2>6, <2>7 DEF MaskSet
<1>3. ASSUME NEW w \in MaskWords, NEW k \in MaskSlots, k \in BuildPcMasks[w]
      PROVE  w * M + k \in PpcRegion
  <2>1. w * M + k < PPC_REGION_COUNT
    BY <1>3 DEF BuildPcMasks
  <2>2. w \in Nat /\ k \in Nat
    BY DEF MaskWords, MaskSlots
  <2>3. w * M + k \in Nat
    BY <1>1, <2>2
  <2>. QED BY <1>1, <2>1, <2>3 DEF PpcRegion
<1>. QED BY <1>2, <1>3

\* Which regions of the SAU hold a byte, by their numbers in the table.
LEMMA HitsOfTable ==
    ASSUME board \in Boards, NEW f, SauFrom(f, Len(SauRegions[board])), NEW a,
           NEW k \in Enabled(board),
           SauRegions[board][k].base <= a, a <= SauRegions[board][k].limit,
           \A l \in Enabled(board) :
             SauRegions[board][l].base <= a /\ a <= SauRegions[board][l].limit => l = k
    PROVE  \E i \in DOMAIN sau : /\ Region(sau, a) = {i} /\ f[i] = k
                                 /\ sau[i] = SauRegions[board][k]
<1>1. k \in 1 .. Len(SauRegions[board])
  <2>1. ASSUME NEW S, NEW s \in Seq(S) PROVE DOMAIN s = 1 .. Len(s)
    OBVIOUS
  <2>2. DOMAIN SauRegions[board] = 1 .. Len(SauRegions[board])
    BY <2>1, TableTypes
  <2>. QED BY <2>2 DEF Enabled
<1>2. PICK i \in DOMAIN sau : f[i] = k
  BY <1>1 DEF SauFrom
<1>3. sau[i] = SauRegions[board][k]
  BY <1>2 DEF SauFrom
<1>4. \A j \in DOMAIN sau : sau[j].base <= a /\ a <= sau[j].limit => j = i
  <2> TAKE j \in DOMAIN sau
  <2>1. f[j] \in Enabled(board) /\ sau[j] = SauRegions[board][f[j]] /\ (f[j] = f[i] => j = i)
    BY DEF SauFrom
  <2>. QED BY <1>2, <2>1
<1>5. {j \in DOMAIN sau : sau[j].base <= a /\ a <= sau[j].limit} = {i}
  BY <1>3, <1>4
<1>. QED BY <1>2, <1>3, <1>5 DEF Region

\* When the non-secure image starts (main.rs, jump_to_nonsecure), the
\* interrupt controller, the PPC, the SAU and the SPCB are what the policy and
\* the tables of the board say, whatever was in them before the reset.
THEOREM PeripheralsMeant == Spec => []PeripheralsAsMeant
<1>1. IInv /\ TablesInv => PeripheralsAsMeant
  <2> SUFFICES ASSUME board \in Boards, TablesInv, phase = "kernel" PROVE PeripheralsAsMeant
    BY DEF PeripheralsAsMeant, IInv, Types
  <2> USE DEF TablesInv
  <2>1. phase \in AfterNvic /\ phase \in Late /\ phase \in AfterSpm \ {"nscCode", "uart1"} /\ SauDone
    BY DEF AfterNvic, Late, AfterSpm, SauDone
  <2>2. ASSUME NEW w \in DOMAIN regs.itns, NEW i \in Bits
        PROVE  i \in regs.itns[w] <=> w * WordBits + i <= LastNsIrq[board]
    <3> DEFINE L == LastNsIrq[board]
    <3>1. /\ L \in Nat /\ NvicWords[board] \in Nat /\ WordBits \in Nat \ {0}
      BY TableTypes, BootAssumption
    <3>2. regs.itns = NvicAfter(NvicRounds)
      BY <2>1 DEF NvicInv
    <3>3. /\ w \in 0 .. NvicWords[board] - 1
          /\ regs.itns[w] = IF w < NvicRounds THEN NonSecureIrqs(board, w) ELSE {}
      BY <3>2 DEF NvicAfter
    <3>4. CASE w < NvicRounds
      BY <3>3, <3>4 DEF NonSecureIrqs
    <3>5. CASE ~(w < NvicRounds)
      <4>1. PICK q \in Nat, r \in 0 .. WordBits - 1 : L = q * WordBits + r /\ L \div WordBits = q
        BY <3>1, DivMod
      <4>2. w \in Nat /\ q + 1 <= w
        BY <3>1, <3>3, <3>5, <4>1 DEF NvicRounds
      <4>3. (q + 1) * WordBits <= w * WordBits
        <5>1. q + 1 \in Int /\ w \in Int
          BY <4>1, <4>2
        <5> HIDE DEF L
        <5>. QED BY <3>1, <4>2, <5>1, TimesOrder
      <4>4. (q + 1) * WordBits = q * WordBits + WordBits /\ q * WordBits \in Nat /\ w * WordBits \in Nat
        <5>1. WordBits \in Nat
          BY <3>1
        <5>2. q * WordBits \in Nat /\ w * WordBits \in Nat
          BY <4>1, <4>2, <5>1
        <5>3. (q + 1) * WordBits = q * WordBits + WordBits
          BY <4>1, <5>1
        <5>. QED BY <5>2, <5>3
      <4>5. i \in Nat
        BY DEF Bits
      <4>6. ~(w * WordBits + i <= L)
        <5> HIDE DEF L
        <5>. QED BY <3>1, <4>1, <4>3, <4>4, <4>5
      <4>. QED BY <3>3, <3>5, <4>6
    <3>. QED BY <3>4, <3>5
  <2>3. ASSUME HasPpc(board)
        PROVE  /\ \A r \in PpcRegion :
                    /\ AttrSet(regs.nsAttrs, r) <=> r \notin NS_SECURE_ONLY_REGIONS
                    /\ AttrSet(regs.nsPAttrs, r) <=> r \in NS_UNPRIVILEGED_REGIONS
                    /\ MaskSet(regs.pcMasks, r) <=> r \notin PC_MASK_EXCLUDED_REGIONS
               /\ \A w \in MaskWords, k \in MaskSlots :
                    k \in regs.pcMasks[w] => w * REGIONS_PER_PC_MASK_REG + k \in PpcRegion
               /\ regs.locked
    <3>1. /\ \A w \in AttrWords : /\ regs.nsAttrs[w] = BuildNsAttrs[w]
                                  /\ regs.nsPAttrs[w] = BuildNsPAttrs[w]
          /\ \A w \in MaskWords : regs.pcMasks[w] = BuildPcMasks[w]
          /\ regs.locked
      BY <2>1, <2>3 DEF NsAttrsInv, NsPAttrsInv, PcMasksInv, LockInv
    <3>2. regs.nsAttrs = BuildNsAttrs /\ regs.nsPAttrs = BuildNsPAttrs /\ regs.pcMasks = BuildPcMasks
      BY <3>1, BuildTypes DEF RegsType
    <3>. QED BY <3>1, <3>2, AttrsAsListed, MasksAsListed
  <2>4. PICK f : SauFrom(f, Len(SauRegions[board]))
    BY <2>1 DEF SauInv
  <2>5. \E i \in DOMAIN sau : sau[i].attribute = "NonSecureCallable"
    <3>1. PICK k \in Enabled(board) : SauRegions[board][k].attribute = "NonSecureCallable"
      BY TableAssumption, Zenon
    <3>2. k \in 1 .. Len(SauRegions[board])
      <4>1. ASSUME NEW S, NEW s \in Seq(S) PROVE DOMAIN s = 1 .. Len(s)
        OBVIOUS
      <4>2. DOMAIN SauRegions[board] = 1 .. Len(SauRegions[board])
        BY <4>1, TableTypes
      <4>. QED BY <4>2 DEF Enabled
    <3>. QED BY <2>4, <3>1, <3>2 DEF SauFrom
  <2>6. board = "musca_b1" => regs.nscCode /\ "uart1" \in regs.apbNs
    BY <2>1 DEF NscCodeInv, Uart1Inv
  <2>7. NonSecure(sau, Console[board].addr)
    <3> DEFINE a == Console[board].addr
    <3>1. PICK k \in Enabled(board) :
            /\ SauRegions[board][k].attribute = "NonSecure"
            /\ {l \in Enabled(board) : SauRegions[board][l].base <= a /\ a <= SauRegions[board][l].limit} = {k}
      BY TableAssumption, Zenon
    <3>2. IdauRegion(a) % 2 = 0
      BY TableAssumption, Zenon
    <3> HIDE DEF a
    <3>3. /\ SauRegions[board][k].base <= a /\ a <= SauRegions[board][k].limit
          /\ \A l \in Enabled(board) :
               SauRegions[board][l].base <= a /\ a <= SauRegions[board][l].limit => l = k
      BY <3>1
    <3>4. PICK i \in DOMAIN sau : Region(sau, a) = {i} /\ sau[i] = SauRegions[board][k]
      BY <2>4, <3>3, HitsOfTable
    <3>. QED BY <3>1, <3>2, <3>4 DEF NonSecure, a
  <2>8. IF HasPpc(board)
        THEN Console[board].region \in
               PpcRegion \ (NS_SECURE_ONLY_REGIONS \cup PC_MASK_EXCLUDED_REGIONS)
        ELSE Console[board].region = "uart1"
    BY TableAssumption, Zenon
  <2>9. IF HasPpc(board)
        THEN /\ AttrSet(regs.nsAttrs, Console[board].region)
             /\ MaskSet(regs.pcMasks, Console[board].region)
        ELSE Console[board].region \in regs.apbNs
    BY <2>3, <2>6, <2>8 DEF HasPpc
  <2>. QED BY <2>2, <2>3, <2>5, <2>6, <2>7, <2>9 DEF PeripheralsAsMeant
<1>. QED BY <1>1, Invariance, TablesInvariance, PTL

------------------------------------------------------------------------------
(* What the answers at the two ends of a buffer say about its bytes.       *)

\* An end of a region lies in front of both of two bytes of a granule or of none.
LEMMA OneGranule ==
    ASSUME NEW G \in Nat \ {0}, NEW b \in Nat, NEW a \in Nat, NEW x \in Nat,
           b <= a, a - b < G - (b % G), x % G = 0
    PROVE  x <= a <=> x <= b
<1>1. PICK q \in Nat, r \in 0 .. G - 1 : b = q * G + r /\ b % G = r
  BY DivMod
<1>2. PICK t \in Nat : x = t * G
  <2>1. PICK t \in Nat, u \in 0 .. G - 1 : x = t * G + u /\ x % G = u
    BY DivMod
  <2>. QED BY <2>1
<1>3. (q + 1) * G = q * G + G /\ q * G \in Nat /\ t * G \in Nat
  BY <1>1, <1>2
<1>4. a < (q + 1) * G
  BY <1>1, <1>3
<1>5. ASSUME x <= a PROVE x <= b
  <2>1. t * G < (q + 1) * G
    BY <1>2, <1>3, <1>4, <1>5
  <2>2. t < q + 1
    BY <1>1, <1>2, <2>1, TimesOrder
  <2>3. t <= q
    BY <1>1, <1>2, <2>2
  <2>4. t * G <= q * G
    BY <1>1, <1>2, <2>3, TimesOrder
  <2>. QED BY <1>1, <1>2, <1>3, <2>4
<1>. QED BY <1>5

\* Of two bytes of one granule each region of a table holds both or none.
LEMMA GranuleRegion ==
    ASSUME NEW b \in Nat, NEW a \in Nat, b <= a, a - b < TtGranule - (b % TtGranule),
           NEW S, NEW table \in Seq(S),
           \A i \in DOMAIN table : /\ table[i].base \in Nat /\ table[i].limit \in Nat
                                   /\ SauAligned(table[i])
    PROVE  Region(table, a) = Region(table, b)
<1>1. TtGranule \in Nat \ {0}
  BY MemoryCheckAssumption DEF IdauBlock
<1>2. \A i \in DOMAIN table :
        table[i].base <= a /\ a <= table[i].limit <=> table[i].base <= b /\ b <= table[i].limit
  <2> TAKE i \in DOMAIN table
  <2>1. table[i].base <= a <=> table[i].base <= b
    BY <1>1, OneGranule DEF SauAligned
  <2>2. table[i].limit + 1 \in Nat /\ (table[i].limit + 1) % TtGranule = 0
    BY DEF SauAligned
  <2>3. table[i].limit + 1 <= a <=> table[i].limit + 1 <= b
    <3> DEFINE x == table[i].limit + 1
    <3>1. x \in Nat /\ x % TtGranule = 0
      BY <2>2
    <3> HIDE DEF x
    <3>2. x <= a <=> x <= b
      BY <1>1, <3>1, OneGranule
    <3>. QED BY <3>2 DEF x
  <2>. QED BY <2>1, <2>3
<1>3. {i \in DOMAIN table : table[i].base <= a /\ a <= table[i].limit}
        = {i \in DOMAIN table : table[i].base <= b /\ b <= table[i].limit}
  BY <1>2
<1>. QED BY <1>3, Zenon DEF Region

\* A granule lies in one block of the IDAU.
LEMMA GranuleIdau ==
    ASSUME NEW b \in Nat, NEW a \in Nat, b <= a, a - b < TtGranule - (b % TtGranule)
    PROVE  IdauRegion(a) = IdauRegion(b)
<1> DEFINE D == IdauBlock
           G == TtGranule
<1>1. G \in Nat \ {0} /\ D \in Nat \ {0} /\ D \in Nat /\ D % G = 0
  BY MemoryCheckAssumption DEF IdauBlock
<1> HIDE DEF D, G
<1>2. PICK d \in Nat : D = d * G
  <2>1. PICK d \in Nat, u \in 0 .. G - 1 : D = d * G + u /\ D \div G = d /\ D % G = u
    BY <1>1, DivMod, Zenon
  <2>. QED BY <1>1, <2>1
<1>3. PICK q \in Nat, r \in 0 .. D - 1 : a = q * D + r /\ a \div D = q
  BY <1>1, DivMod
<1>4. q * D \in Nat /\ (q * D) % G = 0
  <2>1. q * D = (q * d) * G + 0 /\ q * d \in Nat
    BY <1>1, <1>2, <1>3
  <2>2. 0 \in 0 .. G - 1
    BY <1>1
  <2>3. ((q * d) * G + 0) % G = 0
    BY <1>1, <2>1, <2>2, DivIs
  <2>. QED BY <1>1, <1>3, <2>1, <2>3
<1>5. q * D <= b
  <2>1. q * D <= a
    BY <1>1, <1>3, <1>4
  <2>. QED BY <1>1, <1>4, <2>1, OneGranule DEF G
<1>6. PICK s \in Nat : b = q * D + s
  <2>1. b - q * D \in Nat /\ b = q * D + (b - q * D)
    BY <1>4, <1>5
  <2>. QED BY <2>1
<1>7. s \in 0 .. D - 1
  BY <1>1, <1>3, <1>4, <1>6
<1>8. b \div D = q
  BY <1>1, <1>3, <1>6, <1>7, DivIs
<1>. QED BY <1>3, <1>8 DEF IdauRegion, D

LEMMA IdauOrder ==
    ASSUME NEW b \in Nat, NEW a \in Nat, NEW c \in Nat, b <= a, a <= c, IdauRegion(b) = IdauRegion(c)
    PROVE  IdauRegion(a) = IdauRegion(b)
BY DEF IdauRegion, IdauBlock

\* What a process and a board are given, one by one.
LEMMA KernelRegions ==
    ASSUME NEW b \in Boards, NEW p \in Procs
    PROVE  /\ MpuRegions[b][p] \in Seq([base : Nat \ {0}, limit : 0 .. AddressSpace - 2,
                                        read : BOOLEAN, write : BOOLEAN])
           /\ \A i \in DOMAIN MpuRegions[b][p] :
                /\ MpuRegions[b][p][i].base \in Nat \ {0}
                /\ MpuRegions[b][p][i].limit \in Nat
                /\ MpuRegions[b][p][i].limit + 1 < AddressSpace
                /\ SauAligned(MpuRegions[b][p][i])
           /\ \A i, j \in DOMAIN MpuRegions[b][p] :
                i # j => Apart(MpuRegions[b][p][i], MpuRegions[b][p][j])
           /\ \A k, l \in Enabled(b), i \in DOMAIN MpuRegions[b][p] : k # l =>
                \/ Apart(SauRegions[b][k], SauRegions[b][l])
                \/ Apart(SauRegions[b][k], MpuRegions[b][p][i])
                \/ Apart(SauRegions[b][l], MpuRegions[b][p][i])
<1> DEFINE mpu == MpuRegions[b][p]
           T == [base : Nat \ {0}, limit : 0 .. AddressSpace - 2, read : BOOLEAN, write : BOOLEAN]
<1>1. /\ mpu \in Seq(T)
      /\ \A i \in DOMAIN mpu : SauAligned(mpu[i])
      /\ \A i, j \in DOMAIN mpu : i # j => Apart(mpu[i], mpu[j])
      /\ \A k, l \in Enabled(b) : k # l => \A i \in DOMAIN mpu :
           \/ Apart(SauRegions[b][k], SauRegions[b][l])
           \/ Apart(SauRegions[b][k], mpu[i])
           \/ Apart(SauRegions[b][l], mpu[i])
  BY KernelAssumption, Zenon
<1>2. \A i \in DOMAIN mpu : mpu[i] \in T
  <2>1. ASSUME NEW S, NEW s \in Seq(S) PROVE \A i \in DOMAIN s : s[i] \in S
    OBVIOUS
  <2> HIDE DEF mpu, T
  <2>. QED BY <1>1, <2>1, Zenon
<1>3. \A r \in T : /\ r.base \in Nat \ {0} /\ r.limit \in Nat /\ r.limit + 1 < AddressSpace
  BY MemoryCheckAssumption
<1>4. \A i \in DOMAIN mpu : /\ mpu[i].base \in Nat \ {0} /\ mpu[i].limit \in Nat
                            /\ mpu[i].limit + 1 < AddressSpace
  <2> HIDE DEF mpu, T
  <2>. QED BY <1>2, <1>3, Zenon
<1>. QED BY <1>1, <1>4, Zenon

LEMMA ApartHold ==
    ASSUME NEW r, NEW s, r.base \in Nat, r.limit \in Nat, s.base \in Nat, s.limit \in Nat,
           NEW a \in Nat, r.base <= a, a <= r.limit, s.base <= a, a <= s.limit
    PROVE  ~Apart(r, s)
BY DEF Apart

\* One region of the MPU holds a byte: no other does.
LEMMA OneOfMpu ==
    ASSUME NEW b \in Boards, NEW p \in Procs, NEW mpu, mpu = MpuRegions[b][p],
           NEW a \in Nat, NEW j \in DOMAIN mpu, mpu[j].base <= a, a <= mpu[j].limit
    PROVE  Region(mpu, a) = {j}
<1>1. /\ \A i \in DOMAIN mpu : mpu[i].base \in Nat /\ mpu[i].limit \in Nat
      /\ \A i \in DOMAIN mpu : i # j => Apart(mpu[i], mpu[j])
  BY KernelRegions, Zenon
<1>2. ASSUME NEW i \in DOMAIN mpu, mpu[i].base <= a, a <= mpu[i].limit PROVE i = j
  <2> SUFFICES ASSUME i # j PROVE FALSE
    OBVIOUS
  <2>1. /\ mpu[j].base \in Nat /\ mpu[j].limit \in Nat /\ mpu[i].base \in Nat /\ mpu[i].limit \in Nat
        /\ Apart(mpu[i], mpu[j])
    BY <1>1
  <2>. QED BY <1>2, <2>1, ApartHold
<1>3. {i \in DOMAIN mpu : mpu[i].base <= a /\ a <= mpu[i].limit} = {j}
  BY <1>2
<1>. QED BY <1>3 DEF Region

\* Where the MPU of a process holds a byte, one region of the SAU that holds it
\* is the only one.
LEMMA OneOfSau ==
    ASSUME board \in Boards, NEW f, SauFrom(f, Len(SauRegions[board])), NEW p \in Procs, NEW a \in Nat,
           NEW j \in DOMAIN MpuRegions[board][p],
           MpuRegions[board][p][j].base <= a, a <= MpuRegions[board][p][j].limit,
           NEW k \in Enabled(board),
           SauRegions[board][k].base <= a, a <= SauRegions[board][k].limit
    PROVE  \E i \in DOMAIN sau : Region(sau, a) = {i} /\ f[i] = k /\ sau[i] = SauRegions[board][k]
<1> DEFINE mpu == MpuRegions[board][p]
           T == SauRegions[board]
<1>1. /\ \A i \in DOMAIN mpu : mpu[i].base \in Nat /\ mpu[i].limit \in Nat
      /\ \A l \in Enabled(board) : k # l =>
           Apart(T[k], T[l]) \/ Apart(T[k], mpu[j]) \/ Apart(T[l], mpu[j])
  BY KernelRegions, Zenon
<1>2. \A l \in Enabled(board) : T[l].base \in Nat /\ T[l].limit \in Nat
  BY TableTypes
<1>3. mpu[j].base <= a /\ a <= mpu[j].limit /\ T[k].base <= a /\ a <= T[k].limit
  OBVIOUS
<1>4. ASSUME NEW l \in Enabled(board), T[l].base <= a, a <= T[l].limit PROVE l = k
  <2> SUFFICES ASSUME l # k PROVE FALSE
    OBVIOUS
  <2>1. Apart(T[k], T[l]) \/ Apart(T[k], mpu[j]) \/ Apart(T[l], mpu[j])
    BY <1>1
  <2>2. /\ mpu[j].base \in Nat /\ mpu[j].limit \in Nat /\ T[k].base \in Nat /\ T[k].limit \in Nat
        /\ T[l].base \in Nat /\ T[l].limit \in Nat
    BY <1>1, <1>2
  <2> HIDE DEF T, mpu
  <2>3. ~Apart(T[k], T[l]) /\ ~Apart(T[k], mpu[j]) /\ ~Apart(T[l], mpu[j])
    BY <1>3, <1>4, <2>2, ApartHold
  <2>. QED BY <2>1, <2>3
<1>. QED BY <1>3, <1>4, HitsOfTable

LEMMA InRegion ==
    ASSUME NEW table, NEW a, NEW i \in Region(table, a)
    PROVE  i \in DOMAIN table /\ table[i].base <= a /\ a <= table[i].limit
BY DEF Region

LEMMA BufferBytes ==
    ASSUME NEW b \in Buffer, NEW a \in Bytes(b)
    PROVE  /\ b.base \in Nat /\ b.len \in Nat /\ 0 < b.len
           /\ a \in Nat /\ b.base <= a /\ a <= b.base + b.len - 1
           /\ b.base + b.len - 1 \in Nat
<1>1. b.base \in Nat /\ b.len \in Nat
  BY MemoryCheckAssumption DEF Buffer
<1>2. a \in Int /\ b.base <= a /\ a <= b.base + b.len - 1
  BY <1>1 DEF Bytes
<1>. QED BY <1>1, <1>2

\* What the SAU holds, region by region.
LEMMA SauEntries ==
    ASSUME board \in Boards, SauInv, NEW f, SauFrom(f, Len(SauRegions[board]))
    PROVE  \A i \in DOMAIN sau :
             /\ sau[i].base \in Nat /\ sau[i].limit \in Nat /\ SauAligned(sau[i])
             /\ f[i] \in Enabled(board) /\ sau[i] = SauRegions[board][f[i]]
             /\ \A j \in DOMAIN sau : f[i] = f[j] => i = j
<1>1. \A i \in DOMAIN sau : /\ f[i] \in Enabled(board) /\ sau[i] = SauRegions[board][f[i]]
                            /\ SauAligned(sau[i])
                            /\ \A j \in DOMAIN sau : f[i] = f[j] => i = j
  BY DEF SauFrom
<1>2. \A i \in DOMAIN sau : sau[i] \in [base : Nat, limit : Nat, attribute : Attributes]
  <2>1. sau \in Seq([base : Nat, limit : Nat, attribute : Attributes])
    BY DEF SauInv
  <2>2. ASSUME NEW S, NEW s \in Seq(S) PROVE \A i \in DOMAIN s : s[i] \in S
    OBVIOUS
  <2>. QED BY <2>1, <2>2, Zenon
<1>. QED BY <1>1, <1>2

\* The rights at the first byte of an accepted buffer are those of each byte,
\* although the SPM asks for two bytes at most (cmse.rs:76-83).
LEMMA BytesAnswered ==
    ASSUME board \in Boards, SauInv, NEW f, SauFrom(f, Len(SauRegions[board])), NEW p \in Procs,
           NEW b \in Buffer, NEW isWrite \in BOOLEAN,
           HasPermission(sau, MpuRegions[board][p], b, isWrite), NEW a \in Bytes(b)
    PROVE  /\ NonSecure(sau, a)
           /\ \E i \in DOMAIN MpuRegions[board][p] :
                /\ MpuRegions[board][p][i].base <= a /\ a <= MpuRegions[board][p][i].limit
                /\ IF isWrite THEN MpuRegions[board][p][i].write ELSE MpuRegions[board][p][i].read
<1> DEFINE mpu == MpuRegions[board][p]
           e == b.base + b.len - 1
<1>1. /\ b.base \in Nat /\ b.len \in Nat /\ 0 < b.len /\ e \in Nat
      /\ a \in Nat /\ b.base <= a /\ a <= e
  BY BufferBytes
<1>2. RangeIsUniform(sau, mpu, b) /\ NonSecure(sau, b.base)
  <2>1. RangeIsUniform(sau, mpu, b) /\ ~Tt(sau, mpu, b.base).secure
    BY <1>1 DEF HasPermission
  <2>2. Tt(sau, mpu, b.base).secure = ~NonSecure(sau, b.base)
    BY DEF Tt
  <2>. QED BY <2>1, <2>2, Zenon
<1>3. PICK j \in Region(mpu, b.base) : IF isWrite THEN mpu[j].write ELSE mpu[j].read
  <2> DEFINE t == Tt(sau, mpu, b.base)
  <2>1. /\ t.writable = (\E j \in Region(mpu, b.base) : mpu[j].write)
        /\ t.readable = (\E j \in Region(mpu, b.base) : mpu[j].read)
    BY DEF Tt
  <2>2. IF isWrite THEN t.writable ELSE t.readable
    BY <1>1 DEF HasPermission
  <2> HIDE DEF t, mpu
  <2>. QED BY <2>1, <2>2
<1>4. PICK i \in Region(sau, b.base) : sau[i].attribute = "NonSecure"
  BY <1>2 DEF NonSecure
<1>5. IdauRegion(b.base) % 2 = 0
  BY <1>2 DEF NonSecure
<1>6. /\ j \in DOMAIN mpu /\ mpu[j].base <= b.base /\ b.base <= mpu[j].limit
      /\ i \in DOMAIN sau /\ sau[i].base <= b.base /\ b.base <= sau[i].limit
  BY <1>3, <1>4, InRegion
<1>7. /\ mpu \in Seq([base : Nat \ {0}, limit : 0 .. AddressSpace - 2, read : BOOLEAN, write : BOOLEAN])
      /\ \A l \in DOMAIN mpu : /\ mpu[l].base \in Nat /\ mpu[l].limit \in Nat /\ SauAligned(mpu[l])
  BY KernelRegions, Zenon
<1>8. /\ \A l \in DOMAIN sau : /\ sau[l].base \in Nat /\ sau[l].limit \in Nat /\ SauAligned(sau[l])
      /\ sau \in Seq([base : Nat, limit : Nat, attribute : Attributes])
  BY SauEntries DEF SauInv
<1> HIDE DEF mpu, e
<1>9. ASSUME j \in Region(mpu, a), i \in Region(sau, a), IdauRegion(a) = IdauRegion(b.base)
      PROVE  /\ NonSecure(sau, a)
             /\ \E l \in DOMAIN mpu : /\ mpu[l].base <= a /\ a <= mpu[l].limit
                                      /\ IF isWrite THEN mpu[l].write ELSE mpu[l].read
  <2>1. j \in DOMAIN mpu /\ mpu[j].base <= a /\ a <= mpu[j].limit
    BY <1>9, InRegion
  <2>2. NonSecure(sau, a)
    BY <1>4, <1>5, <1>9 DEF NonSecure
  <2>. QED BY <1>3, <2>1, <2>2
<1>10. CASE (b.base % TtGranule) + b.len <= TtGranule
  <2>1. a - b.base < TtGranule - (b.base % TtGranule)
    BY <1>1, <1>10, MemoryCheckAssumption DEF e
  <2>2. Region(mpu, a) = Region(mpu, b.base) /\ Region(sau, a) = Region(sau, b.base)
    BY <1>1, <1>7, <1>8, <2>1, GranuleRegion
  <2>3. IdauRegion(a) = IdauRegion(b.base)
    BY <1>1, <2>1, GranuleIdau
  <2>. QED BY <1>3, <1>4, <1>9, <2>2, <2>3 DEF mpu
<1>11. CASE Tt(sau, mpu, b.base) = Tt(sau, mpu, e)
  <2>1. /\ Region(sau, b.base) = Region(sau, e) /\ Region(mpu, b.base) = Region(mpu, e)
        /\ IdauRegion(b.base) = IdauRegion(e)
    BY <1>11 DEF Tt
  <2>2. e <= mpu[j].limit /\ e <= sau[i].limit
    BY <1>3, <1>4, <2>1, InRegion
  <2>3. /\ mpu[j].base <= a /\ a <= mpu[j].limit /\ sau[i].base <= a /\ a <= sau[i].limit
    <3>1. /\ mpu[j].base \in Nat /\ mpu[j].limit \in Nat /\ sau[i].base \in Nat /\ sau[i].limit \in Nat
      BY <1>6, <1>7, <1>8
    <3>. QED BY <1>1, <1>6, <2>2, <3>1
  <2>4. /\ f[i] \in Enabled(board) /\ sau[i] = SauRegions[board][f[i]]
        /\ \A l \in DOMAIN sau : f[i] = f[l] => i = l
    BY <1>6, SauEntries
  <2>5. /\ j \in Region(mpu, a)
        /\ \E l \in DOMAIN sau : Region(sau, a) = {l} /\ f[l] = f[i]
    <3>1. PICK k \in Enabled(board) : k = f[i]
      BY <2>4
    <3>2. SauRegions[board][k].base <= a /\ a <= SauRegions[board][k].limit
      BY <2>3, <2>4, <3>1
    <3>3. /\ j \in DOMAIN MpuRegions[board][p] /\ MpuRegions[board][p][j].base <= a
          /\ a <= MpuRegions[board][p][j].limit
      BY <1>6, <2>3 DEF mpu
    <3>4. a \in Nat
      BY <1>1
    <3>5. mpu = MpuRegions[board][p]
      BY DEF mpu
    <3>6. Region(mpu, a) = {j}
      BY <1>6, <2>3, <3>4, <3>5, OneOfMpu
    <3>7. \E l \in DOMAIN sau : Region(sau, a) = {l} /\ f[l] = k
      BY <3>2, <3>3, <3>4, OneOfSau
    <3>. QED BY <3>1, <3>6, <3>7
  <2>6. Region(sau, a) = {i}
    BY <2>4, <2>5
  <2>7. IdauRegion(a) = IdauRegion(b.base)
    BY <1>1, <2>1, IdauOrder
  <2>. QED BY <1>9, <2>5, <2>6, <2>7 DEF mpu
<1>. QED BY <1>2, <1>10, <1>11 DEF RangeIsUniform, e, mpu

\* The block of a byte begins at or in front of it, and behind no other block
\* that does.
LEMMA BlockOf ==
    ASSUME NEW d \in Nat \ {0}, NEW m \in Nat, m % d = 0, NEW a \in Nat, m <= a
    PROVE  /\ (a - m) \div d \in Nat
           /\ m + ((a - m) \div d) * d \in Nat /\ m + ((a - m) \div d) * d <= a
           /\ \A b \in Nat : b % d = 0 /\ b <= a => b <= m + ((a - m) \div d) * d
<1> DEFINE q == (a - m) \div d
<1>1. a - m \in Nat
  OBVIOUS
<1>2. PICK t \in Nat, r \in 0 .. d - 1 : a - m = t * d + r /\ q = t
  BY <1>1, DivMod
<1>3. PICK u \in Nat : m = u * d
  <2>1. PICK u \in Nat, s \in 0 .. d - 1 : m = u * d + s /\ m % d = s
    BY DivMod
  <2>. QED BY <2>1
<1> HIDE DEF q
<1>4. (u + t) * d = m + t * d /\ (u + t + 1) * d = m + t * d + d /\ t * d \in Nat
  BY <1>3, <1>2
<1>5. a < (u + t + 1) * d /\ m + t * d <= a
  BY <1>2, <1>4
<1>6. ASSUME NEW b \in Nat, b % d = 0, b <= a PROVE b <= m + t * d
  <2>1. PICK v \in Nat : b = v * d
    <3>1. PICK v \in Nat, s \in 0 .. d - 1 : b = v * d + s /\ b \div d = v /\ b % d = s
      BY DivMod, Zenon
    <3>. QED BY <1>6, <3>1
  <2>2. v * d < (u + t + 1) * d
    <3>1. (u + t + 1) * d \in Nat /\ v * d \in Nat
      BY <1>2, <1>3, <2>1
    <3>. QED BY <1>5, <1>6, <2>1, <3>1
  <2>3. v < u + t + 1
    BY <1>2, <1>3, <2>1, <2>2, TimesOrder
  <2>4. v <= u + t
    BY <1>2, <1>3, <2>1, <2>3
  <2>5. v * d <= (u + t) * d
    BY <1>2, <1>3, <2>1, <2>4, TimesOrder
  <2>. QED BY <1>4, <2>1, <2>5
<1>7. q \in Nat /\ m + q * d \in Nat /\ m + q * d <= a
  BY <1>2, <1>4, <1>5
<1>8. \A b \in Nat : b % d = 0 /\ b <= a => b <= m + q * d
  BY <1>2, <1>6
<1>. QED BY <1>7, <1>8 DEF q

\* The word of a block inside a memory of whole words is one of the table's.
LEMMA WordOfBlock ==
    ASSUME NEW d \in Nat \ {0}, NEW w \in Nat \ {0}, NEW size \in Nat, size % (d * w) = 0,
           NEW n \in Nat, n < size
    PROVE  /\ (n \div d) \div w \in 0 .. size \div (d * w) - 1
           /\ (n \div d) % w \in 0 .. w - 1
           /\ ((n \div d) \div w) * w + ((n \div d) % w) = n \div d
<1>1. PICK q \in Nat, r \in 0 .. d - 1 : n = q * d + r /\ n \div d = q
  BY DivMod
<1>2. PICK t \in Nat, s \in 0 .. w - 1 : q = t * w + s /\ q \div w = t /\ q % w = s
  BY <1>1, DivMod
<1>3. d * w \in Nat \ {0}
  BY SMTT(20)
<1>4. PICK u \in Nat : size = u * (d * w) /\ size \div (d * w) = u
  <2>1. PICK u \in Nat, v \in 0 .. d * w - 1 :
          size = u * (d * w) + v /\ size \div (d * w) = u /\ size % (d * w) = v
    BY <1>3, DivMod
  <2>. QED BY <1>3, <2>1
<1>5. t * (d * w) <= n
  <2>1. t * w <= q /\ t * w \in Nat
    BY <1>1, <1>2
  <2>2. (t * w) * d <= q * d
    BY <1>1, <2>1, TimesOrder
  <2>3. (t * w) * d = t * (d * w)
    BY <1>1, <1>2
  <2>4. q * d <= n
    BY <1>1
  <2>5. q * d \in Nat /\ t * (d * w) \in Nat
    BY <1>1, <1>2
  <2>. QED BY <2>2, <2>3, <2>4, <2>5
<1>6. t * (d * w) < u * (d * w)
  <2>1. t * (d * w) \in Nat
    BY <1>2
  <2>. QED BY <1>4, <1>5, <2>1
<1>7. t < u
  <2> DEFINE c == d * w
  <2> HIDE DEF c
  <2>. QED BY <1>2, <1>3, <1>4, <1>6, TimesOrder DEF c
<1>8. t \in 0 .. u - 1
  BY <1>2, <1>4, <1>7
<1>. QED BY <1>1, <1>2, <1>4, <1>8

\* A byte that the board gave the non-secure world is open in the controllers,
\* once the jobs are done (main.rs, set_non_secure).
LEMMA OpenByte ==
    ASSUME board \in Boards, lut = Asked[board], NEW k \in Enabled(board),
           SauRegions[board][k].attribute = "NonSecure", NEW a \in Nat,
           SauRegions[board][k].base <= a, a <= SauRegions[board][k].limit
    PROVE  Open(a)
<1> DEFINE r == SauRegions[board][k]
<1>1. r.base \in Nat /\ r.limit \in Nat /\ r.base <= a /\ a <= r.limit
  BY TableTypes
<1>2. WordBits \in Nat \ {0}
  BY BootAssumption, Zenon
<1>3. \A j \in DOMAIN Jobs :
        /\ CanSetNonSecure(Jobs[j])
        /\ \/ r.limit < Jobs[j].memory \/ Jobs[j].memory + Jobs[j].size <= r.base
           \/ /\ Jobs[j].base <= r.base \/ Jobs[j].base = Jobs[j].memory
              /\ r.limit <= Jobs[j].limit \/ Jobs[j].limit = Jobs[j].memory + Jobs[j].size - 1
  <2>1. k \in DOMAIN SauRegions[board] /\ r.attribute = "NonSecure"
    BY DEF Enabled
  <2>. QED BY <2>1, BoardAssumption, Zenon DEF Jobs
<1> HIDE DEF r
<1> SUFFICES ASSUME NEW j \in DOMAIN Jobs, Jobs[j].memory <= a, a < Jobs[j].memory + Jobs[j].size
             PROVE  LET block == (a - Jobs[j].memory) \div Jobs[j].blockSize
                    IN  block % WordBits \in lut[j][block \div WordBits]
  BY DEF Open
<1> DEFINE m == Jobs[j]
           block == (a - m.memory) \div m.blockSize
           w == block \div WordBits
           s == block % WordBits
<1>4. m \in Job /\ m.memory % m.blockSize = 0 /\ m.size % (m.blockSize * WordBits) = 0
  BY JobType
<1>5. /\ m.memory \in Nat /\ m.size \in Nat /\ m.base \in Nat /\ m.limit \in Nat
      /\ m.blockSize \in Nat \ {0} /\ m.memory <= a /\ a < m.memory + m.size
  BY <1>4 DEF Job
<1>6. /\ m.base <= a /\ a <= m.limit /\ m.base % m.blockSize = 0
  <2>1. CanSetNonSecure(m)
    BY <1>3
  <2>2. /\ r.limit < m.memory \/ m.memory + m.size <= r.base
           \/ /\ m.base <= r.base \/ m.base = m.memory
              /\ r.limit <= m.limit \/ m.limit = m.memory + m.size - 1
    BY <1>3
  <2> HIDE DEF m
  <2>. QED BY <1>1, <1>5, <2>1, <2>2 DEF CanSetNonSecure
<1>7. m = MpcJobs[board][j] /\ j \in DOMAIN MpcJobs[board]
  BY DEF Jobs
<1> HIDE DEF m
<1>8. /\ block \in Nat /\ m.memory + block * m.blockSize \in Nat
      /\ m.memory + block * m.blockSize <= a /\ m.base <= m.memory + block * m.blockSize
  BY <1>4, <1>5, <1>6, BlockOf
<1>9. /\ w \in Words(m) /\ s \in Bits /\ w * WordBits + s = block
  <2>1. a - m.memory \in Nat /\ a - m.memory < m.size
    BY <1>5
  <2> DEFINE n == a - m.memory
             d == m.blockSize
             size == m.size
  <2>2. d \in Nat \ {0} /\ size \in Nat /\ size % (d * WordBits) = 0 /\ n \in Nat /\ n < size
    BY <1>4, <1>5, <2>1
  <2> HIDE DEF n, d, size
  <2>3. /\ (n \div d) \div WordBits \in 0 .. size \div (d * WordBits) - 1
        /\ (n \div d) % WordBits \in 0 .. WordBits - 1
        /\ ((n \div d) \div WordBits) * WordBits + ((n \div d) % WordBits) = n \div d
    BY <1>2, <2>2, WordOfBlock, ZenonT(30)
  <2>. QED BY <2>3 DEF Words, Bits, n, d, size
<1> HIDE DEF w, s, block
<1>10. lut[j][w] = {i \in Bits : LET x == m.memory + (w * WordBits + i) * m.blockSize IN
                                 m.base <= x /\ x <= m.limit}
  BY <1>7, <1>9 DEF Asked
<1>11. m.memory + (w * WordBits + s) * m.blockSize = m.memory + block * m.blockSize
  BY <1>9
<1>12. m.memory + block * m.blockSize <= m.limit
  BY <1>5, <1>6, <1>8
<1>13. s \in lut[j][w]
  BY <1>8, <1>9, <1>10, <1>11, <1>12
<1>. QED BY <1>13 DEF w, s, block, m

------------------------------------------------------------------------------
(* The calls of the processes.                                             *)

\* What a service is serving has passed call_from_slices with the tables as
\* they still are.
Served == \A p \in Procs : stage[p] = "serving" =>
    CallAccepted(sau, MpuRegions[board][p], request[p].ins, request[p].outs)

\* Nobody who keeps to his own memory comes out refused.
HonestInv == \A p \in Procs : stage[p] \in {"leaving", "returned"} =>
    answer[p] = "done" \/ ~Honest(p, request[p])

Outside == {"serving", "leaving", "returned"}

\* What a step of the clients does to a process behind the gate.
LEMMA ProcessStep ==
    ASSUME IInv, RestType, ClientStep \/ UNCHANGED vars, NEW q \in Procs
    PROVE  \/ UNCHANGED <<stage[q], request[q], answer[q]>>
           \/ stage'[q] \notin Outside
           \/ /\ request'[q] = request[q] /\ phase = "ns"
              /\ \/ stage'[q] = "serving" /\ Accepted(q)
                 \/ stage'[q] = "leaving" /\ (answer'[q] = "done" \/ ~Accepted(q))
                 \/ stage'[q] = "returned" /\ stage[q] = "leaving" /\ answer'[q] = answer[q]
<1> DEFINE Same == UNCHANGED <<stage[q], request[q], answer[q]>>
<1> USE DEF IInv, Types, RestType, At, Goto
<1>1. ASSUME NEW p \in Procs, p # q, NEW s,
             stage' = [stage EXCEPT ![p] = s],
             \A r \in Procs : r # p => request'[r] = request[r] /\ answer'[r] = answer[r]
      PROVE  Same
  BY <1>1
<1>2. ASSUME NEW p \in Procs, NEW s \in Stages \ Outside, stage' = [stage EXCEPT ![p] = s],
             \A r \in Procs : r # p => request'[r] = request[r] /\ answer'[r] = answer[r]
      PROVE  Same \/ stage'[q] \notin Outside
  BY <1>1, <1>2
<1> HIDE DEF Same
<1> USE DEF Outside, Stages
<1>3. ASSUME NEW p \in Procs, NEW line \in Lines, ReadLine(p, line)
      PROVE  Same \/ stage'[q] \notin Outside
  <2>1. request' = request /\ answer' = answer
    BY <1>3 DEF ReadLine
  <2>2. stage' = stage \/ stage' = [stage EXCEPT ![p] = "accepted"]
    BY <1>3 DEF ReadLine, Accept, Parse
  <2>. QED BY <1>2, <2>1, <2>2 DEF Same
<1>4. ASSUME NEW p \in Procs, ConsoleFails(p) \/ Reserve(p) \/ ReserveFails(p) \/ Upcall(p)
      PROVE  Same \/ stage'[q] \notin Outside
  <2>1. request' = request /\ answer' = answer
    BY <1>4 DEF ConsoleFails, Reserve, ReserveFails, Upcall
  <2>2. \/ stage' = stage
        \/ \E s \in {"reserved", "yielded", "work"} : stage' = [stage EXCEPT ![p] = s]
    BY <1>4 DEF ConsoleFails, Reserve, ReserveFails, Upcall
  <2>. QED BY <1>2, <2>1, <2>2 DEF Same
<1>5. ASSUME NEW p \in Procs, Exists(p) \/ Sleep(p) \/ SleepFails(p)
      PROVE  Same \/ stage'[q] \notin Outside
  <2>1. request' = request /\ answer' = answer
    BY <1>5 DEF Exists, Sleep, SleepFails
  <2>2. \E s \in {"work", "prompt", "asleep", "dead"} : stage' = [stage EXCEPT ![p] = s]
    BY <1>5 DEF Exists, Sleep, SleepFails
  <2>. QED BY <1>2, <2>1, <2>2
<1>6. ASSUME NEW p \in Procs, NEW ins, BuildInVec(p, ins)
      PROVE  Same \/ stage'[q] \notin Outside
  <2>1. /\ stage' = [stage EXCEPT ![p] = "building"] /\ answer' = answer
        /\ \A r \in Procs : r # p => request'[r] = request[r]
    BY <1>6 DEF BuildInVec
  <2>. QED BY <1>2, <2>1
<1>7. ASSUME NEW p \in Procs, NEW outs, BuildOutVec(p, outs)
      PROVE  Same \/ stage'[q] \notin Outside
  <2>1. /\ stage' = [stage EXCEPT ![p] = "calling"] /\ answer' = answer
        /\ \A r \in Procs : r # p => request'[r] = request[r]
    BY <1>7 DEF BuildOutVec
  <2>. QED BY <1>2, <2>1
\* The owner finds the gate open.
<1>8. ASSUME NEW p \in Procs, EnterVeneer(p)
      PROVE  Same \/ stage'[q] \notin Outside
  <2>1. ~inSecureState
    BY <1>8 DEF EnterVeneer, FlagMeansWithin, HolderOwns, Within, Holding
  <2>2. stage' = [stage EXCEPT ![p] = "inside"] /\ answer' = answer /\ request' = request
    BY <1>8, <2>1 DEF EnterVeneer
  <2>. QED BY <1>2, <2>2
<1>9. ASSUME NEW p \in Procs, Connect(p)
      PROVE  Same \/ (request'[q] = request[q] /\ phase = "ns" /\ stage'[q] = "serving" /\ Accepted(q))
  <2>1. stage' = [stage EXCEPT ![p] = "serving"] /\ answer' = answer /\ request' = request
    BY <1>9 DEF Connect
  <2>2. phase = "ns" /\ Accepted(p)
    BY <1>9 DEF Connect
  <2>. QED BY <1>1, <2>1, <2>2
<1>10. ASSUME NEW p \in Procs, ConnectFails(p) \/ Serve(p)
      PROVE  Same \/ /\ request'[q] = request[q] /\ phase = "ns"
                     /\ stage'[q] = "leaving" /\ (answer'[q] = "done" \/ ~Accepted(q))
  <2>1. /\ stage' = [stage EXCEPT ![p] = "leaving"] /\ request' = request
        /\ \A r \in Procs : r # p => answer'[r] = answer[r]
    BY <1>10 DEF ConnectFails, Serve
  <2>2. phase = "ns" /\ (answer'[p] = "done" \/ ~Accepted(p))
    BY <1>10 DEF ConnectFails, Serve
  <2>. QED BY <1>1, <2>1, <2>2
<1>11. ASSUME NEW p \in Procs, ExitVeneer(p)
       PROVE  Same \/ /\ request'[q] = request[q] /\ phase = "ns"
                      /\ stage'[q] = "returned" /\ stage[q] = "leaving" /\ answer'[q] = answer[q]
  <2>1. /\ stage' = [stage EXCEPT ![p] = "returned"] /\ request' = request /\ answer' = answer
        /\ phase = "ns" /\ stage[p] = "leaving"
    BY <1>11 DEF ExitVeneer
  <2>. QED BY <1>1, <2>1
<1>12. ASSUME NEW p \in Procs, Release(p)
       PROVE  Same \/ stage'[q] \notin Outside
  <2>1. /\ \E s \in {"work", "prompt"} : stage' = [stage EXCEPT ![p] = s]
        /\ \A r \in Procs : r # p => request'[r] = request[r] /\ answer'[r] = answer[r]
    BY <1>12 DEF Release, Begin
  <2>. QED BY <1>2, <2>1
<1>13. CASE UNCHANGED vars
  BY <1>13 DEF vars, clientVars, Same
<1>14. CASE ClientStep
  <2>1. PICK p \in Procs :
          \/ \E line \in Lines : ReadLine(p, line)
          \/ ConsoleFails(p)
          \/ Reserve(p) \/ ReserveFails(p) \/ Upcall(p)
          \/ Step(p)
    BY <1>14 DEF ClientStep
  <2>2. CASE Step(p)
    BY <1>5, <1>6, <1>7, <1>8, <1>9, <1>10, <1>11, <1>12, <2>2 DEF Step, Same
  <2>. QED BY <1>3, <1>4, <2>1, <2>2 DEF Same
<1>. QED BY <1>13, <1>14 DEF Same

\* Boot leaves the tables and the processes alone once the kernel runs, and
\* the processes as well before it does.
LEMMA BootAtRest ==
    ASSUME IInv, Boots \/ StartKernel
    PROVE  /\ UNCHANGED <<board, stage, request, answer>>
           /\ (UNCHANGED sau) \/ \A p \in Procs : stage[p] \notin Outside
<1>1. CASE Boots
  <2>1. UNCHANGED <<stage, request, answer>>
    BY <1>1 DEF Boots, clientVars
  <2>2. ZeroBss \/ Quiet \/ (Transmit /\ UNCHANGED <<board, phase, cursor, inSecureState>>)
    BY <1>1, BootIsQuiet DEF Boots
  <2>3. UNCHANGED board
    BY <2>2 DEF ZeroBss, Quiet
  <2>4. phase # "ns" \/ UNCHANGED sau
    BY <2>2 DEF ZeroBss, Quiet, Transmit
  <2>. QED BY <2>1, <2>3, <2>4 DEF IInv, OnlyNsHolds, Outside, Holding
<1>2. CASE StartKernel
  BY <1>2 DEF StartKernel, StartKernelPsc3, StartCapsulesPsc3, StartFailsPsc3, StartKernelMusca,
              KernelOnly
<1>. QED BY <1>1, <1>2

LEMMA ServedStep ==
    ASSUME IInv, RestType, Served, [Next]_vars
    PROVE  Served'
<1>1. CASE Boots \/ StartKernel
  BY <1>1, BootAtRest DEF Served, Outside
<1>2. CASE ResetAll
  BY <1>2 DEF ResetAll, Begin, Served
<1>3. CASE ClientStep \/ UNCHANGED vars
  <2>1. UNCHANGED <<board, sau>>
    BY <1>3, ClientsLeaveBoot DEF BootDone
  <2>2. ASSUME NEW q \in Procs, stage'[q] = "serving"
        PROVE  CallAccepted(sau, MpuRegions[board][q], request'[q].ins, request'[q].outs)
    <3>1. \/ UNCHANGED <<stage[q], request[q], answer[q]>>
          \/ request'[q] = request[q] /\ Accepted(q)
      BY <1>3, <2>2, ProcessStep DEF Outside
    <3>. QED BY <2>2, <3>1 DEF Served, Accepted
  <2>. QED BY <2>1, <2>2 DEF Served
<1>. QED BY <1>1, <1>2, <1>3, NextParts

THEOREM ServedInvariance == Spec => [](RestType /\ Served)
<1>1. Init => RestType /\ Served
  BY RestAtPowerOn DEF Init, Served, Begin
<1>2. IInv /\ RestType /\ Served /\ [Next]_vars => (RestType /\ Served)'
  BY RestStep, ServedStep
<1>. QED BY <1>1, <1>2, Invariance, PTL DEF Spec

LEMMA RunningDone ==
    ASSUME TablesInv, phase = "ns"
    PROVE  /\ spm = "Initialized" /\ Running
           /\ \E f : SauFrom(f, Len(SauRegions[board]))
BY DEF TablesInv, SpmInv, SauInv, SauDone, AfterSpm, Running

\* A service reads and writes for a process what the process could itself, and
\* what the bus lets it (connection.rs:139-202, cmse.rs:76-83): for any tables
\* in which the regions of the SAU do not overlap where a process has memory.
THEOREM BytesReachable == Spec => []OnlyReachableBytes
<1>1. IInv /\ TablesInv /\ MpcOpensExactly /\ Served => OnlyReachableBytes
  <2> SUFFICES ASSUME IInv, TablesInv, MpcOpensExactly, Served, NEW p \in Procs, stage[p] = "serving"
               PROVE  /\ \A i \in DOMAIN request[p].ins :
                           \A a \in Bytes(request[p].ins[i]) : MayAccess(p, a, FALSE)
                      /\ \A i \in DOMAIN request[p].outs :
                           \A a \in Bytes(request[p].outs[i]) : MayAccess(p, a, TRUE)
    BY DEF OnlyReachableBytes
  <2>1. board \in Boards /\ phase = "ns"
    BY DEF IInv, Types, OnlyNsHolds, Holding
  <2>2. lut = Asked[board] /\ SauInv
    BY <2>1, RunningDone DEF MpcOpensExactly, TablesInv
  <2>3. PICK f : SauFrom(f, Len(SauRegions[board]))
    BY <2>1, RunningDone
  <2>4. ASSUME NEW b \in Buffer, NEW isWrite \in BOOLEAN, NEW a \in Bytes(b),
               HasPermission(sau, MpuRegions[board][p], b, isWrite)
        PROVE  MayAccess(p, a, isWrite)
    <3>1. /\ NonSecure(sau, a)
          /\ \E i \in DOMAIN MpuRegions[board][p] :
               /\ MpuRegions[board][p][i].base <= a /\ a <= MpuRegions[board][p][i].limit
               /\ IF isWrite THEN MpuRegions[board][p][i].write ELSE MpuRegions[board][p][i].read
      BY <2>1, <2>2, <2>3, <2>4, BytesAnswered
    <3>2. PICK i \in Region(sau, a) : sau[i].attribute = "NonSecure"
      BY <3>1 DEF NonSecure
    <3>3. i \in DOMAIN sau /\ sau[i].base <= a /\ a <= sau[i].limit
      BY <3>2, InRegion
    <3>4. f[i] \in Enabled(board) /\ sau[i] = SauRegions[board][f[i]]
      BY <2>1, <2>2, <2>3, <3>3, SauEntries
    <3>5. PICK k \in Enabled(board) : k = f[i]
      BY <3>4
    <3>6. a \in Nat
      BY BufferBytes
    <3>7. Open(a)
      BY <2>1, <2>2, <3>2, <3>3, <3>4, <3>5, <3>6, OpenByte
    <3>. QED BY <3>1, <3>7 DEF MayAccess
  <2>5. request[p].ins \in Seq(Buffer) /\ request[p].outs \in Seq(Buffer)
    BY DEF IInv, Types
  <2>6. /\ \A i \in DOMAIN request[p].ins : request[p].ins[i] \in Buffer
        /\ \A i \in DOMAIN request[p].outs : request[p].outs[i] \in Buffer
    BY <2>5, SeqElement
  <2>7. /\ \A i \in DOMAIN request[p].ins :
             HasPermission(sau, MpuRegions[board][p], request[p].ins[i], FALSE)
        /\ \A i \in DOMAIN request[p].outs :
             HasPermission(sau, MpuRegions[board][p], request[p].outs[i], TRUE)
    BY DEF Served, CallAccepted
  <2>. QED BY <2>4, <2>6, <2>7
<1>. QED BY <1>1, Invariance, TablesInvariance, MpcExact, ServedInvariance, PTL

LEMMA BelowSpace ==
    ASSUME NEW low \in Nat \ {0}, NEW high \in Nat, NEW at \in Nat, NEW n \in Nat, NEW space \in Nat,
           high + 1 < space, low <= at, at + n - 1 <= high
    PROVE  at # 0 /\ at + n < space /\ at + (n - 1) < space
OBVIOUS

\* A buffer inside one region of the process and one of the non-secure world
\* is not refused.
LEMMA GoodBuffer ==
    ASSUME board \in Boards, SauInv, NEW f, SauFrom(f, Len(SauRegions[board])), NEW p \in Procs,
           NEW mpu, mpu = MpuRegions[board][p], NEW b \in Buffer, NEW isWrite \in BOOLEAN, b.len > 0,
           NEW j \in DOMAIN mpu, Inside(b, mpu[j]), IF isWrite THEN mpu[j].write ELSE mpu[j].read,
           NEW k \in DOMAIN SauRegions[board], Inside(b, SauRegions[board][k]),
           SauRegions[board][k].attribute = "NonSecure"
    PROVE  /\ PointerValid(b) /\ HasPermission(sau, mpu, b, isWrite)
           /\ b.base + b.len < AddressSpace
<1> DEFINE e == b.base + b.len - 1
           r == SauRegions[board][k]
<1>1. b.base \in Nat /\ b.len \in Nat /\ e \in Nat /\ b.base <= e /\ AddressSpace \in Nat
  BY MemoryCheckAssumption DEF Buffer
<1>2. k \in Enabled(board)
  BY DEF Enabled
<1>3. r.base \in Nat /\ r.limit \in Nat
  BY <1>2, TableTypes
<1>4. mpu[j].base \in Nat \ {0} /\ mpu[j].limit \in Nat /\ mpu[j].limit + 1 < AddressSpace
  BY KernelRegions, Zenon
<1>5. ASSUME NEW x \in Nat, mpu[j].base <= x, x <= mpu[j].limit
      PROVE  Region(mpu, x) = {j}
  BY <1>5, OneOfMpu, ZenonT(30)
<1>6. /\ mpu[j].base <= b.base /\ e <= mpu[j].limit /\ r.base <= b.base /\ e <= r.limit
  BY DEF Inside
<1>7. IdauRegion(r.base) = IdauRegion(r.limit) /\ IdauRegion(r.base) % 2 = 0
  BY BoardAssumption, Zenon
<1> HIDE DEF e, r
<1>8. PICK i \in DOMAIN sau : f[i] = k
  <2>1. k \in 1 .. Len(SauRegions[board])
    <3>1. ASSUME NEW S, NEW s \in Seq(S) PROVE DOMAIN s = 1 .. Len(s)
      OBVIOUS
    <3>2. DOMAIN SauRegions[board] = 1 .. Len(SauRegions[board])
      BY <3>1, TableTypes
    <3>. QED BY <3>2
  <2>. QED BY <1>2, <2>1 DEF SauFrom
<1>9. sau[i] = r
  BY <1>8, SauEntries DEF r
<1>10. ASSUME NEW x \in Nat, b.base <= x, x <= e
      PROVE  /\ Region(mpu, x) = {j} /\ Region(sau, x) = {i}
             /\ IdauRegion(x) = IdauRegion(r.base) /\ NonSecure(sau, x)
  <2>1. mpu[j].base <= x /\ x <= mpu[j].limit /\ r.base <= x /\ x <= r.limit
    BY <1>1, <1>3, <1>4, <1>6, <1>10, SMTT(30)
  <2>2. Region(mpu, x) = {j}
    BY <1>5, <2>1
  <2>3. \E l \in DOMAIN sau : Region(sau, x) = {l} /\ f[l] = k
    BY <1>2, <2>1, OneOfSau DEF r
  <2>4. Region(sau, x) = {i}
    BY <1>8, <2>3, SauEntries
  <2>5. IdauRegion(x) = IdauRegion(r.base)
    BY <1>3, <1>7, <2>1, IdauOrder
  <2>6. NonSecure(sau, x)
    BY <1>7, <1>9, <2>4, <2>5 DEF NonSecure, r
  <2>. QED BY <2>2, <2>4, <2>5, <2>6
<1>11. /\ Region(mpu, b.base) = {j} /\ Region(sau, b.base) = {i} /\ NonSecure(sau, b.base)
       /\ IdauRegion(b.base) = IdauRegion(r.base)
  BY <1>1, <1>10
<1>12. /\ Region(mpu, e) = {j} /\ Region(sau, e) = {i} /\ NonSecure(sau, e)
       /\ IdauRegion(e) = IdauRegion(r.base)
  BY <1>1, <1>10
<1>13. Tt(sau, mpu, b.base) = Tt(sau, mpu, e)
  BY <1>11, <1>12 DEF Tt
<1>14. /\ b.base # 0 /\ b.base + b.len < AddressSpace /\ b.base + (b.len - 1) < AddressSpace
  <2> DEFINE low == mpu[j].base
             high == mpu[j].limit
             at == b.base
             n == b.len
  <2>1. /\ low \in Nat \ {0} /\ high \in Nat /\ at \in Nat /\ n \in Nat /\ AddressSpace \in Nat
        /\ high + 1 < AddressSpace /\ low <= at /\ at + n - 1 <= high
    BY <1>1, <1>4, <1>6, Zenon DEF e
  <2> HIDE DEF low, high, at, n
  <2>2. at # 0 /\ at + n < AddressSpace /\ at + (n - 1) < AddressSpace
    BY <2>1, BelowSpace, Zenon
  <2>. QED BY <2>2, Zenon DEF at, n
<1>15. RangeIsUniform(sau, mpu, b)
  BY <1>13, <1>14 DEF RangeIsUniform, e
<1>16. /\ ~Tt(sau, mpu, b.base).secure
       /\ Tt(sau, mpu, b.base).writable = (\E l \in {j} : mpu[l].write)
       /\ Tt(sau, mpu, b.base).readable = (\E l \in {j} : mpu[l].read)
  BY <1>11 DEF Tt
<1>17. IF isWrite THEN Tt(sau, mpu, b.base).writable ELSE Tt(sau, mpu, b.base).readable
  BY <1>16
<1>18. HasPermission(sau, mpu, b, isWrite)
  BY <1>14, <1>15, <1>16, <1>17 DEF HasPermission
<1>. QED BY <1>14, <1>18 DEF PointerValid

\* Buffers without a common byte pass the overlap test.
LEMMA SharingIsOverlap ==
    ASSUME NEW l \in Buffer, NEW r \in Buffer, l.len > 0, r.len > 0, Bytes(l) \cap Bytes(r) = {}
    PROVE  ~Overlap(l, r)
<1>1. l.base \in Nat /\ l.len \in Nat /\ r.base \in Nat /\ r.len \in Nat
  BY MemoryCheckAssumption DEF Buffer
<1>2. SUFFICES ASSUME Overlap(l, r) PROVE FALSE
  OBVIOUS
<1>3. CASE l.base <= r.base
  <2>1. r.base \in Bytes(l) /\ r.base \in Bytes(r)
    BY <1>1, <1>2, <1>3 DEF Bytes, Overlap
  <2>. QED BY <2>1
<1>4. CASE r.base <= l.base
  <2>1. l.base \in Bytes(l) /\ l.base \in Bytes(r)
    BY <1>1, <1>2, <1>4 DEF Bytes, Overlap
  <2>. QED BY <2>1
<1>. QED BY <1>1, <1>3, <1>4

LEMMA FewVectors ==
    ASSUME NEW b \in Boards, NEW p \in Procs,
           NEW ins \in InVecs(b, p) \cup {<<>>}, NEW outs \in OutVecs(b, p) \cup {<<>>}
    PROVE  Len(ins) + Len(outs) <= PSA_MAX_IOVEC
<1>1. Len(ins) \in 0 .. 2
  <2>1. CASE ins \in Buffers[b][p] \X Buffers[b][p]
    BY <2>1
  <2>2. CASE \E i \in Buffers[b][p] : ins = <<i>>
    BY <2>2
  <2>. QED BY <2>1, <2>2 DEF InVecs
<1>2. Len(outs) \in 0 .. 1
  BY DEF OutVecs
<1>3. PSA_MAX_IOVEC \in Nat /\ 3 <= PSA_MAX_IOVEC
  BY MemoryCheckAssumption, ClientsAssumption
<1>4. ASSUME NEW m \in 0 .. 2, NEW n \in 0 .. 1 PROVE m + n <= PSA_MAX_IOVEC
  BY <1>3
<1>. QED BY <1>1, <1>2, <1>4, Zenon

\* call_from_slices refuses nobody who passes his own memory.
LEMMA HonestAccepted ==
    ASSUME IInv, RestType, TablesInv, phase = "ns", NEW p \in Procs, Honest(p, request[p])
    PROVE  Accepted(p)
<1> DEFINE ins == request[p].ins
           outs == request[p].outs
           mpu == MpuRegions[board][p]
<1>1. board \in Boards /\ SauInv /\ spm = "Initialized"
  BY RunningDone DEF IInv, Types, TablesInv
<1>2. PICK f : SauFrom(f, Len(SauRegions[board]))
  BY RunningDone
<1>3. /\ \A i \in DOMAIN ins : ins[i] \in Buffer
      /\ \A i \in DOMAIN outs : outs[i] \in Buffer
  BY SeqElement DEF IInv, Types
<1>4. ASSUME NEW b \in Buffer, NEW isWrite \in BOOLEAN, b.len > 0,
             \E j \in DOMAIN mpu : Inside(b, mpu[j]) /\ IF isWrite THEN mpu[j].write ELSE mpu[j].read,
             \E k \in DOMAIN SauRegions[board] :
                 /\ Inside(b, SauRegions[board][k]) /\ SauRegions[board][k].attribute = "NonSecure"
      PROVE  /\ PointerValid(b) /\ HasPermission(sau, mpu, b, isWrite)
             /\ b.base + b.len < AddressSpace
  <2>1. PICK j \in DOMAIN mpu : Inside(b, mpu[j]) /\ IF isWrite THEN mpu[j].write ELSE mpu[j].read
    BY <1>4
  <2>2. PICK k \in DOMAIN SauRegions[board] :
          Inside(b, SauRegions[board][k]) /\ SauRegions[board][k].attribute = "NonSecure"
    BY <1>4
  <2>3. mpu = MpuRegions[board][p]
    OBVIOUS
  <2> HIDE DEF mpu
  <2>. QED BY <1>1, <1>2, <1>4, <2>1, <2>2, <2>3, GoodBuffer
<1>5. /\ \A i \in DOMAIN ins :
           /\ ins[i].len > 0 /\ PointerValid(ins[i]) /\ HasPermission(sau, mpu, ins[i], FALSE)
           /\ ins[i].base + ins[i].len < AddressSpace
      /\ \A i \in DOMAIN outs : PointerValid(outs[i]) /\ HasPermission(sau, mpu, outs[i], TRUE)
  BY <1>3, <1>4 DEF Honest
<1>6. \A i, j \in DOMAIN ins : i # j => Bytes(ins[i]) \cap Bytes(ins[j]) = {}
  BY DEF Honest
<1>7. DOMAIN ins \subseteq Nat
  BY DEF IInv, Types
<1> HIDE DEF ins, outs, mpu
<1>8. PayloadsApart(ins)
  <2> SUFFICES ASSUME NEW i \in DOMAIN ins, NEW j \in DOMAIN ins, i < j
               PROVE  /\ ins[i].base + ins[i].len < AddressSpace
                      /\ ins[j].base + ins[j].len < AddressSpace
                      /\ ~Overlap(ins[i], ins[j])
    BY DEF PayloadsApart
  <2>1. i # j
    BY <1>7
  <2>2. Bytes(ins[i]) \cap Bytes(ins[j]) = {}
    BY <1>6, <2>1
  <2>3. ins[i] \in Buffer /\ ins[j] \in Buffer /\ ins[i].len > 0 /\ ins[j].len > 0
    BY <1>3, <1>5
  <2>4. ~Overlap(ins[i], ins[j])
    BY <2>2, <2>3, SharingIsOverlap
  <2>. QED BY <1>5, <2>4
<1>9. Len(ins) + Len(outs) <= PSA_MAX_IOVEC
  BY <1>1, FewVectors DEF RestType, ins, outs
<1>10. CallAccepted(sau, mpu, ins, outs)
  BY <1>5, <1>8, <1>9 DEF CallAccepted
<1>. QED BY <1>1, <1>10 DEF Accepted, ins, outs, mpu

LEMMA HonestStep ==
    ASSUME IInv, RestType, TablesInv, HonestInv, [Next]_vars
    PROVE  HonestInv'
<1>1. CASE Boots \/ StartKernel
  <2>1. UNCHANGED <<board, stage, request, answer>>
    BY <1>1, BootAtRest
  <2>2. \A q \in Procs : Honest(q, request[q])' <=> Honest(q, request[q])
    BY <2>1 DEF Honest, Inside
  <2>. QED BY <2>1, <2>2 DEF HonestInv
<1>2. CASE ResetAll
  BY <1>2 DEF ResetAll, Begin, HonestInv
<1>3. CASE ClientStep \/ UNCHANGED vars
  <2>1. UNCHANGED board
    BY <1>3, ClientsLeaveBoot DEF BootDone
  <2>2. ASSUME NEW q \in Procs, stage'[q] \in {"leaving", "returned"}
        PROVE  answer'[q] = "done" \/ ~Honest(q, request[q])'
    <3>1. \/ UNCHANGED <<stage[q], request[q], answer[q]>>
          \/ /\ request'[q] = request[q] /\ phase = "ns"
             /\ \/ answer'[q] = "done" \/ ~Accepted(q)
                \/ stage[q] = "leaving" /\ answer'[q] = answer[q]
      BY <1>3, <2>2, ProcessStep DEF Outside
    <3>2. request'[q] = request[q]
      BY <3>1
    <3>3. Honest(q, request[q])' <=> Honest(q, request[q])
      BY <2>1, <3>2 DEF Honest, Inside
    <3>. QED BY <2>2, <3>1, <3>3, HonestAccepted DEF HonestInv
  <2>. QED BY <2>2 DEF HonestInv
<1>. QED BY <1>1, <1>2, <1>3, NextParts

\* A process that has reserved the SPE and passes its own memory gets to the
\* service (veneers.rs:66, api.rs:11, connection.rs:139-202): for any board
\* whose non-secure regions lie in one block of the IDAU.
THEOREM HonestServed == Spec => []HonestCallServed
<1>1. Init => HonestInv
  BY DEF Init, HonestInv, Begin
<1>2. IInv /\ RestType /\ TablesInv /\ HonestInv /\ [Next]_vars => HonestInv'
  BY HonestStep
<1>3. HonestInv => HonestCallServed
  BY DEF HonestInv, HonestCallServed
<1>. QED BY <1>1, <1>2, <1>3, Invariance, ServedInvariance, TablesInvariance, PTL DEF Spec
===============================================================================
