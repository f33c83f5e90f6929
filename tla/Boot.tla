--------------------------------- MODULE Boot ---------------------------------
(***************************************************************************)
(* The secure image from reset to the jump into the non-secure one: RAM is *)
(* initialised (startup.rs), the console, the interrupts, the peripheral   *)
(* and memory protection and the SPM's once lock are set up, in the order  *)
(* of start() in the boards' main.rs.                                      *)
(*                                                                         *)
(* The system may be reset at any moment.  Registers then have their reset *)
(* values, and RAM what it had: only the startup code stands between a     *)
(* static of the next boot and a value of the last one.                    *)
(***************************************************************************)
EXTENDS MemoryCheck, Ppc

CONSTANTS
    Boards,        \* "psc3m5_evk", "psc3m5_evk_ipc" and "musca_b1"
    SauRegions,    \* [Boards -> sequence of the regions in the order of set_region]
    SauCount,      \* SAU_TYPE.SREGION
    MpcJobs,       \* [Boards -> sequence of the calls of set_non_secure]: the
                   \* memory of the controller, and the bytes to open
    WordBits,      \* 32: the blocks in a word of the table, the interrupts in
                   \* a word of the NVIC
    LastNsIrq,     \* [Boards -> end_id in the call of set_interrupt_non_secure]
    NvicWords,     \* [Boards -> number_of_nvic_registers]
    DataWords,     \* words of .data
    Message,       \* bytes of "Init SPE done, jumping to non-secure"
    Console        \* [Boards -> [addr, region]]: what the non-secure image
                   \* writes to: its address, and its PPC region or SPCB bit

\* Mpc::new computes the size from the number of the table's words; the memory
\* begins where a block may begin.
ASSUME BootAssumption ==
    /\ Boards \subseteq {"psc3m5_evk", "psc3m5_evk_ipc", "musca_b1"}
    /\ DataWords \in Nat
    /\ WordBits \in Nat \ {0}
    /\ MpcJobs \in [Boards -> Seq([memory : Nat, size : Nat, base : Nat, limit : Nat,
                                  blockSize : Nat \ {0}])]
    /\ \A b \in Boards : \A j \in DOMAIN MpcJobs[b] : LET m == MpcJobs[b][j] IN
         m.memory % m.blockSize = 0 /\ m.size % (m.blockSize * WordBits) = 0
    /\ \A b \in Boards : b # "musca_b1" => MpcJobs[b] = <<>>

VARIABLES
    board,
    phase,         \* a phase of Order(board); "failed" after an Err of start()
                   \* for the chip, "halted" after a panic or in an endless loop
    cursor,        \* the rounds done of the loop of the phase
    ram,           \* the flags of static_buf! that are set, and .data
    spm,           \* state of the once lock
    inSecureState, \* IN_SECURE_STATE
    uart,          \* transmitter enabled, and a byte in its holding register
    regs,          \* NVIC, AIRCR, PPC and SPCB
    sau,           \* the enabled regions
    lut,           \* for each call of set_non_secure, the controller's table
    job,           \* the next, or the running, call of set_non_secure
    loop           \* its locals: block, current_idx, current_lut

bootVars == <<board, phase, cursor, ram, spm, inSecureState, uart, regs, sau, lut, job, loop>>

------------------------------------------------------------------------------
(* The order of start(). *)

Psc3Order ==
    <<"bss", "data", "init", "serial", "nvic", "aircr",
      "nsAttrs", "nsPAttrs", "pcMasks", "lock",       \* configure_security
      "sau", "statics", "spm", "jump", "kernel", "capsules", "ns">>

Psc3IpcOrder ==
    <<"bss", "data", "init", "serial", "nvic", "aircr",
      "nsAttrs", "nsPAttrs", "pcMasks", "lock",       \* configure_security
      "sau", "statics", "spm", "jump", "kernel", "capsules", "ns">>

MuscaOrder ==
    <<"bss", "data", "serial", "nvic", "aircr", "statics", "sau", "spm",
      "nscCode", "uart1", "mpc", "message", "jump", "kernel", "ns">>

Order(b) ==
    CASE b = "psc3m5_evk" -> Psc3Order
      [] b = "psc3m5_evk_ipc" -> Psc3IpcOrder
      [] b = "musca_b1" -> MuscaOrder

Phases == (UNION {{Order(b)[i] : i \in DOMAIN Order(b)} : b \in Boards}) \cup {"failed", "halted"}

HasPpc(b) == b # "musca_b1"

Attributes == {"Secure", "NonSecure", "NonSecureCallable"}

\* Regions of a board's SAU table that are written with the enable bit set.
Enabled(b) == {k \in DOMAIN SauRegions[b] : SauRegions[b][k].attribute # "Secure"}

\* The tables: a board has veneers, and gives the port of its non-secure image
\* to it wherever something protects the port.
ASSUME TableAssumption ==
    /\ LastNsIrq \in [Boards -> Nat] /\ NvicWords \in [Boards -> Nat]
    /\ SauRegions \in [Boards -> Seq([base : Nat, limit : Nat, attribute : Attributes])]
    /\ \A b \in Boards :
        /\ \E k \in Enabled(b) : SauRegions[b][k].attribute = "NonSecureCallable"
        /\ \E k \in Enabled(b) :
            /\ SauRegions[b][k].attribute = "NonSecure"
            /\ {l \in Enabled(b) : /\ SauRegions[b][l].base <= Console[b].addr
                                   /\ Console[b].addr <= SauRegions[b][l].limit} = {k}
        /\ Console[b].addr \in Nat /\ IdauRegion(Console[b].addr) % 2 = 0
        /\ IF HasPpc(b)
           THEN Console[b].region \in
                   PpcRegion \ (NS_SECURE_ONLY_REGIONS \cup PC_MASK_EXCLUDED_REGIONS)
           ELSE Console[b].region = "uart1"

\* The phase behind this one.
Advance ==
    /\ \E i \in DOMAIN Order(board) :
        Order(board)[i] = phase /\ phase' = Order(board)[i + 1]
    /\ cursor' = 0

Halt == phase' = "halted" /\ UNCHANGED cursor

Round == cursor' = cursor + 1 /\ UNCHANGED phase

------------------------------------------------------------------------------
(* Reset. *)

Idle == [block |-> 0, idx |-> -1, word |-> {}]

Bits == 0 .. WordBits - 1

\* Words 0 .. blk_max of a controller.
Words(m) == 0 .. (m.size \div (m.blockSize * WordBits)) - 1

\* The words the PPC holds after a reset are not the code's to know: all
\* clear, or all set.
ResetAttrs(b) == IF HasPpc(b) THEN {{}, AttrBits} ELSE {{}}

ResetRegs(b, attr) ==
    [itns |-> [w \in 0 .. NvicWords[b] - 1 |-> {}], enabled |-> {},
     sysresetreqs |-> FALSE, busError |-> FALSE,
     nsAttrs |-> [w \in AttrWords |-> attr], nsPAttrs |-> [w \in AttrWords |-> attr],
     pcMasks |-> [w \in MaskWords |-> IF attr = {} THEN {} ELSE MaskSlots], locked |-> FALSE,
     nscCode |-> FALSE, apbNs |-> {}]

ClosedLut(b) == [j \in DOMAIN MpcJobs[b] |-> [w \in Words(MpcJobs[b][j]) |-> {}]]

Statics == {"serial", "platform"}
StaleData == [w \in 1 .. DataWords |-> "stale"]

\* Power-on: RAM holds anything.
BootInit ==
    /\ board \in Boards
    /\ phase = "bss" /\ cursor = 0
    /\ ram \in [used : {{}, Statics}, data : {StaleData}]
    /\ spm \in {"Uninitialized", "Initialized"}
    /\ inSecureState \in BOOLEAN
    /\ uart = [on |-> FALSE, full |-> FALSE]
    /\ \E attr \in ResetAttrs(board) : regs = ResetRegs(board, attr)
    /\ sau = <<>>
    /\ lut = ClosedLut(board)
    /\ job = 1 /\ loop = Idle

\* At any moment: what is in RAM stays.
Reset ==
    /\ phase' = "bss" /\ cursor' = 0
    /\ ram' = [ram EXCEPT !.data = StaleData]
    /\ uart' = [on |-> FALSE, full |-> FALSE]
    /\ \E attr \in ResetAttrs(board) : regs' = ResetRegs(board, attr)
    /\ sau' = <<>>
    /\ lut' = ClosedLut(board)
    /\ job' = 1 /\ loop' = Idle
    /\ UNCHANGED <<board, spm, inSecureState>>

------------------------------------------------------------------------------
(* sec_initialize_ram_jump_to_main. *)

\* The words of .bss the model tells apart, in some order of the linker.
Bss == <<"used", "spm", "inSecureState">>

ZeroBssToLast ==                               \* mutant of ZeroBss
    /\ phase = "bss"
    /\ IF cursor = Len(Bss) - 1
       THEN Advance /\ UNCHANGED <<ram, spm, inSecureState>>
       ELSE /\ ram' = IF Bss[cursor + 1] = "used" THEN [ram EXCEPT !.used = {}] ELSE ram
            /\ spm' = IF Bss[cursor + 1] = "spm" THEN "Uninitialized" ELSE spm
            /\ inSecureState' = (Bss[cursor + 1] # "inSecureState" /\ inSecureState)
            /\ Round
    /\ UNCHANGED <<board, uart, regs, sau, lut, job, loop>>

\* cmp, beq: the loop ends at equality.
ZeroBss ==
    /\ phase = "bss"
    /\ IF cursor = Len(Bss)
       THEN Advance /\ UNCHANGED <<ram, spm, inSecureState>>
       ELSE /\ ram' = IF Bss[cursor + 1] = "used" THEN [ram EXCEPT !.used = {}] ELSE ram
            /\ spm' = IF Bss[cursor + 1] = "spm" THEN "Uninitialized" ELSE spm
            /\ inSecureState' = (Bss[cursor + 1] # "inSecureState" /\ inSecureState)
            /\ Round
    /\ UNCHANGED <<board, uart, regs, sau, lut, job, loop>>

CopyData ==
    /\ phase = "data"
    /\ IF cursor = DataWords THEN Advance /\ UNCHANGED ram
       ELSE ram' = [ram EXCEPT !.data[cursor + 1] = "image"] /\ Round
    /\ UNCHANGED <<board, spm, inSecureState, uart, regs, sau, lut, job, loop>>

------------------------------------------------------------------------------
(* start. *)

\* init_system, configure_gpio_secure_states and init_scb0_uart_pins.
InitChip ==
    /\ phase = "init"
    /\ Advance
    /\ UNCHANGED <<board, ram, spm, inSecureState, uart, regs, sau, lut, job, loop>>

\* An Err of one of them: main loops.
InitChipFails ==
    /\ phase = "init"
    /\ phase' = "failed"
    /\ UNCHANGED <<board, cursor, ram, spm, inSecureState, uart, regs, sau, lut, job, loop>>

\* static_init!: a buffer whose flag is set already is never handed out again.
StaticInit(static) ==
    IF static \in ram.used THEN Halt /\ UNCHANGED ram
    ELSE ram' = [ram EXCEPT !.used = @ \cup {static}] /\ Advance

ConfigureLeavesOff ==                          \* mutant of InitSerial
    /\ phase = "serial"
    /\ StaticInit("serial")
    /\ UNCHANGED <<board, uart, spm, inSecureState, regs, sau, lut, job, loop>>

\* UartMin::configure, or set_standard_uart_mode and enable_scb: the port is
\* off while its line settings change, and on with its transmitter at the end.
InitSerial ==
    /\ phase = "serial"
    /\ StaticInit("serial")
    /\ uart' = [on |-> TRUE, full |-> FALSE]
    /\ UNCHANGED <<board, spm, inSecureState, regs, sau, lut, job, loop>>

\* The interrupts of a word from start_id, which is 0, to end_id, inclusive.
NonSecureIrqs(b, w) == {i \in Bits : w * WordBits + i <= LastNsIrq[b]}

\* set_interrupt_non_secure, a word a round, then enable_all.
ConfigureNvic ==
    /\ phase = "nvic"
    /\ IF cursor <= LastNsIrq[board] \div WordBits
       THEN /\ regs' = [regs EXCEPT !.itns[cursor] = @ \cup NonSecureIrqs(board, cursor)]
            /\ Round
       ELSE regs' = [regs EXCEPT !.enabled = DOMAIN regs.itns] /\ Advance
    /\ UNCHANGED <<board, ram, spm, inSecureState, uart, sau, lut, job, loop>>

\* set_msplim and configure_aircr: only secure code may ask for a reset.
ConfigureAircr ==
    /\ phase = "aircr"
    /\ regs' = [regs EXCEPT !.sysresetreqs = TRUE]
    /\ Advance
    /\ UNCHANGED <<board, ram, spm, inSecureState, uart, sau, lut, job, loop>>

\* configure_bulk_ns_attrs, behind set_viloation_response.
ConfigureNsAttrs ==
    /\ phase = "nsAttrs"
    /\ IF cursor \in AttrWords
       THEN /\ regs' = [regs EXCEPT !.nsAttrs[cursor] = BuildNsAttrs[cursor], !.busError = TRUE]
            /\ Round
       ELSE Advance /\ UNCHANGED regs
    /\ UNCHANGED <<board, ram, spm, inSecureState, uart, sau, lut, job, loop>>

ConfigureNsPAttrs ==
    /\ phase = "nsPAttrs"
    /\ IF cursor \in AttrWords
       THEN regs' = [regs EXCEPT !.nsPAttrs[cursor] = BuildNsPAttrs[cursor]] /\ Round
       ELSE Advance /\ UNCHANGED regs
    /\ UNCHANGED <<board, ram, spm, inSecureState, uart, sau, lut, job, loop>>

ConfigurePcMasks ==
    /\ phase = "pcMasks"
    /\ IF cursor \in MaskWords
       THEN regs' = [regs EXCEPT !.pcMasks[cursor] = BuildPcMasks[cursor]] /\ Round
       ELSE Advance /\ UNCHANGED regs
    /\ UNCHANGED <<board, ram, spm, inSecureState, uart, sau, lut, job, loop>>

LockProtectionContexts ==
    /\ phase = "lock"
    /\ regs' = [regs EXCEPT !.locked = TRUE]
    /\ Advance
    /\ UNCHANGED <<board, ram, spm, inSecureState, uart, sau, lut, job, loop>>

\* set_region: an Err ends configure_security, or is unwrapped; after the last
\* region the SAU is enabled.
SetRegion ==
    /\ phase = "sau"
    /\ IF cursor = Len(SauRegions[board]) THEN Advance /\ UNCHANGED sau
       ELSE IF cursor < SauCount /\ SauAligned(SauRegions[board][cursor + 1])
       THEN sau' = WithRegion(sau, SauRegions[board][cursor + 1]) /\ Round
       ELSE Halt /\ UNCHANGED sau
    /\ UNCHANGED <<board, ram, spm, inSecureState, uart, regs, lut, job, loop>>

\* The platform, its services and the SPM.
InitStatics ==
    /\ phase = "statics"
    /\ StaticInit("platform")
    /\ UNCHANGED <<board, spm, inSecureState, uart, regs, sau, lut, job, loop>>

\* SPM.try_set, whose result is dropped: nobody else uses the lock yet.
SetSpm ==
    /\ phase = "spm"
    /\ spm' = "Initialized"
    /\ Advance
    /\ UNCHANGED <<board, ram, inSecureState, uart, regs, sau, lut, job, loop>>

EnableIdauNscCode ==
    /\ phase = "nscCode"
    /\ regs' = [regs EXCEPT !.nscCode = TRUE]
    /\ Advance
    /\ UNCHANGED <<board, ram, spm, inSecureState, uart, sau, lut, job, loop>>

EnableUart1Ns ==
    /\ phase = "uart1"
    /\ regs' = [regs EXCEPT !.apbNs = @ \cup {"uart1"}]
    /\ Advance
    /\ UNCHANGED <<board, ram, spm, inSecureState, uart, sau, lut, job, loop>>

StartBlock(m) == (m.base - m.memory) \div m.blockSize
EndBlock(m) == (m.limit + 1 - m.memory) \div m.blockSize

\* The assertions of set_non_secure: it panics otherwise.
CanSetNonSecure(m) ==
    /\ m.memory <= m.base /\ m.base < m.limit /\ m.limit <= m.memory + m.size - 1
    /\ m.base % m.blockSize = 0
    /\ (m.limit + 1) % m.blockSize = 0

Jobs == MpcJobs[board]

OnlyMpc == UNCHANGED <<board, ram, spm, inSecureState, uart, regs, sau>>

\* set_non_secure reads the word of the first block.
BeginMpc ==
    /\ phase = "mpc" /\ job \in DOMAIN Jobs /\ loop = Idle
    /\ LET first == StartBlock(Jobs[job]) IN
         IF CanSetNonSecure(Jobs[job])
         THEN /\ loop' = [block |-> first, idx |-> first \div WordBits,
                          word |-> lut[job][first \div WordBits]]
              /\ UNCHANGED <<phase, cursor>>
         ELSE Halt /\ UNCHANGED loop
    /\ OnlyMpc /\ UNCHANGED <<lut, job>>

InJob == phase = "mpc" /\ job \in DOMAIN Jobs /\ loop # Idle

LoopInRange ==
    /\ loop.block \in StartBlock(Jobs[job]) .. EndBlock(Jobs[job])
    /\ loop.idx \in Words(Jobs[job])
    /\ loop.word \subseteq Bits

MarkBlockAtEnd ==                              \* mutant of MarkBlock
    /\ InJob /\ loop.block <= EndBlock(Jobs[job])
    /\ loop.block \div WordBits = loop.idx
    /\ loop' = [loop EXCEPT !.word = @ \cup {loop.block % WordBits}, !.block = @ + 1]
    /\ OnlyMpc /\ UNCHANGED <<phase, cursor, lut, job>>

\* A block of the word in hand: its bit is set there.
MarkBlock ==
    /\ InJob /\ loop.block < EndBlock(Jobs[job])
    /\ loop.block \div WordBits = loop.idx
    /\ loop' = [loop EXCEPT !.word = @ \cup {loop.block % WordBits}, !.block = @ + 1]
    /\ OnlyMpc /\ UNCHANGED <<phase, cursor, lut, job>>

WriteWordLate ==                               \* mutant of NextWord
    LET idx == loop.block \div WordBits IN
    /\ InJob /\ loop.block < EndBlock(Jobs[job]) /\ idx # loop.idx
    /\ lut' = [lut EXCEPT ![job][idx] = loop.word]
    /\ loop' = [block |-> loop.block + 1, idx |-> idx,
                word |-> lut'[job][idx] \cup {loop.block % WordBits}]
    /\ OnlyMpc /\ UNCHANGED <<phase, cursor, job>>

\* The first block of the next word: the word in hand is written back, and the
\* next one is read and marked.
NextWord ==
    LET idx == loop.block \div WordBits IN
    /\ InJob /\ loop.block < EndBlock(Jobs[job]) /\ idx # loop.idx
    /\ lut' = [lut EXCEPT ![job][loop.idx] = loop.word]
    /\ loop' = [block |-> loop.block + 1, idx |-> idx,
                word |-> lut[job][idx] \cup {loop.block % WordBits}]
    /\ OnlyMpc /\ UNCHANGED <<phase, cursor, job>>

EndMpc ==
    /\ InJob /\ loop.block = EndBlock(Jobs[job])
    /\ lut' = [lut EXCEPT ![job][loop.idx] = loop.word]
    /\ job' = job + 1 /\ loop' = Idle
    /\ OnlyMpc /\ UNCHANGED <<phase, cursor>>

MpcDone ==
    /\ phase = "mpc" /\ job \notin DOMAIN Jobs
    /\ Advance
    /\ OnlyMpc /\ UNCHANGED <<lut, job, loop>>

\* debugln: send_byte spins while the holding register is full (the FIFO is
\* off).
SendByte ==
    /\ phase = "message"
    /\ IF cursor = Message THEN Advance /\ UNCHANGED uart
       ELSE ~uart.full /\ uart' = [uart EXCEPT !.full = TRUE] /\ Round
    /\ UNCHANGED <<board, ram, spm, inSecureState, regs, sau, lut, job, loop>>

\* The port shifts the byte out, if its transmitter is on.
Transmit ==
    /\ uart.full /\ uart.on
    /\ uart' = [uart EXCEPT !.full = FALSE]
    /\ UNCHANGED <<board, phase, cursor, ram, spm, inSecureState, regs, sau, lut, job, loop>>

\* jump_to_nonsecure: stack pointer and reset handler are read from the start
\* of the non-secure flash.
Jump ==
    /\ phase = "jump"
    /\ Advance
    /\ UNCHANGED <<board, ram, spm, inSecureState, uart, regs, sau, lut, job, loop>>

BootStep ==
    \/ ZeroBss \/ CopyData
    \/ InitChip \/ InitChipFails \/ InitSerial
    \/ ConfigureNvic \/ ConfigureAircr
    \/ ConfigureNsAttrs \/ ConfigureNsPAttrs \/ ConfigurePcMasks \/ LockProtectionContexts
    \/ SetRegion \/ InitStatics \/ SetSpm
    \/ EnableIdauNscCode \/ EnableUart1Ns
    \/ BeginMpc \/ MarkBlock \/ NextWord \/ EndMpc \/ MpcDone
    \/ SendByte \/ Transmit
    \/ Jump

------------------------------------------------------------------------------

\* The non-secure image runs.
Running == phase \in {"kernel", "capsules", "ns"}

\* The bytes of a memory that the controllers in front of it let non-secure
\* accesses reach.
Open(a) ==
    \A j \in DOMAIN Jobs :
        LET m == Jobs[j]
            block == (a - m.memory) \div m.blockSize
        IN  m.memory <= a /\ a < m.memory + m.size =>
                block % WordBits \in lut[j][block \div WordBits]

\* The words that leave exactly the bytes asked for open.
Asked == [b \in Boards |-> [j \in DOMAIN MpcJobs[b] |->
    LET m == MpcJobs[b][j] IN
    [w \in Words(m) |-> {k \in Bits :
        LET a == m.memory + (w * WordBits + k) * m.blockSize IN
        m.base <= a /\ a <= m.limit}]]]

\* At no moment of the loop is a block open that set_non_secure (mpc.rs:82) was
\* not asked to open, also when the range begins and ends inside a word, and
\* before the non-secure image runs each block it was asked for is open.
MpcOpensExactly ==
    /\ \A j \in DOMAIN Jobs : \A w \in DOMAIN lut[j] : lut[j][w] \subseteq Asked[board][j][w]
    /\ Running => lut = Asked[board]

\* From main on no static has a value of the boot before, whenever the system
\* was reset: .data is that of the image, and until they are set in this boot
\* the once lock is unset, the gate open and each static_buf! unused
\* (startup.rs:19-64).
StaticsFresh ==
    phase \notin {"bss", "data"} =>
        /\ \A w \in DOMAIN ram.data : ram.data[w] = "image"
        /\ ~(Running \/ phase = "jump") => ~inSecureState
        /\ phase \in {"init", "serial"} => ram.used = {} /\ spm = "Uninitialized"

\* When the non-secure image starts, whatever the registers held before: each
\* region of the PPC is what the policy says (security.rs:18-31: "all regions
\* are non-secure except this allowlist", "only these non-secure regions are
\* non-privileged", "all regions get PC=0xFF except these exclusions"), the
\* masks of no region are clear and all are locked; the interrupts up to
\* end_id, inclusive, are non-secure (nvic.rs:139) and no other; the veneers
\* can be called; and the port that the image writes to is open to it in the
\* SAU, where regions 3 and 4 of musca_b1 overlap, and in the controller.
PeripheralsAsMeant ==
    phase = "kernel" =>
        /\ \A w \in DOMAIN regs.itns, i \in Bits :
             i \in regs.itns[w] <=> w * WordBits + i <= LastNsIrq[board]
        /\ HasPpc(board) =>
             /\ \A r \in PpcRegion :
                  /\ AttrSet(regs.nsAttrs, r) <=> r \notin NS_SECURE_ONLY_REGIONS
                  /\ AttrSet(regs.nsPAttrs, r) <=> r \in NS_UNPRIVILEGED_REGIONS
                  /\ MaskSet(regs.pcMasks, r) <=> r \notin PC_MASK_EXCLUDED_REGIONS
             /\ \A w \in MaskWords, k \in MaskSlots :
                  k \in regs.pcMasks[w] => w * REGIONS_PER_PC_MASK_REG + k \in PpcRegion
             /\ regs.locked
        /\ \E i \in DOMAIN sau : sau[i].attribute = "NonSecureCallable"
        /\ board = "musca_b1" => regs.nscCode
        /\ NonSecure(sau, Console[board].addr)
        /\ IF HasPpc(board)
           THEN /\ AttrSet(regs.nsAttrs, Console[board].region)
                /\ MaskSet(regs.pcMasks, Console[board].region)
           ELSE Console[board].region \in regs.apbNs

\* If resets end, the last boot ends: with the kernel running, or where the
\* chip could not be set up.  No static is found used, no region or range is
\* refused, and no loop, send_byte's included, runs for ever.
BootEnds == <>[][~Reset]_bootVars => <>[](phase \in {"ns", "failed"})
===============================================================================
