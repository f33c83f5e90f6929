----------------------------- MODULE TockClients -----------------------------
(***************************************************************************)
(* The processes of the Tock kernel as clients of the secure world.  The   *)
(* kernel starts its capsules, the SpeMutex driver among them, and loads   *)
(* the processes.  A process asks on the console for a nonce, or sleeps on *)
(* an alarm (the two builds of tock_psa_app/src/main.rs), reserves the SPE *)
(* with the driver, makes one psa_call and releases, in a loop; where it   *)
(* is refused it waits for an upcall.  The veneer refuses whoever finds    *)
(* the secure world occupied, and call_from_slices whoever passes memory   *)
(* that is not his.                                                        *)
(*                                                                         *)
(* A process takes a step only while the kernel has scheduled it, so the   *)
(* non-secure MPU holds its regions in each of its steps.  What the SPM    *)
(* and the services do behind the checks is SpmFn, SecureEntry and         *)
(* Attestation; here they read and write the vectors in one step.  A reset *)
(* may come at any moment.                                                 *)
(***************************************************************************)
EXTENDS Boot

CONSTANTS
    Procs,
    NoProc,
    Interactive,   \* the processes that run create_psa_token; the others run
                   \* test_loop_token
    Lines,         \* what may be typed at the prompt: sequences of hex
                   \* digits, and of NoDigit for any other character
    NonceBytes,    \* 32
    MpuRegions,    \* [Boards -> [Procs -> the regions the kernel gives it]]
    Buffers        \* [Boards -> [Procs -> the buffers it may pass]]

Digits == 0 .. 15
NoDigit == 16

ASSUME ClientsAssumption ==
    /\ NoProc \notin Procs /\ Interactive \subseteq Procs
    /\ Lines \subseteq Seq(Digits \cup {NoDigit}) /\ NonceBytes \in Nat
    /\ \A b \in Boards, p \in Procs : Buffers[b][p] \subseteq Buffer
    /\ 3 <= PSA_MAX_IOVEC

\* No byte in both.
Apart(r, s) == r.limit < s.base \/ s.limit < r.base

\* The regions a kernel gives a process: of whole granules, apart from each
\* other, neither at null nor at the end of the address space; and none where
\* two regions of the SAU overlap, as two of musca_b1 do, which is what makes
\* the answers at two ends speak for the bytes between.
ASSUME KernelAssumption ==
    \A b \in Boards, p \in Procs : LET mpu == MpuRegions[b][p] IN
        /\ mpu \in Seq([base : Nat \ {0}, limit : 0 .. AddressSpace - 2,
                        read : BOOLEAN, write : BOOLEAN])
        /\ \A i \in DOMAIN mpu : SauAligned(mpu[i])
        /\ \A i, j \in DOMAIN mpu : i # j => Apart(mpu[i], mpu[j])
        /\ \A k, l \in Enabled(b) : k # l => \A i \in DOMAIN mpu :
             LET r == SauRegions[b][k]
                 s == SauRegions[b][l]
             IN  Apart(r, s) \/ Apart(r, mpu[i]) \/ Apart(s, mpu[i])

\* The regions a board gives the non-secure world: none crosses into a secure
\* alias, and where a memory controller stands in front of one it is asked for
\* what the region has of its memory.
ASSUME BoardAssumption ==
    \A b \in Boards : \A k \in DOMAIN SauRegions[b] : LET r == SauRegions[b][k] IN
        r.attribute = "NonSecure" =>
            /\ IdauRegion(r.base) = IdauRegion(r.limit) /\ IdauRegion(r.base) % 2 = 0
            /\ \A j \in DOMAIN MpcJobs[b] : LET m == MpcJobs[b][j] IN
                 /\ CanSetNonSecure(m)
                 /\ \/ r.limit < m.memory \/ m.memory + m.size <= r.base
                    \/ /\ m.base <= r.base \/ m.base = m.memory
                       /\ r.limit <= m.limit \/ m.limit = m.memory + m.size - 1

VARIABLES
    owner,          \* SpeMutex.owner
    stage,          \* where each process is
    dialog,         \* of create_psa_token: the line accepted last, and nonce
    request,        \* the vectors of its call
    answer          \* "error" or "done" once psa_call has returned

clientVars == <<owner, stage, dialog, request, answer>>
vars == <<bootVars, clientVars>>

Stages == {"prompt", "accepted", "work", "yielded", "reserved", "asleep", "building", "calling",
           "inside", "serving", "leaving", "returned", "dead"}

NoDialog == [typed |-> <<>>, nonce |-> [i \in 1 .. NonceBytes |-> 0]]
NoRequest == [ins |-> <<>>, outs |-> <<>>]

\* One input or two, as the functions of psa_api pass them, and one output.
InVecs(b, p) == {<<i>> : i \in Buffers[b][p]} \cup (Buffers[b][p] \X Buffers[b][p])
OutVecs(b, p) == {<<o>> : o \in Buffers[b][p]}

TypeOK ==
    /\ board \in Boards
    /\ phase \in Phases
    /\ spm \in {"Uninitialized", "Initialized"}
    /\ InJob => LoopInRange
    /\ owner \in Procs \cup {NoProc}
    /\ inSecureState \in BOOLEAN
    /\ stage \in [Procs -> Stages]
    /\ \A p \in Procs : dialog[p].nonce \in [1 .. NonceBytes -> 0 .. 255]
    /\ \A p \in Procs :
        /\ request[p].ins \in InVecs(board, p) \cup {<<>>}
        /\ request[p].outs \in OutVecs(board, p) \cup {<<>>}
    /\ answer \in [Procs -> {"none", "error", "done"}]

Begin(p) == IF p \in Interactive THEN "prompt" ELSE "work"

Init ==
    /\ BootInit
    /\ owner = NoProc
    /\ stage = [p \in Procs |-> Begin(p)]
    /\ dialog = [p \in Procs |-> NoDialog]
    /\ request = [p \in Procs |-> NoRequest]
    /\ answer = [p \in Procs |-> "none"]

\* Of the clients only the static of the driver is told apart after a reset.
ResetAll ==
    /\ Reset
    /\ stage' = [p \in Procs |-> Begin(p)]
    /\ dialog' = [p \in Procs |-> NoDialog]
    /\ request' = [p \in Procs |-> NoRequest]
    /\ answer' = [p \in Procs |-> "none"]
    /\ UNCHANGED owner

------------------------------------------------------------------------------
(* The kernel's start(). *)

KernelOnly ==
    UNCHANGED <<board, ram, spm, inSecureState, uart, regs, sau, lut, job, loop,
                stage, dialog, request, answer>>

\* Vector table, stack limit, peripherals, chip, alarm and console.
StartKernelPsc3 ==
    /\ phase = "kernel" /\ HasPpc(board)
    /\ Advance
    /\ KernelOnly /\ UNCHANGED owner

\* Pins, LED, button, scheduler, SpeMutex::new and load_processes, whose error
\* is only reported.
StartCapsulesPsc3 ==
    /\ phase = "capsules"
    /\ owner' = NoProc
    /\ Advance
    /\ KernelOnly

\* InitError: main spins, or unwrap panics.
StartFailsPsc3 ==
    /\ phase \in {"kernel", "capsules"} /\ HasPpc(board)
    /\ phase' = "failed"
    /\ KernelOnly /\ UNCHANGED <<cursor, owner>>

StartKernelMusca ==
    /\ phase = "kernel" /\ board = "musca_b1"
    /\ owner' = NoProc
    /\ Advance
    /\ KernelOnly

StartKernel == StartKernelPsc3 \/ StartCapsulesPsc3 \/ StartFailsPsc3 \/ StartKernelMusca

Psc3Drivers == {"console", "alarm", "ipc", "led", "button", "gpio", "spe"}
MuscaDrivers == {"console", "alarm", "ipc", "spe"}

\* with_driver of the platform.
Found(driver) == driver \in (IF board = "musca_b1" THEN MuscaDrivers ELSE Psc3Drivers)

------------------------------------------------------------------------------
(* create_psa_token, up to the reservation. *)

At(p, s) == phase = "ns" /\ stage[p] = s

Goto(p, s) == stage' = [stage EXCEPT ![p] = s]

\* parse_hex, a character a step: the bytes so far, and the digit that waits
\* for its second one.  What is no digit is skipped, and takes a
\* digit in front of it along.
HexStep(acc, c) ==
    IF Len(acc.out) = NonceBytes THEN acc
    ELSE IF c \notin Digits THEN [acc EXCEPT !.hi = NoDigit]
    ELSE IF acc.hi = NoDigit THEN [acc EXCEPT !.hi = c]
    ELSE [out |-> Append(acc.out, acc.hi * 16 + c), hi |-> NoDigit]

Parsed(line) ==
    LET after[k \in 0 .. Len(line)] ==
          IF k = 0 THEN [out |-> <<>>, hi |-> NoDigit] ELSE HexStep(after[k - 1], line[k])
    IN  after

ParseHex(line) == Parsed(line)[Len(line)].out

\* The output array: what is not overwritten stays.
Overwrite(nonce, bytes) ==
    [i \in 1 .. NonceBytes |-> IF i <= Len(bytes) THEN bytes[i] ELSE nonce[i]]

Parse(p, line) ==
    dialog' = [dialog EXCEPT ![p] = [typed |-> <<>>, nonce |-> Overwrite(@.nonce, ParseHex(line))]]

Accept(p, line) ==
    /\ dialog' = [dialog EXCEPT ![p] = [typed |-> line, nonce |-> Overwrite(@.nonce, ParseHex(line))]]
    /\ Goto(p, "accepted")

ReadAnyLine(p, line) ==                        \* mutant of ReadLine
    /\ At(p, "prompt")
    /\ IF Len(line) # 2 * NonceBytes THEN UNCHANGED <<dialog, stage>>
       ELSE Accept(p, line)
    /\ UNCHANGED <<bootVars, owner, request, answer>>

\* A line, up to \n or \r.  Characters behind the buffer's end are counted and
\* not kept; a line of another length than the buffer's is refused, one whose
\* bytes are too few as well, after it was parsed into nonce.
ReadLine(p, line) ==
    /\ At(p, "prompt")
    /\ IF Len(line) # 2 * NonceBytes THEN UNCHANGED <<dialog, stage>>
       ELSE IF Len(ParseHex(line)) # NonceBytes THEN Parse(p, line) /\ UNCHANGED stage
       ELSE Accept(p, line)
    /\ UNCHANGED <<bootVars, owner, request, answer>>

\* The console fails: create_psa_token returns, and run_app calls it again.
ConsoleFails(p) ==
    /\ At(p, "prompt")
    /\ dialog' = [dialog EXCEPT ![p] = NoDialog]
    /\ UNCHANGED <<bootVars, owner, stage, request, answer>>

\* Cmd::Exists.  From here on the model tells nonces no longer apart.
Exists(p) ==
    /\ At(p, "accepted")
    /\ Goto(p, IF Found("spe") THEN "work" ELSE "prompt")
    /\ dialog' = [dialog EXCEPT ![p] = NoDialog]
    /\ UNCHANGED <<bootVars, owner, request, answer>>

------------------------------------------------------------------------------
(* Reserve, call, release. *)

ReserveAlways(p) ==                            \* mutant of Reserve
    /\ At(p, "work")
    /\ owner' = p
    /\ Goto(p, "reserved")
    /\ UNCHANGED <<bootVars, dialog, request, answer>>

\* Cmd::Reserve succeeds.
Reserve(p) ==
    /\ At(p, "work") /\ owner = NoProc
    /\ owner' = p
    /\ Goto(p, "reserved")
    /\ UNCHANGED <<bootVars, dialog, request, answer>>

\* BUSY, or ALREADY: yield_wait.
ReserveFails(p) ==
    /\ At(p, "work") /\ owner # NoProc
    /\ Goto(p, "yielded")
    /\ UNCHANGED <<bootVars, owner, dialog, request, answer>>

\* Some upcall ends yield_wait; Release schedules none.
Upcall(p) ==
    /\ At(p, "yielded")
    /\ Goto(p, "work")
    /\ UNCHANGED <<bootVars, owner, dialog, request, answer>>

\* test_loop_token: Alarm::sleep_for between reserve and call.
Sleep(p) ==
    /\ At(p, "reserved") /\ p \notin Interactive
    /\ Goto(p, "asleep")
    /\ UNCHANGED <<bootVars, owner, dialog, request, answer>>

\* The unwrap of its result panics, and the process ends without releasing.
SleepFails(p) ==
    /\ At(p, "reserved") /\ p \notin Interactive
    /\ Goto(p, "dead")
    /\ UNCHANGED <<bootVars, owner, dialog, request, answer>>

\* At once, or when the alarm has fired: the app builds its vectors.
BuildInVec(p, ins) ==
    /\ At(p, IF p \in Interactive THEN "reserved" ELSE "asleep")
    /\ request' = [request EXCEPT ![p].ins = ins]
    /\ Goto(p, "building")
    /\ UNCHANGED <<bootVars, owner, dialog, answer>>

BuildOutVec(p, outs) ==
    /\ At(p, "building")
    /\ request' = [request EXCEPT ![p].outs = outs]
    /\ Goto(p, "calling")
    /\ UNCHANGED <<bootVars, owner, dialog, answer>>

\* All of boot but the flag.
BootDone == UNCHANGED <<board, phase, cursor, ram, spm, uart, regs, sau, lut, job, loop>>

\* enter_secure_state swaps the flag; who finds it set gets ProgrammerError.
EnterVeneer(p) ==
    /\ At(p, "calling")
    /\ inSecureState' = TRUE
    /\ Goto(p, IF inSecureState THEN "returned" ELSE "inside")
    /\ answer' = IF inSecureState THEN [answer EXCEPT ![p] = "error"] ELSE answer
    /\ BootDone /\ UNCHANGED <<owner, dialog, request>>

\* try_get_spm and call_from_slices.
Accepted(p) ==
    /\ spm = "Initialized"
    /\ CallAccepted(sau, MpuRegions[board][p], request[p].ins, request[p].outs)

Connect(p) ==
    /\ At(p, "inside") /\ Accepted(p)
    /\ Goto(p, "serving")
    /\ UNCHANGED <<bootVars, owner, dialog, request, answer>>

ConnectFails(p) ==
    /\ At(p, "inside") /\ ~Accepted(p)
    /\ answer' = [answer EXCEPT ![p] = "error"]
    /\ Goto(p, "leaving")
    /\ UNCHANGED <<bootVars, owner, dialog, request>>

\* The service reads its inputs, writes its output and returns.
Serve(p) ==
    /\ At(p, "serving")
    /\ answer' = [answer EXCEPT ![p] = "done"]
    /\ Goto(p, "leaving")
    /\ UNCHANGED <<bootVars, owner, dialog, request>>

ExitVeneer(p) ==
    /\ At(p, "leaving")
    /\ inSecureState' = FALSE
    /\ Goto(p, "returned")
    /\ BootDone /\ UNCHANGED <<owner, dialog, request, answer>>

ReleaseOnSuccess(p) ==                         \* mutant of Release
    /\ At(p, "returned")
    /\ owner' = IF owner = p /\ answer[p] = "done" THEN NoProc ELSE owner
    /\ Goto(p, Begin(p))
    /\ request' = [request EXCEPT ![p] = NoRequest]
    /\ answer' = [answer EXCEPT ![p] = "none"]
    /\ UNCHANGED <<bootVars, dialog>>

\* Cmd::Release, whatever the call returned.  The app drops the result, INVAL
\* for whoever is not the owner.
Release(p) ==
    /\ At(p, "returned")
    /\ owner' = IF owner = p THEN NoProc ELSE owner
    /\ Goto(p, Begin(p))
    /\ request' = [request EXCEPT ![p] = NoRequest]
    /\ answer' = [answer EXCEPT ![p] = "none"]
    /\ UNCHANGED <<bootVars, dialog>>

Boots == BootStep /\ UNCHANGED clientVars

\* What a process does of its own, waiting for nobody.
Step(p) ==
    \/ Exists(p)
    \/ Sleep(p) \/ SleepFails(p)
    \/ \E ins \in InVecs(board, p) : BuildInVec(p, ins)
    \/ \E outs \in OutVecs(board, p) : BuildOutVec(p, outs)
    \/ EnterVeneer(p)
    \/ Connect(p) \/ ConnectFails(p) \/ Serve(p) \/ ExitVeneer(p)
    \/ Release(p)

Next ==
    \/ Boots \/ StartKernel \/ ResetAll
    \/ \E p \in Procs :
        \/ \E line \in Lines : ReadLine(p, line)
        \/ ConsoleFails(p)
        \/ Reserve(p) \/ ReserveFails(p) \/ Upcall(p)
        \/ Step(p)

Spec == Init /\ [][Next]_vars

\* The round-robin scheduler comes back to each process that can run, and the
\* alarm it sleeps for fires.  Nothing makes an upcall come to a process that
\* waits for the mutex, or somebody type a line.  Boot is one thread that
\* nothing can interrupt for long, and a port that is on sends.
FairSpec ==
    /\ Spec
    /\ WF_vars(Boots) /\ WF_vars(StartKernel)
    /\ \A p \in Procs : WF_vars(Step(p))

------------------------------------------------------------------------------

\* A nonce that the app accepts (main.rs:112-133) is what was typed, digit by
\* digit: never the front of a longer line, nor filled up with zeros or with
\* bytes of a line refused before.
NonceAsTyped ==
    \A p \in Procs : stage[p] = "accepted" =>
        dialog[p].typed = [i \in 1 .. 2 * NonceBytes |->
            LET byte == dialog[p].nonce[(i + 1) \div 2] IN
            IF i % 2 = 1 THEN byte \div 16 ELSE byte % 16]

\* What the process could read, or write, itself.
MayAccess(p, a, isWrite) ==
    /\ NonSecure(sau, a) /\ Open(a)
    /\ \E i \in DOMAIN MpuRegions[board][p] :
        LET r == MpuRegions[board][p][i] IN
        r.base <= a /\ a <= r.limit /\ IF isWrite THEN r.write ELSE r.read

\* A service never reads or writes, for a process, a byte that the process
\* could not reach itself, although the SPM asks for the first and the last
\* byte of a vector only (cmse.rs:76-83), and never one that the bus would
\* refuse, whatever of SAU, MPU and MPC decides.
OnlyReachableBytes ==
    \A p \in Procs : stage[p] = "serving" =>
        /\ \A i \in DOMAIN request[p].ins :
             \A a \in Bytes(request[p].ins[i]) : MayAccess(p, a, FALSE)
        /\ \A i \in DOMAIN request[p].outs :
             \A a \in Bytes(request[p].outs[i]) : MayAccess(p, a, TRUE)

\* No byte is fetched through two inputs, which is what the overlap test is for
\* (connection.rs:104, "to avoid double-fetch inconsistencies").
InputsApart ==
    \A p \in Procs : stage[p] = "serving" =>
        \A i, j \in DOMAIN request[p].ins :
            i # j => Bytes(request[p].ins[i]) \cap Bytes(request[p].ins[j]) = {}

\* All of a buffer lies in one region the kernel gave the process and in one
\* the board gave the non-secure world.
Inside(b, region) == region.base <= b.base /\ b.base + b.len - 1 <= region.limit

Honest(p, r) ==
    LET mine(b, write) == \E i \in DOMAIN MpuRegions[board][p] :
            LET m == MpuRegions[board][p][i] IN Inside(b, m) /\ IF write THEN m.write ELSE m.read
        theirs(b) == \E k \in DOMAIN SauRegions[board] :
            LET s == SauRegions[board][k] IN Inside(b, s) /\ s.attribute = "NonSecure"
        good(b, write) == b.len > 0 /\ mine(b, write) /\ theirs(b)
    IN  /\ \A i \in DOMAIN r.ins : good(r.ins[i], FALSE)
        /\ \A i \in DOMAIN r.outs : good(r.outs[i], TRUE)
        /\ \A i, j \in DOMAIN r.ins :
             i # j => Bytes(r.ins[i]) \cap Bytes(r.ins[j]) = {}

\* A process that has reserved the SPE and passes its own memory gets to the
\* service: it finds neither the veneer taken (veneers.rs:66) nor the SPM unset
\* (api.rs:11), and none of its buffers is refused (connection.rs:139-202).
HonestCallServed ==
    \A p \in Procs : stage[p] \in {"leaving", "returned"} /\ Honest(p, request[p]) =>
        answer[p] = "done"

\* The release whose result the app drops (main.rs:154) never fails.
ReleaseSucceeds == \A p \in Procs : stage[p] = "returned" => owner = p

\* Who has the mutex and does not die in alarm.unwrap gives it back, also when
\* its call was refused, unless the system is reset.
OwnerGivesBack ==
    \A p \in Procs :
        phase = "ns" /\ owner = p ~> (owner # p \/ stage[p] = "dead" \/ phase # "ns")
==============================================================================
