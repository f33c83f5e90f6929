# RuSPE in TLA+

RuSPE is a secure processing environment for Armv8-M: non-secure code (bare metal
or Tock) calls services (crypto, attestation) in the secure world through a PSA-style
`psa_call`. The specifications here model the secure partition manager (SPM): how a call
gets in, how it is put on the connection stack, how a service reaches the client's
vectors, how calls nest, and how everything comes back out again; and below it the services
themselves: attestation and crypto, the random number generator they take the boot seed
from, and the allocator of their C libraries; and around it the boot of the three secure images,
resets included, the Tock kernels and the processes that share the secure world. They are checked with TLC, and
every invariant and every safety property of steps that TLC checks on a small instance is proved with TLAPS for every value of the
constants: the SFN build with its refinement, the IPC dispatcher and the MPU driver, the supervisor calls of a service and
that both builds offer it the same, attestation, the allocator, and boot, the boards' tables and the Tock clients (section 5).
Liveness is checked with TLC only.

Sources are named relative to `src/`; `spe/` stands for `src/spe/spe/src/`.

## 1. The system

| Component | Source | State | Operations |
|---|---|---|---|
| Veneers, secure gate | `spe/veneers.rs`, `spe/spm_api/api.rs` | `IN_SECURE_STATE` | `psa_framework_version_veneer`, `psa_version_veneer`, `psa_call_veneer`; `enter_secure_state` / `exit_secure_state` around each |
| Parameter validation | `spe/spm_api/connection.rs` | none | `validate_call_params`, `validate_vec_pointer_shape`, overlap and permission checks, `call_from_slices` |
| Connection stack | `spe/spm/spm.rs` | `connections`, `present`, `top_connection` | `add_`, `take_active_`, `restore_active_`, `pop_`, `peek_active_connection` |
| Vectors of a connection | `spe/spm_api/connection.rs` | per vector: mapped, unmapped, size, written | `prepare_*`, `mark_invec_unmapped`, `commit_outvec_write`, `with_mapped_*`, the `_raw` forms |
| SFN dispatcher | `spe/spm/spm_fn.rs` | `Mutex<ConnectionArray>` | `call`, `with_active_connection` |
| IPC dispatcher | `spe/spm/spm_ipc/*`, `spe/spm_api/svc.rs`, SVC handler in `api.rs` | connections, `init_done`, MPU, PSP, PSPLIM, CONTROL, process stacks | `call`, `init_process`, `call_process`, `map_vec`, `unmap_vec`, SVCs 200-203 and the PSA SVCs |
| MPU driver, range checks | `libraries/cortex_m/src/{mpu,cmse}.rs` | region slots | `allocate_region`, `configure_mpu`, `check_range` |
| Mutex, once lock | `spe/libs/*` | one atomic each | `try_lock`; `try_set`, `try_get` |
| Services | `spe/spe_services`, chip `services/` | keys, token buffers | crypto: sign hash, hash; attestation: token, token size (calls crypto) |
| C allocator | `spe_services/src/ffi_alloc.rs` | heap, 64 descriptors | `calloc`, `free` |
| Client API | `psa_interface/src/{psa_api,types,status}.rs`, `psa_veneer_client` | none | builds the vectors, packs `CtrlParam`, reads back status and length |
| Tock integration | `integrations/tock/*`, `boards/*/tock/kernel` | `SpeMutex::owner`, the nonce dialogue | `reserve`, `release`, `is_available`; the token application; the kernels' `start` |
| Chips | `chips/psc3`, `chips/musca_b1` | registers | TRNG, PPC, MPC, eFuse, UART |
| Boards | `boards/*` | boot order, memory tables | startup assembly, `main`, `start`, `has_permission_on_memory`, `custom_mpu_regions` |
| Others | COSE encoder, SAU, NVIC, faults, build scripts | - | - |

How they interact. A client thread enters a veneer (a hardware call gate). The veneer takes
the gate flag, `SfnApi::call` validates the parameters and builds a `Connection` on the
stack of the call, and hands it to the dispatcher that the board was built with. The **SFN**
dispatcher pushes a copy, calls the service as a function and pops. The **IPC** dispatcher
pushes, configures the MPU for the service's process, runs it unprivileged on its own stack
by an SVC, pops, and restores the MPU of the process below. A service reaches its vectors
through the dispatcher's `with_active_connection` (a function call in the SFN build, an SVC in
the IPC build), and may itself `psa_call` another service: calls nest, up to
`MAX_CONNECTIONS`.

What is hard. Non-secure threads are switched by interrupts anywhere, also in the middle of
a secure call; the dispatcher only *tries* its mutex and drops the result in one place; an
access takes the connection out of the stack, works without the lock and puts it back;
several global registers must follow the call chain exactly; the errors of region allocation
are dropped. The full list, each at its line, is `hazards` in `PROJECT.json`.

What makes each component correct:

- *gate*: one client at a time inside; whoever enters leaves, and the gate opens again;
- *stack*: the chain of open calls and the slots correspond, nothing stays behind;
- *dispatcher*: a service works on the connection of its own call, no call, copy or pop is lost;
- *vectors*: handed out once, finished once, never a longer length than the client gave room for;
- *IPC dispatcher*: stack, limits, privilege and MPU always belong to the process that runs;
  init code runs once and first; a vector handed out can be touched;
- *MPU driver*: a region grants what its permission says;
- *services*: a request is answered, wholly or not at all; the boot seed is one per boot and made
  of fresh words; lengths that are computed twice agree;
- *allocator*: blocks in use are disjoint and inside the heap, and it fails only when nothing fits;
- *boot*: nothing of an earlier boot survives a reset in a static; when the non-secure image starts,
  memories, peripherals and interrupts are divided as the board's tables say; boot ends;
- *validation*: a service, which could get at all memory, touches in the payload buffers of a client only what the client could;
- *the two builds*: a service cannot tell whether it is linked into the SFN image or runs as a process;
- *Tock*: a nonce is what was typed; who has reserved is not refused by the gate, and gives the mutex back.

## 2. Modules

| Module | Models | Used by |
|---|---|---|
| `ConnectionArray` | the stack, as a guard and a result per method | `SpmFn`, `SpmIpc` |
| `IoVec` | a connection and the life of its vectors | `SpmFn`, `SpmIpc`, `SvcApi` |
| `SpmFn` | the SFN dispatcher, any number of threads, no gate | `SecureEntry`, `MCSpmFn` |
| `SecureEntry` | the veneers in front of it: the SFN build as deployed | `SecureEntryProofs` |
| `PsaCalls` | the abstract promise: one client, nested calls, a vector's life | refined by `SecureEntry` |
| `SecureEntryProofs` | theorems of `SecureEntry`, the refinement of `PsaCalls`, and of `SpmFn` without the veneers | - |
| `Mpu` | regions as the driver builds them, the range check | `SpmIpc` |
| `NumberInduction` | induction over the numbers, stated with a set, and facts about quotients | `SpmIpcProofs`, `AttestationProofs`, `TockClientsProofs` |
| `SpmIpc` | the IPC dispatcher with its SVCs | `MCSpmIpc`, `SpmIpcProofs` |
| `SpmIpcProofs` | what `allocate_region` makes of any sequence of regions; theorems of `SpmIpc` | - |
| `SvcApi` | one service against `SfnApi` and against the SVC handler with its registers | `MCSvcApi`, `SvcApiProofs` |
| `SvcApiProofs` | theorems of `SvcApi` | - |
| `Trng` | the TRNG of the psc3, its health monitor, and the driver that reads it | `Attestation` |
| `IatToken` | the lengths of claims, payload, signature structure and token | `Attestation` |
| `Attestation` | the attestation and crypto services, the boot seed, and a client that uses what it is told | `MCAttestation`, `AttestationProofs` |
| `AttestationProofs` | theorems of `Attestation` and `IatToken` | - |
| `FfiAlloc` | `calloc` and `free` of the C libraries, round by round | `FfiAllocProofs` |
| `FfiAllocProofs` | theorems of `FfiAlloc` | - |
| `MemoryCheck` | what `call_from_slices` asks of a caller's vectors, and the SAU table behind the answer (no state) | `Boot` |
| `Ppc` | the PPC tables of `security.rs`, word by word (no state) | `Boot` |
| `Boot` | reset, startup code and `start()` of the three secure images up to the jump | `TockClients` |
| `TockClients` | the kernels' start, Tock processes with their dialogue, `SpeMutex`, the gate and the checks; composes `Boot`, `Ppc` and `MemoryCheck` | `MCTockClients`, `TockClientsProofs` |
| `TockClientsProofs` | theorems of `TockClients`: the mutex, statics, nonces and memory controllers | `BoardTablesProofs` |
| `BoardTablesProofs` | theorems of `TockClients`: what boot writes into the boards' tables, and what these make of a call | - |
| `MCSpmFn`, `MCSpmIpc`, `MCSvcApi`, `MCAttestation`, `MCTockClients` | bounds, symmetry, the board's memory map, buffer lengths around the limits | runs |

### State and actions against the code

`ConnectionArray`: a slot and its `present` flag are one value, the connection or `Absent`
(a slot that is not present is never read). A method whose guard (`CanAdd`, `CanTake`,
`CanRestore`) fails returns an error and changes nothing. `restore_active_connection` looks
at the slot alone, as in the code.

`IoVec`: sizes stand for buffers. `invec_accessed` is left out: it is set to 0 and never
written again. Size 0 is also a slot without a vector. An access of both vectors prepares the input first, so a refused
output leaves the input mapped (`MapIn`, `MapOut`), and commits before it unmaps.

`SpmFn`: each thread has a chain of levels; a level's `pc` says where it is in `call` or
`with_active_connection`. The mutex steps are: `TryLock` (the compare-exchange that succeeds),
then the critical section with the release (`AddConnection`, `TakeConnection`,
`RestoreConnection`, `PopConnection`); or the failed exchange (`AddBusy`, `TakeBusy`,
`RestoreBusy`, `PopBusy`). Between them any other thread may step. `body` is the access
closure, which works on the copy (`conn`) without the lock and may itself make nested calls;
the services in the repository do not start an access inside the closure of another, and
neither does the model. `NestedCall` is `InternalPsaClient::psa_call`. `Access` covers
`access_invec`, `access_outvec` and `access_invec_outvec`, with indices up to one past the end.

`SecureEntry`: `EnterSecureState` is the swap, which sets the flag also for the client it
refuses; the refused client stays outside. `Answer` is every visit that does not reach the
stack: the two version veneers and a `psa_call` whose parameters are refused. Which
parameters are refused is a choice.

`SpmIpc`: `frames` is the chain of calls on the main stack. `Dispatch` is `SpmIpc::call` up to
the process (push, `mark_init_done` and the MPU); `InitProcess`, `CallProcess` and
`ProcessExit` are the SVC round trips; `Return` pops and restores the MPU; `SvcPsaCall` and
`PsaCallReturn` save and restore PSP, PSPLIM and CONTROL. An SVC handler is one step: one
client is inside, nothing else runs in the secure world (`SecureEntry` is the argument), so
nobody observes the middle. `mpu` holds the region sequence that `apply_mpu_config` builds with every error dropped:
`Mpu!Configured` allocates the regions one after the other, and an empty vector is `NoRegion`, which
`allocate_region` refuses. `occupant` is who last staged frames on a process's stack.

`Trng`: one action per place where the hardware can come in between two register accesses.
`CheckHealth` is the last test of `trng_read_data`, `Store` the copy into the buffer,
`NextWord` the loop of `trng_try_fill_bytes` with the two tests of `trng_is_enabled`. A word
carries what it is worth (`fresh`, `used`, `suspect`), which no register holds: it is how the
properties tell a good seed from a bad one. `HwInitialize`, `HwGenerate` and `HwDetect` follow
the register descriptions in `cryptolite.rs`. `ReadClears` is an assumption: the driver never
clears `DATA_AVAILABLE` between two words, so the hardware has to.
`trng_disable` and `trng_deinit` have no caller and are left out.

`IatToken`: every error of the encoders is a matter of length, so only lengths are kept. A
claim is its label and the length of its value, and the claims of a token are a sequence in the order in which they
are encoded; `PayloadLen` adds up, claim by claim, what `encode_payload_to` writes, `EncodedLen` what `encode_from_payload_bstr` writes, `ComputedSize` is the separate
computation that announces a size.

`Attestation`: `pc` follows `handle_get_token` (`seed`, `claims`, `hash`, `sign`, `encode`,
`finish`), `handle_get_token_size` (`seed`, `size`) and `CryptoService::call`. `Fail` is an error
inside the closure of `access_invec_outvec`, which always runs on to `Finish`. The two nested
calls of the crypto service are its own outcome function `CryptoStatus`, as a direct request
is. A client asks with a buffer of any length in `Rooms` or of the length it was told.
Vector accesses succeed here (`NoAccessFails` in `SecureEntryProofs`), and there is one client,
so the mutex around the static boot seed is never found taken. A vector that is too short to
hold a `usize` is one more way of not being `wellFormed`. The lifecycle is `Secured`; the
platform is psc3 (the boot seed of musca_b1 is a constant).

`FfiAlloc`: `Calloc` is the entry, `NextOffset` one round of `'search` that meets a block, `Place`,
`NoDescriptor` and `NoRoom` its three ends, `Free` the whole of `free`. `held` is what the C code
was given; it exists only in the model. The `as u16` casts change nothing because
`HEAP_SIZE` is at most 65535 (`HeapAssumption`); `nobj * size` is assumed not to wrap, as the
safety comment asks.

`MemoryCheck`: a caller is non-secure and unprivileged, as a Tock process is. `Tt` is the answer of
the TTAT instruction: the number of the region that holds the byte in each table, if there is
exactly one, and the rights. `RangeIsUniform` is `check_range`, `HasPermission` the
`has_permission_on_memory` of the platforms (psc3 asks for the security state and the right,
musca_b1 for the non-secure right, which is both), `PointerValid`, `PayloadsApart` and
`CallAccepted` are the functions of `connection.rs`, with the additions that must not reach
`AddressSpace`. A region whose attribute is `Secure` is written with its enable bit clear
(`sau.rs:196`) and so does not enter the table (`WithRegion`).

`Ppc`: a word of a protection table is the set of its bits. `SetRegionBits`, `ClearRegionBits` and the
four `Build...` tables follow the loops of `security.rs:44-121`; the byte of a region in a word of
`PC_MASK` is one slot, since it is written as 0xFF or 0. Regions are the numbers of `PpcRegion`.

`Boot`: `Order(board)` is the order of `start()` in each `main.rs`, and `phase` where the boot is in it;
`cursor` counts the rounds of the phase's loop. `ZeroBss` and `CopyData` are the two loops of the startup
assembly, a word a step, over the statics the model tells apart: the flags of `static_buf!`, the once lock
and `IN_SECURE_STATE` in `.bss`, and words of `.data` that are stale or those of the image. `Reset` may
come at any moment: registers go back to their reset values (those of the PPC to either of two), RAM
stays. `StaticInit` is `static_init!`, whose second use of a buffer panics (`Halt`). One action per
`set_region`, per word of the NVIC and of the PPC tables; `SetSpm` is `try_set`, in one step since nobody
else runs yet. Its error, for a lock that is set already,
cannot occur: `StaticsFresh` has the lock uninitialised when `main` begins, and `start()` sets it once. `BeginMpc`, `MarkBlock`, `NextWord` and `EndMpc` are the loop of `set_non_secure`: a block at
a time, with the word in hand (`current_lut`) apart from the table. `SendByte` spins on a holding
register that only `Transmit`, the port, empties. An assertion or an `Err` that is unwrapped is `Halt`.
Clocks and pins of the psc3 come from a crate outside the repository: `InitChip` or `InitChipFails`.

`TockClients`: `StartKernel...` is `start()` of the two kernels, as far as it sets up `SpeMutex` or fails.
`stage` follows a process through `create_psa_token` (processes in `Interactive`) or `test_loop_token`.
`ReadLine` takes a line at the prompt; `ParseHex` is `parse_hex`, a character a step: what is no digit is
skipped together with a digit in front of it. A line of the wrong length is refused before it is
parsed; one that has too few bytes is refused after, with its bytes left in `nonce`. `Reserve`,
`ReserveFails` and `Release` are the driver's commands (`Exists` and `IsAvailable` change nothing);
`Upcall` ends a `yield_wait`; `Sleep` is the alarm between reserve and call, `SleepFails` the `unwrap`
that ends the process there. `EnterVeneer` is the same swap as in `SecureEntry`; `Connect` and
`ConnectFails` are `try_get_spm` and `call_from_slices`; what happens behind them is the subject of
the other modules and is one step, `Serve`. A process may be switched out between any two steps.
The non-secure MPU follows the process: the kernel sets it whenever it switches.

`SvcApi`: the same service in both builds at once. `sfn` is its connection where `SfnApi` works on it directly,
`svc` where it goes through supervisor calls. `Access` begins an access in both; the SFN build does all of
its work there and in `ClosureReturns`, the IPC build in one step per SVC (`SvcAccessInvec`,
`SvcAccessOutvec`, `SvcReleaseOutvec`, `SvcReleaseInvec`), each of which may fail and end the request
(`GiveUp`, the `?`). `Frame` is r0 to r3, `HandleSvc` the handler with `service_handle_from_raw` in front;
`CastUnsigned`, `CastSigned` and `CheckSvcResult` are the ways of a status through r0. `Call` packs and unpacks a
`CtrlParam` and brings the callee's status back; `Version` asks for a version. `repeated` and `failed` are
only in the model: they say whether a vector was asked for twice, and which requests met an error.
A register has 28 bits instead of 32, which TLC could not calculate with: a `CtrlParam` ends at bit 26, and
of the handles only the common bit 30 (`0x4000_0100` and on) is lost.

Constants that are assumptions about what is outside: `Rank` (a service calls only services
below it: on the boards, attestation calls crypto and crypto calls nobody) and the buffers of
`InBuffers`, `OutBuffers` (in the caller's own memory). `Grants` is the hardware.

Left out of the modelled code on purpose: the contents of buffers; in `SpmIpc` the registers of the SVCs,
which are `SvcApi`'s subject, and the refusal of inputs that overlap, which is `MemoryCheck`'s; the `u32` wrap of `base + size` in `apply_mpu_config` (the boards' memories
end below 2^32). The arrays of descriptors (`in_vec`, `out_vec`) are taken as read once: `SfnApi::call` makes slices of them
(`spm_api/api.rs:77-87`) without asking whether they are the caller's, and the checks and `Connection` read them one after
the other; `OnlyReachableBytes` and `InputsApart` are about the payload buffers they name.
`enable_uart1_ns` is taken to open UART1, as its name says; the comment at `spcb.rs:50` doubts which port
the bit opens. `CtrlParam::unpack_type` reads its 16 bits as an `i16`, so a type of 0x8000 or more is negative
and `validate_call_params` refuses it: `UnpackType` and `CallParamsValid` say so, and the run has such a type.

## 3. Runs

| Run | Instance | Shows |
|---|---|---|
| `secure_entry` | `FairSpec`; 2 clients, 2 slots (a third nested call is refused), 2 services, 1+1 vectors of one byte | `TypeOK`, `NeverBusy`, `OwnConnection`, `AccessFindsConnection`, `NothingLeaks`, the refinement `KeepsPromise` of `PsaCalls`, and `GateReopens` |
| `spm_fn_shared` | 2 threads in the dispatcher without the veneers, at most two levels in all | `StackCoversCalls`: lost pops and copies take room but no pop is one too many |
| `spm_fn_shared_own` | the same, expected to fail | `OwnConnection` does not hold without the gate, see section 6 |
| `spm_ipc` | the psc3m5_evk map, 3 processes and a handle without one, 2 slots, 1+1 vectors that do not end on granules | `TypeOK`, `RunsOnOwnStack`, `OnlyOwnMemory`, `AccessedReachable`, `InitOnceFirst`, `OutputFinal` |
| `spm_ipc_adjacent` | the same with the output right behind the input, expected to fail | `AccessedReachable`, see section 6 |
| `spm_ipc_permissions` | as `spm_ipc`, expected to fail | `AsSpecified`, see section 6 |
| `attestation` | all requests, a seed of 2 words with 2 values, input lengths 31, 32 and 64, buffers around every limit, with and without a boot record, `FairSpec` | `TypeOK`, `AllOrNothing`, `OneSeedPerBoot`, `SeedFromFreshWords`, `ComputedIsEncoded`, `TooSmallIsTheClients`, `EveryRequestAnswered` |
| `announced_size` | as `attestation`, expected to fail | `AnnouncedSizeSuffices`, see section 6 |
| `reported_length` | as `attestation`, expected to fail | `ReportsWritten`, see section 6 |
| `ffi_alloc` | a heap of 44 bytes (five units and a half), 3 descriptors, several request sizes, `FairSpec` | `TypeOK`, `BlocksApart`, `BlocksAligned`, `NullOnlyWhenFull`, `DescriptorsMatchBlocks`, `SearchEnds` |
| `svc_api` | 2+2 vectors of 0 or 2 bytes, 3 handles and one number that is none, 3 API calls with every index, length and status | `BuildsAgree`, `HeldOnlyAfterFailure` |
| `tock_clients` | the three images with the SAU, MPC, PPC and NVIC ranges of their sources, resets at any moment, 2 processes, up to 10 buffers each, `FairSpec` | `TypeOK`, `MpcOpensExactly`, `StaticsFresh`, `PeripheralsAsMeant`, `NonceAsTyped`, `OnlyReachableBytes`, `InputsApart`, `HonestCallServed`, `ReleaseSucceeds`, `OwnerGivesBack`, `BootEnds` |

Why the bounds are enough. `MAX_CONNECTIONS` is 4 in the code; with 2 slots there is a stack that
is empty, partly full and full, a call from the middle of an access of another, and a refused
call on top of both; every guard compares only `top_connection` with the capacity, and
slots with their own call. Two clients give every race of the gate; a third would be
refused in the same states. One vector per direction has all states of a vector; with index 1
it also covers an index out of range; vectors of one call are independent except that
input and output are prepared together, which the run has. Buffers of one byte, lengths 0..2,
give a commit below, at and above the size. In `spm_ipc` the input crosses a granule
and the output is inside one; the third process has no room on its stack, so the refusal in
`stage_msg_mailbox` happens; a service's nested call can pass its own memory only, because the
range check uses the MPU configuration it runs under. In `spm_fn_shared` the symmetry of
threads is sound: only invariants are checked.

In `attestation` the seed has 2 words instead of 8: a failure of the monitor can come before
the first, between them, in the last, and after a retry, which are all the places that differ.
The buffers are one byte short of, and exactly, the size answer, a digest, a signature, and the
shortest and the longest token, so that every comparison goes both ways; a boot record is
absent or what a SHA-256 boot loader writes. The three properties of lengths hold for these
records; a measurement of several hundred bytes would not fit the 512 bytes of the payload
buffer and is excluded by `BootRecords`. The hardware is followed only while the driver is
called: what it does in between is not seen by anybody (after a failure `trng_init` clears the
flags, after a success the seed is cached).
In `ffi_alloc` three descriptors give a block between two others, a gap of every size, a full
table with room left and a full heap with descriptors left; the heap does not end on a unit.
In `tock_clients` addresses are the real ones. `AddressSpace` is 0x6000_0000 and not 2^32, because the
integers of TLC have 32 bits; all memories lie below, and one buffer ends behind it. The block sizes
of the MPCs (a register) are chosen so that the asserted alignments hold and each memory has
several words; ranges begin and end inside a word. The buffers of a process are neighbours, share one
byte, are empty, end one byte behind its region, span the granule between its own memory and memory
shared with it, or lie in flash, at null and in secure memory, as in the app's negative tests.
Two processes are an owner and one that waits or is refused; the mutex has no queue for a third. The PPC has
its 222 regions. `.data` and the message have two words and two bytes: a first, a last, and the exit of
the loop. A nonce has 2 bytes instead of 32; the lines are accepted, too short, too long, or of the
right length with characters that are no digits at the front, in the middle, at the end and twice. The
third image differs from the first in one region only and gets the smaller set of buffers.
In `svc_api` two vectors per direction show a mixed-up index and, with lengths of up to 2 and the 8 that three
bits cannot hold, every case of `CtrlParam`; three API calls are an access, another that fails or repeats it,
and a third that meets what they left. The callee's statuses are a success and two errors, the
last code of the enumeration included. Vectors of one connection do not influence each other, so
three calls bring each through its whole life.

Fairness (`FairSpec`). A client past the gate is eventually resumed (`WF` on its own steps: the
non-secure scheduler runs every thread, none of them waits for another inside the secure
world), SPM steps run (`WF`: no lock is waited for), a service eventually returns
and its closures end (`SF`, because a service may make calls and accesses in between, finitely
many; all of them are loop-free in `spe_services`). No fairness is assumed for entering: a
refused client has no guarantee.

`Attestation!FairSpec`: the service, the driver and the client that waits go on (`WF`; they
are straight-line code), and the TRNG initialises when enabled and delivers words unless its
monitor stops it (`WF` on `HwInitialize` and `HwGenerate`; the register descriptions). No fairness
is given to `HwDetect` nor to asking. `FfiAlloc!FairSpec`: a search that was begun runs on (`WF` on
`Round`): it is a loop in one function. `TockClients!FairSpec`: a process that has reserved goes on (`WF`
on its `Step`s: the kernel's round robin comes back to it, and the alarm it sleeps for fires). No
fairness is given to `Upcall` (a release schedules none, `tock_spe_mutex/src/lib.rs:57`, so a
process that waits may wait for ever) nor to `Reserve`, so nothing is promised to one that waits;
`OwnerGivesBack` excepts the process that ended in the `unwrap` of `sleep_for`, which
keeps the mutex. Boot and the kernel's start go on (`WF` on `Boots`, one thread that nothing stops for
long, and a port that is on sends; `WF` on `StartKernel`). Nothing is said of `Reset`: `BootEnds` promises an
end only where resets end, and `OwnerGivesBack` excepts the process that is reset.

Deadlock is checked in every run but `svc_api`, where a service may return.

## 4. The abstract promise

`PsaCalls` has no mutex, no slots and no copies: a client, a stack of open calls, and per call
which vectors were given and which are closed. `SecureEntry!Promise` maps the concrete state
to it: the client is whoever is past the gate; call *i* is the connection in slot *i - 1*, or,
while an access has it out, the copy in the level that took it. Prepare maps to `Give`,
the end of a closure to `Finish`, add and pop to `Open` and `Close`, the rest to stutters. The
mapping is what makes take / restore invisible: if a copy were lost, or restored into
another slot, an abstract call would change or vanish without a step of `PsaCalls`.

The IPC build does not keep the same promise, and is not claimed to: `update_vec_mapping` clears the
mapped flag at release, so an input vector (and an output vector closed with 0 bytes) can be
accessed again, and a vector can be released that was never accessed. `OutputFinal` is what holds of it,
and `BuildsAgree` says when the difference cannot be seen: as long as a service asks for each vector once, slices,
statuses and lengths are the same in both builds.

## 5. Proofs

`SecureEntryProofs` proves, for every number of clients, slots, services, vectors and sizes
that satisfies the named assumptions (`MaxConnectionsAssumption`, `IoVecAssumption`,
`SpmFnAssumption`: there is a slot, a vector and a service; `NoThread` is no thread, `Absent`
no connection):

| Theorem | Statement |
|---|---|
| `TypeCorrect` | `Spec => []TypeOK` |
| `MutexNeverBusy` | `Spec => []NeverBusy` |
| `ServiceSeesItsCall` | `Spec => []OwnConnection` |
| `NoAccessFails` | `Spec => []AccessFindsConnection` |
| `NoConnectionStays` | `Spec => []NothingLeaks` |
| `StackMirrorsCalls` | `Spec => [](TypeOK /\ Inv)`, which the five above follow from |
| `Refinement` | `Spec => KeepsPromise`: the abstract promise of section 4 is kept |
| `CallsCovered` | `SpmSpec => []StackCoversCalls`, for the dispatcher without veneers and any finite set of threads |

None of the properties is inductive: that the top slot is the caller's own needs to know the
slots of *all* levels, and that the mutex is free needs to know who can be inside. `Inv` is

- `Gate`: the flag is set exactly when a client is past the gate, at most one is, and only a
  client that is `calling` has levels;
- `Holder`: the mutex is free or held by the client inside, at a lock step of its deepest level;
- `Chain`: levels above `depth` are idle, levels below it stand in a service or an access
  closure;
- `StackHeight`: `top_connection` is the number of levels whose call is on the stack;
- `Ownership`: slot *i* belongs to level *i + 1* of the client inside, with the handle of its
  message, and is empty exactly while that level has its connection out.

The proof has one lemma per kind of step (`MoveKeepsInv`, `CallKeepsInv`, `AddKeepsInv`,
`LeaveKeepsInv`, ...), each split along the conjuncts of `Inv`, combined in `StepKeepsInv`;
type preservation is separate (`InitType`, `SpmType`). `Inv` was checked with TLC on the
instance of `secure_entry` before it was proved.

`Refinement` maps every step to a step of `PsaCalls` or to a stutter. It needs
`HandedOut` besides `Inv`: a connection that waits for its slot is new, and a closure runs only on vectors that were
prepared for it, so that what is finished had been given. A lemma per action says what becomes of the abstract
calls (`Calls`): nothing, while a connection is out and in its level's hands; one call more or less; or one call whose
vectors are given, or finished. `CallsCovered` is a count, and there `try_lock` does fail: each step is shown to add no more entered
calls than slots, which needs that a level about to put a connection on the stack has one (`Carries`). A pop that finds the
mutex taken lets a call go and keeps its slot, which is why the slots are only *at least* as many.

`FfiAllocProofs` proves, for every heap of at most 65535 bytes, every number of descriptors and
every set of requests (`HeapAssumption`):

| Theorem | Statement |
|---|---|
| `NeverOverlap` | `Spec => []BlocksApart` |
| `AlwaysAligned` | `Spec => []BlocksAligned` |
| `FirstFitComplete` | `Spec => []NullOnlyWhenFull` |
| `NoDescriptorLost` | `Spec => []DescriptorsMatchBlocks` |
| `HeapInvariant` | `Spec => [](TypeOK /\ Inv)`, which the others follow from |

That blocks are apart is a fact about descriptors, and the C code holds blocks: the invariant has
to say that the two are the same (`HasDescriptor`, `HasHolder`, `OneHolder`), that descriptors
in use are `Inside` the heap, `Apart` and in whole `Units`, and what a search has achieved so
far (`Passed`: every offset it has left behind is in the way of some block). `Passed` carries the
completeness of first fit: skipping from `offset` to the end of a block that overlaps
`[offset, offset + total)` leaves behind only offsets which that block rules out too
(`NextOffsetInv`). `PlaceInv` shows that the new block is apart from all others because none was
in its way; `FreeInv` that the offset names one descriptor only. Every conjunct was checked by TLC first.

`TockClientsProofs` proves, for any set of processes, any of the boards with any tables, buffers, address
space, number of vectors of three or more, lengths of `.data` and of a nonce, and resets at any moments (`MemoryCheckAssumption`,
`BootAssumption`, `ClientsAssumption`: the buffers are buffers, the jobs of the memory controllers are jobs, and `NoProc` is no process):

| Theorem | Statement |
|---|---|
| `ReleaseIsOwners` | `Spec => []ReleaseSucceeds` |
| `NoDoubleFetch` | `Spec => []InputsApart` |
| `GateIsFree` | `Spec => []OwnerMayEnter`: the owner of the mutex, about to call, finds the flag clear |
| `Invariance` | `Spec => []IInv`, which the three above follow from |
| `FreshStatics` | `Spec => []StaticsFresh`, from `StaticsInvariance` |
| `NonceIsTyped` | `Spec => []NonceAsTyped`, from `DialogInvariance` |
| `MpcExact` | `Spec => []MpcOpensExactly`, from `MpcInvariance` |
| `TypeCorrect` | `Spec => []TypeOK`, from all four |

`ReleaseSucceeds` speaks of the last stage only, and `OwnerMayEnter` of a flag that another process might
have set. `IInv` says of every stage from reserve to release that its process is the owner
(`HolderOwns`), that the flag is set only while some process is within (`FlagMeansWithin`): the owner is
the only one that can be, and it is not yet. Before the kernel runs the flag may be anything a reset left,
until the third word of `.bss` is cleared, and no process holds anything (`OnlyNsHolds`): the lemma `BootIsQuiet`
says that no later step of boot touches it. `ServedApart` keeps what `PayloadsApart` tested until the service
runs; that two ranges which pass the test in one order share no byte in either is the lemma under
`NoDoubleFetch`.

`StaticsFresh` speaks of the moment `main` begins and later; a reset may come in the middle of a loop of the startup code.
`StaticsInv` says how far the two loops are (`Cleared`, `Copied`) and that `main` has not written yet
what they set; `OrderOfBoot` is the lemma that nothing returns to them. `NonceAsTyped` compares a nonce with a
line. `ParsedSoFar`, by induction along the line, says that the bytes of `parse_hex` use up at least two
characters each (`Tight`): a line of twice the length of a nonce that yields all its bytes can have skipped nothing, so byte
*i* is made of digits *2i - 1* and *2i*. `MpcExact` follows `set_non_secure`, which keeps a word in hand and writes it when
its last block is done: in `Working` the tables hold the blocks marked so far, except that the word in hand may not be
written yet. That `marked` and `asked` coincide at the end uses the divisions that find block and word of an address
(`DivMod`, `TimesOrder`), and the assertions of `Mpc::new` (`BootAssumption`).

`BoardTablesProofs` goes on from there, for any tables that satisfy five more assumptions, which TLC evaluates for
the tables of the three boards in the run `tock_clients`:

| Assumption | Says | Because |
|---|---|---|
| `MemoryCheckAssumption` | an IDAU block is whole granules | 2^28 and 32 |
| `PpcAssumption` | a register holds a region | the constants of `security.rs` |
| `TableAssumption` | a board has veneers; exactly one enabled region of the SAU holds its console, a non-secure one; and the PPC lets it be non-secure | the `set_region` calls of the three `main.rs`, `NS_SECURE_ONLY_REGIONS` and the excluded masks |
| `KernelAssumption` | regions of a process are whole granules, apart, and not where two SAU regions overlap | the non-secure MPU has no other regions; the overlap of musca_b1 is at peripherals |
| `BoardAssumption` | a non-secure region stays in one IDAU block; where it lies in a memory of a controller, `set_non_secure` was asked for it | the `set_region` and `set_non_secure` calls of `start()` |

| Theorem | Statement |
|---|---|
| `PeripheralsMeant` | `Spec => []PeripheralsAsMeant`, from `TablesInvariance` |
| `BytesReachable` | `Spec => []OnlyReachableBytes`, from `ServedInvariance`, `TablesInvariance` and `MpcInvariance` |
| `HonestServed` | `Spec => []HonestCallServed` |
| `TablesInvariance` | `Spec => []TablesInv` |
| `ServedInvariance` | `Spec => [](RestType /\ Served)` |

`PeripheralsAsMeant` speaks of the image that runs. `TablesInv` says of every round of every loop of boot what it has
written: NVIC words up to the cursor and none behind, PPC words up to the cursor, in the SAU the enabled regions up to
the cursor, each once (`SauFrom`, which maps an entry to its place in the table). What a reset leaves in the registers of the PPC
is one of two values, so nothing is said of a word that was not written yet; `TablesInOrder` is the lemma that no phase is reached but over those
before it. That the words then are what the policy lists is arithmetic of two loops, region by word and bit (`RegionOfBit`,
`BitOfRegion`): each region has one bit, and no bit is written for another region.

`OnlyReachableBytes` is about every byte of a buffer, and the instruction is asked about two. The argument: no region ends inside a granule (`OneGranule`), so all bytes of one
have the same answer (`GranuleRegion`, `GranuleIdau`). Two answers with the same number name one region, and a region is an interval, so the
bytes between are in it; no other region that might make a byte in the middle secure, or take its number away, is there,
because regions of the MPU are apart (`OneOfMpu`) and those of the SAU are apart in the memory of a process (`OneOfSau`). On
musca_b1 two SAU regions do overlap, and with a process region across that place the theorem would be false: that is what the last
clause of `KernelAssumption` excludes. The numbers of the IDAU grow with the address, so they are equal between equal ends (`IdauOrder`).
Behind the check is the bus: that each such byte is in an open block is `MpcInvariance` and the division that
finds its block (`OpenByte`).

`HonestCallServed` is the converse: a test that is too strict would refuse calls that are in order. `Honest` is a call whose
buffers each lie in one region of the process, with the right it takes, and in one of the non-secure world, share
nothing where they must not, and are short enough. `HonestAccepted` goes through the tests of
`call_from_slices` one by one; `HonestInv` adds that nothing else refuses, neither the gate (`GateIsFree`) nor the once
lock (`SpmInv`: it is set before the image starts). `TablesInv`, `Served` and `HonestInv` were invariants of the run `tock_clients`
(44,319 states) before they were proved.

`SvcApiProofs` proves, for any number of vectors, any sizes, handles, statuses and numbers of API calls
(`IoVecAssumption`; `SvcApiAssumption`: handles and addresses fit a register; `StatusesAssumption`: a callee
answers with a code of the enumeration; `ControlAssumption`: a type has 16 bits and a length 8):

| Theorem | Statement |
|---|---|
| `NothingHeldOtherwise` | `Spec => []HeldOnlyAfterFailure` |
| `Invariance` | `Spec => []IInv`, which it follows from |
| `SameService` | `Spec => []BuildsAgree`, from `Spec => []AgreeInv` |

`HeldOnlyAfterFailure` speaks of the moments between two requests. `IInv` says at every SVC what a service may
hold: vectors of failed accesses, the input of the access in progress from its access SVC to its release
(`HeldIn`), and the output likewise (`HeldOut`). An access names at most one vector of each direction
(`OneOfEach`), and an SVC changes the vector it names and no other (`AccessIn`, `ReleaseOut`, ...), so a
release that reports success leaves nothing behind. That it reports success only then rests on
`ErrorsArrive`: an error is still one after its way through `r0`, cast to unsigned and back. Steps that fail
end in `GiveUpIInv`: everything the access asked for is then in `failed`.

`SameService` relates two runs that are not in step: the SFN build does all of an access in two steps, and the
IPC build catches up, an SVC at a time. `AgreeInv` relates the two records of each vector, stage by stage: the SFN build has
prepared it and the IPC build has not (`Ahead`), both hold it (`Both`), the SFN build has finished with it and the other
holds it (`Done`), or they agree again (`SameIn`, `SameOut`: equal but for the flag that `update_vec_mapping` clears). `Outcome`
is the status that the SFN build answers at once and the IPC build finds out only SVC by SVC. It is kept as long as
nothing was asked for twice: there the builds do differ. Under it is `RoundTrip`: every code of the
enumeration, and every success, comes back through `r0` as what it was.

`SpmIpcProofs` proves, for any map, custom regions, buffers, number of slots, vectors and MPU regions
and any order of nested calls and accesses (`MpuAssumption`, `SpmIpcAssumption`: ranges and
buffers are pairs of numbers, `Absent` is no connection, handles have ranks; services call downwards):

| Theorem | Statement |
|---|---|
| `ConfiguredSound` | of any sequence of regions: each window comes from one of them with its permission, none overlap, and they fit the MPU |
| `ConfiguredComplete` | of any sequence of regions that share no granule and are no more than the MPU holds: each has its window |
| `TypeCorrect` | `Spec => []TypeOK` |
| `OwnStack` | `Spec => []RunsOnOwnStack` |
| `InitOnce` | `Spec => []InitOnceFirst` |
| `Isolation` | `Spec => []OnlyOwnMemory` |
| `OutputStaysFinal` | `Spec => OutputFinal`, an action property |
| `HeldIsReachable` | `ASSUME MapFits PROVE Spec => []AccessedReachable` |
| `RequestsInvariance` | `Spec => []Requests` |
| `Invariance` | `Spec => []IInv`, which they all rest on |

What runs now is decided by global registers, and what these must be after a return was decided
at the call, any number of nested calls ago. `IInv` says of every call of the chain what is put away for it:
the saved PSP, PSPLIM and CONTROL are those of the process that made the call (`Saved`), its frames are the last
that were staged on its stack (`Occupied`, which needs `Chain`: a process that waits is not called
again, since calls go to lower ranks), its connection is in its slot (`Stack`), and its init code has run
or is running (`Initialised`). `Registers` is the same for the process that runs. `MpuFollows`: as long as a
connection is on the stack the MPU has what `apply_mpu_config` makes of the one on top, mapped vectors included.
`Isolation` then is `ConfiguredSound`, which goes along the recursion of `Configured` by induction, with a
case for each region of the process and each vector it holds.

`AccessedReachable` is not true of every map: `apply_mpu_config` drops the errors of `allocate_region`, and
`spm_ipc_adjacent` is a map on which that costs a service its vector. `MapFits` says which maps are good: for every
process, every caller above it and every choice of that caller's buffers, the windows of the process and all the
vectors in hand at once share no granule and are no more than the MPU's regions. It is a condition on the layout alone, no state occurs in it. TLC finds
it true for the map of `spm_ipc`, and false for that of `spm_ipc_adjacent`. Four vectors in hand
are one too many for attestation, which has three regions left (section 6). `Requests` connects the layout with the run:
the vectors of each call of the chain are buffers of its caller, and those of its connection are no longer,
whatever was committed (`AsPassed`; a commit shortens an output). `FittingReachable` then needs that less fits where more does
(`SmallerFit`), that a shorter vector at the same address is within the granules of the longer one (`Widened`), and `ConfiguredComplete`.

`AttestationProofs` proves, for requests, buffers, boot records and seeds of any length (`AttestationAssumption`:
a request may have 32 bytes, lengths are numbers; `TrngAssumption`: a seed has a word, and a word a value):

| Theorem | Statement |
|---|---|
| `TypeCorrect` | `Spec => []TypeOK` |
| `WholeAnswerOrNone` | `Spec => []AllOrNothing` |
| `SeedIsKept` | `Spec => []OneSeedPerBoot` |
| `LengthIsExact` | `Spec => []ComputedIsEncoded` |
| `FreshSeed` | `ASSUME ReadClears PROVE Spec => []SeedFromFreshWords` |
| `LargerBufferHelps` | `ASSUME SmallRecords PROVE Spec => []TooSmallIsTheClients` |

The properties are about answers, and an answer is decided steps before it is given: `Course` says what
each step of a request may rely on, `Kept` that the driver writes the seed's buffer only while no seed is kept, so that
the tokens given out and the buffer always carry the same one. `Fresh` follows one word from the
generator's register to the buffer; it needs `ReadClears`, the assumption on the hardware of section 2 (with
`ReadClears = FALSE` TLC finds a word used twice). The length of a payload is a recursion along the claims: `TokenPayload`
computes it for the claims of a token, with `PayloadDef` for the existence of the recursive function, and `BuffersSuffice`
finds that 218 bytes of measurement and signer id together leave room in both buffers for every challenge.
`SmallRecords` is that bound. It is tight for a challenge of 64 bytes, and less than the 244 bytes that fit the 256 bytes
of boot data, see section 6.

Induction. The library's induction theorems take a predicate, which the provers installed here cannot instantiate.
`NumberInduction` states induction with a set instead, and proves it from the existence of minimal
elements (`WFMin`, for the order of the numbers). With it a recursive *function* is reasoned about in two steps: that
it has the values its definition says (`PayloadDef`, `BuildingDef`, `ParsedDef`), and what they come to
(`TokenPayload`, `ConfiguredSound` and `ConfiguredComplete`, `ParsedSoFar`).

Only model-checked are the liveness properties `GateReopens`, `EveryRequestAnswered`, `SearchEnds`, `OwnerGivesBack` and
`BootEnds`: liveness under fairness and `ENABLED` are out of the prover's reach. Three theorems have a hypothesis besides the assumptions
of the modules: `FreshSeed` (`ReadClears`), `LargerBufferHelps` (`SmallRecords`) and `HeldIsReachable` (`MapFits`); without it
the property does not hold, and the text above says what happens then.

## 6. Where code and documentation disagree

1. `spm_fn.rs:60-61` says `with_active_connection` "Can be called by multiple threads. Multiple
   threads need access to different connections." The method always takes the top one; with two
   threads in the dispatcher a service gets the other thread's connection
   (`spm_fn_shared_own`). Behind the veneers this cannot happen (`ServiceSeesItsCall`).
2. `svc.rs:174` and `191` rely on "The SPM guarantees base/len describe valid ... memory". Two
   vectors that share a 32-byte granule overlap once widened, and `apply_mpu_config` drops
   the error (`spm_ipc.rs:160`), so the second vector is handed out without a region
   (`spm_ipc_adjacent`).
3. `mpu.rs:233-234` maps `ReadWriteXN` to an executable region and `ReadWriteExecute` to a
   never-executed one, although the MPU is said to restrict access "according to the
   specified permissions" (`spm_ipc.rs:195-196`; run `spm_ipc_permissions`).
4. `attest_service.rs:254` says "Compute exact encoded byte length of initial attestation token for
   given challenge size". `handle_get_token_size` counts the nonce, the boot seed and the software
   components; `handle_get_token` encodes seven more claims. A buffer of the announced length is
   too small for the token (`announced_size`). The computation itself is exact for the claims it is
   given (`ComputedIsEncoded`), which is what its unit test compares.
5. `psa_api.rs:101` and `148` say that `psa_hash_compute` and `psa_sign_hash` return "the number of bytes
   written". They return `out_vec[0].len`, which the SPM does not update: the length of the
   buffer (`reported_length`).

Met while modelling, without a line of the repository to check against, and so without a run:

- `boards/musca_b1/tock/kernel` passes a grant to `SpeMutex::new`, which takes no argument;
- the prompt of the token application says "up to 32 bytes", and a line must have exactly 64 hex digits;
- `CtrlParam::new` keeps three bits of a count: 8 vectors become none (`CtrlParam` in `SvcApi`);
- `parse_boot_data` accepts boot records whose measurement and signer id have up to 244 bytes together, and
  the token service has room for 218 (`LargerBufferHelps`): between the two a token fails however large the
  client's buffer is. Two SHA-512 values are 128 bytes;
- the attestation process has five MPU regions of its own, which leaves three for vectors, while a call
  may have four: a service with all of them in hand misses one, silently, as in item 2, although no two share a granule. The runs
  have one vector per direction and do not reach this limit; no service of the repository holds more than two vectors at once;
- `SYSRESETREQS` keeps reset requests to the secure side on musca_b1, so the `reset` command of the
  non-secure process console has no effect;
- `run_attest` of `test_nspe` computes the cycles of a 24-bit down counter without its wrap;
- `InternalPsaClient::psa_version` (`api.rs:171`) calls itself; it has no caller;
- SAU regions 3 and 4 of musca_b1 overlap, which makes UART0 secure (`PeripheralsAsMeant` is about the
  port the kernel really uses).

## 7. Not modelled

Not modelled: the byte layout of COSE and the token, eFuse reads, the full UART driver of the non-secure
kernel, fault printing, the boot message that only debug builds of the psc3 print, the build scripts:
sequential, without state the properties could relate. The peripheral drivers and clock setup of the psc3 and
the Tock kernel itself are outside the repository. `SpmFn` and `SpmIpc` let services make any order of accesses and
calls; `Attestation` has the order of the real ones. `nobj * size` of `calloc` is assumed not to wrap, and what
mbedtls leaves allocated when a signature fails (`crypto_service.rs:113`) depends on code outside the
repository. A process that finds `SpeMutex` taken sleeps until something wakes it
(`tock_psa_app/src/main.rs:147`); the code promises it nothing, so no property does.

Hazards that no property catches, because the code does not prevent them or because an assumption excludes them:

- a process that dies in `sleep_for` keeps the mutex, and `OwnerGivesBack` has to except it;
- an access that fails for its output leaves its input mapped until the call ends: `KeepsPromise` and
  `HeldOnlyAfterFailure` permit it, and `OnlyOwnMemory` says that the region does not outlive the call;
- a service that is called again while it waits for a nested call would have its frames overwritten: `Rank` excludes cycles of calls;
- a fourth vector in hand of attestation finds the MPU full: the runs have one vector per direction, and `MapFits` asks
  for slots enough;
- a word of the TRNG that is read twice: `ReadClears` excludes it.

What could come next: a passing run of `SpmIpc` with several vectors per direction (the theorems hold for any number);
the mailbox staging with its sizes.
