-------------------------------- MODULE SpmIpc --------------------------------
(***************************************************************************)
(* The IPC dispatcher (spm_ipc): every service is a separate binary that   *)
(* runs unprivileged on a stack of its own, confined by the MPU, and       *)
(* reaches the SPM by supervisor calls.                                    *)
(*                                                                         *)
(* One client at a time gets past the veneers (SecureEntry), and nothing   *)
(* else in the secure world runs concurrently: the calls form one chain,   *)
(* the mutex is never found taken, and an SVC handler is one step.  What   *)
(* is hard is the order: the MPU, the process stack pointer and its limit  *)
(* are global, and every call, return, access and release must leave them  *)
(* to the process that runs next.                                          *)
(*                                                                         *)
(* frames is that chain, one frame per call, the innermost last.  step is  *)
(*    call          SpmIpc::call is entered                                *)
(*    init, start   before init_process, before call_process               *)
(*    initialising  the init code of the service binary runs               *)
(*    running       the service runs                                       *)
(*    calling       the service waits for the call it has made             *)
(*    return        after call_process                                     *)
(*    done          SpmIpc::call has returned                              *)
(***************************************************************************)
EXTENDS ConnectionArray, IoVec, Mpu, SequencesExt

CONSTANTS
    Handles,     \* ServiceHandle
    Processes,   \* the handles that have a process in the table
    Rom, Ram,    \* [Processes -> [base, size]], the windows of ServiceVectors
    Custom,      \* [Processes -> Seq([base, size, perm])], custom_mpu_regions
    HasRoom,     \* the processes whose stack takes a mailbox and a frame
    NoProcess,   \* PSP and PSPLIM before the first process
    Client,      \* the non-secure caller
    InBuffers,   \* [Processes \cup {Client} -> SUBSET [base, size]], what each
    OutBuffers,  \* caller passes for input and for output
    Rank         \* [Handles -> Nat]: a service calls only services below it

ASSUME SpmIpcAssumption ==
    /\ Processes \subseteq Handles
    /\ Absent \notin ConnectionOf(1 .. MaxConnections + 1, Handles)
    /\ \A p \in Processes : /\ Rom[p].base \in Nat /\ Rom[p].size \in Nat
                           /\ Ram[p].base \in Nat /\ Ram[p].size \in Nat
                           /\ Custom[p] \in Seq(Region)
    /\ \A c \in Processes \cup {Client} :
        InBuffers[c] \cup OutBuffers[c] \subseteq [base : Nat, size : Nat]
    /\ HasRoom \subseteq Processes
    /\ Client \notin Processes
    /\ Rank \in [Handles -> Nat]

MaxDepth == MaxConnections + 1
Levels == 1 .. MaxDepth

VARIABLES
    connections,  \* SpmIpcState::connections
    initDone,     \* SpmIpcState::init_done
    frames,       \* the chain of calls on the main stack
    cpu,          \* CONTROL.nPRIV, PSP and PSPLIM
    occupant,     \* [Processes -> the level whose frames are on its stack]
    ready,        \* [Processes -> its .data and .bss are initialised]
    mpu           \* the configuration the MPU holds

vars == <<connections, initDone, frames, cpu, occupant, ready, mpu>>

Vectors == [VecIdx -> [base : Nat, size : Nat]]
Steps == {"call", "init", "initialising", "start", "running", "calling", "return", "done"}
Cpu == [unprivileged : BOOLEAN,
        psp : (Processes \cup {NoProcess}) \X (Levels \cup {0}),
        psplim : Processes \cup {NoProcess}]
Frame == [handle : Handles, step : Steps, ins : Vectors, outs : Vectors, saved : Cpu]

TypeOK ==
    /\ connections \in StackOf(ConnectionOf(Levels, Handles))
    /\ initDone \in [Processes -> BOOLEAN]
    /\ frames \in Seq(Frame) /\ Len(frames) <= MaxDepth
    /\ cpu \in Cpu
    /\ occupant \in [Processes -> Levels \cup {0}]
    /\ ready \in [Processes -> BOOLEAN]
    /\ mpu \in Seq(Window) /\ Len(mpu) <= MaxRegions

Init ==
    /\ connections = EmptyStack
    /\ initDone = [p \in Processes |-> FALSE]
    /\ frames = <<>>
    /\ cpu = [unprivileged |-> FALSE, psp |-> <<NoProcess, 0>>, psplim |-> NoProcess]
    /\ occupant = [p \in Processes |-> 0]
    /\ ready = [p \in Processes |-> FALSE]
    /\ mpu = <<>>

Level == Len(frames)
Process == frames[Level].handle

\* The innermost call stands at step s.
At(s) == Level > 0 /\ frames[Level].step = s

Goto(s) == frames' = [frames EXCEPT ![Level].step = s]

------------------------------------------------------------------------------
(* apply_mpu_config *)

\* A vector whose access has begun and not ended, with the size the message
\* now gives, widened to whole granules.
InHand(v) == v.mapped /\ ~v.unmapped

VecRegionFromSize(base, size, p) ==            \* mutant of VecRegion
    [base |-> AlignDown(base), size |-> AlignUp(size), perm |-> p]

VecRegion(base, size, p) ==
    [base |-> AlignDown(base), size |-> AlignUp(base + size) - AlignDown(base), perm |-> p]

\* Nothing to allocate: allocate_region has no region of size 0.
NoRegion == [base |-> 0, size |-> 0, perm |-> "ReadXN"]

\* The vectors of connection c, whose call is f: inputs, then outputs.
VecRegions(c, f) ==
    LET ins(i) == IF InHand(c.invec[i]) /\ c.invec[i].size > 0
                  THEN VecRegion(f.ins[i].base, c.invec[i].size, "ReadXN") ELSE NoRegion
        outs(j) == IF InHand(c.outvec[j]) /\ c.outvec[j].size > 0
                   THEN VecRegion(f.outs[j].base, c.outvec[j].size, "ReadWriteXN") ELSE NoRegion IN
    [k \in 1 .. 2 * PSA_MAX_IOVEC |->
        IF k <= PSA_MAX_IOVEC THEN ins(k - 1) ELSE outs(k - PSA_MAX_IOVEC - 1)]

\* peek_active_connection gives vectors only when it is a call to p.
Regions(p, s, calls) ==
    <<[base |-> Rom[p].base, size |-> Rom[p].size, perm |-> "ReadExecute"],
      [base |-> Ram[p].base, size |-> Ram[p].size, perm |-> "ReadWriteXN"]>>
    \o Custom[p]
    \o (IF CanTake(s) /\ Active(s).handle = p THEN VecRegions(Active(s), calls[Active(s).owner]) ELSE <<>>)

MpuConfig(p, s, calls) == Configured(Regions(p, s, calls))

------------------------------------------------------------------------------
(* Calls. *)

NewFrame(h, ins, outs) ==
    [handle |-> h, step |-> "call", ins |-> ins, outs |-> outs, saved |-> cpu]

\* psa_call_veneer with parameters call_from_slices accepts.
ClientCalls(h, ins, outs) ==
    /\ frames = <<>>
    /\ frames' = <<NewFrame(h, ins, outs)>>
    /\ UNCHANGED <<connections, initDone, cpu, occupant, ready, mpu>>

\* SVC_PSA_CALL: the thunk runs privileged on the main stack, above what the
\* handler saves.  validate_memory_permission asks for what the caller may
\* touch, unprivileged, under the configuration the MPU holds.
SvcPsaCall(h, ins, outs) ==
    /\ At("running") /\ Level < MaxDepth
    /\ \A i \in VecIdx : /\ RangeGranted(mpu, ins[i].base, ins[i].size, FALSE)
                         /\ RangeGranted(mpu, outs[i].base, outs[i].size, TRUE)
    /\ frames' = Append([frames EXCEPT ![Level].step = "calling"], NewFrame(h, ins, outs))
    /\ cpu' = [cpu EXCEPT !.unprivileged = FALSE]
    /\ UNCHANGED <<connections, initDone, occupant, ready, mpu>>

DispatchForgetsInit ==                         \* mutant of Dispatch
    LET f == frames[Level]
        sizes(v) == [i \in VecIdx |-> v[i].size]
        added == Added(connections,
                       NewConnection(Level, f.handle, sizes(f.ins), sizes(f.outs))) IN
    /\ At("call")
    /\ f.handle \in Processes /\ CanAdd(connections)
    /\ connections' = added
    /\ Goto(IF initDone[f.handle] THEN "start" ELSE "init")
    /\ mpu' = MpuConfig(f.handle, added, frames)
    /\ UNCHANGED <<initDone, cpu, occupant, ready>>

\* SpmIpc::call up to the process: NotSupported without a process,
\* InsufficientMemory on a full stack.
Dispatch ==
    LET f == frames[Level]
        sizes(v) == [i \in VecIdx |-> v[i].size]
        added == Added(connections,
                       NewConnection(Level, f.handle, sizes(f.ins), sizes(f.outs))) IN
    /\ At("call")
    /\ f.handle \in Processes /\ CanAdd(connections)
    /\ connections' = added
    /\ initDone' = [initDone EXCEPT ![f.handle] = TRUE]
    /\ Goto(IF initDone[f.handle] THEN "start" ELSE "init")
    /\ mpu' = MpuConfig(f.handle, added, frames)
    /\ UNCHANGED <<cpu, occupant, ready>>

DispatchRefused ==
    /\ At("call")
    /\ Process \notin Processes \/ ~CanAdd(connections)
    /\ Goto("done")
    /\ UNCHANGED <<connections, initDone, cpu, occupant, ready, mpu>>

\* svc_call_unpriv: a frame at the top of the stack of p, and SVC_START_PROCESS.
Start(p) ==
    /\ cpu' = [unprivileged |-> TRUE, psp |-> <<p, Level>>, psplim |-> p]
    /\ occupant' = [occupant EXCEPT ![p] = Level]

InitProcess ==
    /\ At("init")
    /\ Start(Process)
    /\ Goto("initialising")
    /\ UNCHANGED <<connections, initDone, ready, mpu>>

\* call_process: stage_msg_mailbox refuses a stack that is too small.
CallProcess ==
    /\ At("start")
    /\ IF Process \in HasRoom
       THEN Start(Process) /\ Goto("running")
       ELSE Goto("return") /\ UNCHANGED <<cpu, occupant>>
    /\ UNCHANGED <<connections, initDone, ready, mpu>>

\* SVC_PROCESS_EXIT, from the init code or from the service.
ProcessExit ==
    /\ At("initialising") \/ At("running")
    /\ cpu' = [cpu EXCEPT !.unprivileged = FALSE]
    /\ IF At("initialising")
       THEN Goto("start") /\ ready' = [ready EXCEPT ![Process] = TRUE]
       ELSE Goto("return") /\ UNCHANGED ready
    /\ UNCHANGED <<connections, initDone, occupant, mpu>>

ReturnKeepsMpu ==                              \* mutant of Return
    /\ At("return")
    /\ connections' = Popped(connections)
    /\ Goto("done")
    /\ UNCHANGED <<initDone, cpu, occupant, ready, mpu>>

\* get_last_process_index pops, and the MPU goes to the process below.
Return ==
    LET popped == Popped(connections) IN
    /\ At("return")
    /\ connections' = popped
    /\ mpu' = IF CanTake(popped) THEN MpuConfig(Active(popped).handle, popped, frames) ELSE mpu
    /\ Goto("done")
    /\ UNCHANGED <<initDone, cpu, occupant, ready>>

PsaCallReturnKeepsLimit ==                     \* mutant of PsaCallReturn
    /\ At("done") /\ Level > 1
    /\ cpu' = [frames[Level].saved EXCEPT !.psplim = cpu.psplim]
    /\ frames' = [Front(frames) EXCEPT ![Level - 1].step = "running"]
    /\ UNCHANGED <<connections, initDone, occupant, ready, mpu>>

\* SVC_PSA_CALL_RETURN: what SVC_PSA_CALL saved is restored.
PsaCallReturn ==
    /\ At("done") /\ Level > 1
    /\ cpu' = frames[Level].saved
    /\ frames' = [Front(frames) EXCEPT ![Level - 1].step = "running"]
    /\ UNCHANGED <<connections, initDone, occupant, ready, mpu>>

\* The veneer returns to the client.
ClientReturns ==
    /\ At("done") /\ Level = 1
    /\ frames' = <<>>
    /\ UNCHANGED <<connections, initDone, cpu, occupant, ready, mpu>>

------------------------------------------------------------------------------
(* SVC_PSA_ACCESS_VEC and SVC_PSA_RELEASE_VEC.  When a check fails nothing  *)
(* but the registers of the service changes.                                *)

\* After update_vec_mapping the MPU follows the flags.
Update(c) ==
    LET s == [connections EXCEPT !.slots = [@ EXCEPT ![connections.top - 1] = c]] IN
    /\ connections' = s
    /\ mpu' = MpuConfig(c.handle, s, frames)
    /\ UNCHANGED <<initDone, frames, cpu, occupant, ready>>

\* with_validated_connection, for the handle the service passes.
Valid(h) == At("running") /\ CanTake(connections) /\ Active(connections).handle = h

AccessVec(h, isOut, i) ==
    LET c == Active(connections) IN
    /\ Valid(h)
    /\ IF isOut THEN CanPrepareOut(c, i) ELSE CanPrepareIn(c, i)
    /\ Update(SetMapped(IF isOut THEN PreparedOut(c, i) ELSE PreparedIn(c, i), isOut, i, TRUE))

\* Neither finish_invec_raw nor finish_outvec_raw asks whether the vector is
\* mapped.
ReleaseVec(h, isOut, i, n) ==
    LET c == Active(connections) IN
    /\ Valid(h)
    /\ IF isOut THEN CanCommit(c, i, n) ELSE CanMarkIn(c, i)
    /\ Update(SetMapped(IF isOut THEN Committed(c, i, n) ELSE MarkedIn(c, i), isOut, i, FALSE))

Service ==
    \/ \E h \in Handles, ins \in [VecIdx -> InBuffers[Process]],
                        outs \in [VecIdx -> OutBuffers[Process]] :
        Rank[h] < Rank[Process] /\ SvcPsaCall(h, ins, outs)
    \/ \E h \in Handles, isOut \in BOOLEAN, i \in AnyIdx : AccessVec(h, isOut, i)
    \/ \E h \in Handles, isOut \in BOOLEAN, i \in AnyIdx, n \in Written : ReleaseVec(h, isOut, i, n)

Next ==
    \/ \E h \in Handles, ins \in [VecIdx -> InBuffers[Client]],
                        outs \in [VecIdx -> OutBuffers[Client]] :
        ClientCalls(h, ins, outs)
    \/ Dispatch
    \/ DispatchRefused
    \/ InitProcess
    \/ CallProcess
    \/ At("running") /\ Service
    \/ ProcessExit
    \/ Return
    \/ PsaCallReturn
    \/ ClientReturns

Spec == Init /\ [][Next]_vars

------------------------------------------------------------------------------

Unprivileged == At("initialising") \/ At("running")

\* Whoever runs unprivileged runs on the stack of its own process, bounded by
\* that process's PSPLIM, in the frames staged for this very call; and no call
\* made meanwhile has put its mailbox over a service that waits
\* (svc_call.rs:52-71, api.rs:265-360).
RunsOnOwnStack ==
    /\ Unprivileged => /\ cpu = [unprivileged |-> TRUE, psp |-> <<Process, Level>>,
                                 psplim |-> Process]
                       /\ occupant[Process] = Level
    /\ ~Unprivileged => ~cpu.unprivileged
    /\ \A l \in 1 .. Level - 1 : occupant[frames[l].handle] = l

\* While a process runs, each region of the MPU is one of its own windows, or
\* the granules of a vector of its own call that it has accessed and not
\* released: nothing of the call below or of a call that returned is left
\* (spm_ipc.rs:224-260, 281-287).
OnlyOwnMemory ==
    Unprivileged =>
        LET c == Active(connections)
            covers(w, v, size) == /\ w.base = AlignDown(v.base) /\ w.end = AlignUp(v.base + size)
                                  /\ size > 0
            isOwn(w) == \E r \in {Rom[Process], Ram[Process]} \cup ToSet(Custom[Process]) :
                w.base = r.base /\ w.end = r.base + r.size
            isIn(w) == \E i \in VecIdx : /\ InHand(c.invec[i]) /\ ~w.write
                                         /\ covers(w, frames[Level].ins[i], c.invec[i].size)
            isOut(w) == \E j \in VecIdx : /\ InHand(c.outvec[j])
                                          /\ covers(w, frames[Level].outs[j], c.outvec[j].size) IN
        \A k \in DOMAIN mpu :
            isOwn(mpu[k]) \/ (CanTake(connections) /\ c.owner = Level /\ (isIn(mpu[k]) \/ isOut(mpu[k])))

\* A vector whose access succeeded and has not ended can be read, or written,
\* by the service that holds it, down to its last byte: the comment at
\* svc.rs:174 and 191 counts on it ("The SPM guarantees base/len describe
\* valid readable memory").
AccessedReachable ==
    At("running") =>
        LET c == Active(connections)
            bytes(v, size) == v.base .. v.base + size - 1 IN
        \A i \in VecIdx :
            /\ InHand(c.invec[i]) =>
                \A a \in bytes(frames[Level].ins[i], c.invec[i].size) : Grants(mpu, a, FALSE)
            /\ InHand(c.outvec[i]) =>
                \A a \in bytes(frames[Level].outs[i], c.outvec[i].size) : Grants(mpu, a, TRUE)

\* The init code of a binary, which clears its .bss and reloads its .data, runs
\* before its service does and never again (spm_ipc.rs:229-246).
InitOnceFirst ==
    /\ At("running") => ready[Process]
    /\ At("initialising") => ~ready[Process]

\* An output vector that was given back with bytes in it is final: it is not
\* mapped again and its length stays, whatever the service tries next; and a
\* length changes only to what was written, never to more.
OutputFinal ==
    [][\A i \in Slots, j \in VecIdx :
        LET c == connections.slots[i]
            d == connections'.slots[i] IN
        c # Absent /\ d # Absent =>
            LET v == c.outvec[j]
                w == d.outvec[j] IN
            /\ v.written # 0 => /\ w.written = v.written /\ w.size = v.size
                                /\ ~InHand(w)
            /\ w.size # v.size => w.size = w.written /\ w.size < v.size]_vars

\* What a region grants is what its permission is named for: "XN" regions are
\* never executed, "Execute" regions can be (spm_ipc.rs:194-196, mpu.rs:232-240).
AsSpecified ==
    \A k \in DOMAIN mpu :
        mpu[k].execute <=> mpu[k].asked \in {"ReadWriteExecute", "ReadExecute"}
===============================================================================
