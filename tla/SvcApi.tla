-------------------------------- MODULE SvcApi --------------------------------
(***************************************************************************)
(* One service, two builds.  A service is written against SpmApi; linked   *)
(* into the SFN image it works on its connection directly (SfnApi), as a   *)
(* process of the IPC image it goes through supervisor calls, one per      *)
(* vector and direction, with everything it says and hears in r0 to r3     *)
(* (SvcApi, handle_svc_with_spm).                                          *)
(*                                                                         *)
(* The same service runs here against both: sfn and svc are its connection *)
(* in either build, answer and told what it has heard in either.  An API   *)
(* call of the SFN build is prepared at its first step and finished when   *)
(* the closure returns; in the IPC build each SVC is a step.  The closure  *)
(* may call other services meanwhile.                                      *)
(***************************************************************************)
EXTENDS IoVec

CONSTANTS
    Handles,     \* ServiceHandle, as the numbers that go through r0
    Msg,         \* the handle of the connection that is served
    InBase,      \* [VecIdx -> address]
    OutBase,
    Types,       \* request types, u16
    Lens,        \* vector counts of a control parameter, u8
    Statuses,    \* what a callee returns
    Versions,    \* [SUBSET Handles -> version], the services that are there
    Ids,         \* what a service asks the version of
    MaxCalls     \* bound: API calls of one run of the service

\* A register.  28 bits stand for 32, the width TLC can calculate with: a
\* control parameter has no bit above 27, and of the bits above it the handles
\* have one, which they share.
Word == 268435456   \* 2^28

ASSUME SvcApiAssumption ==
    /\ Handles \subseteq 0 .. Word - 1 /\ Msg \in Handles
    /\ InBase \in [VecIdx -> 1 .. Word - 1] /\ OutBase \in [VecIdx -> 1 .. Word - 1]
    /\ DOMAIN Versions \subseteq Handles

ASSUME ControlAssumption == Types \subseteq 0 .. 65535 /\ Lens \subseteq 0 .. 255

VARIABLES
    sfn,       \* the connection in the SFN build
    svc,       \* the connection in the IPC build
    op,        \* the access in progress
    answer,    \* [sfn, svc]: status and slices of the last access
    told,      \* [sfn, svc]: what the last psa_call or psa_version returned
    repeated,  \* the service has asked for a vector that it was given before
    failed,    \* vectors of accesses that the IPC build answered with an error
    calls      \* API calls so far

vars == <<sfn, svc, op, answer, told, repeated, failed, calls>>

------------------------------------------------------------------------------
(* Status codes, handles and control parameters as registers carry them.    *)

Success == 0
ProgrammerError == -129
InvalidHandle == -136
CommunicationFailure == -145

StatusCodes == {0} \cup (-147 .. -129) \cup {-149, -151, -152, -153, -248}

\* A service returns Result<(), StatusCode>.
ASSUME StatusesAssumption == Statuses \subseteq StatusCodes

\* isize to usize, and back.
CastUnsigned(status) == status % Word
CastSigned(raw) == IF raw < Word \div 2 THEN raw ELSE raw - Word

\* A code that no StatusCode has is a CommunicationFailure.
CheckSvcResult(raw) ==
    IF CastSigned(raw) \in StatusCodes THEN CastSigned(raw) ELSE CommunicationFailure

\* CtrlParam::new: lengths are cut to three bits.
CtrlParam(type, inLen, outLen) ==
    type + (outLen % 8) * 2^16 + (inLen % 8) * 2^24

\* The type is read back as a signed 16-bit integer.
UnpackType(ctrl) ==
    LET type == ctrl % 2^16 IN IF type < 2^15 THEN type ELSE type - 2^16

OutLen(ctrl) == (ctrl \div 2^16) % 8
InLen(ctrl) == (ctrl \div 2^24) % 8
HasIovec(ctrl) == ctrl \div 2^16 # 0

\* validate_call_params.
CallParamsValid(ctrl) ==
    /\ UnpackType(ctrl) >= 0
    /\ HasIovec(ctrl) => InLen(ctrl) + OutLen(ctrl) <= PSA_MAX_IOVEC

------------------------------------------------------------------------------
(* The SVC handler: registers and connection before, registers and          *)
(* connection after.                                                        *)

Frame(a, b, c, d) == [r0 |-> a, r1 |-> b, r2 |-> c, r3 |-> d]

SetStatus(f, status) == [f EXCEPT !.r0 = CastUnsigned(status)]
SetSuccess(f) == SetStatus(f, Success)
SetError(f, status) == SetStatus(Frame(f.r0, 0, 0, 0), status)

SetRawVecSwapped(f, base, len) == SetSuccess(Frame(f.r0, len, base, 0))  \* mutant
SetRawVec(f, base, len) == SetSuccess(Frame(f.r0, base, len, 0))

\* with_validated_connection; the message type of a connection is never
\* negative, and the connection of the running service is on the stack.
Validated(handle, ok) ==
    IF handle # Msg THEN InvalidHandle ELSE IF ok THEN Success ELSE ProgrammerError

\* prepare_*_raw and map_vec.
AccessVec(f, c) ==
    LET isOut == f.r2 # 0
        i == f.r1
        status == Validated(f.r0, IF isOut THEN CanPrepareOut(c, i) ELSE CanPrepareIn(c, i))
        d == IF isOut THEN PreparedOut(c, i) ELSE PreparedIn(c, i) IN
    IF status # Success THEN [frame |-> SetError(f, status), conn |-> c]
    ELSE [frame |-> IF isOut THEN SetRawVec(f, OutBase[i], c.outvec[i].size)
                    ELSE SetRawVec(f, InBase[i], c.invec[i].size),
          conn |-> SetMapped(d, isOut, i, TRUE)]

\* finish_*_raw and unmap_vec.
ReleaseVec(f, c) ==
    LET isOut == f.r2 # 0
        i == f.r1
        status == Validated(f.r0, IF isOut THEN CanCommit(c, i, f.r3) ELSE CanMarkIn(c, i))
        d == IF isOut THEN Committed(c, i, f.r3) ELSE MarkedIn(c, i) IN
    IF status # Success THEN [frame |-> SetError(f, status), conn |-> c]
    ELSE [frame |-> SetSuccess(f), conn |-> SetMapped(d, isOut, i, FALSE)]

\* SfnApi::call on the registers; status is what the callee returns, through
\* process_exit and call_process.
PsaCallSvc(f, c, status) ==
    LET result == IF CallParamsValid(f.r1) THEN CheckSvcResult(CastUnsigned(status))
                  ELSE ProgrammerError IN
    [frame |-> IF result = Success THEN SetSuccess(f) ELSE SetError(f, result), conn |-> c]

\* SpmCall::version, 0 for a service that is not there.
VersionOf(h) == IF h \in DOMAIN Versions THEN Versions[h] ELSE 0

VersionSvc(f, c) == [frame |-> [f EXCEPT !.r0 = VersionOf(@)], conn |-> c]

\* service_handle_from_raw first, whatever the number.
HandleSvc(f, c, handler) ==
    IF f.r0 \in Handles THEN handler ELSE [frame |-> SetError(f, InvalidHandle), conn |-> c]

------------------------------------------------------------------------------

NoSlice == [base |-> 0, len |-> 0]

\* Nobody makes a slice of a null base: the length decides.
Slice(base, len) == IF len = 0 THEN NoSlice ELSE [base |-> base, len |-> len]

NoAccess == [handle |-> Msg, ins |-> {}, outs |-> {}, stage |-> "idle", written |-> 0]
NoAnswer == [status |-> Success, in |-> NoSlice, out |-> NoSlice]
\* The connection is built from the same vectors in both builds.
Init ==
    \E ins, outs \in [VecIdx -> Sizes] :
        /\ sfn = NewConnection(Msg, Msg, ins, outs)
        /\ svc = sfn
        /\ op = NoAccess
        /\ answer = [sfn |-> NoAnswer, svc |-> NoAnswer]
        /\ told = [sfn |-> 0, svc |-> 0]
        /\ repeated = FALSE
        /\ failed = {}
        /\ calls = 0

Request == calls < MaxCalls /\ calls' = calls + 1

\* The vectors of an access, and whether one of them was given out before.
Asked(a) == ({"in"} \X a.ins) \cup ({"out"} \X a.outs)

AskedBefore(a) ==
    \/ \E i \in a.ins \cap VecIdx : sfn.invec[i].mapped
    \/ \E j \in a.outs \cap VecIdx : sfn.outvec[j].mapped

\* access_invec, access_outvec or access_invec_outvec is called; the SFN build
\* prepares its vectors and forms the slices.
Access(h, a) ==
    LET status == Validated(h, CanBegin(sfn, a))
        inSlice == IF a.ins = {} THEN NoSlice
                   ELSE LET i == CHOOSE i \in a.ins : TRUE IN Slice(InBase[i], sfn.invec[i].size)
        outSlice == IF a.outs = {} THEN NoSlice
                    ELSE LET j == CHOOSE j \in a.outs : TRUE IN Slice(OutBase[j], sfn.outvec[j].size) IN
    /\ op.stage = "idle" /\ Request
    /\ op' = [handle |-> h, ins |-> a.ins, outs |-> a.outs, written |-> 0,
              stage |-> IF a.ins # {} THEN "in" ELSE "out"]
    /\ sfn' = IF h = Msg THEN Begun(sfn, a) ELSE sfn
    /\ answer' = [sfn |-> IF status = Success
                          THEN [status |-> status, in |-> inSlice, out |-> outSlice]
                          ELSE [NoAnswer EXCEPT !.status = status],
                  svc |-> NoAnswer]
    /\ repeated' = (repeated \/ AskedBefore(a))
    /\ UNCHANGED <<svc, told, failed>>

Goto(s) == op' = IF s = "idle" THEN NoAccess ELSE [op EXCEPT !.stage = s]

\* The "?" after an SVC: an error ends the API call at once.
GiveUp(status) ==
    /\ Goto("idle")
    /\ answer' = [answer EXCEPT !.svc = [NoAnswer EXCEPT !.status = status]]
    /\ failed' = failed \cup Asked(op)

\* svc_access_invec.
SvcAccessInvec ==
    \E i \in op.ins :
        LET f == Frame(op.handle, i, 0, 0)
            done == HandleSvc(f, svc, AccessVec(f, svc))
            status == CheckSvcResult(done.frame.r0) IN
        /\ op.stage = "in"
        /\ svc' = done.conn
        /\ IF status # Success THEN GiveUp(status)
           ELSE /\ Goto(IF op.outs # {} THEN "out" ELSE "closure")
                /\ answer' = [answer EXCEPT !.svc.in = Slice(done.frame.r1, done.frame.r2)]
                /\ UNCHANGED failed
        /\ UNCHANGED <<sfn, told, repeated, calls>>

\* svc_access_outvec.
SvcAccessOutvec ==
    \E j \in op.outs :
        LET f == Frame(op.handle, j, 1, 0)
            done == HandleSvc(f, svc, AccessVec(f, svc))
            status == CheckSvcResult(done.frame.r0) IN
        /\ op.stage = "out"
        /\ svc' = done.conn
        /\ IF status # Success THEN GiveUp(status)
           ELSE /\ Goto("closure")
                /\ answer' = [answer EXCEPT !.svc.out = Slice(done.frame.r1, done.frame.r2)]
                /\ UNCHANGED failed
        /\ UNCHANGED <<sfn, told, repeated, calls>>

\* The closure returns.  The SFN build, if it ran the closure, commits and
\* marks its vectors.
ClosureReturns(n) ==
    LET status == IF CommitOk(sfn, op, n) /\ MarkOk(sfn, op) THEN Success ELSE ProgrammerError IN
    /\ op.stage = "closure"
    /\ op.outs = {} => n = 0
    /\ op' = [op EXCEPT !.written = n, !.stage = IF op.outs # {} THEN "releaseOut" ELSE "releaseIn"]
    /\ IF answer.sfn.status = Success
       THEN /\ sfn' = Ended(sfn, op, n)
            /\ answer' = [answer EXCEPT !.sfn.status = status]
       ELSE UNCHANGED <<sfn, answer>>
    /\ UNCHANGED <<svc, told, repeated, failed, calls>>

SvcReleaseOutvecOnly ==                        \* mutant of SvcReleaseOutvec
    \E j \in op.outs :
        LET f == Frame(op.handle, j, 1, op.written)
            done == HandleSvc(f, svc, ReleaseVec(f, svc))
            status == CheckSvcResult(done.frame.r0) IN
        /\ op.stage = "releaseOut"
        /\ svc' = done.conn
        /\ IF status # Success THEN GiveUp(status)
           ELSE Goto("idle") /\ UNCHANGED <<answer, failed>>
        /\ UNCHANGED <<sfn, told, repeated, calls>>

\* svc_release_outvec, which commits; the input is released after it.
SvcReleaseOutvec ==
    \E j \in op.outs :
        LET f == Frame(op.handle, j, 1, op.written)
            done == HandleSvc(f, svc, ReleaseVec(f, svc))
            status == CheckSvcResult(done.frame.r0) IN
        /\ op.stage = "releaseOut"
        /\ svc' = done.conn
        /\ IF status # Success THEN GiveUp(status)
           ELSE Goto(IF op.ins # {} THEN "releaseIn" ELSE "idle") /\ UNCHANGED <<answer, failed>>
        /\ UNCHANGED <<sfn, told, repeated, calls>>

\* svc_release_invec.
SvcReleaseInvec ==
    \E i \in op.ins :
        LET f == Frame(op.handle, i, 0, 0)
            done == HandleSvc(f, svc, ReleaseVec(f, svc))
            status == CheckSvcResult(done.frame.r0) IN
        /\ op.stage = "releaseIn"
        /\ svc' = done.conn
        /\ IF status # Success THEN GiveUp(status)
           ELSE Goto("idle") /\ UNCHANGED <<answer, failed>>
        /\ UNCHANGED <<sfn, told, repeated, calls>>

\* A service asks for something else between its accesses, or in a closure.
Tell(bySfn, bySvc) ==
    /\ op.stage \in {"idle", "closure"} /\ Request
    /\ told' = [sfn |-> bySfn, svc |-> bySvc]
    /\ UNCHANGED <<sfn, svc, op, answer, repeated, failed>>

\* psa_call of InternalPsaClient and of IpcPsaClient, to a service that answers
\* with s.
Call(h, type, inLen, outLen, s) ==
    LET ctrl == CtrlParam(type, inLen, outLen)
        f == Frame(h, ctrl, 0, 0)
        done == HandleSvc(f, svc, PsaCallSvc(f, svc, s)) IN
    Tell(IF CallParamsValid(ctrl) THEN s ELSE ProgrammerError, CheckSvcResult(done.frame.r0))

\* psa_version_impl, which answers the clients of the SFN build, and
\* IpcPsaClient::psa_version.  The services of the SFN build do not ask:
\* InternalPsaClient::psa_version calls itself and has no caller.
Version(id) ==
    LET f == Frame(id, 0, 0, 0)
        done == HandleSvc(f, svc, VersionSvc(f, svc)) IN
    Tell(IF id \in Handles THEN VersionOf(id) ELSE 0, IF id \in Handles THEN done.frame.r0 ELSE 0)

Next ==
    \/ \E h \in Handles, a \in Accesses : Access(h, a)
    \/ SvcAccessInvec
    \/ SvcAccessOutvec
    \/ \E n \in Written : ClosureReturns(n)
    \/ SvcReleaseOutvec
    \/ SvcReleaseInvec
    \/ \E h \in Handles, t \in Types, i, o \in Lens, s \in Statuses : Call(h, t, i, o, s)
    \/ \E id \in Ids : Version(id)

Spec == Init /\ [][Next]_vars

------------------------------------------------------------------------------

InHand(v) == v.mapped /\ ~v.unmapped

\* A service cannot tell the builds apart as long as it asks for each vector
\* once: the closure gets the same slices, every request ends with the same
\* status or version, refusals and commits of too many bytes included, and
\* vectors end up with the same lengths, in hand or given back alike
\* (svc.rs:93-141 and 293-369 against api.rs:25-92).
BuildsAgree ==
    /\ told.svc = told.sfn
    /\ ~repeated =>
        /\ op.stage = "closure" => answer.svc = answer.sfn
        /\ op.stage = "idle" =>
            /\ answer.svc.status = answer.sfn.status
            /\ \A i \in VecIdx :
                /\ InHand(svc.invec[i]) <=> InHand(sfn.invec[i])
                /\ InHand(svc.outvec[i]) <=> InHand(sfn.outvec[i])
                /\ svc.outvec[i].size = sfn.outvec[i].size
                /\ svc.outvec[i].written = sfn.outvec[i].written

\* Between its API calls a service of the IPC build holds no vector, and with
\* it no MPU region, except those of an access that was answered with an error:
\* each SVC of access_invec_outvec may fail, and none undoes the earlier ones
\* (svc.rs:327-349).
HeldOnlyAfterFailure ==
    op.stage = "idle" =>
        \A i \in VecIdx :
            /\ InHand(svc.invec[i]) => <<"in", i>> \in failed
            /\ InHand(svc.outvec[i]) => <<"out", i>> \in failed
===============================================================================
