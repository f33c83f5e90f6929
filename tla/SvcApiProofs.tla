----------------------------- MODULE SvcApiProofs -----------------------------
(***************************************************************************)
(* Which vectors a service of the IPC build holds, for any number of       *)
(* vectors, handles and API calls: besides those of a failed access, the   *)
(* ones of the access in progress, and of these the ones whose SVC has     *)
(* been made and not undone.                                               *)
(*                                                                         *)
(* And that it is the same service: an inductive invariant relates each    *)
(* vector of the two builds, stage by stage, from the access the SFN build *)
(* makes at once to the SVCs that catch up with it.                        *)
(***************************************************************************)
EXTENDS SvcApi, FiniteSetTheorems, TLAPS

Conn == ConnectionOf({Msg}, {Msg})

\* At most one vector of each direction.
AtMostOne(S) == \A x, y \in S : x = y

Stages == {"idle", "in", "out", "closure", "releaseOut", "releaseIn"}

OpOk ==
    /\ op \in [handle : Handles, ins : SUBSET AnyIdx, outs : SUBSET AnyIdx,
               stage : Stages, written : Nat]
    /\ AtMostOne(op.ins) /\ AtMostOne(op.outs)

\* The stages in which the access in progress holds its input, its output.
HoldsIn == {"out", "closure", "releaseOut", "releaseIn"}
HoldsOut == {"closure", "releaseOut"}

HeldIn == \A i \in VecIdx :
    InHand(svc.invec[i]) => <<"in", i>> \in failed \/ (op.stage \in HoldsIn /\ i \in op.ins)

HeldOut == \A j \in VecIdx :
    InHand(svc.outvec[j]) => <<"out", j>> \in failed \/ (op.stage \in HoldsOut /\ j \in op.outs)

IInv == svc \in Conn /\ OpOk /\ HeldIn /\ HeldOut

------------------------------------------------------------------------------

\* An error stays one on its way through r0.
LEMMA ErrorsArrive ==
    /\ CheckSvcResult(CastUnsigned(InvalidHandle)) # Success
    /\ CheckSvcResult(CastUnsigned(ProgrammerError)) # Success
BY DEF CheckSvcResult, CastUnsigned, CastSigned, InvalidHandle, ProgrammerError,
       CommunicationFailure, Success, StatusCodes, Word

\* All of d but input i, or output i, is as in c.
SameButIn(c, d, i) ==
    /\ d \in Conn
    /\ d.outvec = c.outvec
    /\ \A k \in VecIdx : k # i => d.invec[k] = c.invec[k]

SameButOut(c, d, i) ==
    /\ d \in Conn
    /\ d.invec = c.invec
    /\ \A k \in VecIdx : k # i => d.outvec[k] = c.outvec[k]

LEMMA SetMappedIn ==
    ASSUME NEW c \in Conn, NEW i \in VecIdx, NEW m \in BOOLEAN
    PROVE  /\ SameButIn(c, SetMapped(c, FALSE, i, m), i)
           /\ SetMapped(c, FALSE, i, m).invec[i].mapped = m
BY DEF SetMapped, Conn, ConnectionOf, SameButIn, InVec

LEMMA SetMappedOut ==
    ASSUME NEW c \in Conn, NEW i \in VecIdx, NEW m \in BOOLEAN
    PROVE  /\ SameButOut(c, SetMapped(c, TRUE, i, m), i)
           /\ SetMapped(c, TRUE, i, m).outvec[i].mapped = m
BY ZenonT(30) DEF SetMapped, Conn, ConnectionOf, SameButOut, OutVec

LEMMA ValidatedOk ==
    ASSUME NEW h, NEW ok \in BOOLEAN
    PROVE  /\ Validated(h, ok) = Success => ok
           /\ Validated(h, ok) # Success => Validated(h, ok) \in {InvalidHandle, ProgrammerError}
BY DEF Validated, Success, ProgrammerError, InvalidHandle

\* An SVC concerns the vector it names and no other.
LEMMA AccessIn ==
    ASSUME NEW c \in Conn, NEW h \in Handles, NEW i
    PROVE  LET f == Frame(h, i, 0, 0) IN
           SameButIn(c, HandleSvc(f, c, AccessVec(f, c)).conn, i)
<1> DEFINE f == Frame(h, i, 0, 0)
           status == Validated(h, CanPrepareIn(c, i))
<1>1. f.r0 = h /\ f.r1 = i /\ f.r2 = 0
  BY DEF Frame
<1>2. HandleSvc(f, c, AccessVec(f, c)) = AccessVec(f, c)
  BY <1>1 DEF HandleSvc
<1>3. CASE status # Success
  <2>1. AccessVec(f, c).conn = c
    BY <1>1, <1>3 DEF AccessVec
  <2>. QED BY <1>2, <2>1 DEF SameButIn
<1>4. CASE status = Success
  <2>1. i \in VecIdx
    BY <1>4, ValidatedOk DEF CanPrepareIn
  <2>2. AccessVec(f, c).conn = SetMapped(PreparedIn(c, i), FALSE, i, TRUE)
    BY <1>1, <1>4 DEF AccessVec
  <2>3. SameButIn(c, PreparedIn(c, i), i)
    BY <2>1 DEF PreparedIn, Conn, ConnectionOf, SameButIn, InVec
  <2>4. SameButIn(PreparedIn(c, i), SetMapped(PreparedIn(c, i), FALSE, i, TRUE), i)
    BY <2>1, <2>3, SetMappedIn DEF SameButIn
  <2>. QED BY <1>2, <2>2, <2>3, <2>4 DEF SameButIn
<1>. QED BY <1>3, <1>4

LEMMA AccessOut ==
    ASSUME NEW c \in Conn, NEW h \in Handles, NEW i
    PROVE  LET f == Frame(h, i, 1, 0) IN
           SameButOut(c, HandleSvc(f, c, AccessVec(f, c)).conn, i)
<1> DEFINE f == Frame(h, i, 1, 0)
           status == Validated(h, CanPrepareOut(c, i))
<1>1. f.r0 = h /\ f.r1 = i /\ (f.r2 # 0) = TRUE
  BY DEF Frame
<1>2. HandleSvc(f, c, AccessVec(f, c)) = AccessVec(f, c)
  BY <1>1 DEF HandleSvc
<1>3. CASE status # Success
  <2>1. AccessVec(f, c).conn = c
    BY <1>1, <1>3 DEF AccessVec
  <2>. QED BY <1>2, <2>1 DEF SameButOut
<1>4. CASE status = Success
  <2>1. i \in VecIdx
    BY <1>4, ValidatedOk DEF CanPrepareOut
  <2>2. AccessVec(f, c).conn = SetMapped(PreparedOut(c, i), TRUE, i, TRUE)
    BY <1>1, <1>4 DEF AccessVec
  <2>3. SameButOut(c, PreparedOut(c, i), i)
    BY <2>1 DEF PreparedOut, Conn, ConnectionOf, SameButOut, OutVec
  <2>4. SameButOut(PreparedOut(c, i), SetMapped(PreparedOut(c, i), TRUE, i, TRUE), i)
    BY <2>1, <2>3, SetMappedOut DEF SameButOut
  <2>. QED BY <1>2, <2>2, <2>3, <2>4 DEF SameButOut
<1>. QED BY <1>3, <1>4

\* A release that reports success has let go of the vector.
LEMMA ReleaseIn ==
    ASSUME NEW c \in Conn, NEW h \in Handles, NEW i
    PROVE  LET f == Frame(h, i, 0, 0)
               done == HandleSvc(f, c, ReleaseVec(f, c)) IN
           /\ SameButIn(c, done.conn, i)
           /\ CheckSvcResult(done.frame.r0) = Success => ~InHand(done.conn.invec[i])
<1> DEFINE f == Frame(h, i, 0, 0)
           status == Validated(h, CanMarkIn(c, i))
<1>1. f.r0 = h /\ f.r1 = i /\ f.r2 = 0
  BY DEF Frame
<1>2. HandleSvc(f, c, ReleaseVec(f, c)) = ReleaseVec(f, c)
  BY <1>1 DEF HandleSvc
<1>3. CASE status # Success
  <2>1. /\ ReleaseVec(f, c).conn = c
        /\ ReleaseVec(f, c).frame = SetError(f, status)
    BY <1>1, <1>3 DEF ReleaseVec
  <2>2. SetError(f, status).r0 = CastUnsigned(status)
    BY DEF SetError, SetStatus, Frame
  <2>3. CheckSvcResult(CastUnsigned(status)) # Success
    BY <1>3, ValidatedOk, ErrorsArrive DEF CanMarkIn
  <2>. QED BY <1>2, <2>1, <2>2, <2>3 DEF SameButIn
<1>4. CASE status = Success
  <2>1. i \in VecIdx
    BY <1>4, ValidatedOk DEF CanMarkIn
  <2>2. ReleaseVec(f, c).conn = SetMapped(MarkedIn(c, i), FALSE, i, FALSE)
    BY <1>1, <1>4 DEF ReleaseVec
  <2>3. SameButIn(c, MarkedIn(c, i), i)
    BY <2>1 DEF MarkedIn, Conn, ConnectionOf, SameButIn, InVec
  <2>4. /\ SameButIn(MarkedIn(c, i), SetMapped(MarkedIn(c, i), FALSE, i, FALSE), i)
        /\ ~SetMapped(MarkedIn(c, i), FALSE, i, FALSE).invec[i].mapped
    BY <2>1, <2>3, SetMappedIn DEF SameButIn
  <2>. QED BY <1>2, <2>2, <2>3, <2>4 DEF SameButIn, InHand
<1>. QED BY <1>3, <1>4

LEMMA ReleaseOut ==
    ASSUME NEW c \in Conn, NEW h \in Handles, NEW i, NEW n \in Nat
    PROVE  LET f == Frame(h, i, 1, n)
               done == HandleSvc(f, c, ReleaseVec(f, c)) IN
           /\ SameButOut(c, done.conn, i)
           /\ CheckSvcResult(done.frame.r0) = Success => ~InHand(done.conn.outvec[i])
<1> DEFINE f == Frame(h, i, 1, n)
           status == Validated(h, CanCommit(c, i, n))
<1>1. f.r0 = h /\ f.r1 = i /\ (f.r2 # 0) = TRUE /\ f.r3 = n
  BY DEF Frame
<1>2. HandleSvc(f, c, ReleaseVec(f, c)) = ReleaseVec(f, c)
  BY <1>1 DEF HandleSvc
<1>3. CASE status # Success
  <2>1. /\ ReleaseVec(f, c).conn = c
        /\ ReleaseVec(f, c).frame = SetError(f, status)
    BY <1>1, <1>3 DEF ReleaseVec
  <2>2. SetError(f, status).r0 = CastUnsigned(status)
    BY DEF SetError, SetStatus, Frame
  <2>3. CheckSvcResult(CastUnsigned(status)) # Success
    BY <1>3, ValidatedOk, ErrorsArrive DEF CanCommit
  <2>. QED BY <1>2, <2>1, <2>2, <2>3 DEF SameButOut
<1>4. CASE status = Success
  <2>1. i \in VecIdx
    BY <1>4, ValidatedOk DEF CanCommit
  <2>2. ReleaseVec(f, c).conn = SetMapped(Committed(c, i, n), TRUE, i, FALSE)
    BY <1>1, <1>4 DEF ReleaseVec
  <2>3. SameButOut(c, Committed(c, i, n), i)
    BY <2>1 DEF Committed, CommittedVec, Conn, ConnectionOf, SameButOut, OutVec
  <2>4. /\ SameButOut(Committed(c, i, n), SetMapped(Committed(c, i, n), TRUE, i, FALSE), i)
        /\ ~SetMapped(Committed(c, i, n), TRUE, i, FALSE).outvec[i].mapped
    BY <2>1, <2>3, SetMappedOut DEF SameButOut
  <2>. QED BY <1>2, <2>2, <2>3, <2>4 DEF SameButOut, InHand
<1>. QED BY <1>3, <1>4

------------------------------------------------------------------------------

LEMMA OneOfEach ==
    ASSUME NEW a \in Accesses
    PROVE  /\ a.ins \in SUBSET AnyIdx /\ AtMostOne(a.ins)
           /\ a.outs \in SUBSET AnyIdx /\ AtMostOne(a.outs)
<1>1. IsFiniteSet(AnyIdx)
  BY IoVecAssumption, FS_Interval DEF AnyIdx
<1>2. ASSUME NEW S \in SUBSET AnyIdx, Cardinality(S) <= 1
      PROVE  AtMostOne(S)
  <2>1. IsFiniteSet(S) /\ Cardinality(S) \in Nat
    BY <1>1, FS_Subset, FS_CardinalityType
  <2>2. CASE Cardinality(S) = 0
    BY <2>1, <2>2, FS_EmptySet DEF AtMostOne
  <2>3. CASE Cardinality(S) = 1
    BY <2>1, <2>3, FS_Singleton DEF AtMostOne
  <2>. QED BY <1>2, <2>1, <2>2, <2>3
<1>. QED BY <1>2 DEF Accesses

LEMMA InitIInv == Init => IInv
<1> SUFFICES ASSUME Init PROVE IInv
  OBVIOUS
<1>1. PICK ins, outs \in [VecIdx -> Sizes] : svc = NewConnection(Msg, Msg, ins, outs)
  BY DEF Init
<1>2. svc \in Conn
  BY <1>1, IoVecAssumption DEF NewConnection, Conn, ConnectionOf, InVec, OutVec
<1>3. \A i \in VecIdx : ~InHand(svc.invec[i]) /\ ~InHand(svc.outvec[i])
  BY <1>1 DEF NewConnection, InHand
<1>4. OpOk
  BY SvcApiAssumption DEF Init, OpOk, NoAccess, Stages, AtMostOne
<1>. QED BY <1>2, <1>3, <1>4 DEF IInv, HeldIn, HeldOut

\* A request that ends with an error leaves its vectors in failed.
LEMMA GiveUpIInv ==
    ASSUME IInv, svc' \in Conn, NEW status, GiveUp(status),
           \A k \in VecIdx : k \notin op.ins => svc'.invec[k] = svc.invec[k],
           \A k \in VecIdx : k \notin op.outs => svc'.outvec[k] = svc.outvec[k]
    PROVE  IInv'
<1>1. op' = NoAccess /\ failed' = failed \cup Asked(op)
  BY DEF GiveUp, Goto
<1>2. OpOk'
  BY <1>1, SvcApiAssumption DEF OpOk, NoAccess, Stages, AtMostOne
<1>3. HeldIn'
  BY <1>1 DEF IInv, HeldIn, Asked
<1>4. HeldOut'
  BY <1>1 DEF IInv, HeldOut, Asked
<1>. QED BY <1>2, <1>3, <1>4 DEF IInv

LEMMA NextIInv == IInv /\ [Next]_vars => IInv'
<1> SUFFICES ASSUME IInv, [Next]_vars PROVE IInv'
  OBVIOUS
<1>0. svc \in Conn /\ OpOk /\ HeldIn /\ HeldOut
  BY DEF IInv
<1>1. ASSUME NEW h \in Handles, NEW a \in Accesses, Access(h, a)
      PROVE  IInv'
  <2>1. /\ op.stage = "idle" /\ UNCHANGED <<svc, failed>>
        /\ op' = [handle |-> h, ins |-> a.ins, outs |-> a.outs, written |-> 0,
                  stage |-> IF a.ins # {} THEN "in" ELSE "out"]
    BY <1>1 DEF Access
  <2>2. OpOk'
    BY <2>1, OneOfEach DEF OpOk, Stages
  <2>3. HeldIn' /\ HeldOut'
    BY <1>0, <2>1 DEF HeldIn, HeldOut, HoldsIn, HoldsOut
  <2>. QED BY <1>0, <2>1, <2>2, <2>3 DEF IInv
<1>2. CASE SvcAccessInvec
  <2>1. PICK i \in op.ins :
          LET f == Frame(op.handle, i, 0, 0)
              done == HandleSvc(f, svc, AccessVec(f, svc))
              status == CheckSvcResult(done.frame.r0) IN
          /\ op.stage = "in"
          /\ svc' = done.conn
          /\ IF status # Success THEN GiveUp(status)
             ELSE Goto(IF op.outs # {} THEN "out" ELSE "closure") /\ UNCHANGED failed
    BY <1>2 DEF SvcAccessInvec
  <2>2. SameButIn(svc, svc', i)
    BY <1>0, <2>1, AccessIn DEF OpOk
  <2>3. ASSUME NEW status, GiveUp(status) PROVE IInv'
    BY <2>2, <2>3, GiveUpIInv DEF SameButIn
  <2>4. ASSUME Goto(IF op.outs # {} THEN "out" ELSE "closure"), UNCHANGED failed
        PROVE  IInv'
    <3>1. op' = [op EXCEPT !.stage = IF op.outs # {} THEN "out" ELSE "closure"]
      BY <2>4 DEF Goto
    <3>2. OpOk' /\ op'.ins = op.ins /\ op'.outs = op.outs /\ op'.stage \in HoldsIn
      BY <1>0, <3>1 DEF OpOk, Stages, HoldsIn
    <3>3. HeldIn'
      BY <1>0, <2>1, <2>2, <2>4, <3>2 DEF HeldIn, HoldsIn, SameButIn
    <3>4. HeldOut'
      BY <1>0, <2>1, <2>2, <2>4, <3>2 DEF HeldOut, HoldsOut, SameButIn
    <3>. QED BY <2>2, <3>2, <3>3, <3>4 DEF IInv, SameButIn
  <2>. QED BY <2>1, <2>3, <2>4
<1>3. CASE SvcAccessOutvec
  <2>1. PICK j \in op.outs :
          LET f == Frame(op.handle, j, 1, 0)
              done == HandleSvc(f, svc, AccessVec(f, svc))
              status == CheckSvcResult(done.frame.r0) IN
          /\ op.stage = "out"
          /\ svc' = done.conn
          /\ IF status # Success THEN GiveUp(status)
             ELSE Goto("closure") /\ UNCHANGED failed
    BY <1>3 DEF SvcAccessOutvec
  <2>2. SameButOut(svc, svc', j)
    BY <1>0, <2>1, AccessOut DEF OpOk
  <2>3. ASSUME NEW status, GiveUp(status) PROVE IInv'
    BY <2>2, <2>3, GiveUpIInv DEF SameButOut
  <2>4. ASSUME Goto("closure"), UNCHANGED failed
        PROVE  IInv'
    <3>1. op' = [op EXCEPT !.stage = "closure"]
      BY <2>4 DEF Goto
    <3>2. OpOk' /\ op'.ins = op.ins /\ op'.outs = op.outs /\ op'.stage = "closure"
      BY <1>0, <3>1 DEF OpOk, Stages
    <3>3. HeldIn'
      BY <1>0, <2>1, <2>2, <2>4, <3>2 DEF HeldIn, HoldsIn, SameButOut
    <3>4. HeldOut'
      BY <1>0, <2>1, <2>2, <2>4, <3>2 DEF HeldOut, HoldsOut, SameButOut
    <3>. QED BY <2>2, <3>2, <3>3, <3>4 DEF IInv, SameButOut
  <2>. QED BY <2>1, <2>3, <2>4
<1>4. ASSUME NEW n \in Written, ClosureReturns(n)
      PROVE  IInv'
  <2>1. /\ op.stage = "closure" /\ UNCHANGED <<svc, failed>>
        /\ op' = [op EXCEPT !.written = n,
                            !.stage = IF op.outs # {} THEN "releaseOut" ELSE "releaseIn"]
    BY <1>4 DEF ClosureReturns
  <2>2. n \in Nat
    BY <1>4, IoVecAssumption DEF Written
  <2>3. /\ OpOk' /\ op'.ins = op.ins /\ op'.outs = op.outs
        /\ op'.stage = IF op.outs # {} THEN "releaseOut" ELSE "releaseIn"
    BY <1>0, <2>1, <2>2 DEF OpOk, Stages
  <2>4. HeldIn' /\ HeldOut'
    BY <1>0, <2>1, <2>3 DEF HeldIn, HeldOut, HoldsIn, HoldsOut
  <2>. QED BY <1>0, <2>1, <2>3, <2>4 DEF IInv
<1>5. CASE SvcReleaseOutvec
  <2>1. PICK j \in op.outs :
          LET f == Frame(op.handle, j, 1, op.written)
              done == HandleSvc(f, svc, ReleaseVec(f, svc))
              status == CheckSvcResult(done.frame.r0) IN
          /\ op.stage = "releaseOut"
          /\ svc' = done.conn
          /\ IF status # Success THEN GiveUp(status)
             ELSE Goto(IF op.ins # {} THEN "releaseIn" ELSE "idle") /\ UNCHANGED failed
    BY <1>5 DEF SvcReleaseOutvec
  <2> DEFINE f == Frame(op.handle, j, 1, op.written)
             status == CheckSvcResult(HandleSvc(f, svc, ReleaseVec(f, svc)).frame.r0)
  <2>2. /\ SameButOut(svc, svc', j)
        /\ status = Success => ~InHand(svc'.outvec[j])
    BY <1>0, <2>1, ReleaseOut DEF OpOk
  <2>3. CASE status # Success
    BY <2>1, <2>2, <2>3, GiveUpIInv DEF SameButOut
  <2>4. CASE status = Success
    <3>1. /\ UNCHANGED failed
          /\ op' = IF op.ins # {} THEN [op EXCEPT !.stage = "releaseIn"] ELSE NoAccess
      BY <2>1, <2>4 DEF Goto
    <3>2. OpOk'
      <4>1. CASE op.ins # {}
        BY <1>0, <3>1, <4>1 DEF OpOk, Stages
      <4>2. CASE op.ins = {}
        BY <3>1, <4>2, SvcApiAssumption DEF OpOk, Stages, NoAccess, AtMostOne
      <4>. QED BY <4>1, <4>2
    <3>3. HeldIn'
      <4>1. CASE op.ins # {}
        BY <1>0, <2>1, <2>2, <3>1, <4>1 DEF OpOk, HeldIn, HoldsIn, SameButOut
      <4>2. CASE op.ins = {}
        BY <1>0, <2>1, <2>2, <3>1, <4>2 DEF OpOk, HeldIn, HoldsIn, SameButOut
      <4>. QED BY <4>1, <4>2
    <3>4. HeldOut'
      <4> SUFFICES ASSUME NEW k \in VecIdx, InHand(svc'.outvec[k])
                   PROVE  <<"out", k>> \in failed
        BY <3>1 DEF HeldOut
      <4>1. k # j /\ svc'.outvec[k] = svc.outvec[k]
        BY <2>2, <2>4 DEF SameButOut
      <4>2. k \notin op.outs
        BY <1>0, <2>1, <4>1 DEF OpOk, AtMostOne
      <4>. QED BY <1>0, <4>1, <4>2 DEF HeldOut
    <3>. QED BY <2>2, <3>2, <3>3, <3>4 DEF IInv, SameButOut
  <2>. QED BY <2>3, <2>4
<1>6. CASE SvcReleaseInvec
  <2>1. PICK i \in op.ins :
          LET f == Frame(op.handle, i, 0, 0)
              done == HandleSvc(f, svc, ReleaseVec(f, svc))
              status == CheckSvcResult(done.frame.r0) IN
          /\ op.stage = "releaseIn"
          /\ svc' = done.conn
          /\ IF status # Success THEN GiveUp(status)
             ELSE Goto("idle") /\ UNCHANGED failed
    BY <1>6 DEF SvcReleaseInvec
  <2> DEFINE f == Frame(op.handle, i, 0, 0)
             status == CheckSvcResult(HandleSvc(f, svc, ReleaseVec(f, svc)).frame.r0)
  <2>2. /\ SameButIn(svc, svc', i)
        /\ status = Success => ~InHand(svc'.invec[i])
    BY <1>0, <2>1, ReleaseIn DEF OpOk
  <2>3. CASE status # Success
    BY <2>1, <2>2, <2>3, GiveUpIInv DEF SameButIn
  <2>4. CASE status = Success
    <3>1. UNCHANGED failed /\ op' = NoAccess
      BY <2>1, <2>4 DEF Goto
    <3>2. OpOk'
      BY <3>1, SvcApiAssumption DEF OpOk, Stages, NoAccess, AtMostOne
    <3>3. HeldIn'
      BY <1>0, <2>1, <2>2, <2>4, <3>1 DEF OpOk, AtMostOne, HeldIn, SameButIn
    <3>4. HeldOut'
      BY <1>0, <2>1, <2>2, <3>1 DEF HeldOut, HoldsOut, SameButIn
    <3>. QED BY <2>2, <3>2, <3>3, <3>4 DEF IInv, SameButIn
  <2>. QED BY <2>3, <2>4
<1>7. ASSUME UNCHANGED <<svc, op, failed>> PROVE IInv'
  BY <1>0, <1>7 DEF IInv, OpOk, HeldIn, HeldOut
<1>8. ASSUME NEW h \in Handles, NEW t \in Types, NEW i \in Lens, NEW o \in Lens,
             NEW s \in Statuses, Call(h, t, i, o, s)
      PROVE  IInv'
  BY <1>7, <1>8 DEF Call, Tell
<1>9. ASSUME NEW id \in Ids, Version(id) PROVE IInv'
  BY <1>7, <1>9 DEF Version, Tell
<1>10. CASE UNCHANGED vars
  BY <1>7, <1>10 DEF vars
<1>. QED BY <1>1, <1>2, <1>3, <1>4, <1>5, <1>6, <1>8, <1>9, <1>10 DEF Next

------------------------------------------------------------------------------

\* The inductive invariant: svc.rs:327-349, each SVC as a step.
THEOREM Invariance == Spec => []IInv
BY InitIInv, NextIInv, PTL DEF Spec

\* For any number of vectors, handles and API calls: what a service of the IPC
\* build holds between its requests, an access answered with an error has left
\* (svc.rs:327-349).
THEOREM NothingHeldOtherwise == Spec => []HeldOnlyAfterFailure
<1>1. IInv => HeldOnlyAfterFailure
  BY DEF IInv, HeldIn, HeldOut, HoldsIn, HoldsOut, HeldOnlyAfterFailure
<1>. QED BY <1>1, Invariance, PTL

------------------------------------------------------------------------------
(* The two builds side by side, until a vector is asked for again: what the *)
(* service has in either.  v is a vector of sfn, w the same one of svc.     *)

Untouched(v) == ~v.mapped /\ ~v.unmapped

\* Between requests.
SameIn(v, w) ==
    /\ w.size = v.size
    /\ InHand(v) <=> InHand(w)
    /\ ~v.mapped => Untouched(v) /\ Untouched(w)

SameOut(v, w) ==
    /\ w.size = v.size /\ w.written = v.written
    /\ InHand(v) <=> InHand(w)
    /\ ~v.mapped => Untouched(v) /\ Untouched(w) /\ v.written = 0

\* The SFN build has prepared the vector, the IPC build has not yet.
Ahead(v, w) == InHand(v) /\ Untouched(w) /\ w.size = v.size

AheadOut(v, w) == Ahead(v, w) /\ v.written = 0 /\ w.written = 0

Both(v, w) == InHand(v) /\ InHand(w) /\ w.size = v.size

BothOut(v, w) == Both(v, w) /\ v.written = w.written

\* The SFN build has finished with the vector, the IPC build has not yet.
Done(v, w) == v.mapped /\ v.unmapped /\ InHand(w)

DoneIn(v, w) == Done(v, w) /\ w.size = v.size

DoneOut(v, w, n) == Done(v, w) /\ v.size = n /\ v.written = n /\ n <= w.size

\* Nothing stands in the way of the access in progress.
Granted == op.handle = Msg /\ op.ins \subseteq VecIdx /\ op.outs \subseteq VecIdx

InAgrees(i) ==
    LET v == sfn.invec[i]
        w == svc.invec[i] IN
    IF i \notin op.ins THEN SameIn(v, w)
    ELSE /\ op.stage = "in" => IF op.handle = Msg THEN Ahead(v, w) ELSE SameIn(v, w)
         /\ op.stage \in {"out", "closure"} => Both(v, w)
         /\ op.stage = "releaseOut" =>
                IF answer.sfn.status = Success THEN DoneIn(v, w) ELSE Both(v, w)
         /\ op.stage = "releaseIn" => DoneIn(v, w)

OutAgrees(j) ==
    LET v == sfn.outvec[j]
        w == svc.outvec[j] IN
    IF j \notin op.outs THEN SameOut(v, w)
    ELSE /\ op.stage \in {"in", "out"} => IF Granted THEN AheadOut(v, w) ELSE SameOut(v, w)
         /\ op.stage = "closure" => BothOut(v, w)
         /\ op.stage = "releaseOut" =>
                IF answer.sfn.status = Success THEN DoneOut(v, w, op.written)
                ELSE BothOut(v, w) /\ op.written > w.size
         /\ op.stage = "releaseIn" => SameOut(v, w)

\* What the SFN build answers at once, and the IPC build SVC by SVC.
Outcome ==
    IF op.handle # Msg THEN InvalidHandle
    ELSE IF op.ins \cup op.outs \subseteq VecIdx THEN Success ELSE ProgrammerError

\* What the closure is given.
GivenIn(slice) ==
    IF op.ins = {} THEN slice = NoSlice
    ELSE \A i \in op.ins : slice = Slice(InBase[i], sfn.invec[i].size)

GivenOut(slice) ==
    IF op.outs = {} THEN slice = NoSlice
    ELSE \A j \in op.outs : slice = Slice(OutBase[j], sfn.outvec[j].size)

AnswersAgree ==
    /\ op.stage = "idle" =>
         op.ins = {} /\ op.outs = {} /\ answer.svc.status = answer.sfn.status
    /\ op.stage = "in" => op.ins # {} /\ answer.svc = NoAnswer
    /\ op.stage = "out" =>
         /\ op.outs # {} /\ op.ins \subseteq VecIdx
         /\ op.ins # {} => op.handle = Msg
         /\ answer.svc.status = Success /\ GivenIn(answer.svc.in)
         /\ answer.svc.out = NoSlice
    /\ op.stage \in {"in", "out"} =>
         /\ answer.sfn.status = Outcome
         /\ Granted => GivenIn(answer.sfn.in) /\ GivenOut(answer.sfn.out)
    /\ op.stage = "closure" =>
         Granted /\ op.ins \cup op.outs # {} /\ answer.svc = answer.sfn
    /\ op.stage \in {"closure", "releaseIn"} => answer.sfn.status = Success
    /\ op.stage = "releaseOut" =>
         op.outs # {} /\ answer.sfn.status \in {Success, ProgrammerError}
    /\ op.stage = "releaseIn" => op.ins # {}
    /\ op.stage \in {"releaseOut", "releaseIn"} => Granted /\ answer.svc.status = Success

Agree ==
    /\ \A i \in VecIdx : InAgrees(i) /\ OutAgrees(i)
    /\ AnswersAgree

SliceType == [base : Int, len : Int]
AnswerType == [status : Int, in : SliceType, out : SliceType]

AgreeInv ==
    /\ sfn \in Conn
    /\ answer \in [sfn : AnswerType, svc : AnswerType]
    /\ repeated \in BOOLEAN
    /\ told.svc = told.sfn
    /\ ~repeated => Agree

------------------------------------------------------------------------------
(* What each SVC answers, and what it does to its vector.                   *)

\* A status code arrives as it was sent.
LEMMA RoundTrip == \A s \in StatusCodes : CheckSvcResult(CastUnsigned(s)) = s
BY DEF CheckSvcResult, CastUnsigned, CastSigned, StatusCodes, Word

LEMMA ValidatedCode ==
    ASSUME NEW h, NEW ok \in BOOLEAN
    PROVE  /\ Validated(h, ok) \in StatusCodes
           /\ Validated(h, ok) = Success <=> h = Msg /\ ok
BY DEF Validated, Success, ProgrammerError, InvalidHandle, StatusCodes

LEMMA FrameRegisters ==
    ASSUME NEW a, NEW b, NEW c, NEW d
    PROVE  LET f == Frame(a, b, c, d) IN
           /\ f.r0 = a /\ f.r1 = b /\ f.r2 = c /\ f.r3 = d
           /\ \A s : SetStatus(f, s) = Frame(CastUnsigned(s), b, c, d)
BY DEF Frame, SetStatus

LEMMA AccessInResult ==
    ASSUME NEW c \in Conn, NEW h \in Handles, NEW i
    PROVE  LET f == Frame(h, i, 0, 0)
               done == HandleSvc(f, c, AccessVec(f, c))
               status == CheckSvcResult(done.frame.r0) IN
           /\ status = Validated(h, CanPrepareIn(c, i))
           /\ status # Success => done.conn = c
           /\ status = Success =>
                /\ done.frame.r1 = InBase[i] /\ done.frame.r2 = c.invec[i].size
                /\ done.conn.invec[i] =
                  [size |-> c.invec[i].size, mapped |-> TRUE, unmapped |-> FALSE]
<1> DEFINE f == Frame(h, i, 0, 0)
           status == Validated(h, CanPrepareIn(c, i))
<1>1. f.r0 = h /\ f.r1 = i /\ (f.r2 # 0) = FALSE
  BY FrameRegisters
<1>2. HandleSvc(f, c, AccessVec(f, c)) = AccessVec(f, c)
  BY <1>1 DEF HandleSvc
<1>3. status \in StatusCodes /\ (status = Success => i \in VecIdx)
  BY ValidatedCode DEF CanPrepareIn
<1>4. CASE status # Success
  <2>1. /\ AccessVec(f, c).conn = c
        /\ AccessVec(f, c).frame = SetError(f, status)
    BY <1>1, <1>4 DEF AccessVec
  <2>2. SetError(f, status).r0 = CastUnsigned(status)
    BY FrameRegisters DEF SetError
  <2>. QED BY <1>2, <1>3, <1>4, <2>1, <2>2, RoundTrip
<1>5. CASE status = Success
  <2>1. /\ AccessVec(f, c).conn = SetMapped(PreparedIn(c, i), FALSE, i, TRUE)
        /\ AccessVec(f, c).frame = SetRawVec(f, InBase[i], c.invec[i].size)
    BY <1>1, <1>5 DEF AccessVec
  <2>2. SetRawVec(f, InBase[i], c.invec[i].size) = Frame(CastUnsigned(Success), InBase[i], c.invec[i].size, 0)
    BY FrameRegisters DEF SetRawVec, SetSuccess
  <2>3. SetMapped(PreparedIn(c, i), FALSE, i, TRUE).invec[i] =
          [size |-> c.invec[i].size, mapped |-> TRUE, unmapped |-> FALSE]
    BY <1>3, <1>5 DEF SetMapped, PreparedIn, Conn, ConnectionOf, InVec
  <2>4. /\ SetRawVec(f, InBase[i], c.invec[i].size).r0 = CastUnsigned(Success)
        /\ SetRawVec(f, InBase[i], c.invec[i].size).r1 = InBase[i]
        /\ SetRawVec(f, InBase[i], c.invec[i].size).r2 = c.invec[i].size
    BY <2>2, FrameRegisters
  <2>. QED BY <1>2, <1>3, <1>5, <2>1, <2>2, <2>3, <2>4, RoundTrip
<1>. QED BY <1>4, <1>5

LEMMA AccessOutResult ==
    ASSUME NEW c \in Conn, NEW h \in Handles, NEW i
    PROVE  LET f == Frame(h, i, 1, 0)
               done == HandleSvc(f, c, AccessVec(f, c))
               status == CheckSvcResult(done.frame.r0) IN
           /\ status = Validated(h, CanPrepareOut(c, i))
           /\ status # Success => done.conn = c
           /\ status = Success =>
                /\ done.frame.r1 = OutBase[i] /\ done.frame.r2 = c.outvec[i].size
                /\ done.conn.outvec[i] =
                  [size |-> c.outvec[i].size, written |-> c.outvec[i].written, mapped |-> TRUE, unmapped |-> FALSE]
<1> DEFINE f == Frame(h, i, 1, 0)
           status == Validated(h, CanPrepareOut(c, i))
<1>1. f.r0 = h /\ f.r1 = i /\ (f.r2 # 0) = TRUE
  BY FrameRegisters
<1>2. HandleSvc(f, c, AccessVec(f, c)) = AccessVec(f, c)
  BY <1>1 DEF HandleSvc
<1>3. status \in StatusCodes /\ (status = Success => i \in VecIdx)
  BY ValidatedCode DEF CanPrepareOut
<1>4. CASE status # Success
  <2>1. /\ AccessVec(f, c).conn = c
        /\ AccessVec(f, c).frame = SetError(f, status)
    BY <1>1, <1>4 DEF AccessVec
  <2>2. SetError(f, status).r0 = CastUnsigned(status)
    BY FrameRegisters DEF SetError
  <2>. QED BY <1>2, <1>3, <1>4, <2>1, <2>2, RoundTrip
<1>5. CASE status = Success
  <2>1. /\ AccessVec(f, c).conn = SetMapped(PreparedOut(c, i), TRUE, i, TRUE)
        /\ AccessVec(f, c).frame = SetRawVec(f, OutBase[i], c.outvec[i].size)
    BY <1>1, <1>5 DEF AccessVec
  <2>2. SetRawVec(f, OutBase[i], c.outvec[i].size) = Frame(CastUnsigned(Success), OutBase[i], c.outvec[i].size, 0)
    BY FrameRegisters DEF SetRawVec, SetSuccess
  <2>3. SetMapped(PreparedOut(c, i), TRUE, i, TRUE).outvec[i] =
          [size |-> c.outvec[i].size, written |-> c.outvec[i].written, mapped |-> TRUE, unmapped |-> FALSE]
    BY <1>3, <1>5 DEF SetMapped, PreparedOut, Conn, ConnectionOf, OutVec
  <2>4. /\ SetRawVec(f, OutBase[i], c.outvec[i].size).r0 = CastUnsigned(Success)
        /\ SetRawVec(f, OutBase[i], c.outvec[i].size).r1 = OutBase[i]
        /\ SetRawVec(f, OutBase[i], c.outvec[i].size).r2 = c.outvec[i].size
    BY <2>2, FrameRegisters
  <2>. QED BY <1>2, <1>3, <1>5, <2>1, <2>2, <2>3, <2>4, RoundTrip
<1>. QED BY <1>4, <1>5

LEMMA ReleaseInResult ==
    ASSUME NEW c \in Conn, NEW h \in Handles, NEW i
    PROVE  LET f == Frame(h, i, 0, 0)
               done == HandleSvc(f, c, ReleaseVec(f, c))
               status == CheckSvcResult(done.frame.r0) IN
           /\ status = Validated(h, CanMarkIn(c, i))
           /\ status # Success => done.conn = c
           /\ status = Success =>
                done.conn.invec[i] =
                  [size |-> c.invec[i].size, mapped |-> FALSE, unmapped |-> TRUE]
<1> DEFINE f == Frame(h, i, 0, 0)
           status == Validated(h, CanMarkIn(c, i))
<1>1. f.r0 = h /\ f.r1 = i /\ (f.r2 # 0) = FALSE
  BY FrameRegisters
<1>2. HandleSvc(f, c, ReleaseVec(f, c)) = ReleaseVec(f, c)
  BY <1>1 DEF HandleSvc
<1>3. status \in StatusCodes /\ (status = Success => i \in VecIdx)
  BY ValidatedCode DEF CanMarkIn
<1>4. CASE status # Success
  <2>1. /\ ReleaseVec(f, c).conn = c
        /\ ReleaseVec(f, c).frame = SetError(f, status)
    BY <1>1, <1>4 DEF ReleaseVec
  <2>2. SetError(f, status).r0 = CastUnsigned(status)
    BY FrameRegisters DEF SetError
  <2>. QED BY <1>2, <1>3, <1>4, <2>1, <2>2, RoundTrip
<1>5. CASE status = Success
  <2>1. /\ ReleaseVec(f, c).conn = SetMapped(MarkedIn(c, i), FALSE, i, FALSE)
        /\ ReleaseVec(f, c).frame = SetSuccess(f)
    BY <1>1, <1>5 DEF ReleaseVec
  <2>2. SetSuccess(f).r0 = CastUnsigned(Success)
    BY FrameRegisters DEF SetSuccess
  <2>3. SetMapped(MarkedIn(c, i), FALSE, i, FALSE).invec[i] =
          [size |-> c.invec[i].size, mapped |-> FALSE, unmapped |-> TRUE]
    BY <1>3, <1>5 DEF SetMapped, MarkedIn, Conn, ConnectionOf, InVec
  <2>. QED BY <1>2, <1>3, <1>5, <2>1, <2>2, <2>3, RoundTrip
<1>. QED BY <1>4, <1>5

LEMMA ReleaseOutResult ==
    ASSUME NEW c \in Conn, NEW h \in Handles, NEW i, NEW n \in Nat
    PROVE  LET f == Frame(h, i, 1, n)
               done == HandleSvc(f, c, ReleaseVec(f, c))
               status == CheckSvcResult(done.frame.r0) IN
           /\ status = Validated(h, CanCommit(c, i, n))
           /\ status # Success => done.conn = c
           /\ status = Success =>
                done.conn.outvec[i] =
                  [size |-> n, written |-> n, mapped |-> FALSE, unmapped |-> TRUE]
<1> DEFINE f == Frame(h, i, 1, n)
           status == Validated(h, CanCommit(c, i, n))
<1>1. f.r0 = h /\ f.r1 = i /\ (f.r2 # 0) = TRUE /\ f.r3 = n
  BY FrameRegisters
<1>2. HandleSvc(f, c, ReleaseVec(f, c)) = ReleaseVec(f, c)
  BY <1>1 DEF HandleSvc
<1>3. status \in StatusCodes /\ (status = Success => i \in VecIdx)
  BY ValidatedCode DEF CanCommit
<1>4. CASE status # Success
  <2>1. /\ ReleaseVec(f, c).conn = c
        /\ ReleaseVec(f, c).frame = SetError(f, status)
    BY <1>1, <1>4 DEF ReleaseVec
  <2>2. SetError(f, status).r0 = CastUnsigned(status)
    BY FrameRegisters DEF SetError
  <2>. QED BY <1>2, <1>3, <1>4, <2>1, <2>2, RoundTrip
<1>5. CASE status = Success
  <2>1. /\ ReleaseVec(f, c).conn = SetMapped(Committed(c, i, n), TRUE, i, FALSE)
        /\ ReleaseVec(f, c).frame = SetSuccess(f)
    BY <1>1, <1>5 DEF ReleaseVec
  <2>2. SetSuccess(f).r0 = CastUnsigned(Success)
    BY FrameRegisters DEF SetSuccess
  <2>3. SetMapped(Committed(c, i, n), TRUE, i, FALSE).outvec[i] =
          [size |-> n, written |-> n, mapped |-> FALSE, unmapped |-> TRUE]
    BY <1>3, <1>5 DEF SetMapped, Committed, CommittedVec, Conn, ConnectionOf, OutVec
  <2>. QED BY <1>2, <1>3, <1>5, <2>1, <2>2, <2>3, RoundTrip
<1>. QED BY <1>4, <1>5

LEMMA BegunIs ==
    ASSUME NEW c \in Conn, NEW a
    PROVE  /\ Begun(c, a) \in Conn
           /\ Begun(c, a).invec = MapIn(c, a) /\ Begun(c, a).outvec = MapOut(c, a)
<1>1. MapIn(c, a) \in [VecIdx -> InVec]
  BY DEF MapIn, Conn, ConnectionOf, InVec
<1>2. MapOut(c, a) \in [VecIdx -> OutVec]
  BY DEF MapOut, Conn, ConnectionOf, OutVec
<1>. QED BY <1>1, <1>2 DEF Begun, Conn, ConnectionOf

LEMMA EndedIs ==
    ASSUME NEW c \in Conn, NEW a, NEW n \in Nat
    PROVE  /\ Ended(c, a, n) \in Conn
           /\ Ended(c, a, n).invec = UnmapIn(c, a, n)
           /\ Ended(c, a, n).outvec = CommitOut(c, a, n)
<1>1. UnmapIn(c, a, n) \in [VecIdx -> InVec]
  BY DEF UnmapIn, Conn, ConnectionOf, InVec
<1>2. CommitOut(c, a, n) \in [VecIdx -> OutVec]
  BY DEF CommitOut, CommittedVec, Conn, ConnectionOf, OutVec
<1>. QED BY <1>1, <1>2 DEF Ended, Conn, ConnectionOf

LEMMA BaseTyped == \A k \in VecIdx : InBase[k] \in Int /\ OutBase[k] \in Int
<1>1. InBase \in [VecIdx -> 1 .. Word - 1] /\ OutBase \in [VecIdx -> 1 .. Word - 1]
  BY SvcApiAssumption
<1>2. \A w \in Nat : \A x \in 1 .. w - 1 : x \in Int
  OBVIOUS
<1>3. Word \in Nat
  BY SMT DEF Word
<1>. QED BY <1>1, <1>2, <1>3

LEMMA SliceTyped ==
    ASSUME NEW base \in Int, NEW len \in Int PROVE Slice(base, len) \in SliceType
BY DEF Slice, NoSlice, SliceType

------------------------------------------------------------------------------
(* Each step keeps the builds together.                                     *)

LEMMA AccessAgrees ==
    ASSUME IInv, AgreeInv, NEW h \in Handles, NEW a \in Accesses, Access(h, a), ~repeated'
    PROVE  Agree'
<1>1. /\ op.stage = "idle" /\ svc' = svc
      /\ op' = [handle |-> h, ins |-> a.ins, outs |-> a.outs, written |-> 0,
                stage |-> IF a.ins # {} THEN "in" ELSE "out"]
      /\ sfn' = IF h = Msg THEN Begun(sfn, a) ELSE sfn
      /\ ~repeated /\ ~AskedBefore(a)
  BY DEF Access
<1>2. Agree /\ sfn \in Conn /\ svc \in Conn
  BY <1>1 DEF IInv, AgreeInv
<1>3. \A k \in VecIdx : /\ SameIn(sfn.invec[k], svc.invec[k])
                        /\ SameOut(sfn.outvec[k], svc.outvec[k])
  BY <1>1, <1>2 DEF Agree, InAgrees, OutAgrees, AnswersAgree
<1>4. /\ op'.handle = h /\ op'.ins = a.ins /\ op'.outs = a.outs
      /\ op'.stage = IF a.ins # {} THEN "in" ELSE "out"
  BY <1>1
<1>5. \A i \in a.ins \cap VecIdx : ~sfn.invec[i].mapped
  BY <1>1 DEF AskedBefore
<1>6. \A j \in a.outs \cap VecIdx : ~sfn.outvec[j].mapped /\ sfn.outvec[j].written = 0
  BY <1>1, <1>3 DEF AskedBefore, SameOut
<1>7. (InOk(sfn, a) <=> a.ins \subseteq VecIdx) /\ (OutOk(sfn, a) <=> a.outs \subseteq VecIdx)
  BY <1>5, <1>6 DEF InOk, OutOk, CanPrepareIn, CanPrepareOut
<1>8. AtMostOne(a.ins) /\ AtMostOne(a.outs) /\ a.ins \cup a.outs # {}
  BY OneOfEach DEF Accesses
<1>0. /\ h = Msg => sfn'.invec = MapIn(sfn, a) /\ sfn'.outvec = MapOut(sfn, a)
      /\ h # Msg => sfn' = sfn
  BY <1>1, <1>2, BegunIs
<1>9. ASSUME NEW k \in VecIdx PROVE InAgrees(k)'
  <2>1. CASE k \notin a.ins \/ h # Msg
    <3>1. sfn'.invec[k] = sfn.invec[k]
      BY <1>0, <2>1 DEF MapIn
    <3>2. SameIn(sfn'.invec[k], svc'.invec[k])
      BY <1>1, <1>3, <3>1
    <3>. QED BY <1>4, <2>1, <3>2 DEF InAgrees
  <2>2. CASE k \in a.ins /\ h = Msg
    <3>1. a.ins \subseteq VecIdx
      BY <1>8, <2>2 DEF AtMostOne
    <3>2. sfn'.invec[k] = [sfn.invec[k] EXCEPT !.mapped = TRUE]
      BY <1>0, <1>7, <2>2, <3>1 DEF MapIn
    <3>3. Ahead(sfn'.invec[k], svc'.invec[k])
      BY <1>1, <1>2, <1>3, <1>5, <2>2, <3>2
      DEF SameIn, Ahead, InHand, Untouched, Conn, ConnectionOf, InVec
    <3>. QED BY <1>4, <2>2, <3>3 DEF InAgrees
  <2>. QED BY <2>1, <2>2
<1>10. (Granted' <=> h = Msg /\ CanBegin(sfn, a)) /\ (Granted' => h = Msg)
  BY <1>4, <1>7 DEF Granted, CanBegin
<1>11. ASSUME NEW k \in VecIdx PROVE OutAgrees(k)'
  <2>1. CASE k \notin a.outs \/ ~Granted'
    <3>1. sfn'.outvec[k] = sfn.outvec[k]
      BY <1>0, <1>10, <2>1 DEF MapOut
    <3>2. SameOut(sfn'.outvec[k], svc'.outvec[k])
      BY <1>1, <1>3, <3>1
    <3>. QED BY <1>4, <2>1, <3>2 DEF OutAgrees
  <2>2. CASE k \in a.outs /\ Granted'
    <3>1. sfn'.outvec[k] = [sfn.outvec[k] EXCEPT !.mapped = TRUE]
      BY <1>0, <1>10, <2>2 DEF MapOut, Granted
    <3>2. AheadOut(sfn'.outvec[k], svc'.outvec[k])
      BY <1>1, <1>2, <1>3, <1>6, <2>2, <3>1
      DEF SameOut, AheadOut, Ahead, InHand, Untouched, Conn, ConnectionOf, OutVec
    <3>. QED BY <1>4, <2>2, <3>2 DEF OutAgrees
  <2>. QED BY <2>1, <2>2
<1>12. AnswersAgree'
  <2>1. answer'.sfn.status = Outcome' /\ answer'.svc = NoAnswer
    <3>1. answer'.sfn.status = Validated(h, CanBegin(sfn, a)) /\ answer'.svc = NoAnswer
      BY DEF Access, NoAnswer
    <3>2. CanBegin(sfn, a) <=> a.ins \cup a.outs \subseteq VecIdx
      BY <1>7 DEF CanBegin
    <3>. QED BY <1>4, <3>1, <3>2 DEF Outcome, Validated
  <2>2. ASSUME Granted' PROVE GivenIn(answer.sfn.in)' /\ GivenOut(answer.sfn.out)'
    <3>1. \A k \in VecIdx : /\ sfn'.invec[k].size = sfn.invec[k].size
                            /\ sfn'.outvec[k].size = sfn.outvec[k].size
      BY <1>0, <1>2 DEF MapIn, MapOut, Conn, ConnectionOf, InVec, OutVec
    <3>2. a.ins \subseteq VecIdx /\ a.outs \subseteq VecIdx
      BY <1>4, <2>2 DEF Granted
    <3>3. Validated(h, CanBegin(sfn, a)) = Success
      BY <1>10, <2>2, ValidatedCode DEF CanBegin, InOk, OutOk
    <3>4. /\ \A i \in a.ins : (CHOOSE k \in a.ins : TRUE) = i
          /\ \A j \in a.outs : (CHOOSE k \in a.outs : TRUE) = j
      BY <1>8 DEF AtMostOne
    <3>5. answer'.sfn.in = IF a.ins = {} THEN NoSlice
                           ELSE LET i == CHOOSE i \in a.ins : TRUE IN
                                Slice(InBase[i], sfn.invec[i].size)
      BY <3>3 DEF Access
    <3>6. answer'.sfn.out = IF a.outs = {} THEN NoSlice
                            ELSE LET j == CHOOSE j \in a.outs : TRUE IN
                                 Slice(OutBase[j], sfn.outvec[j].size)
      BY <3>3 DEF Access
    <3>7. GivenIn(answer.sfn.in)'
      BY <1>4, <3>1, <3>2, <3>4, <3>5 DEF GivenIn
    <3>8. GivenOut(answer.sfn.out)'
      BY <1>4, <3>1, <3>2, <3>4, <3>6 DEF GivenOut
    <3>. QED BY <3>7, <3>8
  <2>3. CASE a.ins # {}
    BY <1>4, <2>1, <2>2, <2>3 DEF AnswersAgree
  <2>4. CASE a.ins = {}
    BY <1>4, <1>8, <2>1, <2>2, <2>4 DEF AnswersAgree, GivenIn, NoAnswer
  <2>. QED BY <2>3, <2>4
<1>. QED BY <1>9, <1>11, <1>12 DEF Agree

\* The IPC build refuses what the SFN build refused.
LEMMA SvcAccessInvecAgrees ==
    ASSUME IInv, AgreeInv, SvcAccessInvec, ~repeated'
    PROVE  Agree'
<1>1. PICK i \in op.ins :
        LET f == Frame(op.handle, i, 0, 0)
            done == HandleSvc(f, svc, AccessVec(f, svc))
            status == CheckSvcResult(done.frame.r0) IN
        /\ op.stage = "in"
        /\ svc' = done.conn
        /\ IF status # Success THEN GiveUp(status)
           ELSE /\ Goto(IF op.outs # {} THEN "out" ELSE "closure")
                /\ answer' = [answer EXCEPT !.svc.in = Slice(done.frame.r1, done.frame.r2)]
                /\ UNCHANGED failed
        /\ UNCHANGED <<sfn, told, repeated, calls>>
  BY DEF SvcAccessInvec
<1>2. /\ Agree /\ sfn \in Conn /\ svc \in Conn /\ sfn' = sfn /\ OpOk
      /\ answer \in [sfn : AnswerType, svc : AnswerType]
  BY <1>1 DEF IInv, AgreeInv
<1> DEFINE f == Frame(op.handle, i, 0, 0)
           done == HandleSvc(f, svc, AccessVec(f, svc))
           status == CheckSvcResult(done.frame.r0)
<1>3. /\ status = Validated(op.handle, CanPrepareIn(svc, i))
      /\ status # Success => done.conn = svc
      /\ status = Success =>
           /\ done.frame.r1 = InBase[i] /\ done.frame.r2 = svc.invec[i].size
           /\ done.conn.invec[i] =
                [size |-> svc.invec[i].size, mapped |-> TRUE, unmapped |-> FALSE]
      /\ SameButIn(svc, svc', i)
  BY <1>1, <1>2, AccessInResult, AccessIn DEF OpOk
<1>4. /\ op.ins = {i} /\ op.stage = "in"
      /\ \A k \in VecIdx : InAgrees(k) /\ OutAgrees(k)
      /\ answer.svc = NoAnswer /\ answer.sfn.status = Outcome
      /\ Granted => GivenIn(answer.sfn.in) /\ GivenOut(answer.sfn.out)
  BY <1>1, <1>2 DEF Agree, AnswersAgree, OpOk, AtMostOne
<1>5. op.handle = Msg /\ i \in VecIdx => CanPrepareIn(svc, i)
  BY <1>4 DEF InAgrees, Ahead, Untouched, CanPrepareIn
<1>6. CASE status # Success
  <2>1. svc' = svc /\ op' = NoAccess /\ answer' = [answer EXCEPT !.svc = [NoAnswer EXCEPT !.status = status]]
    BY <1>1, <1>3, <1>6 DEF GiveUp, Goto
  <2>2. op.handle # Msg \/ i \notin VecIdx
    BY <1>3, <1>5, <1>6 DEF Validated
  <2>3. ASSUME NEW k \in VecIdx PROVE InAgrees(k)' /\ OutAgrees(k)'
    <3>1. SameIn(sfn.invec[k], svc.invec[k])
      BY <1>4, <2>2 DEF InAgrees
    <3>2. SameOut(sfn.outvec[k], svc.outvec[k])
      BY <1>4, <2>2 DEF OutAgrees, Granted
    <3>. QED BY <1>2, <2>1, <3>1, <3>2 DEF InAgrees, OutAgrees, NoAccess
  <2>4. status = Outcome
    BY <1>3, <1>4, <2>2 DEF Outcome, Validated, CanPrepareIn
  <2>5. answer'.svc.status = answer'.sfn.status
    BY <1>2, <1>4, <2>1, <2>4 DEF NoAnswer, AnswerType
  <2>6. AnswersAgree'
    BY <2>1, <2>5 DEF AnswersAgree, NoAccess
  <2>. QED BY <2>3, <2>6 DEF Agree
<1>7. CASE status = Success
  <2>1. /\ op' = [op EXCEPT !.stage = IF op.outs # {} THEN "out" ELSE "closure"]
        /\ answer' = [answer EXCEPT !.svc.in = Slice(InBase[i], svc.invec[i].size)]
    BY <1>1, <1>3, <1>7 DEF Goto
  <2>2. /\ op'.handle = op.handle /\ op'.ins = op.ins /\ op'.outs = op.outs
        /\ op'.stage = IF op.outs # {} THEN "out" ELSE "closure"
    BY <1>2, <2>1 DEF OpOk
  <2>3. op.handle = Msg /\ i \in VecIdx /\ ~svc.invec[i].mapped
    BY <1>3, <1>7, ValidatedCode DEF CanPrepareIn
  <2>4. svc'.invec[i] = [size |-> svc.invec[i].size, mapped |-> TRUE, unmapped |-> FALSE]
    BY <1>1, <1>3, <1>7
  <2>5. Ahead(sfn.invec[i], svc.invec[i])
    BY <1>4, <2>3 DEF InAgrees
  <2>6. ASSUME NEW k \in VecIdx PROVE InAgrees(k)'
    <3>1. CASE k = i
      <4>1. Both(sfn'.invec[k], svc'.invec[k])
        BY <1>2, <2>4, <2>5, <3>1 DEF Ahead, Both, InHand
      <4>. QED BY <1>4, <2>2, <3>1, <4>1 DEF InAgrees
    <3>2. CASE k # i
      <4>1. SameIn(sfn'.invec[k], svc'.invec[k])
        BY <1>2, <1>3, <1>4, <3>2 DEF InAgrees, SameButIn
      <4>. QED BY <1>4, <2>2, <3>2, <4>1 DEF InAgrees
    <3>. QED BY <3>1, <3>2
  <2>7. ASSUME NEW k \in VecIdx PROVE OutAgrees(k)'
    <3>1. svc'.outvec[k] = svc.outvec[k] /\ sfn'.outvec[k] = sfn.outvec[k]
      BY <1>2, <1>3 DEF SameButIn
    <3>2. Granted' <=> Granted
      BY <2>2 DEF Granted
    <3>. QED BY <1>4, <2>2, <3>1, <3>2 DEF OutAgrees
  <2>8. AnswersAgree'
    <3>1. /\ answer'.svc.status = Success /\ answer'.svc.in = Slice(InBase[i], svc.invec[i].size)
          /\ answer'.svc.out = NoSlice /\ answer'.sfn = answer.sfn
          /\ answer'.svc \in AnswerType
      <4> DEFINE slice == Slice(InBase[i], svc.invec[i].size)
      <4>1. slice \in SliceType
        <5>1. InBase[i] \in Int
          BY <2>3, BaseTyped
        <5>2. svc.invec[i].size \in Int
          BY <1>2, <2>3 DEF Conn, ConnectionOf, InVec
        <5>. QED BY <5>1, <5>2, SliceTyped
      <4> HIDE DEF slice
      <4>2. answer'.svc = [answer.svc EXCEPT !.in = slice] /\ answer'.sfn = answer.sfn
        BY <1>2, <2>1 DEF slice
      <4>3. answer'.svc = [status |-> Success, in |-> slice, out |-> NoSlice]
        BY <1>4, <4>2 DEF NoAnswer
      <4>. QED BY <4>1, <4>2, <4>3 DEF slice, AnswerType, SliceType, NoSlice, Success
    <3>2. GivenIn(answer.svc.in)'
      BY <1>2, <1>4, <2>2, <2>5, <3>1 DEF GivenIn, Ahead
    <3>3. CASE op.outs # {}
      <4>1. /\ Outcome' = Outcome /\ (Granted' <=> Granted)
            /\ Granted => GivenIn(answer.sfn.in)' /\ GivenOut(answer.sfn.out)'
        BY <1>2, <1>4, <2>2, <3>1 DEF Outcome, Granted, GivenIn, GivenOut
      <4>. QED BY <1>4, <2>2, <2>3, <3>1, <3>2, <3>3, <4>1 DEF AnswersAgree
    <3>4. CASE op.outs = {}
      <4>1. Granted /\ Granted'
        BY <1>4, <2>2, <2>3, <3>4 DEF Granted
      <4>2. answer.sfn.in = Slice(InBase[i], sfn.invec[i].size) /\ answer.sfn.out = NoSlice
        BY <1>4, <3>4, <4>1 DEF GivenIn, GivenOut
      <4>3. answer.sfn.status = Success
        BY <1>4, <2>3, <3>4 DEF Outcome
      <4>4. answer'.svc = answer'.sfn
        BY <1>2, <2>5, <3>1, <4>2, <4>3 DEF AnswerType, Ahead
      <4>. QED BY <1>4, <2>2, <3>1, <3>4, <4>1, <4>3, <4>4 DEF AnswersAgree
    <3>. QED BY <3>3, <3>4
  <2>. QED BY <2>6, <2>7, <2>8 DEF Agree
<1>. QED BY <1>6, <1>7

LEMMA SvcAccessOutvecAgrees ==
    ASSUME IInv, AgreeInv, SvcAccessOutvec, ~repeated'
    PROVE  Agree'
<1>1. PICK j \in op.outs :
        LET f == Frame(op.handle, j, 1, 0)
            done == HandleSvc(f, svc, AccessVec(f, svc))
            status == CheckSvcResult(done.frame.r0) IN
        /\ op.stage = "out"
        /\ svc' = done.conn
        /\ IF status # Success THEN GiveUp(status)
           ELSE /\ Goto("closure")
                /\ answer' = [answer EXCEPT !.svc.out = Slice(done.frame.r1, done.frame.r2)]
                /\ UNCHANGED failed
        /\ UNCHANGED <<sfn, told, repeated, calls>>
  BY DEF SvcAccessOutvec
<1>2. /\ Agree /\ sfn \in Conn /\ svc \in Conn /\ sfn' = sfn /\ OpOk
      /\ answer \in [sfn : AnswerType, svc : AnswerType]
  BY <1>1 DEF IInv, AgreeInv
<1> DEFINE f == Frame(op.handle, j, 1, 0)
           done == HandleSvc(f, svc, AccessVec(f, svc))
           status == CheckSvcResult(done.frame.r0)
<1>3. /\ status = Validated(op.handle, CanPrepareOut(svc, j))
      /\ status # Success => done.conn = svc
      /\ status = Success =>
           /\ done.frame.r1 = OutBase[j] /\ done.frame.r2 = svc.outvec[j].size
           /\ done.conn.outvec[j] =
                [size |-> svc.outvec[j].size, written |-> svc.outvec[j].written,
                 mapped |-> TRUE, unmapped |-> FALSE]
      /\ SameButOut(svc, svc', j)
  BY <1>1, <1>2, AccessOutResult, AccessOut DEF OpOk
<1>4. /\ op.outs = {j} /\ op.stage = "out" /\ op.ins \subseteq VecIdx
      /\ \A k \in VecIdx : InAgrees(k) /\ OutAgrees(k)
      /\ op.ins # {} => op.handle = Msg
      /\ answer.svc.status = Success /\ GivenIn(answer.svc.in) /\ answer.svc.out = NoSlice
      /\ answer.sfn.status = Outcome
      /\ Granted => GivenIn(answer.sfn.in) /\ GivenOut(answer.sfn.out)
  BY <1>1, <1>2 DEF Agree, AnswersAgree, OpOk, AtMostOne
<1>5. Granted <=> op.handle = Msg /\ j \in VecIdx
  BY <1>4 DEF Granted
<1>6. Granted => AheadOut(sfn.outvec[j], svc.outvec[j])
  BY <1>4, <1>5 DEF OutAgrees
<1>7. CASE status # Success
  <2>1. svc' = svc /\ op' = NoAccess /\ answer' = [answer EXCEPT !.svc = [NoAnswer EXCEPT !.status = status]]
    BY <1>1, <1>3, <1>7 DEF GiveUp, Goto
  <2>2. ~Granted
    BY <1>3, <1>5, <1>6, <1>7 DEF Validated, AheadOut, Ahead, Untouched, CanPrepareOut
  <2>3. ASSUME NEW k \in VecIdx PROVE InAgrees(k)' /\ OutAgrees(k)'
    <3>1. SameIn(sfn.invec[k], svc.invec[k])
      BY <1>4 DEF InAgrees, Both, SameIn, InHand
    <3>2. SameOut(sfn.outvec[k], svc.outvec[k])
      BY <1>4, <2>2 DEF OutAgrees
    <3>. QED BY <1>2, <2>1, <3>1, <3>2 DEF InAgrees, OutAgrees, NoAccess
  <2>4. status = Outcome
    BY <1>3, <1>4, <1>5, <2>2 DEF Outcome, Validated, CanPrepareOut
  <2>5. answer'.svc.status = answer'.sfn.status
    BY <1>2, <1>4, <2>1, <2>4 DEF NoAnswer, AnswerType
  <2>6. AnswersAgree'
    BY <2>1, <2>5 DEF AnswersAgree, NoAccess
  <2>. QED BY <2>3, <2>6 DEF Agree
<1>8. CASE status = Success
  <2>1. /\ op' = [op EXCEPT !.stage = "closure"]
        /\ answer' = [answer EXCEPT !.svc.out = Slice(OutBase[j], svc.outvec[j].size)]
    BY <1>1, <1>3, <1>8 DEF Goto
  <2>2. /\ op'.handle = op.handle /\ op'.ins = op.ins /\ op'.outs = op.outs
        /\ op'.stage = "closure"
    BY <1>2, <2>1 DEF OpOk
  <2>3. op.handle = Msg /\ j \in VecIdx /\ Granted
    BY <1>3, <1>5, <1>8, ValidatedCode DEF CanPrepareOut
  <2>4. svc'.outvec[j] = [size |-> svc.outvec[j].size, written |-> svc.outvec[j].written,
                          mapped |-> TRUE, unmapped |-> FALSE]
    BY <1>1, <1>3, <1>8
  <2>5. AheadOut(sfn.outvec[j], svc.outvec[j])
    BY <1>6, <2>3
  <2>6. ASSUME NEW k \in VecIdx PROVE OutAgrees(k)'
    <3>1. CASE k = j
      <4>1. BothOut(sfn'.outvec[k], svc'.outvec[k])
        BY <1>2, <2>4, <2>5, <3>1 DEF AheadOut, Ahead, BothOut, Both, InHand
      <4>. QED BY <1>4, <2>2, <3>1, <4>1 DEF OutAgrees
    <3>2. CASE k # j
      <4>1. SameOut(sfn'.outvec[k], svc'.outvec[k])
        BY <1>2, <1>3, <1>4, <3>2 DEF OutAgrees, SameButOut
      <4>. QED BY <1>4, <2>2, <3>2, <4>1 DEF OutAgrees
    <3>. QED BY <3>1, <3>2
  <2>7. ASSUME NEW k \in VecIdx PROVE InAgrees(k)'
    <3>1. svc'.invec[k] = svc.invec[k] /\ sfn'.invec[k] = sfn.invec[k]
      BY <1>2, <1>3 DEF SameButOut
    <3>. QED BY <1>4, <2>2, <3>1 DEF InAgrees
  <2>8. AnswersAgree'
    <3> DEFINE slice == Slice(OutBase[j], svc.outvec[j].size)
    <3>1. slice \in SliceType
      <4>1. OutBase[j] \in Int
        BY <2>3, BaseTyped
      <4>2. svc.outvec[j].size \in Int
        BY <1>2, <2>3 DEF Conn, ConnectionOf, OutVec
      <4>. QED BY <4>1, <4>2, SliceTyped
    <3>2. slice = Slice(OutBase[j], sfn.outvec[j].size)
      BY <2>5 DEF AheadOut, Ahead
    <3> HIDE DEF slice
    <3>3. answer'.svc = [answer.svc EXCEPT !.out = slice] /\ answer'.sfn = answer.sfn
      BY <1>2, <2>1 DEF slice
    <3>4. /\ answer'.svc.status = Success /\ answer'.svc.in = answer.svc.in
          /\ answer'.svc.out = slice /\ answer'.svc \in AnswerType
      BY <1>2, <1>4, <3>1, <3>3 DEF AnswerType
    <3>5. answer.sfn.status = Success /\ answer.sfn.out = slice
      BY <1>4, <2>3, <3>2 DEF Outcome, GivenOut, Granted
    <3>6. answer.sfn.in = answer.svc.in
      BY <1>4, <2>3 DEF GivenIn
    <3>7. answer'.svc = answer'.sfn
      BY <1>2, <3>3, <3>4, <3>5, <3>6 DEF AnswerType
    <3>8. Granted'
      BY <2>2, <2>3 DEF Granted
    <3>. QED BY <1>4, <2>2, <3>3, <3>5, <3>7, <3>8 DEF AnswersAgree
  <2>. QED BY <2>6, <2>7, <2>8 DEF Agree
<1>. QED BY <1>7, <1>8

\* The commit of the SFN build succeeds exactly when the one to come does.
LEMMA ClosureReturnsAgrees ==
    ASSUME IInv, AgreeInv, NEW n \in Written, ClosureReturns(n), ~repeated'
    PROVE  Agree'
<1>1. /\ op.stage = "closure" /\ (op.outs = {} => n = 0) /\ svc' = svc
      /\ op' = [op EXCEPT !.written = n,
                          !.stage = IF op.outs # {} THEN "releaseOut" ELSE "releaseIn"]
      /\ ~repeated
  BY DEF ClosureReturns
<1>2. /\ Agree /\ sfn \in Conn /\ svc \in Conn /\ OpOk
      /\ answer \in [sfn : AnswerType, svc : AnswerType]
  BY <1>1 DEF IInv, AgreeInv
<1>3. /\ Granted /\ op.ins \cup op.outs # {}
      /\ answer.svc = answer.sfn /\ answer.sfn.status = Success
      /\ \A k \in VecIdx : InAgrees(k) /\ OutAgrees(k)
  BY <1>1, <1>2 DEF Agree, AnswersAgree
<1> DEFINE ok == CommitOk(sfn, op, n)
<1>4. /\ \A i \in op.ins : i \in VecIdx /\ Both(sfn.invec[i], svc.invec[i])
      /\ \A j \in op.outs : j \in VecIdx /\ BothOut(sfn.outvec[j], svc.outvec[j])
  BY <1>1, <1>3 DEF InAgrees, OutAgrees, Granted
<1>5. MarkOk(sfn, op)
  BY <1>4 DEF MarkOk, CanMarkIn, Both, InHand
<1>6. n \in Nat
  BY IoVecAssumption DEF Written
<1>7. ok <=> \A j \in op.outs : n <= svc.outvec[j].size
  BY <1>4 DEF CommitOk, CanCommit, BothOut, Both, InHand
<1>8. /\ sfn' = Ended(sfn, op, n)
      /\ answer' = [answer EXCEPT !.sfn.status = IF ok THEN Success ELSE ProgrammerError]
  BY <1>3, <1>5 DEF ClosureReturns
<1>9. sfn'.invec = UnmapIn(sfn, op, n) /\ sfn'.outvec = CommitOut(sfn, op, n)
  BY <1>2, <1>6, <1>8, EndedIs
<1>10. /\ op'.handle = op.handle /\ op'.ins = op.ins /\ op'.outs = op.outs /\ op'.written = n
       /\ op'.stage = IF op.outs # {} THEN "releaseOut" ELSE "releaseIn"
  BY <1>1, <1>2 DEF OpOk
<1>11. /\ answer'.sfn.status = IF ok THEN Success ELSE ProgrammerError
       /\ answer'.svc = answer.svc
  BY <1>2, <1>8 DEF AnswerType
<1>12. op.outs = {} => ok
  BY DEF CommitOk
<1> HIDE DEF ok
<1>13. Success # ProgrammerError
  BY DEF Success, ProgrammerError
<1>14. ASSUME NEW k \in VecIdx PROVE InAgrees(k)'
  <2>1. CASE k \notin op.ins
    <3>1. sfn'.invec[k] = sfn.invec[k]
      BY <1>9, <2>1 DEF UnmapIn
    <3>2. SameIn(sfn'.invec[k], svc'.invec[k])
      BY <1>1, <1>3, <2>1, <3>1 DEF InAgrees
    <3>. QED BY <1>10, <2>1, <3>2 DEF InAgrees
  <2>2. CASE k \in op.ins /\ ok
    <3>1. sfn'.invec[k] = [sfn.invec[k] EXCEPT !.unmapped = TRUE]
      BY <1>5, <1>9, <2>2 DEF UnmapIn, ok
    <3>2. DoneIn(sfn'.invec[k], svc'.invec[k])
      BY <1>1, <1>2, <1>4, <2>2, <3>1 DEF DoneIn, Done, Both, InHand, Conn, ConnectionOf, InVec
    <3>. QED BY <1>10, <1>11, <2>2, <3>2 DEF InAgrees
  <2>3. CASE k \in op.ins /\ ~ok
    <3>1. sfn'.invec[k] = sfn.invec[k]
      BY <1>9, <2>3 DEF UnmapIn, ok
    <3>2. Both(sfn'.invec[k], svc'.invec[k])
      BY <1>1, <1>4, <2>3, <3>1
    <3>. QED BY <1>10, <1>11, <1>12, <1>13, <2>3, <3>2 DEF InAgrees
  <2>. QED BY <2>1, <2>2, <2>3
<1>15. ASSUME NEW k \in VecIdx PROVE OutAgrees(k)'
  <2>1. CASE k \notin op.outs
    <3>1. sfn'.outvec[k] = sfn.outvec[k]
      BY <1>9, <2>1 DEF CommitOut
    <3>2. SameOut(sfn'.outvec[k], svc'.outvec[k])
      BY <1>1, <1>3, <2>1, <3>1 DEF OutAgrees
    <3>. QED BY <1>10, <2>1, <3>2 DEF OutAgrees
  <2>2. CASE k \in op.outs /\ ok
    <3>1. sfn'.outvec[k] = CommittedVec(sfn.outvec[k], n)
      BY <1>9, <2>2 DEF CommitOut, ok
    <3>2. DoneOut(sfn'.outvec[k], svc'.outvec[k], n)
      BY <1>1, <1>2, <1>4, <1>7, <2>2, <3>1
      DEF CommittedVec, DoneOut, Done, BothOut, Both, InHand, Conn, ConnectionOf, OutVec
    <3>. QED BY <1>10, <1>11, <2>2, <3>2 DEF OutAgrees
  <2>3. CASE k \in op.outs /\ ~ok
    <3>1. sfn'.outvec[k] = sfn.outvec[k]
      BY <1>9, <2>3 DEF CommitOut, ok
    <3>2. op.outs = {k}
      BY <1>2, <2>3 DEF OpOk, AtMostOne
    <3>3. BothOut(sfn'.outvec[k], svc'.outvec[k]) /\ n > svc'.outvec[k].size
      BY <1>1, <1>2, <1>4, <1>6, <1>7, <2>3, <3>1, <3>2 DEF Conn, ConnectionOf, OutVec
    <3>. QED BY <1>10, <1>11, <1>13, <2>3, <3>3 DEF OutAgrees
  <2>. QED BY <2>1, <2>2, <2>3
<1>16. AnswersAgree'
  <2>1. Granted'
    BY <1>3, <1>10 DEF Granted
  <2>2. CASE op.outs # {}
    BY <1>3, <1>10, <1>11, <2>1, <2>2 DEF AnswersAgree
  <2>3. CASE op.outs = {}
    BY <1>3, <1>10, <1>11, <1>12, <2>1, <2>3 DEF AnswersAgree
  <2>. QED BY <2>2, <2>3
<1>. QED BY <1>14, <1>15, <1>16 DEF Agree

LEMMA SvcReleaseOutvecAgrees ==
    ASSUME IInv, AgreeInv, SvcReleaseOutvec, ~repeated'
    PROVE  Agree'
<1>1. PICK j \in op.outs :
        LET f == Frame(op.handle, j, 1, op.written)
            done == HandleSvc(f, svc, ReleaseVec(f, svc))
            status == CheckSvcResult(done.frame.r0) IN
        /\ op.stage = "releaseOut"
        /\ svc' = done.conn
        /\ IF status # Success THEN GiveUp(status)
           ELSE Goto(IF op.ins # {} THEN "releaseIn" ELSE "idle") /\ UNCHANGED <<answer, failed>>
        /\ UNCHANGED <<sfn, told, repeated, calls>>
  BY DEF SvcReleaseOutvec
<1>2. /\ Agree /\ sfn \in Conn /\ svc \in Conn /\ sfn' = sfn /\ OpOk
      /\ answer \in [sfn : AnswerType, svc : AnswerType]
  BY <1>1 DEF IInv, AgreeInv
<1> DEFINE n == op.written
           f == Frame(op.handle, j, 1, n)
           done == HandleSvc(f, svc, ReleaseVec(f, svc))
           status == CheckSvcResult(done.frame.r0)
<1>3. /\ status = Validated(op.handle, CanCommit(svc, j, n))
      /\ status # Success => done.conn = svc
      /\ status = Success => done.conn.outvec[j] =
           [size |-> n, written |-> n, mapped |-> FALSE, unmapped |-> TRUE]
      /\ SameButOut(svc, svc', j)
  <2>1. op.handle \in Handles /\ n \in Nat
    BY <1>2 DEF OpOk
  <2>2. svc' = done.conn
    BY <1>1
  <2>. QED BY <1>2, <2>1, <2>2, ReleaseOutResult, ReleaseOut
<1>4. /\ op.outs = {j} /\ op.stage = "releaseOut"
      /\ \A k \in VecIdx : InAgrees(k) /\ OutAgrees(k)
      /\ Granted /\ answer.svc.status = Success
      /\ answer.sfn.status \in {Success, ProgrammerError}
  BY <1>1, <1>2 DEF Agree, AnswersAgree, OpOk, AtMostOne
<1>5. op.handle = Msg /\ j \in VecIdx /\ Success # ProgrammerError /\ Success # InvalidHandle
  BY <1>4 DEF Granted, Success, ProgrammerError, InvalidHandle
<1>6. IF answer.sfn.status = Success THEN DoneOut(sfn.outvec[j], svc.outvec[j], n)
      ELSE BothOut(sfn.outvec[j], svc.outvec[j]) /\ n > svc.outvec[j].size
  BY <1>4, <1>5 DEF OutAgrees
<1>7. status = answer.sfn.status
  <2>1. svc.outvec[j].size \in Nat /\ n \in Nat
    BY <1>2, <1>5 DEF Conn, ConnectionOf, OutVec, OpOk
  <2>2. CanCommit(svc, j, n) <=> answer.sfn.status = Success
    BY <1>5, <1>6, <2>1 DEF CanCommit, DoneOut, Done, BothOut, Both, InHand
  <2>. QED BY <1>3, <1>4, <1>5, <2>2 DEF Validated
<1>8. CASE status # Success
  <2>1. svc' = svc /\ op' = NoAccess /\ answer' = [answer EXCEPT !.svc = [NoAnswer EXCEPT !.status = status]]
    BY <1>1, <1>3, <1>8 DEF GiveUp, Goto
  <2>2. ASSUME NEW k \in VecIdx PROVE InAgrees(k)' /\ OutAgrees(k)'
    <3>1. SameIn(sfn.invec[k], svc.invec[k])
      BY <1>4, <1>7, <1>8 DEF InAgrees, Both, SameIn, InHand
    <3>2. SameOut(sfn.outvec[k], svc.outvec[k])
      BY <1>4, <1>7, <1>8 DEF OutAgrees, BothOut, Both, SameOut, InHand
    <3>. QED BY <1>2, <2>1, <3>1, <3>2 DEF InAgrees, OutAgrees, NoAccess
  <2>3. answer'.svc.status = answer'.sfn.status
    BY <1>2, <1>7, <2>1 DEF NoAnswer, AnswerType
  <2>4. AnswersAgree'
    BY <2>1, <2>3 DEF AnswersAgree, NoAccess
  <2>. QED BY <2>2, <2>4 DEF Agree
<1>9. CASE status = Success
  <2>1. /\ op' = IF op.ins # {} THEN [op EXCEPT !.stage = "releaseIn"] ELSE NoAccess
        /\ answer' = answer
        /\ svc'.outvec[j] = [size |-> n, written |-> n, mapped |-> FALSE, unmapped |-> TRUE]
    BY <1>1, <1>3, <1>9 DEF Goto
  <2>2. ASSUME NEW k \in VecIdx PROVE SameOut(sfn'.outvec[k], svc'.outvec[k])
    <3>1. CASE k = j
      BY <1>2, <1>6, <1>7, <1>9, <2>1, <3>1 DEF DoneOut, Done, SameOut, InHand
    <3>2. CASE k # j
      BY <1>2, <1>3, <1>4, <3>2 DEF OutAgrees, SameButOut
    <3>. QED BY <3>1, <3>2
  <2>3. ASSUME NEW k \in VecIdx
        PROVE  IF k \in op.ins THEN DoneIn(sfn'.invec[k], svc'.invec[k])
               ELSE SameIn(sfn'.invec[k], svc'.invec[k])
    BY <1>2, <1>3, <1>4, <1>7, <1>9 DEF InAgrees, SameButOut
  <2>4. CASE op.ins # {}
    <3>1. /\ op'.handle = op.handle /\ op'.ins = op.ins /\ op'.outs = op.outs
          /\ op'.stage = "releaseIn"
      BY <1>2, <2>1, <2>4 DEF OpOk
    <3>2. \A k \in VecIdx : InAgrees(k)' /\ OutAgrees(k)'
      BY <2>2, <2>3, <3>1 DEF InAgrees, OutAgrees
    <3>3. AnswersAgree'
      BY <1>4, <1>7, <1>9, <2>1, <2>4, <3>1 DEF AnswersAgree, Granted
    <3>. QED BY <3>2, <3>3 DEF Agree
  <2>5. CASE op.ins = {}
    <3>1. op' = NoAccess
      BY <2>1, <2>5
    <3>2. \A k \in VecIdx : InAgrees(k)' /\ OutAgrees(k)'
      BY <2>2, <2>3, <2>5, <3>1 DEF InAgrees, OutAgrees, NoAccess
    <3>3. AnswersAgree'
      BY <1>4, <1>7, <1>9, <2>1, <3>1 DEF AnswersAgree, NoAccess
    <3>. QED BY <3>2, <3>3 DEF Agree
  <2>. QED BY <2>4, <2>5
<1>. QED BY <1>8, <1>9

LEMMA SvcReleaseInvecAgrees ==
    ASSUME IInv, AgreeInv, SvcReleaseInvec, ~repeated'
    PROVE  Agree'
<1>1. PICK i \in op.ins :
        LET f == Frame(op.handle, i, 0, 0)
            done == HandleSvc(f, svc, ReleaseVec(f, svc))
            status == CheckSvcResult(done.frame.r0) IN
        /\ op.stage = "releaseIn"
        /\ svc' = done.conn
        /\ IF status # Success THEN GiveUp(status)
           ELSE Goto("idle") /\ UNCHANGED <<answer, failed>>
        /\ UNCHANGED <<sfn, told, repeated, calls>>
  BY DEF SvcReleaseInvec
<1>2. Agree /\ svc \in Conn /\ sfn' = sfn /\ OpOk
  BY <1>1 DEF IInv, AgreeInv
<1> DEFINE f == Frame(op.handle, i, 0, 0)
           done == HandleSvc(f, svc, ReleaseVec(f, svc))
           status == CheckSvcResult(done.frame.r0)
<1>3. /\ status = Validated(op.handle, CanMarkIn(svc, i))
      /\ status = Success => done.conn.invec[i] =
           [size |-> svc.invec[i].size, mapped |-> FALSE, unmapped |-> TRUE]
      /\ SameButIn(svc, svc', i)
  BY <1>1, <1>2, ReleaseInResult, ReleaseIn DEF OpOk
<1>4. /\ op.ins = {i} /\ op.stage = "releaseIn"
      /\ \A k \in VecIdx : InAgrees(k) /\ OutAgrees(k)
      /\ Granted /\ answer.svc.status = Success /\ answer.sfn.status = Success
  BY <1>1, <1>2 DEF Agree, AnswersAgree, OpOk, AtMostOne
<1>5. op.handle = Msg /\ i \in VecIdx /\ DoneIn(sfn.invec[i], svc.invec[i])
  BY <1>4 DEF Granted, InAgrees
<1>6. status = Success
  BY <1>3, <1>5 DEF Validated, CanMarkIn, DoneIn, Done, InHand
<1>7. /\ op' = NoAccess /\ answer' = answer
      /\ svc'.invec[i] = [size |-> svc.invec[i].size, mapped |-> FALSE, unmapped |-> TRUE]
  BY <1>1, <1>3, <1>6 DEF Goto
<1>8. ASSUME NEW k \in VecIdx PROVE SameIn(sfn'.invec[k], svc'.invec[k])
  <2>1. CASE k = i
    BY <1>2, <1>5, <1>7, <2>1 DEF DoneIn, Done, SameIn, InHand
  <2>2. CASE k # i
    BY <1>2, <1>3, <1>4, <2>2 DEF InAgrees, SameButIn
  <2>. QED BY <2>1, <2>2
<1>9. ASSUME NEW k \in VecIdx PROVE SameOut(sfn'.outvec[k], svc'.outvec[k])
  BY <1>2, <1>3, <1>4 DEF OutAgrees, SameButIn
<1>10. \A k \in VecIdx : InAgrees(k)' /\ OutAgrees(k)'
  BY <1>7, <1>8, <1>9 DEF InAgrees, OutAgrees, NoAccess
<1>11. AnswersAgree'
  BY <1>4, <1>7 DEF AnswersAgree, NoAccess
<1>. QED BY <1>10, <1>11 DEF Agree

\* What the two builds are told is the same, whatever has been accessed before.
LEMMA CallTold ==
    ASSUME NEW h \in Handles, NEW t \in Types, NEW i \in Lens, NEW o \in Lens,
           NEW s \in Statuses, Call(h, t, i, o, s)
    PROVE  told'.svc = told'.sfn
<1> DEFINE ctrl == CtrlParam(t, i, o)
           f == Frame(h, ctrl, 0, 0)
           result == IF CallParamsValid(ctrl) THEN CheckSvcResult(CastUnsigned(s))
                     ELSE ProgrammerError
           done == HandleSvc(f, svc, PsaCallSvc(f, svc, s))
<1>1. f.r0 = h /\ f.r1 = ctrl
  BY FrameRegisters
<1>2. result = IF CallParamsValid(ctrl) THEN s ELSE ProgrammerError
  BY RoundTrip, StatusesAssumption
<1>3. result \in StatusCodes
  BY <1>2, StatusesAssumption DEF StatusCodes, ProgrammerError
<1>4. done.frame = IF result = Success THEN SetSuccess(f) ELSE SetError(f, result)
  BY <1>1 DEF HandleSvc, PsaCallSvc
<1>5. done.frame.r0 = CastUnsigned(result)
  BY <1>4, FrameRegisters DEF SetSuccess, SetError
<1> HIDE DEF result, done, ctrl
<1>6. CheckSvcResult(done.frame.r0) = IF CallParamsValid(ctrl) THEN s ELSE ProgrammerError
  BY <1>2, <1>3, <1>5, RoundTrip
<1>. QED BY <1>6 DEF Call, Tell, done, ctrl

LEMMA VersionTold ==
    ASSUME NEW id \in Ids, Version(id)
    PROVE  told'.svc = told'.sfn
<1> DEFINE f == Frame(id, 0, 0, 0)
<1>1. id \in Handles => HandleSvc(f, svc, VersionSvc(f, svc)).frame.r0 = VersionOf(id)
  BY DEF HandleSvc, VersionSvc, Frame
<1>. QED BY <1>1 DEF Version, Tell

LEMMA InitAgreeInv == Init => AgreeInv
<1> SUFFICES ASSUME Init PROVE AgreeInv
  OBVIOUS
<1>1. PICK ins, outs \in [VecIdx -> Sizes] : sfn = NewConnection(Msg, Msg, ins, outs)
  BY DEF Init
<1>2. sfn \in Conn /\ svc = sfn
  BY <1>1, IoVecAssumption DEF Init, NewConnection, Conn, ConnectionOf, InVec, OutVec
<1>3. \A k \in VecIdx :
        /\ Untouched(sfn.invec[k]) /\ Untouched(sfn.outvec[k]) /\ sfn.outvec[k].written = 0
  BY <1>1 DEF NewConnection, Untouched
<1>4. op = NoAccess /\ answer = [sfn |-> NoAnswer, svc |-> NoAnswer]
      /\ repeated = FALSE /\ told = [sfn |-> 0, svc |-> 0]
  BY DEF Init
<1>5. \A k \in VecIdx : InAgrees(k) /\ OutAgrees(k)
  BY <1>2, <1>3, <1>4 DEF NoAccess, InAgrees, OutAgrees, SameIn, SameOut, Untouched, InHand
<1>6. AnswersAgree
  BY <1>4 DEF AnswersAgree, NoAccess
<1>7. answer \in [sfn : AnswerType, svc : AnswerType]
  BY <1>4 DEF NoAnswer, AnswerType, SliceType, NoSlice, Success
<1>. QED BY <1>2, <1>4, <1>5, <1>6, <1>7 DEF AgreeInv, Agree

\* The SFN connection and the answers keep their types.
LEMMA AgreeTypes ==
    ASSUME IInv, AgreeInv, [Next]_vars
    PROVE  /\ sfn' \in Conn /\ answer' \in [sfn : AnswerType, svc : AnswerType]
           /\ repeated' \in BOOLEAN
<1>1. /\ sfn \in Conn /\ svc \in Conn /\ OpOk /\ repeated \in BOOLEAN
      /\ answer \in [sfn : AnswerType, svc : AnswerType]
  BY DEF IInv, AgreeInv
<1>2. NoAnswer \in AnswerType /\ NoSlice \in SliceType
  BY DEF NoAnswer, NoSlice, AnswerType, SliceType, Success
<1>3. \A s \in StatusCodes : [NoAnswer EXCEPT !.status = s] \in AnswerType
  BY <1>2 DEF AnswerType, StatusCodes
<1>4. ASSUME NEW s \in StatusCodes, GiveUp(s)
      PROVE  answer' \in [sfn : AnswerType, svc : AnswerType]
  <2>1. answer' = [answer EXCEPT !.svc = [NoAnswer EXCEPT !.status = s]]
    BY <1>4 DEF GiveUp
  <2>. QED BY <1>1, <1>3, <2>1
<1>5. \A k \in VecIdx :
        /\ InBase[k] \in Int /\ OutBase[k] \in Int
        /\ svc.invec[k].size \in Int /\ svc.outvec[k].size \in Int
        /\ sfn.invec[k].size \in Int /\ sfn.outvec[k].size \in Int
  <2> TAKE k \in VecIdx
  <2>1. InBase[k] \in Int /\ OutBase[k] \in Int
    BY BaseTyped
  <2>2. /\ svc.invec[k].size \in Int /\ svc.outvec[k].size \in Int
        /\ sfn.invec[k].size \in Int /\ sfn.outvec[k].size \in Int
    BY <1>1 DEF Conn, ConnectionOf, InVec, OutVec
  <2>. QED BY <2>1, <2>2
<1>6. ASSUME NEW slice \in SliceType
      PROVE  /\ [answer EXCEPT !.svc.in = slice] \in [sfn : AnswerType, svc : AnswerType]
             /\ [answer EXCEPT !.svc.out = slice] \in [sfn : AnswerType, svc : AnswerType]
  BY <1>1 DEF AnswerType
<1>7. ASSUME NEW h \in Handles, NEW a \in Accesses, Access(h, a)
      PROVE  /\ sfn' \in Conn /\ answer' \in [sfn : AnswerType, svc : AnswerType]
             /\ repeated' \in BOOLEAN
  <2> DEFINE status == Validated(h, CanBegin(sfn, a))
             inSlice == IF a.ins = {} THEN NoSlice
                        ELSE LET i == CHOOSE i \in a.ins : TRUE IN Slice(InBase[i], sfn.invec[i].size)
             outSlice == IF a.outs = {} THEN NoSlice
                         ELSE LET j == CHOOSE j \in a.outs : TRUE IN Slice(OutBase[j], sfn.outvec[j].size)
  <2>1. sfn' \in Conn
    BY <1>1, <1>7, BegunIs DEF Access
  <2>2. repeated' \in BOOLEAN
    BY <1>7 DEF Access
  <2>3. status \in StatusCodes /\ (status = Success => CanBegin(sfn, a))
    BY ValidatedCode DEF CanBegin, InOk, OutOk
  <2>4. ASSUME status = Success PROVE inSlice \in SliceType /\ outSlice \in SliceType
    <3>1. a.ins \subseteq VecIdx /\ a.outs \subseteq VecIdx
      BY <2>3, <2>4 DEF CanBegin, InOk, OutOk, CanPrepareIn, CanPrepareOut
    <3>2. inSlice \in SliceType
      BY <1>2, <1>5, <3>1, SliceTyped
    <3>3. outSlice \in SliceType
      BY <1>2, <1>5, <3>1, SliceTyped
    <3>. QED BY <3>2, <3>3
  <2>5. answer' = [sfn |-> IF status = Success
                           THEN [status |-> status, in |-> inSlice, out |-> outSlice]
                           ELSE [NoAnswer EXCEPT !.status = status],
                   svc |-> NoAnswer]
    BY <1>7 DEF Access
  <2> HIDE DEF status, inSlice, outSlice
  <2>6. status \in Int
    BY <2>3 DEF StatusCodes
  <2>7. answer' \in [sfn : AnswerType, svc : AnswerType]
    BY <1>2, <1>3, <2>3, <2>4, <2>5, <2>6 DEF AnswerType
  <2>. QED BY <2>1, <2>2, <2>7
<1>8. CASE SvcAccessInvec
  <2>1. PICK i \in op.ins :
          LET f == Frame(op.handle, i, 0, 0)
              done == HandleSvc(f, svc, AccessVec(f, svc))
              status == CheckSvcResult(done.frame.r0) IN
          /\ IF status # Success THEN GiveUp(status)
             ELSE answer' = [answer EXCEPT !.svc.in = Slice(done.frame.r1, done.frame.r2)]
          /\ UNCHANGED <<sfn, repeated>>
    BY <1>8 DEF SvcAccessInvec
  <2> DEFINE f == Frame(op.handle, i, 0, 0)
             done == HandleSvc(f, svc, AccessVec(f, svc))
             status == CheckSvcResult(done.frame.r0)
  <2>2. /\ status = Validated(op.handle, CanPrepareIn(svc, i))
        /\ status = Success => done.frame.r1 = InBase[i] /\ done.frame.r2 = svc.invec[i].size
    BY <1>1, AccessInResult, ZenonT(30) DEF OpOk
  <2>3. status \in StatusCodes /\ (status = Success => i \in VecIdx)
    BY <2>2, ValidatedCode DEF CanPrepareIn
  <2>4. CASE status # Success
    BY <1>1, <1>4, <2>1, <2>3, <2>4
  <2>5. CASE status = Success
    <3>1. answer' = [answer EXCEPT !.svc.in = Slice(InBase[i], svc.invec[i].size)]
      BY <2>1, <2>2, <2>5
    <3>2. Slice(InBase[i], svc.invec[i].size) \in SliceType
      BY <1>5, <2>3, <2>5, SliceTyped
    <3>. QED BY <1>1, <1>6, <2>1, <3>1, <3>2
  <2>. QED BY <2>4, <2>5
<1>9. CASE SvcAccessOutvec
  <2>1. PICK j \in op.outs :
          LET f == Frame(op.handle, j, 1, 0)
              done == HandleSvc(f, svc, AccessVec(f, svc))
              status == CheckSvcResult(done.frame.r0) IN
          /\ IF status # Success THEN GiveUp(status)
             ELSE answer' = [answer EXCEPT !.svc.out = Slice(done.frame.r1, done.frame.r2)]
          /\ UNCHANGED <<sfn, repeated>>
    BY <1>9 DEF SvcAccessOutvec
  <2> DEFINE f == Frame(op.handle, j, 1, 0)
             done == HandleSvc(f, svc, AccessVec(f, svc))
             status == CheckSvcResult(done.frame.r0)
  <2>2. /\ status = Validated(op.handle, CanPrepareOut(svc, j))
        /\ status = Success => done.frame.r1 = OutBase[j] /\ done.frame.r2 = svc.outvec[j].size
    BY <1>1, AccessOutResult, ZenonT(30) DEF OpOk
  <2>3. status \in StatusCodes /\ (status = Success => j \in VecIdx)
    BY <2>2, ValidatedCode DEF CanPrepareOut
  <2>4. CASE status # Success
    BY <1>1, <1>4, <2>1, <2>3, <2>4
  <2>5. CASE status = Success
    <3>1. answer' = [answer EXCEPT !.svc.out = Slice(OutBase[j], svc.outvec[j].size)]
      BY <2>1, <2>2, <2>5
    <3>2. Slice(OutBase[j], svc.outvec[j].size) \in SliceType
      BY <1>5, <2>3, <2>5, SliceTyped
    <3>. QED BY <1>1, <1>6, <2>1, <3>1, <3>2
  <2>. QED BY <2>4, <2>5
<1>10. ASSUME NEW n \in Written, ClosureReturns(n)
       PROVE  /\ sfn' \in Conn /\ answer' \in [sfn : AnswerType, svc : AnswerType]
              /\ repeated' \in BOOLEAN
  <2>1. n \in Nat
    BY IoVecAssumption DEF Written
  <2>2. sfn' \in {sfn, Ended(sfn, op, n)} /\ repeated' = repeated
        /\ answer' \in {answer, [answer EXCEPT !.sfn.status = Success],
                        [answer EXCEPT !.sfn.status = ProgrammerError]}
    BY <1>10 DEF ClosureReturns
  <2>3. /\ [answer EXCEPT !.sfn.status = Success] \in [sfn : AnswerType, svc : AnswerType]
        /\ [answer EXCEPT !.sfn.status = ProgrammerError] \in [sfn : AnswerType, svc : AnswerType]
    BY <1>1 DEF AnswerType, Success, ProgrammerError
  <2>. QED BY <1>1, <2>1, <2>2, <2>3, EndedIs
<1>11. CASE SvcReleaseOutvec
  <2>1. PICK j \in op.outs :
          LET f == Frame(op.handle, j, 1, op.written)
              done == HandleSvc(f, svc, ReleaseVec(f, svc))
              status == CheckSvcResult(done.frame.r0) IN
          /\ IF status # Success THEN GiveUp(status) ELSE answer' = answer
          /\ UNCHANGED <<sfn, repeated>>
    BY <1>11 DEF SvcReleaseOutvec
  <2> DEFINE n == op.written
             f == Frame(op.handle, j, 1, n)
             done == HandleSvc(f, svc, ReleaseVec(f, svc))
             status == CheckSvcResult(done.frame.r0)
  <2>2. op.handle \in Handles /\ n \in Nat /\ svc \in Conn
    BY <1>1 DEF OpOk
  <2>3. /\ status = Validated(op.handle, CanCommit(svc, j, n))
        /\ status # Success => done.conn = svc
        /\ status = Success => done.conn.outvec[j] =
             [size |-> n, written |-> n, mapped |-> FALSE, unmapped |-> TRUE]
    BY <2>2, ReleaseOutResult, ZenonT(30)
  <2>4. status \in StatusCodes
    BY <2>3, ValidatedCode DEF CanCommit
  <2>. QED BY <1>1, <1>4, <2>1, <2>4
<1>12. CASE SvcReleaseInvec
  <2>1. PICK i \in op.ins :
          LET f == Frame(op.handle, i, 0, 0)
              done == HandleSvc(f, svc, ReleaseVec(f, svc))
              status == CheckSvcResult(done.frame.r0) IN
          /\ IF status # Success THEN GiveUp(status) ELSE answer' = answer
          /\ UNCHANGED <<sfn, repeated>>
    BY <1>12 DEF SvcReleaseInvec
  <2> DEFINE f == Frame(op.handle, i, 0, 0)
             status == CheckSvcResult(HandleSvc(f, svc, ReleaseVec(f, svc)).frame.r0)
  <2>2. status = Validated(op.handle, CanMarkIn(svc, i))
    BY <1>1, ReleaseInResult DEF OpOk
  <2>3. status \in StatusCodes
    BY <2>2, ValidatedCode DEF CanMarkIn
  <2>. QED BY <1>1, <1>4, <2>1, <2>3
<1>13. ASSUME UNCHANGED <<sfn, answer, repeated>>
       PROVE  /\ sfn' \in Conn /\ answer' \in [sfn : AnswerType, svc : AnswerType]
              /\ repeated' \in BOOLEAN
  BY <1>1, <1>13
<1>14. CASE \E h \in Handles, t \in Types, i, o \in Lens, s \in Statuses : Call(h, t, i, o, s)
  BY <1>13, <1>14 DEF Call, Tell
<1>15. CASE \E id \in Ids : Version(id)
  BY <1>13, <1>15 DEF Version, Tell
<1>16. CASE UNCHANGED vars
  BY <1>13, <1>16 DEF vars
<1>. QED BY <1>7, <1>8, <1>9, <1>10, <1>11, <1>12, <1>14, <1>15, <1>16 DEF Next

LEMMA UntoldAgrees ==
    ASSUME AgreeInv, UNCHANGED <<sfn, svc, op, answer, repeated>>, ~repeated'
    PROVE  Agree'
BY DEF AgreeInv, Agree, InAgrees, OutAgrees, AnswersAgree, Granted, Outcome, GivenIn, GivenOut

LEMMA NextAgreeInv == IInv /\ AgreeInv /\ [Next]_vars => AgreeInv'
<1> SUFFICES ASSUME IInv, AgreeInv, [Next]_vars PROVE AgreeInv'
  OBVIOUS
<1>1. /\ sfn' \in Conn /\ answer' \in [sfn : AnswerType, svc : AnswerType]
      /\ repeated' \in BOOLEAN
  BY AgreeTypes
<1>2. told'.svc = told'.sfn
  <2>1. told.svc = told.sfn
    BY DEF AgreeInv
  <2>2. ASSUME NEW h \in Handles, NEW t \in Types, NEW i \in Lens, NEW o \in Lens,
               NEW s \in Statuses, Call(h, t, i, o, s)
        PROVE  told'.svc = told'.sfn
    BY <2>2, CallTold
  <2>3. ASSUME NEW id \in Ids, Version(id) PROVE told'.svc = told'.sfn
    BY <2>3, VersionTold
  <2>4. ASSUME told' = told PROVE told'.svc = told'.sfn
    BY <2>1, <2>4
  <2>5. CASE (\E h \in Handles, a \in Accesses : Access(h, a)) \/ SvcAccessInvec \/ SvcAccessOutvec
    BY <2>4, <2>5 DEF Access, SvcAccessInvec, SvcAccessOutvec
  <2>6. CASE (\E n \in Written : ClosureReturns(n)) \/ SvcReleaseOutvec \/ SvcReleaseInvec
    BY <2>4, <2>6 DEF ClosureReturns, SvcReleaseOutvec, SvcReleaseInvec
  <2>7. CASE UNCHANGED vars
    BY <2>4, <2>7 DEF vars
  <2>. QED BY <2>2, <2>3, <2>5, <2>6, <2>7 DEF Next
<1>3. ASSUME ~repeated' PROVE Agree'
  <2>1. ASSUME NEW h \in Handles, NEW a \in Accesses, Access(h, a) PROVE Agree'
    BY <1>3, <2>1, AccessAgrees
  <2>2. CASE SvcAccessInvec
    BY <1>3, <2>2, SvcAccessInvecAgrees
  <2>3. CASE SvcAccessOutvec
    BY <1>3, <2>3, SvcAccessOutvecAgrees
  <2>4. ASSUME NEW n \in Written, ClosureReturns(n) PROVE Agree'
    BY <1>3, <2>4, ClosureReturnsAgrees
  <2>5. CASE SvcReleaseOutvec
    BY <1>3, <2>5, SvcReleaseOutvecAgrees
  <2>6. CASE SvcReleaseInvec
    BY <1>3, <2>6, SvcReleaseInvecAgrees
  <2>7. ASSUME UNCHANGED <<sfn, svc, op, answer, repeated>> PROVE Agree'
    BY <1>3, <2>7, UntoldAgrees
  <2>8. CASE \E h \in Handles, t \in Types, i, o \in Lens, s \in Statuses : Call(h, t, i, o, s)
    BY <2>7, <2>8 DEF Call, Tell
  <2>9. CASE \E id \in Ids : Version(id)
    BY <2>7, <2>9 DEF Version, Tell
  <2>10. CASE UNCHANGED vars
    BY <2>7, <2>10 DEF vars
  <2>. QED BY <2>1, <2>2, <2>3, <2>4, <2>5, <2>6, <2>8, <2>9, <2>10 DEF Next
<1>. QED BY <1>1, <1>2, <1>3 DEF AgreeInv

------------------------------------------------------------------------------

\* For any number of vectors, handles, codes and API calls: a service cannot
\* tell the builds apart as long as it asks for each vector once
\* (svc.rs:93-141 and 293-369 against api.rs:25-92).
THEOREM SameService == Spec => []BuildsAgree
<1>1. AgreeInv => BuildsAgree
  <2> SUFFICES ASSUME AgreeInv PROVE BuildsAgree
    OBVIOUS
  <2>1. ASSUME ~repeated, op.stage = "closure" PROVE answer.svc = answer.sfn
    BY <2>1 DEF AgreeInv, Agree, AnswersAgree
  <2>2. ASSUME ~repeated, op.stage = "idle", NEW k \in VecIdx
        PROVE  /\ answer.svc.status = answer.sfn.status
               /\ SameIn(sfn.invec[k], svc.invec[k]) /\ SameOut(sfn.outvec[k], svc.outvec[k])
    BY <2>2 DEF AgreeInv, Agree, AnswersAgree, InAgrees, OutAgrees
  <2>3. ASSUME ~repeated, op.stage = "idle" PROVE answer.svc.status = answer.sfn.status
    BY <2>3 DEF AgreeInv, Agree, AnswersAgree
  <2>. QED BY <2>1, <2>2, <2>3 DEF BuildsAgree, SameIn, SameOut, AgreeInv
<1>2. Spec => []AgreeInv
  BY InitIInv, NextIInv, InitAgreeInv, NextAgreeInv, PTL DEF Spec
<1>. QED BY <1>1, <1>2, PTL
===============================================================================
