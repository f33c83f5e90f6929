-------------------------- MODULE SecureEntryProofs --------------------------
(***************************************************************************)
(* Proofs about SecureEntry, for any number of clients, services, slots,   *)
(* vectors and buffer sizes.                                               *)
(*                                                                         *)
(* The invariants the runs check are consequences of Inv below, which says *)
(* how the stack behind the mutex mirrors the chain of nested calls of the *)
(* one client that is inside: level l of that chain owns slot l - 1, and   *)
(* the slot is empty exactly while the level works on its copy.            *)
(***************************************************************************)
EXTENDS SecureEntry, FiniteSetTheorems, SequenceTheorems, TLAPS

\* The gate admits one client, and calls are made by the client inside.
Gate ==
    /\ \A t, u \in Threads : stage[t] # "ns" /\ stage[u] # "ns" => t = u
    /\ inSecureState <=> \E t \in Threads : stage[t] # "ns"
    /\ \A t \in Threads : stage[t] # "calling" => depth[t] = 0

\* The holder of the mutex is in the middle of one of its steps.
Holder == \A t \in Threads : lock = t => depth[t] > 0 /\ pc[t][depth[t]] \in LockSteps

\* Only the deepest level is anywhere but in its service.
Chain ==
    \A t \in Threads, l \in Levels :
        /\ l > depth[t] <=> pc[t][l] = "idle"
        /\ l < depth[t] => pc[t][l] \in {"run", "body"}

\* How many connections the chain of t has on the stack.
Height(t) ==
    IF depth[t] > 0 /\ pc[t][depth[t]] = "add" THEN depth[t] - 1 ELSE depth[t]

StackHeight ==
    /\ \A t \in Threads : stage[t] = "calling" => connections.top = Height(t)
    /\ (\A t \in Threads : stage[t] # "calling") => connections.top = 0
    /\ \A i \in Slots : i >= connections.top => connections.slots[i] = Absent

Belongs(c, h, t, l) == c # Absent /\ c.owner = <<t, l>> /\ c.handle = h

\* Level l of t owns slot l - 1: the slot has its connection, or the level has.
Ownership ==
    \A t \in Threads, l \in Levels :
        /\ pc[t][l] = "add" => Belongs(conn[t][l], msg[t][l], t, l)
        /\ pc[t][l] \in {"body", "restore"} =>
            /\ connections.slots[l - 1] = Absent
            /\ Belongs(conn[t][l], msg[t][l], t, l)
            /\ index[t][l] = l - 1
        /\ pc[t][l] \in {"run", "take", "pop"} =>
            Belongs(connections.slots[l - 1], msg[t][l], t, l)

\* Whoever shares the dispatcher, a level that is about to put a connection on
\* the stack has one.
Carries ==
    \A t \in Threads, l \in Levels :
        pc[t][l] \in {"add", "body", "restore"} => conn[t][l] # Absent

Inv == Gate /\ Holder /\ Chain /\ StackHeight /\ Ownership

------------------------------------------------------------------------------
(* What the operators of IoVec do to a connection. *)

\* A connection built by call_from_slices has the type, owner and handle.
LEMMA NewConnectionType ==
    ASSUME NEW t \in Threads, NEW l \in Levels, NEW h \in Handles,
           NEW ins \in [VecIdx -> Sizes], NEW outs \in [VecIdx -> Sizes]
    PROVE  /\ NewConnection(<<t, l>>, h, ins, outs) \in Connection
           /\ NewConnection(<<t, l>>, h, ins, outs).owner = <<t, l>>
           /\ NewConnection(<<t, l>>, h, ins, outs).handle = h
BY IoVecAssumption
DEF NewConnection, Connection, ConnectionOf, InVec, OutVec, VecIdx

\* Preparing vectors changes neither the owner nor the handle.
LEMMA BegunType ==
    ASSUME NEW c \in Connection, NEW a
    PROVE  /\ Begun(c, a) \in Connection
           /\ Begun(c, a).owner = c.owner
           /\ Begun(c, a).handle = c.handle
<1> USE DEF Connection, ConnectionOf
<1>1. MapIn(c, a) \in [VecIdx -> InVec]
  <2>1. \A v \in InVec : [v EXCEPT !.mapped = TRUE] \in InVec
    BY DEF InVec
  <2> QED
    BY <2>1 DEF MapIn
<1>2. MapOut(c, a) \in [VecIdx -> OutVec]
  <2>1. \A v \in OutVec : [v EXCEPT !.mapped = TRUE] \in OutVec
    BY DEF OutVec
  <2> QED
    BY <2>1 DEF MapOut
<1> QED
  BY <1>1, <1>2 DEF Begun

\* Neither does finishing them.
LEMMA EndedType ==
    ASSUME NEW c \in Connection, NEW a, NEW n \in Written
    PROVE  /\ Ended(c, a, n) \in Connection
           /\ Ended(c, a, n).owner = c.owner
           /\ Ended(c, a, n).handle = c.handle
<1> USE DEF Connection, ConnectionOf
<1>1. UnmapIn(c, a, n) \in [VecIdx -> InVec]
  <2>1. \A v \in InVec : [v EXCEPT !.unmapped = TRUE] \in InVec
    BY DEF InVec
  <2> QED
    BY <2>1 DEF UnmapIn
<1>2. CommitOut(c, a, n) \in [VecIdx -> OutVec]
  <2>1. n \in Nat
    BY IoVecAssumption DEF Written
  <2>2. \A v \in OutVec : CommittedVec(v, n) \in OutVec
    BY <2>1 DEF OutVec, CommittedVec
  <2> QED
    BY <2>2 DEF CommitOut
<1> QED
  BY <1>1, <1>2 DEF Ended

------------------------------------------------------------------------------
(* What the operators of ConnectionArray do to a stack. *)

\* Every method leaves a stack of the same type.
LEMMA StackType ==
    ASSUME NEW C, NEW s \in StackOf(C), NEW c \in C, NEW i \in Slots
    PROVE  /\ CanAdd(s) => Added(s, c) \in StackOf(C)
           /\ CanTake(s) => /\ Taken(s) \in StackOf(C)
                            /\ Active(s) \in C
                            /\ s.top - 1 \in Slots
           /\ Restored(s, i, c) \in StackOf(C)
           /\ Popped(s) \in StackOf(C)
<1> USE MaxConnectionsAssumption DEF StackOf, Slots
<1>1. ASSUME CanAdd(s) PROVE Added(s, c) \in StackOf(C)
  BY <1>1 DEF CanAdd, Added
<1>2. ASSUME CanTake(s)
      PROVE  /\ Taken(s) \in StackOf(C)
             /\ Active(s) \in C
             /\ s.top - 1 \in Slots
  BY <1>2 DEF CanTake, Taken, Active
<1>3. Restored(s, i, c) \in StackOf(C)
  BY DEF Restored
<1>4. Popped(s) \in StackOf(C)
  BY DEF Popped
<1> QED
  BY <1>1, <1>2, <1>3, <1>4

------------------------------------------------------------------------------
(* Types. *)

\* new() gives every variable of the dispatcher its type.
LEMMA InitSpmType == SpmInit => SpmTypeOK
<1>1. AnyHandle \in Handles
  BY SpmFnAssumption DEF AnyHandle
<1>2. EmptyStack \in StackOf(Connection)
  BY MaxConnectionsAssumption DEF EmptyStack, StackOf, Slots
<1>3. 0 \in Slots /\ 0 \in 0 .. MaxDepth
  BY MaxConnectionsAssumption DEF Slots, MaxDepth
<1> QED
  BY <1>1, <1>2, <1>3 DEF SpmInit, SpmTypeOK

\* And so does the gate.
LEMMA InitType == Init => TypeOK
BY InitSpmType DEF Init, TypeOK

\* Setting one level of one thread.
LEMMA SetLevel ==
    ASSUME NEW S, NEW f \in [Threads -> [Levels -> S]],
           NEW t \in Threads, NEW l \in Levels, NEW v \in S
    PROVE  [f EXCEPT ![t][l] = v] \in [Threads -> [Levels -> S]]
OBVIOUS

\* The end of a level keeps the types.
LEMMA LeaveType ==
    ASSUME SpmTypeOK, NEW t \in Threads, NEW l \in Levels, Leave(t, l)
    PROVE  /\ depth' \in [Threads -> 0 .. MaxDepth]
           /\ pc' \in [Threads -> [Levels -> LockSteps \cup {"idle", "run", "body"}]]
           /\ msg' \in [Threads -> [Levels -> Handles]]
           /\ conn' \in [Threads -> [Levels -> Connection \cup {Absent}]]
<1>1. AnyHandle \in Handles
  BY SpmFnAssumption DEF AnyHandle
<1>2. l - 1 \in 0 .. MaxDepth
  BY MaxConnectionsAssumption DEF Levels, MaxDepth
<1> QED
  BY <1>1, <1>2, SetLevel DEF Leave, SpmTypeOK

\* So does the end of an access.
LEMMA ResumeType ==
    ASSUME SpmTypeOK, NEW t \in Threads, NEW l \in Levels, Resume(t, l)
    PROVE  /\ pc' \in [Threads -> [Levels -> LockSteps \cup {"idle", "run", "body"}]]
           /\ conn' \in [Threads -> [Levels -> Connection \cup {Absent}]]
           /\ index' \in [Threads -> [Levels -> Slots]]
           /\ access' \in [Threads -> [Levels -> Accesses \cup {NoAccess}]]
<1>1. 0 \in Slots
  BY MaxConnectionsAssumption DEF Slots
<1> QED
  BY <1>1, SetLevel DEF Resume, Goto, SpmTypeOK

\* The steps of the dispatcher and of the services keep the types.
LEMMA SpmType ==
    ASSUME SpmTypeOK, Carries, NEW t \in Threads, NEW l \in Levels,
           SpmStep(t, l) \/ ServiceStep(t, l) \/ TopCall(t)
    PROVE  SpmTypeOK'
<1>1. CASE TryLock(t, l)
  BY <1>1 DEF TryLock, SpmTypeOK
<1>2. ASSUME NEW h \in Handles, NEW ins \in [VecIdx -> Sizes],
             NEW outs \in [VecIdx -> Sizes], Call(t, h, ins, outs)
      PROVE  SpmTypeOK'
  <2> DEFINE k == depth[t] + 1
             new == NewConnection(<<t, k>>, h, ins, outs)
  <2>1. k \in Levels /\ k \in 0 .. MaxDepth
    BY <1>2 DEF Call, Levels
  <2>2. new \in Connection
    BY <2>1, NewConnectionType
  <2>3. /\ pc' = [pc EXCEPT ![t][k] = "add"]
        /\ msg' = [msg EXCEPT ![t][k] = h]
        /\ conn' = [conn EXCEPT ![t][k] = new]
        /\ depth' = [depth EXCEPT ![t] = k]
        /\ UNCHANGED <<connections, lock, index, access>>
    BY <1>2 DEF Call, Goto
  <2> HIDE DEF k, new
  <2> QED
    BY <2>1, <2>2, <2>3, SetLevel DEF SpmTypeOK, LockSteps
<1>3. CASE AddConnection(t, l)
  <2>1. conn[t][l] \in Connection
    BY <1>3 DEF AddConnection, At, Carries, SpmTypeOK
  <2>2. CASE CanAdd(connections)
    <3>1. Added(connections, conn[t][l]) \in StackOf(Connection)
      <4>1. 0 \in Slots
        BY MaxConnectionsAssumption DEF Slots
      <4> QED
        BY <4>1, <2>1, <2>2, StackType DEF SpmTypeOK
    <3>2. /\ connections' = Added(connections, conn[t][l])
          /\ pc' = [pc EXCEPT ![t][l] = "run"]
          /\ conn' = [conn EXCEPT ![t][l] = Absent]
          /\ lock' = NoThread
          /\ UNCHANGED <<depth, msg, index, access>>
      BY <1>3, <2>2 DEF AddConnection, Goto
    <3> QED
      BY <3>1, <3>2, SetLevel DEF SpmTypeOK
  <2>3. CASE ~CanAdd(connections)
    <3>1. Leave(t, l) /\ lock' = NoThread /\ UNCHANGED <<connections, index, access>>
      BY <1>3, <2>3 DEF AddConnection
    <3> QED
      BY <3>1, LeaveType DEF SpmTypeOK
  <2> QED
    BY <2>2, <2>3
<1>4. CASE AddBusy(t, l)
  BY <1>4, LeaveType DEF AddBusy, SpmTypeOK
<1>5. ASSUME NEW a \in Accesses, Access(t, l, a) PROVE SpmTypeOK'
  BY <1>5, SetLevel DEF Access, Goto, SpmTypeOK, LockSteps
<1>6. CASE TakeConnection(t, l)
  <2>1. CASE CanTake(connections)
    <3> DEFINE c == Active(connections)
               valid == c.handle = msg[t][l]
               copy == IF valid THEN Begun(c, access[t][l]) ELSE c
               step == IF valid /\ CanBegin(c, access[t][l]) THEN "body" ELSE "restore"
    <3>1. /\ Taken(connections) \in StackOf(Connection)
          /\ c \in Connection
          /\ connections.top - 1 \in Slots
      <4>1. connections.top - 1 \in Slots
        BY <2>1, MaxConnectionsAssumption DEF CanTake, SpmTypeOK, StackOf, Slots
      <4>2. c \in Connection
        BY <2>1, <4>1 DEF CanTake, SpmTypeOK, StackOf, Active
      <4>3. connections \in StackOf(Connection)
        BY DEF SpmTypeOK
      <4> HIDE DEF c
      <4> QED
        BY <4>1, <4>2, <4>3, <2>1, StackType
    <3>2. copy \in Connection
      BY <3>1, BegunType
    <3>3. step \in LockSteps \cup {"idle", "run", "body"}
      BY DEF LockSteps
    <3>4. /\ connections' = Taken(connections)
          /\ index' = [index EXCEPT ![t][l] = connections.top - 1]
          /\ conn' = [conn EXCEPT ![t][l] = copy]
          /\ pc' = [pc EXCEPT ![t][l] = step]
          /\ lock' = NoThread
          /\ UNCHANGED <<depth, msg, access>>
      BY <1>6, <2>1 DEF TakeConnection, Goto
    <3> HIDE DEF c, valid, copy, step
    <3> QED
      BY <3>1, <3>2, <3>3, <3>4, SetLevel DEF SpmTypeOK
  <2>2. CASE ~CanTake(connections)
    BY <1>6, <2>2, ResumeType DEF TakeConnection, SpmTypeOK
  <2> QED
    BY <2>1, <2>2
<1>7. CASE TakeBusy(t, l)
  BY <1>7, ResumeType DEF TakeBusy, SpmTypeOK
<1>8. ASSUME NEW n \in Written, EndClosure(t, l, n) PROVE SpmTypeOK'
  <2>1. conn[t][l] \in Connection
    BY <1>8 DEF EndClosure, At, Carries, SpmTypeOK
  <2>2. Ended(conn[t][l], access[t][l], n) \in Connection
    BY <2>1, EndedType
  <2>3. conn' = [conn EXCEPT ![t][l] = Ended(conn[t][l], access[t][l], n)]
    BY <1>8 DEF EndClosure, SpmTypeOK
  <2> QED
    BY <1>8, <2>2, <2>3, SetLevel DEF EndClosure, Goto, SpmTypeOK, LockSteps
<1>9. CASE RestoreConnection(t, l)
  <2>1. Restored(connections, index[t][l], conn[t][l]) \in StackOf(Connection)
    <3>1. conn[t][l] \in Connection /\ index[t][l] \in Slots
      BY <1>9 DEF RestoreConnection, At, Carries, SpmTypeOK
    <3> QED
      BY <3>1, StackType DEF SpmTypeOK
  <2> QED
    BY <1>9, <2>1, ResumeType DEF RestoreConnection, SpmTypeOK
<1>10. CASE RestoreBusy(t, l)
  BY <1>10, ResumeType DEF RestoreBusy, SpmTypeOK
<1>11. CASE ServiceReturns(t, l)
  BY <1>11 DEF ServiceReturns, Goto, SpmTypeOK, LockSteps
<1>12. CASE PopConnection(t, l)
  <2>1. Popped(connections) \in StackOf(Connection)
    BY MaxConnectionsAssumption DEF SpmTypeOK, StackOf, Slots, Popped
  <2> QED
    BY <1>12, <2>1, LeaveType DEF PopConnection, SpmTypeOK
<1>13. CASE PopBusy(t, l)
  BY <1>13, LeaveType DEF PopBusy, SpmTypeOK
<1> QED
  BY <1>1, <1>2, <1>3, <1>4, <1>5, <1>6, <1>7, <1>8, <1>9, <1>10, <1>11, <1>12, <1>13
  DEF SpmStep, ServiceStep, TopCall, NestedCall

------------------------------------------------------------------------------
(* The invariant. *)

\* Reading a level that was set, and the ones that were not.
LEMMA ReadLevel ==
    ASSUME NEW S, NEW f \in [Threads -> [Levels -> S]],
           NEW t \in Threads, NEW l \in Levels, NEW v,
           NEW u \in Threads, NEW k \in Levels
    PROVE  [f EXCEPT ![t][l] = v][u][k] = IF u = t /\ k = l THEN v ELSE f[u][k]
OBVIOUS

\* A thread with a level is the client inside; the others have none.
LEMMA OnlyOneCalls ==
    ASSUME TypeOK, Inv, NEW t \in Threads, depth[t] > 0
    PROVE  /\ stage[t] = "calling"
           /\ connections.top = Height(t)
           /\ \A u \in Threads \ {t} :
                /\ stage[u] = "ns"
                /\ depth[u] = 0
                /\ lock # u
                /\ \A k \in Levels : pc[u][k] = "idle"
<1>1. stage[t] = "calling"
  BY DEF Inv, Gate
<1>2. ASSUME NEW u \in Threads \ {t}
      PROVE  stage[u] = "ns" /\ depth[u] = 0 /\ lock # u
  BY <1>1 DEF Inv, Gate, Holder
<1>3. ASSUME NEW u \in Threads \ {t}, NEW k \in Levels PROVE pc[u][k] = "idle"
  BY <1>2 DEF Inv, Chain, Levels
<1> QED
  BY <1>1, <1>2, <1>3 DEF Inv, StackHeight

\* The deepest level of t moves to another step without touching the stack.
LEMMA MoveKeepsInv ==
    ASSUME TypeOK, Inv, NEW t \in Threads, NEW l \in Levels, l = depth[t],
           NEW to \in {"run", "take", "body", "restore", "pop"},
           pc' = [pc EXCEPT ![t][l] = to],
           UNCHANGED <<depth, msg, stage, inSecureState>>,
           lock' = t => to \in LockSteps,
           lock' \in {t, NoThread},
           connections'.top = connections.top,
           pc[t][l] # "add",
           \A i \in Slots : i # l - 1 => connections'.slots[i] = connections.slots[i],
           \A u \in Threads, k \in Levels : <<u, k>> # <<t, l>> =>
                conn'[u][k] = conn[u][k] /\ index'[u][k] = index[u][k],
           to \in {"body", "restore"} =>
                /\ connections'.slots[l - 1] = Absent
                /\ Belongs(conn'[t][l], msg'[t][l], t, l)
                /\ index'[t][l] = l - 1,
           to \in {"run", "take", "pop"} => Belongs(connections'.slots[l - 1], msg'[t][l], t, l)
    PROVE  Inv'
<1>1. l > 0 /\ l \in Nat /\ depth[t] > 0
  BY DEF Levels
<1>2. \A u \in Threads, k \in Levels :
        pc'[u][k] = IF u = t /\ k = l THEN to ELSE pc[u][k]
  BY ReadLevel DEF TypeOK, SpmTypeOK
<1>3. /\ stage[t] = "calling" /\ connections.top = l
      /\ \A u \in Threads \ {t} : /\ stage[u] = "ns" /\ depth[u] = 0
                                 /\ \A k \in Levels : pc[u][k] = "idle"
  BY <1>1, OnlyOneCalls DEF Height
<1>4. Gate'
  BY DEF Inv, Gate
<1>5. Holder'
  BY <1>1, <1>2, SpmFnAssumption DEF Holder
<1>6. Chain'
  BY <1>2 DEF Inv, Chain
<1>7. StackHeight'
  <2>1. \A u \in Threads : stage[u] = "calling" => u = t
    BY <1>3
  <2>2. Height(t)' = l
    BY <1>1, <1>2 DEF Height
  <2>3. \A i \in Slots : i >= l => connections'.slots[i] = Absent
    BY <1>1, <1>3 DEF Inv, StackHeight, Slots
  <2> QED
    BY <1>3, <2>1, <2>2, <2>3 DEF StackHeight
<1>8. Ownership'
  <2>1. ASSUME NEW u \in Threads, NEW k \in Levels, u # t \/ k # l
        PROVE  /\ pc'[u][k] = pc[u][k]
               /\ conn'[u][k] = conn[u][k] /\ index'[u][k] = index[u][k]
               /\ pc[u][k] # "idle" =>
                    u = t /\ k < l /\ connections'.slots[k - 1] = connections.slots[k - 1]
    <3>1. pc'[u][k] = pc[u][k] /\ conn'[u][k] = conn[u][k] /\ index'[u][k] = index[u][k]
      BY <1>2, <2>1
    <3>2. ASSUME pc[u][k] # "idle" PROVE u = t /\ k < l
      BY <1>3, <2>1, <3>2 DEF Inv, Chain, Levels, TypeOK, SpmTypeOK
    <3>3. k < l => k - 1 \in Slots /\ k - 1 # l - 1
      BY MaxConnectionsAssumption DEF Levels, Slots, MaxDepth
    <3> QED
      BY <3>1, <3>2, <3>3
  <2> SUFFICES ASSUME NEW u \in Threads, NEW k \in Levels
               PROVE  /\ pc'[u][k] = "add" => Belongs(conn'[u][k], msg'[u][k], u, k)
                      /\ pc'[u][k] \in {"body", "restore"} =>
                          /\ connections'.slots[k - 1] = Absent
                          /\ Belongs(conn'[u][k], msg'[u][k], u, k)
                          /\ index'[u][k] = k - 1
                      /\ pc'[u][k] \in {"run", "take", "pop"} =>
                          Belongs(connections'.slots[k - 1], msg'[u][k], u, k)
    BY DEF Ownership, Belongs
  <2>2. CASE u = t /\ k = l
    BY <1>2, <2>2
  <2>3. CASE u # t \/ k # l
    BY <2>1, <2>3 DEF Inv, Ownership
  <2> QED
    BY <2>2, <2>3
<1> QED
  BY <1>4, <1>5, <1>6, <1>7, <1>8 DEF Inv

\* The deepest level of t ends: refused by a full stack before it got on, or
\* popped off after its service returned.
LEMMA LeaveKeepsInv ==
    ASSUME TypeOK, Inv, NEW t \in Threads, NEW l \in Levels, l = depth[t],
           Leave(t, l), lock' = NoThread,
           UNCHANGED <<index, stage, inSecureState>>,
           \/ pc[t][l] = "add" /\ UNCHANGED connections
           \/ pc[t][l] = "pop" /\ connections' = Popped(connections)
    PROVE  Inv'
<1>1. l > 0 /\ l \in Nat /\ depth[t] > 0
  BY DEF Levels
<1>2. /\ \A u \in Threads, k \in Levels :
            /\ pc'[u][k] = IF u = t /\ k = l THEN "idle" ELSE pc[u][k]
            /\ u # t \/ k # l => conn'[u][k] = conn[u][k] /\ msg'[u][k] = msg[u][k]
      /\ \A u \in Threads : depth'[u] = IF u = t THEN l - 1 ELSE depth[u]
  BY ReadLevel DEF Leave, TypeOK, SpmTypeOK
<1>3. /\ stage[t] = "calling"
      /\ connections.top = Height(t)
      /\ \A u \in Threads \ {t} : /\ stage[u] = "ns" /\ depth[u] = 0
                                 /\ \A k \in Levels : pc[u][k] = "idle"
  BY <1>1, OnlyOneCalls
<1>4. /\ connections'.top = l - 1
      /\ \A i \in Slots : connections'.slots[i] =
            IF i < l - 1 THEN connections.slots[i] ELSE Absent
  <2>1. CASE pc[t][l] = "add" /\ UNCHANGED connections
    <3>1. connections.top = l - 1
      BY <1>1, <1>3, <2>1 DEF Height
    <3>2. \A i \in Slots : ~(i < l - 1) => i >= connections.top
      BY <1>1, <3>1 DEF Slots
    <3> QED
      BY <2>1, <3>1, <3>2 DEF Inv, StackHeight
  <2>2. CASE pc[t][l] = "pop" /\ connections' = Popped(connections)
    <3>1. connections.top = l
      BY <1>1, <1>3, <2>2 DEF Height
    <3>2. /\ connections' = [slots |-> [connections.slots EXCEPT ![l - 1] = Absent],
                             top |-> l - 1]
          /\ connections.slots \in [Slots -> Connection \cup {Absent}]
      BY <1>1, <2>2, <3>1 DEF Popped, TypeOK, SpmTypeOK, StackOf
    <3>3. \A i \in Slots : ~(i < l - 1) => i = l - 1 \/ i >= connections.top
      BY <1>1, <3>1 DEF Slots
    <3>4. \A i \in Slots : i < l - 1 => i # l - 1
      BY <1>1 DEF Slots
    <3> QED
      BY <3>2, <3>3, <3>4 DEF Inv, StackHeight
  <2> QED
    BY <2>1, <2>2
<1>5. Gate'
  BY <1>2, <1>3 DEF Inv, Gate
<1>6. Holder'
  BY SpmFnAssumption DEF Holder
<1>7. Chain'
  BY <1>1, <1>2 DEF Inv, Chain, Levels, TypeOK, SpmTypeOK
<1>8. StackHeight'
  <2>1. Height(t)' = l - 1
    <3>1. CASE l = 1
      BY <1>2, <3>1 DEF Height
    <3>2. CASE l > 1
      <4>1. l - 1 \in Levels /\ l - 1 < depth[t]
        BY <3>2, MaxConnectionsAssumption DEF Levels, MaxDepth
      <4>2. pc[t][l - 1] \in {"run", "body"}
        BY <4>1 DEF Inv, Chain
      <4> QED
        BY <1>1, <1>2, <4>1, <4>2 DEF Height
    <3> QED
      BY <1>1, <3>1, <3>2
  <2>2. \A u \in Threads : stage[u] = "calling" => u = t
    BY <1>3
  <2>3. \A i \in Slots : i >= l - 1 => ~(i < l - 1)
    BY <1>1 DEF Slots
  <2> QED
    BY <1>3, <1>4, <2>1, <2>2, <2>3 DEF StackHeight
<1>9. Ownership'
  <2> SUFFICES ASSUME NEW u \in Threads, NEW k \in Levels, pc'[u][k] # "idle"
               PROVE  /\ pc'[u][k] = "add" => Belongs(conn'[u][k], msg'[u][k], u, k)
                      /\ pc'[u][k] \in {"body", "restore"} =>
                          /\ connections'.slots[k - 1] = Absent
                          /\ Belongs(conn'[u][k], msg'[u][k], u, k)
                          /\ index'[u][k] = k - 1
                      /\ pc'[u][k] \in {"run", "take", "pop"} =>
                          Belongs(connections'.slots[k - 1], msg'[u][k], u, k)
    BY DEF Ownership, Belongs
  <2>1. u = t /\ k < l /\ pc'[u][k] = pc[u][k] /\ pc[u][k] \in {"run", "body"}
    BY <1>2, <1>3 DEF Inv, Chain, Levels, TypeOK, SpmTypeOK
  <2>2. /\ k - 1 \in Slots /\ k - 1 < l - 1
        /\ connections'.slots[k - 1] = connections.slots[k - 1]
    BY <1>4, <2>1, MaxConnectionsAssumption DEF Levels, Slots, MaxDepth
  <2>3. conn'[u][k] = conn[u][k] /\ msg'[u][k] = msg[u][k] /\ index'[u][k] = index[u][k]
    BY <1>2, <2>1
  <2> QED
    BY <2>1, <2>2, <2>3 DEF Inv, Ownership, Belongs
<1> QED
  BY <1>5, <1>6, <1>7, <1>8, <1>9 DEF Inv

\* A call is built on top of the chain of t, by the client that enters or by
\* the service (or access closure) that runs.
LEMMA CallKeepsInv ==
    ASSUME TypeOK, Inv, NEW t \in Threads, NEW k, k = depth[t] + 1, NEW h \in Handles,
           NEW ins \in [VecIdx -> Sizes], NEW outs \in [VecIdx -> Sizes],
           Call(t, h, ins, outs), UNCHANGED inSecureState,
           \/ /\ depth[t] > 0 /\ pc[t][depth[t]] \in {"run", "body"}
              /\ UNCHANGED stage
           \/ /\ depth[t] = 0 /\ stage[t] = "entered"
              /\ stage' = [stage EXCEPT ![t] = "calling"]
    PROVE  Inv'
<1> DEFINE new == NewConnection(<<t, k>>, h, ins, outs)
<1>1. k \in Levels /\ k \in Nat /\ depth[t] \in Nat /\ depth[t] < k
  BY DEF Call, Levels, TypeOK, SpmTypeOK
<1>2. new \in Connection /\ new.owner = <<t, k>> /\ new.handle = h
  BY <1>1, NewConnectionType
<1>3. /\ \A u \in Threads, j \in Levels :
            /\ pc'[u][j] = IF u = t /\ j = k THEN "add" ELSE pc[u][j]
            /\ conn'[u][j] = IF u = t /\ j = k THEN new ELSE conn[u][j]
            /\ msg'[u][j] = IF u = t /\ j = k THEN h ELSE msg[u][j]
      /\ \A u \in Threads : depth'[u] = IF u = t THEN k ELSE depth[u]
      /\ UNCHANGED <<connections, lock, index>>
  BY <1>1, <1>2, ReadLevel DEF Call, Goto, TypeOK, SpmTypeOK
<1> HIDE DEF new
<1>4. /\ stage'[t] = "calling"
      /\ connections.top = depth[t]
      /\ \A u \in Threads \ {t} : /\ stage[u] = "ns" /\ stage'[u] = "ns" /\ depth[u] = 0
                                 /\ \A j \in Levels : pc[u][j] = "idle"
  <2>1. CASE depth[t] > 0
    BY <2>1, OnlyOneCalls DEF Height
  <2>2. CASE depth[t] = 0
    <3>1. /\ stage[t] = "entered"
          /\ stage' = [stage EXCEPT ![t] = "calling"]
      BY <2>2
    <3>2. \A u \in Threads \ {t} : stage[u] = "ns" /\ depth[u] = 0
      BY <3>1 DEF Inv, Gate
    <3>3. \A u \in Threads \ {t}, j \in Levels : pc[u][j] = "idle"
      BY <3>2 DEF Inv, Chain, Levels
    <3>4. connections.top = 0
      BY <3>1, <3>2 DEF Inv, StackHeight
    <3> QED
      BY <2>2, <3>1, <3>2, <3>3, <3>4 DEF TypeOK
  <2> QED
    BY <2>1, <2>2, <1>1
<1>5. Gate'
  BY <1>1, <1>3, <1>4 DEF Inv, Gate
<1>6. Holder'
  <2>1. \A u \in Threads : lock # u
    <3>1. lock # t
      BY DEF Inv, Holder, LockSteps
    <3> QED
      BY <3>1, <1>4 DEF Inv, Holder
  <2> QED
    BY <1>3, <2>1 DEF Holder
<1>7. Chain'
  <2>1. \A j \in Levels : j < k => (j < depth[t] \/ j = depth[t])
    BY <1>1 DEF Levels
  <2> QED
    BY <1>1, <1>3, <1>4, <2>1 DEF Inv, Chain, Levels
<1>8. StackHeight'
  <2>1. Height(t)' = depth[t]
    BY <1>1, <1>3 DEF Height
  <2>2. \A u \in Threads : stage'[u] = "calling" => u = t
    BY <1>4
  <2> QED
    BY <1>3, <1>4, <2>1, <2>2 DEF Inv, StackHeight
<1>9. Ownership'
  <2>1. ASSUME NEW u \in Threads, NEW j \in Levels, u # t \/ j # k
        PROVE  /\ pc'[u][j] = pc[u][j] /\ conn'[u][j] = conn[u][j]
               /\ msg'[u][j] = msg[u][j] /\ index'[u][j] = index[u][j]
    BY <1>3, <2>1
  <2>2. Belongs(conn'[t][k], msg'[t][k], t, k)
    BY <1>1, <1>2, <1>3, SpmFnAssumption DEF Belongs
  <2> SUFFICES ASSUME NEW u \in Threads, NEW j \in Levels
               PROVE  /\ pc'[u][j] = "add" => Belongs(conn'[u][j], msg'[u][j], u, j)
                      /\ pc'[u][j] \in {"body", "restore"} =>
                          /\ connections'.slots[j - 1] = Absent
                          /\ Belongs(conn'[u][j], msg'[u][j], u, j)
                          /\ index'[u][j] = j - 1
                      /\ pc'[u][j] \in {"run", "take", "pop"} =>
                          Belongs(connections'.slots[j - 1], msg'[u][j], u, j)
    BY DEF Ownership, Belongs
  <2>3. CASE u = t /\ j = k
    BY <1>3, <2>2, <2>3
  <2>4. CASE u # t \/ j # k
    BY <1>3, <2>1, <2>4 DEF Inv, Ownership, Belongs
  <2> QED
    BY <2>3, <2>4
<1> QED
  BY <1>5, <1>6, <1>7, <1>8, <1>9 DEF Inv

\* The connection gets on the stack, in the slot of its level.
LEMMA AddKeepsInv ==
    ASSUME TypeOK, Inv, NEW t \in Threads, NEW l \in Levels,
           AddConnection(t, l), CanAdd(connections), UNCHANGED <<inSecureState, stage>>
    PROVE  Inv'
<1>1. /\ l = depth[t] /\ pc[t][l] = "add" /\ l > 0 /\ l \in Nat
      /\ lock' = NoThread
      /\ connections' = Added(connections, conn[t][l])
      /\ UNCHANGED <<depth, msg, index>>
  BY DEF AddConnection, At, Levels
<1>2. \A u \in Threads, k \in Levels :
        /\ pc'[u][k] = IF u = t /\ k = l THEN "run" ELSE pc[u][k]
        /\ conn'[u][k] = IF u = t /\ k = l THEN Absent ELSE conn[u][k]
  BY ReadLevel DEF AddConnection, Goto, TypeOK, SpmTypeOK
<1>3. /\ stage[t] = "calling" /\ connections.top = l - 1
      /\ \A u \in Threads \ {t} : /\ stage[u] = "ns" /\ depth[u] = 0
                                 /\ \A k \in Levels : pc[u][k] = "idle"
  BY <1>1, OnlyOneCalls DEF Height
<1>4. /\ connections'.top = l
      /\ l - 1 \in Slots
      /\ \A i \in Slots : connections'.slots[i] =
            IF i = l - 1 THEN conn[t][l] ELSE connections.slots[i]
  <2>1. /\ connections.top \in 0 .. MaxConnections
        /\ connections.slots \in [Slots -> Connection \cup {Absent}]
    BY DEF TypeOK, SpmTypeOK, StackOf
  <2>2. l - 1 \in Slots
    BY <1>1, <1>3, <2>1, MaxConnectionsAssumption DEF CanAdd, Slots
  <2>3. connections' = [slots |-> [connections.slots EXCEPT ![l - 1] = conn[t][l]], top |-> l]
    BY <1>1, <1>3 DEF Added
  <2> QED
    BY <2>1, <2>2, <2>3
<1>5. Gate'
  BY <1>1 DEF Inv, Gate
<1>6. Holder'
  BY <1>1, SpmFnAssumption DEF Holder
<1>7. Chain'
  BY <1>1, <1>2 DEF Inv, Chain
<1>8. StackHeight'
  <2>1. Height(t)' = l
    BY <1>1, <1>2 DEF Height
  <2>2. \A u \in Threads : stage[u] = "calling" => u = t
    BY <1>3
  <2>3. \A i \in Slots : i >= l => i # l - 1 /\ i >= connections.top
    BY <1>1, <1>3 DEF Slots
  <2> QED
    BY <1>3, <1>4, <2>1, <2>2, <2>3 DEF Inv, StackHeight
<1>9. Ownership'
  <2>1. ASSUME NEW u \in Threads, NEW k \in Levels, u # t \/ k # l
        PROVE  /\ pc'[u][k] = pc[u][k] /\ conn'[u][k] = conn[u][k]
               /\ pc[u][k] # "idle" =>
                    connections'.slots[k - 1] = connections.slots[k - 1]
    <3>1. pc'[u][k] = pc[u][k] /\ conn'[u][k] = conn[u][k]
      BY <1>2, <2>1
    <3>2. ASSUME pc[u][k] # "idle" PROVE k < l
      BY <1>1, <1>3, <2>1, <3>2 DEF Inv, Chain, Levels, TypeOK, SpmTypeOK
    <3>3. k < l => k - 1 \in Slots /\ k - 1 # l - 1
      BY MaxConnectionsAssumption DEF Levels, Slots, MaxDepth
    <3> QED
      BY <1>4, <3>1, <3>2, <3>3
  <2> SUFFICES ASSUME NEW u \in Threads, NEW k \in Levels
               PROVE  /\ pc'[u][k] = "add" => Belongs(conn'[u][k], msg'[u][k], u, k)
                      /\ pc'[u][k] \in {"body", "restore"} =>
                          /\ connections'.slots[k - 1] = Absent
                          /\ Belongs(conn'[u][k], msg'[u][k], u, k)
                          /\ index'[u][k] = k - 1
                      /\ pc'[u][k] \in {"run", "take", "pop"} =>
                          Belongs(connections'.slots[k - 1], msg'[u][k], u, k)
    BY DEF Ownership, Belongs
  <2>2. CASE u = t /\ k = l
    BY <1>1, <1>2, <1>4, <2>2 DEF Inv, Ownership
  <2>3. CASE u # t \/ k # l
    BY <1>1, <2>1, <2>3 DEF Inv, Ownership
  <2> QED
    BY <2>2, <2>3
<1> QED
  BY <1>5, <1>6, <1>7, <1>8, <1>9 DEF Inv

\* What a running level has on the stack, and who can hold the mutex.
LEMMA RunningLevel ==
    ASSUME TypeOK, Inv, NEW t \in Threads, NEW l \in Levels, l = depth[t]
    PROVE  /\ l > 0 /\ ~Busy(t)
           /\ pc[t][l] # "add" => connections.top = l /\ l - 1 \in Slots
           /\ pc[t][l] = "add" => connections.top = l - 1
<1>1. l > 0 /\ l \in Nat
  BY DEF Levels
<1>2. connections.top = Height(t) /\ \A u \in Threads \ {t} : lock # u
  BY <1>1, OnlyOneCalls
<1>3. ~Busy(t)
  BY <1>2 DEF Busy, TypeOK, SpmTypeOK
<1>4. pc[t][l] # "add" => connections.top = l
  BY <1>1, <1>2 DEF Height
<1>5. pc[t][l] # "add" => l - 1 \in Slots
  <2>1. connections.top \in 0 .. MaxConnections
    BY DEF TypeOK, SpmTypeOK, StackOf
  <2> QED
    BY <1>1, <1>4, <2>1, MaxConnectionsAssumption DEF Slots
<1> QED
  BY <1>1, <1>2, <1>3, <1>4, <1>5 DEF Height

\* The steps of the dispatcher keep the invariant; none meets a busy mutex.
LEMMA SpmStepKeepsInv ==
    ASSUME TypeOK, Inv, NEW t \in Threads, NEW l \in Levels,
           SpmStep(t, l), UNCHANGED <<inSecureState, stage>>
    PROVE  Inv'
<1>1. l = depth[t]
  BY DEF SpmStep, TryLock, AddConnection, AddBusy, TakeConnection, TakeBusy,
         RestoreConnection, RestoreBusy, PopConnection, PopBusy, At
<1>2. /\ l > 0 /\ l \in Nat /\ ~Busy(t)
      /\ pc[t][l] # "add" => connections.top = l /\ l - 1 \in Slots
  BY <1>1, RunningLevel DEF Levels
<1>3. CASE TryLock(t, l)
  <2>1. Gate' /\ Chain' /\ StackHeight'
    BY <1>3 DEF TryLock, Inv, Gate, Chain, StackHeight, Height
  <2>2. Holder'
    BY <1>1, <1>2, <1>3 DEF TryLock, Holder
  <2>3. Ownership'
    BY <1>3 DEF TryLock, Inv, Ownership, Belongs
  <2> QED
    BY <2>1, <2>2, <2>3 DEF Inv
<1>4. CASE AddConnection(t, l)
  <2>1. CASE CanAdd(connections)
    BY <1>4, <2>1, AddKeepsInv
  <2>2. CASE ~CanAdd(connections)
    <3>1. /\ Leave(t, l) /\ lock' = NoThread /\ pc[t][l] = "add"
          /\ UNCHANGED <<connections, index, stage, inSecureState>>
      BY <1>4, <2>2 DEF AddConnection, At
    <3> QED
      BY <1>1, <3>1, LeaveKeepsInv
  <2> QED
    BY <2>1, <2>2
<1>5. CASE TakeConnection(t, l)
  <2> DEFINE c == Active(connections)
  <2>1. /\ pc[t][l] = "take" /\ lock' = NoThread
        /\ Belongs(connections.slots[l - 1], msg[t][l], t, l)
    BY <1>5 DEF TakeConnection, At, Inv, Ownership
  <2>2. CanTake(connections) /\ c = connections.slots[l - 1]
    BY <1>2, <2>1 DEF CanTake, Active, Belongs
  <2>3. c \in Connection /\ c.handle = msg[t][l] /\ c.owner = <<t, l>>
    BY <1>2, <2>1, <2>2 DEF Belongs, TypeOK, SpmTypeOK, StackOf
  <2> DEFINE copy == Begun(c, access[t][l])
             to == IF CanBegin(c, access[t][l]) THEN "body" ELSE "restore"
  <2>4. /\ connections' = Taken(connections)
        /\ index' = [index EXCEPT ![t][l] = connections.top - 1]
        /\ conn' = [conn EXCEPT ![t][l] = copy]
        /\ pc' = [pc EXCEPT ![t][l] = to]
        /\ UNCHANGED <<depth, msg>>
    BY <1>5, <2>2, <2>3 DEF TakeConnection, Goto
  <2>5. copy \in Connection /\ copy.owner = <<t, l>> /\ copy.handle = msg[t][l]
    BY <2>3, BegunType
  <2>6. Belongs(copy, msg'[t][l], t, l)
    BY <2>4, <2>5, SpmFnAssumption DEF Belongs
  <2>7. to \in {"body", "restore"}
    OBVIOUS
  <2> HIDE DEF c, copy, to
  <2>8. /\ connections'.top = connections.top
        /\ \A i \in Slots : i # l - 1 => connections'.slots[i] = connections.slots[i]
        /\ connections'.slots[l - 1] = Absent
    BY <1>2, <2>1, <2>4 DEF Taken, TypeOK, SpmTypeOK, StackOf
  <2>9. /\ conn'[t][l] = copy /\ index'[t][l] = l - 1
        /\ \A u \in Threads, k \in Levels : <<u, k>> # <<t, l>> =>
                conn'[u][k] = conn[u][k] /\ index'[u][k] = index[u][k]
    BY <1>2, <2>1, <2>4, ReadLevel DEF TypeOK, SpmTypeOK
  <2>10. lock' # t
    BY <2>1, SpmFnAssumption
  <2> QED
    BY <1>1, <2>1, <2>4, <2>6, <2>7, <2>8, <2>9, <2>10, MoveKeepsInv
<1>6. CASE RestoreConnection(t, l)
  <2>1. /\ pc[t][l] = "restore" /\ lock' = NoThread
        /\ connections.slots[l - 1] = Absent
        /\ Belongs(conn[t][l], msg[t][l], t, l)
        /\ index[t][l] = l - 1
        /\ UNCHANGED <<depth, msg>>
        /\ pc' = [pc EXCEPT ![t][l] = "run"]
    BY <1>6 DEF RestoreConnection, At, Inv, Ownership, Resume, Goto
  <2>2. connections' = Restored(connections, l - 1, conn[t][l])
    BY <1>2, <1>6, <2>1 DEF RestoreConnection, CanRestore
  <2>3. /\ connections'.top = connections.top
        /\ \A i \in Slots : i # l - 1 => connections'.slots[i] = connections.slots[i]
        /\ connections'.slots[l - 1] = conn[t][l]
    BY <1>2, <2>1, <2>2 DEF Restored, TypeOK, SpmTypeOK, StackOf
  <2>4. \A u \in Threads, k \in Levels : <<u, k>> # <<t, l>> =>
            conn'[u][k] = conn[u][k] /\ index'[u][k] = index[u][k]
    BY <1>6, ReadLevel DEF RestoreConnection, Resume, TypeOK, SpmTypeOK
  <2>5. lock' # t
    BY <2>1, SpmFnAssumption
  <2>6. Belongs(connections'.slots[l - 1], msg'[t][l], t, l)
    BY <2>1, <2>3
  <2> QED
    BY <1>1, <2>1, <2>3, <2>4, <2>5, <2>6, MoveKeepsInv
<1>7. CASE PopConnection(t, l)
  <2>1. /\ Leave(t, l) /\ lock' = NoThread /\ pc[t][l] = "pop"
        /\ connections' = Popped(connections)
        /\ UNCHANGED <<index, stage, inSecureState>>
    BY <1>7 DEF PopConnection, At
  <2> QED
    BY <1>1, <2>1, LeaveKeepsInv
<1>8. ~AddBusy(t, l) /\ ~TakeBusy(t, l) /\ ~RestoreBusy(t, l) /\ ~PopBusy(t, l)
  BY <1>2 DEF AddBusy, TakeBusy, RestoreBusy, PopBusy
<1> QED
  BY <1>3, <1>4, <1>5, <1>6, <1>7, <1>8 DEF SpmStep

\* So do the steps of the services.
LEMMA ServiceStepKeepsInv ==
    ASSUME TypeOK, Inv, NEW t \in Threads, NEW l \in Levels,
           ServiceStep(t, l), UNCHANGED <<inSecureState, stage>>
    PROVE  Inv'
<1>1. ASSUME NEW h \in Handles, NEW ins \in [VecIdx -> Sizes],
             NEW outs \in [VecIdx -> Sizes], NestedCall(t, l, h, ins, outs)
      PROVE  Inv'
  <2>1. depth[t] > 0 /\ pc[t][depth[t]] \in {"run", "body"} /\ Call(t, h, ins, outs)
    BY <1>1 DEF NestedCall, At, Levels
  <2> QED
    BY <2>1, CallKeepsInv
<1>2. ASSUME NEW a \in Accesses, Access(t, l, a) PROVE Inv'
  <2>1. /\ l = depth[t] /\ pc[t][l] = "run"
        /\ pc' = [pc EXCEPT ![t][l] = "take"]
        /\ UNCHANGED <<connections, lock, depth, msg, conn, index>>
    BY <1>2 DEF Access, At, Goto
  <2>2. lock \in {t, NoThread} /\ Belongs(connections.slots[l - 1], msg[t][l], t, l)
    BY <2>1, RunningLevel DEF Busy, Inv, Ownership
  <2> QED
    BY <2>1, <2>2, MoveKeepsInv DEF LockSteps
<1>3. ASSUME NEW n \in Written, EndClosure(t, l, n) PROVE Inv'
  <2>1. /\ l = depth[t] /\ pc[t][l] = "body"
        /\ pc' = [pc EXCEPT ![t][l] = "restore"]
        /\ conn' = [conn EXCEPT ![t][l] = Ended(conn[t][l], access[t][l], n)]
        /\ UNCHANGED <<connections, lock, depth, msg, index>>
    BY <1>3 DEF EndClosure, At, Goto, TypeOK, SpmTypeOK
  <2>2. /\ lock \in {t, NoThread} /\ connections.slots[l - 1] = Absent
        /\ Belongs(conn[t][l], msg[t][l], t, l) /\ index[t][l] = l - 1
    BY <2>1, RunningLevel DEF Busy, Inv, Ownership
  <2>3. conn[t][l] \in Connection
    BY <2>2 DEF Belongs, TypeOK, SpmTypeOK
  <2>4. Belongs(Ended(conn[t][l], access[t][l], n), msg[t][l], t, l)
    BY <2>2, <2>3, EndedType, SpmFnAssumption DEF Belongs
  <2>5. \A u \in Threads, k \in Levels :
            conn'[u][k] = IF u = t /\ k = l THEN Ended(conn[t][l], access[t][l], n)
                          ELSE conn[u][k]
    BY <2>1, ReadLevel DEF TypeOK, SpmTypeOK
  <2>6. /\ connections'.slots[l - 1] = Absent
        /\ Belongs(conn'[t][l], msg'[t][l], t, l)
        /\ index'[t][l] = l - 1
    BY <2>1, <2>2, <2>4, <2>5
  <2>7. \A u \in Threads, k \in Levels : <<u, k>> # <<t, l>> =>
            conn'[u][k] = conn[u][k] /\ index'[u][k] = index[u][k]
    BY <2>1, <2>5
  <2>8. lock' \in {t, NoThread} /\ connections'.top = connections.top
    BY <2>1, <2>2
  <2> QED
    BY <2>1, <2>6, <2>7, <2>8, MoveKeepsInv DEF LockSteps
<1>4. CASE ServiceReturns(t, l)
  <2>1. /\ l = depth[t] /\ pc[t][l] = "run"
        /\ pc' = [pc EXCEPT ![t][l] = "pop"]
        /\ UNCHANGED <<connections, lock, depth, msg, conn, index>>
    BY <1>4 DEF ServiceReturns, At, Goto
  <2>2. lock \in {t, NoThread} /\ Belongs(connections.slots[l - 1], msg[t][l], t, l)
    BY <2>1, RunningLevel DEF Busy, Inv, Ownership
  <2> QED
    BY <2>1, <2>2, MoveKeepsInv DEF LockSteps
<1> QED
  BY <1>1, <1>2, <1>3, <1>4 DEF ServiceStep

\* The veneers move one client in and out.
LEMMA GateKeepsInv ==
    ASSUME TypeOK, Inv, NEW t \in Threads,
           \/ EnterSecureState(t)
           \/ Answer(t)
           \/ PsaCallReturns(t)
           \/ ExitSecureState(t)
    PROVE  Inv'
<1>1. UNCHANGED spmVars
  BY DEF EnterSecureState, Answer, PsaCallReturns, ExitSecureState
<1>2. Holder' /\ Chain' /\ Ownership'
  BY <1>1 DEF spmVars, Inv, Holder, Chain, Ownership, Belongs
<1>3. CASE EnterSecureState(t)
  <2>1. CASE inSecureState
    <3>1. UNCHANGED stage /\ (inSecureState' <=> inSecureState)
      BY <1>3, <2>1 DEF EnterSecureState
    <3>2. Gate' /\ StackHeight'
      BY <1>1, <3>1 DEF spmVars, Inv, Gate, StackHeight, Height
    <3> QED
      BY <1>2, <3>2 DEF Inv
  <2>2. CASE ~inSecureState
    <3>1. \A u \in Threads : stage'[u] = IF u = t THEN "entered" ELSE "ns"
      BY <1>3, <2>2 DEF EnterSecureState, Inv, Gate, TypeOK
    <3>2. \A u \in Threads : stage[u] # "calling"
      BY <2>2 DEF Inv, Gate
    <3>3. Gate'
      BY <1>1, <1>3, <3>1, <3>2 DEF EnterSecureState, spmVars, Inv, Gate
    <3>4. StackHeight'
      BY <1>1, <3>1, <3>2 DEF spmVars, Inv, StackHeight
    <3> QED
      BY <1>2, <3>3, <3>4 DEF Inv
  <2> QED
    BY <1>2, <2>1, <2>2 DEF Inv
<1>4. CASE Answer(t) \/ PsaCallReturns(t)
  <2>1. /\ \A u \in Threads : stage'[u] = IF u = t THEN "leaving" ELSE stage[u]
        /\ stage[t] # "ns" /\ depth[t] = 0
        /\ UNCHANGED inSecureState
    BY <1>4 DEF Answer, PsaCallReturns, Inv, Gate, TypeOK
  <2>2. \A u \in Threads : stage'[u] # "calling"
    BY <2>1 DEF Inv, Gate
  <2>3. connections.top = 0
    <3>1. CASE stage[t] = "calling"
      BY <2>1, <3>1 DEF Inv, StackHeight, Height
    <3>2. CASE stage[t] # "calling"
      <4>1. \A u \in Threads : stage[u] # "calling"
        BY <2>1, <2>2, <3>2
      <4> QED
        BY <4>1 DEF Inv, StackHeight
    <3> QED
      BY <3>1, <3>2
  <2>4. Gate'
    BY <1>1, <2>1 DEF spmVars, Inv, Gate
  <2>5. StackHeight'
    BY <1>1, <2>2, <2>3 DEF spmVars, Inv, StackHeight
  <2> QED
    BY <1>2, <2>4, <2>5 DEF Inv
<1>5. CASE ExitSecureState(t)
  <2>1. /\ \A u \in Threads : stage'[u] = "ns" /\ stage[u] # "calling"
        /\ inSecureState' = FALSE
    BY <1>5 DEF ExitSecureState, Inv, Gate, TypeOK
  <2>2. \A u \in Threads : depth[u] = 0
    BY <2>1 DEF Inv, Gate
  <2>3. Gate'
    BY <1>1, <2>1, <2>2 DEF spmVars, Gate
  <2>4. StackHeight'
    BY <1>1, <2>1 DEF spmVars, Inv, StackHeight
  <2> QED
    BY <1>2, <2>3, <2>4 DEF Inv
<1> QED
  BY <1>3, <1>4, <1>5

\* Nobody is inside, and the stack is empty.
LEMMA InitInv == Init => Inv
<1> SUFFICES ASSUME Init PROVE Inv
  OBVIOUS
<1>1. /\ \A t \in Threads : stage[t] = "ns" /\ depth[t] = 0
      /\ \A t \in Threads, l \in Levels : pc[t][l] = "idle"
      /\ lock = NoThread /\ inSecureState = FALSE
      /\ connections.top = 0
      /\ \A i \in Slots : connections.slots[i] = Absent
  BY DEF Init, SpmInit, EmptyStack
<1>2. \A l \in Levels : l > 0 /\ ~(l < 0)
  BY DEF Levels
<1>3. Gate /\ Holder /\ StackHeight
  BY <1>1, SpmFnAssumption DEF Gate, Holder, StackHeight
<1>4. Chain /\ Ownership
  BY <1>1, <1>2 DEF Chain, Ownership
<1> QED
  BY <1>3, <1>4 DEF Inv

\* Behind the veneers the copy a level has is its own connection.
LEMMA OwnersCarry == Inv => Carries
BY DEF Inv, Ownership, Belongs, Carries

\* Types and invariant together are inductive.
LEMMA StepKeepsInv == TypeOK /\ Inv /\ [Next]_vars => TypeOK' /\ Inv'
<1> SUFFICES ASSUME TypeOK, Inv, [Next]_vars PROVE TypeOK' /\ Inv'
  OBVIOUS
<1>1. CASE UNCHANGED vars
  <2>1. TypeOK'
    BY <1>1 DEF vars, TypeOK, SpmTypeOK
  <2>2. Gate' /\ Holder' /\ Chain' /\ StackHeight' /\ Ownership'
    BY <1>1 DEF vars, Inv, Gate, Holder, Chain, StackHeight, Height, Ownership, Belongs
  <2> QED
    BY <2>1, <2>2 DEF Inv
<1>2. ASSUME NEW t \in Threads,
             EnterSecureState(t) \/ Answer(t) \/ PsaCallReturns(t) \/ ExitSecureState(t)
      PROVE  TypeOK' /\ Inv'
  <2>1. SpmTypeOK'
    BY <1>2 DEF EnterSecureState, Answer, PsaCallReturns, ExitSecureState,
                TypeOK, SpmTypeOK, spmVars
  <2>2. /\ inSecureState' \in BOOLEAN
        /\ stage' \in [Threads -> {"ns", "entered", "calling", "leaving"}]
    BY <1>2 DEF EnterSecureState, Answer, PsaCallReturns, ExitSecureState, TypeOK
  <2> QED
    BY <1>2, <2>1, <2>2, GateKeepsInv DEF TypeOK
<1>3. ASSUME NEW t \in Threads, PsaCall(t) PROVE TypeOK' /\ Inv'
  <2>1. SpmTypeOK'
    <3>1. TopCall(t) /\ 1 \in Levels
      BY <1>3, MaxConnectionsAssumption DEF PsaCall, Levels, MaxDepth
    <3> QED
      BY <3>1, SpmType, OwnersCarry DEF TypeOK
  <2>2. TypeOK'
    BY <1>3, <2>1 DEF PsaCall, TypeOK
  <2>3. PICK h \in Handles, ins, outs \in [VecIdx -> Sizes] :
            depth[t] = 0 /\ Call(t, h, ins, outs)
    BY <1>3 DEF PsaCall, TopCall
  <2>4. /\ stage[t] = "entered" /\ stage' = [stage EXCEPT ![t] = "calling"]
        /\ UNCHANGED inSecureState
    BY <1>3 DEF PsaCall
  <2> QED
    BY <2>2, <2>3, <2>4, CallKeepsInv
<1>4. ASSUME NEW t \in Threads, NEW l \in Levels, Spm(t, l) \/ Service(t, l)
      PROVE  TypeOK' /\ Inv'
  <2>1. /\ SpmStep(t, l) \/ ServiceStep(t, l)
        /\ UNCHANGED <<inSecureState, stage>>
    BY <1>4 DEF Spm, Service
  <2>2. SpmTypeOK'
    BY <2>1, SpmType, OwnersCarry DEF TypeOK
  <2>3. TypeOK'
    BY <2>1, <2>2 DEF TypeOK
  <2> QED
    BY <2>1, <2>3, SpmStepKeepsInv, ServiceStepKeepsInv
<1> QED
  BY <1>1, <1>2, <1>3, <1>4 DEF Next

\* The mirror of call chain and stack is kept by every step of the system.
THEOREM StackMirrorsCalls == Spec => [](TypeOK /\ Inv)
<1>1. Init => TypeOK /\ Inv
  BY InitType, InitInv
<1> QED
  BY <1>1, StepKeepsInv, PTL DEF Spec

------------------------------------------------------------------------------
(* What the runs check, for every value of the constants. *)

\* Every variable keeps its type: top_connection stays within the array and
\* only the built connections get on it.
THEOREM TypeCorrect == Spec => []TypeOK
BY StackMirrorsCalls, PTL

\* Behind the veneers no try_lock of the dispatcher ever finds the mutex
\* taken, so neither a pop nor a copy is lost (spm_fn.rs:48-53, 70-85).
THEOREM MutexNeverBusy == Spec => []NeverBusy
<1>1. TypeOK /\ Inv => NeverBusy
  BY RunningLevel DEF NeverBusy, At
<1> QED
  BY <1>1, StackMirrorsCalls, PTL

\* with_active_connection takes the top of the stack whoever asks, and behind
\* the veneers that is the connection of the asking service's own call.
THEOREM ServiceSeesItsCall == Spec => []OwnConnection
<1>1. TypeOK /\ Inv => OwnConnection
  <2> SUFFICES ASSUME TypeOK, Inv, NEW t \in Threads, NEW l \in Levels
               PROVE  /\ pc[t][l] = "take" /\ lock = t /\ CanTake(connections)
                            => Active(connections).owner = <<t, l>>
                      /\ pc[t][l] \in {"body", "restore"} => conn[t][l].owner = <<t, l>>
    BY DEF OwnConnection
  <2>1. ASSUME pc[t][l] = "take" PROVE Active(connections).owner = <<t, l>>
    <3>1. l = depth[t]
      <4>1. ~(l > depth[t]) /\ ~(l < depth[t])
        BY <2>1 DEF Inv, Chain
      <4> QED
        BY <4>1 DEF Levels, TypeOK, SpmTypeOK
    <3>2. connections.top = l
      BY <2>1, <3>1, RunningLevel
    <3> QED
      BY <2>1, <3>2 DEF Active, Inv, Ownership, Belongs
  <2>2. pc[t][l] \in {"body", "restore"} => conn[t][l].owner = <<t, l>>
    BY DEF Inv, Ownership, Belongs
  <2> QED
    BY <2>1, <2>2
<1> QED
  BY <1>1, StackMirrorsCalls, PTL

\* take_active_connection, the handle check of with_validated_connection and
\* restore_active_connection never fail a service behind the veneers.
THEOREM NoAccessFails == Spec => []AccessFindsConnection
<1>1. TypeOK /\ Inv => AccessFindsConnection
  <2> SUFFICES ASSUME TypeOK, Inv, NEW t \in Threads, NEW l \in Levels, l = depth[t]
               PROVE  /\ pc[t][l] = "take" => /\ CanTake(connections)
                                              /\ Active(connections).owner = <<t, l>>
                                              /\ Active(connections).handle = msg[t][l]
                      /\ pc[t][l] = "restore" => /\ CanRestore(connections, index[t][l])
                                                 /\ index[t][l] = connections.top - 1
                                                 /\ conn[t][l].owner = <<t, l>>
    BY DEF AccessFindsConnection, At
  <2>1. l > 0 /\ (pc[t][l] # "add" => connections.top = l /\ l - 1 \in Slots)
    BY RunningLevel
  <2>2. CASE pc[t][l] = "take"
    BY <2>1, <2>2 DEF CanTake, Active, Inv, Ownership, Belongs
  <2>3. CASE pc[t][l] = "restore"
    BY <2>1, <2>3 DEF CanRestore, Inv, Ownership, Belongs
  <2> QED
    BY <2>2, <2>3
<1> QED
  BY <1>1, StackMirrorsCalls, PTL

\* A client that is not inside a call leaves an empty stack: no connection of
\* an earlier call, finished or refused, stays in the array.
THEOREM NoConnectionStays == Spec => []NothingLeaks
<1>1. TypeOK /\ Inv => NothingLeaks
  <2> SUFFICES ASSUME TypeOK, Inv, \A t \in Threads : stage[t] # "calling"
               PROVE  connections = EmptyStack
    BY DEF NothingLeaks
  <2>1. connections.top = 0 /\ \A i \in Slots : connections.slots[i] = Absent
    <3>1. /\ connections.top = 0
          /\ \A i \in Slots : i >= connections.top => connections.slots[i] = Absent
      BY Zenon DEF Inv, StackHeight
    <3>2. \A i \in Slots : i >= 0
      BY DEF Slots
    <3> QED
      BY <3>1, <3>2
  <2>2. connections.slots = [i \in Slots |-> Absent]
    BY <2>1 DEF TypeOK, SpmTypeOK, StackOf
  <2>3. connections = [slots |-> connections.slots, top |-> connections.top]
    BY DEF TypeOK, SpmTypeOK, StackOf
  <2> QED
    BY <2>1, <2>2, <2>3 DEF EmptyStack
<1> QED
  BY <1>1, StackMirrorsCalls, PTL

------------------------------------------------------------------------------
(* The promise of PsaCalls.  Its calls are the slots in use; a level that  *)
(* works on a copy has the call's connection with it, and its slot is      *)
(* Absent until the copy is back.                                          *)

Calls == [i \in 1 .. connections.top |-> OpenCall(OpenConnection(i - 1))]

Vec == {"in", "out"} \X VecIdx

VecOf(c, v) == IF v[1] = "in" THEN c.invec[v[2]] ELSE c.outvec[v[2]]

\* No vector of c has been handed out.
Unused(c) ==
    \A v \in Vec : /\ ~VecOf(c, v).mapped /\ ~VecOf(c, v).unmapped
                   /\ VecOf(c, v).size \in Written

\* The vectors that a finishes have been handed out.
Prepared(c, a) ==
    /\ \A i \in a.ins \cap VecIdx : c.invec[i].mapped
    /\ \A j \in a.outs \cap VecIdx : c.outvec[j].mapped

\* A connection that waits for its slot is new, and a closure runs only on
\* vectors that were prepared for it.
HandedOut ==
    \A t \in Threads, l \in Levels :
        /\ pc[t][l] = "add" => Unused(conn[t][l])
        /\ pc[t][l] = "body" => Prepared(conn[t][l], access[t][l])

\* A call some of whose vectors are finished with n bytes.
Finished(o, V, n) ==
    [o EXCEPT !.closed = @ \cup V,
              !.size = [v \in Vec |-> IF v \in V /\ v[1] = "out" THEN n ELSE @[v]]]

LEMMA OpenCallIs ==
    ASSUME NEW c
    PROVE  OpenCall(c) = [service |-> c.handle,
                          given |-> {v \in Vec : VecOf(c, v).mapped},
                          closed |-> {v \in Vec : VecOf(c, v).unmapped},
                          size |-> [v \in Vec |-> VecOf(c, v).size]]
BY DEF OpenCall, Vec, VecOf

\* What handing out vectors changes of a call.
LEMMA CallGives ==
    ASSUME NEW s, NEW g, NEW f, NEW z, NEW V, NEW c,
           c = [service |-> s, given |-> g, closed |-> f, size |-> z]
    PROVE  [c EXCEPT !.given = @ \cup V] =
             [service |-> s, given |-> g \cup V, closed |-> f, size |-> z]
OBVIOUS

LEMMA NewConnectionUnused ==
    ASSUME NEW o, NEW h, NEW ins \in [VecIdx -> Sizes], NEW outs \in [VecIdx -> Sizes]
    PROVE  Unused(NewConnection(o, h, ins, outs))
<1>1. Sizes \subseteq Written
  BY IoVecAssumption DEF Written
<1> DEFINE c == NewConnection(o, h, ins, outs)
<1>2. \A i \in VecIdx : /\ ~c.invec[i].mapped /\ ~c.invec[i].unmapped /\ c.invec[i].size \in Written
                        /\ ~c.outvec[i].mapped /\ ~c.outvec[i].unmapped /\ c.outvec[i].size \in Written
  BY <1>1 DEF NewConnection
<1> HIDE DEF c
<1>3. \A v \in Vec : v[1] \in {"in", "out"} /\ v[2] \in VecIdx
  BY DEF Vec
<1>. QED BY <1>2, <1>3 DEF Unused, VecOf, c

\* take_active_connection and the preparations hand out vectors that were not
\* handed out before, and touch nothing else.
LEMMA BegunGives ==
    ASSUME NEW c \in Connection, NEW a
    PROVE  \E V \in SUBSET Vec :
             /\ V \cap OpenCall(c).given = {}
             /\ OpenCall(Begun(c, a)) = [OpenCall(c) EXCEPT !.given = @ \cup V]
<1> DEFINE d == Begun(c, a)
           V == {v \in Vec : VecOf(d, v).mapped /\ ~VecOf(c, v).mapped}
<1>1. /\ d.handle = c.handle
      /\ \A i \in VecIdx : /\ d.invec[i].size = c.invec[i].size
                           /\ d.invec[i].unmapped = c.invec[i].unmapped
                           /\ c.invec[i].mapped => d.invec[i].mapped
                           /\ d.outvec[i].size = c.outvec[i].size
                           /\ d.outvec[i].unmapped = c.outvec[i].unmapped
                           /\ c.outvec[i].mapped => d.outvec[i].mapped
  <2>1. c.invec \in [VecIdx -> InVec] /\ c.outvec \in [VecIdx -> OutVec]
    BY DEF Connection, ConnectionOf
  <2>2. d.handle = c.handle /\ d.invec = MapIn(c, a) /\ d.outvec = MapOut(c, a)
    BY DEF Begun, Connection, ConnectionOf
  <2>3. \A i \in VecIdx : MapIn(c, a)[i] \in {c.invec[i], [c.invec[i] EXCEPT !.mapped = TRUE]}
    BY DEF MapIn
  <2>4. \A i \in VecIdx : MapOut(c, a)[i] \in {c.outvec[i], [c.outvec[i] EXCEPT !.mapped = TRUE]}
    BY DEF MapOut
  <2> HIDE DEF d
  <2>. QED BY <2>1, <2>2, <2>3, <2>4 DEF InVec, OutVec
<1> HIDE DEF d
<1>2. \A v \in Vec : /\ VecOf(d, v).size = VecOf(c, v).size
                     /\ VecOf(d, v).unmapped = VecOf(c, v).unmapped
                     /\ VecOf(c, v).mapped => VecOf(d, v).mapped
  BY <1>1 DEF Vec, VecOf
<1>3. /\ {v \in Vec : VecOf(d, v).mapped} = {v \in Vec : VecOf(c, v).mapped} \cup V
      /\ {v \in Vec : VecOf(d, v).unmapped} = {v \in Vec : VecOf(c, v).unmapped}
      /\ [v \in Vec |-> VecOf(d, v).size] = [v \in Vec |-> VecOf(c, v).size]
  BY <1>2
<1>4. V \in SUBSET Vec /\ V \cap {v \in Vec : VecOf(c, v).mapped} = {}
  OBVIOUS
<1> HIDE DEF V
<1>5. OpenCall(d) = [OpenCall(c) EXCEPT !.given = @ \cup V]
  <2> DEFINE g == {v \in Vec : VecOf(c, v).mapped}
             f == {v \in Vec : VecOf(c, v).unmapped}
             z == [v \in Vec |-> VecOf(c, v).size]
  <2>1. OpenCall(c) = [service |-> c.handle, given |-> g, closed |-> f, size |-> z]
    BY OpenCallIs
  <2>2. OpenCall(d) = [service |-> c.handle, given |-> g \cup V, closed |-> f, size |-> z]
    BY <1>1, <1>3, OpenCallIs
  <2> HIDE DEF g, f, z
  <2>. QED BY <2>1, <2>2, CallGives
<1>6. OpenCall(c).given = {v \in Vec : VecOf(c, v).mapped}
  BY OpenCallIs
<1>. QED BY <1>4, <1>5, <1>6 DEF d

\* An access begun on prepared vectors.
LEMMA BegunPrepared ==
    ASSUME NEW c \in Connection, NEW a, CanBegin(c, a)
    PROVE  Prepared(Begun(c, a), a)
<1>1. c.invec \in [VecIdx -> InVec] /\ c.outvec \in [VecIdx -> OutVec]
  BY DEF Connection, ConnectionOf
<1>2. Begun(c, a).invec = MapIn(c, a) /\ Begun(c, a).outvec = MapOut(c, a)
  BY DEF Begun, Connection, ConnectionOf
<1>3. InOk(c, a)
  BY DEF CanBegin
<1>4. \A i \in a.ins \cap VecIdx : MapIn(c, a)[i].mapped
  BY <1>1, <1>3 DEF MapIn, InVec
<1>5. \A j \in a.outs \cap VecIdx : MapOut(c, a)[j].mapped
  BY <1>1 DEF MapOut, OutVec
<1>. QED BY <1>2, <1>4, <1>5 DEF Prepared

\* The end of an access finishes vectors that were handed out, each once, and
\* commits no more than fits.
LEMMA EndedFinishes ==
    ASSUME NEW c \in Connection, NEW a, NEW n \in Written, Prepared(c, a)
    PROVE  \E V \in SUBSET Vec :
             /\ V \subseteq OpenCall(c).given \ OpenCall(c).closed
             /\ \A v \in V : v[1] = "out" => n <= OpenCall(c).size[v]
             /\ OpenCall(Ended(c, a, n)) = Finished(OpenCall(c), V, n)
<1> DEFINE d == Ended(c, a, n)
           I == {i \in VecIdx : i \in a.ins /\ CommitOk(c, a, n) /\ MarkOk(c, a)}
           J == {j \in VecIdx : j \in a.outs /\ CommitOk(c, a, n)}
           V == {v \in Vec : (v[1] = "in" /\ v[2] \in I) \/ (v[1] = "out" /\ v[2] \in J)}
<1>1. c.invec \in [VecIdx -> InVec] /\ c.outvec \in [VecIdx -> OutVec] /\ n \in Nat
  BY IoVecAssumption DEF Connection, ConnectionOf, Written
<1>2. d.handle = c.handle /\ d.invec = UnmapIn(c, a, n) /\ d.outvec = CommitOut(c, a, n)
  BY DEF Ended, Connection, ConnectionOf
<1>3. /\ \A i \in I : c.invec[i].mapped /\ ~c.invec[i].unmapped
      /\ \A j \in J : c.outvec[j].mapped /\ ~c.outvec[j].unmapped /\ n <= c.outvec[j].size
  BY DEF Prepared, CommitOk, MarkOk, CanCommit, CanMarkIn
<1>4. \A i \in VecIdx : d.invec[i] = IF i \in I THEN [c.invec[i] EXCEPT !.unmapped = TRUE] ELSE c.invec[i]
  BY <1>2 DEF UnmapIn
<1>5. \A j \in VecIdx : d.outvec[j] = IF j \in J THEN CommittedVec(c.outvec[j], n) ELSE c.outvec[j]
  BY <1>2 DEF CommitOut
<1> HIDE DEF d, I, J
<1>6. \A i \in VecIdx : /\ d.invec[i].size = c.invec[i].size
                        /\ d.invec[i].mapped = c.invec[i].mapped
                        /\ d.invec[i].unmapped <=> c.invec[i].unmapped \/ i \in I
  BY <1>1, <1>4 DEF InVec
<1>7. \A j \in VecIdx : /\ d.outvec[j].size = IF j \in J THEN n ELSE c.outvec[j].size
                        /\ d.outvec[j].mapped = c.outvec[j].mapped
                        /\ d.outvec[j].unmapped <=> c.outvec[j].unmapped \/ j \in J
  BY <1>1, <1>5 DEF OutVec, CommittedVec
<1>8. \A v \in Vec : v[1] \in {"in", "out"} /\ v[2] \in VecIdx
  BY DEF Vec
<1>9. \A v \in Vec : /\ VecOf(d, v).mapped = VecOf(c, v).mapped
                     /\ VecOf(d, v).unmapped <=> VecOf(c, v).unmapped \/ v \in V
                     /\ VecOf(d, v).size = IF v \in V /\ v[1] = "out" THEN n ELSE VecOf(c, v).size
  BY <1>6, <1>7, <1>8 DEF VecOf
<1>10. \A v \in V : /\ VecOf(c, v).mapped /\ ~VecOf(c, v).unmapped
                    /\ v[1] = "out" => n <= VecOf(c, v).size
  BY <1>3, <1>8 DEF VecOf
<1>11. V \in SUBSET Vec
  OBVIOUS
<1> HIDE DEF V
<1>12. /\ {v \in Vec : VecOf(d, v).mapped} = {v \in Vec : VecOf(c, v).mapped}
       /\ {v \in Vec : VecOf(d, v).unmapped} = {v \in Vec : VecOf(c, v).unmapped} \cup V
       /\ [v \in Vec |-> VecOf(d, v).size] =
            [v \in Vec |-> IF v \in V /\ v[1] = "out" THEN n ELSE VecOf(c, v).size]
  BY <1>9, <1>11
<1>13. /\ V \subseteq OpenCall(c).given \ OpenCall(c).closed
       /\ \A v \in V : v[1] = "out" => n <= OpenCall(c).size[v]
  BY <1>10, <1>11, OpenCallIs
<1>14. OpenCall(d) = Finished(OpenCall(c), V, n)
  <2> DEFINE g == {v \in Vec : VecOf(c, v).mapped}
             f == {v \in Vec : VecOf(c, v).unmapped}
             z == [v \in Vec |-> VecOf(c, v).size]
             e == [v \in Vec |-> IF v \in V /\ v[1] = "out" THEN n ELSE z[v]]
  <2>1. OpenCall(c) = [service |-> c.handle, given |-> g, closed |-> f, size |-> z]
    BY OpenCallIs
  <2>2. [v \in Vec |-> IF v \in V /\ v[1] = "out" THEN n ELSE VecOf(c, v).size] = e
    OBVIOUS
  <2>3. OpenCall(d) = [service |-> c.handle, given |-> g, closed |-> f \cup V, size |-> e]
    BY <1>2, <1>12, <2>2, OpenCallIs
  <2>4. [v \in Vec |-> IF v \in V /\ v[1] = "out" THEN n ELSE OpenCall(c).size[v]] = e
    BY <2>1
  <2>5. [OpenCall(c) EXCEPT !.closed = @ \cup V, !.size = e] = OpenCall(d)
    <3> HIDE DEF g, f, z, e
    <3>1. OpenCall(c).closed = f
      BY <2>1
    <3>2. PICK s, x, o : s = c.handle /\ x = f \cup V /\ o = OpenCall(c)
      OBVIOUS
    <3>3. o = [service |-> s, given |-> g, closed |-> f, size |-> z]
      BY <2>1, <3>2
    <3> DEFINE w == [o EXCEPT !.closed = x]
    <3>4. w = [service |-> s, given |-> g, closed |-> x, size |-> z]
      BY <3>3
    <3>5. [w EXCEPT !.size = e] = [o EXCEPT !.closed = x, !.size = e]
      BY <3>3
    <3> HIDE DEF w
    <3>6. [w EXCEPT !.size = e] = [service |-> s, given |-> g, closed |-> x, size |-> e]
      BY <3>4
    <3>. QED BY <2>3, <3>1, <3>2, <3>5, <3>6
  <2> HIDE DEF e
  <2>. QED BY <2>4, <2>5 DEF Finished
<1>. QED BY <1>11, <1>13, <1>14 DEF d

\* The steps of PsaCalls, said of Calls.
LEMMA Stutter ==
    ASSUME TheClient' = TheClient, Calls' = Calls
    PROVE  UNCHANGED Promise!vars
BY DEF Calls, Promise!vars

LEMMA EnterStep ==
    ASSUME NEW t \in Threads, TheClient = NoThread, TheClient' = t, Calls' = Calls
    PROVE  Promise!Next
BY DEF Calls, Promise!Next, Promise!Enter

LEMMA ExitStep ==
    ASSUME TheClient # NoThread, TheClient' = NoThread, Calls = <<>>, Calls' = Calls
    PROVE  Promise!Next
BY DEF Calls, Promise!Next, Promise!Exit

LEMMA OpenStep ==
    ASSUME NEW h \in Handles, NEW size \in [Vec -> Written],
           TheClient # NoThread, TheClient' = TheClient, Len(Calls) < MaxConnections,
           Calls' = Append(Calls, [service |-> h, given |-> {}, closed |-> {}, size |-> size])
    PROVE  Promise!Next
<1>1. Promise!Open(h, size)
  BY DEF Calls, Promise!Open
<1>. QED BY <1>1 DEF Promise!Next, Promise!Vectors, Vec

LEMMA CloseStep ==
    ASSUME TheClient' = TheClient, Calls # <<>>, Calls' = SubSeq(Calls, 1, Len(Calls) - 1)
    PROVE  Promise!Next
<1>1. Promise!Close
  BY DEF Calls, Promise!Close
<1>. QED BY <1>1 DEF Promise!Next

LEMMA GiveStep ==
    ASSUME NEW V \in SUBSET Vec, NEW c, TheClient # NoThread, TheClient' = TheClient,
           Calls # <<>>, c = Calls[Len(Calls)], V \cap c.given = {},
           Calls' = [Calls EXCEPT ![Len(Calls)] = [c EXCEPT !.given = @ \cup V]]
    PROVE  Promise!Next
<1>1. Promise!Give(V)
  BY DEF Calls, Promise!Give, Promise!Innermost
<1>. QED BY <1>1 DEF Promise!Next, Promise!Vectors, Vec

LEMMA FinishStep ==
    ASSUME NEW V \in SUBSET Vec, NEW n \in Written,
           TheClient # NoThread, TheClient' = TheClient, Calls # <<>>,
           V \subseteq Calls[Len(Calls)].given \ Calls[Len(Calls)].closed,
           \A v \in V : v[1] = "out" => n <= Calls[Len(Calls)].size[v],
           Calls' = [Calls EXCEPT ![Len(Calls)] = Finished(Calls[Len(Calls)], V, n)]
    PROVE  Promise!Next
<1>1. Promise!Finish(V, n)
  BY Zenon DEF Finished, Calls, Promise!Finish, Promise!Innermost, Promise!Vectors, Vec
<1>. QED BY <1>1 DEF Promise!Next, Promise!Vectors, Vec

\* Calls is a sequence of as many calls as slots are in use.
LEMMA CallsSeq ==
    ASSUME connections.top \in Nat
    PROVE  /\ Len(Calls) = connections.top
           /\ \E S : Calls \in Seq(S)
           /\ Calls = <<>> <=> connections.top = 0
<1> DEFINE S == {OpenCall(OpenConnection(i - 1)) : i \in 1 .. connections.top}
<1>1. Calls \in [1 .. connections.top -> S]
  BY DEF Calls
<1> HIDE DEF S
<1>2. Calls \in Seq(S)
  BY <1>1
<1>3. Len(Calls) = connections.top
  BY <1>1, <1>2
<1>. QED BY <1>2, <1>3, EmptySeq

\* A stack that grew or shrank by its top call.
LEMMA Grown ==
    ASSUME NEW n \in Nat, NEW s, NEW u, NEW x,
           s = [i \in 1 .. n |-> s[i]], u = [i \in 1 .. n + 1 |-> u[i]],
           \A i \in 1 .. n : u[i] = s[i], u[n + 1] = x
    PROVE  u = Append(s, x)
<1> DEFINE S == {s[i] : i \in 1 .. n} \cup {x}
<1>1. \A i \in 1 .. n : s[i] \in S
  OBVIOUS
<1>2. x \in S
  OBVIOUS
<1> HIDE DEF S
<1>3. \A i \in 1 .. n + 1 : u[i] \in S
  <2>1. \A i \in 1 .. n + 1 : i \in 1 .. n \/ i = n + 1
    OBVIOUS
  <2>. QED BY <1>1, <1>2, <2>1
<1>4. s \in Seq(S) /\ Len(s) = n
  <2>1. s \in [1 .. n -> S]
    BY <1>1
  <2>. QED BY <2>1, SMTT(30)
<1>5. u \in Seq(S) /\ Len(u) = n + 1
  <2>1. u \in [1 .. n + 1 -> S]
    BY <1>3
  <2>. QED BY <2>1
<1>6. /\ Append(s, x) \in Seq(S) /\ Len(Append(s, x)) = n + 1
      /\ \A i \in 1 .. n : Append(s, x)[i] = s[i]
      /\ Append(s, x)[n + 1] = x
  BY <1>2, <1>4, AppendProperties
<1>7. \A i \in 1 .. n + 1 : Append(s, x)[i] = u[i]
  <2>1. \A i \in 1 .. n + 1 : i \in 1 .. n \/ i = n + 1
    OBVIOUS
  <2>. QED BY <1>6, <2>1
<1>. QED BY <1>5, <1>6, <1>7, SeqEqual

LEMMA Shrunk ==
    ASSUME NEW n \in Nat \ {0}, NEW s, NEW u,
           s = [i \in 1 .. n |-> s[i]], u = [i \in 1 .. n - 1 |-> u[i]],
           \A i \in 1 .. n - 1 : u[i] = s[i]
    PROVE  u = SubSeq(s, 1, n - 1)
<1> DEFINE S == {s[i] : i \in 1 .. n}
<1>1. \A i \in 1 .. n - 1 : s[i] \in S
  OBVIOUS
<1> HIDE DEF S
<1>2. u \in Seq(S) /\ Len(u) = n - 1
  <2>1. u \in [1 .. n - 1 -> S]
    BY <1>1
  <2>. QED BY <2>1
<1>3. /\ SubSeq(s, 1, n - 1) \in Seq(S)
      /\ Len(SubSeq(s, 1, n - 1)) = n - 1
      /\ \A i \in 1 .. n - 1 : SubSeq(s, 1, n - 1)[i] = s[i]
  <2>1. PICK a, b \in Int : a = 1 /\ b = n - 1
    OBVIOUS
  <2>2. \A i \in a .. b : s[i] \in S
    BY <1>1, <2>1
  <2>3. SubSeq(s, a, b) \in Seq(S)
    BY <2>2, SubSeqProperties
  <2>4. Len(SubSeq(s, a, b)) = IF a <= b THEN b - a + 1 ELSE 0
    BY <2>2, SubSeqProperties
  <2>5. \A i \in 1 .. b - a + 1 : SubSeq(s, a, b)[i] = s[a + i - 1]
    BY <2>2, SubSeqProperties
  <2>6. SubSeq(s, a, b) = SubSeq(s, 1, n - 1) /\ b - a + 1 = n - 1
    BY <2>1
  <2>7. Len(SubSeq(s, a, b)) = n - 1
    BY <2>1, <2>4
  <2>8. \A i \in 1 .. n - 1 : SubSeq(s, a, b)[i] = s[i]
    <3> TAKE i \in 1 .. n - 1
    <3>1. a + i - 1 = i /\ i \in 1 .. b - a + 1
      BY <2>1
    <3>. QED BY <2>5, <3>1
  <2>. QED BY <2>3, <2>6, <2>7, <2>8
<1>. QED BY <1>2, <1>3, SeqEqual

\* A client inside is the client of the promise.
LEMMA TheClientIs ==
    ASSUME Inv, NEW t \in Threads, stage[t] # "ns"
    PROVE  TheClient = t /\ TheClient # NoThread
<1>1. Inside = {t}
  BY DEF Inside, Inv, Gate
<1>. QED BY <1>1, SpmFnAssumption DEF TheClient

\* The call the client's level i opened.
LEMMA OpenConnectionIs ==
    ASSUME NEW t, TheClient = t, NEW i \in Int
    PROVE  OpenConnection(i - 1) = IF connections.slots[i - 1] # Absent
                                     THEN connections.slots[i - 1] ELSE conn[t][i]
<1>1. (i - 1) + 1 = i
  OBVIOUS
<1>. QED BY <1>1 DEF OpenConnection

LEMMA OpenConnectionWillBe ==
    ASSUME NEW t, TheClient' = t, NEW i \in Int
    PROVE  OpenConnection(i - 1)' = IF connections'.slots[i - 1] # Absent
                                      THEN connections'.slots[i - 1] ELSE conn'[t][i]
<1>1. (i - 1) + 1 = i
  OBVIOUS
<1>. QED BY <1>1 DEF OpenConnection

LEMMA CallsAt ==
    /\ \A i \in 1 .. connections.top : Calls[i] = OpenCall(OpenConnection(i - 1))
    /\ \A i \in 1 .. connections'.top : Calls'[i] = OpenCall(OpenConnection(i - 1))'
    /\ Calls = [i \in 1 .. connections.top |-> Calls[i]]
    /\ Calls' = [i \in 1 .. connections'.top |-> Calls'[i]]
BY DEF Calls

\* Nothing on the stack changes.
LEMMA SameCalls ==
    ASSUME UNCHANGED connections, connections.top \in Nat, NEW t, TheClient = t, TheClient' = t,
           \A i \in 1 .. connections.top : connections.slots[i - 1] = Absent => conn'[t][i] = conn[t][i]
    PROVE  UNCHANGED Promise!vars
<1>1. \A i \in 1 .. connections.top : OpenConnection(i - 1)' = OpenConnection(i - 1)
  BY OpenConnectionIs, OpenConnectionWillBe
<1>2. \A i \in 1 .. connections.top : Calls'[i] = Calls[i]
  <2> TAKE i \in 1 .. connections.top
  <2>1. OpenCall(OpenConnection(i - 1))' = OpenCall(OpenConnection(i - 1))
    BY <1>1 DEF OpenCall
  <2>. QED BY <2>1, CallsAt
<1>3. Calls' = Calls
  BY <1>2, CallsAt
<1>. QED BY <1>3, Stutter

\* A step that works on one level.
LEMMA HandedOutKept ==
    ASSUME HandedOut, NEW t \in Threads, NEW l \in Levels,
           \A u \in Threads, k \in Levels : u # t \/ k # l =>
              /\ pc'[u][k] = pc[u][k] /\ conn'[u][k] = conn[u][k]
              /\ access'[u][k] = access[u][k],
           pc'[t][l] = "add" => Unused(conn'[t][l]),
           pc'[t][l] = "body" => Prepared(conn'[t][l], access'[t][l])
    PROVE  HandedOut'
<1> SUFFICES ASSUME NEW u \in Threads, NEW k \in Levels
             PROVE  /\ pc'[u][k] = "add" => Unused(conn'[u][k])
                    /\ pc'[u][k] = "body" => Prepared(conn'[u][k], access'[u][k])
  BY DEF HandedOut, Unused, Prepared, VecOf
<1>1. CASE u = t /\ k = l
  BY <1>1
<1>2. CASE u # t \/ k # l
  BY <1>2 DEF HandedOut
<1>. QED BY <1>1, <1>2

\* A call that waits for its slot is not among the open ones yet.
LEMMA CallUnseen ==
    ASSUME TypeOK, Inv, HandedOut, NEW t \in Threads, NEW h \in Handles,
           NEW ins \in [VecIdx -> Sizes], NEW outs \in [VecIdx -> Sizes],
           Call(t, h, ins, outs), connections.top = depth[t], TheClient = t, TheClient' = t
    PROVE  HandedOut' /\ UNCHANGED Promise!vars
<1> DEFINE k == depth[t] + 1
           new == NewConnection(<<t, k>>, h, ins, outs)
<1>1. k \in Levels /\ depth[t] \in Nat
  BY DEF Call, Levels, TypeOK, SpmTypeOK
<1>2. /\ \A u \in Threads, j \in Levels :
            /\ pc'[u][j] = IF u = t /\ j = k THEN "add" ELSE pc[u][j]
            /\ conn'[u][j] = IF u = t /\ j = k THEN new ELSE conn[u][j]
            /\ access'[u][j] = access[u][j]
      /\ UNCHANGED connections
  BY <1>1, ReadLevel DEF Call, Goto, TypeOK, SpmTypeOK
<1>3. Unused(new)
  BY NewConnectionUnused
<1> HIDE DEF new
<1>4. HandedOut'
  BY <1>1, <1>2, <1>3, HandedOutKept
<1>5. \A i \in 1 .. connections.top : conn'[t][i] = conn[t][i]
  <2>1. \A i \in 1 .. connections.top : i \in Levels /\ i # k
    BY <1>1, MaxConnectionsAssumption DEF Levels, MaxDepth
  <2>. QED BY <1>2, <2>1
<1>6. UNCHANGED Promise!vars
  BY <1>1, <1>2, <1>5, SameCalls
<1>. QED BY <1>4, <1>6

\* The deepest level moves, and stack and copies stay as they are.
LEMMA MoveUnseen ==
    ASSUME TypeOK, Inv, HandedOut, NEW t \in Threads, NEW l \in Levels, l = depth[t],
           NEW to \in {"run", "take", "restore", "pop", "add"}, pc' = [pc EXCEPT ![t][l] = to],
           to = "add" => pc[t][l] = "add",
           UNCHANGED <<connections, conn, stage>>,
           access' = access \/ \E a : access' = [access EXCEPT ![t][l] = a]
    PROVE  HandedOut' /\ UNCHANGED Promise!vars
<1>1. \A u \in Threads, k \in Levels : u # t \/ k # l =>
        pc'[u][k] = pc[u][k] /\ access'[u][k] = access[u][k]
  BY ReadLevel DEF TypeOK, SpmTypeOK
<1>2. pc'[t][l] = to
  BY DEF TypeOK, SpmTypeOK
<1>3. HandedOut'
  BY <1>1, <1>2, HandedOutKept DEF HandedOut
<1>4. stage[t] # "ns" /\ connections.top \in Nat
  <2>1. depth[t] > 0
    BY DEF Levels
  <2>2. connections.top \in 0 .. MaxConnections
    BY DEF TypeOK, SpmTypeOK, StackOf
  <2>. QED BY <2>1, <2>2, OnlyOneCalls
<1>5. TheClient = t /\ TheClient' = t
  <2>1. TheClient' = TheClient
    BY DEF TheClient, Inside
  <2>. QED BY <1>4, <2>1, TheClientIs
<1>6. UNCHANGED Promise!vars
  BY <1>4, <1>5, SameCalls
<1>. QED BY <1>3, <1>6

\* The deepest level exchanges its connection between slot and copy.
LEMMA TopChanges ==
    ASSUME TypeOK, Inv, NEW t \in Threads, NEW l \in Levels, l = depth[t], pc[t][l] # "add",
           UNCHANGED stage, connections'.top = connections.top,
           \A i \in Slots : i # l - 1 => connections'.slots[i] = connections.slots[i],
           \A k \in Levels : k # l => conn'[t][k] = conn[t][k],
           NEW c, c = IF connections.slots[l - 1] # Absent THEN connections.slots[l - 1] ELSE conn[t][l],
           NEW d, d = IF connections'.slots[l - 1] # Absent THEN connections'.slots[l - 1] ELSE conn'[t][l]
    PROVE  /\ TheClient # NoThread /\ TheClient' = TheClient
           /\ Calls # <<>> /\ Calls[Len(Calls)] = OpenCall(c)
           /\ Calls' = [Calls EXCEPT ![Len(Calls)] = OpenCall(d)]
<1>1. l \in Nat /\ l > 0 /\ connections.top = l /\ stage[t] # "ns"
  BY RunningLevel, OnlyOneCalls DEF Levels
<1>2. TheClient = t /\ TheClient # NoThread /\ TheClient' = t
  <2>1. TheClient' = TheClient
    BY DEF TheClient, Inside
  <2>. QED BY <1>1, <2>1, TheClientIs
<1>3. Len(Calls) = l /\ Calls # <<>>
  BY <1>1, CallsSeq
<1>4. OpenConnection(l - 1) = c /\ OpenConnection(l - 1)' = d
  BY <1>1, <1>2, OpenConnectionIs, OpenConnectionWillBe
<1>5. Calls[l] = OpenCall(c) /\ Calls'[l] = OpenCall(d)
  <2>1. OpenCall(OpenConnection(l - 1))' = OpenCall(d)
    BY <1>4 DEF OpenCall
  <2>. QED BY <1>1, <1>4, <2>1, CallsAt
<1>6. \A i \in 1 .. l : i # l => Calls'[i] = Calls[i]
  <2> SUFFICES ASSUME NEW i \in 1 .. l, i # l PROVE Calls'[i] = Calls[i]
    OBVIOUS
  <2>1. i \in Levels /\ i - 1 \in Slots /\ i - 1 # l - 1 /\ i \in Int
    <3>1. l \in 0 .. MaxConnections
      BY <1>1 DEF TypeOK, SpmTypeOK, StackOf
    <3>. QED BY <1>1, <3>1, MaxConnectionsAssumption DEF Levels, Slots, MaxDepth
  <2>2. OpenConnection(i - 1)' = OpenConnection(i - 1)
    BY <1>2, <2>1, OpenConnectionIs, OpenConnectionWillBe
  <2>3. OpenCall(OpenConnection(i - 1))' = OpenCall(OpenConnection(i - 1))
    BY <2>2 DEF OpenCall
  <2>4. i \in 1 .. connections.top /\ i \in 1 .. connections'.top
    BY <1>1
  <2>5. Calls[i] = OpenCall(OpenConnection(i - 1))
    BY <2>4, CallsAt
  <2>6. Calls'[i] = OpenCall(OpenConnection(i - 1))'
    BY <2>4, CallsAt
  <2>. QED BY <2>3, <2>5, <2>6
<1>7. Calls' = [Calls EXCEPT ![l] = OpenCall(d)]
  <2>1. /\ Calls = [i \in 1 .. l |-> Calls[i]] /\ Calls' = [i \in 1 .. l |-> Calls'[i]]
    BY <1>1, CallsAt
  <2>. QED BY <1>1, <1>5, <1>6, <2>1
<1>. QED BY <1>2, <1>3, <1>5, <1>7

\* A connection gets its slot: the call is open.
LEMMA AddOpens ==
    ASSUME TypeOK, Inv, HandedOut, NEW t \in Threads, NEW l \in Levels, UNCHANGED stage,
           AddConnection(t, l), CanAdd(connections)
    PROVE  HandedOut' /\ Promise!Next
<1> DEFINE c == conn[t][l]
<1>1. /\ l = depth[t] /\ pc[t][l] = "add" /\ l \in Nat /\ l > 0
      /\ connections' = Added(connections, c)
      /\ pc' = [pc EXCEPT ![t][l] = "run"] /\ conn' = [conn EXCEPT ![t][l] = Absent]
      /\ UNCHANGED access
  BY DEF AddConnection, At, Goto, Levels
<1>2. connections.top = l - 1 /\ stage[t] # "ns" /\ l - 1 < MaxConnections /\ l - 1 \in Slots
  <2>1. connections.top = l - 1 /\ connections.top < MaxConnections
    BY <1>1, RunningLevel DEF CanAdd
  <2>2. stage[t] # "ns"
    BY <1>1, OnlyOneCalls
  <2>. QED BY <1>1, <2>1, <2>2, MaxConnectionsAssumption DEF Slots
<1>3. c \in Connection /\ c # Absent /\ Unused(c)
  BY <1>1 DEF Inv, Ownership, Belongs, HandedOut, TypeOK, SpmTypeOK
<1> HIDE DEF c
<1>4. HandedOut'
  BY <1>1, ReadLevel, HandedOutKept DEF TypeOK, SpmTypeOK
<1>5. TheClient = t /\ TheClient # NoThread /\ TheClient' = t
  <2>1. TheClient' = TheClient
    BY DEF TheClient, Inside
  <2>. QED BY <1>2, <2>1, TheClientIs
<1>6. /\ connections'.top = l /\ connections'.slots[l - 1] = c
      /\ \A i \in Slots : i # l - 1 => connections'.slots[i] = connections.slots[i]
  BY <1>1, <1>2 DEF Added, TypeOK, SpmTypeOK, StackOf
<1>7. \A i \in 1 .. l - 1 : Calls'[i] = Calls[i]
  <2> SUFFICES ASSUME NEW i \in 1 .. l - 1 PROVE Calls'[i] = Calls[i]
    OBVIOUS
  <2>1. i \in Levels /\ i - 1 \in Slots /\ i - 1 # l - 1 /\ i \in Int /\ i # l
    BY <1>1, <1>2, MaxConnectionsAssumption DEF Levels, Slots, MaxDepth
  <2>2. conn'[t][i] = conn[t][i]
    BY <1>1, <2>1, ReadLevel DEF TypeOK, SpmTypeOK
  <2>3. OpenConnection(i - 1)' = OpenConnection(i - 1)
    BY <1>5, <1>6, <2>1, <2>2, OpenConnectionIs, OpenConnectionWillBe
  <2>4. OpenCall(OpenConnection(i - 1))' = OpenCall(OpenConnection(i - 1))
    BY <2>3 DEF OpenCall
  <2>5. Calls[i] = OpenCall(OpenConnection(i - 1))
    BY <1>2, CallsAt
  <2>6. Calls'[i] = OpenCall(OpenConnection(i - 1))'
    BY <1>1, <1>6, CallsAt
  <2>. QED BY <2>4, <2>5, <2>6
<1>8. Calls'[l] = OpenCall(c)
  <2>1. OpenConnection(l - 1)' = c
    BY <1>1, <1>3, <1>5, <1>6, OpenConnectionWillBe
  <2>2. OpenCall(OpenConnection(l - 1))' = OpenCall(c)
    BY <2>1 DEF OpenCall
  <2>. QED BY <1>1, <1>6, <2>2, CallsAt
<1>9. Calls' = Append(Calls, OpenCall(c))
  <2>1. l - 1 \in Nat /\ (l - 1) + 1 = l
    BY <1>1
  <2>2. Calls = [i \in 1 .. l - 1 |-> Calls[i]] /\ Calls' = [i \in 1 .. l |-> Calls'[i]]
    BY <1>2, <1>6, CallsAt
  <2>. QED BY <1>7, <1>8, <2>1, <2>2, Grown
<1>10. \E size \in [Vec -> Written] :
         OpenCall(c) = [service |-> c.handle, given |-> {}, closed |-> {}, size |-> size]
  <2>1. /\ {v \in Vec : VecOf(c, v).mapped} = {} /\ {v \in Vec : VecOf(c, v).unmapped} = {}
        /\ [v \in Vec |-> VecOf(c, v).size] \in [Vec -> Written]
    BY <1>3 DEF Unused
  <2>. QED BY <2>1, OpenCallIs
<1>11. c.handle \in Handles /\ Len(Calls) < MaxConnections
  BY <1>1, <1>2, <1>3, CallsSeq DEF Connection, ConnectionOf
<1>. QED BY <1>4, <1>5, <1>9, <1>10, <1>11, OpenStep

\* The top slot is cleared: its call is closed.
LEMMA PopCloses ==
    ASSUME TypeOK, Inv, HandedOut, NEW t \in Threads, NEW l \in Levels, UNCHANGED stage,
           PopConnection(t, l)
    PROVE  HandedOut' /\ Promise!Next
<1>1. /\ l = depth[t] /\ pc[t][l] = "pop" /\ l \in Nat /\ l > 0
      /\ connections' = Popped(connections)
      /\ pc' = [pc EXCEPT ![t][l] = "idle"] /\ conn' = [conn EXCEPT ![t][l] = Absent]
      /\ UNCHANGED access
  BY DEF PopConnection, At, Leave, Levels
<1>2. connections.top = l /\ stage[t] # "ns" /\ l - 1 \in Slots
  BY <1>1, RunningLevel, OnlyOneCalls
<1>3. HandedOut'
  <2>1. /\ pc'[t][l] = "idle"
        /\ \A u \in Threads, k \in Levels : u # t \/ k # l =>
              conn'[u][k] = conn[u][k] /\ pc'[u][k] = pc[u][k] /\ access'[u][k] = access[u][k]
    BY <1>1, ReadLevel DEF TypeOK, SpmTypeOK
  <2>. QED BY <2>1, HandedOutKept
<1>4. TheClient = t /\ TheClient' = TheClient
  <2>1. TheClient' = TheClient
    BY DEF TheClient, Inside
  <2>. QED BY <1>2, <2>1, TheClientIs
<1>5. /\ connections'.top = l - 1
      /\ \A i \in Slots : i # l - 1 => connections'.slots[i] = connections.slots[i]
  BY <1>1, <1>2 DEF Popped, TypeOK, SpmTypeOK, StackOf
<1>6. \A i \in 1 .. l - 1 : Calls'[i] = Calls[i]
  <2> SUFFICES ASSUME NEW i \in 1 .. l - 1 PROVE Calls'[i] = Calls[i]
    OBVIOUS
  <2>1. i \in Levels /\ i - 1 \in Slots /\ i - 1 # l - 1 /\ i \in Int /\ i # l
    BY <1>1, <1>2, MaxConnectionsAssumption DEF Levels, Slots, MaxDepth
  <2>2. conn'[t][i] = conn[t][i]
    BY <1>1, <2>1, ReadLevel DEF TypeOK, SpmTypeOK
  <2>3. OpenConnection(i - 1)' = OpenConnection(i - 1)
    BY <1>4, <1>5, <2>1, <2>2, OpenConnectionIs, OpenConnectionWillBe
  <2>4. OpenCall(OpenConnection(i - 1))' = OpenCall(OpenConnection(i - 1))
    BY <2>3 DEF OpenCall
  <2>5. i \in 1 .. connections.top /\ i \in 1 .. connections'.top
    BY <1>1, <1>2, <1>5
  <2>6. Calls[i] = OpenCall(OpenConnection(i - 1))
    BY <2>5, CallsAt
  <2>7. Calls'[i] = OpenCall(OpenConnection(i - 1))'
    BY <2>5, CallsAt
  <2>. QED BY <2>4, <2>6, <2>7
<1>7. Len(Calls) = l /\ Calls # <<>>
  BY <1>1, <1>2, CallsSeq
<1>8. Calls' = SubSeq(Calls, 1, l - 1)
  <2>1. Calls = [i \in 1 .. l |-> Calls[i]] /\ Calls' = [i \in 1 .. l - 1 |-> Calls'[i]]
    BY <1>2, <1>5, CallsAt
  <2>2. l \in Nat \ {0}
    BY <1>1
  <2>. QED BY <1>6, <2>1, <2>2, Shrunk
<1>. QED BY <1>3, <1>4, <1>7, <1>8, CloseStep

\* A connection is taken, and vectors of it are handed out.
LEMMA TakeGives ==
    ASSUME TypeOK, Inv, HandedOut, NEW t \in Threads, NEW l \in Levels, UNCHANGED stage,
           TakeConnection(t, l)
    PROVE  HandedOut' /\ Promise!Next
<1> DEFINE c == connections.slots[l - 1]
           a == access[t][l]
           to == IF CanBegin(c, a) THEN "body" ELSE "restore"
<1>1. l = depth[t] /\ pc[t][l] = "take" /\ Belongs(c, msg[t][l], t, l)
  BY DEF TakeConnection, At, Inv, Ownership
<1>2. connections.top = l /\ l > 0 /\ l - 1 \in Slots
  BY <1>1, RunningLevel
<1>3. c \in Connection /\ CanTake(connections) /\ Active(connections) = c
  BY <1>1, <1>2 DEF CanTake, Active, Belongs, TypeOK, SpmTypeOK, StackOf
<1>4. /\ connections' = Taken(connections)
      /\ conn' = [conn EXCEPT ![t][l] = Begun(c, a)]
      /\ pc' = [pc EXCEPT ![t][l] = to]
      /\ UNCHANGED access
  BY <1>1, <1>3 DEF TakeConnection, Goto, Belongs
<1>5. /\ connections'.top = connections.top /\ connections'.slots[l - 1] = Absent
      /\ \A i \in Slots : i # l - 1 => connections'.slots[i] = connections.slots[i]
  BY <1>2, <1>4 DEF Taken, TypeOK, SpmTypeOK, StackOf
<1>6. /\ conn'[t][l] = Begun(c, a) /\ pc'[t][l] = to
      /\ \A u \in Threads, k \in Levels : u # t \/ k # l =>
            conn'[u][k] = conn[u][k] /\ pc'[u][k] = pc[u][k]
  BY <1>4, ReadLevel DEF TypeOK, SpmTypeOK
<1>7. HandedOut'
  <2>1. to = "body" => Prepared(Begun(c, a), a)
    BY <1>3, BegunPrepared
  <2>2. to # "add"
    OBVIOUS
  <2> HIDE DEF to, c
  <2>. QED BY <1>4, <1>6, <2>1, <2>2, HandedOutKept
<1>8. c # Absent
  BY <1>1 DEF Belongs
<1> HIDE DEF c, a, to
<1>9. /\ TheClient # NoThread /\ TheClient' = TheClient /\ Calls # <<>>
      /\ Calls[Len(Calls)] = OpenCall(c)
      /\ Calls' = [Calls EXCEPT ![Len(Calls)] = OpenCall(Begun(c, a))]
  <2>1. PICK d : d = Begun(c, a)
    OBVIOUS
  <2>2. c = IF connections.slots[l - 1] # Absent THEN connections.slots[l - 1] ELSE conn[t][l]
    BY <1>8 DEF c
  <2>3. d = IF connections'.slots[l - 1] # Absent THEN connections'.slots[l - 1] ELSE conn'[t][l]
    BY <1>5, <1>6, <2>1
  <2>. QED BY <1>1, <1>5, <1>6, <2>1, <2>2, <2>3, TopChanges
<1>10. PICK V \in SUBSET Vec :
         /\ V \cap OpenCall(c).given = {}
         /\ OpenCall(Begun(c, a)) = [OpenCall(c) EXCEPT !.given = @ \cup V]
  BY <1>3, BegunGives
<1>. QED BY <1>7, <1>9, <1>10, GiveStep

\* The copy goes back: nothing is seen of it.
LEMMA RestoreUnseen ==
    ASSUME TypeOK, Inv, HandedOut, NEW t \in Threads, NEW l \in Levels, UNCHANGED stage,
           RestoreConnection(t, l)
    PROVE  HandedOut' /\ UNCHANGED Promise!vars
<1> DEFINE c == conn[t][l]
<1>1. /\ l = depth[t] /\ pc[t][l] = "restore" /\ Belongs(c, msg[t][l], t, l)
      /\ connections.slots[l - 1] = Absent /\ index[t][l] = l - 1
  BY DEF RestoreConnection, At, Inv, Ownership
<1>2. connections.top = l /\ l > 0 /\ l - 1 \in Slots /\ c # Absent
  BY <1>1, RunningLevel DEF Belongs
<1>3. /\ connections' = Restored(connections, l - 1, c)
      /\ pc' = [pc EXCEPT ![t][l] = "run"]
      /\ conn' = [conn EXCEPT ![t][l] = Absent]
      /\ access' = [access EXCEPT ![t][l] = NoAccess]
  BY <1>1, <1>2 DEF RestoreConnection, CanRestore, Resume, Goto
<1> HIDE DEF c
<1>4. /\ connections'.top = connections.top /\ connections'.slots[l - 1] = c
      /\ \A i \in Slots : i # l - 1 => connections'.slots[i] = connections.slots[i]
  BY <1>2, <1>3 DEF Restored, TypeOK, SpmTypeOK, StackOf
<1>5. /\ pc'[t][l] = "run"
      /\ \A u \in Threads, k \in Levels : u # t \/ k # l =>
            conn'[u][k] = conn[u][k] /\ pc'[u][k] = pc[u][k] /\ access'[u][k] = access[u][k]
  BY <1>3, ReadLevel DEF TypeOK, SpmTypeOK
<1>6. HandedOut'
  BY <1>5, HandedOutKept
<1>7. /\ TheClient' = TheClient /\ Calls # <<>>
      /\ Calls[Len(Calls)] = OpenCall(c)
      /\ Calls' = [Calls EXCEPT ![Len(Calls)] = OpenCall(c)]
  <2>1. c = IF connections.slots[l - 1] # Absent THEN connections.slots[l - 1] ELSE conn[t][l]
    BY <1>1 DEF c
  <2>2. c = IF connections'.slots[l - 1] # Absent THEN connections'.slots[l - 1] ELSE conn'[t][l]
    BY <1>2, <1>4
  <2>. QED BY <1>1, <1>4, <1>5, <2>1, <2>2, TopChanges
<1>8. Calls' = Calls
  <2>1. Calls = [i \in 1 .. connections.top |-> Calls[i]]
    BY CallsAt
  <2>. QED BY <1>7, <2>1
<1>. QED BY <1>6, <1>7, <1>8, Stutter

\* An access ends, and its vectors are finished.
LEMMA EndFinishes ==
    ASSUME TypeOK, Inv, HandedOut, NEW t \in Threads, NEW l \in Levels, UNCHANGED stage,
           NEW n \in Written, EndClosure(t, l, n)
    PROVE  HandedOut' /\ Promise!Next
<1> DEFINE c == conn[t][l]
           a == access[t][l]
<1>1. /\ l = depth[t] /\ pc[t][l] = "body" /\ Belongs(c, msg[t][l], t, l)
      /\ connections.slots[l - 1] = Absent /\ Prepared(c, a)
  BY DEF EndClosure, At, Inv, Ownership, HandedOut
<1>2. c \in Connection
  BY <1>1 DEF Belongs, TypeOK, SpmTypeOK
<1>3. /\ UNCHANGED <<connections, access>>
      /\ pc' = [pc EXCEPT ![t][l] = "restore"]
      /\ conn' = [conn EXCEPT ![t][l] = Ended(c, a, n)]
  BY DEF EndClosure, Goto, TypeOK, SpmTypeOK
<1> HIDE DEF c, a
<1>4. /\ pc'[t][l] = "restore" /\ conn'[t][l] = Ended(c, a, n)
      /\ \A u \in Threads, k \in Levels : u # t \/ k # l =>
            conn'[u][k] = conn[u][k] /\ pc'[u][k] = pc[u][k] /\ access'[u][k] = access[u][k]
  BY <1>3, ReadLevel DEF TypeOK, SpmTypeOK
<1>5. HandedOut'
  BY <1>4, HandedOutKept
<1>6. /\ TheClient # NoThread /\ TheClient' = TheClient /\ Calls # <<>>
      /\ Calls[Len(Calls)] = OpenCall(c)
      /\ Calls' = [Calls EXCEPT ![Len(Calls)] = OpenCall(Ended(c, a, n))]
  <2>1. PICK d : d = Ended(c, a, n)
    OBVIOUS
  <2>2. c = IF connections.slots[l - 1] # Absent THEN connections.slots[l - 1] ELSE conn[t][l]
    BY <1>1 DEF c
  <2>3. d = IF connections'.slots[l - 1] # Absent THEN connections'.slots[l - 1] ELSE conn'[t][l]
    BY <1>1, <1>3, <1>4, <2>1
  <2>. QED BY <1>1, <1>3, <1>4, <2>1, <2>2, <2>3, TopChanges
<1>7. PICK V \in SUBSET Vec :
         /\ V \subseteq OpenCall(c).given \ OpenCall(c).closed
         /\ \A v \in V : v[1] = "out" => n <= OpenCall(c).size[v]
         /\ OpenCall(Ended(c, a, n)) = Finished(OpenCall(c), V, n)
  BY <1>1, <1>2, EndedFinishes
<1>8. Promise!Next
  BY <1>6, <1>7, FinishStep, ZenonT(30)
<1>. QED BY <1>5, <1>8

\* The step of PsaCalls that a step of the system amounts to, if any.
PromiseStep == Promise!Next \/ UNCHANGED Promise!vars

LEMMA SpmStepPromise ==
    ASSUME TypeOK, Inv, HandedOut, NEW t \in Threads, NEW l \in Levels, UNCHANGED stage,
           SpmStep(t, l)
    PROVE  HandedOut' /\ PromiseStep
<1>1. l = depth[t]
  BY DEF SpmStep, TryLock, AddConnection, AddBusy, TakeConnection, TakeBusy,
         RestoreConnection, RestoreBusy, PopConnection, PopBusy, At
<1>2. /\ l > 0 /\ ~Busy(t) /\ stage[t] # "ns" /\ connections.top \in Nat
      /\ pc[t][l] = "add" => connections.top = l - 1
  <2>1. l > 0 /\ ~Busy(t) /\ (pc[t][l] = "add" => connections.top = l - 1)
    BY <1>1, RunningLevel
  <2>2. connections.top \in 0 .. MaxConnections
    BY DEF TypeOK, SpmTypeOK, StackOf
  <2>. QED BY <1>1, <2>1, <2>2, OnlyOneCalls
<1>3. TheClient = t /\ TheClient' = t
  <2>1. TheClient' = TheClient
    BY DEF TheClient, Inside
  <2>. QED BY <1>2, <2>1, TheClientIs
<1>4. CASE TryLock(t, l)
  <2>1. UNCHANGED <<connections, conn, pc, access>>
    BY <1>4 DEF TryLock
  <2>2. HandedOut'
    BY <2>1 DEF HandedOut, Unused, Prepared, VecOf
  <2>. QED BY <1>2, <1>3, <2>1, <2>2, SameCalls DEF PromiseStep
<1>5. CASE AddConnection(t, l)
  <2>1. CASE CanAdd(connections)
    BY <1>5, <2>1, AddOpens DEF PromiseStep
  <2>2. CASE ~CanAdd(connections)
    <3>1. /\ pc[t][l] = "add" /\ UNCHANGED <<connections, access>>
          /\ pc' = [pc EXCEPT ![t][l] = "idle"] /\ conn' = [conn EXCEPT ![t][l] = Absent]
      BY <1>5, <2>2 DEF AddConnection, At, Leave
    <3>2. /\ pc'[t][l] = "idle"
          /\ \A u \in Threads, k \in Levels : u # t \/ k # l =>
                conn'[u][k] = conn[u][k] /\ pc'[u][k] = pc[u][k] /\ access'[u][k] = access[u][k]
      BY <3>1, ReadLevel DEF TypeOK, SpmTypeOK
    <3>3. HandedOut'
      BY <3>2, HandedOutKept
    <3>4. \A i \in 1 .. connections.top : i \in Levels /\ i # l
      BY <1>2, <3>1, MaxConnectionsAssumption DEF Levels, MaxDepth
    <3>5. UNCHANGED Promise!vars
      BY <1>2, <1>3, <3>1, <3>2, <3>4, SameCalls
    <3>. QED BY <3>3, <3>5 DEF PromiseStep
  <2>. QED BY <2>1, <2>2
<1>6. ~AddBusy(t, l) /\ ~TakeBusy(t, l) /\ ~RestoreBusy(t, l) /\ ~PopBusy(t, l)
  BY <1>2 DEF AddBusy, TakeBusy, RestoreBusy, PopBusy
<1>. QED BY <1>4, <1>5, <1>6, TakeGives, RestoreUnseen, PopCloses DEF SpmStep, PromiseStep

LEMMA ServiceStepPromise ==
    ASSUME TypeOK, Inv, HandedOut, NEW t \in Threads, NEW l \in Levels, UNCHANGED stage,
           ServiceStep(t, l)
    PROVE  HandedOut' /\ PromiseStep
<1>1. ASSUME NEW h \in Handles, NEW ins \in [VecIdx -> Sizes],
             NEW outs \in [VecIdx -> Sizes], NestedCall(t, l, h, ins, outs)
      PROVE  HandedOut' /\ PromiseStep
  <2>1. l = depth[t] /\ pc[t][l] # "add" /\ Call(t, h, ins, outs)
    BY <1>1 DEF NestedCall, At
  <2>2. connections.top = depth[t] /\ stage[t] # "ns"
    <3>1. l > 0 /\ connections.top = l
      BY <2>1, RunningLevel
    <3>. QED BY <2>1, <3>1, OnlyOneCalls
  <2>3. TheClient = t /\ TheClient' = t
    <3>1. TheClient' = TheClient
      BY DEF TheClient, Inside
    <3>. QED BY <2>2, <3>1, TheClientIs
  <2>. QED BY <2>1, <2>2, <2>3, CallUnseen DEF PromiseStep
<1>2. ASSUME NEW a \in Accesses, Access(t, l, a) PROVE HandedOut' /\ PromiseStep
  <2>1. /\ l = depth[t] /\ pc' = [pc EXCEPT ![t][l] = "take"]
        /\ access' = [access EXCEPT ![t][l] = a] /\ UNCHANGED <<connections, conn>>
    BY <1>2 DEF Access, At, Goto
  <2>. QED BY <2>1, MoveUnseen DEF PromiseStep
<1>3. ASSUME NEW n \in Written, EndClosure(t, l, n) PROVE HandedOut' /\ PromiseStep
  BY <1>3, EndFinishes DEF PromiseStep
<1>4. CASE ServiceReturns(t, l)
  <2>1. /\ l = depth[t] /\ pc' = [pc EXCEPT ![t][l] = "pop"]
        /\ UNCHANGED <<connections, conn, access>>
    BY <1>4 DEF ServiceReturns, At, Goto
  <2>. QED BY <2>1, MoveUnseen DEF PromiseStep
<1>. QED BY <1>1, <1>2, <1>3, <1>4 DEF ServiceStep

\* The veneers: a client enters and leaves, with no call open.
LEMMA GatePromise ==
    ASSUME TypeOK, Inv, HandedOut, NEW t \in Threads,
           \/ EnterSecureState(t)
           \/ Answer(t)
           \/ PsaCall(t)
           \/ PsaCallReturns(t)
           \/ ExitSecureState(t)
    PROVE  HandedOut' /\ PromiseStep
<1>1. ASSUME stage[t] # "ns", depth[t] = 0
      PROVE  connections.top = 0 /\ TheClient = t /\ TheClient # NoThread
  <2>1. \A u \in Threads : u # t => stage[u] # "calling"
    BY <1>1 DEF Inv, Gate
  <2>2. connections.top = 0
    BY <1>1, <2>1 DEF Inv, StackHeight, Height
  <2>. QED BY <1>1, <2>2, TheClientIs
<1>2. ASSUME UNCHANGED spmVars PROVE HandedOut'
  BY <1>2 DEF spmVars, HandedOut, Unused, Prepared, VecOf
<1>3. ASSUME UNCHANGED spmVars, connections.top = 0 PROVE Calls' = Calls
  BY <1>3, CallsAt DEF spmVars
<1>4. CASE EnterSecureState(t)
  <2>1. CASE inSecureState
    <3>1. UNCHANGED <<connections, conn, stage>> /\ HandedOut'
      BY <1>2, <1>4, <2>1 DEF EnterSecureState, spmVars
    <3>2. UNCHANGED Promise!vars
      BY <3>1 DEF Promise!vars, TheClient, Inside, OpenConnection, OpenCall
    <3>. QED BY <3>1, <3>2 DEF PromiseStep
  <2>2. CASE ~inSecureState
    <3>1. /\ \A u \in Threads : stage[u] = "ns" /\ stage'[u] = IF u = t THEN "entered" ELSE "ns"
          /\ connections.top = 0 /\ HandedOut' /\ Calls' = Calls
      <4>1. \A u \in Threads : stage[u] = "ns"
        BY <2>2 DEF Inv, Gate
      <4>2. connections.top = 0
        BY <4>1 DEF Inv, StackHeight
      <4>. QED BY <1>2, <1>3, <1>4, <2>2, <4>1, <4>2 DEF EnterSecureState, TypeOK
    <3>2. Inside = {} /\ Inside' = {t}
      BY <3>1 DEF Inside
    <3>3. TheClient = NoThread /\ TheClient' = t
      BY <3>2 DEF TheClient
    <3>. QED BY <3>1, <3>3, EnterStep DEF PromiseStep
  <2>. QED BY <2>1, <2>2
<1>5. CASE Answer(t) \/ PsaCallReturns(t)
  <2>1. /\ stage[t] # "ns" /\ depth[t] = 0 /\ UNCHANGED spmVars
        /\ stage' = [stage EXCEPT ![t] = "leaving"]
    BY <1>5 DEF Answer, PsaCallReturns, Inv, Gate
  <2>2. Inside' = Inside
    BY <2>1 DEF Inside, TypeOK
  <2>3. TheClient' = TheClient
    BY <2>2 DEF TheClient
  <2>. QED BY <1>1, <1>2, <1>3, <2>1, <2>3, Stutter DEF PromiseStep
<1>6. CASE PsaCall(t)
  <2>1. /\ stage[t] = "entered" /\ stage' = [stage EXCEPT ![t] = "calling"]
    BY <1>6 DEF PsaCall
  <2>2. Inside' = Inside
    BY <2>1 DEF Inside, TypeOK
  <2>3. PICK h \in Handles, ins, outs \in [VecIdx -> Sizes] : depth[t] = 0 /\ Call(t, h, ins, outs)
    BY <1>6 DEF PsaCall, TopCall
  <2>4. TheClient = t /\ TheClient' = t /\ connections.top = depth[t]
    BY <1>1, <2>1, <2>2, <2>3 DEF TheClient
  <2>. QED BY <2>3, <2>4, CallUnseen DEF PromiseStep
<1>7. CASE ExitSecureState(t)
  <2>1. /\ stage[t] = "leaving" /\ UNCHANGED spmVars
        /\ \A u \in Threads : stage'[u] = "ns"
    BY <1>7 DEF ExitSecureState, Inv, Gate, TypeOK
  <2>2. depth[t] = 0 /\ stage[t] # "ns"
    BY <2>1 DEF Inv, Gate
  <2>3. Inside' = {}
    BY <2>1 DEF Inside
  <2>4. TheClient' = NoThread
    BY <2>3 DEF TheClient
  <2>5. connections.top = 0 /\ TheClient # NoThread /\ Calls' = Calls /\ HandedOut'
    BY <1>1, <1>2, <1>3, <2>1, <2>2
  <2>6. Calls = <<>>
    BY <2>5, CallsSeq
  <2>. QED BY <2>4, <2>5, <2>6, ExitStep DEF PromiseStep
<1>. QED BY <1>4, <1>5, <1>6, <1>7

LEMMA NextPromise == TypeOK /\ Inv /\ HandedOut /\ [Next]_vars => HandedOut' /\ PromiseStep
<1> SUFFICES ASSUME TypeOK, Inv, HandedOut, [Next]_vars PROVE HandedOut' /\ PromiseStep
  OBVIOUS
<1>1. CASE UNCHANGED vars
  <2>1. HandedOut'
    BY <1>1 DEF vars, HandedOut, Unused, Prepared, VecOf
  <2>2. UNCHANGED Promise!vars
    BY <1>1 DEF vars, Promise!vars, TheClient, Inside, OpenConnection, OpenCall
  <2>. QED BY <2>1, <2>2 DEF PromiseStep
<1>2. ASSUME NEW t \in Threads, NEW l \in Levels, Spm(t, l) \/ Service(t, l)
      PROVE  HandedOut' /\ PromiseStep
  BY <1>2, SpmStepPromise, ServiceStepPromise DEF Spm, Service
<1>. QED BY <1>1, <1>2, GatePromise DEF Next

\* The dispatcher behind the veneers implements PsaCalls: calls of one client
\* at a time that nest, each of whose vectors is handed out at most once,
\* finished at most once and never past its size, whatever the services do
\* (spm_fn.rs, connection.rs and veneers.rs together).
THEOREM Refinement == Spec => KeepsPromise
<1>1. Init => HandedOut
  BY DEF Init, SpmInit, HandedOut
<1>2. Init => Promise!Init
  <2> SUFFICES ASSUME Init PROVE Promise!Init
    OBVIOUS
  <2>1. Inside = {} /\ connections.top = 0
    BY DEF Init, SpmInit, EmptyStack, Inside
  <2>2. TheClient = NoThread /\ Calls = <<>>
    BY <2>1, CallsSeq DEF TheClient
  <2>. QED BY <2>2 DEF Promise!Init, Calls
<1>3. TypeOK /\ Inv /\ HandedOut /\ [Next]_vars => HandedOut' /\ [Promise!Next]_(Promise!vars)
  BY NextPromise DEF PromiseStep
<1>. QED BY <1>1, <1>2, <1>3, StackMirrorsCalls, PTL DEF Spec, KeepsPromise, Promise!Spec

------------------------------------------------------------------------------
(* The dispatcher shared by threads nobody serialises: SpmSpec, without    *)
(* the veneers.                                                            *)

\* The calls whose service has been entered.
EnteredCalls ==
    {call \in Threads \X Levels :
        pc[call[1]][call[2]] \in {"run", "take", "body", "restore", "pop"}}

\* There are finitely many calls.
LEMMA FiniteCalls == \A S \in SUBSET (Threads \X Levels) : IsFiniteSet(S)
<1>1. IsFiniteSet(Levels)
  BY MaxConnectionsAssumption, FS_Interval DEF Levels, MaxDepth
<1>2. IsFiniteSet(Threads \X Levels)
  BY <1>1, SpmFnAssumption, FS_Product
<1> QED
  BY <1>2, FS_Subset

\* A step that lets no call in and takes no slot away keeps them covered.
LEMMA FewerCalls ==
    ASSUME SpmTypeOK, SpmTypeOK', StackCoversCalls,
           EnteredCalls' \subseteq EnteredCalls, connections'.top >= connections.top
    PROVE  StackCoversCalls'
<1>1. IsFiniteSet(EnteredCalls) /\ IsFiniteSet(EnteredCalls')
  BY FiniteCalls DEF EnteredCalls
<1>2. Cardinality(EnteredCalls') <= Cardinality(EnteredCalls)
  BY <1>1, FS_Subset
<1>3. Cardinality(EnteredCalls) \in Nat /\ Cardinality(EnteredCalls') \in Nat
  BY <1>1, FS_CardinalityType
<1>4. connections.top \in Nat /\ connections'.top \in Nat
  BY DEF SpmTypeOK, StackOf
<1> QED
  BY <1>2, <1>3, <1>4 DEF StackCoversCalls, EnteredCalls

\* Moving one level of one thread to a step of its service, or out of it.
LEMMA MoveEntered ==
    ASSUME SpmTypeOK, NEW t \in Threads, NEW l \in Levels, NEW to,
           pc' = [pc EXCEPT ![t][l] = to]
    PROVE  EnteredCalls' = IF to \in {"run", "take", "body", "restore", "pop"}
                     THEN EnteredCalls \cup {<<t, l>>} ELSE EnteredCalls \ {<<t, l>>}
<1>1. \A u \in Threads, k \in Levels :
        pc'[u][k] = IF u = t /\ k = l THEN to ELSE pc[u][k]
  BY ReadLevel DEF SpmTypeOK
<1>2. \A call \in Threads \X Levels :
        pc'[call[1]][call[2]] = IF call = <<t, l>> THEN to ELSE pc[call[1]][call[2]]
  BY <1>1
<1> QED
  BY <1>2 DEF EnteredCalls

\* A level keeps its connection as long as it is going to put it on the stack.
LEMMA CarriesOn ==
    ASSUME SpmTypeOK, Carries, NEW t \in Threads, NEW l \in Levels, NEW to, NEW c,
           pc' = [pc EXCEPT ![t][l] = to],
           \/ conn' = [conn EXCEPT ![t][l] = c]
           \/ conn' = conn /\ c = conn[t][l],
           to \in {"add", "body", "restore"} => c # Absent
    PROVE  Carries'
<1>1. \A u \in Threads, k \in Levels :
        /\ pc'[u][k] = IF u = t /\ k = l THEN to ELSE pc[u][k]
        /\ conn'[u][k] = IF u = t /\ k = l THEN c ELSE conn[u][k]
  BY ReadLevel DEF SpmTypeOK
<1> QED
  BY <1>1 DEF Carries

\* Every step of a thread keeps the copies and the cover.
LEMMA SharedStep ==
    ASSUME SpmTypeOK, Carries, StackCoversCalls, NEW t \in Threads, NEW l \in Levels,
           SpmStep(t, l) \/ ServiceStep(t, l) \/ TopCall(t)
    PROVE  Carries' /\ StackCoversCalls'
<1>0. SpmTypeOK'
  BY SpmType
<1>a. /\ IsFiniteSet(EnteredCalls) /\ IsFiniteSet(EnteredCalls')
      /\ Cardinality(EnteredCalls) \in Nat
      /\ connections.top \in 0 .. MaxConnections
      /\ Cardinality(EnteredCalls) <= connections.top
      /\ MaxConnections \in Nat
  <2>1. IsFiniteSet(EnteredCalls) /\ IsFiniteSet(EnteredCalls')
    BY FiniteCalls DEF EnteredCalls
  <2>2. Cardinality(EnteredCalls) <= connections.top
    BY DEF StackCoversCalls, EnteredCalls
  <2> QED
    BY <2>1, <2>2, FS_CardinalityType, MaxConnectionsAssumption DEF SpmTypeOK, StackOf
<1>1. CASE TryLock(t, l)
  <2>1. EnteredCalls' = EnteredCalls /\ UNCHANGED <<connections, pc, conn>>
    BY <1>1 DEF TryLock, EnteredCalls
  <2> QED
    BY <1>0, <1>a, <2>1, FewerCalls DEF Carries
<1>2. ASSUME NEW h \in Handles, NEW ins \in [VecIdx -> Sizes],
             NEW outs \in [VecIdx -> Sizes], Call(t, h, ins, outs)
      PROVE  Carries' /\ StackCoversCalls'
  <2> DEFINE k == depth[t] + 1
             new == NewConnection(<<t, k>>, h, ins, outs)
  <2>1. k \in Levels
    BY <1>2 DEF Call
  <2>2. new # Absent
    BY <2>1, NewConnectionType, SpmFnAssumption
  <2>3. /\ pc' = [pc EXCEPT ![t][k] = "add"]
        /\ conn' = [conn EXCEPT ![t][k] = new]
        /\ UNCHANGED connections
    BY <1>2 DEF Call, Goto
  <2> HIDE DEF k, new
  <2>4. Carries'
    BY <2>1, <2>2, <2>3, CarriesOn
  <2>5. EnteredCalls' \subseteq EnteredCalls
    <3>1. EnteredCalls' = EnteredCalls \ {<<t, k>>}
      BY <2>1, <2>3, MoveEntered, ZenonT(30)
    <3> QED
      BY <3>1
  <2> QED
    BY <1>0, <1>a, <2>3, <2>4, <2>5, FewerCalls
<1>3. CASE Leave(t, l) /\ UNCHANGED connections
  <2>1. pc' = [pc EXCEPT ![t][l] = "idle"] /\ conn' = [conn EXCEPT ![t][l] = Absent]
    BY <1>3 DEF Leave
  <2>2. Carries'
    BY <2>1, CarriesOn
  <2>3. EnteredCalls' \subseteq EnteredCalls
    <3>1. EnteredCalls' = EnteredCalls \ {<<t, l>>}
      BY <2>1, MoveEntered
    <3> QED
      BY <3>1
  <2> QED
    BY <1>0, <1>3, <1>a, <2>2, <2>3, FewerCalls
<1>4. CASE AddConnection(t, l) /\ CanAdd(connections)
  <2>1. /\ pc' = [pc EXCEPT ![t][l] = "run"]
        /\ conn' = [conn EXCEPT ![t][l] = Absent]
        /\ connections'.top = connections.top + 1
    BY <1>4 DEF AddConnection, Goto, Added
  <2>2. Carries'
    BY <2>1, CarriesOn
  <2>3. EnteredCalls' = EnteredCalls \cup {<<t, l>>}
    BY <2>1, MoveEntered
  <2>4. Cardinality(EnteredCalls') <= Cardinality(EnteredCalls) + 1
    <3>1. IsFiniteSet(EnteredCalls) /\ Cardinality(EnteredCalls) \in Nat
      BY <1>a
    <3>2. Cardinality(EnteredCalls') = IF <<t, l>> \in EnteredCalls
                                       THEN Cardinality(EnteredCalls)
                                       ELSE Cardinality(EnteredCalls) + 1
      BY <2>3, <3>1, FS_AddElement, Zenon
    <3> QED
      BY <3>1, <3>2
  <2>5. Cardinality(EnteredCalls') \in Nat
    BY <1>a, FS_CardinalityType
  <2>6. Cardinality(EnteredCalls') <= connections'.top
    BY <1>a, <2>1, <2>4, <2>5
  <2> QED
    BY <1>0, <2>2, <2>6 DEF StackCoversCalls, EnteredCalls
<1>5. CASE AddConnection(t, l) /\ ~CanAdd(connections)
  BY <1>3, <1>5 DEF AddConnection
<1>6. CASE AddBusy(t, l) \/ PopBusy(t, l)
  BY <1>3, <1>6 DEF AddBusy, PopBusy
<1>7. CASE PopConnection(t, l)
  <2>1. /\ pc[t][l] = "pop"
        /\ pc' = [pc EXCEPT ![t][l] = "idle"]
        /\ conn' = [conn EXCEPT ![t][l] = Absent]
        /\ connections' = Popped(connections)
    BY <1>7 DEF PopConnection, At, Leave
  <2>2. Carries'
    BY <2>1, CarriesOn
  <2>3. EnteredCalls' = EnteredCalls \ {<<t, l>>} /\ <<t, l>> \in EnteredCalls
    BY <2>1, MoveEntered DEF EnteredCalls
  <2>4. Cardinality(EnteredCalls') = Cardinality(EnteredCalls) - 1
    BY <1>a, <2>3, FS_RemoveElement
  <2>5. Cardinality(EnteredCalls') \in Nat
    BY <1>a, FS_CardinalityType
  <2>6. connections'.top = connections.top - 1
    BY <1>a, <2>1, <2>4, <2>5 DEF Popped
  <2> QED
    BY <1>0, <1>a, <2>2, <2>4, <2>6 DEF StackCoversCalls, EnteredCalls
<1>8. ASSUME pc[t][l] \in {"run", "take", "body", "restore", "pop"}, NEW to, NEW c,
             pc' = [pc EXCEPT ![t][l] = to],
             \/ conn' = [conn EXCEPT ![t][l] = c]
             \/ conn' = conn /\ c = conn[t][l],
             to \in {"add", "body", "restore"} => c # Absent,
             connections'.top = connections.top
      PROVE  Carries' /\ StackCoversCalls'
  <2>1. Carries'
    BY <1>8, CarriesOn
  <2>2. EnteredCalls' \subseteq EnteredCalls
    <3>1. <<t, l>> \in EnteredCalls
      BY <1>8 DEF EnteredCalls
    <3> QED
      BY <1>8, <3>1, MoveEntered
  <2> QED
    BY <1>0, <1>8, <1>a, <2>1, <2>2, FewerCalls
<1>9. ASSUME pc[t][l] \in {"take", "restore"}, Resume(t, l),
             connections'.top = connections.top
      PROVE  Carries' /\ StackCoversCalls'
  BY <1>8, <1>9 DEF Resume, Goto
<1>10. CASE TakeConnection(t, l) /\ CanTake(connections)
  <2> DEFINE c == Active(connections)
             valid == c.handle = msg[t][l]
             copy == IF valid THEN Begun(c, access[t][l]) ELSE c
             step == IF valid /\ CanBegin(c, access[t][l]) THEN "body" ELSE "restore"
  <2>1. c \in Connection
    BY <1>10, <1>a DEF CanTake, SpmTypeOK, StackOf, Active, Slots
  <2>2. copy # Absent
    BY <2>1, BegunType, SpmFnAssumption
  <2>3. /\ pc[t][l] = "take"
        /\ pc' = [pc EXCEPT ![t][l] = step]
        /\ conn' = [conn EXCEPT ![t][l] = copy]
        /\ connections'.top = connections.top
    BY <1>10 DEF TakeConnection, At, Goto, Taken, SpmTypeOK, StackOf
  <2>4. step # "add"
    OBVIOUS
  <2> HIDE DEF c, valid, copy, step
  <2> QED
    BY <1>8, <2>2, <2>3, <2>4
<1>11. CASE TakeConnection(t, l) /\ ~CanTake(connections)
  <2>1. pc[t][l] = "take" /\ Resume(t, l) /\ UNCHANGED connections
    BY <1>11 DEF TakeConnection, At
  <2> QED
    BY <1>9, <2>1
<1>12. CASE TakeBusy(t, l) \/ RestoreBusy(t, l)
  <2>1. pc[t][l] \in {"take", "restore"} /\ Resume(t, l) /\ UNCHANGED connections
    BY <1>12 DEF TakeBusy, RestoreBusy, At
  <2> QED
    BY <1>9, <2>1
<1>13. CASE RestoreConnection(t, l)
  <2>1. connections'.top = connections.top
    BY <1>13 DEF RestoreConnection, Restored, SpmTypeOK, StackOf
  <2> QED
    <3>1. pc[t][l] = "restore" /\ Resume(t, l)
      BY <1>13 DEF RestoreConnection, At
    <3> QED
      BY <1>9, <2>1, <3>1
<1>14. ASSUME NEW a \in Accesses, Access(t, l, a) PROVE Carries' /\ StackCoversCalls'
  BY <1>8, <1>14 DEF Access, At, Goto
<1>15. ASSUME NEW n \in Written, EndClosure(t, l, n) PROVE Carries' /\ StackCoversCalls'
  <2>1. pc[t][l] = "body" /\ conn[t][l] \in Connection
    BY <1>15 DEF EndClosure, At, Carries, SpmTypeOK
  <2>2. Ended(conn[t][l], access[t][l], n) # Absent
    BY <2>1, EndedType, SpmFnAssumption
  <2>3. /\ conn' = [conn EXCEPT ![t][l] = Ended(conn[t][l], access[t][l], n)]
        /\ pc' = [pc EXCEPT ![t][l] = "restore"]
        /\ UNCHANGED connections
    BY <1>15 DEF EndClosure, Goto, SpmTypeOK
  <2> QED
    BY <1>8, <2>1, <2>2, <2>3
<1>16. CASE ServiceReturns(t, l)
  <2>1. /\ pc[t][l] = "run"
        /\ pc' = [pc EXCEPT ![t][l] = "pop"]
        /\ UNCHANGED <<connections, conn>>
    BY <1>16 DEF ServiceReturns, At, Goto
  <2> QED
    BY <1>8, <2>1
<1> QED
  BY <1>0, <1>1, <1>2, <1>4, <1>5, <1>6, <1>7, <1>10, <1>11, <1>12, <1>13, <1>14, <1>15, <1>16
  DEF SpmStep, ServiceStep, TopCall, NestedCall

\* Types, copies and cover hold of every behaviour of the shared dispatcher:
\* top_connection stays within the array there too.
THEOREM SharedInvariance == SpmSpec => [](SpmTypeOK /\ Carries /\ StackCoversCalls)
<1>1. SpmInit => SpmTypeOK
  BY InitSpmType
<1>2. SpmInit => Carries
  BY DEF SpmInit, Carries
<1>3. SpmInit => StackCoversCalls
  <2> SUFFICES ASSUME SpmInit PROVE StackCoversCalls
    OBVIOUS
  <2>1. {call \in Threads \X Levels :
            pc[call[1]][call[2]] \in {"run", "take", "body", "restore", "pop"}} = {}
    BY DEF SpmInit
  <2>2. connections.top = 0
    BY DEF SpmInit, EmptyStack
  <2> QED
    BY <2>1, <2>2, FS_EmptySet DEF StackCoversCalls
<1>4. SpmTypeOK /\ Carries /\ StackCoversCalls /\ [SpmNext]_spmVars
        => SpmTypeOK' /\ Carries' /\ StackCoversCalls'
  <2> SUFFICES ASSUME SpmTypeOK, Carries, StackCoversCalls, [SpmNext]_spmVars
               PROVE  SpmTypeOK' /\ Carries' /\ StackCoversCalls'
    OBVIOUS
  <2>1. CASE UNCHANGED spmVars
    BY <2>1 DEF spmVars, SpmTypeOK, Carries, StackCoversCalls
  <2>2. ASSUME NEW t \in Threads, TopCall(t)
        PROVE  SpmTypeOK' /\ Carries' /\ StackCoversCalls'
    <3>1. 1 \in Levels
      BY MaxConnectionsAssumption DEF Levels, MaxDepth
    <3> QED
      BY <2>2, <3>1, SharedStep, SpmType
  <2>3. ASSUME NEW t \in Threads, NEW l \in Levels, SpmStep(t, l) \/ ServiceStep(t, l)
        PROVE  SpmTypeOK' /\ Carries' /\ StackCoversCalls'
    BY <2>3, SharedStep, SpmType
  <2> QED
    BY <2>1, <2>2, <2>3 DEF SpmNext
<1> QED
  BY <1>1, <1>2, <1>3, <1>4, PTL DEF SpmSpec

\* Even when try_lock fails, a pop is never one too many: every call whose
\* service has been entered has a slot below top_connection (spm_fn.rs:48-53).
THEOREM CallsCovered == SpmSpec => []StackCoversCalls
BY SharedInvariance, PTL
==============================================================================
