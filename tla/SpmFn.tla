-------------------------------- MODULE SpmFn --------------------------------
(***************************************************************************)
(* The SFN dispatcher (spm_fn.rs): psa_call as a function call on the      *)
(* caller's thread, with the connection stack behind a mutex that is only  *)
(* ever tried, never waited for (libs/mutex.rs).                           *)
(*                                                                         *)
(* Every thread has a chain of nested calls, levels 1 .. depth[t]; only    *)
(* the deepest level runs.  A level moves through                          *)
(*    add      SpmFn::call, before the connection is on the stack          *)
(*    run      platform.call: the service executes                         *)
(*    take     with_active_connection, before the connection is out        *)
(*    body     the access closure runs on the connection's copy, unlocked  *)
(*    restore  before the copy is back on the stack                        *)
(*    pop      the service has returned, its connection not popped yet     *)
(* and add, take, restore and pop each try the mutex once.                 *)
(*                                                                         *)
(* Nothing here says who may call: SecureEntry adds the veneers that do.   *)
(***************************************************************************)
EXTENDS ConnectionArray, IoVec

CONSTANTS
    Threads,    \* the threads of control that can be inside the SPM
    NoThread,   \* the mutex is free
    Handles     \* ServiceHandle

\* A call nested deeper than the stack is refused before it runs.
MaxDepth == MaxConnections + 1
Levels == 1 .. MaxDepth

VARIABLES
    connections,  \* the stack behind the mutex
    lock,         \* Mutex::lock, and who holds it
    depth,        \* [Threads -> 0 .. MaxDepth], nested calls of each thread
    pc,           \* [Threads -> [Levels -> ...]]
    msg,          \* the handle in the PsaMsg passed to each level's service
    conn,         \* the level's own copy of a connection, or Absent
    index,        \* the slot the copy was taken from
    access        \* the access a level is carrying out

spmVars == <<connections, lock, depth, pc, msg, conn, index, access>>

NoAccess == [ins |-> {}, outs |-> {}]
LockSteps == {"add", "take", "restore", "pop"}
AnyHandle == CHOOSE h \in Handles : TRUE

Connection == ConnectionOf(Threads \X Levels, Handles)

ASSUME SpmFnAssumption ==
    /\ IsFiniteSet(Threads) /\ NoThread \notin Threads
    /\ Handles # {}
    /\ Absent \notin Connection

SpmTypeOK ==
    /\ connections \in StackOf(Connection)
    /\ lock \in Threads \cup {NoThread}
    /\ depth \in [Threads -> 0 .. MaxDepth]
    /\ pc \in [Threads -> [Levels -> LockSteps \cup {"idle", "run", "body"}]]
    /\ msg \in [Threads -> [Levels -> Handles]]
    /\ conn \in [Threads -> [Levels -> Connection \cup {Absent}]]
    /\ index \in [Threads -> [Levels -> Slots]]
    /\ access \in [Threads -> [Levels -> Accesses \cup {NoAccess}]]

SpmInit ==
    /\ connections = EmptyStack
    /\ lock = NoThread
    /\ depth = [t \in Threads |-> 0]
    /\ pc = [t \in Threads |-> [l \in Levels |-> "idle"]]
    /\ msg = [t \in Threads |-> [l \in Levels |-> AnyHandle]]
    /\ conn = [t \in Threads |-> [l \in Levels |-> Absent]]
    /\ index = [t \in Threads |-> [l \in Levels |-> 0]]
    /\ access = [t \in Threads |-> [l \in Levels |-> NoAccess]]

\* Level l is the one that runs, and it stands at step s.
At(t, l, s) == l = depth[t] /\ pc[t][l] = s

\* try_lock finds the mutex taken by another thread.
Busy(t) == lock \notin {t, NoThread}

Goto(t, l, s) == pc' = [pc EXCEPT ![t][l] = s]

\* Level l ends: what it kept on its stack frame is gone.
Leave(t, l) ==
    /\ depth' = [depth EXCEPT ![t] = l - 1]
    /\ pc' = [pc EXCEPT ![t][l] = "idle"]
    /\ msg' = [msg EXCEPT ![t][l] = AnyHandle]
    /\ conn' = [conn EXCEPT ![t][l] = Absent]

\* The access ends, with or without an error, and the service goes on.
Resume(t, l) ==
    /\ Goto(t, l, "run")
    /\ conn' = [conn EXCEPT ![t][l] = Absent]
    /\ index' = [index EXCEPT ![t][l] = 0]
    /\ access' = [access EXCEPT ![t][l] = NoAccess]

------------------------------------------------------------------------------

\* try_lock: the compare-exchange that succeeds.
TryLock(t, l) ==
    /\ l = depth[t] /\ pc[t][l] \in LockSteps
    /\ lock = NoThread
    /\ lock' = t
    /\ UNCHANGED <<connections, depth, pc, msg, conn, index, access>>

\* SpmFn::call with a connection call_from_slices has built.
Call(t, h, ins, outs) ==
    LET l == depth[t] + 1 IN
    /\ l \in Levels
    /\ depth' = [depth EXCEPT ![t] = l]
    /\ Goto(t, l, "add")
    /\ msg' = [msg EXCEPT ![t][l] = h]
    /\ conn' = [conn EXCEPT ![t][l] = NewConnection(<<t, l>>, h, ins, outs)]
    /\ UNCHANGED <<connections, lock, index, access>>

\* A running service, or one in the middle of an access closure, calls another.
NestedCall(t, l, h, ins, outs) ==
    /\ At(t, l, "run") \/ At(t, l, "body")
    /\ Call(t, h, ins, outs)

AddConnectionRetries(t, l) ==                  \* mutant of AddConnection
    /\ At(t, l, "add") /\ lock = t
    /\ lock' = NoThread
    /\ IF CanAdd(connections)
       THEN /\ connections' = Added(connections, conn[t][l])
            /\ Goto(t, l, "run")
            /\ conn' = [conn EXCEPT ![t][l] = Absent]
       ELSE UNCHANGED <<connections, pc, conn>>
    /\ UNCHANGED <<depth, msg, index, access>>

\* add_connection under the lock; a full stack answers ConnectionBusy.
AddConnection(t, l) ==
    /\ At(t, l, "add") /\ lock = t
    /\ lock' = NoThread
    /\ IF CanAdd(connections)
       THEN /\ connections' = Added(connections, conn[t][l])
            /\ Goto(t, l, "run")
            /\ conn' = [conn EXCEPT ![t][l] = Absent]
            /\ UNCHANGED <<depth, msg>>
       ELSE Leave(t, l) /\ UNCHANGED connections
    /\ UNCHANGED <<index, access>>

AddBusyIgnored(t, l) ==                        \* mutant of AddBusy
    /\ At(t, l, "add") /\ Busy(t)
    /\ Goto(t, l, "run")
    /\ UNCHANGED <<connections, lock, depth, msg, conn, index, access>>

\* MutexBusy: ConnectionBusy to the caller.
AddBusy(t, l) ==
    /\ At(t, l, "add") /\ Busy(t)
    /\ Leave(t, l)
    /\ UNCHANGED <<connections, lock, index, access>>

------------------------------------------------------------------------------

\* The service of level l asks for its vectors.  Services do not start an
\* access inside the closure of another.
Access(t, l, a) ==
    /\ At(t, l, "run")
    /\ Goto(t, l, "take")
    /\ access' = [access EXCEPT ![t][l] = a]
    /\ UNCHANGED <<connections, lock, depth, msg, conn, index>>

\* take_active_connection under the lock; with_validated_connection and the
\* prepare functions then work on the copy, which nobody else can see.
TakeConnection(t, l) ==
    /\ At(t, l, "take") /\ lock = t
    /\ lock' = NoThread
    /\ IF CanTake(connections)
       THEN LET c == Active(connections)
                valid == c.handle = msg[t][l] IN
            /\ connections' = Taken(connections)
            /\ index' = [index EXCEPT ![t][l] = connections.top - 1]
            /\ conn' = [conn EXCEPT ![t][l] =
                            IF valid THEN Begun(c, access[t][l]) ELSE c]
            /\ Goto(t, l, IF valid /\ CanBegin(c, access[t][l])
                          THEN "body" ELSE "restore")
            /\ UNCHANGED access
       ELSE Resume(t, l) /\ UNCHANGED connections
    /\ UNCHANGED <<depth, msg>>

\* MutexBusy: CommunicationFailure to the service.
TakeBusy(t, l) ==
    /\ At(t, l, "take") /\ Busy(t)
    /\ Resume(t, l)
    /\ UNCHANGED <<connections, lock, depth, msg>>

\* The closure returns, reporting n bytes for the output vector.
EndClosure(t, l, n) ==
    /\ At(t, l, "body")
    /\ conn' = [conn EXCEPT ![t][l] = Ended(@, access[t][l], n)]
    /\ Goto(t, l, "restore")
    /\ UNCHANGED <<connections, lock, depth, msg, index, access>>

\* restore_active_connection under the lock; its error loses the copy.
RestoreConnection(t, l) ==
    /\ At(t, l, "restore") /\ lock = t
    /\ lock' = NoThread
    /\ connections' = IF CanRestore(connections, index[t][l])
                      THEN Restored(connections, index[t][l], conn[t][l])
                      ELSE connections
    /\ Resume(t, l)
    /\ UNCHANGED <<depth, msg>>

\* MutexBusy loses the copy too.
RestoreBusy(t, l) ==
    /\ At(t, l, "restore") /\ Busy(t)
    /\ Resume(t, l)
    /\ UNCHANGED <<connections, lock, depth, msg>>

------------------------------------------------------------------------------

\* platform.call returns.
ServiceReturns(t, l) ==
    /\ At(t, l, "run")
    /\ Goto(t, l, "pop")
    /\ UNCHANGED <<connections, lock, depth, msg, conn, index, access>>

\* pop_connection under the lock, and back to the caller.
PopConnection(t, l) ==
    /\ At(t, l, "pop") /\ lock = t
    /\ lock' = NoThread
    /\ connections' = Popped(connections)
    /\ Leave(t, l)
    /\ UNCHANGED <<index, access>>

\* "let _ =": when the mutex is busy nothing is popped.
PopBusy(t, l) ==
    /\ At(t, l, "pop") /\ Busy(t)
    /\ Leave(t, l)
    /\ UNCHANGED <<connections, lock, index, access>>

\* What the SPM and the services do on their own, once a call is in.
SpmStep(t, l) ==
    \/ TryLock(t, l)
    \/ AddConnection(t, l)
    \/ AddBusy(t, l)
    \/ TakeConnection(t, l)
    \/ TakeBusy(t, l)
    \/ RestoreConnection(t, l)
    \/ RestoreBusy(t, l)
    \/ PopConnection(t, l)
    \/ PopBusy(t, l)

ServiceStep(t, l) ==
    \/ \E h \in Handles, ins, outs \in [VecIdx -> Sizes] : NestedCall(t, l, h, ins, outs)
    \/ \E a \in Accesses : Access(t, l, a)
    \/ \E n \in Written : EndClosure(t, l, n)
    \/ ServiceReturns(t, l)

TopCall(t) ==
    \E h \in Handles, ins, outs \in [VecIdx -> Sizes] :
        depth[t] = 0 /\ Call(t, h, ins, outs)

SpmNext ==
    \E t \in Threads : TopCall(t) \/ \E l \in Levels : SpmStep(t, l) \/ ServiceStep(t, l)

SpmSpec == SpmInit /\ [][SpmNext]_spmVars

------------------------------------------------------------------------------

\* Whoever shares the dispatcher, every call whose service has been entered
\* still has a slot to itself below top_connection: a leaked connection
\* (PopBusy) or a lost copy takes room, but no pop is ever one too many.
StackCoversCalls ==
    Cardinality({call \in Threads \X Levels :
        pc[call[1]][call[2]] \in {"run", "take", "body", "restore", "pop"}})
            <= connections.top

\* A level works on the connection of its own call: the slot it is about to
\* take, or the copy it has taken, was built by that call.  spm_fn.rs:60-61
\* says with_active_connection "can be called by multiple threads" that "need
\* access to different connections", yet the method always takes the top one.
OwnConnection ==
    \A t \in Threads, l \in Levels :
        /\ pc[t][l] = "take" /\ lock = t /\ CanTake(connections)
            => Active(connections).owner = <<t, l>>
        /\ pc[t][l] \in {"body", "restore"} => conn[t][l].owner = <<t, l>>
==============================================================================
