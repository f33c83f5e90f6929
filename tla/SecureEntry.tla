----------------------------- MODULE SecureEntry -----------------------------
(***************************************************************************)
(* The SFN partition manager as it is deployed: non-secure threads reach   *)
(* it only through the veneers, which refuse whoever finds another client  *)
(* inside (veneers.rs, and psa_call_veneer in spm_api/api.rs).             *)
(*                                                                         *)
(* Threads are the non-secure client threads, which an interrupt can       *)
(* switch at any point, also while one of them is in the secure world.     *)
(***************************************************************************)
EXTENDS SpmFn, Sequences

VARIABLES
    inSecureState,  \* IN_SECURE_STATE
    stage           \* [Threads -> where each client is]: "ns", outside;
                    \* "entered", past the gate; "calling", in SpmCall::call;
                    \* "leaving", with the answer in hand

vars == <<connections, lock, depth, pc, msg, conn, index, access,
          inSecureState, stage>>

TypeOK ==
    /\ SpmTypeOK
    /\ inSecureState \in BOOLEAN
    /\ stage \in [Threads -> {"ns", "entered", "calling", "leaving"}]

Init ==
    /\ SpmInit
    /\ inSecureState = FALSE
    /\ stage = [t \in Threads |-> "ns"]

------------------------------------------------------------------------------

EnterSecureStateUnchecked(t) ==                \* mutant of EnterSecureState
    /\ stage[t] = "ns"
    /\ inSecureState' = TRUE
    /\ stage' = [stage EXCEPT ![t] = "entered"]
    /\ UNCHANGED spmVars

\* enter_secure_state: the swap sets the flag also for the client it refuses.
EnterSecureState(t) ==
    /\ stage[t] = "ns"
    /\ inSecureState' = TRUE
    /\ stage' = IF inSecureState THEN stage ELSE [stage EXCEPT ![t] = "entered"]
    /\ UNCHANGED spmVars

\* psa_framework_version_veneer and psa_version_veneer answer without the
\* stack, and so does a psa_call whose parameters call_from_slices refuses.
Answer(t) ==
    /\ stage[t] = "entered"
    /\ stage' = [stage EXCEPT ![t] = "leaving"]
    /\ UNCHANGED <<spmVars, inSecureState>>

\* psa_call_impl with valid parameters.
PsaCall(t) ==
    /\ stage[t] = "entered"
    /\ TopCall(t)
    /\ stage' = [stage EXCEPT ![t] = "calling"]
    /\ UNCHANGED inSecureState

Spm(t, l) == SpmStep(t, l) /\ UNCHANGED <<inSecureState, stage>>

Service(t, l) == ServiceStep(t, l) /\ UNCHANGED <<inSecureState, stage>>

\* SpmCall::call has returned.
PsaCallReturns(t) ==
    /\ stage[t] = "calling" /\ depth[t] = 0
    /\ stage' = [stage EXCEPT ![t] = "leaving"]
    /\ UNCHANGED <<spmVars, inSecureState>>

ExitSecureState(t) ==
    /\ stage[t] = "leaving"
    /\ inSecureState' = FALSE
    /\ stage' = [stage EXCEPT ![t] = "ns"]
    /\ UNCHANGED spmVars

Next ==
    \E t \in Threads :
        \/ EnterSecureState(t)
        \/ Answer(t)
        \/ PsaCall(t)
        \/ \E l \in Levels : Spm(t, l) \/ Service(t, l)
        \/ PsaCallReturns(t)
        \/ ExitSecureState(t)

Spec == Init /\ [][Next]_vars

\* A client past the gate is eventually resumed and runs on.  A service makes
\* finitely many accesses and calls before it returns, and an access closure
\* finitely many calls before it ends; clients need not ever enter again.
Fairness ==
    \A t \in Threads :
        /\ WF_vars(Answer(t) \/ PsaCall(t) \/ PsaCallReturns(t) \/ ExitSecureState(t))
        /\ WF_vars(\E l \in Levels : Spm(t, l))
        /\ \A l \in 1 .. MaxConnections :
            /\ SF_vars(ServiceReturns(t, l) /\ UNCHANGED <<inSecureState, stage>>)
            /\ SF_vars(/\ \E n \in Written : EndClosure(t, l, n)
                       /\ UNCHANGED <<inSecureState, stage>>)

FairSpec == Spec /\ Fairness

------------------------------------------------------------------------------

\* The mutex is only tried, so a caller that meets it taken loses its call,
\* its copy or its pop (spm_fn.rs:48, 70-76, 83, 52).  Behind the veneers no
\* caller ever does.
NeverBusy == \A t \in Threads, l \in Levels : At(t, l, pc[t][l]) => ~Busy(t)

\* What with_active_connection takes is there, and goes back where it was:
\* no access of a service fails for the state of the stack
\* (CommunicationFailure, connection.rs:41-44, or InvalidHandle).
AccessFindsConnection ==
    \A t \in Threads, l \in Levels :
        /\ At(t, l, "take") => /\ CanTake(connections)
                               /\ Active(connections).owner = <<t, l>>
                               /\ Active(connections).handle = msg[t][l]
        /\ At(t, l, "restore") => /\ CanRestore(connections, index[t][l])
                                  /\ index[t][l] = connections.top - 1
                                  /\ conn[t][l].owner = <<t, l>>

\* When the secure world is left nothing of a call stays behind on the stack.
NothingLeaks ==
    (\A t \in Threads : stage[t] # "calling") => connections = EmptyStack

\* The calls that are open, outermost first: each on its slot, or out as the
\* copy its level works on.
Inside == {t \in Threads : stage[t] # "ns"}

TheClient == IF Inside = {} THEN NoThread ELSE CHOOSE t \in Inside : TRUE

OpenConnection(i) ==
    IF connections.slots[i] # Absent THEN connections.slots[i]
    ELSE conn[TheClient][i + 1]

OpenCall(c) ==
    LET vec(v) == IF v[1] = "in" THEN c.invec[v[2]] ELSE c.outvec[v[2]] IN
    [service |-> c.handle,
     given  |-> {v \in {"in", "out"} \X VecIdx : vec(v).mapped},
     closed |-> {v \in {"in", "out"} \X VecIdx : vec(v).unmapped},
     size   |-> [v \in {"in", "out"} \X VecIdx |-> vec(v).size]]

Promise == INSTANCE PsaCalls WITH
    Clients <- Threads, NoClient <- NoThread, Services <- Handles,
    Indices <- VecIdx, Capacity <- MaxConnections, Lengths <- Written,
    client <- TheClient,
    calls <- [i \in 1 .. connections.top |-> OpenCall(OpenConnection(i - 1))]

\* The dispatcher behind the veneers keeps the promise of PsaCalls.
KeepsPromise == Promise!Spec

\* The gate opens again and again.  Only an exit opens it, so whoever enters the
\* secure world leaves it: no step of the SPM waits for another thread, and no
\* service is asked for what it cannot get.  (Veneers refuse instead of
\* queueing: a client that is refused has no guarantee.)
GateReopens == []<>(~inSecureState)
==============================================================================
