------------------------------- MODULE PsaCalls -------------------------------
(***************************************************************************)
(* What the secure partition manager promises its callers, without mutex,  *)
(* slots, copies or flags:                                                 *)
(*                                                                         *)
(*   - one client at a time is inside, and psa_calls nest: only the call   *)
(*     opened last does anything until it is closed;                       *)
(*   - while it does, the calls below it keep their vectors as they are;   *)
(*   - a call hands each of its vectors out once, finishes only vectors    *)
(*     it was handed, each once, and reports no more bytes than the client *)
(*     made room for.                                                      *)
(***************************************************************************)
EXTENDS Integers, Sequences

CONSTANTS
    Clients,      \* who may call
    NoClient,     \* nobody is inside
    Services,     \* who may be called
    Indices,      \* of the vectors of one direction
    Capacity,     \* the deepest nesting
    Lengths       \* the buffer sizes that occur

VARIABLES
    client,   \* the client inside, or NoClient
    calls     \* the open calls, the innermost last

vars == <<client, calls>>

Vectors == {"in", "out"} \X Indices

Call == [service : Services, given : SUBSET Vectors, closed : SUBSET Vectors,
         size : [Vectors -> Lengths]]

Init == client = NoClient /\ calls = <<>>

Enter(c) ==
    /\ client = NoClient
    /\ client' = c
    /\ UNCHANGED calls

Exit ==
    /\ client # NoClient /\ calls = <<>>
    /\ client' = NoClient
    /\ UNCHANGED calls

Open(s, size) ==
    /\ client # NoClient /\ Len(calls) < Capacity
    /\ calls' = Append(calls, [service |-> s, given |-> {}, closed |-> {}, size |-> size])
    /\ UNCHANGED client

Close ==
    /\ calls # <<>>
    /\ calls' = SubSeq(calls, 1, Len(calls) - 1)
    /\ UNCHANGED client

\* Only the innermost call changes.
Innermost(c) ==
    /\ calls # <<>>
    /\ calls' = [calls EXCEPT ![Len(calls)] = c]
    /\ UNCHANGED client

Give(V) ==
    LET c == calls[Len(calls)] IN
    /\ calls # <<>>
    /\ V \cap c.given = {}
    /\ Innermost([c EXCEPT !.given = @ \cup V])

\* Input vectors keep their size, output vectors get the length written.
Finish(V, n) ==
    LET c == calls[Len(calls)] IN
    /\ calls # <<>>
    /\ V \subseteq c.given \ c.closed
    /\ \A v \in V : v[1] = "out" => n <= c.size[v]
    /\ Innermost([c EXCEPT !.closed = @ \cup V,
                           !.size = [v \in Vectors |->
                               IF v \in V /\ v[1] = "out" THEN n ELSE @[v]]])

Next ==
    \/ \E c \in Clients : Enter(c)
    \/ Exit
    \/ \E s \in Services, size \in [Vectors -> Lengths] : Open(s, size)
    \/ Close
    \/ \E V \in SUBSET Vectors : Give(V)
    \/ \E V \in SUBSET Vectors, n \in Lengths : Finish(V, n)

Spec == Init /\ [][Next]_vars
===============================================================================
