--------------------------- MODULE ConnectionArray ---------------------------
(***************************************************************************)
(* The connection stack of the secure partition manager (spm.rs).          *)
(*                                                                         *)
(* ConnectionArray keeps MAX_CONNECTIONS slots, a presence flag per slot   *)
(* and top_connection.  A slot that is not present is never read, so slot  *)
(* and flag are one value here: the connection, or Absent.  Every method   *)
(* is a guard (its early returns) and the stack it leaves behind; a        *)
(* method whose guard fails returns an error and changes nothing.          *)
(***************************************************************************)
EXTENDS Integers

CONSTANTS
    MaxConnections,  \* MAX_CONNECTIONS, the number of slots
    Absent           \* an empty slot: present[i] = false

ASSUME MaxConnectionsAssumption == MaxConnections \in Nat \ {0}

Slots == 0 .. MaxConnections - 1

EmptyStack == [slots |-> [i \in Slots |-> Absent], top |-> 0]

\* The stacks whose slots hold connections of C.
StackOf(C) == [slots : [Slots -> C \cup {Absent}], top : 0 .. MaxConnections]

------------------------------------------------------------------------------

\* add_connection: ConnectionStackFull, or the connection in the top slot.
CanAddOffByOne(s) == s.top <= MaxConnections   \* mutant of CanAdd

CanAdd(s) == s.top < MaxConnections

Added(s, c) == [slots |-> [s.slots EXCEPT ![s.top] = c], top |-> s.top + 1]

\* take_active_connection and peek_active_connection refuse an empty stack
\* and a top slot whose connection is out.
CanTake(s) == s.top > 0 /\ s.slots[s.top - 1] # Absent

ActiveIsOldest(s) == s.slots[0]                \* mutant of Active

Active(s) == s.slots[s.top - 1]

Taken(s) == [s EXCEPT !.slots = [@ EXCEPT ![s.top - 1] = Absent]]

\* restore_active_connection looks at the slot only, not at top_connection.
CanRestore(s, i) == i \in Slots /\ s.slots[i] = Absent

RestoredAbove(s, i, c) ==                      \* mutant of Restored
    [s EXCEPT !.slots = [@ EXCEPT ![(i + 1) % MaxConnections] = c]]

Restored(s, i, c) == [s EXCEPT !.slots = [@ EXCEPT ![i] = c]]

\* pop_connection never fails: an empty stack stays as it is.
PoppedTwice(s) ==                              \* mutant of Popped
    [slots |-> [s.slots EXCEPT ![s.top - 1] = Absent], top |-> s.top - 2]

PoppedKeepsSlot(s) ==                          \* mutant of Popped
    IF s.top = 0 THEN s ELSE [s EXCEPT !.top = @ - 1]

Popped(s) ==
    IF s.top = 0 THEN s
    ELSE [slots |-> [s.slots EXCEPT ![s.top - 1] = Absent], top |-> s.top - 1]
==============================================================================
