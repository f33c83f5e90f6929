------------------------------- MODULE MCSpmIpc -------------------------------
(***************************************************************************)
(* The psc3m5_evk board with its two services (services/*/build.py and     *)
(* secure_ipc/src/main.rs), and a third one that attestation and crypto    *)
(* may call, so that the connection stack can fill up.                     *)
(***************************************************************************)
EXTENDS SpmIpc

CONSTANTS attest, crypto, storage, other

Area(base, size) == [base |-> base, size |-> size]

MCHandles == {attest, crypto, storage, other}
MCProcesses == {attest, crypto, storage}
MCHasRoom == {attest, crypto}

MCRank == [h \in MCHandles |->
    IF h = attest THEN 2 ELSE IF h = crypto THEN 1 ELSE 0]

MCRom == [p \in MCProcesses |->
    IF p = attest THEN Area(\h32010000, \h4800)
    ELSE IF p = crypto THEN Area(\h32014800, \h8000)
    ELSE Area(\h32008000, \h1000)]

MCRam == [p \in MCProcesses |->
    IF p = attest THEN Area(\h34002300, \hC00)
    ELSE IF p = crypto THEN Area(\h34003C00, \h1500)
    ELSE Area(\h34001000, \h1000)]

MCCustom == [p \in MCProcesses |->
    IF p = attest
    THEN <<[base |-> \h42230000, size |-> \h200, perm |-> "ReadWriteXN"],
           [base |-> \h42610180, size |-> \h20, perm |-> "ReadXN"],
           [base |-> \h32007F00, size |-> \h100, perm |-> "ReadXN"]>>
    ELSE <<>>]

NoVector == [base |-> 0, size |-> 0]

\* Each caller's buffers lie in its own RAM.  The input starts in the middle
\* of a granule and crosses into the next; the output fits in the one after.
MCRamOf == [c \in MCProcesses \cup {Client} |->
    IF c = Client THEN \h24005100 ELSE MCRam[c].base]

MCInBuffers == [c \in MCProcesses \cup {Client} |->
    {NoVector, [base |-> MCRamOf[c] + 28, size |-> 6]}]

MCOutBuffers == [c \in MCProcesses \cup {Client} |->
    {NoVector, [base |-> MCRamOf[c] + 68, size |-> 2]}]

\* As a compiler may lay them out on a stack: the output follows the input.
MCAdjacentOut == [c \in MCProcesses \cup {Client} |->
    {[base |-> MCRamOf[c] + 36, size |-> 2]}]
===============================================================================
