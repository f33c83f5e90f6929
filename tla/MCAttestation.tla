---------------------------- MODULE MCAttestation ----------------------------
(* Constants for TLC that a .cfg cannot write. *)
EXTENDS Attestation

\* No boot record, or the one of a boot loader that hashes with SHA-256.
MCBootRecords == {NoComponent, [measurement |-> 32, signer |-> 32]}

\* 31 is no challenge and no digest.
MCSizes == {31, 32, 64}

\* Around every limit: the size answer, a digest, a signature, and one short
\* of and exactly the token for the smallest and the largest challenge.
TokenLens ==
    {EncodedLen(TokenClaims(c, r)) : c \in {32, 64}, r \in MCBootRecords}
MCRooms == {3, 4, 31, 32, 64} \cup TokenLens \cup {n - 1 : n \in TokenLens}

==============================================================================
