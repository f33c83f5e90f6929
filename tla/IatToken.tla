------------------------------ MODULE IatToken ------------------------------
(***************************************************************************)
(* How long an attestation token is (psa_token.rs, cose_sign1.rs).  The    *)
(* claims are encoded into a fixed buffer, wrapped in place as a byte      *)
(* string, hashed with a fixed context, signed, and written to the client. *)
(* Only lengths are kept: they decide every error of the encoders.         *)
(***************************************************************************)
EXTENDS Integers, Sequences

PayloadBufferSmall == 256                        \* mutant of PayloadBufferSize
PayloadBufferSize == 512
SigStructureMaxSize == 700
SignatureSize == 64
HashSize == 32

\* The head of a CBOR item (encode_cbor_major_len_header, and minicbor).
HeadLen(n) ==
    IF n <= 23 THEN 1 ELSE IF n <= 255 THEN 2 ELSE IF n <= 65535 THEN 3 ELSE 5

\* A byte or text string.
StringLen(n) == HeadLen(n) + n

------------------------------------------------------------------------------
(* Claims, in the order they are encoded.  A claim is its label and the    *)
(* length of its encoded value.                                            *)

NoComponent == [measurement |-> 0, signer |-> 0]

\* An array of at most one map with signer id (5) and measurement (2).
SwComponentsLen(c) ==
    HeadLen(1) + IF c = NoComponent THEN 0
                 ELSE HeadLen(2) + 1 + StringLen(c.signer) + 1 + StringLen(c.measurement)

Claim(key, len) == [key |-> key, len |-> len]

NonceClaim(challenge) == Claim(10, StringLen(challenge))
BootSeedClaim == Claim(268, StringLen(32))
SwComponentsClaim(c) == Claim(2399, SwComponentsLen(c))

\* What PlatformBuffers::collect gathers, with the lengths the platform gives.
CollectedClaims(c) ==
    <<Claim(256, StringLen(33)),      \* instance id
      Claim(265, StringLen(33)),      \* profile definition
      Claim(2394, HeadLen(1)),        \* client id
      Claim(2395, HeadLen(12288)),    \* security lifecycle (Secured)
      BootSeedClaim,
      SwComponentsClaim(c),
      Claim(2398, StringLen(19)),     \* certification reference
      Claim(2396, StringLen(32)),     \* implementation id
      Claim(2400, StringLen(24))>>    \* verification service

\* initial_attest_get_token, called from handle_get_token.
TokenClaims(challenge, c) == <<NonceClaim(challenge)>> \o CollectedClaims(c)

\* initial_attest_get_token_size, called from handle_get_token_size.
SizeClaims(challenge, c) ==
    <<NonceClaim(challenge), BootSeedClaim, SwComponentsClaim(c)>>

\* What the encoder has written after the head of the map and k claims.
PayloadLen(claims) ==
    LET written[k \in 0 .. Len(claims)] ==
          IF k = 0 THEN HeadLen(Len(claims))
          ELSE written[k - 1] + HeadLen(claims[k].key) + claims[k].len
    IN written[Len(claims)]

------------------------------------------------------------------------------
(* Lengths of the token. *)

BstrHeadOneByte(payload) == IF payload <= 23 THEN 1 ELSE 2   \* mutant of BstrHead
BstrHead(payload) ==
    IF payload <= 23 THEN 1 ELSE IF payload <= 255 THEN 2 ELSE IF payload <= 65535 THEN 3 ELSE 5

\* compute_initial_attestation_token_size: the announced length.
ComputedSize(claims) == PayloadLen(claims) + BstrHead(PayloadLen(claims)) + 73

\* encode_payload, then encode_payload_bstr_in_place, both in payload_buf.
PayloadFits(claims) == StringLen(PayloadLen(claims)) <= PayloadBufferSize

\* "Signature1", the protected headers, no external data, the payload.
SigStructureLen(claims) ==
    12 + StringLen(3) + StringLen(0) + StringLen(PayloadLen(claims))

\* What encode_from_payload_bstr writes: tag 18, array of 4, protected
\* headers, an empty map, the payload, the signature.
EncodedLen(claims) ==
    HeadLen(18) + HeadLen(4) + StringLen(3) + HeadLen(0)
      + StringLen(PayloadLen(claims)) + StringLen(SignatureSize)

==============================================================================
