----------------------------- MODULE Attestation -----------------------------
(***************************************************************************)
(* The attestation and crypto services (spe_services, and the platform's   *)
(* boot seed in chips/psc3/src/services/attest.rs), called by one client   *)
(* at a time: SecureEntry shows that no two are inside.  The client asks   *)
(* for a token, for the size of a token, for a hash or for a signature;    *)
(* the attestation service fetches the boot seed from the TRNG once and    *)
(* calls the crypto service for the hash and the signature.                *)
(***************************************************************************)
EXTENDS Trng, IatToken

CONSTANTS
    Sizes,        \* lengths a client gives: of a challenge, of an input
    Rooms,        \* lengths of its output buffer
    BootRecords   \* what the boot loader may leave: [measurement, signer]

ASSUME AttestationAssumption ==
    /\ 32 \in Sizes /\ Sizes \subseteq Nat
    /\ Rooms \subseteq Nat
    /\ BootRecords \subseteq [measurement : Nat, signer : Nat]

VARIABLES
    bootRecord,   \* the boot record of this boot, never written
    seedInit,     \* STATE.init of boot_seed; STATE.seed is dest
    request,      \* the request being served
    pc,           \* where the service is
    out,          \* what the client's output buffer holds
    written,      \* the length the service committed
    status,       \* the answer
    announced,    \* the token sizes the client was told
    seeds         \* the boot seeds in the tokens it was given

callVars == <<request, pc, out, written, status>>
clientVars == <<bootRecord, announced, seeds>>
vars == <<trngVars, seedInit, callVars, clientVars>>

ChallengeSizes == {32, 48, 64}                \* challenge_size_is_supported
Types == {"GetToken", "GetTokenSize", "SignHash", "HashCompute", "HashOther", "Other"}
AttestTypes == {"GetToken", "GetTokenSize"}

\* size is the length of the input, or the challenge size that is asked
\* about; wellFormed: exactly one vector each way with a usize in it
\* (attestation), or a complete TfmCryptoPackIovec (crypto).
Request == [type : Types, size : Sizes, room : Nat, wellFormed : BOOLEAN]
NoRequest == [type |-> "Other", size |-> 32, room |-> 0, wellFormed |-> FALSE]

Steps == {"idle", "dispatch", "seed", "trng", "claims", "hash", "sign", "encode",
          "finish", "size", "crypto", "answered"}
Statuses == {"None", "Success", "InvalidArgument", "BufferTooSmall", "GenericError",
             "NotSupported", "ProgrammerError"}
Contents == {"client", "zero", "partial", "unpadded", "token", "size", "digest", "signature"}

TypeOK ==
    /\ TrngTypeOK
    /\ bootRecord \in BootRecords
    /\ seedInit \in BOOLEAN
    /\ request \in Request
    /\ pc \in Steps
    /\ out \in Contents
    /\ written \in 0 .. request.room
    /\ status \in Statuses
    /\ announced \in [ChallengeSizes -> Nat]
    /\ seeds \subseteq [1 .. SeedWords -> Word]

Init ==
    /\ TrngInitState
    /\ bootRecord \in BootRecords
    /\ seedInit = FALSE
    /\ request = NoRequest /\ pc = "idle"
    /\ out = "client" /\ written = 0 /\ status = "None"
    /\ announced = [c \in ChallengeSizes |-> 0]
    /\ seeds = {}

\* A step that only moves the service on.
Goto(step) ==
    /\ pc' = step
    /\ UNCHANGED <<request, out, written, status>>

\* The service returns s, n bytes committed, content in the buffer.
Answer(s, content, n) ==
    /\ pc' = "answered"
    /\ status' = s /\ out' = content /\ written' = n
    /\ UNCHANGED request

Refuse(s) == Answer(s, out, 0)

------------------------------------------------------------------------------
(* The client. *)

\* A buffer of any length, or of exactly the length it was told.
Ask ==
    /\ pc = "idle"
    /\ \E type \in Types, size \in Sizes, ok \in BOOLEAN :
       \E room \in Rooms \cup {announced[c] : c \in ChallengeSizes \cap {size}} :
         request' = [type |-> type, size |-> size, room |-> room, wellFormed |-> ok]
    /\ \/ request'.type \in AttestTypes \cup {"Other"} /\ pc' = "dispatch"
       \/ request'.type \notin AttestTypes /\ pc' = "crypto"
    /\ UNCHANGED <<out, written, status, trngVars, seedInit, clientVars>>

\* What psa_api returns: out_vec[0].len, which still is the buffer's length,
\* since nobody writes to the client's FFOutVec.
Reported == request.room

Announced == ComputedSize(SizeClaims(request.size, bootRecord))

\* The client notes what it was given, and the call is over.
ReadAnswer ==
    /\ pc = "answered"
    /\ announced' = IF status = "Success" /\ request.type = "GetTokenSize"
                      THEN [announced EXCEPT ![request.size] = Announced]
                      ELSE announced
    /\ seeds' = IF status = "Success" /\ request.type = "GetToken"
                  THEN seeds \cup {dest} ELSE seeds
    /\ pc' = "idle"
    /\ request' = NoRequest /\ out' = "client" /\ written' = 0 /\ status' = "None"
    /\ UNCHANGED <<trngVars, seedInit, bootRecord>>

------------------------------------------------------------------------------
(* AttestService. *)

Dispatch ==
    /\ pc = "dispatch"
    /\ CASE ~request.wellFormed -> Refuse("InvalidArgument")
         [] request.wellFormed /\ request.type \in AttestTypes -> Goto("seed")
         [] OTHER -> Refuse("NotSupported")
    /\ UNCHANGED <<trngVars, seedInit, clientVars>>

AfterSeed == IF request.type = "GetToken" THEN "claims" ELSE "size"

\* boot_seed: from the cache, or from the TRNG.
BootSeed ==
    /\ pc = "seed"
    /\ \/ seedInit /\ Goto(AfterSeed) /\ UNCHANGED driver
       \/ ~seedInit /\ Goto("trng") /\ driver' = "init"
    /\ UNCHANGED <<trng, word, dest, offset, seedInit, clientVars>>

SeedNotKept ==                                          \* mutant of SeedFilled
    /\ pc = "trng" /\ driver = "ok"
    /\ driver' = "off"
    /\ Goto(AfterSeed)
    /\ UNCHANGED <<trng, word, dest, offset, seedInit, clientVars>>

SeedFilled ==
    /\ pc = "trng" /\ driver = "ok"
    /\ seedInit' = TRUE
    /\ driver' = "off"
    /\ Goto(AfterSeed)
    /\ UNCHANGED <<trng, word, dest, offset, clientVars>>

SeedRetried ==                                          \* mutant of SeedFailed
    /\ pc = "trng" /\ driver = "error"
    /\ driver' = "init"
    /\ UNCHANGED <<trng, word, dest, offset, seedInit, callVars, clientVars>>

\* The next request starts over, from a TRNG that the monitor has stopped.
SeedFailed ==
    /\ pc = "trng" /\ driver = "error"
    /\ driver' = "off"
    /\ Refuse("GenericError")
    /\ UNCHANGED <<trng, word, dest, offset, seedInit, clientVars>>

Claims == TokenClaims(request.size, bootRecord)

\* handle_get_token from here on runs inside access_invec_outvec, whose
\* closure ends in Finish when the encoding fails.
Fail(s) ==
    /\ pc' = "finish" /\ status' = s
    /\ UNCHANGED <<request, out, written>>

EncodePayload ==
    /\ pc = "claims"
    /\ CASE request.size \notin ChallengeSizes -> Fail("InvalidArgument")
         [] request.size \in ChallengeSizes /\ ~PayloadFits(Claims) -> Fail("BufferTooSmall")
         [] OTHER -> Goto("hash")
    /\ UNCHANGED <<trngVars, seedInit, clientVars>>

\* The crypto service's answer; signerWorks is the ECDSA library's.
CryptoStatus(type, size, room, signerWorks) ==
    CASE type = "SignHash" /\ size # HashSize -> "InvalidArgument"
      [] type = "SignHash" /\ size = HashSize /\ room < SignatureSize -> "BufferTooSmall"
      [] type = "SignHash" /\ size = HashSize /\ room >= SignatureSize ->
           IF signerWorks THEN "Success" ELSE "GenericError"
      [] type = "HashCompute" -> IF room < HashSize THEN "BufferTooSmall" ELSE "Success"
      [] OTHER -> "NotSupported"

\* How the token encoder passes an error of the crypto service on.
MapError(s) == IF s = "BufferTooSmall" THEN s ELSE "InvalidArgument"

HashSigStructure ==
    /\ pc = "hash"
    /\ IF SigStructureLen(Claims) > SigStructureMaxSize
         THEN Fail("BufferTooSmall")
         ELSE LET s == CryptoStatus("HashCompute", SigStructureLen(Claims), HashSize, TRUE)
              IN  IF s = "Success" THEN Goto("sign") ELSE Fail(MapError(s))
    /\ UNCHANGED <<trngVars, seedInit, clientVars>>

SignDigest ==
    /\ pc = "sign"
    /\ \E works \in BOOLEAN :
         LET s == CryptoStatus("SignHash", HashSize, SignatureSize, works)
         IN  IF s = "Success" THEN Goto("encode") ELSE Fail(MapError(s))
    /\ UNCHANGED <<trngVars, seedInit, clientVars>>

EncodeTokenAnyRoom ==                                   \* mutant of EncodeToken
    /\ pc = "encode"
    /\ pc' = "finish"
    /\ out' = "unpadded" /\ written' = EncodedLen(Claims) /\ status' = "Success"
    /\ UNCHANGED <<request, trngVars, seedInit, clientVars>>

\* The COSE message goes straight into the client's buffer, as far as there
\* is room.
EncodeToken ==
    /\ pc = "encode"
    /\ pc' = "finish"
    /\ IF EncodedLen(Claims) <= request.room
         THEN out' = "unpadded" /\ written' = EncodedLen(Claims) /\ status' = "Success"
         ELSE out' = "partial" /\ written' = 0 /\ status' = "BufferTooSmall"
    /\ UNCHANGED <<request, trngVars, seedInit, clientVars>>

FinishAsIs ==                                                \* mutant of Finish
    /\ pc = "finish"
    /\ Answer(status, IF status = "Success" THEN "token" ELSE out, written)
    /\ UNCHANGED <<trngVars, seedInit, clientVars>>

\* The rest of the buffer, or all of it, is filled with 0.
Finish ==
    /\ pc = "finish"
    /\ Answer(status, IF status = "Success" THEN "token" ELSE "zero", written)
    /\ UNCHANGED <<trngVars, seedInit, clientVars>>

GetTokenSize ==
    /\ pc = "size"
    /\ CASE request.size \notin ChallengeSizes -> Refuse("InvalidArgument")
         [] request.size \in ChallengeSizes /\ request.room < 4 ->
              Answer("BufferTooSmall", "zero", 0)
         [] OTHER -> Answer("Success", "size", 4)
    /\ UNCHANGED <<trngVars, seedInit, clientVars>>

------------------------------------------------------------------------------
(* CryptoService, called by the client itself.  The closure's fill clears  *)
(* nothing on an error, since written_len is 0 there.                      *)

Crypto ==
    /\ pc = "crypto"
    /\ \E works \in BOOLEAN :
         LET s == CryptoStatus(request.type, request.size, request.room, works)
         IN  CASE ~request.wellFormed -> Refuse("ProgrammerError")
               [] request.wellFormed /\ s # "Success" -> Refuse(s)
               [] OTHER -> IF request.type = "SignHash"
                             THEN Answer(s, "signature", SignatureSize)
                             ELSE Answer(s, "digest", HashSize)
    /\ UNCHANGED <<trngVars, seedInit, clientVars>>

Service ==
    \/ Dispatch \/ BootSeed \/ SeedFilled \/ SeedFailed \/ EncodePayload
    \/ HashSigStructure \/ SignDigest \/ EncodeToken \/ Finish \/ GetTokenSize \/ Crypto

\* The hardware is followed only while the driver looks at it.  In between
\* nothing it does is seen again: after a failure the monitor has stopped it,
\* and after a success the driver is not called any more.
OnlyTrng == driver # "off" /\ UNCHANGED <<seedInit, callVars, clientVars>>

TrngStep == OnlyTrng /\ (Hardware \/ Driver)

Next == Ask \/ ReadAnswer \/ Service \/ TrngStep

Spec == Init /\ [][Next]_vars

\* The processor goes on, the TRNG starts up when enabled and, unless its
\* monitor stops it, delivers words.  Nothing makes a client ask.
FairSpec ==
    /\ Spec
    /\ WF_vars(Service) /\ WF_vars(ReadAnswer)
    /\ WF_vars(Driver /\ OnlyTrng)
    /\ WF_vars(HwInitialize /\ OnlyTrng)
    /\ WF_vars(HwGenerate /\ OnlyTrng)

------------------------------------------------------------------------------
(* Properties. *)

Product == [GetToken |-> "token", GetTokenSize |-> "size", SignHash |-> "signature",
            HashCompute |-> "digest"]

\* Whatever fails and wherever it fails, the client is left with the whole
\* answer and its length, or with an error, no length and nothing of a token
\* (handle_get_token writes into the client's buffer before it knows that
\* the token fits).
AllOrNothing ==
    pc = "answered" =>
      \/ /\ status = "Success"
         /\ out = Product[request.type] /\ written \in 1 .. request.room
      \/ /\ status \notin {"Success", "None"}
         /\ out \in {"client", "zero"} /\ written = 0

\* All tokens of one boot carry the same boot seed, also when an earlier
\* attempt to fetch it was given up half way (boot_seed's STATE).
OneSeedPerBoot == \A s, t \in seeds : s = t

\* No word of a seed that was given out had been read before or came out of
\* a generator that had failed its health tests (trng_wait_for_complete,
\* trng_mon_get_health_status).
SeedFromFreshWords ==
    \A s \in seeds : \A i \in 1 .. SeedWords : s[i].quality = "fresh"

\* A token is exactly as long as compute_initial_attestation_token_size says
\* for its claims ("the exact encoded size", psa_token.rs).
ComputedIsEncoded ==
    pc = "answered" /\ status = "Success" /\ request.type = "GetToken"
      => written = ComputedSize(Claims)

\* A client that is told its buffer is too small succeeds with a larger one:
\* the fixed buffers inside the service are never what is too small.
TooSmallIsTheClients ==
    pc = "answered" /\ status = "BufferTooSmall" /\ request.type = "GetToken"
      => request.room < EncodedLen(Claims)

\* Every request is answered, however the health monitor interrupts the TRNG:
\* neither wait loop of the driver is left spinning.
EveryRequestAnswered == pc = "dispatch" ~> pc = "answered"

\* A buffer of the length that initial_attest_get_token_size announced
\* ("Compute exact encoded byte length of initial attestation token for given
\* challenge size", attest_service.rs) is large enough for the token.
AnnouncedSizeSuffices ==
    pc = "answered" /\ status = "BufferTooSmall" /\ request.type = "GetToken"
      => announced[request.size] = 0 \/ request.room < announced[request.size]

\* psa_hash_compute and psa_sign_hash return "the number of bytes written"
\* (psa_api.rs).
ReportsWritten ==
    pc = "answered" /\ status = "Success" /\ request.type \in {"HashCompute", "SignHash"}
      => Reported = written

==============================================================================
