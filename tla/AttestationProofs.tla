-------------------------- MODULE AttestationProofs --------------------------
(***************************************************************************)
(* Proofs about the attestation and crypto services, for any lengths the   *)
(* client gives, any boot records, any length of the seed and any values   *)
(* of the random words.                                                    *)
(*                                                                         *)
(* The length of a token is a recursion along its claims: PayloadDef shows *)
(* that the recursion has a solution, and TokenPayload what it comes to.   *)
(***************************************************************************)
EXTENDS Attestation, NumberInduction, SequenceTheorems

------------------------------------------------------------------------------
(* Lengths. *)

ClaimType == [key : Nat, len : Nat]

\* The lengths after each claim.
Lengths(claims) ==
    LET upTo[k \in 0 .. Len(claims)] ==
          IF k = 0 THEN HeadLen(Len(claims))
          ELSE upTo[k - 1] + HeadLen(claims[k].key) + claims[k].len
    IN upTo

LEMMA HeadLenType == \A n \in Nat : HeadLen(n) \in {1, 2, 3, 5}
BY DEF HeadLen

\* The recursion has a solution, and Lengths is one.
LEMMA PayloadDef ==
    ASSUME NEW claims \in Seq(ClaimType)
    PROVE  /\ PayloadLen(claims) = Lengths(claims)[Len(claims)]
           /\ Lengths(claims)[0] = HeadLen(Len(claims))
           /\ \A k \in 1 .. Len(claims) : Lengths(claims)[k] =
                Lengths(claims)[k - 1] + HeadLen(claims[k].key) + claims[k].len
<1> DEFINE Step(w, k) == IF k = 0 THEN HeadLen(Len(claims))
                         ELSE w[k - 1] + HeadLen(claims[k].key) + claims[k].len
           Solves(w, n) == w = [k \in 0 .. n |-> Step(w, k)]
           S == {n \in Nat : \E w : Solves(w, n)}
<1>1. 0 \in S
  <2>1. Solves([k \in 0 .. 0 |-> HeadLen(Len(claims))], 0)
    OBVIOUS
  <2>. QED BY <2>1
<1>2. ASSUME NEW n \in Nat, n \in S PROVE n + 1 \in S
  <2>1. PICK c : Solves(c, n)
    BY <1>2
  <2> DEFINE d == [k \in 0 .. n + 1 |-> IF k = n + 1 THEN Step(c, k) ELSE c[k]]
  <2>2. \A k \in 0 .. n : d[k] = c[k] /\ c[k] = Step(c, k)
    BY <2>1
  <2>3. \A k \in 0 .. n + 1 : d[k] = Step(d, k)
    <3> TAKE k \in 0 .. n + 1
    <3>1. CASE k = n + 1
      BY <2>2, <3>1
    <3>2. CASE k # n + 1
      <4>1. k \in 0 .. n
        BY <3>2
      <4>2. d[k] = Step(c, k)
        <5> HIDE DEF d, Step
        <5>. QED BY <2>2, <4>1
      <4>3. k # 0 => d[k - 1] = c[k - 1]
        BY <2>2, <4>1
      <4> HIDE DEF d
      <4>. QED BY <4>2, <4>3
    <3>. QED BY <3>1, <3>2
  <2>4. Solves(d, n + 1)
    BY <2>3
  <2> HIDE DEF d, Solves
  <2>. QED BY <2>4
<1>3. Len(claims) \in S
  <2> HIDE DEF S
  <2>. QED BY <1>1, <1>2, Induction
<1>4. Lengths(claims) = CHOOSE w : Solves(w, Len(claims))
  BY DEF Lengths
<1>5. Solves(Lengths(claims), Len(claims))
  <2> HIDE DEF Solves
  <2>. QED BY <1>3, <1>4
<1>6. PayloadLen(claims) = Lengths(claims)[Len(claims)]
  BY DEF PayloadLen, Lengths
<1>7. \A k \in 0 .. Len(claims) : Lengths(claims)[k] = Step(Lengths(claims), k)
  <2> HIDE DEF Step
  <2>. QED BY <1>5
<1>. QED BY <1>6, <1>7

LEMMA PayloadType ==
    ASSUME NEW claims \in Seq(ClaimType)
    PROVE  PayloadLen(claims) \in Nat
<1> DEFINE S == {n \in Nat : n <= Len(claims) => Lengths(claims)[n] \in Nat}
<1>1. 0 \in S
  BY PayloadDef, HeadLenType
<1>2. ASSUME NEW n \in Nat, n \in S PROVE n + 1 \in S
  <2> SUFFICES ASSUME n + 1 <= Len(claims) PROVE Lengths(claims)[n + 1] \in Nat
    OBVIOUS
  <2>1. claims[n + 1] \in ClaimType /\ Lengths(claims)[n] \in Nat
    BY <1>2
  <2>2. claims[n + 1].len \in Nat /\ HeadLen(claims[n + 1].key) \in Nat
    <3>1. claims[n + 1].len \in Nat /\ claims[n + 1].key \in Nat
      BY <2>1 DEF ClaimType
    <3>. QED BY <3>1, HeadLenType
  <2>3. Lengths(claims)[n + 1] = Lengths(claims)[n] + HeadLen(claims[n + 1].key) + claims[n + 1].len
    BY PayloadDef
  <2>. QED BY <2>1, <2>2, <2>3
<1>3. Len(claims) \in S
  <2> HIDE DEF S
  <2>. QED BY <1>1, <1>2, Induction
<1>. QED BY <1>3, PayloadDef

BootRecord == [measurement : Nat, signer : Nat]

LEMMA ClaimsType ==
    ASSUME NEW n \in Nat, NEW r \in BootRecord
    PROVE  /\ TokenClaims(n, r) \in Seq(ClaimType)
           /\ SizeClaims(n, r) \in Seq(ClaimType)
           /\ CollectedClaims(r) \in Seq(ClaimType) /\ <<NonceClaim(n)>> \in Seq(ClaimType)
<1>1. \A k \in Nat : StringLen(k) \in Nat
  BY HeadLenType DEF StringLen
<1>2. SwComponentsLen(r) \in Nat
  BY <1>1, HeadLenType DEF SwComponentsLen, BootRecord
<1>3. \A key, len \in Nat : Claim(key, len) \in ClaimType
  BY DEF Claim, ClaimType
<1>4. NonceClaim(n) \in ClaimType /\ BootSeedClaim \in ClaimType /\ SwComponentsClaim(r) \in ClaimType
  BY <1>1, <1>2, <1>3 DEF NonceClaim, BootSeedClaim, SwComponentsClaim
<1>5. CollectedClaims(r) \in Seq(ClaimType)
  <2>1. HeadLen(1) \in Nat /\ HeadLen(12288) \in Nat
    BY HeadLenType
  <2>2. /\ Claim(256, StringLen(33)) \in ClaimType /\ Claim(265, StringLen(33)) \in ClaimType
        /\ Claim(2394, HeadLen(1)) \in ClaimType /\ Claim(2395, HeadLen(12288)) \in ClaimType
        /\ Claim(2398, StringLen(19)) \in ClaimType /\ Claim(2396, StringLen(32)) \in ClaimType
        /\ Claim(2400, StringLen(24)) \in ClaimType
    BY <1>1, <1>3, <2>1
  <2>. QED BY <1>4, <2>2 DEF CollectedClaims
<1>6. <<NonceClaim(n)>> \in Seq(ClaimType)
  BY <1>4
<1>. QED BY <1>4, <1>5, <1>6 DEF TokenClaims, SizeClaims

\* The sum of the fixed lengths that compute_initial_attestation_token_size
\* writes as 73 is what encode_from_payload_bstr adds to the payload.
LEMMA ComputedEqualsEncoded ==
    ASSUME NEW claims \in Seq(ClaimType)
    PROVE  /\ ComputedSize(claims) = EncodedLen(claims)
           /\ EncodedLen(claims) \in Nat /\ EncodedLen(claims) > 0
<1>1. PICK p \in Nat : p = PayloadLen(claims)
  BY PayloadType
<1>2. BstrHead(p) = HeadLen(p) /\ HeadLen(p) \in Nat
  BY HeadLenType DEF BstrHead, HeadLen
<1>3. /\ HeadLen(18) = 1 /\ HeadLen(4) = 1 /\ HeadLen(0) = 1
      /\ StringLen(3) = 4 /\ StringLen(SignatureSize) = 66
  BY DEF HeadLen, StringLen, SignatureSize
<1>. QED BY <1>1, <1>2, <1>3 DEF ComputedSize, EncodedLen, StringLen

\* How long the payload of a token is.
LEMMA TokenPayload ==
    ASSUME NEW n \in Nat, NEW r \in BootRecord
    PROVE  PayloadLen(TokenClaims(n, r)) = 217 + StringLen(n) + SwComponentsLen(r)
<1> DEFINE claims == TokenClaims(n, r)
           w == Lengths(claims)
<1>1. claims \in Seq(ClaimType)
  BY ClaimsType
<1>2. /\ Len(CollectedClaims(r)) = 9 /\ Len(<<NonceClaim(n)>>) = 1
      /\ CollectedClaims(r) \in Seq(ClaimType) /\ <<NonceClaim(n)>> \in Seq(ClaimType)
  BY ClaimsType DEF CollectedClaims
<1>3. /\ Len(claims) = 10 /\ claims[1] = NonceClaim(n)
      /\ \A k \in 2 .. 10 : claims[k] = CollectedClaims(r)[k - 1]
  <2> DEFINE s == <<NonceClaim(n)>>
             t == CollectedClaims(r)
  <2>1. claims = s \o t /\ s[1] = NonceClaim(n)
    BY DEF TokenClaims
  <2> DEFINE u == s \o t
             p == Len(s)
             q == Len(t)
             l == Len(s \o t)
  <2>2. s \in Seq(ClaimType) /\ t \in Seq(ClaimType) /\ p = 1 /\ q = 9
    BY <1>2
  <2> HIDE DEF s, t, claims
  <2>3. l = p + q /\ \A k \in 1 .. p + q : u[k] = IF k <= p THEN s[k] ELSE t[k - p]
    BY <2>2, ConcatProperties
  <2>4. claims = u /\ Len(claims) = l
    BY <2>1
  <2> HIDE DEF u, p, q, l
  <2>5. /\ Len(claims) = 10 /\ claims[1] = s[1]
        /\ \A k \in 2 .. 10 : claims[k] = t[k - 1]
    <3>1. l = 10 /\ u[1] = s[1] /\ \A k \in 2 .. 10 : u[k] = t[k - 1]
      BY <2>2, <2>3
    <3>. QED BY <2>4, <3>1
  <2>. QED BY <2>1, <2>5 DEF t
<1>4. /\ claims[1] = Claim(10, StringLen(n))
      /\ claims[2] = Claim(256, StringLen(33)) /\ claims[3] = Claim(265, StringLen(33))
      /\ claims[4] = Claim(2394, HeadLen(1)) /\ claims[5] = Claim(2395, HeadLen(12288))
      /\ claims[6] = Claim(268, StringLen(32)) /\ claims[7] = Claim(2399, SwComponentsLen(r))
      /\ claims[8] = Claim(2398, StringLen(19)) /\ claims[9] = Claim(2396, StringLen(32))
      /\ claims[10] = Claim(2400, StringLen(24))
  BY <1>3 DEF CollectedClaims, NonceClaim, BootSeedClaim, SwComponentsClaim
<1>5. StringLen(n) \in Nat /\ SwComponentsLen(r) \in Nat
  BY HeadLenType DEF StringLen, SwComponentsLen, BootRecord
<1> HIDE DEF claims
<1>6. /\ PayloadLen(claims) = w[10] /\ w[0] = HeadLen(10)
      /\ \A k \in 1 .. 10 : w[k] = w[k - 1] + HeadLen(claims[k].key) + claims[k].len
  BY <1>1, <1>3, PayloadDef
<1> HIDE DEF w
<1>7. /\ HeadLen(1) = 1 /\ HeadLen(10) = 1 /\ HeadLen(12288) = 3
      /\ HeadLen(256) = 3 /\ HeadLen(265) = 3 /\ HeadLen(268) = 3
      /\ HeadLen(2394) = 3 /\ HeadLen(2395) = 3 /\ HeadLen(2396) = 3
      /\ HeadLen(2398) = 3 /\ HeadLen(2399) = 3 /\ HeadLen(2400) = 3
  BY DEF HeadLen
<1>8. StringLen(33) = 35 /\ StringLen(32) = 34 /\ StringLen(19) = 20 /\ StringLen(24) = 26
  BY DEF StringLen, HeadLen
<1>9. w[0] = 1 /\ w[1] = 2 + StringLen(n)
  BY <1>4, <1>5, <1>6, <1>7 DEF Claim
<1>10. w[2] = w[1] + 38 /\ w[3] = w[1] + 76
  BY <1>4, <1>5, <1>6, <1>7, <1>8, <1>9 DEF Claim
<1>11. w[4] = w[3] + 4 /\ w[5] = w[3] + 10 /\ w[6] = w[3] + 47
  BY <1>4, <1>5, <1>6, <1>7, <1>8, <1>9, <1>10 DEF Claim
<1>12. w[7] = w[6] + 3 + SwComponentsLen(r)
  BY <1>4, <1>5, <1>6, <1>7, <1>9, <1>10, <1>11 DEF Claim
<1>13. w[8] = w[7] + 23 /\ w[9] = w[7] + 60 /\ w[10] = w[7] + 89
  BY <1>4, <1>5, <1>6, <1>7, <1>8, <1>9, <1>10, <1>11, <1>12 DEF Claim
<1>. QED BY <1>5, <1>6, <1>9, <1>10, <1>11, <1>12, <1>13 DEF claims

\* A boot record of at most 218 bytes leaves room in every buffer of the
\* service, for the longest challenge.
LEMMA BuffersSuffice ==
    ASSUME NEW n \in ChallengeSizes, NEW r \in BootRecord, r.measurement + r.signer <= 218
    PROVE  /\ PayloadFits(TokenClaims(n, r))
           /\ SigStructureLen(TokenClaims(n, r)) \in Nat
           /\ SigStructureLen(TokenClaims(n, r)) <= SigStructureMaxSize
<1>1. n \in Nat /\ StringLen(n) <= 66 /\ StringLen(n) \in Nat
  BY DEF ChallengeSizes, StringLen, HeadLen
<1>2. SwComponentsLen(r) \in Nat /\ SwComponentsLen(r) <= 226
  <2>1. r.measurement \in 0 .. 218 /\ r.signer \in 0 .. 218
    BY DEF BootRecord
  <2>2. \A k \in 0 .. 218 : HeadLen(k) \in 1 .. 2
    BY DEF HeadLen
  <2>3. HeadLen(1) = 1 /\ HeadLen(2) = 1
    BY DEF HeadLen
  <2>4. /\ StringLen(r.measurement) \in Nat /\ StringLen(r.measurement) <= r.measurement + 2
        /\ StringLen(r.signer) \in Nat /\ StringLen(r.signer) <= r.signer + 2
    BY <2>1, <2>2, SMTT(30) DEF StringLen
  <2>5. \/ SwComponentsLen(r) = 1
        \/ SwComponentsLen(r) = 1 + (1 + 1 + StringLen(r.signer) + 1 + StringLen(r.measurement))
    BY <2>3 DEF SwComponentsLen
  <2> DEFINE m == r.measurement
             s == r.signer
             x == StringLen(m)
             y == StringLen(s)
  <2>6. /\ m \in Nat /\ s \in Nat /\ x \in Nat /\ y \in Nat
        /\ m + s <= 218 /\ x <= m + 2 /\ y <= s + 2
    BY <2>1, <2>4
  <2>7. SwComponentsLen(r) = 1 \/ SwComponentsLen(r) = 1 + (1 + 1 + y + 1 + x)
    BY <2>5
  <2> HIDE DEF m, s, x, y
  <2>8. 1 + (1 + 1 + y + 1 + x) \in Nat /\ 1 + (1 + 1 + y + 1 + x) <= 226
    BY <2>6
  <2>. QED BY <2>7, <2>8
<1>3. PICK p \in Nat : p = PayloadLen(TokenClaims(n, r)) /\ p <= 509
  BY <1>1, <1>2, TokenPayload
<1>4. StringLen(p) \in Nat /\ StringLen(p) <= 512
  BY <1>3 DEF StringLen, HeadLen
<1>5. StringLen(3) = 4 /\ StringLen(0) = 1
  BY DEF StringLen, HeadLen
<1>. QED BY <1>3, <1>4, <1>5 DEF PayloadFits, SigStructureLen, PayloadBufferSize, SigStructureMaxSize

------------------------------------------------------------------------------
(* The inductive invariant. *)

\* The driver reads a word only for a place that is there.
Offset == driver \in {"wait_data", "read", "check"} => offset < SeedWords

\* What a request has come to at each step of its service.
Course ==
    /\ pc \notin {"finish", "answered"} => status = "None" /\ out = "client" /\ written = 0
    /\ pc \in {"seed", "trng"} => request.type \in AttestTypes
    /\ pc \in {"claims", "hash", "sign", "encode", "finish"} => request.type = "GetToken"
    /\ pc \in {"hash", "sign", "encode"} => request.size \in ChallengeSizes
    /\ pc = "crypto" => request.type \notin AttestTypes
    /\ pc = "size" => request.type = "GetTokenSize"
    /\ pc = "finish" => \/ /\ status = "Success"
                           /\ written = EncodedLen(Claims) /\ written \in 1 .. request.room
                        \/ status \notin {"Success", "None"} /\ written = 0
    /\ pc = "answered" /\ status = "Success" /\ request.type = "GetTokenSize"
         => request.size \in ChallengeSizes
    /\ AllOrNothing
    /\ ComputedIsEncoded

\* The driver is called only while there is no seed, and a token is made, and
\* was ever given out, only with the seed that is kept.
Kept ==
    /\ driver # "off" <=> pc = "trng"
    /\ pc = "trng" => ~seedInit
    /\ pc \in {"claims", "hash", "sign", "encode", "finish", "size"} => seedInit
    /\ pc = "answered" /\ status = "Success" /\ request.type = "GetToken" => seedInit
    /\ \A s \in seeds : seedInit /\ s = dest

IInv == TypeOK /\ Offset /\ Course /\ Kept

LEMMA ZeroWordType == ZeroWord \in Word
BY TrngAssumption DEF ZeroWord, Word

LEMMA InitIInv == Init => IInv
<1> SUFFICES ASSUME Init PROVE IInv
  OBVIOUS
<1>1. TrngTypeOK
  BY ZeroWordType, TrngAssumption DEF Init, TrngInitState, TrngTypeOK, Registers, Drivers
<1>2. request \in Request
  BY AttestationAssumption DEF Init, NoRequest, Request, Types
<1>3. TypeOK
  <2>1. written \in 0 .. request.room
    BY DEF Init, NoRequest
  <2>2. announced \in [ChallengeSizes -> Nat]
    BY DEF Init
  <2>3. seeds \subseteq [1 .. SeedWords -> Word] /\ bootRecord \in BootRecords /\ seedInit \in BOOLEAN
    BY DEF Init
  <2>4. pc \in Steps /\ out \in Contents /\ status \in Statuses
    BY DEF Init, Steps, Contents, Statuses
  <2>. QED BY <1>1, <1>2, <2>1, <2>2, <2>3, <2>4 DEF TypeOK
<1>4. Offset /\ Course /\ Kept
  BY DEF Init, TrngInitState, Offset, Course, Kept, AllOrNothing, ComputedIsEncoded
<1>. QED BY <1>3, <1>4 DEF IInv

\* Neither the hardware nor the driver can be seen in a seed that is kept.
LEMMA TrngStepIInv == IInv /\ TrngStep => IInv'
<1> SUFFICES ASSUME IInv, TrngStep PROVE IInv'
  OBVIOUS
<1>1. /\ TypeOK /\ TrngTypeOK /\ Offset /\ Course /\ Kept /\ driver # "off"
      /\ UNCHANGED <<seedInit, request, pc, out, written, status, bootRecord, announced, seeds>>
  BY DEF IInv, TypeOK, TrngStep, OnlyTrng, callVars, clientVars
<1>2. TrngTypeOK' /\ Offset' /\ driver' # "off"
  <2>1. CASE Hardware
    <3>1. \A v \in WordValues : [value |-> v, quality |-> "fresh"] \in Word
      BY DEF Word
    <3>2. \A x \in Word : [x EXCEPT !.quality = "suspect"] \in Word
      BY DEF Word
    <3>3. CASE HwInitialize
      BY <1>1, <3>3 DEF HwInitialize, TrngTypeOK, Registers, Offset
    <3>4. CASE HwGenerate
      BY <1>1, <3>1, <3>4 DEF HwGenerate, TrngTypeOK, Registers, Offset
    <3>5. CASE HwDetect
      BY <1>1, <3>2, <3>5 DEF HwDetect, TrngTypeOK, Registers, Offset
    <3>. QED BY <2>1, <3>3, <3>4, <3>5 DEF Hardware
  <2>2. CASE Driver
    <3>1. CASE TrngInit
      BY <1>1, <3>1 DEF TrngInit, Cleared, TrngTypeOK, Registers, Offset, Drivers
    <3>2. CASE TrngEnable
      <4>1. trng' \in Registers
        BY <1>1, <3>2 DEF TrngEnable, Cleared, TrngTypeOK, Registers
      <4>2. driver' \in {"next", "wait_init"} /\ offset' = 0 /\ 0 \in 0 .. SeedWords
        BY <3>2, TrngAssumption DEF TrngEnable
      <4>. QED BY <1>1, <3>2, <4>1, <4>2 DEF TrngEnable, TrngTypeOK, Offset, Drivers
    <3>3. CASE WaitForInit
      BY <1>1, <3>3 DEF WaitForInit, TrngTypeOK, Offset, Drivers
    <3>4. CASE NextWord
      BY <1>1, <3>4, TrngAssumption DEF NextWord, TrngTypeOK, Offset, Drivers
    <3>5. CASE WaitForComplete
      BY <1>1, <3>5 DEF WaitForComplete, TrngTypeOK, Offset, Drivers
    <3>6. CASE ReadResult
      <4>1. \A x \in Word : \A q \in {"fresh", "used", "suspect"} : [x EXCEPT !.quality = q] \in Word
        BY DEF Word
      <4>2. trng'.result \in Word
        BY <1>1, <3>6, <4>1 DEF ReadResult, TrngTypeOK, Registers, Word
      <4>3. trng' \in Registers
        BY <1>1, <3>6, <4>2 DEF ReadResult, TrngTypeOK, Registers
      <4>. QED BY <1>1, <3>6, <4>3 DEF ReadResult, TrngTypeOK, Registers, Offset, Drivers
    <3>7. CASE CheckHealth
      <4>1. offset < SeedWords /\ offset + 1 \in 1 .. SeedWords
        BY <1>1, <3>7, TrngAssumption DEF CheckHealth, Offset, TrngTypeOK
      <4>. QED BY <1>1, <3>7, <4>1, TrngAssumption
               DEF CheckHealth, Store, TrngTypeOK, Offset, Drivers
    <3>. QED BY <2>2, <3>1, <3>2, <3>3, <3>4, <3>5, <3>6, <3>7 DEF Driver
  <2>. QED BY <2>1, <2>2 DEF TrngStep
<1>3. TypeOK'
  BY <1>1, <1>2 DEF TypeOK
<1>4. Course'
  BY <1>1 DEF Course, AllOrNothing, ComputedIsEncoded, Claims
<1>5. Kept'
  <2>1. seeds = {}
    BY <1>1 DEF Kept
  <2>. QED BY <1>1, <1>2, <2>1 DEF Kept
<1>. QED BY <1>2, <1>3, <1>4, <1>5 DEF IInv

\* What the claims of a request come to.
LEMMA RequestClaims ==
    ASSUME TypeOK
    PROVE  /\ bootRecord \in BootRecord /\ request.size \in Nat /\ request.room \in Nat
           /\ EncodedLen(Claims) \in Nat /\ EncodedLen(Claims) > 0
           /\ ComputedSize(Claims) = EncodedLen(Claims)
           /\ Announced \in Nat
<1>1. bootRecord \in BootRecord /\ request.size \in Nat /\ request.room \in Nat
  BY AttestationAssumption DEF TypeOK, BootRecord, Request
<1>2. Claims \in Seq(ClaimType) /\ SizeClaims(request.size, bootRecord) \in Seq(ClaimType)
  BY <1>1, ClaimsType DEF Claims
<1>3. Announced \in Nat
  BY <1>2, ComputedEqualsEncoded DEF Announced
<1>. QED BY <1>1, <1>2, <1>3, ComputedEqualsEncoded

\* A new request: nothing is in the buffer yet, and no seed is asked for.
LEMMA AskIInv == IInv /\ Ask => IInv'
<1> SUFFICES ASSUME IInv, Ask PROVE IInv'
  OBVIOUS
<1>1. /\ TypeOK /\ Offset /\ Course /\ Kept /\ pc = "idle"
      /\ UNCHANGED <<out, written, status, trngVars, seedInit, clientVars>>
  BY DEF IInv, Ask
<1>2. UNCHANGED <<trng, driver, word, dest, offset, bootRecord, announced, seeds>>
  BY <1>1 DEF trngVars, clientVars
<1>3. request' \in Request
  <2>1. PICK type \in Types, size \in Sizes, ok \in BOOLEAN :
          \E room \in Rooms \cup {announced[c] : c \in ChallengeSizes \cap {size}} :
            request' = [type |-> type, size |-> size, room |-> room, wellFormed |-> ok]
    BY DEF Ask
  <2>2. PICK room \in Rooms \cup {announced[c] : c \in ChallengeSizes \cap {size}} :
          request' = [type |-> type, size |-> size, room |-> room, wellFormed |-> ok]
    BY <2>1
  <2>3. room \in Nat
    BY <1>1, AttestationAssumption DEF TypeOK
  <2>. QED BY <2>2, <2>3 DEF Request
<1>4. pc' \in {"dispatch", "crypto"} /\ (pc' = "crypto" => request'.type \notin AttestTypes)
  BY DEF Ask
<1>5. status = "None" /\ out = "client" /\ written = 0 /\ driver = "off" /\ 0 \in 0 .. request'.room
  BY <1>1, <1>3, AttestationAssumption DEF Course, Kept, Request
<1>6. TypeOK'
  BY <1>1, <1>2, <1>3, <1>4, <1>5 DEF TypeOK, TrngTypeOK, Steps
<1>7. Offset' /\ Course' /\ Kept'
  BY <1>1, <1>2, <1>4, <1>5 DEF Offset, Course, Kept, AllOrNothing, ComputedIsEncoded
<1>. QED BY <1>6, <1>7 DEF IInv

\* The client has its answer; a seed it was given is the one that is kept.
LEMMA ReadAnswerIInv == IInv /\ ReadAnswer => IInv'
<1> SUFFICES ASSUME IInv, ReadAnswer PROVE IInv'
  OBVIOUS
<1>1. /\ TypeOK /\ Offset /\ Course /\ Kept /\ pc = "answered"
      /\ UNCHANGED <<trng, driver, word, dest, offset, seedInit, bootRecord>>
  BY DEF IInv, ReadAnswer, trngVars
<1>2. /\ pc' = "idle" /\ request' = NoRequest /\ out' = "client" /\ written' = 0 /\ status' = "None"
      /\ driver = "off"
  BY <1>1 DEF ReadAnswer, Kept
<1>3. announced' \in [ChallengeSizes -> Nat]
  <2>1. announced \in [ChallengeSizes -> Nat] /\ Announced \in Nat
    BY <1>1, RequestClaims DEF TypeOK
  <2>. QED BY <2>1 DEF ReadAnswer
<1>4. /\ seeds' \subseteq [1 .. SeedWords -> Word]
      /\ \A s \in seeds' : seedInit /\ s = dest
  BY <1>1 DEF ReadAnswer, TypeOK, TrngTypeOK, Kept
<1>5. request' \in Request /\ written' \in 0 .. request'.room
  BY <1>2, AttestationAssumption DEF NoRequest, Request, Types
<1>6. TypeOK'
  <2>1. TrngTypeOK'
    BY <1>1 DEF TypeOK, TrngTypeOK
  <2>2. pc' \in Steps /\ out' \in Contents /\ status' \in Statuses
    BY <1>2 DEF Steps, Contents, Statuses
  <2>. QED BY <1>1, <1>3, <1>4, <1>5, <2>1, <2>2 DEF TypeOK
<1>7. Offset' /\ Course' /\ Kept'
  BY <1>1, <1>2, <1>4 DEF Offset, Course, Kept, AllOrNothing, ComputedIsEncoded
<1>. QED BY <1>6, <1>7 DEF IInv

Errors == Statuses \ {"None", "Success"}

\* What every step of the service leaves of the types.
LEMMA ServiceTypeOK ==
    ASSUME TypeOK, UNCHANGED <<trng, word, dest, offset, clientVars, request>>,
           driver' \in Drivers, seedInit' \in BOOLEAN, pc' \in Steps, out' \in Contents,
           status' \in Statuses, written' \in 0 .. request.room
    PROVE  TypeOK'
BY DEF TypeOK, TrngTypeOK, clientVars

\* The service refuses before it has written anything.
LEMMA RefuseIInv ==
    ASSUME IInv, pc \in {"dispatch", "trng", "size", "crypto"}, NEW s \in Errors, Refuse(s),
           UNCHANGED <<trng, word, dest, offset, seedInit, clientVars>>, driver' = "off"
    PROVE  IInv'
<1>1. TypeOK /\ Offset /\ Course /\ Kept
  BY DEF IInv
<1>2. /\ pc' = "answered" /\ status' = s /\ out' = out /\ written' = 0
      /\ UNCHANGED <<request, bootRecord, announced, seeds, dest, seedInit>>
  BY DEF Refuse, Answer, clientVars
<1>3. out = "client" /\ s \in Statuses /\ s \notin {"Success", "None"}
  BY <1>1 DEF Course, Errors
<1>4. TypeOK'
  <2>1. 0 \in 0 .. request.room
    BY <1>1, RequestClaims
  <2>. QED BY <1>1, <1>2, <1>3, <2>1, ServiceTypeOK DEF TypeOK, Steps, Drivers, clientVars
<1>5. Offset' /\ Course' /\ Kept'
  BY <1>1, <1>2, <1>3 DEF Offset, Course, Kept, AllOrNothing, ComputedIsEncoded
<1>. QED BY <1>4, <1>5 DEF IInv

\* The service fails inside access_invec_outvec.
LEMMA FailIInv ==
    ASSUME IInv, pc \in {"claims", "hash", "sign"}, NEW s \in Errors, Fail(s),
           UNCHANGED <<trngVars, seedInit, clientVars>>
    PROVE  IInv'
<1>1. TypeOK /\ Offset /\ Course /\ Kept
  BY DEF IInv
<1>2. /\ pc' = "finish" /\ status' = s
      /\ UNCHANGED <<request, out, written, trng, driver, word, dest, offset, seedInit,
                     bootRecord, announced, seeds>>
  BY DEF Fail, trngVars, clientVars
<1>3. s \in Statuses /\ s \notin {"Success", "None"} /\ written = 0
  BY <1>1 DEF Course, Errors
<1>4. TypeOK'
  BY <1>1, <1>2, <1>3, ServiceTypeOK DEF TypeOK, TrngTypeOK, Steps, clientVars
<1>5. Offset' /\ Course' /\ Kept'
  BY <1>1, <1>2, <1>3 DEF Offset, Course, Kept, AllOrNothing, ComputedIsEncoded
<1>. QED BY <1>4, <1>5 DEF IInv

\* The service goes on, and is where the request leads it.
LEMMA GotoIInv ==
    ASSUME IInv, pc \notin {"finish", "answered"},
           NEW step \in Steps \ {"finish", "answered", "crypto"}, Goto(step),
           UNCHANGED <<trng, word, dest, offset, clientVars>>,
           driver' \in Drivers, driver' \in {"wait_data", "read", "check"} => driver' = driver,
           step \in {"seed", "trng"} => request.type \in AttestTypes,
           step \in {"claims", "hash", "sign", "encode"} => request.type = "GetToken",
           step \in {"hash", "sign", "encode"} => request.size \in ChallengeSizes,
           step = "size" => request.type = "GetTokenSize",
           seedInit' \in BOOLEAN, seedInit => seedInit',
           driver' # "off" <=> step = "trng",
           step = "trng" => ~seedInit',
           step \in {"claims", "hash", "sign", "encode", "size"} => seedInit'
    PROVE  IInv'
<1>1. TypeOK /\ Offset /\ Course /\ Kept
  BY DEF IInv
<1>2. /\ pc' = step
      /\ UNCHANGED <<request, out, written, status, offset, dest, bootRecord, announced, seeds>>
  BY DEF Goto, clientVars
<1>3. TypeOK'
  BY <1>1, <1>2, ServiceTypeOK DEF TypeOK, clientVars
<1>4. Offset'
  BY <1>1, <1>2 DEF Offset
<1>5. Course'
  BY <1>1, <1>2 DEF Course, AllOrNothing, ComputedIsEncoded
<1>6. Kept'
  BY <1>1, <1>2 DEF Kept
<1>. QED BY <1>3, <1>4, <1>5, <1>6 DEF IInv

LEMMA DispatchIInv == IInv /\ Dispatch => IInv'
<1> SUFFICES ASSUME IInv, Dispatch PROVE IInv'
  OBVIOUS
<1>1. /\ TypeOK /\ Kept /\ pc = "dispatch" /\ driver = "off"
      /\ UNCHANGED <<trng, driver, word, dest, offset, seedInit, clientVars>>
  BY DEF IInv, Dispatch, trngVars, Kept
<1>2. \/ Refuse("InvalidArgument") \/ Refuse("NotSupported")
      \/ request.type \in AttestTypes /\ Goto("seed")
  BY DEF Dispatch
<1>3. CASE Refuse("InvalidArgument")
  BY <1>1, <1>3, RefuseIInv DEF Errors, Statuses
<1>4. CASE Refuse("NotSupported")
  BY <1>1, <1>4, RefuseIInv DEF Errors, Statuses
<1>5. CASE request.type \in AttestTypes /\ Goto("seed")
  BY <1>1, <1>5, GotoIInv DEF Steps, Drivers, TypeOK
<1>. QED BY <1>2, <1>3, <1>4, <1>5

LEMMA BootSeedIInv == IInv /\ BootSeed => IInv'
<1> SUFFICES ASSUME IInv, BootSeed PROVE IInv'
  OBVIOUS
<1>1. /\ TypeOK /\ Course /\ Kept /\ pc = "seed" /\ driver = "off" /\ request.type \in AttestTypes
      /\ UNCHANGED <<trng, word, dest, offset, seedInit, clientVars>>
  BY DEF IInv, BootSeed, Kept, Course
<1>2. CASE seedInit /\ Goto(AfterSeed) /\ UNCHANGED driver
  <2>1. \/ AfterSeed = "claims" /\ request.type = "GetToken"
        \/ AfterSeed = "size" /\ request.type = "GetTokenSize"
    BY <1>1 DEF AfterSeed, AttestTypes
  <2>. QED BY <1>1, <1>2, <2>1, GotoIInv DEF Steps, Drivers, TypeOK
<1>3. CASE ~seedInit /\ Goto("trng") /\ driver' = "init"
  BY <1>1, <1>3, GotoIInv DEF Steps, Drivers, TypeOK
<1>. QED BY <1>2, <1>3 DEF BootSeed

LEMMA SeedFilledIInv == IInv /\ SeedFilled => IInv'
<1> SUFFICES ASSUME IInv, SeedFilled PROVE IInv'
  OBVIOUS
<1>1. /\ TypeOK /\ Course /\ Kept /\ pc = "trng" /\ request.type \in AttestTypes
      /\ seedInit' = TRUE /\ driver' = "off" /\ Goto(AfterSeed)
      /\ UNCHANGED <<trng, word, dest, offset, clientVars>>
  BY DEF IInv, SeedFilled, Course
<1>2. \/ AfterSeed = "claims" /\ request.type = "GetToken"
      \/ AfterSeed = "size" /\ request.type = "GetTokenSize"
  BY <1>1 DEF AfterSeed, AttestTypes
<1>. QED BY <1>1, <1>2, GotoIInv DEF Steps, Drivers

LEMMA SeedFailedIInv == IInv /\ SeedFailed => IInv'
BY RefuseIInv DEF SeedFailed, Errors, Statuses

LEMMA EncodePayloadIInv == IInv /\ EncodePayload => IInv'
<1> SUFFICES ASSUME IInv, EncodePayload PROVE IInv'
  OBVIOUS
<1>1. /\ TypeOK /\ Course /\ Kept /\ pc = "claims" /\ driver = "off" /\ seedInit
      /\ request.type = "GetToken"
      /\ UNCHANGED <<trngVars, trng, driver, word, dest, offset, seedInit, clientVars>>
  BY DEF IInv, EncodePayload, Course, Kept, trngVars
<1>2. \/ Fail("InvalidArgument") \/ Fail("BufferTooSmall")
      \/ request.size \in ChallengeSizes /\ Goto("hash")
  BY DEF EncodePayload
<1>3. CASE Fail("InvalidArgument") \/ Fail("BufferTooSmall")
  BY <1>1, <1>3, FailIInv DEF Errors, Statuses
<1>4. CASE request.size \in ChallengeSizes /\ Goto("hash")
  BY <1>1, <1>4, GotoIInv DEF Steps, Drivers, TypeOK
<1>. QED BY <1>2, <1>3, <1>4

\* What the crypto service answers, and when it succeeds.
LEMMA CryptoAnswers ==
    ASSUME NEW type, NEW size, NEW room \in Nat, NEW works \in BOOLEAN
    PROVE  LET s == CryptoStatus(type, size, room, works)
           IN  /\ s \in {"Success"} \cup Errors /\ MapError(s) \in Errors
               /\ s = "Success" => \/ type = "SignHash" /\ room >= SignatureSize
                                   \/ type = "HashCompute" /\ room >= HashSize
               /\ s = "BufferTooSmall" => \/ type = "SignHash" /\ room < SignatureSize
                                          \/ type = "HashCompute" /\ room < HashSize
BY DEF CryptoStatus, MapError, Errors, Statuses, SignatureSize, HashSize

LEMMA HashSigStructureIInv == IInv /\ HashSigStructure => IInv'
<1> SUFFICES ASSUME IInv, HashSigStructure PROVE IInv'
  OBVIOUS
<1>1. /\ TypeOK /\ Course /\ Kept /\ pc = "hash" /\ driver = "off" /\ seedInit
      /\ request.type = "GetToken" /\ request.size \in ChallengeSizes
      /\ UNCHANGED <<trngVars, trng, driver, word, dest, offset, seedInit, clientVars>>
  BY DEF IInv, HashSigStructure, Course, Kept, trngVars
<1>2. \/ \E s \in Errors : Fail(s)
      \/ Goto("sign")
  <2>1. "BufferTooSmall" \in Errors /\ HashSize \in Nat
    BY DEF Errors, Statuses, HashSize
  <2>. QED BY <2>1, CryptoAnswers DEF HashSigStructure
<1>3. CASE \E s \in Errors : Fail(s)
  BY <1>1, <1>3, FailIInv
<1>4. CASE Goto("sign")
  BY <1>1, <1>4, GotoIInv DEF Steps, Drivers, TypeOK
<1>. QED BY <1>2, <1>3, <1>4

LEMMA SignDigestIInv == IInv /\ SignDigest => IInv'
<1> SUFFICES ASSUME IInv, SignDigest PROVE IInv'
  OBVIOUS
<1>1. /\ TypeOK /\ Course /\ Kept /\ pc = "sign" /\ driver = "off" /\ seedInit
      /\ request.type = "GetToken" /\ request.size \in ChallengeSizes
      /\ UNCHANGED <<trngVars, trng, driver, word, dest, offset, seedInit, clientVars>>
  BY DEF IInv, SignDigest, Course, Kept, trngVars
<1>2. \/ \E s \in Errors : Fail(s)
      \/ Goto("encode")
  <2>1. SignatureSize \in Nat
    BY DEF SignatureSize
  <2>. QED BY <2>1, CryptoAnswers DEF SignDigest
<1>3. CASE \E s \in Errors : Fail(s)
  BY <1>1, <1>3, FailIInv
<1>4. CASE Goto("encode")
  BY <1>1, <1>4, GotoIInv DEF Steps, Drivers, TypeOK
<1>. QED BY <1>2, <1>3, <1>4

LEMMA EncodeTokenIInv == IInv /\ EncodeToken => IInv'
<1> SUFFICES ASSUME IInv, EncodeToken PROVE IInv'
  OBVIOUS
<1>1. /\ TypeOK /\ Offset /\ Course /\ Kept /\ pc = "encode" /\ request.type = "GetToken"
      /\ pc' = "finish"
      /\ UNCHANGED <<request, trng, driver, word, dest, offset, seedInit, bootRecord, announced, seeds>>
  BY DEF IInv, EncodeToken, Course, trngVars, clientVars
<1>2. EncodedLen(Claims) \in Nat /\ EncodedLen(Claims) > 0 /\ request.room \in Nat
  BY <1>1, RequestClaims
<1>3. Claims' = Claims
  BY <1>1 DEF Claims
<1>4. \/ /\ status' = "Success" /\ written' = EncodedLen(Claims) /\ written' \in 1 .. request.room
         /\ out' = "unpadded"
      \/ status' = "BufferTooSmall" /\ written' = 0 /\ out' = "partial"
  BY <1>2 DEF EncodeToken
<1>5. TypeOK'
  <2>1. written' \in 0 .. request.room
    BY <1>2, <1>4
  <2>. QED BY <1>1, <1>4, <2>1, ServiceTypeOK DEF TypeOK, TrngTypeOK, Steps, Contents, Statuses, clientVars
<1>6. Offset' /\ Kept'
  BY <1>1 DEF Offset, Kept
<1>7. Course'
  BY <1>1, <1>3, <1>4 DEF Course, AllOrNothing, ComputedIsEncoded
<1>. QED BY <1>5, <1>6, <1>7 DEF IInv

LEMMA FinishIInv == IInv /\ Finish => IInv'
<1> SUFFICES ASSUME IInv, Finish PROVE IInv'
  OBVIOUS
<1>1. /\ TypeOK /\ Offset /\ Course /\ Kept /\ pc = "finish" /\ request.type = "GetToken"
      /\ pc' = "answered" /\ status' = status /\ written' = written
      /\ out' = IF status = "Success" THEN "token" ELSE "zero"
      /\ UNCHANGED <<request, trng, driver, word, dest, offset, seedInit, bootRecord, announced, seeds>>
  BY DEF IInv, Finish, Answer, Course, trngVars, clientVars
<1>2. ComputedSize(Claims) = EncodedLen(Claims) /\ Claims' = Claims
  BY <1>1, RequestClaims DEF Claims
<1>3. TypeOK'
  BY <1>1, ServiceTypeOK DEF TypeOK, TrngTypeOK, Steps, Contents, clientVars
<1>4. Offset' /\ Kept'
  BY <1>1 DEF Offset, Kept
<1>5. Course'
  BY <1>1, <1>2 DEF Course, AllOrNothing, ComputedIsEncoded, Product
<1>. QED BY <1>3, <1>4, <1>5 DEF IInv

LEMMA GetTokenSizeIInv == IInv /\ GetTokenSize => IInv'
<1> SUFFICES ASSUME IInv, GetTokenSize PROVE IInv'
  OBVIOUS
<1>1. /\ TypeOK /\ Offset /\ Course /\ Kept /\ pc = "size" /\ request.type = "GetTokenSize"
      /\ driver = "off" /\ request.room \in Nat
      /\ UNCHANGED <<trng, driver, word, dest, offset, seedInit, clientVars>>
      /\ UNCHANGED <<bootRecord, announced, seeds>>
  BY RequestClaims DEF IInv, GetTokenSize, Course, Kept, trngVars, clientVars
<1>2. \/ Refuse("InvalidArgument")
      \/ Answer("BufferTooSmall", "zero", 0)
      \/ /\ Answer("Success", "size", 4) /\ request.room >= 4 /\ request.size \in ChallengeSizes
  BY <1>1 DEF GetTokenSize
<1>3. CASE Refuse("InvalidArgument")
  BY <1>1, <1>3, RefuseIInv DEF Errors, Statuses
<1>4. CASE Answer("BufferTooSmall", "zero", 0)
  <2>1. TypeOK'
    BY <1>1, <1>4, ServiceTypeOK DEF Answer, TypeOK, TrngTypeOK, Steps, Contents, Statuses
  <2>2. Offset' /\ Course' /\ Kept'
    BY <1>1, <1>4 DEF Answer, Offset, Course, Kept, AllOrNothing, ComputedIsEncoded
  <2>. QED BY <2>1, <2>2 DEF IInv
<1>5. CASE Answer("Success", "size", 4) /\ request.room >= 4 /\ request.size \in ChallengeSizes
  <2>1. TypeOK'
    BY <1>1, <1>5, ServiceTypeOK DEF Answer, TypeOK, TrngTypeOK, Steps, Contents, Statuses
  <2>2. Offset' /\ Course' /\ Kept'
    BY <1>1, <1>5 DEF Answer, Offset, Course, Kept, AllOrNothing, ComputedIsEncoded, Product
  <2>. QED BY <2>1, <2>2 DEF IInv
<1>. QED BY <1>2, <1>3, <1>4, <1>5

LEMMA CryptoIInv == IInv /\ Crypto => IInv'
<1> SUFFICES ASSUME IInv, Crypto PROVE IInv'
  OBVIOUS
<1>1. /\ TypeOK /\ Offset /\ Course /\ Kept /\ pc = "crypto" /\ request.type \notin AttestTypes
      /\ driver = "off" /\ request.room \in Nat
      /\ UNCHANGED <<trng, driver, word, dest, offset, seedInit, clientVars>>
      /\ UNCHANGED <<bootRecord, announced, seeds>>
  BY RequestClaims DEF IInv, Crypto, Course, Kept, trngVars, clientVars
<1>2. \/ \E s \in Errors : Refuse(s)
      \/ /\ Answer("Success", "signature", SignatureSize)
         /\ request.type = "SignHash" /\ request.room >= SignatureSize
      \/ /\ Answer("Success", "digest", HashSize)
         /\ request.type = "HashCompute" /\ request.room >= HashSize
  <2>1. PICK works \in BOOLEAN :
          LET s == CryptoStatus(request.type, request.size, request.room, works)
          IN  CASE ~request.wellFormed -> Refuse("ProgrammerError")
                [] request.wellFormed /\ s # "Success" -> Refuse(s)
                [] OTHER -> IF request.type = "SignHash"
                              THEN Answer(s, "signature", SignatureSize)
                              ELSE Answer(s, "digest", HashSize)
    BY DEF Crypto
  <2> DEFINE s == CryptoStatus(request.type, request.size, request.room, works)
  <2>2. /\ s \in {"Success"} \cup Errors
        /\ s = "Success" => \/ request.type = "SignHash" /\ request.room >= SignatureSize
                            \/ request.type = "HashCompute" /\ request.room >= HashSize
    BY <1>1, CryptoAnswers
  <2>3. "ProgrammerError" \in Errors
    BY DEF Errors, Statuses
  <2>4. request.wellFormed \in BOOLEAN
    BY <1>1 DEF TypeOK, Request
  <2> HIDE DEF s
  <2>. QED BY <2>1, <2>2, <2>3, <2>4 DEF s
<1>3. CASE \E s \in Errors : Refuse(s)
  BY <1>1, <1>3, RefuseIInv
<1>4. CASE /\ Answer("Success", "signature", SignatureSize)
           /\ request.type = "SignHash" /\ request.room >= SignatureSize
  <2>1. TypeOK'
    BY <1>1, <1>4, ServiceTypeOK
    DEF Answer, TypeOK, TrngTypeOK, Steps, Contents, Statuses, SignatureSize
  <2>2. Offset' /\ Course' /\ Kept'
    BY <1>1, <1>4 DEF Answer, Offset, Course, Kept, AllOrNothing, ComputedIsEncoded, Product, SignatureSize
  <2>. QED BY <2>1, <2>2 DEF IInv
<1>5. CASE /\ Answer("Success", "digest", HashSize)
           /\ request.type = "HashCompute" /\ request.room >= HashSize
  <2>1. TypeOK'
    BY <1>1, <1>5, ServiceTypeOK
    DEF Answer, TypeOK, TrngTypeOK, Steps, Contents, Statuses, HashSize
  <2>2. Offset' /\ Course' /\ Kept'
    BY <1>1, <1>5 DEF Answer, Offset, Course, Kept, AllOrNothing, ComputedIsEncoded, Product, HashSize
  <2>. QED BY <2>1, <2>2 DEF IInv
<1>. QED BY <1>2, <1>3, <1>4, <1>5

LEMMA NextIInv == IInv /\ [Next]_vars => IInv'
<1> SUFFICES ASSUME IInv, [Next]_vars PROVE IInv'
  OBVIOUS
<1>1. CASE Service
  BY <1>1, DispatchIInv, BootSeedIInv, SeedFilledIInv, SeedFailedIInv, EncodePayloadIInv,
     HashSigStructureIInv, SignDigestIInv, EncodeTokenIInv, FinishIInv, GetTokenSizeIInv, CryptoIInv
  DEF Service
<1>2. CASE UNCHANGED vars
  BY <1>2 DEF vars, trngVars, callVars, clientVars, IInv, TypeOK, TrngTypeOK, Offset, Course, Kept,
     AllOrNothing, ComputedIsEncoded, Claims
<1>. QED BY <1>1, <1>2, AskIInv, ReadAnswerIInv, TrngStepIInv DEF Next

LEMMA Inductive == Spec => []IInv
BY InitIInv, NextIInv, PTL DEF Spec

\* Type correctness, and with it that what the service commits never exceeds
\* the client's buffer (access_invec_outvec's written_len).
THEOREM TypeCorrect == Spec => []TypeOK
<1>1. IInv => TypeOK
  BY DEF IInv
<1>. QED BY <1>1, Inductive, PTL

\* Whatever fails, the client has the whole answer or nothing of one
\* (handle_get_token, whose COSE encoder writes into the client's buffer).
THEOREM WholeAnswerOrNone == Spec => []AllOrNothing
<1>1. IInv => AllOrNothing
  BY DEF IInv, Course
<1>. QED BY <1>1, Inductive, PTL

\* All tokens of one boot carry one seed, however often fetching it was
\* given up (boot_seed's STATE).
THEOREM SeedIsKept == Spec => []OneSeedPerBoot
<1>1. IInv => OneSeedPerBoot
  BY DEF IInv, Kept, OneSeedPerBoot
<1>. QED BY <1>1, Inductive, PTL

\* A token has the length that is computed for its claims, for a nonce and a
\* boot record of any length (compute_initial_attestation_token_size).
THEOREM LengthIsExact == Spec => []ComputedIsEncoded
<1>1. IInv => ComputedIsEncoded
  BY DEF IInv, Course
<1>. QED BY <1>1, Inductive, PTL

------------------------------------------------------------------------------
(* The seed's words.  A TRNG whose DATA_AVAILABLE stayed set when its      *)
(* result is read would deliver the same word again.                       *)

IsFresh(w) == w.quality = "fresh"

Fresh ==
    /\ trng.available /\ ~trng.unhealthy => IsFresh(trng.result)
    /\ driver = "read" /\ ~trng.unhealthy => trng.available
    /\ driver = "check" /\ ~trng.unhealthy => IsFresh(word)
    /\ driver \in {"wait_init", "next", "wait_data", "read", "check"} =>
         \A i \in 1 .. offset : IsFresh(dest[i])
    /\ seedInit \/ driver = "ok" => \A i \in 1 .. SeedWords : IsFresh(dest[i])

LEMMA InitFresh == Init => Fresh
BY DEF Init, TrngInitState, Fresh

LEMMA HardwareFresh ==
    ASSUME IInv, Fresh, TrngStep, Hardware
    PROVE  Fresh'
<1>1. trng \in Registers /\ UNCHANGED <<driver, word, dest, offset, seedInit>>
  BY DEF IInv, TypeOK, TrngTypeOK, TrngStep, OnlyTrng, Hardware, HwInitialize, HwGenerate, HwDetect
<1>2. CASE HwInitialize
  BY <1>1, <1>2 DEF HwInitialize, Fresh, IsFresh, Registers
<1>3. CASE HwGenerate
  BY <1>1, <1>3 DEF HwGenerate, Fresh, IsFresh, Registers
<1>4. CASE HwDetect
  BY <1>1, <1>4 DEF HwDetect, Fresh, IsFresh, Registers
<1>. QED BY <1>2, <1>3, <1>4 DEF Hardware

LEMMA DriverFresh ==
    ASSUME ReadClears, IInv, Fresh, TrngStep, Driver
    PROVE  Fresh'
<1>1. /\ trng \in Registers /\ offset \in 0 .. SeedWords /\ dest \in [1 .. SeedWords -> Word]
      /\ word \in Word /\ SeedWords \in Nat \ {0}
      /\ ~seedInit /\ UNCHANGED seedInit
  BY TrngAssumption DEF IInv, TypeOK, TrngTypeOK, TrngStep, OnlyTrng, Kept
<1>2. CASE TrngInit
  BY <1>1, <1>2 DEF TrngInit, Cleared, Fresh, IsFresh, Registers
<1>3. CASE TrngEnable
  <2>1. /\ offset' = 0 /\ UNCHANGED dest /\ driver' \in {"next", "wait_init"}
        /\ trng'.available => trng' = trng
    BY <1>1, <1>3 DEF TrngEnable, Cleared, Registers
  <2>. QED BY <1>1, <2>1 DEF Fresh
<1>4. CASE WaitForInit
  BY <1>1, <1>4 DEF WaitForInit, Fresh, IsFresh
<1>5. CASE NextWord
  BY <1>1, <1>5 DEF NextWord, Fresh, IsFresh
<1>6. CASE WaitForComplete
  BY <1>1, <1>6 DEF WaitForComplete, Fresh, IsFresh
<1>7. CASE ReadResult
  BY <1>1, <1>7 DEF ReadResult, Fresh, IsFresh, Registers
<1>8. CASE CheckHealth
  <2>1. CASE ~trng.unhealthy /\ Store
    <3>1. offset < SeedWords /\ IsFresh(word)
      BY <1>8, <2>1 DEF IInv, Offset, CheckHealth, Fresh
    <3>2. \A i \in 1 .. offset' : IsFresh(dest'[i])
      BY <1>1, <1>8, <2>1, <3>1 DEF CheckHealth, Store, Fresh, IsFresh
    <3>. QED BY <1>1, <1>8, <2>1, <3>2 DEF CheckHealth, Store, Fresh
  <2>2. CASE trng.unhealthy /\ driver' = "error" /\ UNCHANGED <<dest, offset>>
    BY <1>1, <1>8, <2>2 DEF CheckHealth, Fresh
  <2>. QED BY <1>8, <2>1, <2>2 DEF CheckHealth
<1>. QED BY <1>2, <1>3, <1>4, <1>5, <1>6, <1>7, <1>8 DEF Driver

LEMMA NextFresh == ReadClears /\ IInv /\ Fresh /\ [Next]_vars => Fresh'
<1> SUFFICES ASSUME ReadClears, IInv, Fresh, [Next]_vars PROVE Fresh'
  OBVIOUS
<1>1. CASE TrngStep
  BY <1>1, HardwareFresh, DriverFresh DEF TrngStep
<1>2. CASE Service
  <2>1. CASE SeedFilled
    BY <2>1 DEF SeedFilled, Fresh
  <2>2. CASE UNCHANGED <<trng, word, dest, offset, seedInit>> /\ (UNCHANGED driver \/ driver' \in {"init", "off"})
    BY <2>2 DEF Fresh
  <2>. QED BY <1>2, <2>1, <2>2
       DEF Service, Dispatch, BootSeed, SeedFailed, EncodePayload, HashSigStructure, SignDigest,
           EncodeToken, Finish, GetTokenSize, Crypto, trngVars
<1>3. CASE Ask \/ ReadAnswer \/ UNCHANGED vars
  BY <1>3 DEF Ask, ReadAnswer, vars, trngVars, Fresh
<1>. QED BY <1>1, <1>2, <1>3 DEF Next

\* No word of a seed that was given out had been read before or came out of
\* a generator that had failed its health tests, if reading TRNG_RESULT
\* clears DATA_AVAILABLE (trng_wait_for_complete, trng_mon_get_health_status).
THEOREM FreshSeed == ASSUME ReadClears PROVE Spec => []SeedFromFreshWords
<1>1. Init => Fresh
  BY InitFresh
<1>2. IInv /\ Fresh /\ [Next]_vars => Fresh'
  BY NextFresh
<1>3. IInv /\ Fresh => SeedFromFreshWords
  BY DEF IInv, Kept, Fresh, IsFresh, SeedFromFreshWords
<1>. QED BY <1>1, <1>2, <1>3, Inductive, PTL DEF Spec

------------------------------------------------------------------------------
(* What is too small is the client's buffer.                               *)

SmallRecords == \A r \in BootRecords : r.measurement + r.signer <= 218

TooSmall ==
    /\ pc = "finish" /\ status = "BufferTooSmall" => request.room < EncodedLen(Claims)
    /\ TooSmallIsTheClients

LEMMA NextTooSmall == SmallRecords /\ IInv /\ TooSmall /\ [Next]_vars => TooSmall'
<1> SUFFICES ASSUME SmallRecords, IInv, TooSmall, [Next]_vars PROVE TooSmall'
  OBVIOUS
<1>1. /\ TypeOK /\ Course
      /\ bootRecord \in BootRecord /\ bootRecord.measurement + bootRecord.signer <= 218
      /\ EncodedLen(Claims) \in Nat /\ request.room \in Nat
  BY RequestClaims DEF IInv, SmallRecords, TypeOK
<1>2. request.size \in ChallengeSizes =>
        /\ PayloadFits(Claims)
        /\ SigStructureLen(Claims) \in Nat /\ SigStructureLen(Claims) <= SigStructureMaxSize
  BY <1>1, BuffersSuffice DEF Claims
<1>3. UNCHANGED <<request, bootRecord>> => Claims' = Claims
  BY DEF Claims
<1>4. CASE EncodePayload
  <2>1. pc' \in {"finish", "hash"} /\ (pc' = "finish" => status' = "InvalidArgument")
    BY <1>2, <1>4 DEF EncodePayload, Fail, Goto
  <2>. QED BY <2>1 DEF TooSmall, TooSmallIsTheClients
<1>5. CASE HashSigStructure
  <2>1. SigStructureLen(Claims) \in Nat /\ SigStructureLen(Claims) <= SigStructureMaxSize
    BY <1>1, <1>2, <1>5 DEF HashSigStructure, Course
  <2>2. CryptoStatus("HashCompute", SigStructureLen(Claims), HashSize, TRUE) = "Success"
    BY DEF CryptoStatus, HashSize
  <2>3. pc' = "sign"
    <3>1. ~(SigStructureLen(Claims) > SigStructureMaxSize)
      <4>1. SigStructureMaxSize \in Nat
        BY <2>1 DEF SigStructureMaxSize
      <4>. QED BY <2>1, <4>1
    <3>. QED BY <1>5, <2>2, <3>1 DEF HashSigStructure, Goto
  <2>. QED BY <2>3 DEF TooSmall, TooSmallIsTheClients
<1>6. CASE SignDigest
  <2>1. \A works \in BOOLEAN : CryptoStatus("SignHash", HashSize, SignatureSize, works)
                                 \in {"Success", "GenericError"}
    BY DEF CryptoStatus, SignatureSize, HashSize
  <2>2. pc' \in {"encode", "finish"} /\ (pc' = "finish" => status' = "InvalidArgument")
    BY <1>6, <2>1 DEF SignDigest, Goto, Fail, MapError
  <2>. QED BY <2>2 DEF TooSmall, TooSmallIsTheClients
<1>7. CASE EncodeToken
  <2>1. Claims' = Claims /\ request' = request /\ pc' = "finish"
    BY <1>3, <1>7 DEF EncodeToken, clientVars
  <2>2. status' = "BufferTooSmall" => request.room < EncodedLen(Claims)
    BY <1>1, <1>7 DEF EncodeToken
  <2>. QED BY <2>1, <2>2 DEF TooSmall, TooSmallIsTheClients
<1>8. CASE Finish
  <2>1. Claims' = Claims /\ request' = request /\ status' = status /\ pc = "finish" /\ pc' = "answered"
    BY <1>3, <1>8 DEF Finish, Answer, clientVars
  <2>. QED BY <2>1 DEF TooSmall, TooSmallIsTheClients
<1>9. CASE Dispatch \/ BootSeed \/ SeedFilled \/ SeedFailed \/ GetTokenSize \/ Crypto
  <2>1. CASE pc' \notin {"finish", "answered"}
    BY <2>1 DEF TooSmall, TooSmallIsTheClients
  <2>2. CASE pc' = "answered" /\ request' = request /\ request.type # "GetToken"
    BY <2>2 DEF TooSmall, TooSmallIsTheClients
  <2>3. CASE pc' = "answered" /\ status' # "BufferTooSmall"
    BY <2>3 DEF TooSmall, TooSmallIsTheClients
  <2>4. CASE GetTokenSize \/ Crypto
    <3>1. request.type # "GetToken" /\ pc' = "answered" /\ request' = request
      BY <1>1, <2>4 DEF Course, GetTokenSize, Crypto, Refuse, Answer, AttestTypes
    <3>. QED BY <3>1, <2>2
  <2>. QED BY <1>9, <2>1, <2>3, <2>4
       DEF Dispatch, BootSeed, SeedFilled, SeedFailed, Refuse, Answer, Goto, AfterSeed
<1>10. CASE Ask \/ ReadAnswer
  BY <1>10 DEF Ask, ReadAnswer, TooSmall, TooSmallIsTheClients
<1>11. CASE TrngStep \/ UNCHANGED vars
  <2>1. UNCHANGED <<pc, status, request, bootRecord>>
    BY <1>11 DEF TrngStep, OnlyTrng, vars, callVars, clientVars
  <2>. QED BY <1>3, <2>1 DEF TooSmall, TooSmallIsTheClients
<1>. QED BY <1>4, <1>5, <1>6, <1>7, <1>8, <1>9, <1>10, <1>11 DEF Next, Service

\* A client that is told its buffer is too small succeeds with a larger one,
\* if the boot loader's measurement and signer id are no longer than 218
\* bytes together (PAYLOAD_BUFFER_SIZE, SIG_STRUCTURE_MAX_SIZE).
THEOREM LargerBufferHelps == ASSUME SmallRecords PROVE Spec => []TooSmallIsTheClients
<1>1. Init => TooSmall
  BY DEF Init, TooSmall, TooSmallIsTheClients
<1>2. IInv /\ TooSmall /\ [Next]_vars => TooSmall'
  BY NextTooSmall
<1>3. TooSmall => TooSmallIsTheClients
  BY DEF TooSmall
<1>. QED BY <1>1, <1>2, <1>3, Inductive, PTL DEF Spec
==============================================================================
