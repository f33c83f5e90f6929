-------------------------------- MODULE Trng --------------------------------
(***************************************************************************)
(* The random number generator of the PSC3 (chips/psc3/src/cryptolite.rs)  *)
(* and the driver that fills a buffer from it.                             *)
(*                                                                         *)
(* The driver's steps are separated wherever the hardware can come in      *)
(* between: it initialises some time after it was enabled, delivers words  *)
(* at its own pace, and its health monitor may stop it at any moment.      *)
(***************************************************************************)
EXTENDS Integers

CONSTANTS
    SeedWords,    \* 32-bit words in the buffer to fill
    WordValues,   \* the values a word can have
    ReadClears    \* whether reading TRNG_RESULT clears DATA_AVAILABLE

ASSUME TrngAssumption ==
    /\ SeedWords \in Nat \ {0}
    /\ WordValues # {}
    /\ ReadClears \in BOOLEAN

VARIABLES
    trng,     \* the registers
    driver,   \* where the driver is; "off", "ok" and "error" when not called
    word,     \* what it has just read
    dest,     \* the buffer it fills
    offset    \* words filled so far

trngVars == <<trng, driver, word, dest, offset>>

\* What a word is worth: fresh, one that was read before, or the output of
\* a generator whose monitor has just found it unhealthy.
Word == [value : WordValues, quality : {"fresh", "used", "suspect"}]
ZeroWord == [value |-> CHOOSE v \in WordValues : TRUE, quality |-> "used"]

\* enabled is TRNG_CTL1, running TRNG_STATUS; initialized, available and
\* unhealthy are the flags of INTR_TRNG; monitored the tests of TRNG_MON_CTL.
Registers == [enabled : BOOLEAN, running : BOOLEAN, initialized : BOOLEAN,
              available : BOOLEAN, unhealthy : BOOLEAN, monitored : BOOLEAN,
              result : Word]

Drivers == {"off", "init", "enable", "wait_init", "next", "wait_data",
            "read", "check", "ok", "error"}

TrngTypeOK ==
    /\ trng \in Registers
    /\ driver \in Drivers
    /\ word \in Word
    /\ dest \in [1 .. SeedWords -> Word]
    /\ offset \in 0 .. SeedWords

TrngInitState ==
    /\ trng = [enabled |-> FALSE, running |-> FALSE, initialized |-> FALSE,
               available |-> FALSE, unhealthy |-> FALSE, monitored |-> FALSE,
               result |-> ZeroWord]
    /\ driver = "off"
    /\ word = ZeroWord
    /\ dest = [i \in 1 .. SeedWords |-> ZeroWord]
    /\ offset = 0

------------------------------------------------------------------------------
(* The hardware. *)

\* The initialisation delay has passed.
HwInitialize ==
    /\ trng.enabled /\ ~trng.running
    /\ trng' = [trng EXCEPT !.running = TRUE, !.initialized = TRUE]
    /\ UNCHANGED <<driver, word, dest, offset>>

\* 32 more bits are there.
HwGenerate ==
    /\ trng.running
    /\ \E v \in WordValues :
         trng' = [trng EXCEPT !.available = TRUE,
                              !.result = [value |-> v, quality |-> "fresh"]]
    /\ UNCHANGED <<driver, word, dest, offset>>

\* A health test fails.  The hardware clears TRNG_CTL1 and the test (the
\* driver sets STOP_ON_AP_DETECT and STOP_ON_RC_DETECT); the last bits are
\* the ones that failed, and may or may not have completed a word.  The
\* tests watch the bits after the initialisation delay (bit stream TR).
HwDetect ==
    /\ trng.running /\ trng.monitored
    /\ \E completed \in BOOLEAN :
         trng' = [trng EXCEPT !.enabled = FALSE, !.running = FALSE,
                              !.monitored = FALSE, !.unhealthy = TRUE,
                              !.available = @ \/ completed,
                              !.result.quality = "suspect"]
    /\ UNCHANGED <<driver, word, dest, offset>>

------------------------------------------------------------------------------
(* The driver, in the order boot_seed calls it. *)

Cleared(regs) == [regs EXCEPT !.available = FALSE, !.initialized = FALSE]

\* Clears the flags and the health status, configures both tests.
TrngInit ==
    /\ driver = "init"
    /\ trng' = [Cleared(trng) EXCEPT !.unhealthy = FALSE, !.monitored = TRUE]
    /\ driver' = "enable"
    /\ UNCHANGED <<word, dest, offset>>

TrngEnable ==
    /\ driver = "enable"
    /\ IF trng.enabled
         THEN driver' = "next" /\ UNCHANGED trng
         ELSE driver' = "wait_init" /\ trng' = [Cleared(trng) EXCEPT !.enabled = TRUE]
    /\ offset' = 0
    /\ UNCHANGED <<word, dest>>

WaitForInit ==
    /\ driver = "wait_init" /\ trng.initialized
    /\ driver' = "next"
    /\ UNCHANGED <<trng, word, dest, offset>>

\* trng_try_fill_bytes goes round; trng_read_data checks for a TRNG that is
\* enabled.
NextWord ==
    /\ driver = "next"
    /\ driver' = CASE offset = SeedWords -> "ok"
                   [] offset < SeedWords /\ trng.enabled -> "wait_data"
                   [] OTHER -> "error"
    /\ UNCHANGED <<trng, word, dest, offset>>

WaitForComplete ==
    /\ driver = "wait_data"
    /\ trng.available \/ trng.unhealthy
    /\ driver' = "read"
    /\ UNCHANGED <<trng, word, dest, offset>>

ReadResult ==
    /\ driver = "read"
    /\ word' = trng.result
    /\ trng' = [trng EXCEPT !.available = @ /\ ~ReadClears,
                            !.result.quality = IF @ = "fresh" THEN "used" ELSE @]
    /\ driver' = "check"
    /\ UNCHANGED <<dest, offset>>

\* The word is kept.
Store ==
    /\ dest' = [dest EXCEPT ![offset + 1] = word]
    /\ offset' = offset + 1
    /\ driver' = "next"

CheckNothing ==                                     \* mutant of CheckHealth
    /\ driver = "check"
    /\ Store
    /\ UNCHANGED <<trng, word>>

CheckHealth ==
    /\ driver = "check"
    /\ \/ ~trng.unhealthy /\ Store
       \/ trng.unhealthy /\ driver' = "error" /\ UNCHANGED <<dest, offset>>
    /\ UNCHANGED <<trng, word>>

Hardware == HwInitialize \/ HwGenerate \/ HwDetect

Driver == \/ TrngInit \/ TrngEnable \/ WaitForInit \/ NextWord
          \/ WaitForComplete \/ ReadResult \/ CheckHealth

==============================================================================
