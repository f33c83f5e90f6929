---------------------------- MODULE MCTockClients ----------------------------
(***************************************************************************)
(* The three secure images with their regions, and two processes in the    *)
(* memory of the Tock kernels' linker scripts: p1 asks for nonces, p2 runs *)
(* the test loop.                                                          *)
(***************************************************************************)
EXTENDS TockClients

CONSTANTS p1, p2

MCBoards == {"psc3m5_evk", "psc3m5_evk_ipc", "musca_b1"}

Sau(base, limit, attribute) == [base |-> base, limit |-> limit, attribute |-> attribute]

MCSauRegions == [b \in MCBoards |->
    IF b # "musca_b1"
    THEN <<Sau(\h22020000, \h2203FFFF, "NonSecure"),
           Sau(\h3201FF00, \h3201FFFF, "NonSecureCallable"),
           Sau(IF b = "psc3m5_evk" THEN \h24004000 ELSE \h24005100, \h2400EFFF, "NonSecure"),
           Sau(\h2400F000, \h2400FFFF, "NonSecure"),
           Sau(\h42000000, \h4FFFFFFF, "NonSecure"),
           Sau(\h52020000, \h5202637F, "Secure"),
           Sau(\h52820000, \h52820FDF, "Secure")>>
    ELSE <<Sau(\h00102000, \h0027FFFF, "NonSecure"),
           Sau(\h10100000, \h10101FFF, "NonSecureCallable"),
           Sau(\h20030000, \h2007FFFF, "NonSecure"),
           Sau(\h40000000, \h4FFFFFFF, "NonSecure"),
           Sau(\h40105000, \h40105FFF, "NonSecure")>>]

\* Sizes of blocks that divide all the ends and give each memory several words.
Mpc(memory, size, base, limit, blockSize) ==
    [memory |-> memory, size |-> size, base |-> base, limit |-> limit, blockSize |-> blockSize]

MCMpcJobs == [b \in MCBoards |->
    IF b # "musca_b1" THEN <<>>
    ELSE <<Mpc(\h00000000, \h400000, \h00102000, \h003F7FFF, \h2000),
           Mpc(\h20000000, \h80000, \h20030000, \h2007FFFF, \h1000),
           Mpc(\h20020000, \h20000, \h20030000, \h2003FFFF, \h800),
           Mpc(\h20040000, \h20000, \h20040000, \h2005FFFF, \h800),
           Mpc(\h20060000, \h20000, \h20060000, \h2007FFFF, \h800)>>]

MCLastNsIrq == [b \in MCBoards |-> IF b = "musca_b1" THEN 127 ELSE 140]
MCNvicWords == [b \in MCBoards |-> 5]

\* Serial port 3, and UART1.
MCConsole == [b \in MCBoards |->
    IF b = "musca_b1" THEN [addr |-> \h40106000, region |-> "uart1"]
    ELSE [addr |-> \h42860000, region |-> 194]]

\* Lines that are accepted, too short or too long, and lines of the right length
\* with a character that is no digit in front of a digit, behind one, and twice.
MCLines ==
    {<<1, 2, 3, 4>>, <<4, 3, 0, 1>>, <<>>, <<1, 2>>, <<1, 2, 3>>, <<1, 2, 3, 4, 5>>,
     <<NoDigit, 1, 2, 3>>, <<1, NoDigit, 2, 3>>, <<5, 6, NoDigit, 7>>, <<6, 5, 8, NoDigit>>,
     <<NoDigit, 1, NoDigit, 2>>}

\* The kernel's regions: flash of the process, its RAM, and for p1 memory of p2
\* that p2 shares with it over IPC, one granule behind p1's own.
MCFlash(b, p) ==
    (IF b # "musca_b1" THEN \h22036000 ELSE \h00182000) + (IF p = p1 THEN 0 ELSE \h800)
MCRam(b) == IF b # "musca_b1" THEN \h24006000 ELSE \h20038000

Mpu(base, size, write) ==
    [base |-> base, limit |-> base + size - 1, read |-> TRUE, write |-> write]

MCMpuRegions == [b \in MCBoards |-> [p \in {p1, p2} |->
    IF p = p1
    THEN <<Mpu(MCFlash(b, p), \h800, FALSE), Mpu(MCRam(b), 128, TRUE),
           Mpu(MCRam(b) + 160, 32, TRUE)>>
    ELSE <<Mpu(MCFlash(b, p), \h800, FALSE), Mpu(MCRam(b) + 128, 128, TRUE)>>]]

\* For p1 two neighbours, one that shares a byte with the second, and an empty
\* one; buffers that end one byte behind the process, span the hole in front of
\* the shared memory, or lie in flash, at null, in secure memory and at the end
\* of the address space.  For p2, and on the board whose memory map differs in
\* one region only, the nonce, the token and the negative tests of the app.
MCBuffers == [b \in MCBoards |-> [p \in {p1, p2} |->
    LET own == IF p = p1 THEN MCRam(b) ELSE MCRam(b) + 128
        test == {[base |-> own, len |-> 32], [base |-> own + 32, len |-> 64],
                 [base |-> own + 96, len |-> 33],
                 [base |-> MCSauRegions[b][2].base + 256, len |-> 64]}
    IN  IF p = p2 \/ b = "psc3m5_evk_ipc" THEN test
        ELSE test \cup
             {[base |-> own + 95, len |-> 33], [base |-> own + 40, len |-> 0],
              [base |-> own + 127, len |-> 40], [base |-> MCFlash(b, p), len |-> 16],
              [base |-> 0, len |-> 16], [base |-> AddressSpace - 32, len |-> 64]}]]
==============================================================================
