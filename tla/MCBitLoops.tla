----------------------------- MODULE MCBitLoops -----------------------------
(* Values of the constants of BitLoops for TLC.                            *)
EXTENDS BitLoops

\* Every offset inside a byte, in the first and in the second byte.
MCOffsets == 0..15

\* Every width the callers can pass.
MCSizes == 0..16

\* Small values, the values of the repository's tests, values with the top
\* bits of each width set, and negative ones.
MCValues == {0, 1, 2, 5, 42, 127, 128, 255, 256, 515, 4096, 21845, 32767,
             -1, -2, -256, -21846, -32768}

\* Neighbouring fields all zeros, or all ones.
MCContents == {{}, 0 .. 8 * Bytes - 1}

=============================================================================
