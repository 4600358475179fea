----------------------------- MODULE ByteQueue ------------------------------
(***************************************************************************)
(* What the fifo of src/firmware/include/uart.h promises to connection_read *)
(* ("It stores characters"): whatever the interrupt puts into it comes out  *)
(* once, unchanged and in order.                                            *)
(***************************************************************************)
EXTENDS Naturals, Sequences

CONSTANT Byte

VARIABLES put, got      \* the bytes put so far, and those taken so far

vars == <<put, got>>

Init == put = << >> /\ got = << >>

Put == /\ \E b \in Byte : put' = Append(put, b)
       /\ UNCHANGED got

Get == /\ Len(got) < Len(put)
       /\ got' = Append(got, put[Len(got) + 1])
       /\ UNCHANGED put

Spec == Init /\ [][Put \/ Get]_vars

=============================================================================
