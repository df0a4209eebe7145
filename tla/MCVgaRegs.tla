------------------------------ MODULE MCVgaRegs ------------------------------
(***************************************************************************)
(* VgaRegs from cards in color or monochrome modes, locked or not, between *)
(* an index and its data or not, blanked or not.                           *)
(***************************************************************************)
EXTENDS VgaRegs

Zeros == [r \in 0 .. 31 |-> 0]

MCCards ==
    {[misc |-> m, latch |-> l, index |-> [SEQ |-> 0, CRTC |-> 0, GC |-> 0, AC |-> a],
      reg |-> [SEQ |-> Zeros, GC |-> Zeros, AC |-> Zeros,
               CRTC |-> [Zeros EXCEPT ![3] = x, ![17] = y]]] :
        m \in {102, 103}, l \in {"index", "data"}, a \in {3, 32}, x \in {0, 128}, y \in {0, 142}}

=============================================================================
