----------------------------- MODULE MCReadDisk -----------------------------
(***************************************************************************)
(* ReadDisk called for sectors with every single bit of the number.        *)
(***************************************************************************)
EXTENDS ReadDisk

MCRequests == [lba : {0} \cup {2 ^ b : b \in 0 .. 27}, nsec : {1}, limit : {0, 3, 4}]

=============================================================================
