----------------------------- MODULE MCMemProbe -----------------------------
(***************************************************************************)
(* MemProbe with maps of 0 to 15 ranges, one after the other.              *)
(***************************************************************************)
EXTENDS MemProbe

MCBioses ==
    [above1M : {0, 15360}, e801 : {<<>>, <<15360, 256, 15360, 256>>},
     map : {[k \in 1 .. n |-> <<"range", k>>] : n \in 0 .. 15}, end : {"zero", "carry"}]

=============================================================================
