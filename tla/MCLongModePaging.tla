------------------------- MODULE MCLongModePaging ---------------------------
(***************************************************************************)
(* LongModePaging with tables of 8 entries, started in memory that is      *)
(* zeroed or in which every word looks like an entry, present or not.      *)
(***************************************************************************)
EXTENDS LongModePaging, TLC

MCFrames == 0 .. 35

Uniform(e) == [f \in MCFrames |-> [i \in 0 .. N - 1 |-> e]]

(* Stale entries of the tables only, in the lower or in the upper half. *)
Striped(e) == [f \in MCFrames |-> [i \in 0 .. N - 1 |-> IF i % 2 = 0 THEN e ELSE Absent]]

MCMemories ==
    {Uniform(Absent)} \cup {Uniform(e) : e \in {2, 3, 9, 33}}
                      \cup {Striped(e) : e \in {2, 9, 34}}

=============================================================================
