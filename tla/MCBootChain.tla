---------------------------- MODULE MCBootChain -----------------------------
(***************************************************************************)
(* BootChain with the command lines of the 64-bit makefile and of mkimg's  *)
(* usage text, loaders of 13 to 17 sectors, and machines that boot from    *)
(* their floppy or their hard disk.                                        *)
(***************************************************************************)
EXTENDS BootChain

CONSTANT MCTotal    \* bound: the argument of -n, 2880 in the makefiles

Line(mbr, head, loader) ==
    << Output, Number(MCTotal), Input("mbr.bin", mbr), Input("head.bin", head),
       Input("loader.exe", loader) >>

(* AMD64/makefile, mkimg.c's usage text, and lines that end in an error or *)
(* in an image that is too long.                                           *)
MCArgLists == {Line(0, 0, 0), Line(1, 2, 17), <<>>, Tail(Line(1, 2, 17)),
               << Output, Ignored, Number(3), Input("mbr.bin", 1), Input("head.bin", 2),
                  Input("loader.exe", 0) >> }

(* The command line of X86/makefile. *)
X86ArgLists == {Line(1, 2, 16)}

MCSizes == {25, 26, 32, 33, 34}

MCFileSystems ==
    {("mbr.bin" :> 2) @@ ("head.bin" :> 4) @@ ("loader.exe" :> size) : size \in MCSizes}
        \cup {("mbr.bin" :> 2) @@ ("loader.exe" :> 26)}

(* Headers, .text, .data with or without uninitialised data behind it or   *)
(* with padding at its end.                                                *)
MCSections ==
    [size \in MCSizes |->
       << [va |-> 16, vs |-> 19, ptr |-> 2, raw |-> 20],
          [va |-> 40, vs |-> IF size = 34 THEN 12 ELSE size - 21, ptr |-> 22, raw |-> size - 22] >>]

MCMachines ==
    [arch : {"x86", "x64"}, longMode : BOOLEAN, boot : {0, 128},
     drives : {(0 :> "image") @@ (128 :> "none"), (0 :> "none") @@ (128 :> "image"),
               (0 :> "image") @@ (128 :> "image"), (0 :> "other") @@ (128 :> "image")}]

(* The hypotheses of the theorems about BootChain; of the second it is the *)
(* 32-bit makefile that does not satisfy it.                               *)
ASSUME ChainAssumption == ChainLines /\ (LoaderFits \/ ArgLists = X86ArgLists)

(* mkimg.c's opening comment copies 17 sectors of loader.exe to the image, *)
(* its usage text asks for them and the heads load them: loader_main has   *)
(* the first 17 sectors of loader.exe.                                     *)
SeventeenSectors ==
    stage = "loader_main" =>
        \A k \in 1 .. disk["loader.exe"] : peMem[k] = Half("loader.exe", k)

=============================================================================
