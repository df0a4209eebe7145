------------------------------- MODULE MkImg --------------------------------
(***************************************************************************)
(* BUILD/mkimg.c: the tool that concatenates mbr.bin, head.bin and         *)
(* loader.exe into a disk image.  Data are half sectors: the k-th half     *)
(* sector of file f is the value <<f, k>>, a buffer is a pair of them, and *)
(* a file's size is its number of half sectors, so that its last sector    *)
(* may be incomplete.                                                      *)
(***************************************************************************)
EXTENDS Integers, Sequences, SequencesExt, FiniteSets

CONSTANTS
    ArgLists,      \* the command lines: sequences of Number, Output and Input
    FileSystems,   \* the files there may be: functions from names to sizes
    DefaultSectors \* total_sec without -n

(* The arguments, as parse_args tells them apart. *)
Number(n)         == [kind |-> "-n", n |-> n]
Output            == [kind |-> "-o"]
Ignored           == [kind |-> "-"]     \* any other option
Input(f, sectors) == [kind |-> "file", fname |-> f, nsec |-> sectors]   \* 0: no =

(* The number behind = is not negative: the tool does not check it.        *)
Arguments == [kind : {"-n"}, n : Int] \cup {Output, Ignored}
                 \cup [kind : {"file"}, fname : STRING, nsec : Nat]

ASSUME ArgumentAssumption ==
    /\ DefaultSectors \in Nat
    /\ ArgLists \subseteq Seq(Arguments)
    /\ \A fs \in FileSystems : \A f \in DOMAIN fs : fs[f] \in Nat

VARIABLES
    argv, disk,    \* the command line, the files
    at,            \* where main is
    i, j,          \* the loop counters
    total_sec, outf, ifs, nSec, buf,
    fp,            \* halves of the input consumed
    img,           \* the image file so far
    status         \* what main returned

tool == <<argv, disk, at, i, j, total_sec, outf, ifs, nSec, buf, fp, img, status>>

Junk == <<"junk", 0>>
Zero == <<"zero", 0>>

Half(f, k) == <<f, k>>

MkImgInit ==
    /\ argv \in ArgLists
    /\ disk \in FileSystems
    /\ at = IF argv = <<>> THEN "return" ELSE "args"
    /\ status = IF argv = <<>> THEN -3 ELSE 0
    /\ i = 1 /\ j = 0
    /\ total_sec = DefaultSectors
    /\ outf = FALSE
    /\ ifs = <<>>
    /\ nSec = 0
    /\ buf = <<Junk, Junk>>
    /\ fp = 0
    /\ img = <<>>

(* One turn of the loop over argv. *)
parse_args ==
    /\ at = "args"
    /\ i <= Len(argv)
    /\ i' = i + 1
    /\ \/ /\ argv[i].kind = "-n"
          /\ total_sec' = argv[i].n
          /\ UNCHANGED <<outf, ifs>>
       \/ /\ argv[i].kind = "-o"
          /\ outf' = TRUE
          /\ UNCHANGED <<total_sec, ifs>>
       \/ /\ argv[i].kind = "-"
          /\ UNCHANGED <<total_sec, outf, ifs>>
       \/ /\ argv[i].kind = "file"
          /\ ifs' = Append(ifs, [fname |-> argv[i].fname, nsec |-> argv[i].nsec])
          /\ UNCHANGED <<total_sec, outf>>
    /\ UNCHANGED <<argv, disk, at, j, nSec, buf, fp, img, status>>

(* fopen(outf, "wb"): without -o the name is empty and there is no file. *)
OpenOutput ==
    /\ at = "args"
    /\ i > Len(argv)
    /\ i' = 1
    /\ IF outf THEN at' = "open" /\ UNCHANGED status
               ELSE at' = "return" /\ status' = -1
    /\ UNCHANGED <<argv, disk, j, total_sec, outf, ifs, nSec, buf, fp, img>>

(* Variant: not rounded up. *)
WholeSectors(size) == size \div 2

Sectors(size) == (size + 1) \div 2

OpenInput ==
    /\ at = "open"
    /\ i <= Len(ifs)
    /\ IF ifs[i].fname \in DOMAIN disk
       THEN /\ at' = "copy"
            /\ nSec' = IF ifs[i].nsec = 0 THEN Sectors(disk[ifs[i].fname]) ELSE ifs[i].nsec
            /\ UNCHANGED status
       ELSE /\ at' = "return"
            /\ status' = -2
            /\ UNCHANGED nSec
    /\ fp' = 0
    /\ j' = 0
    /\ UNCHANGED <<argv, disk, i, total_sec, outf, ifs, buf, img>>

(* Variant: a buffer of its own for every sector. *)
ReadFresh(f) == [h \in 1 .. 2 |-> IF fp + h <= disk[f] THEN Half(f, fp + h) ELSE Junk]

(* fread overwrites as much of the buffer as the file still has, and the   *)
(* rest of it keeps what it held; its result is ignored.                   *)
Read(f) == [h \in 1 .. 2 |-> IF fp + h <= disk[f] THEN Half(f, fp + h) ELSE buf[h]]

CopySector ==
    /\ at = "copy"
    /\ j < nSec
    /\ buf' = Read(ifs[i].fname)
    /\ fp' = IF fp + 2 <= disk[ifs[i].fname] THEN fp + 2 ELSE disk[ifs[i].fname]
    /\ img' = img \o buf'
    /\ j' = j + 1
    /\ UNCHANGED <<argv, disk, at, i, total_sec, outf, ifs, nSec, status>>

(* Variant: what was copied is not subtracted. *)
CloseUncounted ==
    /\ at = "copy"
    /\ j >= nSec
    /\ i' = i + 1
    /\ at' = "open"
    /\ UNCHANGED <<argv, disk, j, total_sec, outf, ifs, nSec, buf, fp, img, status>>

CloseInput ==
    /\ at = "copy"
    /\ j >= nSec
    /\ total_sec' = total_sec - nSec
    /\ i' = i + 1
    /\ at' = "open"
    /\ UNCHANGED <<argv, disk, j, outf, ifs, nSec, buf, fp, img, status>>

(* memset of the buffer and the first turn's test of the last loop. *)
BeginFill ==
    /\ at = "open"
    /\ i > Len(ifs)
    /\ buf' = <<Zero, Zero>>
    /\ i' = 0
    /\ at' = "fill"
    /\ UNCHANGED <<argv, disk, j, total_sec, outf, ifs, nSec, fp, img, status>>

FillSector ==
    /\ at = "fill"
    /\ i < total_sec
    /\ img' = img \o buf
    /\ i' = i + 1
    /\ UNCHANGED <<argv, disk, at, j, total_sec, outf, ifs, nSec, buf, fp, status>>

Finish ==
    /\ at = "fill"
    /\ i >= total_sec
    /\ at' = "return"
    /\ UNCHANGED <<argv, disk, i, j, total_sec, outf, ifs, nSec, buf, fp, img, status>>

MkImgNext ==
    \/ parse_args \/ OpenOutput \/ OpenInput \/ CopySector \/ CloseInput
    \/ BeginFill \/ FillSector \/ Finish

-----------------------------------------------------------------------------

(* What the command line asks for, read off it without the tool: the last   *)
(* -n counts, and an input takes the sectors it names, or those it needs.  *)
(* Taken[k] is how many the inputs among the first k arguments take, so    *)
(* that Taken[k - 1] is the sector at which argument k begins.             *)
Built   == at = "return" /\ status = 0
Numbers == {k \in DOMAIN argv : argv[k].kind = "-n"}
Files   == {k \in DOMAIN argv : argv[k].kind = "file"}
Asked   == IF Numbers = {} THEN DefaultSectors ELSE argv[Max(Numbers)].n
Needed(f) == CHOOSE n \in 0 .. disk[f] : 2 * n - 1 <= disk[f] /\ disk[f] <= 2 * n
Width(n)  == IF argv[n].nsec = 0 THEN Needed(argv[n].fname) ELSE argv[n].nsec

Taken[k \in Nat] ==
    IF k = 0 THEN 0 ELSE IF k \in Files THEN Taken[k - 1] + Width(k) ELSE Taken[k - 1]

(* An image the tool reports no error for holds, at the sector where the   *)
(* inputs before it end, as much of each input as its sectors take, and    *)
(* every input it was not told to cut is there to its last byte, even when *)
(* that byte is in the middle of a sector.                                 *)
ImageHoldsInputs ==
    Built =>
        \A n \in Files :
            LET f == argv[n].fname
            IN  \A k \in 1 .. disk[f] :
                   k <= 2 * Width(n) =>
                       /\ 2 * Taken[n - 1] + k <= Len(img)
                       /\ img[2 * Taken[n - 1] + k] = Half(f, k)

(* It is as long as asked, or as the inputs are when they do not fit, and  *)
(* zero behind them.                                                       *)
ImageSize ==
    Built =>
        LET used == Taken[Len(argv)]
        IN  /\ Len(img) = 2 * (IF used > Asked THEN used ELSE Asked)
            /\ \A k \in 2 * used + 1 .. Len(img) : img[k] = Zero

(* What pads an incomplete sector, or one past the end of an input, is     *)
(* whatever the buffer held, and never the stack the buffer was laid on:   *)
(* with a boot sector that fills its sector the image is the same however  *)
(* often it is built.                                                      *)
PaddingInitialised ==
    Built => \A k \in DOMAIN img : img[k] # Junk

=============================================================================
