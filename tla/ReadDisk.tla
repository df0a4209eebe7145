------------------------------ MODULE ReadDisk ------------------------------
(***************************************************************************)
(* X86/ReadHD.c: one function, without a caller, that reads from an ATA    *)
(* drive by polling.  The drive is hardware outside the repository.        *)
(***************************************************************************)
EXTENDS Integers, Sequences

CONSTANTS
    Requests,   \* records [lba, nsec, limit] ReadDisk may be called with:
                \* lba below 2^28, nsec in 1 .. 255
    MaxPolls    \* bound: polls during which the drive may stay busy

VARIABLES
    pc, request,
    taskfile,   \* ports 0x1f2 to 0x1f6: sector count and the parts of the number
    drive,      \* "idle", "busy", "ready" with data, "failed" or "absent"
    polls,
    tmp,        \* the word read from the data register
    p,          \* what was stored
    limit

vars == <<pc, request, taskfile, drive, polls, tmp, p, limit>>

Init ==
    /\ pc = "call"
    /\ request \in Requests
    /\ taskfile = <<0, 0, 0, 0, 0>>
    /\ drive \in {"idle", "absent"}
    /\ polls = 0
    /\ tmp = <<>>
    /\ p = <<>>
    /\ limit = request.limit

(* What the drive takes for the sector: bit 6 of 0x1f6 is left clear, so it *)
(* is a sector of a track, a cylinder in two registers and a head, not the  *)
(* number of a sector.  Word w of its data.                                *)
Addressed == [sector   |-> taskfile[2],
              cylinder |-> taskfile[3] + 2 ^ 8 * taskfile[4],
              head     |-> taskfile[5]]
Word(place, w) == <<place, w>>

(* The task file, then the command 0x20. *)
Command ==
    /\ pc = "call"
    /\ taskfile' = << request.nsec, request.lba % 256, (request.lba \div 2 ^ 8) % 256,
                      (request.lba \div 2 ^ 6) % 256, (request.lba \div 2 ^ 24) % 16 >>
    /\ drive' = IF drive = "absent" THEN drive ELSE "busy"
    /\ pc' = "wait"
    /\ UNCHANGED <<request, polls, tmp, p, limit>>

(* The drive has the data, or an error. *)
Finish ==
    /\ drive = "busy"
    /\ drive' \in {"ready", "failed"}
    /\ UNCHANGED <<pc, request, taskfile, polls, tmp, p, limit>>

(* The bits 0x88: busy and data request; no drive answers with all ones.   *)
Status ==
    CASE drive = "ready" -> 8 [] drive = "busy" -> 128 [] drive = "absent" -> 136
      [] OTHER -> 0

Poll ==
    /\ pc = "wait"
    /\ IF Status = 8 THEN pc' = "read" /\ UNCHANGED polls
       ELSE polls < MaxPolls /\ polls' = polls + 1 /\ UNCHANGED pc
    /\ UNCHANGED <<request, taskfile, drive, tmp, p, limit>>

(* One word for all of the buffer. *)
ReadWord ==
    /\ pc = "read"
    /\ tmp' = Word(Addressed, 0)
    /\ pc' = "store"
    /\ UNCHANGED <<request, taskfile, drive, polls, p, limit>>

StoreWord ==
    /\ pc = "store"
    /\ IF limit > 0 THEN p' = Append(p, tmp) /\ limit' = limit - 2 /\ UNCHANGED pc
       ELSE pc' = "return" /\ UNCHANGED <<p, limit>>
    /\ UNCHANGED <<request, taskfile, drive, polls, tmp>>

Next == Command \/ Finish \/ Poll \/ ReadWord \/ StoreWord

Spec == Init /\ [][Next]_vars

-----------------------------------------------------------------------------

(* The comments beside the four stores say that the registers get the bits *)
(* 0 to 7, 8 to 15, 16 to 23 ("lba 16~23") and 24 to 27 of lba: put         *)
(* together again, they are lba.  How the drive reads them is not asked.   *)
RegistersHoldLba ==
    pc # "call" =>
        request.lba = taskfile[2] + 2 ^ 8 * taskfile[3] + 2 ^ 16 * taskfile[4] + 2 ^ 24 * taskfile[5]

=============================================================================
