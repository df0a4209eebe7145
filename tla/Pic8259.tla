------------------------------ MODULE Pic8259 -------------------------------
(***************************************************************************)
(* The pair of 8259 interrupt controllers as X86/idt.c programs and relies *)
(* on them: hardware outside the repository, modelled from the bytes that  *)
(* init_8259_pic writes.  A controller is a record; the operators say what *)
(* a byte written to one of its two ports does, which of its requests wins *)
(* and what the processor's acknowledge changes.                           *)
(***************************************************************************)
EXTENDS Integers, FiniteSets

Lines == 0 .. 7

Bit(v, l) == (v \div 2 ^ l) % 2 = 1

(* As the BIOS leaves it: vectors from base, end of interrupt by command. *)
BiosPic(base, icw3, mask) ==
    [expect |-> 0, base |-> base, icw3 |-> icw3, aeoi |-> FALSE,
     imr |-> mask, irr |-> {}, isr |-> {}]

(* Command port: 0x11 starts the initialisation, which forgets the mask and *)
(* the requests latched so far.                                             *)
WriteCommand(p, v) ==
    IF v = 17
    THEN [p EXCEPT !.expect = 2, !.imr = 0, !.irr = {}, !.isr = {}]
    ELSE p

(* Data port: the initialisation words in order, afterwards the mask. *)
WriteData(p, v) ==
    CASE p.expect = 2 -> [p EXCEPT !.expect = 3, !.base = 8 * (v \div 8)]
      [] p.expect = 3 -> [p EXCEPT !.expect = 4, !.icw3 = v]
      [] p.expect = 4 -> [p EXCEPT !.expect = 0, !.aeoi = Bit(v, 1)]
      [] p.expect = 0 -> [p EXCEPT !.imr = v]

ReadData(p) == p.imr

(* Requests that are not masked and not held back by one in service. *)
Requests(p) ==
    IF p.expect # 0 THEN {}
    ELSE {l \in p.irr : ~Bit(p.imr, l) /\ \A s \in p.isr : l < s}

First(S) == CHOOSE l \in S : \A k \in S : l <= k

Acknowledged(p, l) ==
    [p EXCEPT !.irr = @ \ {l}, !.isr = IF p.aeoi THEN @ ELSE @ \cup {l}]

(* The slave's output is a request on the master's line 2. *)
Cascaded(m, s) == IF Requests(s) = {} THEN m ELSE [m EXCEPT !.irr = @ \cup {2}]

(* What the processor gets when it acknowledges: the vector and both        *)
(* controllers afterwards.  The slave answers if each knows of the other.   *)
Answer(m, s) ==
    LET l == First(Requests(m))
        k == First(Requests(s))
    IN  IF l = 2 /\ Bit(m.icw3, 2) /\ s.icw3 = 2 /\ Requests(s) # {}
        THEN [vector |-> s.base + k, master |-> Acknowledged(m, l), slave |-> Acknowledged(s, k)]
        ELSE [vector |-> m.base + l, master |-> Acknowledged(m, l), slave |-> s]

=============================================================================
