--------------------------------- MODULE Pic ---------------------------------
(***************************************************************************)
(* The two cascaded 8259 interrupt controllers and i8259.c, which programs  *)
(* them.  The chips are external; they work in the mode that the ICWs       *)
(* choose: edge triggered, fixed priority, fully nested, and an explicit    *)
(* end of interrupt for a named line.  Masks are sets of masked lines.      *)
(***************************************************************************)
EXTENDS Integers

IRQs        == 0 .. 15
MasterLines == 0 .. 7
SlaveLines  == 8 .. 15
ICW3_SLAVE  == 2        \* the line of the master that the slave is wired to

VARIABLES
    master_mask, slave_mask,    \* the copies in i8259.c
    imr,                        \* the mask registers of both chips
    irr,                        \* requests that wait
    isr                         \* lines in service

picVars == <<master_mask, slave_mask, imr, irr, isr>>

PicInit ==
    /\ master_mask = MasterLines
    /\ slave_mask = SlaveLines
    /\ imr = {} /\ irr = {} /\ isr = {}

-----------------------------------------------------------------------------
\* The chips: of two lines of one chip the one with the lower number has
\* priority, and a line in service holds back itself and those below it.
Held(i) == \E j \in isr : j <= i /\ (j \in MasterLines <=> i \in MasterLines)

SlaveRequests == {i \in (irr \ imr) \cap SlaveLines : ~Held(i)}

MasterRequests ==
    {i \in MasterLines \ imr : i \in irr \/ (i = ICW3_SLAVE /\ SlaveRequests # {})}

\* The line whose vector the CPU is given when it acknowledges.
Wins(i) ==
    LET m == IF i \in SlaveLines THEN ICW3_SLAVE ELSE i IN
    /\ m \in MasterRequests /\ ~Held(m)
    /\ \A j \in MasterRequests : m <= j
    /\ i \in SlaveLines => i \in SlaveRequests /\ \A j \in SlaveRequests : i <= j
    /\ i \in MasterLines => i \in irr

acknowledge(i) ==
    /\ irr' = irr \ {i}
    /\ isr' = isr \cup {i} \cup (IF i \in SlaveLines THEN {ICW3_SLAVE} ELSE {})

-----------------------------------------------------------------------------
\* i8259_init masks everything and then sends ICW1, which clears the mask
\* registers again; the copies are not written.
i8259_init ==
    /\ imr' = {} /\ irr' = {} /\ isr' = {}
    /\ UNCHANGED <<master_mask, slave_mask>>

\* Mutant: the cascade line stays masked.
enable_irq_no_cascade(n) ==
    /\ IF n \in SlaveLines
       THEN /\ slave_mask' = slave_mask \ {n}
            /\ UNCHANGED master_mask
            /\ imr' = master_mask' \cup slave_mask'
       ELSE /\ master_mask' = master_mask \ {n}
            /\ UNCHANGED slave_mask
            /\ imr' = master_mask' \cup (imr \cap SlaveLines)
    /\ UNCHANGED <<irr, isr>>

\* Mutant: the mask is written from a constant instead of the copy.
enable_irq_overwrite(n) ==
    /\ IF n \in SlaveLines
       THEN /\ slave_mask' = SlaveLines \ {n}
            /\ master_mask' = MasterLines \ {ICW3_SLAVE}
            /\ imr' = master_mask' \cup slave_mask'
       ELSE /\ master_mask' = MasterLines \ {n}
            /\ UNCHANGED slave_mask
            /\ imr' = master_mask' \cup (imr \cap SlaveLines)
    /\ UNCHANGED <<irr, isr>>

\* Mutant: the bit of the slave is set and the others cleared.
enable_irq_inverted(n) ==
    /\ IF n \in SlaveLines
       THEN /\ slave_mask' = {n}
            /\ master_mask' = master_mask \ {ICW3_SLAVE}
            /\ imr' = master_mask' \cup slave_mask'
       ELSE /\ master_mask' = master_mask \ {n}
            /\ UNCHANGED slave_mask
            /\ imr' = master_mask' \cup (imr \cap SlaveLines)
    /\ UNCHANGED <<irr, isr>>

\* A line of the slave needs the cascade line of the master too; only the
\* chips whose copy was changed are written.
enable_irq(n) ==
    /\ IF n \in SlaveLines
       THEN /\ slave_mask' = slave_mask \ {n}
            /\ master_mask' = master_mask \ {ICW3_SLAVE}
            /\ imr' = master_mask' \cup slave_mask'
       ELSE /\ master_mask' = master_mask \ {n}
            /\ UNCHANGED slave_mask
            /\ imr' = master_mask' \cup (imr \cap SlaveLines)
    /\ UNCHANGED <<irr, isr>>

\* The end of line n, and of the cascade line for a line of the slave.
send_eoi(n) ==
    isr' = isr \ ({n} \cup (IF n \in SlaveLines THEN {ICW3_SLAVE} ELSE {}))

PicTypeOK ==
    /\ master_mask \subseteq MasterLines
    /\ slave_mask \subseteq SlaveLines
    /\ imr \subseteq IRQs /\ irr \subseteq IRQs /\ isr \subseteq IRQs
=============================================================================
