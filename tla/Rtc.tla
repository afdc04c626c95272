--------------------------------- MODULE Rtc ---------------------------------
(***************************************************************************)
(* The real-time clock driver, rtc.c.  The chip is reached through an index *)
(* port and a data port, which the interrupt handler and every rtc_set_freq *)
(* share; rtc_set_freq runs in system calls, with interrupts enabled.  Each *)
(* terminal has a process that opens, reads, writes and closes the RTC.     *)
(***************************************************************************)
EXTENDS Integers

CONSTANTS
    Terms,      \* the terminals
    Freqs,      \* the frequencies that programs pass to rtc_write
    Races       \* {"tick"}: an RTC interrupt strikes between the selection of a
                \* register and the access to it; {}: it does not

ASSUME RtcAssumption == Races \subseteq {"tick"} /\ Freqs \subseteq Nat

VARIABLES
    index,                  \* the register selected by the index port
    regA,                   \* register A: divider control (DV) and rate (RS)
    rtc_interrupt_occurred, \* a tick that the terminal has not yet read
    pc,                     \* where the process of t is in rtc.c
    opened,                 \* it has the RTC open
    freq,                   \* the argument of its rtc_set_freq
    a_old,                  \* its old value of register A
    last                    \* history: the frequency written most recently

callVars == <<pc, opened, freq, a_old>>
vars == <<index, regA, rtc_interrupt_occurred, callVars, last>>

\* The chip as the BIOS leaves it, after init_rtc; a register other than A
\* has none of the divider bits (C reads as zero once it has been read).
Running == [dv |-> "running", rate |-> 6]
OtherRegister == [dv |-> "off", rate |-> 0]

Init ==
    /\ index = "B"
    /\ regA = Running
    /\ rtc_interrupt_occurred = [t \in Terms |-> 0]
    /\ pc = [t \in Terms |-> "idle"]
    /\ opened = [t \in Terms |-> FALSE]
    /\ freq = [t \in Terms |-> 2]
    /\ a_old = [t \in Terms |-> Running]
    /\ last = 1024

-----------------------------------------------------------------------------
Goto(t, label) == pc' = [pc EXCEPT ![t] = label]

tick_all == rtc_interrupt_occurred' = [t \in Terms |-> 1]

\* The chip interrupts while its divider runs.  The handler marks the tick for
\* every terminal and reads register C, so that the chip may interrupt again.
rtc_interrupt_handler ==
    /\ regA.dv = "running"
    /\ "tick" \in Races \/ \A t \in Terms : pc[t] \notin {"read_a", "write_a"}
    /\ tick_all
    /\ index' = "C"
    /\ UNCHANGED <<regA, callVars, last>>

\* Mutant: the table begins one rate too late.
Table_shifted == [f \in {1024, 512, 256, 128, 64, 32, 16, 8, 4, 2} |->
                     CHOOSE r \in 7 .. 16 : f = 2 ^ (17 - r)]

\* The chain of tests of rtc_set_freq; no other frequency sets rate.
Table == [f \in {1024, 512, 256, 128, 64, 32, 16, 8, 4, 2} |->
    CASE f = 1024 -> 6 [] f = 512 -> 7 [] f = 256 -> 8 [] f = 128 -> 9
      [] f = 64 -> 10  [] f = 32 -> 11 [] f = 16 -> 12 [] f = 8 -> 13
      [] f = 4 -> 14   [] f = 2 -> 15]

\* Mutant: the bits of register A that are not the rate are dropped.
NewA_rate_only(old, f) == {[dv |-> "off", rate |-> Table[f]]}

\* What is written to register A.  An unsupported frequency leaves the local
\* variable rate uninitialised, and any of its bits are merged in.
NewA(old, f) ==
    IF f \in DOMAIN Table THEN {[dv |-> old.dv, rate |-> Table[f]]}
    ELSE [dv : {"running", "off"}, rate : 0 .. 15]

TooFast == {8192, 4096, 2048}

select_a(t, here, next) ==
    /\ pc[t] = here
    /\ index' = "A"
    /\ Goto(t, next)
    /\ UNCHANGED <<regA, rtc_interrupt_occurred, opened, freq, a_old, last>>

\* The read of the old value, and the early return.
read_a(t) ==
    /\ pc[t] = "read_a"
    /\ a_old' = [a_old EXCEPT ![t] = IF index = "A" THEN regA ELSE OtherRegister]
    /\ Goto(t, IF freq[t] \in TooFast THEN "idle" ELSE "select_again")
    /\ UNCHANGED <<index, regA, rtc_interrupt_occurred, opened, freq, last>>

\* Register C, where the handler may have left the index, is read-only.
write_a(t) ==
    /\ pc[t] = "write_a"
    /\ IF index = "A" THEN regA' \in NewA(a_old[t], freq[t]) ELSE UNCHANGED regA
    /\ last' = freq[t]
    /\ Goto(t, "idle")
    /\ UNCHANGED <<index, rtc_interrupt_occurred, opened, freq, a_old>>

rtc_set_freq(t) ==
    \/ select_a(t, "select", "read_a")
    \/ read_a(t)
    \/ select_a(t, "select_again", "write_a")
    \/ write_a(t)

-----------------------------------------------------------------------------
\* A system call that begins with rtc_set_freq(f).
Call(t, f, open) ==
    /\ pc[t] = "idle"
    /\ freq' = [freq EXCEPT ![t] = f]
    /\ opened' = [opened EXCEPT ![t] = open]
    /\ Goto(t, "select")
    /\ UNCHANGED <<index, regA, rtc_interrupt_occurred, a_old, last>>

rtc_open(t)     == ~opened[t] /\ Call(t, 2, TRUE)
rtc_write(t, f) == opened[t] /\ Call(t, f, TRUE)
rtc_close(t)    == opened[t] /\ Call(t, 2, FALSE)

read_call(t) ==
    /\ pc[t] = "idle" /\ opened[t]
    /\ Goto(t, "spin")
    /\ UNCHANGED <<index, regA, rtc_interrupt_occurred, opened, freq, a_old, last>>

\* The loop ends ...
read_spin(t) ==
    /\ pc[t] = "spin" /\ rtc_interrupt_occurred[t] = 1
    /\ Goto(t, "reset")
    /\ UNCHANGED <<index, regA, rtc_interrupt_occurred, opened, freq, a_old, last>>

\* Mutant: the read consumes the tick of every terminal.
consume_all(t) == rtc_interrupt_occurred' = [u \in Terms |-> 0]

consume(t) == rtc_interrupt_occurred' = [rtc_interrupt_occurred EXCEPT ![t] = 0]

\* ... and the flag is reset, together with any tick since.
read_reset(t) ==
    /\ pc[t] = "reset"
    /\ consume(t)
    /\ Goto(t, "idle")
    /\ UNCHANGED <<index, regA, opened, freq, a_old, last>>

rtc_read(t) == read_spin(t) \/ read_reset(t)

Next ==
    \/ rtc_interrupt_handler
    \/ \E t \in Terms :
          \/ rtc_open(t)
          \/ \E f \in Freqs : rtc_write(t, f)
          \/ rtc_close(t)
          \/ read_call(t)
          \/ rtc_set_freq(t)
          \/ rtc_read(t)

Spec == Init /\ [][Next]_vars

\* Every terminal gets its turns; a tick is latched until interrupts are on.
FairSpec ==
    /\ Spec
    /\ SF_vars(rtc_interrupt_handler)
    /\ \A t \in Terms : WF_vars(rtc_set_freq(t)) /\ WF_vars(rtc_read(t))

-----------------------------------------------------------------------------
\* The types of the registers and of the driver's variables.
TypeOK ==
    /\ index \in {"A", "B", "C"}
    /\ regA \in [dv : {"running", "off"}, rate : 0 .. 15]
    /\ rtc_interrupt_occurred \in [Terms -> {0, 1}]
    /\ pc \in [Terms -> {"idle", "select", "read_a", "select_again", "write_a",
                         "spin", "reset"}]
    /\ opened \in [Terms -> BOOLEAN]
    /\ freq \in [Terms -> Freqs \cup {2}]
    /\ a_old \in [Terms -> [dv : {"running", "off"}, rate : 0 .. 15]]
    /\ last \in Freqs \cup {2, 1024}

\* The interrupt frequency of a rate, by the chip's data sheet.
Hertz(rate) == 2 ^ (16 - rate)

\* "sets the frequency on the RTC to be user defined": whenever no
\* rtc_set_freq is under way, the chip runs at the frequency that was set
\* last, however the calls of the terminals overlapped.
FrequencyInForce ==
    last \in DOMAIN Table /\ (\A t \in Terms : pc[t] \in {"idle", "spin", "reset"}) =>
        /\ regA.dv = "running"
        /\ Hertz(regA.rate) = last

\* A process that waits in rtc_read returns: a tick reaches every terminal,
\* and the read of one never takes it away from another.
TickEndsRead == \A t \in Terms : pc[t] = "spin" ~> pc[t] = "idle"
=============================================================================
