------------------------------ MODULE RtcProofs ------------------------------
(***************************************************************************)
(* Proofs about the RTC driver, for every number of terminals.              *)
(***************************************************************************)
EXTENDS Rtc, TLAPS

Registers == [dv : {"running", "off"}, rate : 0 .. 15]

\* The chain of tests knows ten frequencies, each with a rate of register A.
LEMMA TableType == Table \in [{1024, 512, 256, 128, 64, 32, 16, 8, 4, 2} -> 6 .. 15]
  BY DEF Table

\* The rate of each is the one that the data sheet has for the frequency.
LEMMA TableRight == \A f \in DOMAIN Table : Hertz(Table[f]) = f
  BY DEF Table, Hertz
-----------------------------------------------------------------------------
\* Every step keeps the types, with the race open or closed and for every
\* frequency that programs pass.
LEMMA TypeOKStep == TypeOK /\ [Next]_vars => TypeOK'
  <1> SUFFICES ASSUME TypeOK, [Next]_vars PROVE TypeOK'
    OBVIOUS
  <1> USE DEF TypeOK
  <1>1. CASE rtc_interrupt_handler
    BY <1>1 DEF rtc_interrupt_handler, tick_all, callVars
  <1>2. ASSUME NEW t \in Terms, rtc_open(t) PROVE TypeOK'
    BY <1>2 DEF rtc_open, Call, Goto
  <1>3. ASSUME NEW t \in Terms, rtc_close(t) PROVE TypeOK'
    BY <1>3 DEF rtc_close, Call, Goto
  <1>4. ASSUME NEW t \in Terms, NEW f \in Freqs, rtc_write(t, f) PROVE TypeOK'
    BY <1>4 DEF rtc_write, Call, Goto
  <1>5. ASSUME NEW t \in Terms, read_call(t) PROVE TypeOK'
    BY <1>5 DEF read_call, Goto
  <1>6. ASSUME NEW t \in Terms, rtc_set_freq(t) PROVE TypeOK'
    <2>1. CASE select_a(t, "select", "read_a") \/ select_a(t, "select_again", "write_a")
      BY <2>1 DEF select_a, Goto
    <2>2. CASE read_a(t)
      BY <2>2 DEF read_a, Goto, OtherRegister
    <2>3. CASE write_a(t)
      <3>1. NewA(a_old[t], freq[t]) \subseteq Registers
        BY TableType DEF NewA, Registers
      <3>2. regA' \in Registers
        BY <2>3, <3>1 DEF write_a, Registers
      <3> QED BY <2>3, <3>2 DEF write_a, Goto, Registers
    <2> QED BY <1>6, <2>1, <2>2, <2>3 DEF rtc_set_freq
  <1>7. ASSUME NEW t \in Terms, rtc_read(t) PROVE TypeOK'
    BY <1>7 DEF rtc_read, read_spin, read_reset, consume, Goto
  <1>8. CASE UNCHANGED vars
    BY <1>8 DEF vars, callVars
  <1> QED BY <1>1, <1>2, <1>3, <1>4, <1>5, <1>6, <1>7, <1>8 DEF Next

\* The driver's variables and the registers keep their types, whatever
\* frequencies are written and wherever the RTC interrupts.
THEOREM TypeCorrect == Spec => []TypeOK
  <1>1. Init => TypeOK
    BY DEF Init, TypeOK, Running
  <1> QED BY <1>1, TypeOKStep, PTL DEF Spec

-----------------------------------------------------------------------------
(***************************************************************************)
(* While no tick comes between the selection of register A and the access   *)
(* to it, the divider bits that rtc_set_freq reads and writes back are the  *)
(* chip's own: the terminals' calls may overlap as they like, since all of  *)
(* them select the same register.                                           *)
(***************************************************************************)
Supported == DOMAIN Table \cup TooFast

ClockInv ==
    /\ \A t \in Terms :
          /\ freq[t] \in Supported
          /\ pc[t] \in {"read_a", "write_a"} => index = "A"
          /\ pc[t] \in {"select_again", "write_a"} => freq[t] \in DOMAIN Table
          /\ a_old[t].dv = "running"
    /\ regA.dv = "running"
    /\ last \in DOMAIN Table /\ regA.rate = Table[last]

\* Every step keeps the clock invariant, for the table's frequencies and no race.
LEMMA ClockInvStep ==
    ASSUME Races = {}, Freqs \subseteq Supported
    PROVE  TypeOK /\ ClockInv /\ [Next]_vars => ClockInv'
  <1> SUFFICES ASSUME TypeOK, ClockInv, [Next]_vars PROVE ClockInv'
    OBVIOUS
  <1>0. 2 \in Supported /\ TooFast \cap DOMAIN Table = {}
    BY TableType DEF Supported, TooFast
  <1> USE DEF ClockInv
  <1>1. CASE rtc_interrupt_handler
    BY <1>1 DEF rtc_interrupt_handler, callVars
  <1>2. ASSUME NEW t \in Terms, NEW f \in Supported, NEW open, Call(t, f, open)
        PROVE  ClockInv'
    BY <1>2 DEF Call, Goto, TypeOK
  <1>3. ASSUME NEW t \in Terms, rtc_open(t) \/ rtc_close(t) PROVE ClockInv'
    BY <1>0, <1>2, <1>3 DEF rtc_open, rtc_close
  <1>4. ASSUME NEW t \in Terms, NEW f \in Freqs, rtc_write(t, f) PROVE ClockInv'
    BY <1>2, <1>4 DEF rtc_write
  <1>5. ASSUME NEW t \in Terms, read_call(t) PROVE ClockInv'
    BY <1>5 DEF read_call, Goto, TypeOK
  <1>6. ASSUME NEW t \in Terms, rtc_set_freq(t) PROVE ClockInv'
    <2>1. CASE select_a(t, "select", "read_a") \/ select_a(t, "select_again", "write_a")
      BY <2>1 DEF select_a, Goto, TypeOK
    <2>2. CASE read_a(t)
      BY <2>2 DEF read_a, Goto, TypeOK, Supported
    <2>3. CASE write_a(t)
      <3>1. /\ regA' = [dv |-> a_old[t].dv, rate |-> Table[freq[t]]]
            /\ last' = freq[t]
        BY <2>3 DEF write_a, NewA
      <3> QED BY <2>3, <3>1 DEF write_a, Goto, TypeOK
    <2> QED BY <1>6, <2>1, <2>2, <2>3 DEF rtc_set_freq
  <1>7. ASSUME NEW t \in Terms, rtc_read(t) PROVE ClockInv'
    BY <1>7 DEF rtc_read, read_spin, read_reset, consume, Goto, TypeOK
  <1>8. CASE UNCHANGED vars
    BY <1>8 DEF vars, callVars
  <1> QED BY <1>1, <1>3, <1>4, <1>5, <1>6, <1>7, <1>8 DEF Next

\* "sets the frequency on the RTC to be user defined": however many terminals
\* open, write and close the RTC at a time, the chip runs at the frequency that
\* was written last, provided that programs pass the frequencies of the table
\* (or the three that are ignored) and that no tick strikes inside rtc_set_freq.
THEOREM FrequencyHolds ==
    ASSUME Races = {}, Freqs \subseteq Supported
    PROVE  Spec => []FrequencyInForce
  <1>1. Init => ClockInv
    <2>1. Table[1024] = 6
      BY DEF Table
    <2> QED BY <2>1, TableType DEF Init, ClockInv, Running, Supported, TooFast
  <1>2. ClockInv => FrequencyInForce
    BY TableRight DEF ClockInv, FrequencyInForce
  <1> QED BY <1>1, <1>2, TypeCorrect, ClockInvStep, PTL DEF Spec
=============================================================================
