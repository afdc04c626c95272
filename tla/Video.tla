-------------------------------- MODULE Video --------------------------------
(***************************************************************************)
(* Programs that draw: vidmap hands a program the page at 136 MB, and from  *)
(* then on the kernel has to point that page at the screen, or at the       *)
(* buffer of a terminal that is not displayed, under the running program.   *)
(* The page is page136 of KernelState; here a history variable says which   *)
(* programs rely on it.                                                     *)
(***************************************************************************)
EXTENDS Kernel

CONSTANT VideoWindows   \* subset of {"vidmap", "full"}

(***************************************************************************)
(* Moments after which the page is wrong until the next context switch; a   *)
(* program relies on it no more unless the window is open:                  *)
(*  "vidmap": a program whose terminal is not displayed calls vidmap;       *)
(*  "full"  : Alt-Fn to an empty terminal when no process number is free.   *)
(***************************************************************************)
ASSUME VideoAssumption == VideoWindows \subseteq {"vidmap", "full"}

VARIABLE mapped     \* the processes whose program has called vidmap

videoVars == <<vars, mapped>>

VideoInit == Init /\ mapped = {}

OtherTerminals(m) == {p \in m : term[p] # cur_active_terminal}

\* execute("shell") has returned -1 to switch_terminal.
launch_failed == launch_shell /\ pid_array' = pid_array

\* After a step of the kernel; a program that execute loads has no page yet.
Mapped ==
    IF vidmap THEN
        IF cur_term = cur_active_terminal \/ "vidmap" \in VideoWindows
        THEN mapped \cup {cpu.of} ELSE OtherTerminals(mapped)
    ELSE IF launch_failed THEN
        IF "full" \in VideoWindows THEN mapped ELSE OtherTerminals(mapped)
    ELSE IF cpu'.at = "iret" THEN mapped \ {cpu'.of}
    ELSE mapped

VideoNext == Next /\ mapped' = Mapped

VideoSpec == VideoInit /\ [][VideoNext]_videoVars

FairVideoSpec == VideoSpec /\ Fairness

\* Where a program of terminal t ought to draw.
OwnScreen(t) == IF t = cur_term THEN VIDEO ELSE t

\* A program that has called vidmap draws on its own terminal whenever it
\* runs: on the screen while its terminal is displayed and into the terminal's
\* buffer while it is not, after any sequence of ticks, switches of terminals,
\* programs it starts and programs it returns from.
DrawsOnOwnTerminal ==
    InUser /\ cpu.of \in mapped => page136 = OwnScreen(term[cpu.of])
=============================================================================
