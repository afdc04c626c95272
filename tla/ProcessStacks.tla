---------------------------- MODULE ProcessStacks ----------------------------
(***************************************************************************)
(* What the kernel promises its users, without PCBs, contexts, paging or    *)
(* kernel stacks: every terminal has a stack of processes, each waiting for *)
(* the one it executed, and the CPU runs the top of one terminal's stack.   *)
(***************************************************************************)
EXTENDS Integers, Sequences, SequencesExt

CONSTANTS Procs, Terminals, None

VARIABLES
    stacks,     \* stacks[t]: the processes of terminal t, first shell first
    running,    \* the terminal whose turn it is
    shown,      \* the terminal on the screen
    on,         \* the process the CPU is running, None inside the kernel
    machine     \* "up", or "down" once an exception has stopped it

absVars == <<stacks, running, shown, on, machine>>

InUse(t) == stacks[t] # <<>>
Free     == Procs \ UNION {ToSet(stacks[t]) : t \in Terminals}
Top(t)   == Last(stacks[t])

AbsInit ==
    /\ stacks = [t \in Terminals |-> <<>>]
    /\ running \in Terminals
    /\ shown = running
    /\ on = None
    /\ machine = "up"

\* The running process executes a program, in its own terminal.
Call ==
    /\ on # None
    /\ \E n \in Free : stacks' = [stacks EXCEPT ![running] = Append(@, n)]
    /\ on' = None
    /\ UNCHANGED <<running, shown, machine>>

\* It halts: it gives way to the process that executed it ...
Return ==
    /\ on # None
    /\ Len(stacks[running]) > 1
    /\ stacks' = [stacks EXCEPT ![running] = Front(@)]
    /\ on' = None
    /\ UNCHANGED <<running, shown, machine>>

\* ... or, when nothing did, to a new first shell of the same terminal.
Restart ==
    /\ on # None
    /\ Len(stacks[running]) = 1
    /\ \E n \in Free \cup {on} : stacks' = [stacks EXCEPT ![running] = <<n>>]
    /\ on' = None
    /\ UNCHANGED <<running, shown, machine>>

\* The shown terminal gets its first shell, which runs at once.
Open ==
    /\ ~InUse(shown)
    /\ \E n \in Free : stacks' = [stacks EXCEPT ![shown] = <<n>>]
    /\ running' = shown
    /\ on' = None
    /\ UNCHANGED <<shown, machine>>

\* The CPU runs the top of the running terminal, or works for the kernel.
Dispatch ==
    /\ on' \in {None} \cup {Top(t) : t \in {u \in {running'} : InUse(u)}}
    /\ UNCHANGED <<stacks, machine>>

Enter    == Dispatch /\ UNCHANGED <<running, shown>>
Schedule == \E t \in Terminals :
               InUse(t) /\ running' = t /\ Dispatch /\ UNCHANGED shown
Show     == \E t \in Terminals :
               shown' = t /\ UNCHANGED running /\ Dispatch

Crash == /\ machine' = "down"
         /\ on' = None
         /\ UNCHANGED <<stacks, running, shown>>

AbsNext ==
    /\ machine = "up"
    /\ Call \/ Return \/ Restart \/ Open \/ Enter \/ Schedule \/ Show \/ Crash

AbsSpec == AbsInit /\ [][AbsNext]_absVars
=============================================================================
