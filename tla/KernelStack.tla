----------------------------- MODULE KernelStack -----------------------------
(***************************************************************************)
(* How deep in a process's kernel stack the CPU enters the kernel.  execute *)
(* and process_contextswitch set tss.esp0 to the top of a stack; halt sets  *)
(* it to the ESP that the parent's execute had saved, below the frames of   *)
(* that call.  The module follows the processes of terminal 0, numbered     *)
(* along their chain, and whether another terminal has been opened.         *)
(***************************************************************************)
EXTENDS Integers

CONSTANTS
    NUM_MAX_PROCESSES,
    STACK_ROOM,     \* bytes from the top of a stack down to the PCB
    FRAMES          \* at least what system_call_handler and execute push

Procs == 0 .. NUM_MAX_PROCESSES - 1

VARIABLES
    running,        \* the process that runs
    esp0,           \* tss.esp0: a stack and the bytes below its top
    parent_ksp,     \* PCB: the ESP that the parent's execute saved
    others          \* terminal[1].active or terminal[2].active

vars == <<running, esp0, parent_ksp, others>>

\* _8MB - _8KB * p - 4.
StackTop(p) == [stack |-> p, below |-> 0]

Init ==
    /\ running = 0
    /\ esp0 = StackTop(0)
    /\ parent_ksp = [p \in Procs |-> StackTop(0)]
    /\ others = FALSE

\* The stack of the running process has room for the next call of execute.
RoomForExecute == esp0.below + FRAMES <= STACK_ROOM

\* A call whose frames overrun the stack is not followed further.
execute ==
    /\ RoomForExecute
    /\ running + 1 \in Procs
    /\ running' = running + 1
    /\ parent_ksp' = [parent_ksp EXCEPT ![running + 1] = [esp0 EXCEPT !.below = @ + FRAMES]]
    /\ esp0' = StackTop(running + 1)
    /\ UNCHANGED others

\* The first shell is replaced by one that execute starts on a fresh stack.
halt ==
    /\ running' = IF running = 0 THEN 0 ELSE running - 1
    /\ esp0' = IF running = 0 THEN StackTop(0) ELSE parent_ksp[running]
    /\ UNCHANGED <<parent_ksp, others>>

\* Alt-Fn opens another terminal, and switches back to this one.
switch_terminal == others' = TRUE /\ UNCHANGED <<running, esp0, parent_ksp>>

\* The scheduler leaves the terminal and comes back to it, if there is another.
PIT_scheduling ==
    /\ others
    /\ esp0' = StackTop(running)
    /\ UNCHANGED <<running, parent_ksp, others>>

Next == execute \/ halt \/ switch_terminal \/ PIT_scheduling

Spec == Init /\ [][Next]_vars

-----------------------------------------------------------------------------
\* "Reset ESP0 in TSS": after any sequence of commands the kernel is entered on
\* the stack of the running process, with room for the frames of a system call
\* above the PCB at the stack's end.
EntersAbovePcb == esp0.stack = running /\ RoomForExecute
=============================================================================
