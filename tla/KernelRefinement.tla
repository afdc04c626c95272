--------------------------- MODULE KernelRefinement ---------------------------
(***************************************************************************)
(* Kernel implements ProcessStacks: the stack of a terminal is the chain of *)
(* parent_process_number from its active process back to its first shell.   *)
(***************************************************************************)
EXTENDS Video, Sequences

\* ancestry[k][p]: at most k generations of ancestors of p, p last.
ancestry[k \in 0 .. NUM_MAX_PROCESSES] ==
    [p \in Pids |->
        IF k = 0 \/ parent_process_number[p] = p THEN <<p>>
        ELSE Append(ancestry[k - 1][parent_process_number[p]], p)]

processStacks ==
    [t \in Terms |-> IF active[t] = 1 /\ apn[t] # NONE
                     THEN ancestry[NUM_MAX_PROCESSES][apn[t]] ELSE <<>>]

Abstract == INSTANCE ProcessStacks WITH
    Procs <- Pids,
    Terminals <- Terms,
    None <- NONE,
    stacks <- processStacks,
    running <- cur_active_terminal,
    shown <- cur_term,
    on <- IF InUser THEN cpu.of ELSE NONE,
    machine <- IF IsStopped THEN "down" ELSE "up"

\* The PCBs, saved ESPs, page directory and TSS of the kernel amount to the
\* promised stacks of processes: the process that runs is always the end of
\* the chain of the executing terminal, execute and halt push and pop that
\* chain only, and nothing else ever changes one.
ImplementsProcessStacks == Abstract!AbsSpec
=============================================================================
