------------------------------- MODULE Syscalls -------------------------------
(***************************************************************************)
(* syscalls.c: the system calls that create and destroy processes, and      *)
(* vidmap.  The command line is abstracted to "names an executable": a call *)
(* of execute that returns -1 changes nothing.                              *)
(***************************************************************************)
EXTENDS KernelState

\* Mutant: the slot is handed out whether or not it is free.
get_proc_num_unchecked(pids, n) == \A i \in 0 .. n - 1 : pids[i] = 1

\* get_proc_num hands out n, the lowest free slot of the table pids.
get_proc_num(pids, n) ==
    /\ pids[n] = 0
    /\ \A i \in 0 .. n - 1 : pids[i] = 1

NoProcNum(pids) == \A i \in Pids : pids[i] = 1

\* Mutant: execute never takes the new process for the first of its terminal.
FirstProcess_never(act) == FALSE

\* Mutant: the test looks for a process number, which a restart leaves set.
FirstProcess_by_apn(act) == apn[cur_term] = NONE

FirstProcess(act) == act[cur_term] = 0

(***************************************************************************)
(* execute, from get_proc_num to the sti: one critical section.  Its caller *)
(* may have changed the tables pids, act and ap in the same critical        *)
(* section; back is the context in which the call returns when the new      *)
(* process halts.  The new process always belongs to cur_term.              *)
(***************************************************************************)
execute(pids, act, ap, back) ==
    \E n \in Pids :
        /\ get_proc_num(pids, n)
        /\ pid_array' = [pids EXCEPT ![n] = 1]
        /\ parent_ksp' = [parent_ksp EXCEPT ![n] = back]
        /\ page_remap(n)
        /\ parent_process_number' = [parent_process_number EXCEPT
              ![n] = IF FirstProcess(act) THEN n ELSE ap[cur_term]]
        /\ cur_active_terminal' =
              IF FirstProcess(act) THEN cur_term ELSE cur_active_terminal
        /\ active' = IF FirstProcess(act) THEN [act EXCEPT ![cur_term] = 1] ELSE act
        /\ term' = [term EXCEPT ![n] = cur_term]
        /\ apn' = [ap EXCEPT ![cur_term] = n]
        /\ SetEsp0(n)
        /\ cpu' = [stk |-> cpu.stk, at |-> "iret", of |-> n, nested |-> 0]
        /\ UNCHANGED <<esp, cur_term, page136>>

\* The system call, by the running process, of a command that can be run.
sys_execute ==
    /\ InUser /\ Foreground
    /\ execute(pid_array, active, apn, cpu)

\* The end of execute: the iret into the program at 128 MB, whose next entry
\* into the kernel is on the stack that tss.esp0 points into.
execute_iret ==
    /\ cpu.at = "iret" /\ cpu.nested = 0
    /\ cpu' = [cpu EXCEPT !.at = "user", !.stk = esp0]
    /\ UNCHANGED <<pid_array, pcbVars, esp, termVars, cur_term,
                   cur_active_terminal, page128, page136, esp0>>

\* halt of the first shell of a terminal: execute("shell") in its place.  If
\* that call of execute ever returns, it returns into this call of halt.
halt_root ==
    LET cur == apn[cur_active_terminal] IN
    /\ InUser /\ Foreground
    /\ cur # NONE /\ parent_process_number[cur] = cur
    /\ execute([pid_array EXCEPT ![cur] = 0],
               [active EXCEPT ![cur_active_terminal] = 0],
               apn,
               [cpu EXCEPT !.at = "unwind", !.of = cur])

\* halt of any other process, up to its sti.
halt_child ==
    LET cur == apn[cur_active_terminal]
        parent == parent_process_number[cur]
    IN
    /\ InUser
    /\ cur # NONE /\ parent # cur
    /\ pid_array' = [pid_array EXCEPT ![cur] = 0]
    /\ apn' = [apn EXCEPT ![cur_active_terminal] = parent]
    /\ page_remap(parent)
    /\ SetEsp0(parent_ksp[cur].stk)
    /\ cpu' = [cpu EXCEPT !.at = "halt", !.of = cur]
    /\ UNCHANGED <<pcbVars, esp, active, cur_term, cur_active_terminal, page136>>

\* The end of halt: ESP and EBP are loaded from the PCB of the halted process
\* and RETURN_FROM_IRET leaves that call of execute.  Returning into halt_root
\* means to do the end of that halt: its remap and its tss.esp0.
halt_return ==
    LET back == parent_ksp[cpu.of]
        unwound == back.at = "unwind" /\ back.nested = 0
    IN
    /\ cpu.at = "halt" /\ cpu.nested = 0
    /\ page_remap(IF unwound THEN parent_process_number[back.of] ELSE page128)
    /\ SetEsp0(IF unwound THEN parent_ksp[back.of].stk ELSE esp0)
    /\ cpu' = IF unwound THEN [back EXCEPT !.at = "halt"] ELSE Resume(back, esp0)
    /\ UNCHANGED <<pid_array, pcbVars, esp, termVars, cur_term,
                   cur_active_terminal, page136>>

\* The system call: 136 MB is mapped to the video memory, whoever calls.
vidmap ==
    /\ InUser
    /\ page136' = VIDEO
    /\ UNCHANGED <<pid_array, pcbVars, esp, termVars, cur_term,
                   cur_active_terminal, page128, esp0, cpu>>

\* A processor exception in program of: blue_screen, then stop().
exception ==
    /\ InUser
    /\ cpu' = [Stopped EXCEPT !.of = cpu.of]
    /\ UNCHANGED <<pid_array, pcbVars, esp, termVars, cur_term,
                   cur_active_terminal, page128, page136, esp0>>
=============================================================================
