------------------------------- MODULE Kernel -------------------------------
(***************************************************************************)
(* The scheduler, the process system calls and the terminal switch together:*)
(* the kernel as one flow of control that the timer and the keyboard        *)
(* interrupt.                                                               *)
(***************************************************************************)
EXTENDS Scheduler, Terminal

\* stop(): the infinite loop behind the blue screen.
stop == IsStopped /\ UNCHANGED vars

Next ==
    \/ PIT_scheduling
    \/ sys_execute
    \/ execute_iret
    \/ halt_root
    \/ halt_child
    \/ halt_return
    \/ vidmap
    \/ exception
    \/ \E t \in Terms : switch_terminal(t)
    \/ launch_shell
    \/ key_enter
    \/ stop

Spec == Init /\ [][Next]_vars

\* The timer request is latched by the PIC until interrupts are enabled; the
\* ticks of the timer and the keys of the user are further apart than the few
\* instructions in which a terminal leaves execute; straight-line kernel code
\* goes on.  Programs and the user owe nothing.
Fairness ==
    /\ SF_vars(PIT_scheduling)
    /\ \A t \in Terms : SF_vars(execute_iret /\ cur_active_terminal = t)
    /\ WF_vars(halt_return)
    /\ WF_vars(launch_shell)

FairSpec == Spec /\ Fairness

-----------------------------------------------------------------------------
Allocated(p)   == pid_array[p] = 1
IsChild(c, p)  == Allocated(c) /\ c # p /\ parent_process_number[c] = p
UserContext(p) == [stk |-> p, at |-> "user", of |-> p, nested |-> 0]
SuspendedTerms == {t \in Terms : active[t] = 1 /\ t # cur_active_terminal}

\* While a program runs (or is about to be entered), it is the active process
\* of the executing terminal, it belongs to that terminal, and the program
\* page and tss.esp0 are its own: process_contextswitch, execute and halt
\* leave the tables, the paging and the TSS in agreement.
RunningProcess ==
    InUser \/ cpu.at = "iret" =>
        LET p == cpu.of IN
        /\ p # NONE /\ Allocated(p)
        /\ apn[cur_active_terminal] = p
        /\ term[p] = cur_active_terminal
        /\ page128 = p
        /\ esp0 = p

\* The processes of a terminal are a chain of calls of execute: the active
\* process is its end, every other process waits for exactly one child, and
\* a child returns to its parent's program, on its parent's kernel stack.
ProcessForest ==
    /\ \A t \in Terms : active[t] = 1 =>
          /\ apn[t] # NONE /\ Allocated(apn[t]) /\ term[apn[t]] = t
          /\ \A c \in Pids : ~IsChild(c, apn[t])
    /\ \A p \in Pids : Allocated(p) =>
          LET q == parent_process_number[p] IN
          /\ Allocated(q)
          /\ term[p] \in Terms /\ term[q] = term[p]
          /\ active[term[p]] = 1
          /\ p # apn[term[p]] =>
                \E c \in Pids : IsChild(c, p) /\ \A d \in Pids : IsChild(d, p) => d = c
          /\ q # p => parent_ksp[p] = UserContext(q)

\* No two flows share a kernel stack: the contexts saved for the switched-out
\* terminals lie on different stacks, none of them on the one that the next
\* interrupt or system call will use.
KernelStacksExclusive ==
    LET saved(t) == esp[apn[t]].stk IN
    ~IsStopped =>
        \A t \in SuspendedTerms :
            /\ saved(t) # esp0
            /\ Interruptible => saved(t) # cpu.stk
            /\ \A u \in SuspendedTerms \ {t} : saved(u) # saved(t)

\* Whatever a switched-out terminal resumes is its own active process, in its
\* program or still on its way into it: process_contextswitch never loads an
\* ESP that is stale, or that belongs to a process that has halted.
SavedContextsLive ==
    ~IsStopped =>
        \A t \in SuspendedTerms :
            LET c == esp[apn[t]] IN
            /\ c.of = apn[t] /\ c.nested = 0
            /\ \/ c.at = "user" /\ c.stk = apn[t]
               \/ c.at = "iret" /\ c.stk \in {parent_process_number[apn[t]], NONE}

\* halt "returns to parent": the process that runs after the end of a halt is
\* the parent that called execute, in its own address space.
HaltReturnsToParent ==
    [][halt_return =>
           /\ cpu'.at = "user" /\ cpu'.nested = 0
           /\ cpu'.of = parent_process_number[cpu.of]
           /\ page128' = cpu'.of /\ esp0' = cpu'.of
           /\ apn[cur_active_terminal] = cpu'.of]_vars

\* A terminal, once it has a shell, has one for ever: no sequence of commands
\* and exits leaves it without a process.
TerminalsStayActive ==
    [][\A t \in Terms : active[t] = 1 => active'[t] = 1]_vars

\* "launch new terminal": the shell that switch_terminal starts is the first
\* process of the terminal that is displayed, and of no other.
LaunchOpensTerminal ==
    [][launch_shell /\ pid_array' # pid_array =>
           /\ active[cur_term] = 0
           /\ parent_process_number'[cpu'.of] = cpu'.of]_vars

\* A blue screen is only ever the answer to an exception of a program: the
\* kernel itself never resumes an unset ESP or touches the PCB of process -1.
NoKernelFault == IsStopped => cpu.of # NONE

\* The round robin reaches every terminal that has a shell.
EveryTerminalScheduled ==
    \A t \in Terms :
        active[t] = 1 ~> (cur_active_terminal = t /\ InUser) \/ IsStopped

-----------------------------------------------------------------------------
(***************************************************************************)
(* The inductive invariant behind the safety properties, for a kernel whose *)
(* windows are closed.                                                      *)
(***************************************************************************)
Booting == /\ cpu = [stk |-> NONE, at |-> "boot", of |-> NONE, nested |-> 1]
           /\ \A t \in Terms : active[t] = 0
           /\ \A p \in Pids : ~Allocated(p)
           /\ cur_term = 0

\* The flow of control, and what paging and the TSS hold for it.
FlowInv ==
    LET p == apn[cur_active_terminal]
        q == parent_process_number[p]
    IN
    /\ active[0] = 1 /\ active[cur_active_terminal] = 1
    /\ \/ cpu.at = "stop" /\ cpu.of # NONE /\ cpu.nested = 0
       \/ /\ page128 = p /\ esp0 = p
          /\ \/ cpu.at = "user" /\ cpu.stk = p /\ cpu.of = p
             \/ /\ cpu.at = "iret" /\ cpu.of = p
                /\ IF q = p THEN cpu.nested = 0 ELSE cpu.stk = q
             \/ /\ cpu.at = "halt" /\ cpu.nested = 0
                /\ ~Allocated(cpu.of)
                /\ parent_process_number[cpu.of] = p
                /\ parent_ksp[cpu.of] = UserContext(p)

\* A shell is being launched: its terminal is empty, and the interrupted flow
\* has been saved as it will be resumed.
LaunchInv ==
    cpu.nested > 0 =>
        /\ cpu.nested = 1
        /\ active[cur_term] = 0
        /\ esp[apn[cur_active_terminal]] = [cpu EXCEPT !.nested = 0]

\* The context saved for terminal t is fit to be resumed.
SavedFlow(t) ==
    LET p == apn[t]
        q == parent_process_number[p]
    IN
    /\ esp[p].of = p /\ esp[p].nested = 0
    /\ \/ esp[p].at = "user" /\ esp[p].stk = p
       \/ esp[p].at = "iret" /\ q # p /\ esp[p].stk = q

Running ==
    /\ FlowInv
    /\ LaunchInv
    /\ \A t \in SuspendedTerms : SavedFlow(t)

\* Tables, flow and saved contexts agree: what every action of the closed
\* kernel preserves.
KernelInv == TypeOK /\ ProcessForest /\ (Booting \/ Running)
=============================================================================
