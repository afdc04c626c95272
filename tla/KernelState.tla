----------------------------- MODULE KernelState -----------------------------
(***************************************************************************)
(* The state that execute, halt, the PIT scheduler and the terminal switch  *)
(* share: the process table (pid_array and the PCBs), the terminal table    *)
(* and the parts of the CPU they program (the 128 MB program page, the      *)
(* 136 MB video page, tss.esp0 and the flow of control itself).             *)
(*                                                                          *)
(* A saved ESP/EBP pair is a context: the process whose kernel stack it     *)
(* lies on, and what the flow does when it is resumed there.  The           *)
(* addresses within a stack are abstracted away.                            *)
(***************************************************************************)
EXTENDS Integers

CONSTANTS
    NUM_MAX_PROCESSES,  \* slots of pid_array
    MAX_TERM,           \* number of terminals
    MAX_NESTED,         \* bound: switch_terminal frames pending on one stack
    Windows             \* the windows below in which an event may strike

(***************************************************************************)
(* Stretches of code in which the kernel does not protect itself; a run     *)
(* chooses the ones in which it lets interrupts, or the scheduler's choice  *)
(* of the running terminal, strike:                                         *)
(*  "background": execute, or the halt of a terminal's first shell, by a    *)
(*                process whose terminal is not the displayed one;          *)
(*  "halt"      : between the sti of halt and its switch of ESP;            *)
(*  "launch"    : between the sti of switch_terminal and the cli of execute;*)
(*  "start"     : between the sti and the second cli of execute, when the   *)
(*                new process is the first one of its terminal;             *)
(*  "empty"     : ENTER while the displayed terminal has no process, because*)
(*                execute("shell") found no free process number.            *)
(***************************************************************************)
AllWindows == {"background", "halt", "launch", "start", "empty"}

ASSUME ConstantsAssumption ==
    /\ NUM_MAX_PROCESSES \in Nat \ {0}
    /\ MAX_TERM \in Nat \ {0, 1}
    /\ MAX_NESTED \in Nat \ {0}
    /\ Windows \subseteq AllWindows

Pids  == 0 .. NUM_MAX_PROCESSES - 1
Terms == 0 .. MAX_TERM - 1
NONE  == -1     \* the -1 that init_terminal stores in apn; also: nothing
VIDEO == -2     \* the physical video memory, as a target of the 136 MB page

VARIABLES
    pid_array,              \* pid_array[p] = 1 iff p is allocated
    parent_process_number,  \* PCB: the parent of p
    term,                   \* PCB: the terminal of p
    parent_ksp,             \* PCB: context that the halt of p returns to
    esp,                    \* PCB: context saved when p was switched out
    active,                 \* terminal[t].active
    apn,                    \* terminal[t].apn, the active process number
    cur_term,               \* the displayed terminal
    cur_active_terminal,    \* the terminal that is executing
    page128,                \* process whose 4 MB frame is mapped at 128 MB
    page136,                \* VIDEO, or the terminal whose buffer is at 136 MB
    esp0,                   \* process whose kernel stack tss.esp0 points into
    cpu                     \* the context that is running

pcbVars  == <<parent_process_number, term, parent_ksp>>
termVars == <<active, apn>>
vars == <<pid_array, pcbVars, esp, termVars, cur_term, cur_active_terminal,
          page128, page136, esp0, cpu>>

(***************************************************************************)
(* Contexts.  stk: whose kernel stack the flow is on (or will enter next);  *)
(* at: "boot"   entry() has called init_terminal,                           *)
(*     "user"   in the program of process of, or in one of its interruptible*)
(*              system calls,                                               *)
(*     "iret"   execute has published process of and is about to enter it,  *)
(*     "halt"   halt has freed process of and is about to leave its stack,  *)
(*     "unwind" execute, called by the halt of process of, returns into it, *)
(*     "stop"   the blue screen of an exception (stop() never returns);     *)
(* nested: how many calls execute("shell") of switch_terminal are pending   *)
(* on top of that.                                                          *)
(***************************************************************************)
ContextRecords == [stk : Pids \cup {NONE},
                   at : {"boot", "user", "iret", "halt", "unwind", "stop"},
                   of : Pids \cup {NONE},
                   nested : 0 .. MAX_NESTED]

Contexts == {c \in ContextRecords : c.of = NONE => c.at \in {"boot", "stop"}}

\* An ESP that was never written, and a CPU that has stopped, run nothing; of
\* is the program whose exception stopped it, NONE when the kernel's own did.
Stopped == [stk |-> NONE, at |-> "stop", of |-> NONE, nested |-> 0]

IsStopped == cpu.at = "stop"
InUser    == cpu.at = "user" /\ cpu.nested = 0

\* Mutant: switch_terminal and halt leave interrupts on throughout.
Interruptible_no_cli == ~IsStopped

\* Interrupts are enabled, in code that the run lets them strike.
Interruptible ==
    \/ InUser
    \/ /\ cpu.at = "iret" /\ cpu.nested = 0
       /\ parent_process_number[cpu.of] # cpu.of \/ "start" \in Windows
    \/ cpu.at = "halt" /\ cpu.nested = 0 /\ "halt" \in Windows
    \/ cpu.nested > 0 /\ "launch" \in Windows

\* The process that calls execute or halt belongs to the displayed terminal.
Foreground == cur_term = cur_active_terminal \/ "background" \in Windows

\* Mutant: the page directory entry is not written.
page_remap_lost(p) == UNCHANGED page128

\* page_remap(_128MB, _8MB + p * _4MB).
page_remap(p) == page128' = p

\* Mutant: the remap to the buffer is left out.
ScreenPage_video(t, shown) == VIDEO

\* What 136 MB is mapped to for a program of terminal t: first the screen, by
\* vidmap, and then the terminal's buffer if another terminal is displayed.
ScreenPage(t, shown) == IF t # shown THEN t ELSE VIDEO

\* Mutant: the TSS is not written.
SetEsp0_lost(p) == UNCHANGED esp0

\* tss.esp0 = an address in the kernel stack of p.
SetEsp0(p) == esp0' = p

\* Mutant: the switched-out process keeps the ESP of an earlier switch.
SaveEsp_lost(old) == UNCHANGED esp

\* ESP and EBP are stored in the PCB of old.
SaveEsp(old) == esp' = [esp EXCEPT ![old] = cpu]

\* Resuming c when tss.esp0 points into the stack of sp: a flow that is back
\* in user mode enters the kernel on that stack the next time.
Resume(c, sp) ==
    IF c.at = "user" /\ c.nested = 0 THEN [c EXCEPT !.stk = sp] ELSE c

\* get_pcb_ptr_process(-1) is the unmapped address 8 MB: a page fault, and
\* every exception handler ends in stop().
PageFault ==
    /\ cpu' = Stopped
    /\ UNCHANGED <<pid_array, pcbVars, esp, termVars, cur_term,
                   cur_active_terminal, page128, page136, esp0>>

\* The first call of init_terminal: no process, terminal 0 displayed, and
\* execute("shell") about to be called on the boot stack.
Init ==
    /\ pid_array = [p \in Pids |-> 0]
    /\ parent_process_number = [p \in Pids |-> 0]
    /\ term = [p \in Pids |-> NONE]
    /\ parent_ksp = [p \in Pids |-> Stopped]
    /\ esp = [p \in Pids |-> Stopped]
    /\ active = [t \in Terms |-> 0]
    /\ apn = [t \in Terms |-> NONE]
    /\ cur_term = 0
    /\ cur_active_terminal = 0
    /\ page128 = NONE
    /\ page136 = NONE
    /\ esp0 = NONE
    /\ cpu = [stk |-> NONE, at |-> "boot", of |-> NONE, nested |-> 1]

\* The types of the tables and of the CPU state; and an active terminal has an
\* active process: execute and halt set active and apn together.
TypeOK ==
    /\ pid_array \in [Pids -> {0, 1}]
    /\ parent_process_number \in [Pids -> Pids]
    /\ term \in [Pids -> Terms \cup {NONE}]
    /\ parent_ksp \in [Pids -> Contexts]
    /\ esp \in [Pids -> Contexts]
    /\ active \in [Terms -> {0, 1}]
    /\ apn \in [Terms -> Pids \cup {NONE}]
    /\ cur_term \in Terms
    /\ cur_active_terminal \in Terms
    /\ page128 \in Pids \cup {NONE}
    /\ page136 \in Terms \cup {NONE, VIDEO}
    /\ esp0 \in Pids \cup {NONE}
    /\ cpu \in Contexts
    /\ \A t \in Terms : active[t] = 1 => apn[t] # NONE
=============================================================================
