----------------------------- MODULE Interrupts -----------------------------
(***************************************************************************)
(* Interrupts from boot to the running system: the initialisation in        *)
(* entry(), the gates of the IDT, the entry code of interrupts.S, and the   *)
(* three interrupt handlers with the PICs, the interrupt flag and the       *)
(* kernel stack they are nested on.                                         *)
(*                                                                          *)
(* A kernel stack is a sequence of frames: the line whose handler runs, how *)
(* far it has got, and the interrupt flag it returns to.  Code that runs    *)
(* with the flag clear is one step, with the sti or iret that ends it.      *)
(* What the handlers do to the process tables is the subject of Kernel.     *)
(***************************************************************************)
EXTENDS Pic, Sequences, SequencesExt

CONSTANTS
    MAX_TERM,       \* terminals
    Devices,        \* the lines on which requests come
    MAX_DEPTH       \* bound: frames on a kernel stack

PIT_IRQ      == 0
KEYBOARD_IRQ == 1
RTC_IRQ_LINE == 8
SYSCALL      == 128     \* the vector of system calls, as the line of a frame

Terms    == 0 .. MAX_TERM - 1
Handlers == {PIT_IRQ, KEYBOARD_IRQ, RTC_IRQ_LINE}

ASSUME InterruptsAssumption ==
    /\ MAX_TERM \in Nat \ {0}
    /\ MAX_DEPTH \in Nat \ {0, 1}
    /\ Handlers \subseteq Devices /\ Devices \subseteq IRQs \ {ICW3_SLAVE}

VARIABLES
    boot,                   \* the next step of entry()
    idt,                    \* lines whose vector has a handler
    IF_flag,                \* EFLAGS.IF
    stack,                  \* frames on the current stack; empty: a program, or entry()
    saved,                  \* frames of the terminals that are switched out
    active,                 \* terminals that have a shell
    cur_term,               \* the displayed terminal
    cur_active_terminal,    \* the executing terminal
    unread,                 \* devices that wait for their data to be read
    fault                   \* what stopped the machine, or "none"

flowVars == <<stack, saved, active, cur_term, cur_active_terminal>>
vars == <<picVars, boot, idt, IF_flag, flowVars, unread, fault>>

Frame(n, at) == [irq |-> n, at |-> at, flag |-> IF_flag]
Top          == stack[Len(stack)]
TopAt(at)    == stack # <<>> /\ Top.at = at
Entered(n)   == TopAt("entry") /\ Top.irq = n
At(s, at)    == [s EXCEPT ![Len(s)].at = at]
Goto(at)     == stack' = At(stack, at)

Running   == fault = "none"
InProgram == boot = "done" /\ stack = <<>>
Launching == \E k \in DOMAIN stack : stack[k].at = "launch"

-----------------------------------------------------------------------------
(***************************************************************************)
(* entry(), on the boot stack.  boot.S has cleared IF.                      *)
(***************************************************************************)
Init ==
    /\ PicInit
    /\ boot = "init_idt" /\ idt = {} /\ IF_flag = FALSE
    /\ stack = <<>> /\ saved = [t \in Terms |-> <<>>]
    /\ active = {} /\ cur_term = 0 /\ cur_active_terminal = 0
    /\ unread = {} /\ fault = "none"

BootStep(from, to) ==
    /\ Running /\ boot = from /\ stack = <<>>
    /\ boot' = to
    /\ UNCHANGED <<flowVars, unread, fault>>

\* The gates of the three lines; the others are present, with address 0.
init_idt ==
    /\ BootStep("init_idt", "i8259_init")
    /\ idt' = Handlers
    /\ UNCHANGED <<picVars, IF_flag>>

pic_init ==
    /\ BootStep("i8259_init", "sti")
    /\ i8259_init
    /\ UNCHANGED <<idt, IF_flag>>

boot_sti ==
    /\ BootStep("sti", "init_keyboard")
    /\ IF_flag' = TRUE
    /\ UNCHANGED <<picVars, idt>>

init_keyboard ==
    /\ BootStep("init_keyboard", "init_rtc")
    /\ enable_irq(KEYBOARD_IRQ)
    /\ UNCHANGED <<idt, IF_flag>>

init_rtc ==
    /\ BootStep("init_rtc", "paging_init")
    /\ enable_irq(RTC_IRQ_LINE)
    /\ UNCHANGED <<idt, IF_flag>>

paging_init ==
    /\ BootStep("paging_init", "PIT_init")
    /\ UNCHANGED <<picVars, idt, IF_flag>>

PIT_init ==
    /\ BootStep("PIT_init", "init_terminal")
    /\ enable_irq(PIT_IRQ)
    /\ UNCHANGED <<idt, IF_flag>>

\* Mutant: the flags of the new program are those of execute, after its cli.
EntryFlag_pushed == FALSE

\* execute enters a program with IF set.
EntryFlag == TRUE

\* init_terminal, and the first shell.
init_terminal ==
    /\ Running /\ boot = "init_terminal" /\ stack = <<>>
    /\ boot' = "done" /\ active' = {0} /\ IF_flag' = EntryFlag
    /\ UNCHANGED <<picVars, idt, stack, saved, cur_term, cur_active_terminal,
                   unread, fault>>

-----------------------------------------------------------------------------
(***************************************************************************)
(* The devices and the CPU.  The keyboard controller and the RTC make no    *)
(* new request before their data port, or register C, has been read; and    *)
(* the requests of a device are further apart than its handler takes to     *)
(* come to its sti.  Requests on the other lines are followed while the     *)
(* chips let them through.                                                  *)
(***************************************************************************)
Latched == {KEYBOARD_IRQ, RTC_IRQ_LINE}

raise(i) ==
    /\ Running /\ boot \notin {"init_idt", "i8259_init"}
    /\ i \notin irr \cup unread /\ (i \in Handlers \/ i \notin imr)
    /\ \A k \in DOMAIN stack : stack[k].irq = i => stack[k].at \in {"launch", "tail"}
    /\ irr' = irr \cup {i}
    /\ unread' = IF i \in Latched THEN unread \cup {i} ELSE unread
    /\ UNCHANGED <<master_mask, slave_mask, imr, isr, boot, idt, IF_flag, flowVars, fault>>

\* The interrupt gate clears IF.  Not delivered here: a tick that would switch
\* away from a pending launch (the window "launch" of Kernel).
deliver(i) ==
    /\ Running /\ IF_flag /\ Len(stack) < MAX_DEPTH
    /\ i = PIT_IRQ /\ Launching => active \subseteq {0}
    /\ Wins(i)
    /\ acknowledge(i)
    /\ IF_flag' = FALSE
    /\ IF i \in idt THEN stack' = Append(stack, Frame(i, "entry")) /\ UNCHANGED fault
                    ELSE fault' = "vector" /\ UNCHANGED stack
    /\ UNCHANGED <<master_mask, slave_mask, imr, boot, idt, saved, active,
                   cur_term, cur_active_terminal, unread>>

-----------------------------------------------------------------------------
(***************************************************************************)
(* The handlers, with the sti at their end; "tail" is the popfl and iret    *)
(* that HANDLER goes on to.                                                 *)
(***************************************************************************)
Finish ==
    /\ Goto("tail")
    /\ IF_flag' = TRUE

\* get_next_scheduled: the first active terminal after the executing one.
NextTerminal(t) ==
    LET after(d) == (cur_active_terminal + d) % MAX_TERM IN
    \E d \in 1 .. MAX_TERM - 1 :
        /\ t = after(d) /\ t \in active
        /\ \A e \in 1 .. d - 1 : after(e) \notin active

\* send_eoi comes first.  With a shell in another terminal than the first, the
\* ESP is exchanged, and the other flow ends its tick, or goes on in the
\* keyboard handler that launched a shell.
PIT_scheduling ==
    /\ Running /\ Entered(PIT_IRQ)
    /\ send_eoi(PIT_IRQ)
    /\ IF active \subseteq {0}
       THEN Finish /\ UNCHANGED <<saved, cur_active_terminal>>
       ELSE \E t \in Terms :
            /\ NextTerminal(t)
            /\ saved' = [saved EXCEPT ![cur_active_terminal] = At(stack, "tail")]
            /\ stack' = saved[t]
            /\ IF_flag' = (saved[t][Len(saved[t])].at = "tail")
            /\ cur_active_terminal' = t
    /\ UNCHANGED <<master_mask, slave_mask, imr, irr, boot, idt, active,
                   cur_term, unread, fault>>

\* Mutant: register C is not read.
ReadRegisterC_not == UNCHANGED unread

ReadRegisterC == unread' = unread \ {RTC_IRQ_LINE}

rtc_interrupt_handler ==
    /\ Running /\ Entered(RTC_IRQ_LINE)
    /\ send_eoi(RTC_IRQ_LINE)
    /\ ReadRegisterC
    /\ Finish
    /\ UNCHANGED <<master_mask, slave_mask, imr, irr, boot, idt, saved,
                   active, cur_term, cur_active_terminal, fault>>

ReadScancode == unread' = unread \ {KEYBOARD_IRQ}

\* A key that is handled before the handler ends.  Until init_terminal sets
\* key_buffer it is the address 0, which is not mapped once paging is on: a
\* key that is stored, unlike a modifier, then faults.
keyboard_interrupt_handler ==
    /\ Running /\ Entered(KEYBOARD_IRQ)
    /\ ReadScancode
    /\ \/ send_eoi(KEYBOARD_IRQ) /\ Finish /\ UNCHANGED fault
       \/ /\ boot \in {"PIT_init", "init_terminal"}
          /\ fault' = "key" /\ UNCHANGED <<isr, stack, IF_flag>>
    /\ UNCHANGED <<master_mask, slave_mask, imr, irr, boot, idt, saved,
                   active, cur_term, cur_active_terminal>>

\* Alt-Fn to a terminal that has a shell: EOI, the switch, and EOI again.
switch_to_active(t) ==
    /\ Running /\ boot = "done" /\ Entered(KEYBOARD_IRQ)
    /\ ~Launching /\ t \in active \ {cur_term}
    /\ ReadScancode
    /\ send_eoi(KEYBOARD_IRQ)
    /\ cur_term' = t
    /\ Finish
    /\ UNCHANGED <<master_mask, slave_mask, imr, irr, boot, idt, saved,
                   active, cur_active_terminal, fault>>

\* Mutant: the EOI is left to the end of the handler.
EarlyEoi_not == UNCHANGED isr

\* keyboard_interrupt_handler sends the EOI before it calls switch_terminal.
EarlyEoi == send_eoi(KEYBOARD_IRQ)

\* Mutant: switch_terminal does not save the interrupted flow.
SaveFlow_not == UNCHANGED saved

\* The saved ESP returns from switch_terminal into the handler.
SaveFlow == saved' = [saved EXCEPT ![cur_active_terminal] = At(stack, "resume")]

\* Alt-Fn to a terminal without a shell, up to the call of execute, which is
\* made inside the handler with interrupts enabled.
switch_to_inactive(t) ==
    /\ Running /\ boot = "done" /\ Entered(KEYBOARD_IRQ)
    /\ ~Launching /\ t \in Terms \ active /\ t # cur_term
    /\ ReadScancode
    /\ EarlyEoi
    /\ SaveFlow
    /\ cur_term' = t
    /\ Goto("launch")
    /\ IF_flag' = TRUE
    /\ UNCHANGED <<master_mask, slave_mask, imr, irr, boot, idt, active,
                   cur_active_terminal, fault>>

\* That execute: it enters the shell, or returns -1 with IF clear.
execute ==
    /\ Running /\ TopAt("launch")
    /\ \/ /\ active' = active \cup {cur_term}
          /\ cur_active_terminal' = cur_term
          /\ stack' = <<>>
          /\ IF_flag' = EntryFlag
       \/ /\ Goto("resume") /\ IF_flag' = FALSE
          /\ UNCHANGED <<active, cur_active_terminal>>
    /\ UNCHANGED <<picVars, boot, idt, saved, cur_term, unread, fault>>

\* Back from switch_terminal: the rest of the keyboard handler.
after_switch ==
    /\ Running /\ TopAt("resume")
    /\ send_eoi(KEYBOARD_IRQ)
    /\ Finish
    /\ UNCHANGED <<master_mask, slave_mask, imr, irr, boot, idt, saved,
                   active, cur_term, cur_active_terminal, unread, fault>>

-----------------------------------------------------------------------------
(***************************************************************************)
(* interrupts.S: the end of HANDLER, and system calls, whose gate leaves IF *)
(* alone.                                                                   *)
(***************************************************************************)
Same == UNCHANGED <<picVars, boot, idt, saved, active, cur_term,
                    cur_active_terminal, unread, fault>>

\* popfl restores the flags of the handler's entry, with IF clear, and iret
\* those of the interrupted code.
Return(from) ==
    /\ Running /\ TopAt(from)
    /\ stack' = Front(stack)
    /\ IF_flag' = Top.flag
    /\ Same

popfl_iret == Return("tail")

\* cli, the check of the number, and the call with interrupts enabled; a
\* number that is not valid returns at once.
system_call ==
    /\ Running /\ InProgram
    /\ stack' = <<Frame(SYSCALL, "work")>>
    /\ IF_flag' = TRUE
    /\ Same

\* The critical sections of the calls (terminal_write, execute, halt).
sys_cli ==
    /\ Running /\ TopAt("work")
    /\ Goto("critical") /\ IF_flag' = FALSE
    /\ Same

sys_sti ==
    /\ Running /\ TopAt("critical")
    /\ Goto("work") /\ IF_flag' = TRUE
    /\ Same

\* The error returns of execute leave the critical section without sti.
sys_return == Return("work") \/ Return("critical")

\* stop(), or wherever a wild jump leads.
stop == ~Running /\ UNCHANGED vars

Boot == \/ init_idt \/ pic_init \/ boot_sti \/ init_keyboard \/ init_rtc
        \/ paging_init \/ PIT_init \/ init_terminal

\* The code that runs until the next sti or iret by itself.
Code == \/ PIT_scheduling \/ rtc_interrupt_handler \/ keyboard_interrupt_handler
        \/ \E t \in Terms : switch_to_active(t) \/ switch_to_inactive(t)
        \/ execute \/ after_switch \/ popfl_iret \/ sys_sti

Next == \/ Boot
        \/ \E i \in Devices : raise(i) \/ deliver(i)
        \/ Code
        \/ system_call \/ sys_cli \/ sys_return
        \/ stop

Spec == Init /\ [][Next]_vars

\* Boot and handler code goes on, also when interrupts come again and again in
\* between (they are milliseconds apart), the RTC is periodic, and a request
\* that the PIC presents again and again is taken.  Programs, the user and the
\* length of a system call owe nothing.
FairSpec ==
    /\ Spec
    /\ SF_vars(Boot)
    /\ WF_vars(Code)
    /\ \A d \in 1 .. MAX_DEPTH : SF_vars(popfl_iret /\ Len(stack) = d)
    /\ WF_vars(raise(RTC_IRQ_LINE))
    /\ \A i \in Handlers : SF_vars(deliver(i))

-----------------------------------------------------------------------------
Labels == {"entry", "tail", "launch", "resume", "work", "critical"}
Frames == [irq : Handlers \cup {SYSCALL}, at : Labels, flag : BOOLEAN]

\* Types; and a terminal that is switched out has a flow to resume, at the end
\* of its tick or inside the keyboard handler that launched another shell.
TypeOK ==
    /\ PicTypeOK
    /\ idt \subseteq IRQs /\ IF_flag \in BOOLEAN
    /\ active \subseteq Terms /\ cur_term \in Terms /\ cur_active_terminal \in Terms
    /\ unread \subseteq Latched
    /\ fault \in {"none", "key", "vector"}
    /\ stack \in Seq(Frames) /\ Len(stack) <= MAX_DEPTH
    /\ \A t \in active \ {cur_active_terminal} :
          saved[t] # <<>> /\ saved[t][Len(saved[t])].at \in {"tail", "resume"}

\* Whenever the CPU accepts interrupts, no line is in service, so none is held
\* back: every handler sends its EOI before it, or anything it calls, sets IF,
\* the shell that Alt-Fn launches from inside the keyboard handler included.
InterruptsUnblocked == Running /\ IF_flag => isr = {}

\* A program runs with interrupts enabled, whatever way the kernel entered it:
\* execute, the iret of a handler on any stack, the iret of a system call.
ProgramsPreemptible == Running /\ InProgram => IF_flag

\* A line without a handler is delivered only between the sti of entry() and
\* the first enable_irq, when the chips have forgotten their masks.
NoStrayVector == fault = "vector" => boot = "init_keyboard"

\* After boot the chips let through the lines with a handler and the cascade,
\* and the copies that the next enable_irq would start from say the same.
MasksAgree ==
    boot = "done" =>
        /\ imr = master_mask \cup slave_mask
        /\ IRQs \ imr = Handlers \cup {ICW3_SLAVE}

\* Priority is fixed, so a line is owed service only if there are moments when
\* no line above it asks; the timer is above all.
Undisturbed(i) ==
    i = PIT_IRQ \/ /\ IF_flag /\ Len(stack) < MAX_DEPTH
                   /\ \A j \in Handlers : j < i => j \notin irr

\* Every request of the timer is taken, during boot and ever after, and every
\* request of the keyboard and the RTC that is undisturbed again and again.
RequestsServed ==
    \A i \in Handlers :
        []<>Undisturbed(i) => (i \in irr ~> (i \notin irr \/ ~Running))

\* The RTC never falls silent: its handler re-arms it each time.
RtcKeepsTicking ==
    []<>Undisturbed(RTC_IRQ_LINE) => []<>(Entered(RTC_IRQ_LINE) \/ ~Running)
=============================================================================
