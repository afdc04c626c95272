--------------------------- MODULE InterruptsProofs ---------------------------
(***************************************************************************)
(* Proofs about interrupts, for every number of terminals, every set of     *)
(* devices and every depth of nested handlers.                              *)
(***************************************************************************)
EXTENDS Interrupts, SequenceTheorems, TLAPS

(***************************************************************************)
(* The inductive invariant.                                                 *)
(***************************************************************************)
\* The steps of entry() before its sti, and all of them.
Early      == {"init_idt", "i8259_init", "sti"}
BootLabels == Early \cup {"init_keyboard", "init_rtc", "paging_init", "PIT_init",
                          "init_terminal", "done"}

\* Where code is interrupted, and where a switched-out flow is resumed.
Interrupted == {"tail", "launch", "work"}
Suspended   == {"tail", "resume"}

\* What the chips hold in service while the handler of line n has not yet
\* sent its EOI.
InService(n) == {n} \cup (IF n \in SlaveLines THEN {ICW3_SLAVE} ELSE {})

\* A kernel stack: every frame returns to code that had interrupts enabled,
\* and all but the last are of code that was interrupted.
OpenFrames == [irq : Handlers \cup {SYSCALL}, at : Labels, flag : {TRUE}]

KernelFrames(s) ==
    /\ s \in Seq(OpenFrames) /\ Len(s) <= MAX_DEPTH
    /\ \A k \in 1 .. Len(s) - 1 : s[k].at \in Interrupted

Resumable(s) == s # <<>> /\ s[Len(s)].at \in Suspended

\* The interrupt flag, the place the CPU is at and the lines in service agree.
FlowInv ==
    /\ IF_flag = TRUE => isr = {} /\ (stack # <<>> => Top.at \in Interrupted)
    /\ IF_flag = FALSE =>
          \/ stack = <<>> /\ boot \in Early /\ isr = {}
          \/ TopAt("entry") /\ Top.irq \in Handlers /\ isr = InService(Top.irq)
          \/ stack # <<>> /\ Top.at \in {"resume", "critical"} /\ isr = {}
    /\ boot \in Early => IF_flag = FALSE /\ stack = <<>>

\* What the scheduler comes back to.
SavedInv ==
    /\ \A t \in Terms :
          /\ KernelFrames(saved[t])
          /\ \A k \in 1 .. Len(saved[t]) : saved[t][k].at # "launch"
    /\ \A t \in active \ {cur_active_terminal} : Resumable(saved[t])
    /\ Launching => Resumable(saved[cur_active_terminal])
    /\ Launching /\ Entered(PIT_IRQ) => active \subseteq {0}
    /\ boot # "done" => active = {} /\ cur_active_terminal = 0 /\ ~Launching

\* The masks, as the boot goes on.
MaskInv ==
    /\ boot \in Early \cup {"init_keyboard"} =>
          master_mask = MasterLines /\ slave_mask = SlaveLines
    /\ boot = "init_rtc" =>
          /\ master_mask = MasterLines \ {KEYBOARD_IRQ} /\ slave_mask = SlaveLines
          /\ master_mask \subseteq imr
    /\ boot \in {"paging_init", "PIT_init"} =>
          /\ master_mask = MasterLines \ {KEYBOARD_IRQ, ICW3_SLAVE}
          /\ slave_mask = SlaveLines \ {RTC_IRQ_LINE}
          /\ imr = master_mask \cup slave_mask
    /\ boot \in {"init_terminal", "done"} =>
          /\ master_mask = MasterLines \ {PIT_IRQ, KEYBOARD_IRQ, ICW3_SLAVE}
          /\ slave_mask = SlaveLines \ {RTC_IRQ_LINE}
          /\ imr = master_mask \cup slave_mask
    /\ boot # "init_idt" => idt = Handlers

Types ==
    /\ PicTypeOK /\ irr \subseteq Devices
    /\ boot \in BootLabels /\ idt \in {{}, Handlers} /\ IF_flag \in BOOLEAN
    /\ active \subseteq Terms /\ cur_term \in Terms /\ cur_active_terminal \in Terms
    /\ saved \in [Terms -> Seq(OpenFrames)] /\ KernelFrames(stack)
    /\ unread \subseteq Latched /\ fault \in {"none", "key", "vector"}

IInv == Types /\ (Running => FlowInv) /\ SavedInv /\ MaskInv /\ NoStrayVector

-----------------------------------------------------------------------------
(***************************************************************************)
(* Stacks of frames.                                                        *)
(***************************************************************************)
LEMMA ConstantFacts ==
    /\ MAX_TERM \in Nat /\ MAX_TERM > 0 /\ 0 \in Terms /\ Terms \subseteq Nat
    /\ MAX_DEPTH \in Nat /\ MAX_DEPTH > 1
    /\ Handlers = {0, 1, 8} /\ Handlers \subseteq Devices /\ Devices \subseteq IRQs
    /\ 2 \notin Devices
  BY InterruptsAssumption DEF Terms, Handlers, PIT_IRQ, KEYBOARD_IRQ, RTC_IRQ_LINE,
     IRQs, ICW3_SLAVE

\* The program point of the last frame changes, and nothing else.
LEMMA AtFacts ==
    ASSUME NEW s, KernelFrames(s), s # <<>>, NEW at \in Labels
    PROVE  /\ KernelFrames(At(s, at))
           /\ At(s, at) # <<>> /\ Len(At(s, at)) = Len(s) /\ Len(s) \in Nat \ {0}
           /\ At(s, at)[Len(s)].at = at /\ At(s, at)[Len(s)].irq = s[Len(s)].irq
           /\ \A k \in 1 .. Len(s) - 1 : At(s, at)[k] = s[k]
  <1> DEFINE e == [s[Len(s)] EXCEPT !.at = at]
  <1>1. s \in Seq(OpenFrames) /\ Len(s) \in Nat \ {0} /\ s[Len(s)] \in OpenFrames
    BY EmptySeq, ElementOfSeq DEF KernelFrames
  <1>2. e \in OpenFrames /\ e.at = at /\ e.irq = s[Len(s)].irq
    BY <1>1 DEF OpenFrames
  <1>3. At(s, at) = [s EXCEPT ![Len(s)] = e]
    BY DEF At
  <1> HIDE DEF e
  <1>4. /\ At(s, at) \in Seq(OpenFrames) /\ Len(At(s, at)) = Len(s)
        /\ \A k \in 1 .. Len(s) : At(s, at)[k] = IF k = Len(s) THEN e ELSE s[k]
    BY <1>1, <1>2, <1>3, ExceptSeq
  <1>5. At(s, at) # <<>>
    BY <1>1, <1>4, EmptySeq
  <1> QED BY <1>1, <1>2, <1>4, <1>5 DEF KernelFrames

\* An interrupt or a system call pushes a frame on code that it interrupts.
LEMMA PushFacts ==
    ASSUME NEW s, KernelFrames(s), Len(s) < MAX_DEPTH,
           s # <<>> => s[Len(s)].at \in Interrupted,
           NEW f \in OpenFrames
    PROVE  /\ KernelFrames(Append(s, f)) /\ Append(s, f) # <<>>
           /\ Len(s) \in Nat /\ Len(Append(s, f)) = Len(s) + 1
           /\ Append(s, f)[Len(s) + 1] = f
           /\ \A k \in 1 .. Len(s) : Append(s, f)[k] = s[k]
  <1>1. s \in Seq(OpenFrames) /\ Len(s) \in Nat
    BY LenProperties DEF KernelFrames
  <1>2. /\ Append(s, f) \in Seq(OpenFrames) /\ Append(s, f) # <<>>
        /\ Len(Append(s, f)) = Len(s) + 1 /\ Append(s, f)[Len(s) + 1] = f
        /\ \A k \in 1 .. Len(s) : Append(s, f)[k] = s[k]
    BY <1>1, AppendProperties
  <1>3. \A k \in 1 .. Len(s) : s[k].at \in Interrupted
    BY <1>1, EmptySeq DEF KernelFrames
  <1>4. Len(s) + 1 <= MAX_DEPTH
    BY <1>1, ConstantFacts
  <1> QED BY <1>1, <1>2, <1>3, <1>4 DEF KernelFrames

\* A return pops it and goes on in code that was interrupted.
LEMMA PopFacts ==
    ASSUME NEW s, KernelFrames(s), s # <<>>
    PROVE  /\ KernelFrames(Front(s)) /\ Len(s) \in Nat /\ Len(Front(s)) = Len(s) - 1
           /\ \A k \in 1 .. Len(Front(s)) : Front(s)[k] = s[k]
           /\ Front(s) # <<>> => Front(s)[Len(Front(s))].at \in Interrupted
  <1>1. s \in Seq(OpenFrames) /\ Len(s) \in Nat \ {0}
    BY EmptySeq DEF KernelFrames
  <1>2. \A k \in 1 .. Len(s) - 1 : s[k] \in OpenFrames
    BY <1>1, ElementOfSeq
  <1>3. /\ Front(s) \in Seq(OpenFrames) /\ Len(Front(s)) = Len(s) - 1
        /\ \A k \in 1 .. Len(s) - 1 : Front(s)[k] = s[k]
    <2> DEFINE n == Len(s) - 1
    <2>1. n \in Nat
      BY <1>1
    <2> HIDE DEF n
    <2>2. /\ SubSeq(s, 1, n) \in Seq(OpenFrames)
          /\ Len(SubSeq(s, 1, n)) = IF 1 <= n THEN n - 1 + 1 ELSE 0
          /\ \A k \in 1 .. n - 1 + 1 : SubSeq(s, 1, n)[k] = s[1 + k - 1]
      BY <1>2, <2>1, SubSeqProperties DEF n
    <2>3. Front(s) = SubSeq(s, 1, n)
      BY DEF Front, n
    <2>4. /\ n - 1 + 1 = n /\ (~(1 <= n) => n = 0)
          /\ \A k \in 1 .. n : 1 + k - 1 = k
      BY <2>1
    <2>5. /\ Front(s) \in Seq(OpenFrames) /\ Len(Front(s)) = n
          /\ \A k \in 1 .. n : Front(s)[k] = s[k]
      BY <2>1, <2>2, <2>3, <2>4
    <2> QED BY <2>5 DEF n
  <1>4. Front(s) # <<>> => Len(s) - 1 \in 1 .. Len(s) - 1
    BY <1>1, <1>3, EmptySeq
  <1>5. KernelFrames(Front(s))
    BY <1>1, <1>3, ConstantFacts DEF KernelFrames
  <1> QED BY <1>1, <1>3, <1>4, <1>5 DEF KernelFrames

\* The empty stack is that of a program.
LEMMA EmptyFacts == KernelFrames(<<>>) /\ Len(<<>>) = 0
  BY ConstantFacts, EmptySeq DEF KernelFrames

\* Launching, read off the frames of the stack.
LEMMA LaunchingDef ==
    ASSUME KernelFrames(stack)
    PROVE  Launching <=> \E k \in 1 .. Len(stack) : stack[k].at = "launch"
  BY LenProperties DEF KernelFrames, Launching
-----------------------------------------------------------------------------
(***************************************************************************)
(* Steps that leave the boot and the masks alone.                           *)
(***************************************************************************)
bootVars == <<boot, idt, master_mask, slave_mask, imr>>

\* The masks agree as long as boot and the masks do not move.
LEMMA MaskSame == ASSUME MaskInv, UNCHANGED bootVars PROVE MaskInv'
  BY DEF MaskInv, bootVars

\* The frame at the top of the stack, seen from its length.
LEMMA TopFacts ==
    ASSUME Types, stack # <<>>
    PROVE  Len(stack) \in Nat \ {0} /\ Top \in OpenFrames /\ Top = stack[Len(stack)]
  BY EmptySeq, ElementOfSeq DEF Types, KernelFrames, Top

\* A handler has been entered, so interrupts are off and its line, alone, is in
\* service.
LEMMA EnteredFacts ==
    ASSUME IInv, Running, NEW n, Entered(n)
    PROVE  stack # <<>> /\ n \in Handlers /\ isr = InService(n) /\ boot \notin Early
           /\ KernelFrames(stack) /\ Len(stack) \in Nat \ {0}
  <1>1. stack # <<>> /\ Top.at = "entry" /\ Top.irq = n
    BY DEF Entered, TopAt
  <1>2. IF_flag = FALSE
    BY <1>1 DEF IInv, Types, FlowInv, Interrupted
  <1> QED BY <1>1, <1>2, TopFacts DEF IInv, Types, FlowInv

\* What is left to show of a step of the running system.
LEMMA StepSuffices ==
    ASSUME IInv, Running, Types', FlowInv', SavedInv', UNCHANGED <<bootVars, fault>>
    PROVE  IInv'
  BY MaskSame DEF IInv, NoStrayVector, bootVars

\* A step to another program point of the last frame, with its line served.
LEMMA GotoStep ==
    ASSUME IInv, Running, stack # <<>>, NEW at \in {"tail", "work", "resume", "critical"},
           Goto(at),
           UNCHANGED <<bootVars, fault, saved, active, cur_active_terminal>>,
           irr' \subseteq Devices, isr' = {}, unread' \subseteq Latched, cur_term' \in Terms,
           at \in {"tail", "work"} => IF_flag' = TRUE,
           at \in {"resume", "critical"} => IF_flag' = FALSE
    PROVE  IInv'
  <1>0. at \in Labels
    BY DEF Labels
  <1>1. /\ KernelFrames(stack') /\ stack' # <<>> /\ Len(stack') = Len(stack)
        /\ stack'[Len(stack')].at = at /\ Len(stack) \in Nat \ {0}
        /\ \A k \in 1 .. Len(stack) - 1 : stack'[k] = stack[k]
    BY <1>0, AtFacts DEF IInv, Types, Goto
  <1>2. IF_flag' \in BOOLEAN
    OBVIOUS
  <1>3. irr' \subseteq IRQs /\ isr' \subseteq IRQs
    BY ConstantFacts
  <1>4. Types'
    BY <1>1, <1>2, <1>3 DEF IInv, Types, PicTypeOK, bootVars
  <1>5. boot \notin Early
    BY DEF IInv, FlowInv
  <1>6. Top' = stack'[Len(stack')]
    BY DEF Top
  <1>7. FlowInv'
    BY <1>1, <1>5, <1>6 DEF FlowInv, bootVars, Interrupted
  <1>8. Launching' => Launching
    <2>1. \A k \in 1 .. Len(stack) : stack'[k].at = "launch" => k \in 1 .. Len(stack) - 1
      BY <1>1
    <2>2. Launching' <=> \E k \in 1 .. Len(stack') : stack'[k].at = "launch"
      BY <1>1, LenProperties DEF KernelFrames, Launching
    <2>3. \A k \in 1 .. Len(stack) - 1 : k \in 1 .. Len(stack)
      BY <1>1
    <2> QED BY <1>1, <2>1, <2>2, <2>3, LaunchingDef DEF IInv, Types
  <1>9. ~Entered(PIT_IRQ)'
    BY <1>1, <1>6 DEF Entered, TopAt
  <1>10. SavedInv'
    BY <1>8, <1>9 DEF IInv, SavedInv, bootVars
  <1> QED BY <1>4, <1>7, <1>10, StepSuffices

\* A program point and what FlowInv says of it.
LEMMA AtPoint ==
    ASSUME IInv, Running, NEW at, TopAt(at)
    PROVE  /\ stack # <<>> /\ Top.at = at
           /\ at \in {"resume", "critical"} => isr = {}
           /\ at \in Interrupted => isr = {}
  <1>1. stack # <<>> /\ Top.at = at /\ IF_flag \in BOOLEAN /\ FlowInv
    BY DEF TopAt, IInv, Types
  <1>2. isr # {} => at = "entry"
    BY <1>1 DEF FlowInv, TopAt
  <1> QED BY <1>1, <1>2 DEF Interrupted

\* The EOI of a handler ends the service of its line, and of the cascade.
LEMMA EoiFacts ==
    ASSUME NEW n, isr = InService(n), send_eoi(n)
    PROVE  isr' = {}
  BY DEF InService, send_eoi

\* The RTC handler acknowledges and returns.
LEMMA RtcHandlerStep == ASSUME IInv, rtc_interrupt_handler PROVE IInv'
  <1>1. /\ Running /\ Entered(RTC_IRQ_LINE) /\ Goto("tail") /\ IF_flag' = TRUE
        /\ send_eoi(RTC_IRQ_LINE)
        /\ UNCHANGED <<bootVars, irr, fault, saved, active, cur_active_terminal, cur_term>>
        /\ unread' \subseteq unread
    BY DEF rtc_interrupt_handler, Finish, ReadRegisterC, bootVars
  <1>2. stack # <<>> /\ isr' = {}
    BY <1>1, EnteredFacts, EoiFacts
  <1>3. irr' \subseteq Devices /\ unread' \subseteq Latched /\ cur_term' \in Terms
    BY <1>1 DEF IInv, Types
  <1> QED BY <1>1, <1>2, <1>3, GotoStep

\* A key that does not switch terminals, or one that faults during boot.
LEMMA KeyboardHandlerStep == ASSUME IInv, keyboard_interrupt_handler PROVE IInv'
  <1>1. /\ Running /\ Entered(KEYBOARD_IRQ)
        /\ UNCHANGED <<bootVars, irr, saved, active, cur_active_terminal, cur_term>>
        /\ unread' \subseteq unread
    BY DEF keyboard_interrupt_handler, ReadScancode, bootVars
  <1>2. stack # <<>> /\ isr = InService(KEYBOARD_IRQ)
    BY <1>1, EnteredFacts
  <1>3. irr' \subseteq Devices /\ unread' \subseteq Latched /\ cur_term' \in Terms
    BY <1>1 DEF IInv, Types
  <1>4. CASE send_eoi(KEYBOARD_IRQ) /\ Finish /\ UNCHANGED fault
    <2>1. isr' = {} /\ Goto("tail") /\ IF_flag' = TRUE
      BY <1>2, <1>4, EoiFacts DEF Finish
    <2> QED BY <1>1, <1>2, <1>3, <1>4, <2>1, GotoStep
  <1>5. CASE fault' = "key" /\ UNCHANGED <<isr, stack, IF_flag>>
    <2>1. Types'
      BY <1>1, <1>3, <1>5 DEF IInv, Types, PicTypeOK, bootVars, KernelFrames
    <2>2. SavedInv'
      BY <1>1, <1>5 DEF IInv, SavedInv, bootVars, Launching, Entered, TopAt, Top
    <2>3. ~Running' /\ NoStrayVector'
      BY <1>5 DEF Running, NoStrayVector
    <2>4. MaskInv'
      BY <1>1, MaskSame DEF IInv
    <2> QED BY <2>1, <2>2, <2>3, <2>4 DEF IInv
  <1> QED BY <1>4, <1>5 DEF keyboard_interrupt_handler

\* Alt-Fn to a terminal that has a shell.
LEMMA SwitchToActiveStep ==
    ASSUME IInv, NEW t \in Terms, switch_to_active(t) PROVE IInv'
  <1>1. /\ Running /\ Entered(KEYBOARD_IRQ) /\ Goto("tail") /\ IF_flag' = TRUE
        /\ send_eoi(KEYBOARD_IRQ) /\ cur_term' = t
        /\ UNCHANGED <<bootVars, irr, fault, saved, active, cur_active_terminal>>
        /\ unread' \subseteq unread
    BY DEF switch_to_active, Finish, ReadScancode, bootVars
  <1>2. stack # <<>> /\ isr' = {}
    BY <1>1, EnteredFacts, EoiFacts
  <1>3. irr' \subseteq Devices /\ unread' \subseteq Latched /\ cur_term' \in Terms
    BY <1>1 DEF IInv, Types
  <1> QED BY <1>1, <1>2, <1>3, GotoStep

\* The end of the keyboard handler after a switch.
LEMMA AfterSwitchStep == ASSUME IInv, after_switch PROVE IInv'
  <1>1. /\ Running /\ TopAt("resume") /\ Goto("tail") /\ IF_flag' = TRUE
        /\ isr' \subseteq isr
        /\ UNCHANGED <<bootVars, irr, fault, saved, active, cur_active_terminal, cur_term,
                       unread>>
    BY DEF after_switch, Finish, send_eoi, bootVars
  <1>2. stack # <<>> /\ isr' = {}
    BY <1>1, AtPoint
  <1>3. irr' \subseteq Devices /\ unread' \subseteq Latched /\ cur_term' \in Terms
    BY <1>1 DEF IInv, Types
  <1> QED BY <1>1, <1>2, <1>3, GotoStep

\* The critical sections of a system call.
LEMMA SectionStep == ASSUME IInv, sys_cli \/ sys_sti PROVE IInv'
  <1>0. /\ Running
        /\ UNCHANGED <<bootVars, irr, isr, fault, saved, active, cur_active_terminal, cur_term,
                       unread>>
    BY DEF sys_cli, sys_sti, Same, picVars, bootVars
  <1>1. irr' \subseteq Devices /\ unread' \subseteq Latched /\ cur_term' \in Terms
    BY <1>0 DEF IInv, Types
  <1>2. CASE sys_cli
    <2>1. TopAt("work") /\ Goto("critical") /\ IF_flag' = FALSE
      BY <1>2 DEF sys_cli
    <2>2. stack # <<>> /\ isr' = {}
      BY <1>0, <2>1, AtPoint DEF Interrupted
    <2> QED BY <1>0, <1>1, <2>1, <2>2, GotoStep
  <1>3. CASE sys_sti
    <2>1. TopAt("critical") /\ Goto("work") /\ IF_flag' = TRUE
      BY <1>3 DEF sys_sti
    <2>2. stack # <<>> /\ isr' = {}
      BY <1>0, <2>1, AtPoint
    <2> QED BY <1>0, <1>1, <2>1, <2>2, GotoStep
  <1> QED BY <1>2, <1>3

\* No frame of the stack belongs to a launch, nor does one after the last has
\* moved on.
LEMMA NoLaunch ==
    ASSUME KernelFrames(stack), stack # <<>>, ~Launching, NEW at \in Labels, at # "launch"
    PROVE  \A k \in 1 .. Len(At(stack, at)) : At(stack, at)[k].at # "launch"
  <1>1. /\ Len(At(stack, at)) = Len(stack) /\ Len(stack) \in Nat \ {0}
        /\ At(stack, at)[Len(stack)].at = at
        /\ \A k \in 1 .. Len(stack) - 1 : At(stack, at)[k] = stack[k]
    BY AtFacts
  <1>2. \A k \in 1 .. Len(stack) : stack[k].at # "launch"
    BY LaunchingDef
  <1>3. \A k \in 1 .. Len(stack) : k = Len(stack) \/ k \in 1 .. Len(stack) - 1
    BY <1>1
  <1> QED BY <1>1, <1>2, <1>3

\* Alt-Fn to a terminal without one, up to the call of execute.
LEMMA SwitchToInactiveStep ==
    ASSUME IInv, NEW t \in Terms, switch_to_inactive(t) PROVE IInv'
  <1> DEFINE r == At(stack, "resume")
  <1>1. /\ Running /\ boot = "done" /\ Entered(KEYBOARD_IRQ) /\ ~Launching
        /\ stack' = At(stack, "launch") /\ IF_flag' = TRUE
        /\ saved' = [saved EXCEPT ![cur_active_terminal] = r]
        /\ send_eoi(KEYBOARD_IRQ) /\ cur_term' = t
        /\ UNCHANGED <<bootVars, irr, fault, active, cur_active_terminal>>
        /\ unread' \subseteq unread
    BY DEF switch_to_inactive, SaveFlow, EarlyEoi, Goto, ReadScancode, bootVars
  <1>2. stack # <<>> /\ isr' = {} /\ KernelFrames(stack)
    BY <1>1, EnteredFacts, EoiFacts
  <1>3. "launch" \in Labels /\ "resume" \in Labels
    BY DEF Labels
  <1>4. /\ KernelFrames(stack') /\ stack' # <<>> /\ stack'[Len(stack')].at = "launch"
    BY <1>1, <1>2, <1>3, AtFacts
  <1>5. /\ KernelFrames(r) /\ Resumable(r)
        /\ \A k \in 1 .. Len(r) : r[k].at # "launch"
    <2>1. \A k \in 1 .. Len(r) : r[k].at # "launch"
      BY <1>1, <1>2, <1>3, NoLaunch
    <2>2. KernelFrames(r) /\ r # <<>> /\ r[Len(r)].at = "resume"
      BY <1>2, <1>3, AtFacts
    <2> QED BY <2>1, <2>2 DEF Resumable, Suspended
  <1> HIDE DEF r
  <1>6. /\ saved \in [Terms -> Seq(OpenFrames)] /\ cur_active_terminal \in Terms
        /\ r \in Seq(OpenFrames)
    BY <1>5 DEF IInv, Types, KernelFrames
  <1>7. /\ saved' \in [Terms -> Seq(OpenFrames)]
        /\ \A u \in Terms : saved'[u] = IF u = cur_active_terminal THEN r ELSE saved[u]
    BY <1>1, <1>6
  <1>8. Types'
    <2>1. irr' \subseteq Devices /\ irr' \subseteq IRQs /\ isr' \subseteq IRQs
      BY <1>1, <1>2 DEF IInv, Types, PicTypeOK
    <2> QED BY <1>1, <1>4, <1>7, <2>1 DEF IInv, Types, PicTypeOK, bootVars
  <1>9. FlowInv'
    BY <1>1, <1>2, <1>4 DEF FlowInv, Top, Interrupted, Early, bootVars
  <1>10. ~Entered(PIT_IRQ)'
    BY <1>4 DEF Entered, TopAt, Top
  <1>11. SavedInv'
    BY <1>1, <1>5, <1>6, <1>7, <1>10 DEF IInv, SavedInv, Types, bootVars
  <1> QED BY <1>1, <1>8, <1>9, <1>11, StepSuffices

\* The execute of the launch: the shell starts, or it fails.
LEMMA ExecuteStep == ASSUME IInv, execute PROVE IInv'
  <1>1. /\ Running /\ TopAt("launch")
        /\ UNCHANGED <<bootVars, irr, isr, saved, cur_term, unread, fault>>
    BY DEF execute, picVars, bootVars
  <1>2. stack # <<>> /\ isr = {} /\ Top.at = "launch"
    BY <1>1, AtPoint DEF Interrupted
  <1>3. irr' \subseteq Devices /\ unread' \subseteq Latched /\ cur_term' \in Terms
    BY <1>1 DEF IInv, Types
  <1>4. CASE Goto("resume") /\ IF_flag' = FALSE /\ UNCHANGED <<active, cur_active_terminal>>
    <2>1. isr' = {}
      BY <1>1, <1>2
    <2> QED BY <1>1, <1>2, <1>3, <1>4, <2>1, GotoStep
  <1>5. CASE /\ active' = active \cup {cur_term} /\ cur_active_terminal' = cur_term
             /\ stack' = <<>> /\ IF_flag' = EntryFlag
    <2>1. Launching
      <3>1. Len(stack) \in 1 .. Len(stack) /\ stack[Len(stack)].at = "launch"
        BY <1>2, TopFacts DEF IInv
      <3> QED BY <3>1, LaunchingDef DEF IInv, Types
    <2>2. boot = "done" /\ Resumable(saved[cur_active_terminal])
      BY <2>1 DEF IInv, SavedInv
    <2>3. KernelFrames(stack') /\ ~Launching' /\ ~Entered(PIT_IRQ)'
      BY <1>5, EmptyFacts DEF Launching, Entered, TopAt
    <2>4. Types'
      BY <1>1, <1>3, <1>5, <2>3 DEF IInv, Types, PicTypeOK, bootVars, EntryFlag
    <2>5. FlowInv'
      BY <1>1, <1>2, <1>5, <2>2 DEF FlowInv, Early, bootVars, EntryFlag
    <2>6. SavedInv'
      <3>1. \A u \in active' \ {cur_active_terminal'} : Resumable(saved[u])
        BY <1>5, <2>2 DEF IInv, SavedInv
      <3> QED BY <1>1, <2>2, <2>3, <3>1 DEF IInv, SavedInv, bootVars
    <2> QED BY <1>1, <2>4, <2>5, <2>6, StepSuffices
  <1> QED BY <1>4, <1>5 DEF execute

\* Going round the terminals for less than a full turn ends at another one.
LEMMA AnotherTerminal ==
    ASSUME NEW m \in Nat \ {0}, NEW c \in 0 .. m - 1, NEW d \in 1 .. m - 1
    PROVE  (c + d) % m # c
  <1> SUFFICES ASSUME (c + d) % m = c PROVE FALSE
    OBVIOUS
  <1> DEFINE q == (c + d) \div m
  <1>1. q \in Int /\ c + d = m * q + c
    OBVIOUS
  <1> HIDE DEF q
  <1>2. d = m * q
    BY <1>1
  <1>3. q >= 1 => m * q >= m
    BY <1>1
  <1>4. q <= 0 => m * q <= 0
    BY <1>1
  <1> QED BY <1>1, <1>2, <1>3, <1>4

\* The PIT handler: acknowledge, save, go on with the next active terminal.
LEMMA SchedulingStep == ASSUME IInv, PIT_scheduling PROVE IInv'
  <1>1. /\ Running /\ Entered(PIT_IRQ) /\ send_eoi(PIT_IRQ)
        /\ UNCHANGED <<bootVars, irr, active, cur_term, unread, fault>>
    BY DEF PIT_scheduling, bootVars
  <1>2. stack # <<>> /\ isr' = {} /\ boot \notin Early /\ KernelFrames(stack)
    BY <1>1, EnteredFacts, EoiFacts
  <1>3. irr' \subseteq Devices /\ unread' \subseteq Latched /\ cur_term' \in Terms
    BY <1>1 DEF IInv, Types
  <1>4. CASE active \subseteq {0}
    <2>1. Goto("tail") /\ IF_flag' = TRUE /\ UNCHANGED <<saved, cur_active_terminal>>
      BY <1>4 DEF PIT_scheduling, Finish
    <2> QED BY <1>1, <1>2, <1>3, <2>1, GotoStep
  <1>5. CASE ~(active \subseteq {0})
    <2> DEFINE r == At(stack, "tail")
    <2>1. PICK t \in Terms :
             /\ NextTerminal(t)
             /\ saved' = [saved EXCEPT ![cur_active_terminal] = r]
             /\ stack' = saved[t]
             /\ IF_flag' = (saved[t][Len(saved[t])].at = "tail")
             /\ cur_active_terminal' = t
      BY <1>5 DEF PIT_scheduling
    <2>2. t \in active /\ t # cur_active_terminal
      <3>1. PICK d \in 1 .. MAX_TERM - 1 :
               t = (cur_active_terminal + d) % MAX_TERM /\ t \in active
        BY <2>1 DEF NextTerminal
      <3>2. MAX_TERM \in Nat \ {0} /\ cur_active_terminal \in 0 .. MAX_TERM - 1
        BY ConstantFacts DEF IInv, Types, Terms
      <3> QED BY <3>1, <3>2, AnotherTerminal
    <2>3. ~Launching /\ boot = "done"
      BY <1>1, <1>5 DEF IInv, SavedInv
    <2>4. /\ KernelFrames(r) /\ Resumable(r)
          /\ \A k \in 1 .. Len(r) : r[k].at # "launch"
      <3>1. "tail" \in Labels
        BY DEF Labels
      <3>2. \A k \in 1 .. Len(r) : r[k].at # "launch"
        BY <1>2, <2>3, <3>1, NoLaunch
      <3>3. KernelFrames(r) /\ r # <<>> /\ r[Len(r)].at = "tail"
        BY <1>2, <3>1, AtFacts
      <3> QED BY <3>2, <3>3 DEF Resumable, Suspended
    <2> HIDE DEF r
    <2>5. /\ saved \in [Terms -> Seq(OpenFrames)] /\ cur_active_terminal \in Terms
          /\ r \in Seq(OpenFrames)
      BY <2>4 DEF IInv, Types, KernelFrames
    <2>6. /\ saved' \in [Terms -> Seq(OpenFrames)]
          /\ \A u \in Terms : saved'[u] = IF u = cur_active_terminal THEN r ELSE saved[u]
      BY <2>1, <2>5
    <2>7. /\ KernelFrames(stack') /\ stack' # <<>> /\ Top' = stack'[Len(stack')]
          /\ Top'.at \in Suspended
          /\ \A k \in 1 .. Len(stack') : stack'[k].at # "launch"
      BY <2>1, <2>2 DEF IInv, SavedInv, Resumable, Top
    <2>8. IF_flag' \in BOOLEAN /\ (IF_flag' <=> Top'.at = "tail")
      BY <2>1, <2>7
    <2>9. Types'
      <3>1. irr' \subseteq IRQs /\ isr' \subseteq IRQs
        BY <1>1, <1>2 DEF IInv, Types, PicTypeOK
      <3> QED BY <1>1, <1>3, <2>1, <2>6, <2>7, <2>8, <3>1 DEF IInv, Types, PicTypeOK, bootVars
    <2>10. FlowInv'
      BY <1>1, <1>2, <2>7, <2>8 DEF FlowInv, Suspended, Interrupted, bootVars
    <2>11. ~Launching' /\ ~Entered(PIT_IRQ)'
      <3>1. ~Launching'
        BY <2>7, LenProperties DEF KernelFrames, Launching
      <3> QED BY <2>7, <3>1 DEF Entered, TopAt, Suspended
    <2>12. SavedInv'
      <3>1. \A u \in active \ {t} : u \in Terms /\ Resumable(saved'[u])
        BY <2>4, <2>6 DEF IInv, SavedInv, Types
      <3>2. \A u \in Terms : /\ KernelFrames(saved'[u])
                             /\ \A k \in 1 .. Len(saved'[u]) : saved'[u][k].at # "launch"
        BY <2>4, <2>6 DEF IInv, SavedInv
      <3> QED BY <1>1, <2>1, <2>3, <2>11, <3>1, <3>2 DEF SavedInv, bootVars
    <2> QED BY <1>1, <2>9, <2>10, <2>12, StepSuffices
  <1> QED BY <1>4, <1>5

\* An iret of a handler or of a system call.
LEMMA ReturnStep == ASSUME IInv, NEW from, Return(from), from \in Interrupted \cup {"critical"}
                    PROVE  IInv'
  <1>1. /\ Running /\ TopAt(from) /\ stack' = Front(stack) /\ IF_flag' = Top.flag
        /\ UNCHANGED <<bootVars, irr, isr, saved, active, cur_term, cur_active_terminal,
                       unread, fault>>
    BY DEF Return, Same, picVars, bootVars
  <1>2. stack # <<>> /\ isr' = {} /\ boot \notin Early /\ KernelFrames(stack)
    BY <1>1, AtPoint DEF IInv, Types, FlowInv
  <1>3. IF_flag' \in {TRUE}
    BY <1>1, <1>2, TopFacts DEF IInv, OpenFrames
  <1>4. /\ KernelFrames(stack') /\ Len(stack') = Len(stack) - 1 /\ Len(stack) \in Nat
        /\ \A k \in 1 .. Len(stack') : stack'[k] = stack[k]
        /\ stack' # <<>> => Top'.at \in Interrupted
    BY <1>1, <1>2, PopFacts DEF Top
  <1>5. Types'
    <2>1. irr' \subseteq Devices /\ irr' \subseteq IRQs /\ isr' \subseteq IRQs
      BY <1>1 DEF IInv, Types, PicTypeOK
    <2> QED BY <1>1, <1>3, <1>4, <2>1 DEF IInv, Types, PicTypeOK, bootVars
  <1>6. FlowInv'
    BY <1>1, <1>2, <1>3, <1>4 DEF FlowInv, bootVars
  <1>7. Launching' => Launching
    <2>1. Launching' <=> \E k \in 1 .. Len(stack') : stack'[k].at = "launch"
      BY <1>4, LenProperties DEF KernelFrames, Launching
    <2>2. \A k \in 1 .. Len(stack') : k \in 1 .. Len(stack)
      BY <1>4
    <2> QED BY <1>2, <1>4, <2>1, <2>2, LaunchingDef
  <1>8. ~Entered(PIT_IRQ)'
    BY <1>4 DEF Entered, TopAt, Interrupted
  <1>9. SavedInv'
    BY <1>1, <1>7, <1>8 DEF IInv, SavedInv, bootVars
  <1> QED BY <1>1, <1>5, <1>6, <1>9, StepSuffices

\* A program enters a system call, which lets interrupts in.
LEMMA SystemCallStep == ASSUME IInv, system_call PROVE IInv'
  <1> DEFINE f == Frame(SYSCALL, "work")
  <1>1. /\ Running /\ boot = "done" /\ stack = <<>> /\ stack' = <<f>> /\ IF_flag' = TRUE
        /\ UNCHANGED <<bootVars, irr, isr, saved, active, cur_term, cur_active_terminal,
                       unread, fault>>
    BY DEF system_call, InProgram, Same, picVars, bootVars
  <1>2. IF_flag = TRUE /\ isr = {}
    BY <1>1 DEF IInv, Types, FlowInv, TopAt, Early
  <1>3. f \in OpenFrames /\ f.at = "work"
    BY <1>2 DEF OpenFrames, Frame, Labels
  <1> HIDE DEF f
  <1>4. <<f>> \in Seq(OpenFrames) /\ Len(<<f>>) = 1 /\ <<f>>[1] = f /\ <<f>> # <<>>
    BY <1>3
  <1>5. KernelFrames(stack') /\ stack' # <<>> /\ Len(stack') = 1 /\ stack'[1].at = "work"
    BY <1>1, <1>3, <1>4, ConstantFacts DEF KernelFrames
  <1>6. Top'.at = "work"
    BY <1>5 DEF Top
  <1>7. Types'
    BY <1>1, <1>5 DEF IInv, Types, PicTypeOK, bootVars
  <1>8. FlowInv'
    BY <1>1, <1>2, <1>6 DEF FlowInv, Interrupted, Early, bootVars
  <1>9. ~Launching' /\ ~Entered(PIT_IRQ)'
    <2>1. ~Launching'
      BY <1>5, LenProperties DEF KernelFrames, Launching
    <2> QED BY <1>6, <2>1 DEF Entered, TopAt
  <1>10. SavedInv'
    BY <1>1, <1>9 DEF IInv, SavedInv, bootVars
  <1> QED BY <1>1, <1>7, <1>8, <1>10, StepSuffices

\* A device asks for an interrupt.
LEMMA RaiseStep == ASSUME IInv, NEW i \in Devices, raise(i) PROVE IInv'
  <1>1. /\ Running /\ irr' = irr \cup {i}
        /\ unread' \subseteq unread \cup Latched
        /\ UNCHANGED <<bootVars, isr, IF_flag, fault, stack, saved, active, cur_term,
                       cur_active_terminal>>
    BY DEF raise, bootVars, flowVars
  <1>2. Types'
    BY <1>1, ConstantFacts DEF IInv, Types, PicTypeOK, bootVars, KernelFrames
  <1>3. FlowInv'
    BY <1>1 DEF IInv, FlowInv, bootVars, Top, TopAt
  <1>4. SavedInv'
    BY <1>1 DEF IInv, SavedInv, bootVars, Launching, Entered, TopAt, Top
  <1> QED BY <1>1, <1>2, <1>3, <1>4, StepSuffices

\* After the first enable_irq the chips present only lines that have a handler.
LEMMA WinnerHandled ==
    ASSUME IInv, NEW i \in Devices, Wins(i), boot \notin Early, boot # "init_keyboard"
    PROVE  i \in Handlers
  <1>1. i \in IRQs /\ i # 2
    BY ConstantFacts
  <1>2. boot \in {"init_rtc", "paging_init", "PIT_init", "init_terminal", "done"} /\ MaskInv
    BY DEF IInv, Types, BootLabels
  <1>3. CASE i \in SlaveLines
    <2>1. ICW3_SLAVE \notin imr /\ i \notin imr
      BY <1>3 DEF Wins, MasterRequests, SlaveRequests
    <2>2. boot # "init_rtc"
      BY <2>1 DEF IInv, MaskInv, MasterLines, ICW3_SLAVE, KEYBOARD_IRQ
    <2>3. SlaveLines \ {RTC_IRQ_LINE} \subseteq imr
      BY <1>2, <2>2 DEF MaskInv
    <2> QED BY <1>3, <2>1, <2>3 DEF Handlers
  <1>4. CASE i \notin SlaveLines
    <2>1. i \in MasterLines /\ i \notin imr
      BY <1>4 DEF Wins, MasterRequests
    <2>2. MasterLines \ {PIT_IRQ, KEYBOARD_IRQ, ICW3_SLAVE} \subseteq imr
      BY <1>2 DEF MaskInv
    <2> QED BY <1>1, <2>1, <2>2 DEF Handlers, ICW3_SLAVE
  <1> QED BY <1>3, <1>4

\* The PIC delivers one, and the gate turns interrupts off.
LEMMA DeliverStep == ASSUME IInv, NEW i \in Devices, deliver(i) PROVE IInv'
  <1>1. /\ Running /\ IF_flag /\ Len(stack) < MAX_DEPTH
        /\ i = PIT_IRQ /\ Launching => active \subseteq {0}
        /\ Wins(i) /\ IF_flag' = FALSE
        /\ irr' = irr \ {i} /\ isr' = isr \cup InService(i)
        /\ UNCHANGED <<bootVars, saved, active, cur_term, cur_active_terminal, unread>>
    BY DEF deliver, acknowledge, InService, bootVars
  <1>2. /\ IF_flag = TRUE /\ isr = {} /\ boot \notin Early /\ KernelFrames(stack)
        /\ stack # <<>> => stack[Len(stack)].at \in Interrupted
    BY <1>1 DEF IInv, Types, FlowInv, Top
  <1>3. idt = Handlers /\ isr' = InService(i)
    BY <1>1, <1>2 DEF IInv, MaskInv, Early
  <1>4. i \in IRQs /\ ICW3_SLAVE \in IRQs
    BY ConstantFacts DEF ICW3_SLAVE, IRQs
  <1>5. isr' \subseteq IRQs
    BY <1>3, <1>4 DEF InService
  <1>6. irr' \subseteq Devices /\ irr' \subseteq IRQs
    BY <1>1, ConstantFacts DEF IInv, Types
  <1>7. CASE i \in idt
    <2> DEFINE f == Frame(i, "entry")
    <2>1. stack' = Append(stack, f) /\ fault' = fault
      BY <1>7 DEF deliver
    <2>2. f \in OpenFrames /\ f.at = "entry" /\ f.irq = i
      BY <1>2, <1>3, <1>7 DEF OpenFrames, Frame, Labels
    <2> HIDE DEF f
    <2>3. /\ KernelFrames(stack') /\ stack' # <<>> /\ Len(stack) \in Nat
          /\ Len(stack') = Len(stack) + 1 /\ stack'[Len(stack) + 1] = f
          /\ \A k \in 1 .. Len(stack) : stack'[k] = stack[k]
      BY <1>1, <1>2, <2>1, <2>2, PushFacts
    <2>4. Top' = f
      BY <2>3 DEF Top
    <2>5. Types'
      BY <1>1, <1>5, <1>6, <2>1, <2>3 DEF IInv, Types, PicTypeOK, bootVars
    <2>6. FlowInv'
      BY <1>1, <1>2, <1>3, <1>7, <2>2, <2>3, <2>4 DEF FlowInv, TopAt, bootVars
    <2>7. Launching' => Launching
      <3>1. Launching' <=> \E k \in 1 .. Len(stack') : stack'[k].at = "launch"
        BY <2>3, LenProperties DEF KernelFrames, Launching
      <3>2. \A k \in 1 .. Len(stack') : k \in 1 .. Len(stack) \/ k = Len(stack) + 1
        BY <2>3
      <3> QED BY <1>2, <2>2, <2>3, <3>1, <3>2, LaunchingDef
    <2>8. Entered(PIT_IRQ)' => i = PIT_IRQ
      BY <2>2, <2>4 DEF Entered
    <2>9. SavedInv'
      BY <1>1, <2>7, <2>8 DEF IInv, SavedInv, bootVars
    <2> QED BY <1>1, <2>1, <2>5, <2>6, <2>9, StepSuffices
  <1>8. CASE i \notin idt
    <2>1. fault' = "vector" /\ stack' = stack
      BY <1>8 DEF deliver
    <2>2. boot = "init_keyboard"
      BY <1>1, <1>2, <1>3, <1>8, WinnerHandled
    <2>3. Types'
      BY <1>1, <1>5, <1>6, <2>1 DEF IInv, Types, PicTypeOK, bootVars, KernelFrames
    <2>4. SavedInv'
      BY <1>1, <2>1 DEF IInv, SavedInv, bootVars, Launching, Entered, TopAt, Top
    <2>5. ~Running' /\ NoStrayVector'
      BY <1>1, <2>1, <2>2 DEF Running, NoStrayVector, bootVars
    <2>6. MaskInv'
      BY <1>1, MaskSame DEF IInv
    <2> QED BY <2>3, <2>4, <2>5, <2>6 DEF IInv
  <1> QED BY <1>7, <1>8

-----------------------------------------------------------------------------
(***************************************************************************)
(* The boot.                                                                *)
(***************************************************************************)
\* What a step of entry() other than the last leaves to show.
LEMMA BootStepFacts ==
    ASSUME IInv, NEW from \in BootLabels, NEW to \in BootLabels \ {"done"},
           BootStep(from, to), from # "done", idt' \in {{}, Handlers}, IF_flag' \in BOOLEAN,
           PicTypeOK', irr' \subseteq irr, isr' \subseteq isr,
           to \in Early => from \in Early /\ IF_flag' = FALSE,
           to \notin Early => IF_flag' = TRUE,
           MaskInv'
    PROVE  IInv'
  <1>1. /\ Running /\ boot = from /\ boot' = to /\ stack = <<>>
        /\ UNCHANGED <<stack, saved, active, cur_term, cur_active_terminal, unread, fault>>
    BY DEF BootStep, flowVars
  <1>2. isr = {}
    BY <1>1 DEF IInv, Types, FlowInv, TopAt
  <1>3. Types'
    BY <1>1 DEF IInv, Types, KernelFrames
  <1>4. FlowInv'
    BY <1>1, <1>2 DEF FlowInv
  <1>5. SavedInv'
    BY <1>1 DEF IInv, SavedInv, Launching, Entered, TopAt, Top
  <1>6. NoStrayVector'
    BY <1>1 DEF Running, NoStrayVector
  <1> QED BY <1>3, <1>4, <1>5, <1>6 DEF IInv

\* The flag during boot: clear before the sti, set after it.
LEMMA BootFlag ==
    ASSUME IInv, Running, stack = <<>>
    PROVE  IF_flag = (IF boot \in Early THEN FALSE ELSE TRUE)
  BY DEF IInv, Types, FlowInv, TopAt

\* Boot up to the sti in entry().
LEMMA EarlyBootStep == ASSUME IInv, init_idt \/ pic_init \/ boot_sti PROVE IInv'
  <1> USE DEF BootLabels, Early
  <1>1. CASE init_idt
    <2>1. /\ BootStep("init_idt", "i8259_init") /\ idt' = Handlers
          /\ UNCHANGED <<master_mask, slave_mask, imr, irr, isr, IF_flag>>
      BY <1>1 DEF init_idt, picVars
    <2>2. IF_flag' = FALSE /\ boot = "init_idt" /\ boot' = "i8259_init"
      BY <2>1, BootFlag DEF BootStep
    <2>3. PicTypeOK' /\ MaskInv'
      BY <2>1, <2>2 DEF IInv, Types, PicTypeOK, MaskInv
    <2> QED BY <2>1, <2>2, <2>3, BootStepFacts
  <1>2. CASE pic_init
    <2>1. /\ BootStep("i8259_init", "sti")
          /\ imr' = {} /\ irr' = {} /\ isr' = {}
          /\ UNCHANGED <<master_mask, slave_mask, idt, IF_flag>>
      BY <1>2 DEF pic_init, i8259_init
    <2>2. IF_flag' = FALSE /\ boot = "i8259_init" /\ boot' = "sti"
      BY <2>1, BootFlag DEF BootStep
    <2>3. PicTypeOK' /\ MaskInv' /\ idt' \in {{}, Handlers}
      BY <2>1, <2>2 DEF IInv, Types, PicTypeOK, MaskInv
    <2> QED BY <2>1, <2>2, <2>3, BootStepFacts
  <1>3. CASE boot_sti
    <2>1. /\ BootStep("sti", "init_keyboard") /\ IF_flag' = TRUE
          /\ UNCHANGED <<master_mask, slave_mask, imr, irr, isr, idt>>
      BY <1>3 DEF boot_sti, picVars
    <2>2. boot = "sti" /\ boot' = "init_keyboard"
      BY <2>1 DEF BootStep
    <2>3. PicTypeOK' /\ MaskInv' /\ idt' \in {{}, Handlers}
      BY <2>1, <2>2 DEF IInv, Types, PicTypeOK, MaskInv
    <2> QED BY <2>1, <2>2, <2>3, BootStepFacts
  <1> QED BY <1>1, <1>2, <1>3

\* The numbers of the lines, of the two chips and of the handlers.
LEMMA LineFacts ==
    /\ MasterLines \cup SlaveLines = IRQs /\ MasterLines \cap SlaveLines = {}
    /\ PIT_IRQ \in MasterLines /\ KEYBOARD_IRQ \in MasterLines /\ ICW3_SLAVE \in MasterLines
    /\ RTC_IRQ_LINE \in SlaveLines
    /\ PIT_IRQ \notin SlaveLines /\ KEYBOARD_IRQ \notin SlaveLines
    /\ ICW3_SLAVE \notin Handlers
  BY DEF MasterLines, SlaveLines, IRQs, PIT_IRQ, KEYBOARD_IRQ, RTC_IRQ_LINE, ICW3_SLAVE,
         Handlers

\* The devices that boot sets up with interrupts on.
LEMMA LateBootStep ==
    ASSUME IInv, init_keyboard \/ init_rtc \/ paging_init \/ PIT_init PROVE IInv'
  <1> USE DEF BootLabels, Early
  <1>0. PicTypeOK /\ MaskInv /\ idt \in {{}, Handlers}
    BY DEF IInv, Types
  <1>1. CASE init_keyboard
    <2>1. /\ BootStep("init_keyboard", "init_rtc")
          /\ master_mask' = master_mask \ {KEYBOARD_IRQ}
          /\ imr' = master_mask' \cup (imr \cap SlaveLines)
          /\ UNCHANGED <<slave_mask, irr, isr, idt, IF_flag>>
      BY <1>1, LineFacts DEF init_keyboard, enable_irq
    <2>2. IF_flag' = TRUE /\ boot = "init_keyboard" /\ boot' = "init_rtc"
      BY <2>1, BootFlag DEF BootStep
    <2>3. PicTypeOK' /\ MaskInv'
      BY <1>0, <2>1, <2>2, LineFacts DEF PicTypeOK, MaskInv
    <2> QED BY <1>0, <2>1, <2>2, <2>3, BootStepFacts
  <1>2. CASE init_rtc
    <2>1. /\ BootStep("init_rtc", "paging_init")
          /\ master_mask' = master_mask \ {ICW3_SLAVE}
          /\ slave_mask' = slave_mask \ {RTC_IRQ_LINE}
          /\ imr' = master_mask' \cup slave_mask'
          /\ UNCHANGED <<irr, isr, idt, IF_flag>>
      BY <1>2, LineFacts DEF init_rtc, enable_irq
    <2>2. IF_flag' = TRUE /\ boot = "init_rtc" /\ boot' = "paging_init"
      BY <2>1, BootFlag DEF BootStep
    <2>3. PicTypeOK' /\ MaskInv'
      BY <1>0, <2>1, <2>2, LineFacts DEF PicTypeOK, MaskInv
    <2> QED BY <1>0, <2>1, <2>2, <2>3, BootStepFacts
  <1>3. CASE paging_init
    <2>1. /\ BootStep("paging_init", "PIT_init")
          /\ UNCHANGED <<master_mask, slave_mask, imr, irr, isr, idt, IF_flag>>
      BY <1>3 DEF paging_init, picVars
    <2>2. IF_flag' = TRUE /\ boot = "paging_init" /\ boot' = "PIT_init"
      BY <2>1, BootFlag DEF BootStep
    <2>3. PicTypeOK' /\ MaskInv'
      BY <1>0, <2>1, <2>2 DEF PicTypeOK, MaskInv
    <2> QED BY <1>0, <2>1, <2>2, <2>3, BootStepFacts
  <1>4. CASE PIT_init
    <2>1. /\ BootStep("PIT_init", "init_terminal")
          /\ master_mask' = master_mask \ {PIT_IRQ}
          /\ imr' = master_mask' \cup (imr \cap SlaveLines)
          /\ UNCHANGED <<slave_mask, irr, isr, idt, IF_flag>>
      BY <1>4, LineFacts DEF PIT_init, enable_irq
    <2>2. IF_flag' = TRUE /\ boot = "PIT_init" /\ boot' = "init_terminal"
      BY <2>1, BootFlag DEF BootStep
    <2>3. PicTypeOK' /\ MaskInv'
      BY <1>0, <2>1, <2>2, LineFacts DEF PicTypeOK, MaskInv
    <2> QED BY <1>0, <2>1, <2>2, <2>3, BootStepFacts
  <1> QED BY <1>1, <1>2, <1>3, <1>4

\* The last step of boot: the first shell.
LEMMA InitTerminalStep == ASSUME IInv, init_terminal PROVE IInv'
  <1>1. /\ Running /\ boot = "init_terminal" /\ stack = <<>> /\ boot' = "done"
        /\ active' = {0} /\ IF_flag' = TRUE
        /\ UNCHANGED <<master_mask, slave_mask, imr, irr, isr, idt, stack, saved, cur_term,
                       cur_active_terminal, unread, fault>>
    BY DEF init_terminal, picVars, EntryFlag
  <1>2. isr = {} /\ cur_active_terminal = 0
    BY <1>1 DEF IInv, Types, FlowInv, SavedInv, TopAt
  <1>3. Types'
    BY <1>1, ConstantFacts DEF IInv, Types, PicTypeOK, BootLabels, KernelFrames
  <1>4. FlowInv'
    BY <1>1, <1>2 DEF FlowInv, Early
  <1>5. SavedInv'
    BY <1>1, <1>2 DEF IInv, SavedInv, Launching, Entered, TopAt, Top
  <1>6. MaskInv'
    BY <1>1 DEF IInv, MaskInv, Early
  <1>7. NoStrayVector'
    BY <1>1 DEF Running, NoStrayVector
  <1> QED BY <1>3, <1>4, <1>5, <1>6, <1>7 DEF IInv

-----------------------------------------------------------------------------
(***************************************************************************)
(* The theorems.                                                            *)
(***************************************************************************)
LEMMA IInvInit == Init => IInv
  <1> SUFFICES ASSUME Init PROVE IInv
    OBVIOUS
  <1> USE DEF Init
  <1>1. ~Launching /\ ~Entered(PIT_IRQ)
    BY DEF Launching, Entered, TopAt
  <1>2. <<>> \in Seq(OpenFrames)
    BY EmptySeq
  <1>3. Types
    BY <1>2, ConstantFacts, EmptyFacts, LineFacts DEF Types, PicInit, PicTypeOK, BootLabels, Early
  <1>4. FlowInv
    BY DEF FlowInv, PicInit, Early
  <1>5. SavedInv
    BY <1>1, EmptyFacts DEF SavedInv
  <1>6. MaskInv
    BY DEF MaskInv, PicInit, Early
  <1>7. NoStrayVector
    BY DEF NoStrayVector
  <1> QED BY <1>3, <1>4, <1>5, <1>6, <1>7 DEF IInv

\* Every step keeps the invariant.
LEMMA IInvStep == IInv /\ [Next]_vars => IInv'
  <1> SUFFICES ASSUME IInv, [Next]_vars PROVE IInv'
    OBVIOUS
  <1>1. CASE Boot
    BY <1>1, EarlyBootStep, LateBootStep, InitTerminalStep DEF Boot
  <1>2. ASSUME NEW i \in Devices, raise(i) \/ deliver(i) PROVE IInv'
    BY <1>2, RaiseStep, DeliverStep
  <1>3. CASE Code
    <2>1. CASE popfl_iret
      BY <2>1, ReturnStep DEF popfl_iret, Interrupted
    <2>2. CASE sys_sti
      BY <2>2, SectionStep
    <2> QED BY <1>3, <2>1, <2>2, SchedulingStep, RtcHandlerStep, KeyboardHandlerStep,
               SwitchToActiveStep, SwitchToInactiveStep, ExecuteStep, AfterSwitchStep DEF Code
  <1>4. CASE sys_return
    BY <1>4, ReturnStep DEF sys_return, Interrupted
  <1>5. CASE UNCHANGED vars
    <2>1. UNCHANGED <<master_mask, slave_mask, imr, irr, isr, boot, idt, IF_flag, stack,
                      saved, active, cur_term, cur_active_terminal, unread, fault>>
      BY <1>5 DEF vars, picVars, flowVars
    <2> QED BY <2>1 DEF IInv, Types, PicTypeOK, KernelFrames, Running, FlowInv, SavedInv,
               MaskInv, NoStrayVector, Launching, Entered, TopAt, Top
  <1>6. CASE stop
    BY <1>5, <1>6 DEF stop
  <1> QED BY <1>1, <1>2, <1>3, <1>4, <1>5, <1>6, SystemCallStep, SectionStep DEF Next

\* The invariant holds throughout, from power-on.
LEMMA Invariance == Spec => []IInv
  BY IInvInit, IInvStep, PTL DEF Spec

\* The interrupt flag, the stacks and the controllers keep their types, and a
\* terminal that is switched out always has a flow that a tick can resume.
THEOREM TypeCorrect == Spec => []TypeOK
  <1>1. IInv => TypeOK
    <2> SUFFICES ASSUME IInv PROVE TypeOK
      OBVIOUS
    <2>1. \A s : s \in Seq(OpenFrames) => s \in Seq(Frames)
      <3>1. OpenFrames \subseteq Frames
        BY DEF OpenFrames, Frames
      <3> QED BY <3>1, LenProperties, ElementOfSeq, SeqDef
    <2>2. idt \subseteq IRQs
      BY ConstantFacts DEF IInv, Types
    <2> QED BY <2>1, <2>2 DEF IInv, Types, TypeOK, KernelFrames, SavedInv, Resumable, Suspended
  <1> QED BY <1>1, Invariance, PTL

\* Every handler sends its EOI before interrupts are enabled again, so no line
\* is in service, and none held back, while the CPU accepts interrupts.
THEOREM InterruptsUnblockedHolds == Spec => []InterruptsUnblocked
  <1>1. IInv => InterruptsUnblocked
    BY DEF IInv, Types, FlowInv, InterruptsUnblocked
  <1> QED BY <1>1, Invariance, PTL

\* However the kernel enters a program, it runs with interrupts enabled.
THEOREM ProgramsPreemptibleHolds == Spec => []ProgramsPreemptible
  <1>1. IInv => ProgramsPreemptible
    BY DEF IInv, Types, FlowInv, ProgramsPreemptible, InProgram, Early, TopAt
  <1> QED BY <1>1, Invariance, PTL

\* A line that has no handler is only delivered between the sti of entry() and
\* the first enable_irq.
THEOREM NoStrayVectorHolds == Spec => []NoStrayVector
  BY Invariance, PTL DEF IInv

\* After boot the mask registers and their copies in i8259.c agree, and let
\* through the lines that have a handler and the cascade.
THEOREM MasksAgreeHolds == Spec => []MasksAgree
  <1>1. IInv => MasksAgree
    BY LineFacts DEF IInv, MaskInv, MasksAgree, Handlers
  <1> QED BY <1>1, Invariance, PTL
=============================================================================
