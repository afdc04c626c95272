------------------------------- MODULE Terminal -------------------------------
(***************************************************************************)
(* terminal.c: Alt-F1 .. Alt-F3, handled by switch_terminal inside the      *)
(* keyboard interrupt.  The contents of the screens are not modelled here.  *)
(***************************************************************************)
EXTENDS Syscalls

\* To a terminal that has a shell: the screens are exchanged and 136 MB is
\* mapped for the terminal that is executing.
switch_to_active(t) ==
    /\ Interruptible
    /\ t # cur_term /\ active[t] = 1
    /\ cur_term' = t
    /\ page136' = ScreenPage(cur_active_terminal, t)
    /\ UNCHANGED <<pid_array, pcbVars, esp, termVars, cur_active_terminal,
                   page128, esp0, cpu>>

\* To a terminal without one: the terminal is displayed, ESP is saved for the
\* process that was interrupted, and execute("shell") is pending on its stack.
switch_to_inactive(t) ==
    LET old == apn[cur_active_terminal] IN
    /\ Interruptible
    /\ t # cur_term /\ active[t] = 0
    /\ cpu.nested < MAX_NESTED
    /\ IF old = NONE THEN PageFault
       ELSE /\ cur_term' = t
            /\ SaveEsp(old)
            /\ cpu' = [cpu EXCEPT !.nested = @ + 1]
            /\ UNCHANGED <<pid_array, pcbVars, termVars, cur_active_terminal,
                           page128, page136, esp0>>

switch_terminal(t) == switch_to_active(t) \/ switch_to_inactive(t)

\* The pending execute("shell") of switch_terminal, or the one of
\* init_terminal; it returns -1 when no process number is free.
launch_shell ==
    LET back == [cpu EXCEPT !.nested = @ - 1] IN
    /\ cpu.nested > 0
    /\ \/ execute(pid_array, active, apn, back)
       \/ /\ NoProcNum(pid_array)
          /\ cpu' = Resume(back, esp0)
          /\ UNCHANGED <<pid_array, pcbVars, esp, termVars, cur_term,
                         cur_active_terminal, page128, page136, esp0>>

\* ENTER sets eflag through the PCB of the displayed terminal's process.  If
\* there is one the tables stay as they are: lines are the subject of TermInput.
key_enter ==
    /\ Interruptible
    /\ IF apn[cur_term] = NONE THEN "empty" \in Windows /\ PageFault
                               ELSE UNCHANGED vars
=============================================================================
