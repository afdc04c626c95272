------------------------------ MODULE Scheduler ------------------------------
(***************************************************************************)
(* scheduler.c: the handler of the timer interrupt, which runs the active   *)
(* process of each active terminal in turn.                                 *)
(***************************************************************************)
EXTENDS KernelState

\* Mutant: next_sched_terminal is not first set to cur_active_terminal.
Probe_from_zero(d) == d % MAX_TERM

\* The d-th terminal after the executing one.
Probe(d) == (cur_active_terminal + d) % MAX_TERM

\* Mutant: the loop makes one probe too few.
get_next_scheduled_short(d) ==
    /\ \A e \in 1 .. d - 1 : active[Probe(e)] = 0
    /\ active[Probe(d)] = 1 \/ d = MAX_TERM - 2

\* The loop ends on its d-th probe: at the first active terminal, or, when
\* none of the others is active, at the last one probed.
get_next_scheduled(d) ==
    /\ \A e \in 1 .. d - 1 : active[Probe(e)] = 0
    /\ active[Probe(d)] = 1 \/ d = MAX_TERM - 1

\* The program page and the video page of the new process; tss.esp0; ESP and
\* EBP saved in the old PCB; the jump to the ESP of the new one.
process_contextswitch(next, nextTerm) ==
    LET old == apn[cur_active_terminal] IN
    IF next = NONE \/ old = NONE THEN PageFault
    ELSE /\ page_remap(next)
         /\ page136' = ScreenPage(term[next], cur_term)
         /\ cur_active_terminal' = nextTerm
         /\ SetEsp0(next)
         /\ SaveEsp(old)
         /\ cpu' = Resume(esp'[next], esp0')
         /\ UNCHANGED <<pid_array, pcbVars, termVars, cur_term>>

PIT_scheduling ==
    /\ Interruptible
    /\ \E t \in Terms \ {0} : active[t] = 1
    /\ \E d \in 1 .. MAX_TERM - 1 :
          /\ get_next_scheduled(d)
          /\ process_contextswitch(apn[Probe(d)], Probe(d))
=============================================================================
