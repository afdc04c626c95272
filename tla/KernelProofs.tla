----------------------------- MODULE KernelProofs -----------------------------
(***************************************************************************)
(* Proofs about Kernel, for every number of processes and of terminals.     *)
(***************************************************************************)
EXTENDS Kernel, TLAPS

\* What the constants give: the sets are not empty and NONE, VIDEO are in
\* neither.
LEMMA ConstantFacts ==
    /\ NUM_MAX_PROCESSES \in Nat /\ NUM_MAX_PROCESSES > 0
    /\ MAX_TERM \in Nat /\ MAX_TERM > 1
    /\ MAX_NESTED \in Nat /\ MAX_NESTED > 0
    /\ 0 \in Pids /\ Pids \subseteq Nat /\ NONE \notin Pids /\ VIDEO \notin Pids
    /\ 0 \in Terms /\ Terms \subseteq Nat /\ NONE \notin Terms
  BY ConstantsAssumption DEF Pids, Terms, NONE, VIDEO

\* The d-th probe of get_next_scheduled is a terminal.
LEMMA ProbeType ==
    ASSUME cur_active_terminal \in Terms, NEW d \in 1 .. MAX_TERM - 1
    PROVE  Probe(d) \in Terms
  BY ConstantFacts DEF Terms, Probe

\* Resuming a context gives a context.
LEMMA ResumeType ==
    ASSUME NEW c \in Contexts, NEW sp \in Pids \cup {NONE}
    PROVE  Resume(c, sp) \in Contexts
  <1>1. CASE c.at = "user" /\ c.nested = 0
    BY <1>1 DEF Resume, Contexts, ContextRecords
  <1>2. CASE ~(c.at = "user" /\ c.nested = 0)
    BY <1>2 DEF Resume
  <1> QED BY <1>1, <1>2

\* execute leaves tables of the right type, whatever context it is given to
\* return to.
LEMMA ExecuteType ==
    ASSUME TypeOK,
           NEW pids \in [Pids -> {0, 1}], NEW act \in [Terms -> {0, 1}],
           NEW back \in Contexts,
           \A t \in Terms : act[t] = 1 => active[t] = 1,
           execute(pids, act, apn, back)
    PROVE  TypeOK'
  <1>1. PICK n \in Pids :
           /\ pid_array' = [pids EXCEPT ![n] = 1]
           /\ parent_ksp' = [parent_ksp EXCEPT ![n] = back]
           /\ page128' = n
           /\ parent_process_number' = [parent_process_number EXCEPT
                 ![n] = IF FirstProcess(act) THEN n ELSE apn[cur_term]]
           /\ cur_active_terminal' =
                 IF FirstProcess(act) THEN cur_term ELSE cur_active_terminal
           /\ active' = IF FirstProcess(act) THEN [act EXCEPT ![cur_term] = 1] ELSE act
           /\ term' = [term EXCEPT ![n] = cur_term]
           /\ apn' = [apn EXCEPT ![cur_term] = n]
           /\ esp0' = n
           /\ cpu' = [stk |-> cpu.stk, at |-> "iret", of |-> n, nested |-> 0]
           /\ UNCHANGED <<esp, cur_term, page136>>
    BY DEF execute, page_remap, SetEsp0
  <1>2. ~FirstProcess(act) => apn[cur_term] \in Pids
    BY DEF FirstProcess, TypeOK
  <1>3. cpu' \in Contexts
    BY <1>1, ConstantFacts DEF TypeOK, Contexts, ContextRecords
  <1>4. /\ active' \in [Terms -> {0, 1}]
        /\ \A t \in Terms : active'[t] = 1 => apn'[t] # NONE
    <2>1. CASE FirstProcess(act)
      BY <1>1, <2>1, ConstantFacts DEF TypeOK
    <2>2. CASE ~FirstProcess(act)
      BY <1>1, <2>2, ConstantFacts DEF TypeOK
    <2> QED BY <2>1, <2>2
  <1>5. parent_process_number' \in [Pids -> Pids]
    BY <1>1, <1>2 DEF TypeOK
  <1>6. /\ cur_active_terminal' \in Terms /\ cur_term' \in Terms
        /\ pid_array' \in [Pids -> {0, 1}]
        /\ parent_ksp' \in [Pids -> Contexts] /\ esp' \in [Pids -> Contexts]
        /\ term' \in [Pids -> Terms \cup {NONE}]
        /\ apn' \in [Terms -> Pids \cup {NONE}]
        /\ page128' \in Pids \cup {NONE} /\ esp0' \in Pids \cup {NONE}
        /\ page136' \in Terms \cup {NONE, VIDEO}
    BY <1>1 DEF TypeOK
  <1> QED BY <1>3, <1>4, <1>5, <1>6 DEF TypeOK

\* Every action keeps the types, with whatever windows are open.
LEMMA TypeOKStep == TypeOK /\ [Next]_vars => TypeOK'
  <1> SUFFICES ASSUME TypeOK, [Next]_vars PROVE TypeOK'
    OBVIOUS
  <1> USE DEF TypeOK
  <1>0. Stopped \in Contexts
    BY ConstantFacts DEF Stopped, Contexts, ContextRecords
  <1>1. ASSUME PageFault PROVE TypeOK'
    BY <1>0, <1>1 DEF PageFault, pcbVars, termVars
  <1>2. CASE PIT_scheduling
    <2>1. PICK d \in 1 .. MAX_TERM - 1 :
             process_contextswitch(apn[Probe(d)], Probe(d))
      BY <1>2 DEF PIT_scheduling
    <2> DEFINE next == apn[Probe(d)]
               old == apn[cur_active_terminal]
    <2>2. Probe(d) \in Terms
      BY ProbeType
    <2>3. CASE next = NONE \/ old = NONE
      BY <1>1, <2>1, <2>3 DEF process_contextswitch
    <2>4. CASE ~(next = NONE \/ old = NONE)
      <3>1. next \in Pids /\ old \in Pids
        BY <2>2, <2>4
      <3>2. /\ esp' = [esp EXCEPT ![old] = cpu]
            /\ cur_active_terminal' = Probe(d)
            /\ page128' = next /\ esp0' = next
            /\ page136' = IF term[next] # cur_term THEN term[next] ELSE VIDEO
            /\ cpu' = Resume(esp'[next], esp0')
            /\ UNCHANGED <<pid_array, parent_process_number, term, parent_ksp,
                           active, apn, cur_term>>
        BY <2>1, <2>4 DEF process_contextswitch, page_remap, ScreenPage,
           SetEsp0, SaveEsp, pcbVars, termVars
      <3>3. esp' \in [Pids -> Contexts]
        BY <3>1, <3>2
      <3>4. cpu' \in Contexts
        BY <3>1, <3>2, <3>3, ResumeType
      <3> QED BY <2>2, <3>1, <3>2, <3>3, <3>4
    <2> QED BY <2>3, <2>4
  <1>3. CASE sys_execute
    BY <1>3, ExecuteType DEF sys_execute
  <1>4. CASE execute_iret
    <2>1. cpu' \in Contexts
      BY <1>4 DEF execute_iret, Contexts, ContextRecords
    <2> QED BY <1>4, <2>1 DEF execute_iret, pcbVars, termVars
  <1>5. CASE halt_root
    <2> DEFINE cur == apn[cur_active_terminal]
               back == [cpu EXCEPT !.at = "unwind", !.of = cur]
    <2>1. cur \in Pids
      BY <1>5 DEF halt_root
    <2>2. back \in Contexts
      BY <2>1, ConstantFacts DEF Contexts, ContextRecords
    <2>3. execute([pid_array EXCEPT ![cur] = 0],
                  [active EXCEPT ![cur_active_terminal] = 0], apn, back)
      BY <1>5 DEF halt_root
    <2>4. /\ [pid_array EXCEPT ![cur] = 0] \in [Pids -> {0, 1}]
          /\ [active EXCEPT ![cur_active_terminal] = 0] \in [Terms -> {0, 1}]
          /\ \A t \in Terms :
                [active EXCEPT ![cur_active_terminal] = 0][t] = 1 => active[t] = 1
      BY <2>1
    <2> HIDE DEF back, TypeOK
    <2> QED BY <2>2, <2>3, <2>4, ExecuteType
  <1>6. CASE halt_child
    <2> DEFINE cur == apn[cur_active_terminal]
    <2>1. cur \in Pids
      BY <1>6 DEF halt_child
    <2>2. cpu' \in Contexts
      BY <1>6, <2>1, ConstantFacts DEF halt_child, Contexts, ContextRecords
    <2>3. parent_ksp[cur].stk \in Pids \cup {NONE}
      BY <2>1 DEF Contexts, ContextRecords
    <2> QED BY <1>6, <2>1, <2>2, <2>3, ConstantFacts
           DEF halt_child, page_remap, SetEsp0, pcbVars
  <1>7. CASE halt_return
    <2> DEFINE back == parent_ksp[cpu.of]
               unwound == back.at = "unwind" /\ back.nested = 0
    <2>1. cpu.of \in Pids /\ back \in Contexts
      BY <1>7 DEF halt_return, Contexts, ContextRecords
    <2>2. CASE unwound
      <3>1. back.of \in Pids
        BY <2>1, <2>2 DEF Contexts, ContextRecords
      <3>2. parent_ksp[back.of].stk \in Pids \cup {NONE}
        BY <3>1 DEF Contexts, ContextRecords
      <3>3. cpu' \in Contexts
        BY <1>7, <2>1, <2>2, <3>1, ConstantFacts
           DEF halt_return, Contexts, ContextRecords
      <3> QED BY <1>7, <2>2, <3>1, <3>2, <3>3
             DEF halt_return, page_remap, SetEsp0, pcbVars, termVars
    <2>3. CASE ~unwound
      <3>1. cpu' \in Contexts
        BY <1>7, <2>1, <2>3, ResumeType DEF halt_return
      <3> QED BY <1>7, <2>3, <3>1
             DEF halt_return, page_remap, SetEsp0, pcbVars, termVars
    <2> QED BY <2>2, <2>3
  <1>8. CASE vidmap
    BY <1>8 DEF vidmap, pcbVars, termVars
  <1>9. CASE exception
    <2>1. cpu' \in Contexts
      BY <1>9, ConstantFacts DEF exception, Stopped, Contexts, ContextRecords
    <2> QED BY <1>9, <2>1 DEF exception, pcbVars, termVars
  <1>10. ASSUME NEW t \in Terms, switch_terminal(t) PROVE TypeOK'
    <2> DEFINE old == apn[cur_active_terminal]
    <2>1. CASE switch_to_active(t)
      BY <2>1 DEF switch_to_active, ScreenPage, pcbVars, termVars
    <2>2. CASE switch_to_inactive(t) /\ old = NONE
      BY <1>1, <2>2 DEF switch_to_inactive
    <2>3. CASE switch_to_inactive(t) /\ old # NONE
      <3>1. cpu' \in Contexts
        BY <2>3, ConstantFacts DEF switch_to_inactive, Contexts, ContextRecords
      <3> QED BY <2>3, <3>1 DEF switch_to_inactive, SaveEsp, pcbVars, termVars
    <2> QED BY <1>10, <2>1, <2>2, <2>3 DEF switch_terminal
  <1>11. CASE launch_shell
    <2> DEFINE back == [cpu EXCEPT !.nested = @ - 1]
    <2>1. back \in Contexts
      BY <1>11, ConstantFacts DEF launch_shell, Contexts, ContextRecords
    <2>2. CASE execute(pid_array, active, apn, back)
      BY <2>1, <2>2, ExecuteType
    <2>3. CASE /\ cpu' = Resume(back, esp0)
               /\ UNCHANGED <<pid_array, pcbVars, esp, termVars, cur_term,
                              cur_active_terminal, page128, page136, esp0>>
      BY <2>1, <2>3, ResumeType DEF pcbVars, termVars
    <2> QED BY <1>11, <2>2, <2>3 DEF launch_shell
  <1>12. CASE key_enter
    BY <1>1, <1>12 DEF key_enter, vars, pcbVars, termVars
  <1>13. CASE stop \/ UNCHANGED vars
    BY <1>13 DEF stop, vars, pcbVars, termVars
  <1> QED BY <1>2, <1>3, <1>4, <1>5, <1>6, <1>7, <1>8, <1>9, <1>10, <1>11, <1>12,
             <1>13
         DEF Next

\* The kernel starts with tables of the right type.
LEMMA TypeOKInit == Init => TypeOK
  BY ConstantFacts DEF Init, TypeOK, Stopped, Contexts, ContextRecords

\* Types are invariant whatever windows are open: in particular no terminal
\* marked active is ever without a process number, and no context that is
\* inside execute or halt ever lacks the process it is about.
THEOREM TypeCorrect == Spec => []TypeOK
  BY TypeOKInit, TypeOKStep, PTL DEF Spec

-----------------------------------------------------------------------------
\* execute takes no terminal out of use.
LEMMA ExecuteKeepsActive ==
    ASSUME NEW pids, NEW act \in [Terms -> {0, 1}], NEW ap, NEW back,
           cur_term \in Terms, execute(pids, act, ap, back)
    PROVE  /\ \A t \in Terms : act[t] = 1 => active'[t] = 1
           /\ active'[cur_term] = 1
  BY DEF execute, FirstProcess

\* One step keeps every shell, unless the first shell of a terminal that is
\* not displayed exits.
LEMMA ActiveStep ==
    ASSUME "background" \notin Windows, TypeOK, [Next]_vars,
           NEW t \in Terms, active[t] = 1
    PROVE  active'[t] = 1
  <1>1. CASE PIT_scheduling
    BY <1>1 DEF PIT_scheduling, process_contextswitch, PageFault, termVars
  <1>2. CASE sys_execute
    BY <1>2, ExecuteKeepsActive DEF sys_execute, TypeOK
  <1>3. CASE halt_root
    <2> DEFINE act == [active EXCEPT ![cur_active_terminal] = 0]
    <2>1. cur_term = cur_active_terminal
      BY <1>3 DEF halt_root, Foreground
    <2>2. PICK pids, back : execute(pids, act, apn, back)
      BY <1>3 DEF halt_root
    <2>3. act \in [Terms -> {0, 1}] /\ cur_term \in Terms
      BY DEF TypeOK
    <2>4. t # cur_term => act[t] = 1
      BY <2>1 DEF TypeOK
    <2> HIDE DEF act
    <2> QED BY <2>2, <2>3, <2>4, ExecuteKeepsActive
  <1>4. CASE launch_shell
    <2>1. CASE UNCHANGED termVars
      BY <2>1 DEF termVars
    <2>2. CASE \E back : execute(pid_array, active, apn, back)
      BY <2>2, ExecuteKeepsActive DEF TypeOK
    <2> QED BY <1>4, <2>1, <2>2 DEF launch_shell
  <1>5. ASSUME NEW u \in Terms, switch_terminal(u) PROVE UNCHANGED active
    BY <1>5 DEF switch_terminal, switch_to_active, switch_to_inactive, PageFault,
       termVars
  <1>6. CASE \/ execute_iret \/ halt_child \/ halt_return \/ vidmap \/ exception
             \/ key_enter \/ stop \/ UNCHANGED vars
    BY <1>6 DEF execute_iret, halt_child, halt_return, vidmap, exception, key_enter,
       PageFault, stop, vars, termVars
  <1> QED BY <1>1, <1>2, <1>3, <1>4, <1>5, <1>6 DEF Next

\* "Reopen SHELL if it is the last active process that we are halting" works
\* out, whichever windows of the interrupts are open, as long as only the
\* displayed terminal's first shell exits: no terminal ever loses its shell.
THEOREM ShellsStay ==
    ASSUME "background" \notin Windows
    PROVE  Spec => TerminalsStayActive
  <1>1. TypeOK /\ [Next]_vars =>
           [\A t \in Terms : active[t] = 1 => active'[t] = 1]_vars
    BY ActiveStep
  <1> QED BY <1>1, TypeCorrect, PTL DEF Spec, TerminalsStayActive

-----------------------------------------------------------------------------
(***************************************************************************)
(* ProcessForest is not inductive: that a first shell which is its          *)
(* terminal's active process is the only process of the terminal needs the  *)
(* chain to have no cycle.  Forest adds the depth of each process: the      *)
(* processes of a terminal have different depths, the active one the        *)
(* greatest.  It is a predicate on tables, so that halt_root, which changes *)
(* them before it calls execute, can be treated in two steps.               *)
(***************************************************************************)
Forest(pids, par, tm, ksp, act, ap, depth) ==
    /\ \A t \in Terms : act[t] = 1 =>
          ap[t] \in Pids /\ pids[ap[t]] = 1 /\ tm[ap[t]] = t
    /\ \A p \in Pids : pids[p] = 1 =>
          /\ par[p] \in Pids /\ pids[par[p]] = 1
          /\ tm[p] \in Terms /\ tm[par[p]] = tm[p] /\ act[tm[p]] = 1
          /\ par[p] # p => ksp[p] = UserContext(par[p])
          /\ depth[p] = IF par[p] = p THEN 0 ELSE depth[par[p]] + 1
          /\ depth[p] <= depth[ap[tm[p]]]
          /\ p # ap[tm[p]] => \E c \in Pids : pids[c] = 1 /\ c # p /\ par[c] = p
    /\ \A p, q \in Pids :
          pids[p] = 1 /\ pids[q] = 1 /\ tm[p] = tm[q] /\ depth[p] = depth[q] => p = q

\* The tables, as functions.
Tables(pids, par, tm, ksp, act, ap, depth) ==
    /\ pids \in [Pids -> {0, 1}] /\ par \in [Pids -> Pids]
    /\ tm \in [Pids -> Terms \cup {NONE}] /\ ksp \in [Pids -> Contexts]
    /\ act \in [Terms -> {0, 1}] /\ ap \in [Terms -> Pids \cup {NONE}]
    /\ depth \in [Pids -> Nat]

\* execute of a first shell: a free process becomes the chain of a terminal
\* that has none.
LEMMA ForestFirst ==
    ASSUME NEW pids, NEW par, NEW tm, NEW ksp, NEW act, NEW ap, NEW depth,
           Tables(pids, par, tm, ksp, act, ap, depth),
           Forest(pids, par, tm, ksp, act, ap, depth),
           NEW n \in Pids, pids[n] = 0, NEW u \in Terms, act[u] = 0, NEW back
    PROVE  Forest([pids EXCEPT ![n] = 1], [par EXCEPT ![n] = n],
                  [tm EXCEPT ![n] = u], [ksp EXCEPT ![n] = back],
                  [act EXCEPT ![u] = 1], [ap EXCEPT ![u] = n],
                  [depth EXCEPT ![n] = 0])
  BY DEF Forest, Tables

\* execute by the active process of a terminal: the chain grows by one.
LEMMA ForestCall ==
    ASSUME NEW pids, NEW par, NEW tm, NEW ksp, NEW act, NEW ap, NEW depth,
           Tables(pids, par, tm, ksp, act, ap, depth),
           Forest(pids, par, tm, ksp, act, ap, depth),
           NEW n \in Pids, pids[n] = 0, NEW u \in Terms, act[u] = 1
    PROVE  Forest([pids EXCEPT ![n] = 1], [par EXCEPT ![n] = ap[u]],
                  [tm EXCEPT ![n] = u], [ksp EXCEPT ![n] = UserContext(ap[u])],
                  act, [ap EXCEPT ![u] = n],
                  [depth EXCEPT ![n] = depth[ap[u]] + 1])
  BY DEF Forest, Tables

\* halt of a process with a parent: the chain shrinks by one.
LEMMA ForestReturn ==
    ASSUME NEW pids, NEW par, NEW tm, NEW ksp, NEW act, NEW ap, NEW depth,
           Tables(pids, par, tm, ksp, act, ap, depth),
           Forest(pids, par, tm, ksp, act, ap, depth),
           NEW u \in Terms, act[u] = 1, par[ap[u]] # ap[u]
    PROVE  Forest([pids EXCEPT ![ap[u]] = 0], par, tm, ksp, act,
                  [ap EXCEPT ![u] = par[ap[u]]], depth)
  BY DEF Forest, Tables

\* halt of a first shell: it was the only process of its terminal.
LEMMA ForestExit ==
    ASSUME NEW pids, NEW par, NEW tm, NEW ksp, NEW act, NEW ap, NEW depth,
           Tables(pids, par, tm, ksp, act, ap, depth),
           Forest(pids, par, tm, ksp, act, ap, depth),
           NEW u \in Terms, act[u] = 1, par[ap[u]] = ap[u]
    PROVE  Forest([pids EXCEPT ![ap[u]] = 0], par, tm, ksp,
                  [act EXCEPT ![u] = 0], ap, depth)
  BY DEF Forest, Tables

\* The chains of the kernel's own tables.
KernelForest(depth) ==
    Forest(pid_array, parent_process_number, term, parent_ksp, active, apn, depth)

\* The inductive invariant.
IInv ==
    /\ TypeOK
    /\ \E depth \in [Pids -> Nat] : KernelForest(depth)
    /\ Booting \/ Running

\* The types of the tables that the lemmas on forests take as arguments.
LEMMA TablesType ==
    ASSUME TypeOK, NEW depth \in [Pids -> Nat]
    PROVE  Tables(pid_array, parent_process_number, term, parent_ksp, active, apn,
                  depth)
  BY DEF TypeOK, Tables

\* Depth makes the chains what ProcessForest says they are.
LEMMA ForestSuffices == IInv => ProcessForest
  <1> SUFFICES ASSUME IInv PROVE ProcessForest
    OBVIOUS
  <1>1. PICK depth \in [Pids -> Nat] : KernelForest(depth)
    BY DEF IInv
  <1> USE DEF Allocated, IsChild
  <1>2. ASSUME NEW t \in Terms, active[t] = 1
        PROVE  /\ apn[t] # NONE /\ Allocated(apn[t]) /\ term[apn[t]] = t
               /\ \A c \in Pids : ~IsChild(c, apn[t])
    <2>1. apn[t] \in Pids /\ Allocated(apn[t]) /\ term[apn[t]] = t
      BY <1>1, <1>2 DEF KernelForest, Forest
    <2>2. ASSUME NEW c \in Pids, IsChild(c, apn[t]) PROVE FALSE
      <3>1. /\ term[c] = t /\ depth[c] = depth[apn[t]] + 1
            /\ depth[c] <= depth[apn[term[c]]]
        BY <1>1, <2>1, <2>2 DEF KernelForest, Forest
      <3> QED BY <2>1, <3>1
    <2> QED BY <2>1, <2>2, ConstantFacts
  <1>3. ASSUME NEW p \in Pids, Allocated(p)
        PROVE  LET q == parent_process_number[p] IN
               /\ Allocated(q)
               /\ term[p] \in Terms /\ term[q] = term[p]
               /\ active[term[p]] = 1
               /\ q # p => parent_ksp[p] = UserContext(q)
    BY <1>1, <1>3 DEF KernelForest, Forest
  <1>4. ASSUME NEW p \in Pids, Allocated(p), p # apn[term[p]]
        PROVE  \E c \in Pids : IsChild(c, p) /\ \A d \in Pids : IsChild(d, p) => d = c
    <2>1. PICK c \in Pids : IsChild(c, p)
      BY <1>1, <1>4 DEF KernelForest, Forest
    <2>2. ASSUME NEW d \in Pids, IsChild(d, p) PROVE d = c
      <3>1. /\ term[d] = term[c]
            /\ depth[d] = depth[p] + 1 /\ depth[c] = depth[p] + 1
        BY <1>1, <1>4, <2>1, <2>2 DEF KernelForest, Forest
      <3> QED BY <1>1, <2>1, <2>2, <3>1 DEF KernelForest, Forest
    <2> QED BY <2>1, <2>2
  <1> HIDE DEF Allocated, IsChild
  <1> QED BY <1>2, <1>3, <1>4 DEF ProcessForest

\* What IInv says of a kernel that has booted: the executing terminal and the
\* suspended ones have allocated active processes, all different.
LEMMA ActiveProcesses ==
    ASSUME IInv, Running
    PROVE  /\ apn[cur_active_terminal] \in Pids
           /\ Allocated(apn[cur_active_terminal])
           /\ cur_active_terminal \in Terms /\ cur_term \in Terms
           /\ active[cur_active_terminal] = 1
           /\ \A t \in SuspendedTerms :
                 /\ t \in Terms /\ apn[t] \in Pids /\ Allocated(apn[t])
                 /\ apn[t] # apn[cur_active_terminal]
  <1>1. PICK depth \in [Pids -> Nat] : KernelForest(depth)
    BY DEF IInv
  <1> QED BY <1>1
         DEF IInv, Running, FlowInv, TypeOK, KernelForest, Forest, Allocated,
             SuspendedTerms

\* With the windows closed, an interrupt finds a program running, or one that
\* its parent is about to enter.
LEMMA InterruptedFlow ==
    ASSUME Windows = {}, IInv, Interruptible
    PROVE  /\ Running
           /\ cpu.nested = 0
           /\ page128 = apn[cur_active_terminal] /\ esp0 = apn[cur_active_terminal]
           /\ cpu.of = apn[cur_active_terminal]
           /\ \/ cpu.at = "user" /\ cpu.stk = apn[cur_active_terminal]
              \/ /\ cpu.at = "iret"
                 /\ parent_process_number[cpu.of] # cpu.of
                 /\ cpu.stk = parent_process_number[cpu.of]
  <1>1. cpu.nested = 0 /\ cpu.at \in {"user", "iret"}
    BY DEF Interruptible, InUser
  <1>2. Running
    BY <1>1 DEF IInv, Booting
  <1> QED BY <1>1, <1>2 DEF Running, FlowInv, Interruptible, InUser

\* The terminals are probed in a circle: the last resort of the loop is never
\* taken while terminal 0 is active.
LEMMA NextIsActive ==
    ASSUME TypeOK, active[0] = 1, NEW d \in 1 .. MAX_TERM - 1,
           NEW u \in Terms \ {0}, active[u] = 1,
           get_next_scheduled(d)
    PROVE  active[Probe(d)] = 1
  <1> DEFINE c == cur_active_terminal
  <1>0. c \in Nat /\ c < MAX_TERM /\ d \in Nat /\ d >= 1 /\ d < MAX_TERM
        /\ u \in Nat /\ u >= 1 /\ u < MAX_TERM /\ MAX_TERM \in Nat
    BY ConstantFacts DEF TypeOK, Terms
  <1>1. CASE c = 0
    <2>1. \A x \in Nat : x < MAX_TERM => x % MAX_TERM = x
      BY <1>0
    <2>2. Probe(u) = u /\ Probe(d) = d
      BY <1>0, <1>1, <2>1 DEF Probe
    <2> QED BY <1>0, <2>2 DEF get_next_scheduled
  <1>2. CASE c # 0
    <2>1. MAX_TERM % MAX_TERM = 0
      BY <1>0
    <2>2. MAX_TERM - c \in 1 .. MAX_TERM - 1 /\ Probe(MAX_TERM - c) = 0
      BY <1>0, <1>2, <2>1 DEF Probe
    <2> QED BY <1>0, <2>2 DEF get_next_scheduled
  <1> QED BY <1>1, <1>2

\* execute of a first shell, from tables in which the displayed terminal has
\* no process and every terminal in use has a saved flow.
LEMMA ExecuteFirst ==
    ASSUME TypeOK, TypeOK',
           NEW pids, NEW act, NEW depth, NEW back,
           Tables(pids, parent_process_number, term, parent_ksp, act, apn, depth),
           Forest(pids, parent_process_number, term, parent_ksp, act, apn, depth),
           act[cur_term] = 0, act[0] = 1 \/ cur_term = 0,
           \A t \in Terms : act[t] = 1 => SavedFlow(t),
           execute(pids, act, apn, back)
    PROVE  IInv' /\ Running'
  <1>1. PICK n \in Pids :
           /\ pids[n] = 0
           /\ pid_array' = [pids EXCEPT ![n] = 1]
           /\ parent_ksp' = [parent_ksp EXCEPT ![n] = back]
           /\ page128' = n
           /\ parent_process_number' = [parent_process_number EXCEPT ![n] = n]
           /\ cur_active_terminal' = cur_term
           /\ active' = [act EXCEPT ![cur_term] = 1]
           /\ term' = [term EXCEPT ![n] = cur_term]
           /\ apn' = [apn EXCEPT ![cur_term] = n]
           /\ esp0' = n
           /\ cpu' = [stk |-> cpu.stk, at |-> "iret", of |-> n, nested |-> 0]
           /\ UNCHANGED <<esp, cur_term>>
    BY DEF execute, page_remap, SetEsp0, FirstProcess, get_proc_num
  <1>2. cur_term \in Terms /\ apn \in [Terms -> Pids \cup {NONE}]
        /\ parent_process_number \in [Pids -> Pids] /\ act \in [Terms -> {0, 1}]
    BY DEF TypeOK, Tables
  <1>3. \E dp \in [Pids -> Nat] : KernelForest(dp)'
    <2> DEFINE dp == [depth EXCEPT ![n] = 0]
    <2>1. dp \in [Pids -> Nat]
      BY DEF Tables
    <2>2. Forest(pid_array', parent_process_number', term', parent_ksp', active',
                 apn', dp)
      BY <1>1, <1>2, ForestFirst
    <2> HIDE DEF dp
    <2> QED BY <2>1, <2>2 DEF KernelForest, Forest, UserContext
  <1>4. FlowInv'
    BY <1>1, <1>2, ConstantFacts DEF FlowInv
  <1>5. LaunchInv'
    BY <1>1 DEF LaunchInv
  <1>6. ASSUME NEW t \in SuspendedTerms' PROVE SavedFlow(t)'
    <2>1. t \in Terms /\ t # cur_term /\ act[t] = 1
      BY <1>1, <1>2, <1>6 DEF SuspendedTerms
    <2>2. apn[t] \in Pids /\ pids[apn[t]] = 1 /\ apn'[t] = apn[t]
      BY <1>1, <1>2, <2>1 DEF Forest
    <2>3. parent_process_number'[apn[t]] = parent_process_number[apn[t]]
      BY <1>1, <1>2, <2>2
    <2> QED BY <1>1, <2>1, <2>2, <2>3 DEF SavedFlow
  <1> QED BY <1>3, <1>4, <1>5, <1>6 DEF IInv, Running

\* A flow that was interrupted is saved as SavedFlow wants it.
LEMMA LaunchSaved ==
    ASSUME TypeOK, Running, cpu.nested > 0
    PROVE  SavedFlow(cur_active_terminal)
  <1> DEFINE e == esp[apn[cur_active_terminal]]
  <1>1. cpu \in ContextRecords
    BY DEF TypeOK, Contexts
  <1>2. e.at = cpu.at /\ e.of = cpu.of /\ e.stk = cpu.stk /\ e.nested = 0
    BY <1>1 DEF Running, LaunchInv, ContextRecords
  <1> QED BY <1>1, <1>2 DEF Running, FlowInv, SavedFlow, ContextRecords

\* The pending execute("shell"), at boot or inside switch_terminal.
LEMMA LaunchStep ==
    ASSUME IInv, TypeOK', launch_shell PROVE IInv'
  <1> DEFINE back == [cpu EXCEPT !.nested = @ - 1]
  <1>1. PICK depth \in [Pids -> Nat] : KernelForest(depth)
    BY DEF IInv
  <1>2. /\ Forest(pid_array, parent_process_number, term, parent_ksp, active, apn,
                  depth)
        /\ Tables(pid_array, parent_process_number, term, parent_ksp, active, apn,
                  depth)
    BY <1>1, TablesType DEF KernelForest, IInv
  <1>3. CASE execute(pid_array, active, apn, back)
    <2>1. TypeOK /\ cpu.nested > 0
      BY DEF IInv, launch_shell
    <2>2. CASE Booting
      <3>1. /\ active[cur_term] = 0 /\ cur_term = 0
            /\ \A t \in Terms : active[t] = 1 => SavedFlow(t)
        BY <2>1, <2>2 DEF Booting, TypeOK
      <3> HIDE DEF back
      <3> QED BY <1>2, <1>3, <2>1, <3>1, ExecuteFirst
    <2>3. CASE Running
      <3>1. active[cur_term] = 0 /\ active[0] = 1
        BY <2>1, <2>3 DEF Running, LaunchInv, FlowInv
      <3>2. \A t \in Terms : active[t] = 1 => SavedFlow(t)
        BY <2>1, <2>3, LaunchSaved DEF Running, SuspendedTerms
      <3> HIDE DEF back
      <3> QED BY <1>2, <1>3, <2>1, <3>1, <3>2, ExecuteFirst
    <2> QED BY <2>2, <2>3 DEF IInv
  <1>4. CASE /\ NoProcNum(pid_array)
             /\ cpu' = Resume(back, esp0)
             /\ UNCHANGED <<pid_array, pcbVars, esp, termVars, cur_term,
                            cur_active_terminal, page128, page136, esp0>>
    <2>1. ~Booting
      BY <1>4, ConstantFacts DEF Booting, Allocated, NoProcNum
    <2>2. Running
      BY <2>1 DEF IInv
    <2>3. cpu.nested = 1 /\ cpu.at \in {"user", "iret"} /\ cpu \in ContextRecords
      BY <2>2 DEF Running, LaunchInv, FlowInv, launch_shell, IInv, TypeOK, Contexts
    <2>4. cpu.at = "user" => cpu.stk = esp0
      BY <2>2 DEF Running, FlowInv
    <2>5. /\ cpu'.at = cpu.at /\ cpu'.of = cpu.of /\ cpu'.stk = cpu.stk
          /\ cpu'.nested = 0
      <3>1. back.at = cpu.at /\ back.of = cpu.of /\ back.stk = cpu.stk
            /\ back.nested = 0 /\ back \in ContextRecords
        BY <2>3, ConstantFacts DEF ContextRecords
      <3> HIDE DEF back
      <3> QED BY <1>4, <2>3, <2>4, <3>1 DEF Resume, ContextRecords
    <2>6. FlowInv'
      BY <1>4, <2>2, <2>3, <2>5 DEF Running, FlowInv, pcbVars, termVars
    <2>7. LaunchInv'
      BY <2>5 DEF LaunchInv
    <2>8. \A t \in SuspendedTerms' : SavedFlow(t)'
      BY <1>4, <2>2 DEF Running, SuspendedTerms, SavedFlow, pcbVars, termVars
    <2>9. KernelForest(depth)'
      BY <1>1, <1>4 DEF KernelForest, pcbVars, termVars
    <2> QED BY <2>6, <2>7, <2>8, <2>9 DEF IInv, Running
  <1> QED BY <1>3, <1>4 DEF launch_shell

\* A program that runs is the active process of the executing terminal.
LEMMA UserFlow ==
    ASSUME IInv, InUser
    PROVE  /\ Running
           /\ cpu = UserContext(apn[cur_active_terminal])
           /\ page128 = apn[cur_active_terminal] /\ esp0 = apn[cur_active_terminal]
  <1>1. Running
    BY DEF IInv, Booting, InUser
  <1>2. cpu \in ContextRecords
    BY DEF IInv, TypeOK, Contexts
  <1>3. /\ cpu.at = "user" /\ cpu.nested = 0
        /\ cpu.stk = apn[cur_active_terminal] /\ cpu.of = apn[cur_active_terminal]
        /\ page128 = apn[cur_active_terminal] /\ esp0 = apn[cur_active_terminal]
    BY <1>1 DEF Running, FlowInv, InUser
  <1>4. cpu = UserContext(apn[cur_active_terminal])
    BY <1>2, <1>3 DEF UserContext, ContextRecords
  <1> QED BY <1>1, <1>3, <1>4

\* The system call execute.
LEMMA CallStep ==
    ASSUME Windows = {}, IInv, TypeOK', sys_execute PROVE IInv'
  <1> DEFINE u == cur_term
             p == apn[u]
  <1>1. PICK depth \in [Pids -> Nat] : KernelForest(depth)
    BY DEF IInv
  <1>2. /\ cur_term = cur_active_terminal /\ Running /\ cpu = UserContext(p)
        /\ execute(pid_array, active, apn, UserContext(p))
    BY UserFlow DEF sys_execute, Foreground
  <1>3. /\ u \in Terms /\ active[u] = 1 /\ p \in Pids /\ Allocated(p)
        /\ active[0] = 1
    BY <1>2, ActiveProcesses DEF Running, FlowInv
  <1>4. PICK n \in Pids :
           /\ pid_array[n] = 0
           /\ pid_array' = [pid_array EXCEPT ![n] = 1]
           /\ parent_ksp' = [parent_ksp EXCEPT ![n] = UserContext(p)]
           /\ page128' = n
           /\ parent_process_number' = [parent_process_number EXCEPT ![n] = p]
           /\ cur_active_terminal' = cur_active_terminal
           /\ active' = active
           /\ term' = [term EXCEPT ![n] = u]
           /\ apn' = [apn EXCEPT ![u] = n]
           /\ esp0' = n
           /\ cpu' = [stk |-> cpu.stk, at |-> "iret", of |-> n, nested |-> 0]
           /\ UNCHANGED <<esp, cur_term>>
    <2>1. ~FirstProcess(active)
      BY <1>3 DEF FirstProcess
    <2> QED BY <1>2, <2>1 DEF execute, page_remap, SetEsp0, get_proc_num
  <1>5. n # p
    BY <1>3, <1>4 DEF Allocated
  <1>6. /\ parent_process_number \in [Pids -> Pids]
        /\ apn \in [Terms -> Pids \cup {NONE}]
        /\ parent_process_number'[n] = p /\ apn'[u] = n
    BY <1>3, <1>4 DEF IInv, TypeOK
  <1>7. \E dp \in [Pids -> Nat] : KernelForest(dp)'
    <2> DEFINE dp == [depth EXCEPT ![n] = depth[p] + 1]
    <2>1. dp \in [Pids -> Nat]
      BY <1>3
    <2>2. Tables(pid_array, parent_process_number, term, parent_ksp, active, apn,
                 depth)
      BY TablesType DEF IInv
    <2>3. Forest(pid_array', parent_process_number', term', parent_ksp', active',
                 apn', dp)
      BY <1>1, <1>3, <1>4, <2>2, ForestCall DEF KernelForest
    <2> HIDE DEF dp
    <2> QED BY <2>1, <2>3 DEF KernelForest, Forest, UserContext
  <1>8. FlowInv'
    BY <1>2, <1>3, <1>4, <1>5, <1>6 DEF FlowInv, UserContext
  <1>9. LaunchInv'
    BY <1>4 DEF LaunchInv
  <1>10. ASSUME NEW t \in SuspendedTerms' PROVE SavedFlow(t)'
    <2>1. t \in SuspendedTerms
      BY <1>4, <1>10 DEF SuspendedTerms
    <2>2. apn[t] \in Pids /\ apn[t] # n /\ apn'[t] = apn[t] /\ SavedFlow(t)
      BY <1>2, <1>4, <1>6, <2>1, ActiveProcesses
         DEF Running, Allocated, SuspendedTerms
    <2> QED BY <1>4, <1>6, <2>2 DEF SavedFlow
  <1> QED BY <1>7, <1>8, <1>9, <1>10 DEF IInv, Running

\* execute has been entered: the process runs.
LEMMA IretStep ==
    ASSUME IInv, TypeOK', execute_iret PROVE IInv'
  <1>1. Running
    BY DEF IInv, Booting, execute_iret
  <1>2. cpu \in ContextRecords
    BY DEF IInv, TypeOK, Contexts
  <1>3. /\ cpu'.at = "user" /\ cpu'.of = cpu.of /\ cpu'.stk = esp0
        /\ cpu'.nested = 0
    BY <1>2 DEF execute_iret, ContextRecords
  <1>4. FlowInv'
    BY <1>1, <1>3 DEF Running, FlowInv, execute_iret, pcbVars, termVars
  <1>5. LaunchInv'
    BY <1>3 DEF LaunchInv
  <1>6. \A t \in SuspendedTerms' : SavedFlow(t)'
    BY <1>1 DEF Running, SuspendedTerms, SavedFlow, execute_iret, pcbVars, termVars
  <1>7. \A depth : KernelForest(depth)' = KernelForest(depth)
    BY DEF KernelForest, execute_iret, pcbVars, termVars
  <1> QED BY <1>4, <1>5, <1>6, <1>7 DEF IInv, Running

\* halt of a first shell, which is replaced.
LEMMA ExitStep ==
    ASSUME Windows = {}, IInv, TypeOK', halt_root PROVE IInv'
  <1> DEFINE u == cur_active_terminal
             cur == apn[u]
             pids == [pid_array EXCEPT ![cur] = 0]
             act == [active EXCEPT ![u] = 0]
             back == [cpu EXCEPT !.at = "unwind", !.of = cur]
  <1>1. PICK depth \in [Pids -> Nat] : KernelForest(depth)
    BY DEF IInv
  <1>2. /\ cur_term = u /\ Running
        /\ parent_process_number[cur] = cur
        /\ execute(pids, act, apn, back)
    BY UserFlow DEF halt_root, Foreground
  <1>3. /\ u \in Terms /\ active[u] = 1 /\ cur \in Pids /\ active[0] = 1
    BY <1>2, ActiveProcesses DEF Running, FlowInv
  <1>4. TypeOK /\ Tables(pid_array, parent_process_number, term, parent_ksp, active,
                         apn, depth)
    BY TablesType DEF IInv
  <1>5. Tables(pids, parent_process_number, term, parent_ksp, act, apn, depth)
    BY <1>3, <1>4 DEF Tables
  <1>6. Forest(pids, parent_process_number, term, parent_ksp, act, apn, depth)
    BY <1>1, <1>2, <1>3, <1>4, ForestExit DEF KernelForest
  <1>7. act[cur_term] = 0 /\ (act[0] = 1 \/ cur_term = 0)
    BY <1>2, <1>3, <1>4, ConstantFacts DEF TypeOK
  <1>8. \A t \in Terms : act[t] = 1 => SavedFlow(t)
    BY <1>2, <1>3, <1>4 DEF Running, SuspendedTerms, TypeOK
  <1> HIDE DEF pids, act, back
  <1> QED BY <1>2, <1>4, <1>5, <1>6, <1>7, <1>8, ExecuteFirst

\* halt of a process with a parent, up to its sti.
LEMMA ReturnStep ==
    ASSUME IInv, TypeOK', halt_child PROVE IInv'
  <1> DEFINE u == cur_active_terminal
             cur == apn[u]
             q == parent_process_number[cur]
  <1>1. PICK depth \in [Pids -> Nat] : KernelForest(depth)
    BY DEF IInv
  <1>2. /\ Running /\ cpu = UserContext(cur) /\ q # cur
    BY UserFlow DEF halt_child
  <1>3. /\ u \in Terms /\ active[u] = 1 /\ cur \in Pids /\ Allocated(cur)
        /\ active[0] = 1
    BY <1>2, ActiveProcesses DEF Running, FlowInv
  <1>4. q \in Pids /\ parent_ksp[cur] = UserContext(q)
    BY <1>1, <1>2, <1>3 DEF KernelForest, Forest, Allocated
  <1>5. /\ pid_array' = [pid_array EXCEPT ![cur] = 0]
        /\ apn' = [apn EXCEPT ![u] = q]
        /\ page128' = q
        /\ esp0' = q
        /\ cpu'.at = "halt" /\ cpu'.of = cur /\ cpu'.nested = 0
        /\ UNCHANGED <<parent_process_number, term, parent_ksp, esp, active,
                       cur_term, cur_active_terminal>>
    <2>1. parent_ksp[cur].stk = q
      BY <1>4 DEF UserContext
    <2>2. cpu'.at = "halt" /\ cpu'.of = cur /\ cpu'.nested = 0
      BY <1>2 DEF halt_child, UserContext
    <2> QED BY <2>1, <2>2 DEF halt_child, page_remap, SetEsp0, pcbVars
  <1>6. /\ pid_array'[cur] = 0 /\ apn'[u] = q
        /\ \A t \in Terms \ {u} : apn'[t] = apn[t]
    BY <1>3, <1>5 DEF IInv, TypeOK
  <1>7. KernelForest(depth)'
    <2>1. Tables(pid_array, parent_process_number, term, parent_ksp, active, apn,
                 depth)
      BY TablesType DEF IInv
    <2>2. Forest(pid_array', parent_process_number', term', parent_ksp', active',
                 apn', depth)
      BY <1>1, <1>2, <1>3, <1>5, <2>1, ForestReturn DEF KernelForest
    <2> QED BY <2>2 DEF KernelForest, Forest, UserContext
  <1>8. FlowInv'
    BY <1>3, <1>4, <1>5, <1>6 DEF FlowInv, Allocated, UserContext
  <1>9. LaunchInv'
    BY <1>5 DEF LaunchInv
  <1>10. ASSUME NEW t \in SuspendedTerms' PROVE SavedFlow(t)'
    <2>1. t \in SuspendedTerms /\ t \in Terms \ {u}
      BY <1>5, <1>10 DEF SuspendedTerms
    <2>2. apn'[t] = apn[t] /\ SavedFlow(t)
      BY <1>2, <1>6, <2>1 DEF Running
    <2> QED BY <1>5, <2>2 DEF SavedFlow
  <1> QED BY <1>7, <1>8, <1>9, <1>10 DEF IInv, Running

\* The end of halt: the parent runs.
LEMMA ReturnedFlow ==
    ASSUME IInv, halt_return
    PROVE  /\ Running
           /\ cpu' = UserContext(apn[cur_active_terminal])
           /\ cpu'.of = parent_process_number[cpu.of]
           /\ page128' = apn[cur_active_terminal] /\ esp0' = apn[cur_active_terminal]
           /\ UNCHANGED <<pid_array, pcbVars, esp, termVars, cur_term,
                          cur_active_terminal, page136>>
  <1> DEFINE p == apn[cur_active_terminal]
  <1>1. Running
    BY DEF IInv, Booting, halt_return
  <1>2. /\ parent_ksp[cpu.of] = UserContext(p) /\ page128 = p /\ esp0 = p
        /\ parent_process_number[cpu.of] = p
    BY <1>1 DEF Running, FlowInv, halt_return
  <1>3. Resume(UserContext(p), p) = UserContext(p)
    BY DEF Resume, UserContext
  <1>4. cpu' = UserContext(p) /\ page128' = p /\ esp0' = p
    BY <1>2, <1>3 DEF halt_return, page_remap, SetEsp0, UserContext
  <1> QED BY <1>1, <1>2, <1>4 DEF halt_return, UserContext

\* The end of halt keeps the invariant: the tables are untouched and the flow
\* is the parent's, back in its program.
LEMMA HaltReturnStep ==
    ASSUME IInv, TypeOK', halt_return PROVE IInv'
  <1>1. FlowInv'
    BY ReturnedFlow DEF Running, FlowInv, UserContext, pcbVars, termVars
  <1>2. LaunchInv'
    BY ReturnedFlow DEF LaunchInv, UserContext
  <1>3. \A t \in SuspendedTerms' : SavedFlow(t)'
    BY ReturnedFlow DEF Running, SuspendedTerms, SavedFlow, pcbVars, termVars
  <1>4. \A depth : KernelForest(depth)' = KernelForest(depth)
    BY ReturnedFlow DEF KernelForest, pcbVars, termVars
  <1> QED BY <1>1, <1>2, <1>3, <1>4 DEF IInv, Running

\* The timer: the flow of the executing terminal is saved and the one of the
\* next active terminal resumed.
LEMMA TimerStep ==
    ASSUME Windows = {}, IInv, TypeOK', PIT_scheduling PROVE IInv'
  <1> DEFINE old == apn[cur_active_terminal]
  <1>1. PICK d \in 1 .. MAX_TERM - 1 :
           /\ get_next_scheduled(d)
           /\ process_contextswitch(apn[Probe(d)], Probe(d))
    BY DEF PIT_scheduling
  <1>2. /\ Running /\ cpu.nested = 0 /\ cpu.of = old /\ cpu \in Contexts
        /\ \/ cpu.at = "user" /\ cpu.stk = old
           \/ /\ cpu.at = "iret" /\ parent_process_number[old] # old
              /\ cpu.stk = parent_process_number[old]
    BY InterruptedFlow DEF PIT_scheduling, IInv, TypeOK
  <1>3. old \in Pids /\ active[0] = 1 /\ TypeOK
    BY <1>2, ActiveProcesses DEF Running, FlowInv, IInv
  <1>4. PICK v \in Terms : v = Probe(d) /\ active[v] = 1
    BY <1>1, <1>3, ProbeType, NextIsActive DEF PIT_scheduling, TypeOK
  <1> DEFINE next == apn[v]
  <1>5. next \in Pids
    BY <1>3, <1>4 DEF TypeOK
  <1>6. /\ esp' = [esp EXCEPT ![old] = cpu]
        /\ cur_active_terminal' = v
        /\ page128' = next /\ esp0' = next
        /\ cpu' = Resume(esp'[next], next)
        /\ UNCHANGED <<pid_array, parent_process_number, term, parent_ksp,
                       active, apn, cur_term>>
    BY <1>1, <1>3, <1>4, <1>5, ConstantFacts DEF process_contextswitch,
       page_remap, SetEsp0, SaveEsp, pcbVars, termVars
  <1>7. ASSUME NEW t \in Terms, active[t] = 1 PROVE SavedFlow(t)'
    <2>1. CASE apn[t] = old
      BY <1>2, <1>3, <1>6, <2>1 DEF SavedFlow, TypeOK
    <2>2. CASE apn[t] # old
      <3>1. t \in SuspendedTerms
        BY <1>7, <2>2 DEF SuspendedTerms
      <3>2. SavedFlow(t) /\ apn[t] \in Pids
        BY <1>2, <3>1, ActiveProcesses DEF Running
      <3> QED BY <1>3, <1>6, <2>2, <3>2 DEF SavedFlow, TypeOK
    <2> QED BY <2>1, <2>2
  <1>8. SavedFlow(v)' /\ esp'[next] \in ContextRecords
    BY <1>4, <1>5, <1>7 DEF TypeOK, Contexts
  <1>9. /\ cpu'.at = esp'[next].at /\ cpu'.of = next /\ cpu'.nested = 0
        /\ cpu'.stk = esp'[next].stk
    BY <1>6, <1>8 DEF SavedFlow, Resume, ContextRecords
  <1>10. FlowInv'
    BY <1>3, <1>4, <1>6, <1>8, <1>9 DEF FlowInv, SavedFlow
  <1>11. LaunchInv'
    BY <1>9 DEF LaunchInv
  <1>12. \A t \in SuspendedTerms' : SavedFlow(t)'
    BY <1>6, <1>7 DEF SuspendedTerms
  <1>13. \A depth : KernelForest(depth)' = KernelForest(depth)
    BY <1>6 DEF KernelForest
  <1> QED BY <1>10, <1>11, <1>12, <1>13 DEF IInv, Running

\* Alt-Fn.
LEMMA SwitchStep ==
    ASSUME Windows = {}, IInv, TypeOK', NEW t \in Terms, switch_terminal(t)
    PROVE  IInv'
  <1> DEFINE old == apn[cur_active_terminal]
  <1>1. Interruptible
    BY DEF switch_terminal, switch_to_active, switch_to_inactive
  <1>2. /\ Running /\ cpu.nested = 0 /\ cpu.at \in {"user", "iret"}
        /\ cpu.at = "iret" => parent_process_number[old] # old
        /\ cpu \in ContextRecords
    BY <1>1, InterruptedFlow DEF IInv, TypeOK, Contexts
  <1>3. old \in Pids /\ TypeOK
    BY <1>2, ActiveProcesses DEF IInv
  <1>4. CASE switch_to_active(t)
    <2>1. FlowInv'
      BY <1>2, <1>4 DEF Running, FlowInv, switch_to_active, pcbVars, termVars
    <2>2. LaunchInv'
      BY <1>2, <1>4 DEF LaunchInv, switch_to_active
    <2>3. \A u \in SuspendedTerms' : SavedFlow(u)'
      BY <1>2, <1>4 DEF Running, SuspendedTerms, SavedFlow, switch_to_active,
         pcbVars, termVars
    <2>4. \A depth : KernelForest(depth)' = KernelForest(depth)
      BY <1>4 DEF KernelForest, switch_to_active, pcbVars, termVars
    <2> QED BY <2>1, <2>2, <2>3, <2>4 DEF IInv, Running
  <1>5. CASE switch_to_inactive(t)
    <2>1. /\ active[t] = 0 /\ cur_term' = t
          /\ esp' = [esp EXCEPT ![old] = cpu]
          /\ cpu' = [cpu EXCEPT !.nested = @ + 1]
          /\ UNCHANGED <<pid_array, parent_process_number, term, parent_ksp, active,
                         apn, cur_active_terminal, page128, page136, esp0>>
      BY <1>3, <1>5, ConstantFacts DEF switch_to_inactive, SaveEsp, pcbVars, termVars
    <2>2. /\ cpu'.at = cpu.at /\ cpu'.of = cpu.of /\ cpu'.stk = cpu.stk
          /\ cpu'.nested = 1
      BY <1>2, <2>1 DEF ContextRecords
    <2>3. FlowInv'
      BY <1>2, <2>1, <2>2 DEF Running, FlowInv
    <2>4. LaunchInv'
      <3>1. [cpu' EXCEPT !.nested = 0] = cpu
        BY <1>2, <2>1, <2>2 DEF ContextRecords
      <3>2. esp'[old] = cpu
        BY <1>3, <2>1 DEF TypeOK
      <3> QED BY <2>1, <2>2, <3>1, <3>2 DEF LaunchInv
    <2>5. ASSUME NEW u \in SuspendedTerms' PROVE SavedFlow(u)'
      <3>1. u \in SuspendedTerms
        BY <2>1, <2>5 DEF SuspendedTerms
      <3>2. SavedFlow(u) /\ apn[u] \in Pids /\ apn[u] # old
        BY <1>2, <3>1, ActiveProcesses DEF Running
      <3> QED BY <1>3, <2>1, <3>2 DEF SavedFlow, TypeOK
    <2>6. \A depth : KernelForest(depth)' = KernelForest(depth)
      BY <2>1 DEF KernelForest
    <2> QED BY <2>3, <2>4, <2>5, <2>6 DEF IInv, Running
  <1> QED BY <1>4, <1>5 DEF switch_terminal

\* vidmap, the exceptions and stop leave the tables alone.
LEMMA OtherStep ==
    ASSUME IInv, TypeOK', vidmap \/ exception \/ stop \/ UNCHANGED vars
    PROVE  IInv'
  <1>1. /\ UNCHANGED <<pid_array, parent_process_number, term, parent_ksp, esp,
                       active, apn, cur_term, cur_active_terminal, page128, esp0>>
        /\ \/ UNCHANGED cpu
           \/ InUser /\ cpu' = [Stopped EXCEPT !.of = cpu.of]
    BY DEF vidmap, exception, stop, vars, pcbVars, termVars
  <1>2. \A depth : KernelForest(depth)' = KernelForest(depth)
    BY <1>1 DEF KernelForest
  <1>3. CASE UNCHANGED cpu
    <2>1. Booting => Booting'
      BY <1>1, <1>3 DEF Booting, Allocated
    <2>2. Running => Running'
      BY <1>1, <1>3 DEF Running, FlowInv, LaunchInv, SuspendedTerms, SavedFlow,
         Allocated
    <2> QED BY <1>2, <2>1, <2>2 DEF IInv
  <1>4. CASE InUser /\ cpu' = [Stopped EXCEPT !.of = cpu.of]
    <2>1. Running /\ cpu.of \in Pids
      BY <1>4, UserFlow, ActiveProcesses DEF UserContext
    <2>2. cpu'.at = "stop" /\ cpu'.of = cpu.of /\ cpu'.nested = 0
      BY <1>4 DEF Stopped
    <2>3. Running'
      BY <1>1, <2>1, <2>2, ConstantFacts DEF Running, FlowInv, LaunchInv,
         SuspendedTerms, SavedFlow
    <2> QED BY <1>2, <2>3 DEF IInv
  <1> QED BY <1>1, <1>3, <1>4

\* IInv is inductive when the windows are closed.
LEMMA IInvStep ==
    ASSUME Windows = {}
    PROVE  IInv /\ [Next]_vars => IInv'
  <1> SUFFICES ASSUME IInv, [Next]_vars PROVE IInv'
    OBVIOUS
  <1>1. TypeOK'
    BY TypeOKStep DEF IInv
  <1>2. key_enter => UNCHANGED vars
    BY DEF key_enter
  <1> QED BY <1>1, <1>2, TimerStep, CallStep, IretStep, ExitStep, ReturnStep,
             HaltReturnStep, SwitchStep, LaunchStep, OtherStep
          DEF Next

\* The state in which init_terminal launches the first shell satisfies it.
LEMMA IInvInit == Init => IInv
  <1> SUFFICES ASSUME Init PROVE IInv
    OBVIOUS
  <1>1. TypeOK
    BY TypeOKInit
  <1>2. Booting
    BY ConstantFacts DEF Init, Booting, Allocated
  <1>3. KernelForest([p \in Pids |-> 0])
    BY ConstantFacts DEF Init, KernelForest, Forest
  <1> QED BY <1>1, <1>2, <1>3 DEF IInv

\* The inductive invariant holds in every state of a kernel with its windows
\* closed.
LEMMA IInvInvariant ==
    ASSUME Windows = {}
    PROVE  Spec => []IInv
  BY IInvInit, IInvStep, PTL DEF Spec

-----------------------------------------------------------------------------
(***************************************************************************)
(* What follows from IInv: the safety properties of the closed kernel, for  *)
(* every number of processes and terminals.                                 *)
(***************************************************************************)

\* Tables, flow and saved contexts always agree.
THEOREM KernelInvHolds ==
    ASSUME Windows = {}
    PROVE  Spec => []KernelInv
  <1>1. IInv => KernelInv
    BY ForestSuffices DEF IInv, KernelInv
  <1> QED BY <1>1, IInvInvariant, PTL

\* The process that runs has its own program page and kernel stack.
THEOREM RunningProcessHolds ==
    ASSUME Windows = {}
    PROVE  Spec => []RunningProcess
  <1>1. IInv => RunningProcess
    <2> SUFFICES ASSUME IInv, InUser \/ cpu.at = "iret"
                 PROVE  /\ cpu.of # NONE /\ Allocated(cpu.of)
                        /\ apn[cur_active_terminal] = cpu.of
                        /\ term[cpu.of] = cur_active_terminal
                        /\ page128 = cpu.of /\ esp0 = cpu.of
      BY DEF RunningProcess
    <2>1. cpu.at \in {"user", "iret"}
      BY DEF InUser
    <2>2. Running
      BY <2>1 DEF IInv, Booting
    <2>3. /\ cpu.of = apn[cur_active_terminal]
          /\ page128 = cpu.of /\ esp0 = cpu.of
      BY <2>1, <2>2 DEF Running, FlowInv
    <2>4. /\ cpu.of \in Pids /\ Allocated(cpu.of)
          /\ active[cur_active_terminal] = 1 /\ cur_active_terminal \in Terms
      BY <2>2, <2>3, ActiveProcesses
    <2>5. term[cpu.of] = cur_active_terminal
      BY <2>3, <2>4, ForestSuffices DEF ProcessForest
    <2> QED BY <2>3, <2>4, <2>5, ConstantFacts
  <1> QED BY <1>1, IInvInvariant, PTL

\* The processes of each terminal form one chain of calls of execute.
THEOREM ProcessForestHolds ==
    ASSUME Windows = {}
    PROVE  Spec => []ProcessForest
  BY ForestSuffices, IInvInvariant, PTL

\* The kernel stack a saved or interrupted flow of terminal t is on belongs to
\* a process of t.
LEMMA FlowOnOwnStack ==
    ASSUME IInv, NEW t \in Terms, active[t] = 1,
           NEW stk, stk \in {apn[t], parent_process_number[apn[t]]}
    PROVE  term[stk] = t
  <1>1. ProcessForest /\ TypeOK
    BY ForestSuffices DEF IInv
  <1>2. apn[t] \in Pids /\ Allocated(apn[t]) /\ term[apn[t]] = t
    BY <1>1 DEF ProcessForest, TypeOK
  <1> QED BY <1>1, <1>2 DEF ProcessForest

\* No two flows of control share a kernel stack.
THEOREM KernelStacksExclusiveHolds ==
    ASSUME Windows = {}
    PROVE  Spec => []KernelStacksExclusive
  <1>1. IInv => KernelStacksExclusive
    <2> SUFFICES ASSUME IInv, ~IsStopped, NEW t \in SuspendedTerms
                 PROVE  /\ esp[apn[t]].stk # esp0
                        /\ Interruptible => esp[apn[t]].stk # cpu.stk
                        /\ \A u \in SuspendedTerms \ {t} :
                              esp[apn[u]].stk # esp[apn[t]].stk
      BY DEF KernelStacksExclusive
    <2>1. CASE Booting
      BY <2>1 DEF Booting, SuspendedTerms
    <2>2. CASE Running
      <3>1. \A u \in SuspendedTerms : u \in Terms /\ term[esp[apn[u]].stk] = u
        BY <2>2, FlowOnOwnStack DEF Running, SavedFlow, SuspendedTerms
      <3>2. cur_active_terminal \in Terms /\ active[cur_active_terminal] = 1
            /\ cur_active_terminal # t
        BY <2>2, ActiveProcesses DEF SuspendedTerms
      <3>3. term[esp0] = cur_active_terminal
        BY <2>2, <3>2, FlowOnOwnStack DEF Running, FlowInv, IsStopped
      <3>4. Interruptible => term[cpu.stk] = cur_active_terminal
        BY <3>2, InterruptedFlow, FlowOnOwnStack
      <3> QED BY <3>1, <3>2, <3>3, <3>4
    <2> QED BY <2>1, <2>2 DEF IInv
  <1> QED BY <1>1, IInvInvariant, PTL

\* process_contextswitch only ever resumes a live flow of the terminal's own
\* active process.
THEOREM SavedContextsLiveHolds ==
    ASSUME Windows = {}
    PROVE  Spec => []SavedContextsLive
  <1>1. IInv => SavedContextsLive
    BY DEF IInv, Booting, Running, SavedFlow, SavedContextsLive, SuspendedTerms
  <1> QED BY <1>1, IInvInvariant, PTL

\* The kernel itself never faults.
THEOREM NoKernelFaultHolds ==
    ASSUME Windows = {}
    PROVE  Spec => []NoKernelFault
  <1>1. IInv => NoKernelFault
    BY DEF IInv, Booting, Running, FlowInv, NoKernelFault, IsStopped
  <1> QED BY <1>1, IInvInvariant, PTL

\* halt returns to the parent.
THEOREM HaltReturnsToParentHolds ==
    ASSUME Windows = {}
    PROVE  Spec => HaltReturnsToParent
  <1>1. IInv /\ [Next]_vars =>
           [halt_return =>
               /\ cpu'.at = "user" /\ cpu'.nested = 0
               /\ cpu'.of = parent_process_number[cpu.of]
               /\ page128' = cpu'.of /\ esp0' = cpu'.of
               /\ apn[cur_active_terminal] = cpu'.of]_vars
    BY ReturnedFlow DEF UserContext
  <1> QED BY <1>1, IInvInvariant, PTL DEF Spec, HaltReturnsToParent

\* A launched shell is the first process of the displayed terminal.
THEOREM LaunchOpensTerminalHolds ==
    ASSUME Windows = {}
    PROVE  Spec => LaunchOpensTerminal
  <1>1. IInv /\ [Next]_vars =>
           [launch_shell /\ pid_array' # pid_array =>
               /\ active[cur_term] = 0
               /\ parent_process_number'[cpu'.of] = cpu'.of]_vars
    <2> SUFFICES ASSUME IInv, launch_shell, pid_array' # pid_array
                 PROVE  /\ active[cur_term] = 0
                        /\ parent_process_number'[cpu'.of] = cpu'.of
      OBVIOUS
    <2>1. active[cur_term] = 0
      BY DEF IInv, Booting, Running, LaunchInv, launch_shell, TypeOK
    <2>2. PICK back : execute(pid_array, active, apn, back)
      BY DEF launch_shell
    <2> QED BY <2>1, <2>2 DEF execute, FirstProcess, IInv, TypeOK
  <1> QED BY <1>1, IInvInvariant, PTL DEF Spec, LaunchOpensTerminal
=============================================================================
