------------------------ MODULE KernelRefinementProofs ------------------------
(***************************************************************************)
(* The theorems about what is built on the kernel: Video, whose page at     *)
(* 136 MB follows the programs that draw, and KernelRefinement, by which    *)
(* the kernel implements ProcessStacks.                                     *)
(***************************************************************************)
EXTENDS Video, KernelRefinement, KernelProofs, FiniteSetTheorems, WellFoundedInduction

(***************************************************************************)
(* DrawsOnOwnTerminal speaks of the running program only, and a program     *)
(* that waits for its child must find the page right when it runs again; so *)
(* the invariant speaks of every program of the executing terminal.         *)
(***************************************************************************)
PageRight ==
    (\E p \in mapped : Allocated(p) /\ term[p] = cur_active_terminal)
        => page136 = ScreenPage(cur_active_terminal, cur_term)

PageInv == mapped \subseteq Pids /\ (cpu.nested = 0 /\ ~IsStopped => PageRight)

\* execute by a program of the displayed terminal, or in its place: the new
\* process holds no page, and the others of the terminal keep theirs.
LEMMA ExecutePage ==
    ASSUME TypeOK, PageInv, cpu.nested = 0, ~IsStopped,
           cur_term = cur_active_terminal,
           NEW act, NEW back, NEW pids \in [Pids -> {0, 1}],
           \A p \in Pids : pids[p] = 1 => Allocated(p),
           execute(pids, act, apn, back),
           mapped' = mapped \ {cpu'.of}
    PROVE  PageInv'
  <1>1. PICK n \in Pids :
           /\ pid_array' = [pids EXCEPT ![n] = 1]
           /\ term' = [term EXCEPT ![n] = cur_term]
           /\ cpu' = [stk |-> cpu.stk, at |-> "iret", of |-> n, nested |-> 0]
           /\ cur_active_terminal' = cur_term
           /\ UNCHANGED <<cur_term, page136>>
    BY DEF execute
  <1>2. ASSUME NEW p \in mapped', pid_array'[p] = 1, term'[p] = cur_active_terminal'
        PROVE  p \in mapped /\ Allocated(p) /\ term[p] = cur_active_terminal
    <2>1. p \in mapped /\ p # n /\ p \in Pids
      BY <1>1, <1>2 DEF PageInv
    <2>2. pid_array'[p] = pids[p] /\ term'[p] = term[p]
      BY <1>1, <2>1 DEF TypeOK
    <2> QED BY <1>1, <1>2, <2>1, <2>2
  <1> QED BY <1>1, <1>2 DEF PageInv, PageRight, Allocated, ScreenPage

\* The first shell of a terminal: no other process belongs to it.
LEMMA LaunchPage ==
    ASSUME IInv, TypeOK, PageInv, NEW back, active[cur_term] = 0,
           execute(pid_array, active, apn, back),
           mapped' = mapped \ {cpu'.of}
    PROVE  PageInv'
  <1>1. PICK n \in Pids :
           /\ pid_array' = [pid_array EXCEPT ![n] = 1]
           /\ term' = [term EXCEPT ![n] = cur_term]
           /\ cpu' = [stk |-> cpu.stk, at |-> "iret", of |-> n, nested |-> 0]
           /\ cur_active_terminal' = cur_term
    BY DEF execute, FirstProcess
  <1>2. ASSUME NEW p \in mapped', pid_array'[p] = 1, term'[p] = cur_active_terminal'
        PROVE  FALSE
    <2>1. p \in Pids /\ p # n
      BY <1>1, <1>2 DEF PageInv
    <2>2. Allocated(p) /\ term[p] = cur_term
      BY <1>1, <1>2, <2>1 DEF TypeOK, Allocated
    <2> QED BY <2>1, <2>2, ForestSuffices DEF ProcessForest
  <1> QED BY <1>1, <1>2 DEF PageInv, PageRight, Allocated

\* The timer maps the page for the terminal that it resumes.
LEMMA TimerPage ==
    ASSUME Windows = {}, IInv, PageInv, PIT_scheduling, mapped' \subseteq mapped
    PROVE  PageInv'
  <1>1. PICK d \in 1 .. MAX_TERM - 1 :
           /\ get_next_scheduled(d)
           /\ process_contextswitch(apn[Probe(d)], Probe(d))
    BY DEF PIT_scheduling
  <1>2. Running
    BY InterruptedFlow DEF PIT_scheduling
  <1>3. TypeOK /\ active[0] = 1 /\ apn[cur_active_terminal] \in Pids
    BY <1>2, ActiveProcesses DEF IInv, Running, FlowInv
  <1>4. Probe(d) \in Terms /\ active[Probe(d)] = 1
    BY <1>1, <1>3, ProbeType, NextIsActive DEF PIT_scheduling, TypeOK
  <1>5. apn[Probe(d)] # NONE /\ term[apn[Probe(d)]] = Probe(d)
    BY <1>4, ForestSuffices DEF ProcessForest
  <1>6. /\ page136' = ScreenPage(Probe(d), cur_term)
        /\ cur_active_terminal' = Probe(d)
        /\ UNCHANGED cur_term
    BY <1>1, <1>3, <1>5, ConstantFacts DEF process_contextswitch
  <1> QED BY <1>6 DEF PageInv, PageRight, ScreenPage

\* A step that leaves the page, the terminals and the owners of the processes
\* alone.
LEMMA OtherPage ==
    ASSUME TypeOK, PageInv, cpu.nested = 0, ~IsStopped, mapped' \subseteq mapped,
           UNCHANGED <<term, cur_term, cur_active_terminal, page136>>,
           \A p \in Pids : pid_array'[p] = 1 => Allocated(p)
    PROVE  PageInv'
  BY DEF PageInv, PageRight, Allocated

\* Every step of the kernel keeps the page right.
LEMMA PageStep ==
    ASSUME Windows = {}, VideoWindows = {}
    PROVE  IInv /\ IInv' /\ PageInv /\ [VideoNext]_videoVars => PageInv'
  <1> SUFFICES ASSUME IInv, IInv', PageInv, [VideoNext]_videoVars PROVE PageInv'
    OBVIOUS
  <1>1. TypeOK
    BY DEF IInv
  <1>2. CASE UNCHANGED videoVars
    BY <1>2 DEF videoVars, vars, pcbVars, termVars, PageInv, PageRight, Allocated,
                IsStopped
  <1>3. CASE VideoNext
    <2>1. Next /\ mapped' = Mapped
      BY <1>3 DEF VideoNext
    <2>2. CASE vidmap
      <3>1. /\ cpu.of \in Pids /\ cpu.nested = 0 /\ page136' = VIDEO
            /\ UNCHANGED <<pid_array, term, cur_term, cur_active_terminal, cpu>>
        BY <1>1, <2>2, UserFlow, ActiveProcesses
           DEF vidmap, InUser, UserContext, pcbVars
      <3>2. CASE cur_term = cur_active_terminal
        BY <2>1, <2>2, <3>1, <3>2 DEF Mapped, PageInv, PageRight, ScreenPage
      <3>3. CASE cur_term # cur_active_terminal
        BY <2>1, <2>2, <3>1, <3>3 DEF Mapped, OtherTerminals, PageInv, PageRight
      <3> QED BY <3>2, <3>3
    <2>3. CASE launch_failed
      <3>1. ~vidmap
        BY <2>3 DEF launch_failed, launch_shell, vidmap, InUser
      <3>2. mapped' = OtherTerminals(mapped)
        BY <2>1, <2>3, <3>1 DEF Mapped
      <3>3. UNCHANGED <<pid_array, term, cur_active_terminal>>
        BY <1>1, <2>3 DEF launch_failed, launch_shell, execute, get_proc_num,
                          pcbVars, TypeOK
      <3> QED BY <3>2, <3>3 DEF PageInv, PageRight, OtherTerminals
    <2>4. CASE ~vidmap /\ ~launch_failed
      <3>0. /\ mapped' = IF cpu'.at = "iret" THEN mapped \ {cpu'.of} ELSE mapped
            /\ mapped' \subseteq mapped
        BY <2>1, <2>4 DEF Mapped
      <3>1. CASE PIT_scheduling
        BY <3>0, <3>1, TimerPage
      <3>2. CASE sys_execute
        <4>1. cpu'.at = "iret" /\ cpu.nested = 0 /\ ~IsStopped
              /\ cur_term = cur_active_terminal
          BY <3>2 DEF sys_execute, execute, InUser, Foreground, IsStopped
        <4> QED BY <1>1, <3>0, <3>2, <4>1, ExecutePage
                DEF sys_execute, TypeOK, Allocated
      <3>3. CASE halt_root
        <4> DEFINE cur == apn[cur_active_terminal]
                   pids == [pid_array EXCEPT ![cur] = 0]
                   act == [active EXCEPT ![cur_active_terminal] = 0]
                   back == [cpu EXCEPT !.at = "unwind", !.of = cur]
        <4>1. execute(pids, act, apn, back)
          BY <3>3 DEF halt_root
        <4>2. cpu'.at = "iret" /\ cpu.nested = 0 /\ ~IsStopped
              /\ cur_term = cur_active_terminal
          BY <3>3 DEF halt_root, execute, InUser, Foreground, IsStopped
        <4>3. /\ pids \in [Pids -> {0, 1}]
              /\ \A p \in Pids : pids[p] = 1 => Allocated(p)
          BY <1>1 DEF TypeOK, Allocated
        <4> HIDE DEF pids, act, back
        <4> QED BY <1>1, <3>0, <4>1, <4>2, <4>3, ExecutePage
      <3>4. CASE launch_shell
        <4> DEFINE back == [cpu EXCEPT !.nested = @ - 1]
        <4>1. execute(pid_array, active, apn, back) /\ cpu.nested > 0
          BY <2>4, <3>4 DEF launch_shell, launch_failed
        <4>2. active[cur_term] = 0
          BY <1>1, <4>1 DEF IInv, Booting, Running, LaunchInv, TypeOK
        <4>3. cpu'.at = "iret"
          BY <4>1 DEF execute
        <4> HIDE DEF back
        <4> QED BY <1>1, <3>0, <4>1, <4>2, <4>3, LaunchPage
      <3>5. CASE halt_return
        BY <1>1, <3>0, <3>5, ReturnedFlow, OtherPage
           DEF halt_return, IsStopped, pcbVars, Allocated
      <3>6. CASE halt_child
        BY <1>1, <3>0, <3>6, OtherPage
           DEF halt_child, InUser, IsStopped, pcbVars, TypeOK, Allocated
      <3>7. CASE execute_iret
        BY <1>1, <3>0, <3>7, OtherPage
           DEF execute_iret, IsStopped, pcbVars, Allocated
      <3>8. CASE exception \/ stop
        <4>1. IsStopped'
          BY <3>8 DEF exception, stop, Stopped, IsStopped, vars
        <4> QED BY <3>0, <4>1 DEF PageInv
      <3>9. ASSUME NEW t \in Terms, switch_to_active(t) PROVE PageInv'
        BY <3>0, <3>9 DEF switch_to_active, PageInv, PageRight
      <3>10. ASSUME NEW t \in Terms, switch_to_inactive(t) PROVE PageInv'
        <4>1. cpu'.nested > 0 \/ IsStopped'
          BY <1>1, <3>10 DEF switch_to_inactive, PageFault, Stopped, IsStopped,
                             TypeOK, Contexts, ContextRecords
        <4> QED BY <3>0, <4>1 DEF PageInv
      <3>11. CASE key_enter
        <4>1. mapped' \subseteq mapped /\ UNCHANGED vars
          BY <3>0, <3>11 DEF key_enter
        <4> QED BY <4>1 DEF vars, pcbVars, PageInv, PageRight, Allocated, IsStopped
      <3> QED BY <2>1, <2>4, <3>1, <3>2, <3>3, <3>4, <3>5, <3>6, <3>7, <3>8,
                 <3>9, <3>10, <3>11
              DEF Next, switch_terminal
    <2> QED BY <2>2, <2>3, <2>4
  <1> QED BY <1>2, <1>3

\* The history variable does not constrain the kernel.
LEMMA VideoImplementsKernel == VideoSpec => Spec
  <1>1. VideoInit => Init
    BY DEF VideoInit
  <1>2. [VideoNext]_videoVars => [Next]_vars
    BY DEF VideoNext, videoVars
  <1> QED BY <1>1, <1>2, PTL DEF VideoSpec, Spec

\* For every number of processes and terminals, a program that has called
\* vidmap draws on its own terminal, as long as no program calls it from a
\* hidden terminal and no shell fails to start.
THEOREM DrawsOnOwnTerminalHolds ==
    ASSUME Windows = {}, VideoWindows = {}
    PROVE  VideoSpec => []DrawsOnOwnTerminal
  <1>1. VideoInit => PageInv
    BY DEF VideoInit, PageInv, PageRight
  <1>2. IInv /\ PageInv => DrawsOnOwnTerminal
    <2> SUFFICES ASSUME IInv, PageInv, InUser, cpu.of \in mapped
                 PROVE  page136 = OwnScreen(term[cpu.of])
      BY DEF DrawsOnOwnTerminal
    <2>1. /\ cpu.of = apn[cur_active_terminal] /\ cpu.nested = 0 /\ ~IsStopped
          /\ Running
      BY UserFlow DEF UserContext, IsStopped
    <2>2. /\ cpu.of \in Pids /\ Allocated(cpu.of)
          /\ cur_active_terminal \in Terms /\ active[cur_active_terminal] = 1
      BY <2>1, ActiveProcesses
    <2>3. term[cpu.of] = cur_active_terminal
      BY <2>1, <2>2, ForestSuffices DEF ProcessForest
    <2> QED BY <2>1, <2>2, <2>3 DEF PageInv, PageRight, ScreenPage, OwnScreen
  <1> QED BY <1>1, <1>2, PageStep, IInvInvariant, VideoImplementsKernel, PTL
          DEF VideoSpec

-----------------------------------------------------------------------------
(***************************************************************************)
(* The refinement.  The mapping walks the parents of an active process with *)
(* a recursive function; so the proof first shows that a sequence which is  *)
(* linked by the parents, ends in the active process and repeats nobody is  *)
(* the value of that function (induction by a least counterexample), then   *)
(* that every action keeps such a sequence for every terminal, and last     *)
(* that what an action does to the sequences is what an abstract action     *)
(* does.                                                                    *)
(***************************************************************************)
\* A set of numbers that is not empty has a least one.
LEMMA LeastNumber ==
    ASSUME NEW T, T \subseteq Nat, T # {}
    PROVE  \E n \in T : \A m \in T : n <= m
  <1>1. PICK n \in T : \A m \in T : <<m, n>> \notin OpToRel(<, Nat)
    BY NatLessThanWellFounded, WFMin
  <1>2. \A m \in T : ~(m < n)
    BY <1>1 DEF OpToRel
  <1> QED BY <1>2

-----------------------------------------------------------------------------
(***************************************************************************)
(* The recursion of ancestry, over any table par of parents.                *)
(***************************************************************************)
Older(h, par) ==
    [p \in Pids |-> IF par[p] = p THEN <<p>> ELSE Append(h[par[p]], p)]

\* g is the table of ancestors up to the n-th generation.
Generations(g, par, n) ==
    g = [k \in 0 .. n |-> [p \in Pids |->
            IF k = 0 \/ par[p] = p THEN <<p>> ELSE Append(g[k - 1][par[p]], p)]]

\* One generation more.
LEMMA OneMore ==
    ASSUME NEW par, NEW n \in Nat, NEW g, Generations(g, par, n)
    PROVE  \E h : Generations(h, par, n + 1)
  <1> DEFINE h == [k \in 0 .. n + 1 |-> IF k <= n THEN g[k] ELSE Older(g[n], par)]
             R(k) == [p \in Pids |-> IF k = 0 \/ par[p] = p THEN <<p>>
                                     ELSE Append(h[k - 1][par[p]], p)]
  <1>1. ASSUME NEW k \in 0 .. n + 1 PROVE h[k] = R(k)
    <2>1. CASE k <= n
      <3>1. k \in 0 .. n /\ h[k] = g[k]
        BY <2>1
      <3>2. g[k] = [p \in Pids |-> IF k = 0 \/ par[p] = p THEN <<p>>
                                   ELSE Append(g[k - 1][par[p]], p)]
        BY <3>1 DEF Generations
      <3>3. k # 0 => h[k - 1] = g[k - 1]
        BY <3>1
      <3> HIDE DEF h
      <3> QED BY <3>1, <3>2, <3>3
    <2>2. CASE ~(k <= n)
      <3>1. k = n + 1 /\ k # 0 /\ h[k] = Older(g[n], par) /\ h[k - 1] = g[n]
        BY <2>2
      <3> HIDE DEF h
      <3> QED BY <3>1 DEF Older
    <2> QED BY <2>1, <2>2
  <1>2. h = [k \in 0 .. n + 1 |-> R(k)]
    <2>1. h = [k \in 0 .. n + 1 |-> h[k]]
      OBVIOUS
    <2> HIDE DEF h
    <2> QED BY <1>1, <2>1
  <1>3. Generations(h, par, n + 1)
    <2> HIDE DEF h
    <2> QED BY <1>2 DEF Generations
  <1> QED BY <1>3

\* The recursion has a solution, however many generations it goes back.
LEMMA GenerationsExist ==
    ASSUME NEW par, NEW n \in Nat
    PROVE  \E g : Generations(g, par, n)
  <1> DEFINE T == {m \in Nat : ~ \E g : Generations(g, par, m)}
  <1>1. ASSUME T # {} PROVE FALSE
    <2>1. PICK m \in T : \A k \in T : m <= k
      BY <1>1, LeastNumber
    <2>2. m # 0
      <3> DEFINE g == [k \in 0 .. 0 |-> [p \in Pids |-> <<p>>]]
      <3>1. Generations(g, par, 0)
        BY DEF Generations
      <3> QED BY <3>1
    <2>3. m - 1 \in Nat /\ m - 1 \notin T /\ (m - 1) + 1 = m
      BY <2>1, <2>2
    <2>4. \E g : Generations(g, par, (m - 1) + 1)
      BY <2>3, OneMore
    <2> QED BY <2>3, <2>4
  <1> QED BY <1>1

\* ancestry is a solution, now and in the next state.
LEMMA AncestrySolves ==
    /\ Generations(ancestry, parent_process_number, NUM_MAX_PROCESSES)
    /\ Generations(ancestry', parent_process_number', NUM_MAX_PROCESSES)
  <1>0. NUM_MAX_PROCESSES \in Nat
    BY ConstantFacts
  <1>1. Generations(ancestry, parent_process_number, NUM_MAX_PROCESSES)
    BY <1>0, GenerationsExist DEF Generations, ancestry
  <1>2. Generations(ancestry', parent_process_number', NUM_MAX_PROCESSES)
    BY <1>0, GenerationsExist DEF Generations, ancestry
  <1> QED BY <1>1, <1>2


-----------------------------------------------------------------------------
(***************************************************************************)
(* The chain of a terminal, over any tables: it starts with a process that  *)
(* is its own parent, each of its processes is the parent of the next one,  *)
(* the active process is its end, all are allocated and of this terminal.   *)
(***************************************************************************)
Chain(s, t, pids, par, tm, ap) ==
    /\ s \in Seq(Pids) /\ Len(s) >= 1
    /\ s[Len(s)] = ap[t]
    /\ par[s[1]] = s[1]
    /\ \A i \in 2 .. Len(s) : par[s[i]] = s[i - 1]
    /\ \A i \in 1 .. Len(s) : pids[s[i]] = 1 /\ tm[s[i]] = t
    /\ \A i, j \in 1 .. Len(s) : s[i] = s[j] => i = j

\* No chain is longer than the process table.
LEMMA ChainFits ==
    ASSUME NEW s \in Seq(Pids), \A i, j \in 1 .. Len(s) : s[i] = s[j] => i = j
    PROVE  Len(s) <= NUM_MAX_PROCESSES
  <1>0. NUM_MAX_PROCESSES \in Nat /\ Len(s) \in Nat
    BY ConstantFacts
  <1>1. IsFiniteSet(Pids) /\ Cardinality(Pids) = NUM_MAX_PROCESSES
    BY <1>0, ConstantFacts, FS_Interval DEF Pids
  <1>2. IsFiniteSet(1 .. Len(s)) /\ Cardinality(1 .. Len(s)) = Len(s)
    <2>1. /\ IsFiniteSet(1 .. Len(s))
          /\ Cardinality(1 .. Len(s)) = IF 1 > Len(s) THEN 0 ELSE Len(s) - 1 + 1
      <3>1. 1 \in Int /\ Len(s) \in Int
        BY <1>0
      <3> QED BY <3>1, FS_Interval
    <2> QED BY <1>0, <2>1
  <1>3. s \in [1 .. Len(s) -> Pids]
    OBVIOUS
  <1>4. ASSUME Len(s) > NUM_MAX_PROCESSES PROVE FALSE
    <2>1. \E i, j \in 1 .. Len(s) : i # j /\ s[i] = s[j]
      BY <1>1, <1>2, <1>3, <1>4, FS_PigeonHole
    <2> QED BY <2>1
  <1> QED BY <1>0, <1>4

\* Going back far enough from the i-th process of a chain gives its first i.
LEMMA PrefixOfChain ==
    ASSUME NEW par, NEW n \in Nat, NEW g, Generations(g, par, n),
           NEW s \in Seq(Pids), Len(s) >= 1, par[s[1]] = s[1],
           \A i \in 2 .. Len(s) : par[s[i]] = s[i - 1],
           \A i, j \in 1 .. Len(s) : s[i] = s[j] => i = j
    PROVE  \A i \in 1 .. Len(s) : \A k \in 0 .. n :
              k >= i - 1 => g[k][s[i]] = SubSeq(s, 1, i)
  <1> DEFINE Good(i) == \A k \in 0 .. n : k >= i - 1 => g[k][s[i]] = SubSeq(s, 1, i)
             T == {i \in 1 .. Len(s) : ~Good(i)}
  <1>0. ASSUME NEW k \in 0 .. n, NEW p \in Pids
        PROVE  g[k][p] = IF k = 0 \/ par[p] = p THEN <<p>>
                         ELSE Append(g[k - 1][par[p]], p)
    <2>1. g[k] = [q \in Pids |-> IF k = 0 \/ par[q] = q THEN <<q>>
                                 ELSE Append(g[k - 1][par[q]], q)]
      BY DEF Generations
    <2> QED BY <2>1
  <1>1. ASSUME T # {} PROVE FALSE
    <2>1. PICK i \in T : \A j \in T : i <= j
      <3>1. T \subseteq Nat
        OBVIOUS
      <3> QED BY <1>1, <3>1, LeastNumber
    <2>2. i \in 1 .. Len(s) /\ s[i] \in Pids /\ ~Good(i)
      BY <2>1
    <2>3. PICK k \in 0 .. n : k >= i - 1 /\ g[k][s[i]] # SubSeq(s, 1, i)
      BY <2>2
    <2>4. CASE i = 1
      <3>1. g[k][s[1]] = <<s[1]>>
        BY <1>0, <2>2, <2>4
      <3>2. SubSeq(s, 1, 1) = <<s[1]>>
        <4>1. SubSeq(s, 1, 1) = [j \in 1 .. 1 |-> s[j]]
          OBVIOUS
        <4>2. <<s[1]>> = [j \in 1 .. 1 |-> s[1]]
          OBVIOUS
        <4>3. [j \in 1 .. 1 |-> s[j]] = [j \in 1 .. 1 |-> s[1]]
          <5>1. \A j \in 1 .. 1 : s[j] = s[1]
            OBVIOUS
          <5> QED BY <5>1
        <4> QED BY <4>1, <4>2, <4>3
      <3> QED BY <2>3, <2>4, <3>1, <3>2
    <2>5. CASE i # 1
      <3>1. i \in 2 .. Len(s) /\ i - 1 \in 1 .. Len(s) /\ k - 1 \in 0 .. n /\ k # 0
        BY <2>2, <2>3, <2>5
      <3>2. par[s[i]] = s[i - 1] /\ s[i - 1] # s[i]
        BY <3>1
      <3>3. Good(i - 1)
        BY <2>1, <3>1
      <3>4. g[k - 1][s[i - 1]] = SubSeq(s, 1, i - 1)
        BY <2>3, <3>1, <3>3
      <3>5. g[k][s[i]] = Append(SubSeq(s, 1, i - 1), s[i])
        <4>1. g[k][s[i]] = IF k = 0 \/ par[s[i]] = s[i] THEN <<s[i]>>
                           ELSE Append(g[k - 1][par[s[i]]], s[i])
          BY <1>0, <2>2
        <4> QED BY <3>1, <3>2, <3>4, <4>1
      <3>6. Append(SubSeq(s, 1, i - 1), s[i]) = SubSeq(s, 1, i)
        BY <3>1
      <3> QED BY <2>3, <3>5, <3>6
    <2> QED BY <2>4, <2>5
  <1> QED BY <1>1

\* Going back from the active process gives the chain.
LEMMA ChainFound ==
    ASSUME NEW par, NEW pids, NEW tm, NEW ap, NEW t, NEW g,
           Generations(g, par, NUM_MAX_PROCESSES),
           NEW s, Chain(s, t, pids, par, tm, ap)
    PROVE  g[NUM_MAX_PROCESSES][ap[t]] = s
  <1>1. s \in Seq(Pids) /\ Len(s) >= 1 /\ Len(s) \in Nat /\ NUM_MAX_PROCESSES \in Nat
    BY ConstantFacts DEF Chain
  <1>2. Len(s) <= NUM_MAX_PROCESSES
    BY <1>1, ChainFits DEF Chain
  <1>3. g[NUM_MAX_PROCESSES][s[Len(s)]] = SubSeq(s, 1, Len(s))
    BY <1>1, <1>2, PrefixOfChain DEF Chain
  <1>4. SubSeq(s, 1, Len(s)) = s
    BY <1>1
  <1> QED BY <1>3, <1>4 DEF Chain

\* The chain of a terminal in the kernel's own tables.
TermChain(s, t) == Chain(s, t, pid_array, parent_process_number, term, apn)

\* Each terminal in use has a chain.
ChainsInv == \A t \in Terms : active[t] = 1 => \E s : TermChain(s, t)

\* The mapping gives the chains of the terminals in use, and nothing for the
\* others, now and in the next state.
LEMMA StackIsChain ==
    ASSUME NEW t \in Terms
    PROVE  /\ \A s : active[t] = 1 /\ TermChain(s, t) => processStacks[t] = s
           /\ active[t] # 1 => processStacks[t] = <<>>
           /\ \A s : active'[t] = 1 /\ TermChain(s, t)' => processStacks'[t] = s
           /\ active'[t] # 1 => processStacks'[t] = <<>>
  <1>1. ASSUME NEW s, active[t] = 1, TermChain(s, t) PROVE processStacks[t] = s
    <2>1. ancestry[NUM_MAX_PROCESSES][apn[t]] = s
      BY <1>1, AncestrySolves, ChainFound DEF TermChain
    <2>2. apn[t] # NONE
      BY <1>1, ConstantFacts DEF TermChain, Chain
    <2> QED BY <1>1, <2>1, <2>2 DEF processStacks
  <1>2. ASSUME NEW s, active'[t] = 1, TermChain(s, t)' PROVE processStacks'[t] = s
    <2>1. ancestry'[NUM_MAX_PROCESSES][apn'[t]] = s
      BY <1>2, AncestrySolves, ChainFound DEF TermChain
    <2>2. apn'[t] # NONE
      BY <1>2, ConstantFacts DEF TermChain, Chain
    <2> QED BY <1>2, <2>1, <2>2 DEF processStacks
  <1>3. active[t] # 1 => processStacks[t] = <<>>
    BY DEF processStacks
  <1>4. active'[t] # 1 => processStacks'[t] = <<>>
    BY DEF processStacks
  <1> QED BY <1>1, <1>2, <1>3, <1>4


-----------------------------------------------------------------------------
(***************************************************************************)
(* What execute and halt do to the chains.                                  *)
(***************************************************************************)
\* Tables that agree on the processes of a terminal have the same chain.
LEMMA ChainKept ==
    ASSUME NEW s, NEW t,
           NEW pids, NEW par, NEW tm, NEW ap, Chain(s, t, pids, par, tm, ap),
           NEW pids2, NEW par2, NEW tm2, NEW ap2, ap2[t] = ap[t],
           \A p \in Pids : pids[p] = 1 /\ tm[p] = t =>
               pids2[p] = 1 /\ par2[p] = par[p] /\ tm2[p] = t
    PROVE  Chain(s, t, pids2, par2, tm2, ap2)
  <1>1. s \in Seq(Pids) /\ Len(s) \in Nat /\ Len(s) >= 1
    BY DEF Chain
  <1>2. ASSUME NEW i \in 1 .. Len(s)
        PROVE  pids2[s[i]] = 1 /\ par2[s[i]] = par[s[i]] /\ tm2[s[i]] = t
    BY <1>1 DEF Chain
  <1>3. 1 \in 1 .. Len(s) /\ 2 .. Len(s) \subseteq 1 .. Len(s)
    BY <1>1
  <1> QED BY <1>1, <1>2, <1>3 DEF Chain

\* A process that is its own parent is a chain.
LEMMA ChainFirst ==
    ASSUME NEW n \in Pids, NEW t, NEW pids, NEW par, NEW tm, NEW ap,
           pids[n] = 1, par[n] = n, tm[n] = t, ap[t] = n
    PROVE  Chain(<<n>>, t, pids, par, tm, ap)
  <1>1. <<n>> \in Seq(Pids) /\ Len(<<n>>) = 1 /\ <<n>>[1] = n
    OBVIOUS
  <1>2. 1 .. 1 = {1} /\ 2 .. 1 = {}
    OBVIOUS
  <1> QED BY <1>1, <1>2 DEF Chain

\* A child of the active process goes at the end of the chain.
LEMMA ChainCall ==
    ASSUME NEW s, NEW u \in Terms, NEW n \in Pids,
           NEW pids \in [Pids -> {0, 1}], NEW par \in [Pids -> Pids],
           NEW tm \in [Pids -> Terms \cup {NONE}], NEW ap,
           DOMAIN ap = Terms, pids[n] = 0,
           Chain(s, u, pids, par, tm, ap)
    PROVE  Chain(Append(s, n), u, [pids EXCEPT ![n] = 1], [par EXCEPT ![n] = ap[u]],
                 [tm EXCEPT ![n] = u], [ap EXCEPT ![u] = n])
  <1> DEFINE r == Append(s, n)
             m == Len(s)
  <1>1. s \in Seq(Pids) /\ m \in Nat /\ m >= 1
    BY DEF Chain
  <1>2. /\ r \in Seq(Pids) /\ Len(r) = m + 1 /\ r[m + 1] = n
        /\ \A i \in 1 .. m : r[i] = s[i]
    BY <1>1
  <1> HIDE DEF r
  <1>3. \A i \in 1 .. m : s[i] \in Pids /\ s[i] # n
    BY <1>1 DEF Chain
  <1>4. [par EXCEPT ![n] = ap[u]][r[1]] = r[1]
    BY <1>1, <1>2, <1>3 DEF Chain
  <1>5. ASSUME NEW i \in 2 .. m + 1
        PROVE  [par EXCEPT ![n] = ap[u]][r[i]] = r[i - 1]
    <2>1. CASE i = m + 1
      <3>1. r[i] = n /\ r[i - 1] = s[m] /\ s[m] = ap[u]
        BY <1>1, <1>2, <2>1 DEF Chain
      <3> QED BY <3>1
    <2>2. CASE i # m + 1
      <3>1. i \in 2 .. m /\ i \in 1 .. m /\ i - 1 \in 1 .. m
        BY <1>1, <2>2
      <3> QED BY <1>2, <1>3, <3>1 DEF Chain
    <2> QED BY <2>1, <2>2
  <1>6. ASSUME NEW i \in 1 .. m + 1
        PROVE  [pids EXCEPT ![n] = 1][r[i]] = 1 /\ [tm EXCEPT ![n] = u][r[i]] = u
    <2>1. CASE i = m + 1
      BY <1>2, <2>1
    <2>2. CASE i # m + 1
      <3>1. i \in 1 .. m
        BY <1>1, <2>2
      <3> QED BY <1>2, <1>3, <3>1 DEF Chain
    <2> QED BY <2>1, <2>2
  <1>7. ASSUME NEW i \in 1 .. m + 1, NEW j \in 1 .. m + 1, r[i] = r[j] PROVE i = j
    <2>1. \A k \in 1 .. m + 1 : k = m + 1 \/ k \in 1 .. m
      BY <1>1
    <2> QED BY <1>2, <1>3, <1>7, <2>1 DEF Chain
  <1> QED BY <1>1, <1>2, <1>4, <1>5, <1>6, <1>7 DEF Chain

\* A chain of one process, and only that one, ends in its own parent.
LEMMA ChainRoot ==
    ASSUME NEW s, NEW u, NEW pids, NEW par, NEW tm, NEW ap,
           Chain(s, u, pids, par, tm, ap)
    PROVE  (par[ap[u]] = ap[u]) <=> (Len(s) = 1)
  <1>1. s \in Seq(Pids) /\ Len(s) \in Nat /\ Len(s) >= 1 /\ s[Len(s)] = ap[u]
    BY DEF Chain
  <1>2. CASE Len(s) = 1
    BY <1>1, <1>2 DEF Chain
  <1>3. CASE Len(s) # 1
    <2>1. \A m \in Nat : m >= 1 /\ m # 1 =>
             m \in 2 .. m /\ m \in 1 .. m /\ m - 1 \in 1 .. m /\ m - 1 # m
      OBVIOUS
    <2>2. par[s[Len(s)]] = s[Len(s) - 1] /\ s[Len(s) - 1] # s[Len(s)]
      BY <1>1, <1>3, <2>1 DEF Chain
    <2> QED BY <1>1, <1>3, <2>2
  <1> QED BY <1>2, <1>3

\* When the active process halts, the chain ends in its parent.
LEMMA ChainReturn ==
    ASSUME NEW s, NEW u \in Terms,
           NEW pids \in [Pids -> {0, 1}], NEW par, NEW tm, NEW ap,
           DOMAIN ap = Terms, Chain(s, u, pids, par, tm, ap), par[ap[u]] # ap[u]
    PROVE  /\ Len(s) > 1
           /\ Chain(SubSeq(s, 1, Len(s) - 1), u, [pids EXCEPT ![ap[u]] = 0], par, tm,
                    [ap EXCEPT ![u] = par[ap[u]]])
  <1> DEFINE r == SubSeq(s, 1, Len(s) - 1)
             m == Len(s) - 1
  <1>1. s \in Seq(Pids) /\ Len(s) \in Nat /\ Len(s) > 1 /\ m \in Nat /\ m >= 1
        /\ s[Len(s)] = ap[u] /\ Len(s) = m + 1
    BY ChainRoot DEF Chain
  <1>2. /\ r \in Seq(Pids) /\ Len(r) = m
        /\ \A i \in 1 .. m : r[i] = s[i]
    BY <1>1
  <1> HIDE DEF r, m
  <1>3. \A i \in 1 .. m : i \in 1 .. Len(s) /\ s[i] \in Pids /\ s[i] # ap[u]
    BY <1>1 DEF Chain
  <1>4. par[ap[u]] = r[m]
    <2>1. m + 1 \in 2 .. Len(s) /\ m \in 1 .. m /\ (m + 1) - 1 = m
      BY <1>1
    <2> QED BY <1>1, <1>2, <2>1 DEF Chain
  <1>5. par[r[1]] = r[1]
    BY <1>1, <1>2 DEF Chain
  <1>6. \A i \in 2 .. m : par[r[i]] = r[i - 1]
    <2>1. \A i \in 2 .. m : i \in 2 .. Len(s) /\ i \in 1 .. m /\ i - 1 \in 1 .. m
      BY <1>1
    <2> QED BY <1>2, <2>1 DEF Chain
  <1>7. \A i \in 1 .. m : [pids EXCEPT ![ap[u]] = 0][r[i]] = 1 /\ tm[r[i]] = u
    BY <1>2, <1>3 DEF Chain
  <1>8. \A i, j \in 1 .. m : r[i] = r[j] => i = j
    BY <1>2, <1>3 DEF Chain
  <1>9. Chain(r, u, [pids EXCEPT ![ap[u]] = 0], par, tm, [ap EXCEPT ![u] = par[ap[u]]])
    BY <1>1, <1>2, <1>4, <1>5, <1>6, <1>7, <1>8 DEF Chain
  <1> QED BY <1>1, <1>9 DEF r


-----------------------------------------------------------------------------
(***************************************************************************)
(* What the actions do to the chains of the kernel's tables, and so to the  *)
(* stacks they are mapped to.                                               *)
(***************************************************************************)
\* Stacks that differ in one terminal at most.
LEMMA StacksUpdate ==
    ASSUME NEW u \in Terms, NEW v, processStacks'[u] = v,
           \A t \in Terms \ {u} : processStacks'[t] = processStacks[t]
    PROVE  processStacks' = [processStacks EXCEPT ![u] = v]
  <1>1. /\ processStacks = [t \in Terms |-> processStacks[t]]
        /\ processStacks' = [t \in Terms |-> processStacks'[t]]
    BY DEF processStacks
  <1> QED BY <1>1

\* Stacks that do not differ.
LEMMA StacksSame ==
    ASSUME \A t \in Terms : processStacks'[t] = processStacks[t]
    PROVE  processStacks' = processStacks
  <1>1. /\ processStacks = [t \in Terms |-> processStacks[t]]
        /\ processStacks' = [t \in Terms |-> processStacks'[t]]
    BY DEF processStacks
  <1> QED BY <1>1

\* The stack of a terminal in use is its chain.
LEMMA InUseChain ==
    ASSUME ChainsInv, NEW t \in Terms, active[t] = 1
    PROVE  TermChain(processStacks[t], t)
  BY StackIsChain DEF ChainsInv

\* A terminal whose processes are left alone keeps its stack.
LEMMA StackKept ==
    ASSUME ChainsInv, TypeOK, NEW t \in Terms,
           active'[t] = 1 <=> active[t] = 1, apn'[t] = apn[t],
           \A p \in Pids : pid_array[p] = 1 /\ term[p] = t =>
               /\ pid_array'[p] = 1 /\ term'[p] = t
               /\ parent_process_number'[p] = parent_process_number[p]
    PROVE  /\ processStacks'[t] = processStacks[t]
           /\ active'[t] = 1 => \E s : TermChain(s, t)'
  <1>1. CASE active[t] = 1
    <2>1. TermChain(processStacks[t], t)
      BY <1>1, InUseChain
    <2> DEFINE s == processStacks[t]
    <2>2. TermChain(s, t)
      BY <2>1
    <2> HIDE DEF s
    <2>3. Chain(s, t, pid_array', parent_process_number', term', apn')
      BY <2>2, ChainKept DEF TermChain
    <2>4. processStacks'[t] = s
      BY <1>1, <2>3, StackIsChain DEF TermChain
    <2> QED BY <2>3, <2>4 DEF TermChain, s
  <1>2. CASE active[t] # 1
    BY <1>2, StackIsChain
  <1> QED BY <1>1, <1>2

\* A step that leaves the tables of processes and terminals alone.
LEMMA TablesKept ==
    ASSUME ChainsInv, TypeOK, UNCHANGED <<pid_array, pcbVars, termVars>>
    PROVE  ChainsInv' /\ processStacks' = processStacks
  <1>1. \A t \in Terms : /\ processStacks'[t] = processStacks[t]
                         /\ active'[t] = 1 => \E s : TermChain(s, t)'
    BY StackKept DEF pcbVars, termVars
  <1> QED BY <1>1, StacksSame DEF ChainsInv

\* execute starts the first process of the displayed terminal, in a terminal
\* that was empty or whose only process has just been freed.
LEMMA FirstStacks ==
    ASSUME ChainsInv, TypeOK, NEW back,
           NEW pids \in [Pids -> {0, 1}], NEW act \in [Terms -> {0, 1}],
           act[cur_term] = 0,
           \A t \in Terms \ {cur_term} : act[t] = active[t],
           \A p \in Pids : Allocated(p) /\ term[p] # cur_term => pids[p] = 1,
           execute(pids, act, apn, back)
    PROVE  /\ ChainsInv'
           /\ \E n \in Pids : /\ pids[n] = 0
                              /\ processStacks' = [processStacks EXCEPT ![cur_term] = <<n>>]
  <1>0. cur_term \in Terms
    BY DEF TypeOK
  <1>1. PICK n \in Pids :
           /\ pids[n] = 0
           /\ pid_array' = [pids EXCEPT ![n] = 1]
           /\ parent_process_number' = [parent_process_number EXCEPT ![n] = n]
           /\ active' = [act EXCEPT ![cur_term] = 1]
           /\ term' = [term EXCEPT ![n] = cur_term]
           /\ apn' = [apn EXCEPT ![cur_term] = n]
    BY DEF execute, get_proc_num, FirstProcess
  <1>2. Chain(<<n>>, cur_term, pid_array', parent_process_number', term', apn')
    <2>1. /\ pid_array'[n] = 1 /\ parent_process_number'[n] = n
          /\ term'[n] = cur_term /\ apn'[cur_term] = n
      BY <1>0, <1>1 DEF TypeOK
    <2> QED BY <2>1, ChainFirst
  <1>3. active'[cur_term] = 1
    BY <1>0, <1>1
  <1>4. processStacks'[cur_term] = <<n>>
    BY <1>0, <1>2, <1>3, StackIsChain DEF TermChain
  <1>5. ASSUME NEW t \in Terms \ {cur_term}
        PROVE  /\ processStacks'[t] = processStacks[t]
               /\ active'[t] = 1 => \E s : TermChain(s, t)'
    <2>1. active'[t] = active[t] /\ apn'[t] = apn[t]
      BY <1>0, <1>1 DEF TypeOK
    <2>2. ASSUME NEW p \in Pids, pid_array[p] = 1, term[p] = t
          PROVE  /\ pid_array'[p] = 1 /\ term'[p] = t
                 /\ parent_process_number'[p] = parent_process_number[p]
      <3>1. p # n /\ pids[p] = 1
        BY <1>1, <2>2 DEF Allocated
      <3> QED BY <1>1, <2>2, <3>1 DEF TypeOK
    <2> QED BY <2>1, <2>2, StackKept
  <1>6. ChainsInv'
    BY <1>2, <1>5 DEF ChainsInv, TermChain
  <1>7. processStacks' = [processStacks EXCEPT ![cur_term] = <<n>>]
    BY <1>0, <1>4, <1>5, StacksUpdate
  <1> QED BY <1>1, <1>6, <1>7

\* execute starts a child of the active process of the displayed terminal.
LEMMA CallStacks ==
    ASSUME ChainsInv, TypeOK, NEW back, active[cur_term] = 1,
           execute(pid_array, active, apn, back)
    PROVE  /\ ChainsInv'
           /\ \E n \in Pids :
                 /\ pid_array[n] = 0
                 /\ processStacks' = [processStacks EXCEPT
                                         ![cur_term] = Append(processStacks[cur_term], n)]
  <1>0. cur_term \in Terms /\ ~FirstProcess(active)
    BY DEF TypeOK, FirstProcess
  <1>1. PICK n \in Pids :
           /\ pid_array[n] = 0
           /\ pid_array' = [pid_array EXCEPT ![n] = 1]
           /\ parent_process_number' = [parent_process_number EXCEPT ![n] = apn[cur_term]]
           /\ active' = active
           /\ term' = [term EXCEPT ![n] = cur_term]
           /\ apn' = [apn EXCEPT ![cur_term] = n]
    BY <1>0 DEF execute, get_proc_num
  <1> DEFINE s == processStacks[cur_term]
  <1>2. Chain(s, cur_term, pid_array, parent_process_number, term, apn)
    BY <1>0, InUseChain DEF TermChain
  <1> HIDE DEF s
  <1>3. Chain(Append(s, n), cur_term, pid_array', parent_process_number', term', apn')
    BY <1>0, <1>1, <1>2, ChainCall DEF TypeOK
  <1>4. processStacks'[cur_term] = Append(s, n)
    BY <1>0, <1>1, <1>3, StackIsChain DEF TermChain
  <1>5. ASSUME NEW t \in Terms \ {cur_term}
        PROVE  /\ processStacks'[t] = processStacks[t]
               /\ active'[t] = 1 => \E r : TermChain(r, t)'
    <2>1. active'[t] = active[t] /\ apn'[t] = apn[t]
      BY <1>0, <1>1 DEF TypeOK
    <2>2. ASSUME NEW p \in Pids, pid_array[p] = 1, term[p] = t
          PROVE  /\ pid_array'[p] = 1 /\ term'[p] = t
                 /\ parent_process_number'[p] = parent_process_number[p]
      <3>1. p # n
        BY <1>1, <2>2
      <3> QED BY <1>1, <2>2, <3>1 DEF TypeOK
    <2> QED BY <2>1, <2>2, StackKept
  <1>6. ChainsInv'
    BY <1>3, <1>5 DEF ChainsInv, TermChain
  <1>7. processStacks' = [processStacks EXCEPT ![cur_term] = Append(s, n)]
    BY <1>0, <1>4, <1>5, StacksUpdate
  <1> QED BY <1>1, <1>6, <1>7 DEF s

\* halt takes the active process of the executing terminal off its chain.
LEMMA ReturnStacks ==
    ASSUME ChainsInv, TypeOK, active[cur_active_terminal] = 1, halt_child
    PROVE  /\ ChainsInv'
           /\ Len(processStacks[cur_active_terminal]) > 1
           /\ processStacks' = [processStacks EXCEPT ![cur_active_terminal] =
                 SubSeq(processStacks[cur_active_terminal], 1,
                        Len(processStacks[cur_active_terminal]) - 1)]
  <1> DEFINE u == cur_active_terminal
             s == processStacks[u]
             front == SubSeq(s, 1, Len(s) - 1)
  <1>0. u \in Terms
    BY DEF TypeOK
  <1>1. /\ pid_array' = [pid_array EXCEPT ![apn[u]] = 0]
        /\ apn' = [apn EXCEPT ![u] = parent_process_number[apn[u]]]
        /\ parent_process_number[apn[u]] # apn[u]
        /\ UNCHANGED <<parent_process_number, term, active>>
    BY DEF halt_child, pcbVars
  <1>2. Chain(s, u, pid_array, parent_process_number, term, apn)
    BY <1>0, InUseChain DEF TermChain
  <1> HIDE DEF s
  <1>3. /\ Len(s) > 1
        /\ Chain(front, u, [pid_array EXCEPT ![apn[u]] = 0], parent_process_number,
                 term, [apn EXCEPT ![u] = parent_process_number[apn[u]]])
    BY <1>0, <1>1, <1>2, ChainReturn DEF TypeOK
  <1>4. Chain(front, u, pid_array', parent_process_number', term', apn')
    BY <1>1, <1>3
  <1> HIDE DEF front
  <1>5. processStacks'[u] = front /\ active'[u] = 1
    BY <1>0, <1>1, <1>4, StackIsChain DEF TermChain
  <1>6. apn[u] \in Pids /\ term[apn[u]] = u
    BY <1>2 DEF Chain
  <1>7. ASSUME NEW t \in Terms \ {u}
        PROVE  /\ processStacks'[t] = processStacks[t]
               /\ active'[t] = 1 => \E r : TermChain(r, t)'
    <2>1. active'[t] = active[t] /\ apn'[t] = apn[t]
      BY <1>0, <1>1 DEF TypeOK
    <2>2. ASSUME NEW p \in Pids, pid_array[p] = 1, term[p] = t
          PROVE  /\ pid_array'[p] = 1 /\ term'[p] = t
                 /\ parent_process_number'[p] = parent_process_number[p]
      BY <1>1, <1>6, <2>2 DEF TypeOK
    <2> QED BY <2>1, <2>2, StackKept
  <1>8. ChainsInv'
    BY <1>4, <1>7 DEF ChainsInv, TermChain
  <1>9. processStacks' = [processStacks EXCEPT ![u] = front]
    BY <1>0, <1>5, <1>7, StacksUpdate
  <1> QED BY <1>3, <1>8, <1>9 DEF front, s


-----------------------------------------------------------------------------
(***************************************************************************)
(* What that means in ProcessStacks.                                        *)
(***************************************************************************)
\* A free slot of the process table is a process of no stack.
LEMMA FreeSlots ==
    ASSUME ChainsInv, TypeOK, NEW n \in Pids, pid_array[n] = 0
    PROVE  n \in Abstract!Free
  <1>1. ASSUME NEW t \in Terms, n \in Abstract!ToSet(processStacks[t]) PROVE FALSE
    <2>1. PICK i \in DOMAIN processStacks[t] : n = processStacks[t][i]
      BY <1>1 DEF Abstract!ToSet
    <2>2. CASE active[t] = 1
      <3>1. TermChain(processStacks[t], t)
        BY <2>2, InUseChain
      <3> DEFINE s == processStacks[t]
      <3>2. TermChain(s, t) /\ i \in DOMAIN s /\ n = s[i]
        BY <2>1, <3>1
      <3> HIDE DEF s
      <3>3. s \in Seq(Pids) /\ i \in 1 .. Len(s)
        BY <3>2 DEF TermChain, Chain
      <3> QED BY <3>2, <3>3 DEF TermChain, Chain
    <2>3. CASE active[t] # 1
      BY <2>1, <2>3, StackIsChain
    <2> QED BY <2>2, <2>3
  <1> QED BY <1>1 DEF Abstract!Free

\* A terminal in use has a stack, and its active process is the top.
LEMMA ActiveIsTop ==
    ASSUME ChainsInv, NEW t \in Terms, active[t] = 1
    PROVE  Abstract!InUse(t) /\ Abstract!Top(t) = apn[t]
  <1> DEFINE s == processStacks[t]
  <1>1. TermChain(s, t)
    BY InUseChain
  <1> HIDE DEF s
  <1>2. s # <<>> /\ s[Len(s)] = apn[t]
    BY <1>1 DEF TermChain, Chain
  <1> QED BY <1>2 DEF Abstract!InUse, Abstract!Top, Abstract!Last, s

\* A program that runs is the top of the stack of the executing terminal.
LEMMA RunsTop ==
    IInv /\ ChainsInv /\ InUser =>
        /\ cur_active_terminal \in Terms
        /\ processStacks[cur_active_terminal] # <<>>
        /\ cpu.of = processStacks[cur_active_terminal]
                        [Len(processStacks[cur_active_terminal])]
        /\ cpu.of # NONE
  <1> SUFFICES ASSUME IInv, ChainsInv, InUser
               PROVE  /\ cur_active_terminal \in Terms
                      /\ processStacks[cur_active_terminal] # <<>>
                      /\ cpu.of = processStacks[cur_active_terminal]
                                      [Len(processStacks[cur_active_terminal])]
                      /\ cpu.of # NONE
    OBVIOUS
  <1>1. Running /\ cpu.of = apn[cur_active_terminal]
    BY UserFlow DEF UserContext
  <1>2. /\ cur_active_terminal \in Terms /\ active[cur_active_terminal] = 1
        /\ apn[cur_active_terminal] \in Pids
    BY <1>1, ActiveProcesses
  <1>3. /\ Abstract!InUse(cur_active_terminal)
        /\ Abstract!Top(cur_active_terminal) = apn[cur_active_terminal]
    BY <1>2, ActiveIsTop
  <1> QED BY <1>1, <1>2, <1>3, ConstantFacts
          DEF Abstract!InUse, Abstract!Top, Abstract!Last

\* A step that leaves the stacks alone leaves the CPU in the kernel, or in the
\* top of the stack of the terminal that is executing afterwards.
LEMMA DispatchStep ==
    ASSUME IInv', ChainsInv', processStacks' = processStacks, IsStopped' <=> IsStopped
    PROVE  Abstract!Dispatch
  <1>1. (IInv /\ ChainsInv /\ InUser =>
            /\ cur_active_terminal \in Terms
            /\ processStacks[cur_active_terminal] # <<>>
            /\ cpu.of = processStacks[cur_active_terminal]
                            [Len(processStacks[cur_active_terminal])]
            /\ cpu.of # NONE)'
    BY RunsTop, PTL
  <1>2. CASE InUser'
    <2>1. /\ processStacks[cur_active_terminal'] # <<>>
          /\ cpu'.of = processStacks[cur_active_terminal']
                            [Len(processStacks[cur_active_terminal'])]
      BY <1>1, <1>2
    <2> QED BY <1>2, <2>1 DEF Abstract!Dispatch, Abstract!Top, Abstract!Last, Abstract!InUse
  <1>3. CASE ~InUser'
    BY <1>3 DEF Abstract!Dispatch
  <1> QED BY <1>2, <1>3


\* execute pushes the new process on the stack of its caller.
LEMMA CallRefines ==
    ASSUME Windows = {}, IInv, ChainsInv, sys_execute
    PROVE  ChainsInv' /\ Abstract!Call /\ ~IsStopped
  <1>1. /\ InUser /\ cur_term = cur_active_terminal
        /\ execute(pid_array, active, apn, cpu)
    BY DEF sys_execute, Foreground
  <1>2. TypeOK /\ Running /\ active[cur_term] = 1 /\ cpu.of # NONE
    BY <1>1, UserFlow, ActiveProcesses, RunsTop DEF IInv
  <1>3. PICK n \in Pids :
           /\ pid_array[n] = 0
           /\ processStacks' = [processStacks EXCEPT
                                   ![cur_term] = Append(processStacks[cur_term], n)]
    BY <1>1, <1>2, CallStacks
  <1>4. ChainsInv'
    BY <1>1, <1>2, CallStacks
  <1>5. n \in Abstract!Free
    BY <1>2, <1>3, FreeSlots
  <1>6. ~FirstProcess(active)
    BY <1>2 DEF FirstProcess
  <1>7. /\ cur_active_terminal' = cur_active_terminal /\ cur_term' = cur_term
        /\ cpu'.at = "iret"
    BY <1>1, <1>6 DEF execute
  <1>8. ~InUser' /\ ~IsStopped' /\ ~IsStopped
    BY <1>1, <1>7 DEF InUser, IsStopped
  <1> QED BY <1>1, <1>2, <1>3, <1>4, <1>5, <1>7, <1>8 DEF Abstract!Call

\* halt of a process that another one executed pops it.
LEMMA ReturnRefines ==
    ASSUME IInv, ChainsInv, halt_child
    PROVE  ChainsInv' /\ Abstract!Return /\ ~IsStopped
  <1>1. InUser /\ cpu'.at = "halt" /\ UNCHANGED <<cur_term, cur_active_terminal>>
    <2>1. cpu \in ContextRecords
      BY DEF IInv, TypeOK, Contexts
    <2> QED BY <2>1 DEF halt_child, ContextRecords
  <1>2. TypeOK /\ Running /\ active[cur_active_terminal] = 1 /\ cpu.of # NONE
    BY <1>1, UserFlow, ActiveProcesses, RunsTop DEF IInv
  <1>3. /\ ChainsInv'
        /\ Len(processStacks[cur_active_terminal]) > 1
        /\ processStacks' = [processStacks EXCEPT ![cur_active_terminal] =
              SubSeq(processStacks[cur_active_terminal], 1,
                     Len(processStacks[cur_active_terminal]) - 1)]
    BY <1>2, ReturnStacks
  <1>4. ~InUser' /\ ~IsStopped' /\ ~IsStopped
    BY <1>1 DEF InUser, IsStopped
  <1> QED BY <1>1, <1>2, <1>3, <1>4 DEF Abstract!Return, Abstract!Front

\* halt of a first shell puts another one in its place.
LEMMA RestartRefines ==
    ASSUME Windows = {}, IInv, ChainsInv, halt_root
    PROVE  ChainsInv' /\ Abstract!Restart /\ ~IsStopped
  <1> DEFINE u == cur_active_terminal
             cur == apn[u]
             pids == [pid_array EXCEPT ![cur] = 0]
             act == [active EXCEPT ![u] = 0]
             back == [cpu EXCEPT !.at = "unwind", !.of = cur]
  <1>1. /\ InUser /\ cur_term = u
        /\ parent_process_number[cur] = cur
        /\ execute(pids, act, apn, back)
    BY DEF halt_root, Foreground
  <1>2. /\ TypeOK /\ Running /\ active[u] = 1 /\ u \in Terms /\ cur \in Pids
        /\ cpu.of = cur /\ cpu.of # NONE
    BY <1>1, UserFlow, ActiveProcesses, RunsTop DEF IInv, UserContext
  <1>3. TermChain(processStacks[u], u)
    BY <1>2, InUseChain
  <1>4. Len(processStacks[u]) = 1
    BY <1>1, <1>3, ChainRoot DEF TermChain
  <1>5. term[cur] = u
    BY <1>2, ForestSuffices DEF ProcessForest
  <1>6. /\ pids \in [Pids -> {0, 1}] /\ act \in [Terms -> {0, 1}]
        /\ act[u] = 0 /\ \A t \in Terms \ {u} : act[t] = active[t]
        /\ \A p \in Pids : Allocated(p) /\ term[p] # u => pids[p] = 1
        /\ \A p \in Pids : pids[p] = 0 => p = cur \/ pid_array[p] = 0
    BY <1>2, <1>5 DEF TypeOK, Allocated
  <1>7. /\ cur_active_terminal' = cur_term /\ cur_term' = cur_term
        /\ cpu'.at = "iret"
    <2>1. FirstProcess(act)
      BY <1>1, <1>6 DEF FirstProcess
    <2> HIDE DEF act, pids, back
    <2> QED BY <1>1, <2>1 DEF execute
  <1> HIDE DEF pids, act, back
  <1>8. /\ ChainsInv'
        /\ \E n \in Pids : /\ pids[n] = 0
                           /\ processStacks' = [processStacks EXCEPT ![cur_term] = <<n>>]
    BY <1>1, <1>2, <1>6, FirstStacks
  <1>9. PICK n \in Pids : /\ pids[n] = 0
                          /\ processStacks' = [processStacks EXCEPT ![u] = <<n>>]
    BY <1>1, <1>8
  <1>10. n \in Abstract!Free \cup {cpu.of}
    BY <1>2, <1>6, <1>9, FreeSlots
  <1>11. ~InUser' /\ ~IsStopped' /\ ~IsStopped
    BY <1>1, <1>7 DEF InUser, IsStopped
  <1> QED BY <1>1, <1>2, <1>4, <1>7, <1>8, <1>9, <1>10, <1>11 DEF Abstract!Restart

\* A shell is launched only when one is pending, with the displayed terminal
\* empty and the machine up.
LEMMA LaunchFlow ==
    ASSUME IInv, launch_shell
    PROVE  active[cur_term] = 0 /\ ~IsStopped /\ cur_term \in Terms
  <1>1. cpu.nested > 0 /\ cpu \in ContextRecords /\ cur_term \in Terms
    BY DEF launch_shell, IInv, TypeOK, Contexts
  <1>2. CASE Booting
    BY <1>1, <1>2 DEF Booting, IsStopped
  <1>3. CASE Running
    <2>1. active[cur_term] = 0
      BY <1>1, <1>3 DEF Running, LaunchInv
    <2>2. ~IsStopped
      BY <1>1, <1>3 DEF Running, FlowInv, IsStopped
    <2> QED BY <1>1, <2>1, <2>2
  <1> QED BY <1>2, <1>3 DEF IInv

\* launch_shell opens the displayed terminal, or, with no process number left,
\* goes back to what was interrupted.
LEMMA LaunchRefines ==
    ASSUME IInv, IInv', ChainsInv, launch_shell
    PROVE  ChainsInv' /\ (Abstract!Open \/ Abstract!Enter) /\ ~IsStopped
  <1> DEFINE back == [cpu EXCEPT !.nested = @ - 1]
  <1>1. TypeOK /\ active[cur_term] = 0 /\ ~IsStopped /\ cur_term \in Terms
    BY LaunchFlow DEF IInv
  <1>2. CASE execute(pid_array, active, apn, back)
    <2> HIDE DEF back
    <2>1. FirstProcess(active)
      BY <1>1 DEF FirstProcess
    <2>2. /\ cur_active_terminal' = cur_term /\ cur_term' = cur_term
          /\ cpu'.at = "iret"
      BY <1>2, <2>1 DEF execute
    <2>3. /\ ChainsInv'
          /\ \E n \in Pids : /\ pid_array[n] = 0
                             /\ processStacks' = [processStacks EXCEPT ![cur_term] = <<n>>]
      <3>1. pid_array \in [Pids -> {0, 1}] /\ active \in [Terms -> {0, 1}]
        BY <1>1 DEF TypeOK
      <3>2. \A p \in Pids : Allocated(p) /\ term[p] # cur_term => pid_array[p] = 1
        BY DEF Allocated
      <3> QED BY <1>1, <1>2, <3>1, <3>2, FirstStacks
    <2>4. PICK n \in Pids : /\ pid_array[n] = 0
                            /\ processStacks' = [processStacks EXCEPT ![cur_term] = <<n>>]
      BY <2>3
    <2>5. n \in Abstract!Free
      BY <1>1, <2>4, FreeSlots
    <2>6. ~InUser' /\ ~IsStopped'
      BY <2>2 DEF InUser, IsStopped
    <2>7. ~Abstract!InUse(cur_term)
      BY <1>1, StackIsChain DEF Abstract!InUse
    <2>8. Abstract!Open
      BY <1>1, <2>2, <2>4, <2>5, <2>6, <2>7 DEF Abstract!Open
    <2> QED BY <1>1, <2>3, <2>8
  <1>3. CASE ~execute(pid_array, active, apn, back)
    <2>1. /\ cpu' = Resume(back, esp0)
          /\ UNCHANGED <<pid_array, pcbVars, termVars, cur_term, cur_active_terminal>>
      BY <1>3 DEF launch_shell
    <2>2. ChainsInv' /\ processStacks' = processStacks
      BY <1>1, <2>1, TablesKept
    <2>3. ~IsStopped'
      <3>1. cpu \in ContextRecords
        BY <1>1 DEF TypeOK, Contexts
      <3> QED BY <1>1, <2>1, <3>1 DEF Resume, IsStopped, ContextRecords
    <2>4. Abstract!Dispatch
      BY <1>1, <2>2, <2>3, DispatchStep
    <2>5. Abstract!Enter
      BY <2>1, <2>4 DEF Abstract!Enter
    <2> QED BY <1>1, <2>2, <2>5
  <1> QED BY <1>2, <1>3


\* The timer gives the CPU to a terminal that is in use.
LEMMA TimerRefines ==
    ASSUME Windows = {}, IInv, IInv', ChainsInv, PIT_scheduling
    PROVE  ChainsInv' /\ Abstract!Schedule /\ ~IsStopped
  <1>1. PICK d \in 1 .. MAX_TERM - 1 :
           /\ get_next_scheduled(d)
           /\ process_contextswitch(apn[Probe(d)], Probe(d))
    BY DEF PIT_scheduling
  <1>2. Running /\ cpu.at # "stop"
    BY InterruptedFlow DEF PIT_scheduling
  <1>3. TypeOK /\ active[0] = 1 /\ apn[cur_active_terminal] \in Pids
    BY <1>2, ActiveProcesses DEF IInv, Running, FlowInv
  <1>4. Probe(d) \in Terms /\ active[Probe(d)] = 1
    BY <1>1, <1>3, ProbeType, NextIsActive DEF PIT_scheduling, TypeOK
  <1>5. apn[Probe(d)] # NONE
    BY <1>3, <1>4 DEF TypeOK
  <1>6. /\ cur_active_terminal' = Probe(d)
        /\ UNCHANGED <<pid_array, pcbVars, termVars, cur_term>>
    BY <1>1, <1>3, <1>5, ConstantFacts DEF process_contextswitch
  <1>7. ChainsInv' /\ processStacks' = processStacks
    BY <1>3, <1>6, TablesKept
  <1>8. ~IsStopped'
    <2> DEFINE next == apn[Probe(d)]
    <2>1. /\ next \in Pids
          /\ esp' = [esp EXCEPT ![apn[cur_active_terminal]] = cpu]
          /\ cpu' = Resume(esp'[next], esp0')
      BY <1>1, <1>3, <1>4, <1>5, ConstantFacts
         DEF process_contextswitch, SaveEsp, TypeOK
    <2>2. esp'[next] \in ContextRecords /\ esp'[next].at # "stop"
      <3>1. esp'[next] \in ContextRecords
        BY <2>1 DEF IInv, TypeOK, Contexts
      <3>2. CASE next = apn[cur_active_terminal]
        BY <1>2, <1>3, <2>1, <3>1, <3>2 DEF TypeOK
      <3>3. CASE next # apn[cur_active_terminal]
        <4>1. Probe(d) \in SuspendedTerms
          BY <1>4, <3>3 DEF SuspendedTerms
        <4>2. SavedFlow(Probe(d)) /\ esp'[next] = esp[next]
          BY <1>2, <1>3, <2>1, <3>3, <4>1 DEF Running, TypeOK
        <4> QED BY <3>1, <4>2 DEF SavedFlow
      <3> QED BY <3>2, <3>3
    <2> QED BY <2>1, <2>2 DEF Resume, IsStopped, ContextRecords
  <1>9. Abstract!Dispatch
    BY <1>2, <1>7, <1>8, DispatchStep DEF IsStopped
  <1>10. Abstract!InUse(Probe(d))
    BY <1>4, ActiveIsTop
  <1> QED BY <1>2, <1>4, <1>6, <1>7, <1>9, <1>10 DEF Abstract!Schedule, IsStopped

\* Alt-Fn shows the other terminal, and changes no stack.
LEMMA SwitchRefines ==
    ASSUME Windows = {}, IInv, IInv', ChainsInv, NEW t \in Terms, switch_terminal(t)
    PROVE  ChainsInv' /\ Abstract!Show /\ ~IsStopped
  <1>1. TypeOK /\ Interruptible /\ cpu \in ContextRecords
    BY DEF IInv, TypeOK, Contexts, switch_terminal, switch_to_active, switch_to_inactive
  <1>2. Running /\ cpu.at # "stop"
    BY <1>1, InterruptedFlow
  <1>3. apn[cur_active_terminal] # NONE
    BY <1>2, ActiveProcesses, ConstantFacts
  <1>4. /\ cur_term' = t
        /\ UNCHANGED <<pid_array, pcbVars, termVars, cur_active_terminal>>
        /\ cpu'.at = cpu.at
    <2>1. CASE switch_to_active(t)
      BY <2>1 DEF switch_to_active
    <2>2. CASE switch_to_inactive(t)
      BY <1>1, <1>3, <2>2 DEF switch_to_inactive, ContextRecords
    <2> QED BY <2>1, <2>2 DEF switch_terminal
  <1>5. ChainsInv' /\ processStacks' = processStacks
    BY <1>1, <1>4, TablesKept
  <1>6. Abstract!Dispatch
    BY <1>4, <1>5, DispatchStep DEF IsStopped
  <1> QED BY <1>2, <1>4, <1>5, <1>6 DEF Abstract!Show, IsStopped

\* The steps between the kernel and a program that change no table.
LEMMA EnterRefines ==
    ASSUME IInv, IInv', ChainsInv, execute_iret \/ halt_return \/ vidmap
    PROVE  ChainsInv' /\ Abstract!Enter /\ ~IsStopped
  <1>1. TypeOK /\ cpu \in ContextRecords
    BY DEF IInv, TypeOK, Contexts
  <1>2. /\ UNCHANGED <<pid_array, pcbVars, termVars, cur_term, cur_active_terminal>>
        /\ cpu'.at = "user" /\ cpu.at # "stop"
    <2>1. CASE execute_iret
      BY <1>1, <2>1 DEF execute_iret, ContextRecords
    <2>2. CASE halt_return
      BY <2>2, ReturnedFlow DEF halt_return, UserContext
    <2>3. CASE vidmap
      BY <2>3 DEF vidmap, InUser
    <2> QED BY <2>1, <2>2, <2>3
  <1>3. ChainsInv' /\ processStacks' = processStacks
    BY <1>1, <1>2, TablesKept
  <1>4. Abstract!Dispatch
    BY <1>2, <1>3, DispatchStep DEF IsStopped
  <1> QED BY <1>2, <1>3, <1>4 DEF Abstract!Enter, IsStopped

\* An exception in a program stops the machine, and changes no table.
LEMMA CrashRefines ==
    ASSUME IInv, ChainsInv, exception
    PROVE  ChainsInv' /\ Abstract!Crash /\ ~IsStopped
  <1>1. /\ UNCHANGED <<pid_array, pcbVars, termVars, cur_term, cur_active_terminal>>
        /\ cpu'.at = "stop" /\ cpu.at # "stop"
    BY DEF exception, InUser, Stopped
  <1>2. ChainsInv' /\ processStacks' = processStacks
    BY <1>1, TablesKept DEF IInv
  <1> QED BY <1>1, <1>2 DEF Abstract!Crash, IsStopped, InUser

\* Every step of the kernel is a step of ProcessStacks, or none.
LEMMA StepRefines ==
    ASSUME Windows = {}
    PROVE  IInv /\ IInv' /\ ChainsInv /\ [Next]_vars =>
               ChainsInv' /\ [Abstract!AbsNext]_(Abstract!absVars)
  <1> SUFFICES ASSUME IInv, IInv', ChainsInv, [Next]_vars
               PROVE  ChainsInv' /\ [Abstract!AbsNext]_(Abstract!absVars)
    OBVIOUS
  <1>1. CASE UNCHANGED vars
    <2>1. ChainsInv' /\ processStacks' = processStacks
      BY <1>1, TablesKept DEF IInv, vars
    <2>2. UNCHANGED <<cur_active_terminal, cur_term, cpu>>
      BY <1>1 DEF vars
    <2> QED BY <2>1, <2>2 DEF Abstract!absVars, InUser, IsStopped
  <1>2. key_enter \/ stop => UNCHANGED vars
    BY DEF key_enter, stop
  <1>3. CASE /\ ChainsInv' /\ ~IsStopped
             /\ \/ Abstract!Call \/ Abstract!Return \/ Abstract!Restart
                \/ Abstract!Open \/ Abstract!Enter \/ Abstract!Schedule
                \/ Abstract!Show \/ Abstract!Crash
    BY <1>3 DEF Abstract!AbsNext
  <1>4. CASE PIT_scheduling
    BY <1>3, <1>4, TimerRefines
  <1>5. CASE sys_execute
    BY <1>3, <1>5, CallRefines
  <1>6. CASE halt_root
    BY <1>3, <1>6, RestartRefines
  <1>7. CASE halt_child
    BY <1>3, <1>7, ReturnRefines
  <1>8. CASE execute_iret \/ halt_return \/ vidmap
    BY <1>3, <1>8, EnterRefines
  <1>9. CASE exception
    BY <1>3, <1>9, CrashRefines
  <1>10. CASE launch_shell
    BY <1>3, <1>10, LaunchRefines
  <1>11. CASE \E t \in Terms : switch_terminal(t)
    BY <1>3, <1>11, SwitchRefines
  <1> QED BY <1>1, <1>2, <1>4, <1>5, <1>6, <1>7, <1>8, <1>9, <1>10, <1>11 DEF Next

\* For every number of processes and terminals, the kernel whose windows are
\* closed implements the stacks of processes: what execute, halt, the timer,
\* Alt-Fn and exceptions do to PCBs and terminals is, seen through the chains
\* of parents, a step of ProcessStacks.
THEOREM StacksImplemented ==
    ASSUME Windows = {}
    PROVE  Spec => ImplementsProcessStacks
  <1>1. Init => ChainsInv
    BY DEF Init, ChainsInv
  <1>2. Init => Abstract!AbsInit
    <2> SUFFICES ASSUME Init PROVE Abstract!AbsInit
      OBVIOUS
    <2>1. processStacks = [t \in Terms |-> <<>>]
      BY DEF Init, processStacks
    <2> QED BY <2>1, ConstantFacts DEF Init, Abstract!AbsInit, InUser, IsStopped
  <1> QED BY <1>1, <1>2, StepRefines, IInvInvariant, PTL
          DEF Spec, ImplementsProcessStacks, Abstract!AbsSpec

\* The same of the specification with the history variable, which is the one
\* the run checks.
THEOREM VideoStacksImplemented ==
    ASSUME Windows = {}
    PROVE  VideoSpec => ImplementsProcessStacks
  BY StacksImplemented, VideoImplementsKernel, PTL
=============================================================================
