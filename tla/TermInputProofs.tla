--------------------------- MODULE TermInputProofs ---------------------------
(***************************************************************************)
(* Proofs about line input, for every number of terminals, every set of     *)
(* keys, every size of the buffers and every length of a read.              *)
(***************************************************************************)
EXTENDS TermInput, SequenceTheorems, WellFoundedInduction, TLAPS

\* What the provers need of the assumption on the constants.
LEMMA ConstantFacts ==
    /\ NL \notin Keys
    /\ KEY_BUFFER_SIZE \in Nat /\ KEY_BUFFER_SIZE > 0
    /\ MAX_IDX \in Nat /\ MAX_IDX > KEY_BUFFER_SIZE
    /\ COPIED \in 0 .. KEY_BUFFER_SIZE
  BY InputAssumption DEF COPIED

-----------------------------------------------------------------------------
(***************************************************************************)
(* Sequences of keys.                                                       *)
(***************************************************************************)
\* The line without its last key.
LEMMA FrontFacts ==
    ASSUME NEW S, NEW s \in Seq(S), s # <<>>
    PROVE  /\ Front(s) \in Seq(S) /\ Len(s) \in Nat \ {0} /\ Len(Front(s)) = Len(s) - 1
           /\ \A k \in 1 .. Len(s) - 1 : Front(s)[k] = s[k]
  <1>1. Len(s) \in Nat \ {0}
    BY EmptySeq
  <1>2. \A k \in 1 .. Len(s) - 1 : s[k] \in S
    BY <1>1, ElementOfSeq
  <1> DEFINE n == Len(s) - 1
  <1>3. n \in Nat
    BY <1>1
  <1> HIDE DEF n
  <1>4. /\ SubSeq(s, 1, n) \in Seq(S)
        /\ Len(SubSeq(s, 1, n)) = IF 1 <= n THEN n - 1 + 1 ELSE 0
        /\ \A k \in 1 .. n - 1 + 1 : SubSeq(s, 1, n)[k] = s[1 + k - 1]
    BY <1>2, <1>3, SubSeqProperties DEF n
  <1>5. Front(s) = SubSeq(s, 1, n)
    BY DEF Front, n
  <1>6. /\ n - 1 + 1 = n /\ (~(1 <= n) => n = 0)
        /\ \A k \in 1 .. n : 1 + k - 1 = k
    BY <1>3
  <1>7. /\ Front(s) \in Seq(S) /\ Len(Front(s)) = n
        /\ \A k \in 1 .. n : Front(s)[k] = s[k]
    BY <1>3, <1>4, <1>5, <1>6
  <1> QED BY <1>1, <1>7 DEF n

\* A set of numbers that is not empty has a least one.
LEMMA LeastNumber ==
    ASSUME NEW T, T \subseteq Nat, T # {}
    PROVE  \E n \in T : \A m \in T : n <= m
  <1>1. PICK n \in T : \A m \in T : <<m, n>> \notin OpToRel(<, Nat)
    BY NatLessThanWellFounded, WFMin
  <1>2. \A m \in T : ~(m < n)
    BY <1>1 DEF OpToRel
  <1> QED BY <1>2

\* What is left after a line is a sequence of keys again.
LEMMA AfterLineType ==
    ASSUME NEW s \in Seq(Typed)
    PROVE  AfterLine(s) \in Seq(Typed)
  <1> DEFINE ends == {n \in DOMAIN s : s[n].key = NL}
             first == CHOOSE n \in ends : \A m \in ends : n <= m
  <1>1. Len(s) \in Nat /\ DOMAIN s = 1 .. Len(s)
    BY LenProperties
  <1>2. CASE ends = {}
    BY <1>2, EmptySeq DEF AfterLine
  <1>3. CASE ends # {}
    <2>1. AfterLine(s) = SubSeq(s, first + 1, Len(s))
      BY <1>3 DEF AfterLine
    <2>2. first \in 1 .. Len(s)
      <3>1. \E n \in ends : \A m \in ends : n <= m
        <4>1. ends \subseteq Nat /\ ends # {}
          BY <1>1, <1>3
        <4> QED BY <4>1, LeastNumber
      <3>2. first \in ends
        BY <3>1
      <3> QED BY <1>1, <3>2
    <2> HIDE DEF first
    <2>3. \A k \in first + 1 .. Len(s) : s[k] \in Typed
      BY <1>1, <2>2, ElementOfSeq
    <2>4. first + 1 \in Int
      BY <2>2
    <2> QED BY <1>1, <2>1, <2>3, <2>4, SubSeqProperties
  <1> QED BY <1>2, <1>3

-----------------------------------------------------------------------------
(***************************************************************************)
(* Types, with every race.                                                  *)
(***************************************************************************)
\* Every step keeps the types, also when ENTER writes beyond the buffer or two
\* calls use the same one.
LEMMA TypeOKStep == TypeOK /\ [Next]_vars => TypeOK'
  <1> SUFFICES ASSUME TypeOK, [Next]_vars PROVE TypeOK'
    OBVIOUS
  <1> USE ConstantFacts DEF TypeOK
  <1>0. Empty \in Typed \cup {Empty}
    OBVIOUS
  <1>1. ASSUME NEW k \in Keys, press(k) PROVE TypeOK'
    <2> DEFINE cell == [key |-> k, from |-> cur_term]
    <2>1. cell \in Typed
      BY DEF Typed
    <2> HIDE DEF cell
    <2>2. /\ key_buffer_idx < KEY_BUFFER_SIZE
          /\ key_buffer' = [key_buffer EXCEPT ![cur_term][key_buffer_idx] = cell]
          /\ key_buffer_idx' = key_buffer_idx + 1
          /\ pending' = [pending EXCEPT ![cur_term] = Append(@, cell)]
          /\ UNCHANGED <<saved_idx, cur_term, eflag, pc, i, buffer>>
      BY <1>1 DEF press, readVars, cell
    <2>3. Append(pending[cur_term], cell) \in Seq(Typed)
      BY <2>1, AppendProperties
    <2>4. pending' \in [Terms -> Seq(Typed)]
      BY <2>2, <2>3
    <2>5. key_buffer' \in [Terms -> [Cells -> Typed \cup {Empty}]]
      BY <2>1, <2>2
    <2> QED BY <2>2, <2>4, <2>5
  <1>2. CASE backspace
    <2>1. /\ key_buffer_idx > 0 /\ key_buffer_idx' = key_buffer_idx - 1
          /\ key_buffer' = [key_buffer EXCEPT ![cur_term][key_buffer_idx - 1] = Empty]
          /\ pending' = [pending EXCEPT ![cur_term] = IF @ = <<>> THEN <<>> ELSE Front(@)]
          /\ UNCHANGED <<saved_idx, cur_term, eflag, pc, i, buffer>>
      BY <1>2 DEF backspace, erase, Erasable, readVars
    <2>2. \A s \in Seq(Typed) : (IF s = <<>> THEN <<>> ELSE Front(s)) \in Seq(Typed)
      BY EmptySeq, FrontFacts
    <2>3. pending' \in [Terms -> Seq(Typed)]
      BY <2>1, <2>2
    <2>4. key_buffer' \in [Terms -> [Cells -> Typed \cup {Empty}]]
      BY <1>0, <2>1
    <2> QED BY <2>1, <2>3, <2>4
  <1>3. CASE enter
    <2> DEFINE cell == [key |-> NL, from |-> cur_term]
    <2>1. cell \in Typed
      BY DEF Typed
    <2> HIDE DEF cell
    <2>2. /\ key_buffer_idx < MAX_IDX
          /\ eflag' = [eflag EXCEPT ![cur_term] = 1]
          /\ key_buffer' = IF key_buffer_idx \in Cells
                           THEN [key_buffer EXCEPT ![cur_term][key_buffer_idx] = cell]
                           ELSE key_buffer
          /\ key_buffer_idx' = key_buffer_idx + 1
          /\ pending' = [pending EXCEPT ![cur_term] = Append(@, cell)]
          /\ UNCHANGED <<saved_idx, cur_term, pc, i, buffer>>
      BY <1>3 DEF enter, readVars, cell
    <2>3. Append(pending[cur_term], cell) \in Seq(Typed)
      BY <2>1, AppendProperties
    <2>4. pending' \in [Terms -> Seq(Typed)]
      BY <2>2, <2>3
    <2>5. key_buffer' \in [Terms -> [Cells -> Typed \cup {Empty}]]
      BY <2>1, <2>2
    <2> QED BY <2>2, <2>4, <2>5
  <1>4. ASSUME NEW t \in Terms, switch_terminal(t) PROVE TypeOK'
    BY <1>4 DEF switch_terminal, save_restore, readVars
  <1>5. ASSUME NEW t \in Terms, terminal_read(t) PROVE TypeOK'
    <2>1. CASE read_call(t)
      BY <1>0, <2>1 DEF read_call, kbdVars, Goto
    <2>2. CASE read_wake(t)
      BY <2>2 DEF read_wake, kbdVars, Goto
    <2>3. CASE read_reset(t)
      BY <2>3 DEF read_reset, kbdVars, Goto
    <2>4. CASE read_copy(t)
      <3>1. UNCHANGED <<key_buffer, saved_idx, key_buffer_idx, cur_term, eflag, pending>>
        BY <2>4 DEF read_copy, kbdVars
      <3>2. CASE i[t] < COPIED
        <4>1. /\ buffer' = [buffer EXCEPT ![t][i[t]] = key_buffer[cur_term][i[t]]]
              /\ i' = [i EXCEPT ![t] = @ + 1] /\ pc' = pc
          BY <2>4, <3>2 DEF read_copy
        <4>2. i[t] \in 0 .. COPIED - 1 /\ i[t] \in Cells
          BY <3>2 DEF Cells
        <4>3. buffer' \in [Terms -> [0 .. COPIED - 1 -> Typed \cup {Empty}]]
          BY <4>1, <4>2
        <4>4. i' \in [Terms -> 0 .. KEY_BUFFER_SIZE]
          BY <3>2, <4>1
        <4> QED BY <3>1, <4>1, <4>3, <4>4
      <3>3. CASE ~(i[t] < COPIED)
        <4>1. /\ i' = [i EXCEPT ![t] = 0] /\ pc' = [pc EXCEPT ![t] = "clear"]
              /\ buffer' = buffer
          BY <2>4, <3>3 DEF read_copy, Goto
        <4> QED BY <3>1, <4>1
      <3> QED BY <3>2, <3>3
    <2>5. CASE read_clear(t)
      <3>1. UNCHANGED <<saved_idx, cur_term, eflag, buffer>>
        BY <2>5 DEF read_clear
      <3>2. CASE i[t] < KEY_BUFFER_SIZE
        <4>1. /\ key_buffer' = [key_buffer EXCEPT ![cur_term][i[t]] = Empty]
              /\ i' = [i EXCEPT ![t] = @ + 1] /\ UNCHANGED <<key_buffer_idx, pc, pending>>
          BY <2>5, <3>2 DEF read_clear
        <4>2. key_buffer' \in [Terms -> [Cells -> Typed \cup {Empty}]]
          BY <1>0, <4>1
        <4>3. i' \in [Terms -> 0 .. KEY_BUFFER_SIZE]
          BY <3>2, <4>1
        <4> QED BY <3>1, <4>1, <4>2, <4>3
      <3>3. CASE ~(i[t] < KEY_BUFFER_SIZE)
        <4>1. /\ key_buffer_idx' = 0 /\ i' = [i EXCEPT ![t] = 0]
              /\ pc' = [pc EXCEPT ![t] = "idle"]
              /\ pending' = [pending EXCEPT ![t] = AfterLine(@)] /\ key_buffer' = key_buffer
          BY <2>5, <3>3 DEF read_clear, clear_idx, Goto
        <4>2. AfterLine(pending[t]) \in Seq(Typed)
          BY AfterLineType
        <4>3. pending' \in [Terms -> Seq(Typed)]
          BY <4>1, <4>2
        <4> QED BY <3>1, <4>1, <4>3
      <3> QED BY <3>2, <3>3
    <2> QED BY <1>5, <2>1, <2>2, <2>3, <2>4, <2>5 DEF terminal_read
  <1>6. CASE UNCHANGED vars
    BY <1>6 DEF vars, kbdVars, readVars
  <1> QED BY <1>1, <1>2, <1>3, <1>4, <1>5, <1>6 DEF Next

\* Boot: no keys, no line, nobody reading.
LEMMA TypeOKInit == Init => TypeOK
  BY ConstantFacts, EmptySeq DEF Init, TypeOK

\* The buffers, the indices and the program points keep their types, whatever
\* is typed and displayed while lines are read.
THEOREM TypeCorrect == Spec => []TypeOK
  BY TypeOKInit, TypeOKStep, PTL DEF Spec

-----------------------------------------------------------------------------
(***************************************************************************)
(* The inductive invariant, while nothing is typed or switched between      *)
(* ENTER and the return of the line.                                        *)
(***************************************************************************)
\* What has been typed in t: a line under way, or one that ENTER has ended and
\* that waits, displayed, for terminal_read.  The index is that of its end.
LineInv(t) ==
    /\ \A n \in 1 .. Len(pending[t]) :
          /\ pending[t][n].from = t
          /\ pending[t][n].key = NL => LineInFlight(t) /\ n = Len(pending[t])
    /\ Len(pending[t]) <= KEY_BUFFER_SIZE + 1
    /\ Len(pending[t]) = KEY_BUFFER_SIZE + 1 => LineInFlight(t)
    /\ LineInFlight(t) =>
          /\ t = cur_term /\ pending[t] # <<>>
          /\ pending[t][Len(pending[t])].key = NL
    /\ Index(t) = Len(pending[t])

\* Where terminal_read is with it: the flag is down once it copies, the cells
\* before the loop counter are copied, and later cleared.
ReadInv(t) ==
    /\ pc[t] = "reset" => eflag[t] = 1
    /\ pc[t] \in {"copy", "clear"} => eflag[t] = 0
    /\ \A c \in 0 .. KEY_BUFFER_SIZE - 1 :
          key_buffer[t][c] = IF pc[t] = "clear" /\ c < i[t] THEN Empty
                             ELSE CellOf(pending[t], c)
    /\ \A c \in 0 .. COPIED - 1 :
          pc[t] = "clear" \/ (pc[t] = "copy" /\ c < i[t])
             => buffer[t][c] = CellOf(pending[t], c)
    /\ \A c \in 0 .. COPIED - 1 : buffer[t][c] # Empty => buffer[t][c].from = t

IInv == TypeOK /\ \A t \in Terms : LineInv(t) /\ ReadInv(t)

\* The cells of a line with one key more, and with one key less.
LEMMA CellOfAppend ==
    ASSUME NEW s \in Seq(Typed), NEW e \in Typed, NEW c \in Nat
    PROVE  CellOf(Append(s, e), c) = IF c = Len(s) THEN e ELSE CellOf(s, c)
  <1>1. /\ Len(s) \in Nat /\ Len(Append(s, e)) = Len(s) + 1
        /\ \A n \in 1 .. Len(s) : Append(s, e)[n] = s[n]
        /\ Append(s, e)[Len(s) + 1] = e
    BY LenProperties, AppendProperties
  <1>2. CASE c < Len(s)
    BY <1>1, <1>2 DEF CellOf
  <1>3. CASE c = Len(s)
    BY <1>1, <1>3 DEF CellOf
  <1>4. CASE c > Len(s)
    BY <1>1, <1>4 DEF CellOf
  <1> QED BY <1>1, <1>2, <1>3, <1>4

\* BACKSPACE empties one cell of the buffer and leaves the others.
LEMMA CellOfFront ==
    ASSUME NEW s \in Seq(Typed), s # <<>>, NEW c \in Nat
    PROVE  CellOf(Front(s), c) = IF c = Len(s) - 1 THEN Empty ELSE CellOf(s, c)
  <1>1. /\ Len(s) \in Nat \ {0} /\ Len(Front(s)) = Len(s) - 1
        /\ \A n \in 1 .. Len(s) - 1 : Front(s)[n] = s[n]
    BY FrontFacts
  <1>2. CASE c < Len(s) - 1
    BY <1>1, <1>2 DEF CellOf
  <1>3. CASE c = Len(s) - 1
    BY <1>1, <1>3 DEF CellOf
  <1>4. CASE c > Len(s) - 1
    BY <1>1, <1>4 DEF CellOf
  <1> QED BY <1>1, <1>2, <1>3, <1>4

\* A line that ENTER has ended, with nothing typed after it.
OneLine(s) ==
    /\ s # <<>> /\ s[Len(s)].key = NL
    /\ \A n \in 1 .. Len(s) : s[n].key = NL => n = Len(s)

\* Once that line has been returned, nothing is left.
LEMMA AfterOneLine ==
    ASSUME NEW s \in Seq(Typed), OneLine(s)
    PROVE  AfterLine(s) = <<>>
  <1> DEFINE ends == {n \in DOMAIN s : s[n].key = NL}
             first == CHOOSE n \in ends : \A m \in ends : n <= m
  <1>1. Len(s) \in Nat \ {0} /\ DOMAIN s = 1 .. Len(s)
    BY LenProperties, EmptySeq DEF OneLine
  <1>2. ends = {Len(s)}
    <2>1. Len(s) \in ends
      <3>1. Len(s) \in 1 .. Len(s)
        BY <1>1
      <3> QED BY <1>1, <3>1, Zenon DEF OneLine
    <2>2. \A n \in ends : n = Len(s)
      BY <1>1, Zenon DEF OneLine
    <2> QED BY <2>1, <2>2
  <1>3. AfterLine(s) = SubSeq(s, first + 1, Len(s))
    BY <1>2 DEF AfterLine
  <1>4. first = Len(s)
    <2> HIDE DEF ends
    <2>1. \A m \in ends : Len(s) <= m
      BY <1>1, <1>2
    <2>2. first \in ends
      BY <1>2, <2>1
    <2> QED BY <1>2, <2>2
  <1> HIDE DEF first
  <1>5. Len(s) + 1 \in Int /\ Len(s) \in Int /\ Len(s) < Len(s) + 1
    BY <1>1
  <1> QED BY <1>3, <1>4, <1>5, SubSeqEmpty

\* A terminal whose part of the state a step leaves alone.
LEMMA Untouched ==
    ASSUME NEW u \in Terms, LineInv(u), ReadInv(u),
           key_buffer'[u] = key_buffer[u], eflag'[u] = eflag[u], pc'[u] = pc[u],
           i'[u] = i[u], buffer'[u] = buffer[u], pending'[u] = pending[u],
           Index(u)' = Index(u), LineInFlight(u) => cur_term' = cur_term
    PROVE  LineInv(u)' /\ ReadInv(u)'
  <1>1. LineInFlight(u)' <=> LineInFlight(u)
    BY DEF LineInFlight
  <1>2. LineInv(u)'
    BY <1>1 DEF LineInv
  <1>3. ReadInv(u)'
    BY DEF ReadInv, CellOf
  <1> QED BY <1>2, <1>3

\* A key or ENTER is stored at the end of the line that is displayed.
LEMMA StoreStep ==
    ASSUME IInv, TypeOK', ~LineInFlight(cur_term), NEW e \in Typed, e.from = cur_term,
           key_buffer_idx <= KEY_BUFFER_SIZE,
           key_buffer' = [key_buffer EXCEPT ![cur_term][key_buffer_idx] = e],
           key_buffer_idx' = key_buffer_idx + 1,
           pending' = [pending EXCEPT ![cur_term] = Append(@, e)],
           UNCHANGED <<saved_idx, cur_term, pc, i, buffer>>,
           \A u \in Terms \ {cur_term} : eflag'[u] = eflag[u],
           e.key = NL => LineInFlight(cur_term)',
           e.key # NL => ~LineInFlight(cur_term)' /\ key_buffer_idx < KEY_BUFFER_SIZE
    PROVE  IInv'
  <1> DEFINE t == cur_term
             s == pending[t]
             r == Append(s, e)
  <1>1. t \in Terms /\ s \in Seq(Typed) /\ LineInv(t) /\ ReadInv(t) /\ TypeOK
    BY DEF IInv, TypeOK
  <1>2. /\ r \in Seq(Typed) /\ r # <<>> /\ Len(s) \in Nat /\ Len(r) = Len(s) + 1
        /\ \A n \in 1 .. Len(s) : r[n] = s[n]
        /\ r[Len(s) + 1] = e
    BY <1>1, LenProperties, AppendProperties
  <1>3. key_buffer_idx = Len(s) /\ pending'[t] = r
    BY <1>1 DEF LineInv, Index, TypeOK
  <1>4. pc[t] \in {"idle", "wait"}
    BY DEF LineInFlight
  <1>5. LineInv(t)'
    <2>1. \A n \in 1 .. Len(s) : s[n].from = t /\ s[n].key # NL
      BY <1>1 DEF LineInv
    <2>2. \A n \in 1 .. Len(r) : n \in 1 .. Len(s) \/ n = Len(s) + 1
      BY <1>2
    <2>3. \A n \in 1 .. Len(r) : r[n].from = t /\ (r[n].key = NL => n = Len(r) /\ e.key = NL)
      BY <1>2, <2>1, <2>2
    <2>4. Index(t)' = Len(r)
      BY <1>2, <1>3 DEF Index
    <2>5. r[Len(r)] = e
      BY <1>2
    <2>6. /\ Len(r) <= KEY_BUFFER_SIZE + 1
          /\ Len(r) = KEY_BUFFER_SIZE + 1 => LineInFlight(t)'
      BY <1>2, <1>3, ConstantFacts
    <2> HIDE DEF r
    <2> QED BY <1>2, <1>3, <2>3, <2>4, <2>5, <2>6 DEF LineInv
  <1>6. ReadInv(t)'
    <2>1. \A c \in 0 .. KEY_BUFFER_SIZE - 1 :
             key_buffer'[t][c] = IF c = Len(s) THEN e ELSE key_buffer[t][c]
      BY <1>1, <1>3 DEF TypeOK, Cells
    <2>2. \A c \in 0 .. KEY_BUFFER_SIZE - 1 : key_buffer[t][c] = CellOf(s, c)
      BY <1>1, <1>4 DEF ReadInv
    <2>3. \A c \in 0 .. KEY_BUFFER_SIZE - 1 : key_buffer'[t][c] = CellOf(r, c)
      BY <1>1, <2>1, <2>2, CellOfAppend
    <2> HIDE DEF r
    <2> QED BY <1>1, <1>3, <1>4, <2>3 DEF ReadInv, CellOf
  <1>7. ASSUME NEW u \in Terms, u # t PROVE LineInv(u)' /\ ReadInv(u)'
    <2>1. /\ key_buffer'[u] = key_buffer[u] /\ pending'[u] = pending[u]
          /\ eflag'[u] = eflag[u] /\ Index(u)' = Index(u)
      BY <1>1, <1>7 DEF TypeOK, Index
    <2>2. LineInv(u) /\ ReadInv(u)
      BY DEF IInv
    <2> QED BY <2>1, <2>2, Untouched
  <1> QED BY <1>5, <1>6, <1>7 DEF IInv

-----------------------------------------------------------------------------
(***************************************************************************)
(* One lemma for each kind of step.                                         *)
(***************************************************************************)
LEMMA PressStep ==
    ASSUME IInv, TypeOK', Races = {}, NEW k \in Keys, press(k) PROVE IInv'
  <1> DEFINE e == [key |-> k, from |-> cur_term]
  <1>1. /\ ~LineInFlight(cur_term) /\ key_buffer_idx < KEY_BUFFER_SIZE
        /\ key_buffer' = [key_buffer EXCEPT ![cur_term][key_buffer_idx] = e]
        /\ key_buffer_idx' = key_buffer_idx + 1
        /\ pending' = [pending EXCEPT ![cur_term] = Append(@, e)]
        /\ UNCHANGED <<saved_idx, cur_term, pc, i, buffer, eflag>>
    BY DEF press, MayType, readVars
  <1>2. e \in Typed /\ e.from = cur_term /\ e.key # NL
    BY ConstantFacts DEF IInv, TypeOK, Typed
  <1>3. ~LineInFlight(cur_term)'
    BY <1>1 DEF LineInFlight
  <1>4. key_buffer_idx <= KEY_BUFFER_SIZE
    BY <1>1, ConstantFacts DEF IInv, TypeOK
  <1> HIDE DEF e
  <1> QED BY <1>1, <1>2, <1>3, <1>4, StoreStep

\* ENTER ends the line and raises eflag.
LEMMA EnterStep == ASSUME IInv, TypeOK', Races = {}, enter PROVE IInv'
  <1> DEFINE e == [key |-> NL, from |-> cur_term]
  <1>1. /\ ~LineInFlight(cur_term)
        /\ eflag' = [eflag EXCEPT ![cur_term] = 1]
        /\ key_buffer' = IF key_buffer_idx \in Cells
                         THEN [key_buffer EXCEPT ![cur_term][key_buffer_idx] = e]
                         ELSE key_buffer
        /\ key_buffer_idx' = key_buffer_idx + 1
        /\ pending' = [pending EXCEPT ![cur_term] = Append(@, e)]
        /\ UNCHANGED <<saved_idx, cur_term, pc, i, buffer>>
    BY DEF enter, MayType, readVars
  <1>2. e \in Typed /\ e.from = cur_term /\ e.key = NL
    BY DEF IInv, TypeOK, Typed
  <1> HIDE DEF e
  <1>3. cur_term \in Terms /\ eflag'[cur_term] = 1
    BY <1>1 DEF IInv, TypeOK
  <1>4. LineInFlight(cur_term)'
    BY <1>1, <1>3 DEF LineInFlight
  <1>5. key_buffer_idx <= KEY_BUFFER_SIZE
    <2>1. /\ key_buffer_idx = Len(pending[cur_term])
          /\ Len(pending[cur_term]) <= KEY_BUFFER_SIZE + 1
          /\ Len(pending[cur_term]) # KEY_BUFFER_SIZE + 1
      BY <1>1, <1>3 DEF IInv, LineInv, Index
    <2>2. key_buffer_idx \in Nat
      BY DEF IInv, TypeOK
    <2> QED BY <2>1, <2>2, ConstantFacts
  <1>6. key_buffer_idx \in Cells
    BY <1>5, ConstantFacts DEF IInv, TypeOK, Cells
  <1>7. \A u \in Terms \ {cur_term} : eflag'[u] = eflag[u]
    BY <1>1 DEF IInv, TypeOK
  <1> QED BY <1>1, <1>2, <1>4, <1>5, <1>6, <1>7, StoreStep

\* BACKSPACE, which does nothing at the start of a line.
LEMMA BackspaceStep == ASSUME IInv, TypeOK', Races = {}, backspace PROVE IInv'
  <1> DEFINE t == cur_term
             s == pending[t]
             r == Front(s)
  <1>1. /\ ~LineInFlight(t) /\ key_buffer_idx > 0 /\ key_buffer_idx' = key_buffer_idx - 1
        /\ key_buffer' = [key_buffer EXCEPT ![t][key_buffer_idx - 1] = Empty]
        /\ pending' = [pending EXCEPT ![t] = IF @ = <<>> THEN <<>> ELSE Front(@)]
        /\ UNCHANGED <<saved_idx, cur_term, eflag, pc, i, buffer>>
    BY DEF backspace, erase, Erasable, MayType, readVars
  <1>2. t \in Terms /\ s \in Seq(Typed) /\ LineInv(t) /\ ReadInv(t) /\ TypeOK
    BY DEF IInv, TypeOK
  <1>3. key_buffer_idx = Len(s) /\ s # <<>>
    <2>1. key_buffer_idx = Len(s)
      BY <1>2 DEF LineInv, Index
    <2>2. Len(<<>>) = 0
      BY EmptySeq
    <2> QED BY <1>1, <1>2, <2>1, <2>2 DEF TypeOK
  <1>4. /\ r \in Seq(Typed) /\ Len(s) \in Nat \ {0} /\ Len(r) = Len(s) - 1
        /\ \A n \in 1 .. Len(s) - 1 : r[n] = s[n]
    BY <1>2, <1>3, FrontFacts
  <1>5. pending'[t] = r
    BY <1>1, <1>2, <1>3 DEF TypeOK
  <1>6. pc[t] \in {"idle", "wait"} /\ ~LineInFlight(t)'
    BY <1>1 DEF LineInFlight
  <1>7. LineInv(t)'
    <2>1. \A n \in 1 .. Len(s) : s[n].from = t /\ s[n].key # NL
      BY <1>1, <1>2 DEF LineInv
    <2>2. \A n \in 1 .. Len(r) : n \in 1 .. Len(s) - 1 /\ n \in 1 .. Len(s)
      BY <1>4
    <2>3. \A n \in 1 .. Len(r) : r[n].from = t /\ r[n].key # NL
      BY <1>4, <2>1, <2>2
    <2>4. Index(t)' = Len(r)
      BY <1>1, <1>3, <1>4 DEF Index
    <2>5. Len(r) <= KEY_BUFFER_SIZE + 1 /\ Len(r) # KEY_BUFFER_SIZE + 1
      BY <1>2, <1>4, ConstantFacts DEF LineInv
    <2> HIDE DEF r
    <2> QED BY <1>1, <1>5, <1>6, <2>3, <2>4, <2>5 DEF LineInv
  <1>8. ReadInv(t)'
    <2>1. \A c \in 0 .. KEY_BUFFER_SIZE - 1 :
             key_buffer'[t][c] = IF c = Len(s) - 1 THEN Empty ELSE key_buffer[t][c]
      BY <1>1, <1>2, <1>3 DEF TypeOK, Cells
    <2>2. \A c \in 0 .. KEY_BUFFER_SIZE - 1 : key_buffer[t][c] = CellOf(s, c)
      BY <1>2, <1>6 DEF ReadInv
    <2>3. \A c \in 0 .. KEY_BUFFER_SIZE - 1 : key_buffer'[t][c] = CellOf(r, c)
      BY <1>2, <1>3, <2>1, <2>2, CellOfFront
    <2> HIDE DEF r
    <2> QED BY <1>1, <1>2, <1>5, <1>6, <2>3 DEF ReadInv, CellOf
  <1>9. ASSUME NEW u \in Terms, u # t PROVE LineInv(u)' /\ ReadInv(u)'
    <2>1. /\ key_buffer'[u] = key_buffer[u] /\ pending'[u] = pending[u] /\ Index(u)' = Index(u)
      BY <1>1, <1>2, <1>9 DEF TypeOK, Index
    <2>2. LineInv(u) /\ ReadInv(u)
      BY DEF IInv
    <2> QED BY <1>1, <2>1, <2>2, Untouched
  <1> QED BY <1>1, <1>7, <1>8, <1>9 DEF IInv

\* save_restore swaps the line of one terminal for that of another.
LEMMA SwitchStep ==
    ASSUME IInv, TypeOK', Races = {}, NEW t \in Terms, switch_terminal(t) PROVE IInv'
  <1>1. /\ \A u \in Terms : ~LineInFlight(u)
        /\ t # cur_term /\ cur_term' = t /\ key_buffer_idx' = saved_idx[t]
        /\ saved_idx' = [saved_idx EXCEPT ![cur_term] = key_buffer_idx]
        /\ UNCHANGED <<key_buffer, eflag, pc, i, buffer, pending>>
    BY DEF switch_terminal, MaySwitch, save_restore, readVars
  <1>2. ASSUME NEW u \in Terms PROVE LineInv(u)' /\ ReadInv(u)'
    <2>1. Index(u)' = Index(u)
      BY <1>1 DEF IInv, TypeOK, Index
    <2>2. LineInv(u) /\ ReadInv(u)
      BY DEF IInv
    <2> QED BY <1>1, <2>1, <2>2, Untouched
  <1> QED BY <1>2 DEF IInv

\* A step of terminal_read leaves the other terminals alone, since the line it
\* returns is the one on the screen.
LEMMA ReadSuffices ==
    ASSUME IInv, TypeOK', NEW t \in Terms, LineInv(t)', ReadInv(t)',
           \A u \in Terms \ {t} :
              /\ key_buffer'[u] = key_buffer[u] /\ eflag'[u] = eflag[u] /\ pc'[u] = pc[u]
              /\ i'[u] = i[u] /\ buffer'[u] = buffer[u] /\ pending'[u] = pending[u],
           UNCHANGED <<saved_idx, cur_term>>, t = cur_term \/ key_buffer_idx' = key_buffer_idx
    PROVE  IInv'
  <1>1. ASSUME NEW u \in Terms \ {t} PROVE LineInv(u)' /\ ReadInv(u)'
    <2>1. Index(u)' = Index(u)
      BY DEF Index
    <2>2. LineInv(u) /\ ReadInv(u)
      BY DEF IInv
    <2> QED BY <2>1, <2>2, Untouched
  <1> QED BY <1>1 DEF IInv

\* A process enters terminal_read.
LEMMA CallStep == ASSUME IInv, TypeOK', NEW t \in Terms, read_call(t) PROVE IInv'
  <1>1. /\ pc[t] = "idle" /\ pc' = [pc EXCEPT ![t] = "wait"]
        /\ buffer' = [buffer EXCEPT ![t] = [c \in 0 .. COPIED - 1 |-> Empty]]
        /\ UNCHANGED <<key_buffer, saved_idx, key_buffer_idx, cur_term, eflag, i, pending>>
    BY DEF read_call, Goto, kbdVars
  <1>2. TypeOK /\ LineInv(t) /\ ReadInv(t)
    BY DEF IInv
  <1>3. pc'[t] = "wait" /\ \A c \in 0 .. COPIED - 1 : buffer'[t][c] = Empty
    BY <1>1, <1>2 DEF TypeOK
  <1>4. LineInFlight(t)' <=> LineInFlight(t)
    BY <1>1, <1>3 DEF LineInFlight
  <1>5. LineInv(t)'
    BY <1>1, <1>2, <1>4 DEF LineInv, Index
  <1>6. ReadInv(t)'
    BY <1>1, <1>2, <1>3 DEF ReadInv, CellOf
  <1>7. \A u \in Terms \ {t} : pc'[u] = pc[u] /\ buffer'[u] = buffer[u]
    BY <1>1, <1>2 DEF TypeOK
  <1> QED BY <1>1, <1>5, <1>6, <1>7, ReadSuffices

\* eflag lets it out of its loop.
LEMMA WakeStep == ASSUME IInv, TypeOK', NEW t \in Terms, read_wake(t) PROVE IInv'
  <1>1. /\ pc[t] = "wait" /\ eflag[t] = 1 /\ pc' = [pc EXCEPT ![t] = "reset"]
        /\ UNCHANGED <<key_buffer, saved_idx, key_buffer_idx, cur_term, eflag, i, buffer,
                       pending>>
    BY DEF read_wake, EnterSeen, Goto, kbdVars
  <1>2. TypeOK /\ LineInv(t) /\ ReadInv(t)
    BY DEF IInv
  <1>3. pc'[t] = "reset"
    BY <1>1, <1>2 DEF TypeOK
  <1>4. LineInFlight(t)' /\ LineInFlight(t)
    BY <1>1, <1>3 DEF LineInFlight
  <1>5. LineInv(t)'
    BY <1>1, <1>2, <1>4 DEF LineInv, Index
  <1>6. ReadInv(t)'
    BY <1>1, <1>2, <1>3 DEF ReadInv, CellOf
  <1>7. \A u \in Terms \ {t} : pc'[u] = pc[u]
    BY <1>1, <1>2 DEF TypeOK
  <1> QED BY <1>1, <1>5, <1>6, <1>7, ReadSuffices

\* It resets eflag.
LEMMA ResetStep == ASSUME IInv, TypeOK', NEW t \in Terms, read_reset(t) PROVE IInv'
  <1>1. /\ pc[t] = "reset" /\ pc' = [pc EXCEPT ![t] = "copy"]
        /\ eflag' = [eflag EXCEPT ![t] = 0] /\ i' = [i EXCEPT ![t] = 0]
        /\ UNCHANGED <<key_buffer, saved_idx, key_buffer_idx, cur_term, buffer, pending>>
    BY DEF read_reset, Goto, kbdVars
  <1>2. TypeOK /\ LineInv(t) /\ ReadInv(t)
    BY DEF IInv
  <1>3. pc'[t] = "copy" /\ eflag'[t] = 0 /\ i'[t] = 0
    BY <1>1, <1>2 DEF TypeOK
  <1>4. LineInFlight(t)' /\ LineInFlight(t)
    BY <1>1, <1>3 DEF LineInFlight
  <1>5. LineInv(t)'
    BY <1>1, <1>2, <1>4 DEF LineInv, Index
  <1>6. ReadInv(t)'
    BY <1>1, <1>2, <1>3 DEF ReadInv, CellOf
  <1>7. \A u \in Terms \ {t} : pc'[u] = pc[u] /\ eflag'[u] = eflag[u] /\ i'[u] = i[u]
    BY <1>1, <1>2 DEF TypeOK
  <1> QED BY <1>1, <1>5, <1>6, <1>7, ReadSuffices

\* It copies the line.
LEMMA CopyStep == ASSUME IInv, TypeOK', NEW t \in Terms, read_copy(t) PROVE IInv'
  <1>1. /\ pc[t] = "copy"
        /\ UNCHANGED <<key_buffer, saved_idx, key_buffer_idx, cur_term, eflag, pending>>
    BY DEF read_copy, kbdVars
  <1>2. TypeOK /\ LineInv(t) /\ ReadInv(t) /\ LineInFlight(t)
    BY <1>1 DEF IInv, LineInFlight
  <1>3. t = cur_term /\ i[t] \in Nat
    BY <1>2 DEF LineInv, TypeOK
  <1>4. CASE i[t] < COPIED
    <2>1. /\ buffer' = [buffer EXCEPT ![t][i[t]] = key_buffer[cur_term][i[t]]]
          /\ i' = [i EXCEPT ![t] = @ + 1] /\ pc' = pc
      BY <1>4 DEF read_copy
    <2>2. i[t] \in 0 .. COPIED - 1 /\ i[t] \in 0 .. KEY_BUFFER_SIZE - 1
      BY <1>3, <1>4, ConstantFacts
    <2>3. key_buffer[t][i[t]] = CellOf(pending[t], i[t])
      BY <1>1, <1>2, <2>2 DEF ReadInv
    <2>4. /\ i'[t] = i[t] + 1
          /\ \A c \in 0 .. COPIED - 1 :
                buffer'[t][c] = IF c = i[t] THEN CellOf(pending[t], c) ELSE buffer[t][c]
          /\ \A u \in Terms \ {t} : i'[u] = i[u] /\ buffer'[u] = buffer[u]
      BY <1>2, <1>3, <2>1, <2>2, <2>3 DEF TypeOK
    <2>5. LineInv(t)'
      BY <1>1, <1>2, <2>1 DEF LineInv, Index, LineInFlight
    <2>6. \A c \in 0 .. COPIED - 1 : c < i'[t] => c = i[t] \/ c < i[t]
      BY <1>3, <2>4, ConstantFacts
    <2>7. \A c \in 0 .. COPIED - 1 : c < i'[t] => buffer'[t][c] = CellOf(pending[t], c)
      BY <1>1, <1>2, <2>4, <2>6 DEF ReadInv
    <2>8. \A c \in 0 .. COPIED - 1 :
             CellOf(pending[t], c) # Empty => CellOf(pending[t], c).from = t
      <3>1. pending[t] \in Seq(Typed) /\ Len(pending[t]) \in Nat
        BY <1>2, LenProperties DEF TypeOK
      <3>2. \A c \in 0 .. COPIED - 1 : c < Len(pending[t]) => c + 1 \in 1 .. Len(pending[t])
        BY <3>1, ConstantFacts
      <3> QED BY <1>2, <3>2 DEF LineInv, CellOf
    <2>9. ReadInv(t)'
      BY <1>1, <1>2, <2>1, <2>4, <2>7, <2>8 DEF ReadInv, CellOf
    <2> QED BY <1>1, <2>1, <2>4, <2>5, <2>9, ReadSuffices
  <1>5. CASE ~(i[t] < COPIED)
    <2>1. /\ i' = [i EXCEPT ![t] = 0] /\ pc' = [pc EXCEPT ![t] = "clear"] /\ buffer' = buffer
      BY <1>5 DEF read_copy, Goto
    <2>2. /\ i'[t] = 0 /\ pc'[t] = "clear"
          /\ \A u \in Terms \ {t} : i'[u] = i[u] /\ pc'[u] = pc[u]
      BY <1>2, <2>1 DEF TypeOK
    <2>3. LineInFlight(t)'
      BY <2>2 DEF LineInFlight
    <2>4. LineInv(t)'
      BY <1>1, <1>2, <2>3 DEF LineInv, Index
    <2>5. \A c \in 0 .. COPIED - 1 : c < i[t]
      BY <1>3, <1>5, ConstantFacts
    <2>6. \A c \in 0 .. KEY_BUFFER_SIZE - 1 : ~(c < 0)
      BY ConstantFacts
    <2>7. ReadInv(t)'
      BY <1>1, <1>2, <2>1, <2>2, <2>5, <2>6 DEF ReadInv, CellOf
    <2> QED BY <1>1, <2>1, <2>2, <2>4, <2>7, ReadSuffices
  <1> QED BY <1>4, <1>5

\* clear_buf, and the return from the call.
LEMMA ClearStep == ASSUME IInv, TypeOK', NEW t \in Terms, read_clear(t) PROVE IInv'
  <1>1. pc[t] = "clear" /\ UNCHANGED <<saved_idx, cur_term, eflag, buffer>>
    BY DEF read_clear
  <1>2. TypeOK /\ LineInv(t) /\ ReadInv(t) /\ LineInFlight(t)
    BY <1>1 DEF IInv, LineInFlight
  <1>3. t = cur_term /\ i[t] \in Nat
    BY <1>2 DEF LineInv, TypeOK
  <1>4. CASE i[t] < KEY_BUFFER_SIZE
    <2>1. /\ key_buffer' = [key_buffer EXCEPT ![cur_term][i[t]] = Empty]
          /\ i' = [i EXCEPT ![t] = @ + 1] /\ UNCHANGED <<key_buffer_idx, pc, pending>>
      BY <1>4 DEF read_clear
    <2>2. /\ i'[t] = i[t] + 1
          /\ \A c \in 0 .. KEY_BUFFER_SIZE - 1 :
                key_buffer'[t][c] = IF c = i[t] THEN Empty ELSE key_buffer[t][c]
          /\ \A u \in Terms \ {t} : i'[u] = i[u] /\ key_buffer'[u] = key_buffer[u]
      BY <1>2, <1>3, <2>1 DEF TypeOK, Cells
    <2>3. LineInv(t)'
      BY <1>1, <1>2, <2>1 DEF LineInv, Index, LineInFlight
    <2>4. \A c \in 0 .. KEY_BUFFER_SIZE - 1 : c < i'[t] <=> c = i[t] \/ c < i[t]
      BY <1>3, <2>2, ConstantFacts
    <2>5. \A c \in 0 .. KEY_BUFFER_SIZE - 1 :
             key_buffer'[t][c] = IF c < i'[t] THEN Empty ELSE CellOf(pending[t], c)
      BY <1>1, <1>2, <2>2, <2>4 DEF ReadInv
    <2>6. ReadInv(t)'
      BY <1>1, <1>2, <2>1, <2>5 DEF ReadInv, CellOf
    <2> QED BY <1>1, <2>1, <2>2, <2>3, <2>6, ReadSuffices
  <1>5. CASE ~(i[t] < KEY_BUFFER_SIZE)
    <2>1. /\ key_buffer_idx' = 0 /\ i' = [i EXCEPT ![t] = 0]
          /\ pc' = [pc EXCEPT ![t] = "idle"]
          /\ pending' = [pending EXCEPT ![t] = AfterLine(@)] /\ key_buffer' = key_buffer
      BY <1>5 DEF read_clear, clear_idx, Goto
    <2>2. /\ pc'[t] = "idle" /\ pending'[t] = AfterLine(pending[t]) /\ i'[t] = 0
          /\ \A u \in Terms \ {t} :
                i'[u] = i[u] /\ pc'[u] = pc[u] /\ pending'[u] = pending[u]
      BY <1>2, <2>1 DEF TypeOK
    <2>3. OneLine(pending[t]) /\ pending[t] \in Seq(Typed)
      BY <1>2 DEF OneLine, LineInv, TypeOK
    <2>4. pending'[t] = <<>> /\ Len(<<>>) = 0
      BY <2>2, <2>3, AfterOneLine, EmptySeq
    <2>5. ~LineInFlight(t)'
      BY <1>1, <1>2, <2>2 DEF LineInFlight, ReadInv
    <2>6. LineInv(t)'
      <3>1. Index(t)' = 0
        BY <1>1, <1>3, <2>1 DEF Index
      <3>2. \A n \in 1 .. 0 : FALSE
        OBVIOUS
      <3>3. 0 <= KEY_BUFFER_SIZE + 1 /\ 0 # KEY_BUFFER_SIZE + 1
        BY ConstantFacts
      <3> QED BY <2>4, <2>5, <3>1, <3>2, <3>3 DEF LineInv
    <2>7. \A c \in 0 .. KEY_BUFFER_SIZE - 1 : c < i[t] /\ ~(c < 0)
      BY <1>3, <1>5, ConstantFacts
    <2>8. ReadInv(t)'
      BY <1>1, <1>2, <2>1, <2>2, <2>4, <2>7 DEF ReadInv, CellOf
    <2> QED BY <1>1, <1>3, <2>1, <2>2, <2>6, <2>8, ReadSuffices
  <1> QED BY <1>4, <1>5

\* The invariant holds at boot.
LEMMA IInvInit == Init => IInv
  <1> SUFFICES ASSUME Init PROVE IInv
    OBVIOUS
  <1>1. TypeOK
    BY TypeOKInit
  <1>2. ASSUME NEW t \in Terms PROVE LineInv(t) /\ ReadInv(t)
    <2>1. /\ pending[t] = <<>> /\ Len(<<>>) = 0 /\ eflag[t] = 0 /\ pc[t] = "idle"
          /\ i[t] = 0 /\ saved_idx[t] = 0 /\ key_buffer_idx = 0
          /\ \A c \in Cells : key_buffer[t][c] = Empty
          /\ \A c \in 0 .. COPIED - 1 : buffer[t][c] = Empty
      BY EmptySeq DEF Init
    <2>2. ~LineInFlight(t) /\ Index(t) = 0
      BY <2>1 DEF LineInFlight, Index
    <2>3. /\ \A n \in 1 .. 0 : FALSE
          /\ 0 <= KEY_BUFFER_SIZE + 1 /\ 0 # KEY_BUFFER_SIZE + 1
          /\ \A c \in 0 .. KEY_BUFFER_SIZE - 1 : c \in Cells /\ ~(c < 0)
      BY ConstantFacts DEF Cells
    <2>4. LineInv(t)
      BY <2>1, <2>2, <2>3 DEF LineInv
    <2>5. ReadInv(t)
      BY <2>1, <2>3 DEF ReadInv, CellOf
    <2> QED BY <2>4, <2>5
  <1> QED BY <1>1, <1>2 DEF IInv

\* Every step keeps the invariant when no race is taken.
LEMMA IInvStep == ASSUME Races = {} PROVE IInv /\ [Next]_vars => IInv'
  <1> SUFFICES ASSUME IInv, [Next]_vars PROVE IInv'
    OBVIOUS
  <1>1. TypeOK'
    BY TypeOKStep DEF IInv
  <1>2. CASE UNCHANGED vars
    <2>1. UNCHANGED <<key_buffer, saved_idx, key_buffer_idx, cur_term, pc, i, buffer, eflag,
                      pending>>
      BY <1>2 DEF vars, kbdVars, readVars
    <2>2. ASSUME NEW u \in Terms PROVE LineInv(u)' /\ ReadInv(u)'
      <3>1. LineInv(u) /\ ReadInv(u) /\ Index(u)' = Index(u)
        BY <2>1 DEF IInv, Index
      <3> QED BY <2>1, <3>1, Untouched
    <2> QED BY <1>1, <2>2 DEF IInv
  <1>3. ASSUME NEW t \in Terms, terminal_read(t) PROVE IInv'
    BY <1>1, <1>3, CallStep, WakeStep, ResetStep, CopyStep, ClearStep DEF terminal_read
  <1> QED BY <1>1, <1>2, <1>3, PressStep, BackspaceStep, EnterStep, SwitchStep DEF Next

\* So it holds throughout.
LEMMA Invariance == ASSUME Races = {} PROVE Spec => []IInv
  BY IInvInit, IInvStep, PTL DEF Spec

-----------------------------------------------------------------------------
(***************************************************************************)
(* The theorems.  As long as nobody types or switches between ENTER and the *)
(* return of the line:                                                      *)
(***************************************************************************)
\* The buffer and the index of every terminal hold what was typed there and
\* not yet returned, whatever happens in the other terminals.
THEOREM BufferHolds == ASSUME Races = {} PROVE Spec => []BufferMatchesTyped
  <1>1. IInv => BufferMatchesTyped
    <2> SUFFICES ASSUME IInv, NEW t \in Terms, pc[t] \in {"idle", "wait", "reset"}
                 PROVE  /\ Index(t) = Len(pending[t])
                        /\ \A c \in 0 .. KEY_BUFFER_SIZE - 1 :
                               key_buffer[t][c] = CellOf(pending[t], c)
      BY DEF BufferMatchesTyped
    <2> QED BY DEF IInv, LineInv, ReadInv
  <1> QED BY <1>1, Invariance, PTL

\* ENTER is the only key that is stored without a test of the index, and its
\* cell is the last one.
THEOREM IndexHolds == ASSUME Races = {} PROVE Spec => []IndexInBuffer
  <1>1. IInv => IndexInBuffer
    BY DEF IInv, TypeOK, LineInv, Index, IndexInBuffer
  <1> QED BY <1>1, Invariance, PTL

\* A process is only given keys of its own terminal, although terminal_read
\* copies whichever buffer is displayed.
THEOREM OwnInputHolds == ASSUME Races = {} PROVE Spec => []OwnInput
  <1>1. IInv => OwnInput
    <2> SUFFICES ASSUME IInv, NEW t \in Terms, NEW c \in DOMAIN buffer[t],
                        buffer[t][c] # Empty
                 PROVE  buffer[t][c].from = t
      BY DEF OwnInput
    <2>1. c \in 0 .. COPIED - 1
      BY DEF IInv, TypeOK
    <2> QED BY <2>1 DEF IInv, ReadInv
  <1> QED BY <1>1, Invariance, PTL

\* The line that terminal_read returns is the one that was typed in its
\* terminal, as much of it as was asked for.
THEOREM LineDeliveredHolds == ASSUME Races = {} PROVE Spec => LineDelivered
  <1> DEFINE Returned == \A t \in Terms : pc[t] = "clear" /\ pc'[t] = "idle" =>
                \A c \in 0 .. COPIED - 1 : buffer[t][c] = CellOf(pending[t], c)
  <1>1. IInv => Returned
    BY DEF IInv, ReadInv
  <1>2. Spec => [][Returned]_vars
    BY <1>1, Invariance, PTL
  <1> QED BY <1>2 DEF LineDelivered
=============================================================================
