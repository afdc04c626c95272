---------------------------- MODULE KeyboardProofs ----------------------------
(***************************************************************************)
(* Proofs about the keyboard and the screens, for every number of           *)
(* terminals, every size of a screen and of a line and every text that      *)
(* programs write.                                                          *)
(***************************************************************************)
EXTENDS Keyboard, SequenceTheorems, WellFoundedInduction, TLAPS

(***************************************************************************)
(* The modifier keys.                                                       *)
(***************************************************************************)
Stats == [ctrl : {0, 1}, shift : {0, 1}, alt : {0, 1}, caps : {0, 1}]

ModInv ==
    /\ stat \in Stats /\ held \subseteq Modifiers
    /\ stat.ctrl = 1 <=> CTRL \in held
    /\ stat.alt = 1 <=> ALT \in held

\* No two shift keys are held, and the flag follows the one.
ShiftInv ==
    /\ \A m, n \in held \cap Shifts : m = n
    /\ stat.shift = 1 <=> held \cap Shifts # {}

\* A flag of the state that is set to a value.
LEMMA SetStat ==
    ASSUME stat \in Stats, NEW m \in Modifiers, NEW v \in {0, 1},
           stat' = [stat EXCEPT ![Flag(m)] = v]
    PROVE  /\ stat' \in Stats
           /\ stat'.ctrl = IF m = CTRL THEN v ELSE stat.ctrl
           /\ stat'.alt = IF m = ALT THEN v ELSE stat.alt
           /\ stat'.shift = IF m \in Shifts THEN v ELSE stat.shift
  <1>1. CTRL \notin Shifts /\ ALT \notin Shifts
    BY KeyboardAssumption
  <1>2. CASE m \in Shifts
    <2>1. stat' = [stat EXCEPT !.shift = v] /\ m # CTRL /\ m # ALT
      BY <1>1, <1>2 DEF Flag
    <2> QED BY <1>2, <2>1 DEF Stats
  <1>3. CASE m = CTRL
    <2>1. stat' = [stat EXCEPT !.ctrl = v] /\ m \notin Shifts /\ m # ALT
      BY <1>1, <1>3 DEF Flag, CTRL, ALT
    <2> QED BY <1>3, <2>1 DEF Stats
  <1>4. CASE m = ALT
    <2>1. stat' = [stat EXCEPT !.alt = v] /\ m \notin Shifts /\ m # CTRL
      BY <1>1, <1>4 DEF Flag, CTRL, ALT
    <2> QED BY <1>4, <2>1 DEF Stats
  <1> QED BY <1>2, <1>3, <1>4 DEF Modifiers

\* The steps that change the state of a modifier.
LEMMA PressedFacts ==
    ASSUME ModInv, NEW m \in Modifiers, modifier_pressed(m)
    PROVE  ModInv' /\ ("two_shifts" \notin Windows /\ ShiftInv => ShiftInv')
  <1>1. stat' = [stat EXCEPT ![Flag(m)] = 1] /\ held' = held \cup {m}
    BY DEF modifier_pressed
  <1>2. /\ stat' \in Stats
        /\ stat'.ctrl = IF m = CTRL THEN 1 ELSE stat.ctrl
        /\ stat'.alt = IF m = ALT THEN 1 ELSE stat.alt
        /\ stat'.shift = IF m \in Shifts THEN 1 ELSE stat.shift
    BY <1>1, SetStat DEF ModInv
  <1>3. ModInv'
    BY <1>1, <1>2 DEF ModInv
  <1>4. ASSUME "two_shifts" \notin Windows, ShiftInv PROVE ShiftInv'
    <2>1. m \in Shifts => held \cap Shifts \subseteq {m}
      BY <1>4 DEF modifier_pressed
    <2> QED BY <1>1, <1>2, <1>4, <2>1 DEF ShiftInv
  <1> QED BY <1>3, <1>4

\* The release of a modifier key.
LEMMA ReleasedFacts ==
    ASSUME ModInv, NEW m \in Modifiers, modifier_released(m)
    PROVE  ModInv' /\ (ShiftInv => ShiftInv')
  <1>1. m \in held /\ stat' = [stat EXCEPT ![Flag(m)] = 0] /\ held' = held \ {m}
    BY DEF modifier_released, Released
  <1>2. /\ stat' \in Stats
        /\ stat'.ctrl = IF m = CTRL THEN 0 ELSE stat.ctrl
        /\ stat'.alt = IF m = ALT THEN 0 ELSE stat.alt
        /\ stat'.shift = IF m \in Shifts THEN 0 ELSE stat.shift
    BY <1>1, SetStat DEF ModInv
  <1>3. ModInv'
    BY <1>1, <1>2 DEF ModInv
  <1>4. ASSUME ShiftInv PROVE ShiftInv'
    BY <1>1, <1>2, <1>4 DEF ShiftInv
  <1> QED BY <1>3, <1>4

\* Caps Lock.
LEMMA CapsFacts ==
    ASSUME ModInv, caps_pressed
    PROVE  ModInv' /\ (ShiftInv => ShiftInv')
  <1>1. /\ stat' \in Stats /\ stat'.ctrl = stat.ctrl /\ stat'.alt = stat.alt
        /\ stat'.shift = stat.shift
    BY DEF caps_pressed, ModInv, Stats
  <1>2. held' = held
    BY DEF caps_pressed
  <1> QED BY <1>1, <1>2 DEF ModInv, ShiftInv

\* Every other step leaves it alone.
LEMMA ModStep ==
    ASSUME ModInv, [Next]_vars
    PROVE  ModInv' /\ ("two_shifts" \notin Windows /\ ShiftInv => ShiftInv')
  <1>1. CASE UNCHANGED <<stat, held>>
    BY <1>1 DEF ModInv, ShiftInv
  <1>2. CASE Next
    <2>1. CASE \E m \in Modifiers : modifier_pressed(m) \/ modifier_released(m)
      BY <2>1, PressedFacts, ReleasedFacts
    <2>2. CASE caps_pressed
      BY <2>2, CapsFacts
    <2>3. CASE \E s \in ScanCodes : key_pressed(s)
      BY <1>1, <2>3 DEF key_pressed
    <2>4. CASE \E t \in Terms : function_key(t)
      BY <1>1, <2>4 DEF function_key
    <2>5. CASE \E t \in Terms : process(t)
      BY <1>1, <2>5 DEF process
    <2> QED BY <1>2, <2>1, <2>2, <2>3, <2>4, <2>5 DEF Next, keyboard_interrupt_handler
  <1> QED BY <1>1, <1>2 DEF vars

\* No key is held at boot.
LEMMA ModInit == KeyboardInit => ModInv /\ ShiftInv
  BY DEF KeyboardInit, ModInv, ShiftInv, Stats, Modifiers

\* The modifier states have their types throughout.
LEMMA ModInvariance == Spec => []ModInv
  <1>1. ModInv /\ [Next]_vars => ModInv'
    BY ModStep
  <1> QED BY <1>1, ModInit, PTL DEF Spec

\* As long as one shift key is held at a time, ctrl_stat, alt_stat and
\* shift_stat are set exactly while a key of their kind is held, after any
\* sequence of presses and releases.
THEOREM ModifiersFollowKeysHolds ==
    ASSUME "two_shifts" \notin Windows PROVE Spec => []ModifiersFollowKeys
  <1>1. (ModInv /\ ShiftInv) /\ [Next]_vars => (ModInv /\ ShiftInv)'
    BY ModStep
  <1>2. ModInv /\ ShiftInv => ModifiersFollowKeys
    BY DEF ModInv, ShiftInv, ModifiersFollowKeys
  <1> QED BY <1>1, <1>2, ModInit, PTL DEF Spec

-----------------------------------------------------------------------------
(***************************************************************************)
(* What FoldLeft computes.  It is defined by recursion over the sets of     *)
(* indices, so the first thing to show is that such a recursion has a       *)
(* solution; Apply stands for the four operations that are folded.          *)
(***************************************************************************)
\* A set of numbers that is not empty has a least one.
LEMMA LeastNumber ==
    ASSUME NEW T, T \subseteq Nat, T # {}
    PROVE  \E n \in T : \A m \in T : n <= m
  <1>1. PICK n \in T : \A m \in T : <<m, n>> \notin OpToRel(<, Nat)
    BY NatLessThanWellFounded, WFMin
  <1>2. \A m \in T : ~(m < n)
    BY <1>1 DEF OpToRel
  <1> QED BY <1>2

\* Max of a set of numbers that has a greatest one.
LEMMA MaxIs ==
    ASSUME NEW S, S \subseteq Nat, NEW n \in S, \A m \in S : m <= n
    PROVE  Max(S) = n
  <1>1. n >= n /\ \A m \in S : n >= m
    OBVIOUS
  <1>2. Max(S) \in S /\ \A m \in S : Max(S) >= m
    BY <1>1 DEF Max
  <1>3. Max(S) \in Nat /\ n \in Nat /\ Max(S) <= n /\ Max(S) >= n
    BY <1>2
  <1> QED BY <1>3

Apply(kind, r, c) ==
    CASE kind = "putc" -> putc(r, c)
      [] kind = "putc_terminal_active" -> putc_terminal_active(r, c)
      [] kind = "Add" -> Add(r, c)
      [] OTHER -> directive(r, c)

\* f is the recursion of FoldLeft over the sets of the first n indices of q.
Iterates(f, kind, base, q, n) ==
    f = [s \in SUBSET (1 .. n) |->
            IF s = {} THEN base ELSE Apply(kind, f[s \ {Max(s)}], q[Max(s)])]

\* From the first n indices to one more.
LEMMA IterateMore ==
    ASSUME NEW kind, NEW base, NEW q, NEW n \in Nat, NEW f, Iterates(f, kind, base, q, n)
    PROVE  \E g : Iterates(g, kind, base, q, n + 1)
  <1> DEFINE g == [s \in SUBSET (1 .. n + 1) |->
                      IF n + 1 \in s THEN Apply(kind, f[s \ {n + 1}], q[n + 1]) ELSE f[s]]
  <1>1. ASSUME NEW s \in SUBSET (1 .. n + 1), n + 1 \notin s
        PROVE  s \in SUBSET (1 .. n)
    BY <1>1
  <1>2. ASSUME NEW s \in SUBSET (1 .. n)
        PROVE  s \in SUBSET (1 .. n + 1) /\ n + 1 \notin s
    OBVIOUS
  <1>3. ASSUME NEW s \in SUBSET (1 .. n) PROVE g[s] = f[s]
    BY <1>2
  <1>4. ASSUME NEW s \in SUBSET (1 .. n), s # {} PROVE s \ {Max(s)} \in SUBSET (1 .. n)
    OBVIOUS
  <1>5. ASSUME NEW s \in SUBSET (1 .. n)
        PROVE  f[s] = IF s = {} THEN base ELSE Apply(kind, f[s \ {Max(s)}], q[Max(s)])
    BY DEF Iterates
  <1>6. ASSUME NEW s \in SUBSET (1 .. n + 1)
        PROVE  g[s] = IF s = {} THEN base ELSE Apply(kind, g[s \ {Max(s)}], q[Max(s)])
    <2>1. CASE n + 1 \in s
      <3>1. Max(s) = n + 1
        <4>1. s \subseteq Nat /\ \A m \in s : m <= n + 1
          OBVIOUS
        <4> QED BY <2>1, <4>1, MaxIs
      <3>2. s \ {n + 1} \in SUBSET (1 .. n)
        BY <1>1
      <3>3. g[s \ {n + 1}] = f[s \ {n + 1}]
        BY <1>3, <3>2
      <3>4. g[s] = Apply(kind, f[s \ {n + 1}], q[n + 1])
        BY <2>1
      <3> HIDE DEF g
      <3> QED BY <2>1, <3>1, <3>3, <3>4
    <2>2. CASE n + 1 \notin s
      <3>1. s \in SUBSET (1 .. n)
        BY <1>1, <2>2
      <3>2. g[s] = f[s] /\ g[s \ {Max(s)}] = f[s \ {Max(s)}]
        BY <1>3, <3>1
      <3> HIDE DEF g
      <3> QED BY <1>5, <3>1, <3>2
    <2> QED BY <2>1, <2>2
  <1>7. g = [s \in SUBSET (1 .. n + 1) |-> g[s]]
    OBVIOUS
  <1> HIDE DEF g
  <1>8. Iterates(g, kind, base, q, n + 1)
    BY <1>6, <1>7 DEF Iterates
  <1> QED BY <1>8

\* The recursion has a solution over the first n indices, for every n: no
\* least n can lack one.
LEMMA IterateExists ==
    ASSUME NEW kind, NEW base, NEW q, NEW n \in Nat
    PROVE  \E f : Iterates(f, kind, base, q, n)
  <1> DEFINE T == {m \in Nat : ~ \E f : Iterates(f, kind, base, q, m)}
  <1>1. ASSUME T # {} PROVE FALSE
    <2>1. PICK m \in T : \A k \in T : m <= k
      BY <1>1, LeastNumber
    <2>2. m # 0
      <3>1. SUBSET (1 .. 0) = {{}}
        OBVIOUS
      <3>2. Iterates([s \in SUBSET (1 .. 0) |-> base], kind, base, q, 0)
        BY <3>1 DEF Iterates
      <3> QED BY <3>2
    <2>3. m - 1 \in Nat /\ m - 1 \notin T /\ (m - 1) + 1 = m
      BY <2>1, <2>2
    <2>4. \E f : Iterates(f, kind, base, q, m - 1)
      BY <2>3
    <2>5. \E f : Iterates(f, kind, base, q, (m - 1) + 1)
      BY <2>3, <2>4, IterateMore
    <2> QED BY <2>3, <2>5
  <1> QED BY <1>1

\* The states of a run over q: r[i] is what the first i elements make of base.
Runs(r, kind, base, q) ==
    /\ r[0] = base
    /\ \A i \in 1 .. Len(q) : r[i] = Apply(kind, r[i - 1], q[i])

\* A solution read off along the sequence is a run.
LEMMA IterateRuns ==
    ASSUME NEW kind, NEW base, NEW S, NEW q \in Seq(S), NEW f,
           Iterates(f, kind, base, q, Len(q))
    PROVE  \E r : Runs(r, kind, base, q) /\ r[Len(q)] = f[1 .. Len(q)]
  <1> DEFINE n == Len(q)
             r == [i \in 0 .. n |-> f[1 .. i]]
  <1>1. n \in Nat
    BY LenProperties
  <1> HIDE DEF n
  <1>2. r[0] = base
    <2>1. 1 .. 0 = {} /\ {} \in SUBSET (1 .. n)
      OBVIOUS
    <2>2. f[{}] = base
      BY <2>1 DEF Iterates, n
    <2> QED BY <1>1, <2>1, <2>2
  <1>3. ASSUME NEW i \in 1 .. n PROVE r[i] = Apply(kind, r[i - 1], q[i])
    <2>1. /\ 1 .. i \in SUBSET (1 .. n) /\ i \in 1 .. i /\ 1 .. i # {}
          /\ i \in 0 .. n /\ i - 1 \in 0 .. n
      BY <1>1
    <2>2. Max(1 .. i) = i
      <3>1. 1 .. i \subseteq Nat /\ \A m \in 1 .. i : m <= i
        OBVIOUS
      <3> QED BY <2>1, <3>1, MaxIs
    <2>3. (1 .. i) \ {i} = 1 .. i - 1
      BY <1>1
    <2>4. f[1 .. i] = Apply(kind, f[(1 .. i) \ {Max(1 .. i)}], q[Max(1 .. i)])
      BY <2>1 DEF Iterates, n
    <2> QED BY <2>1, <2>2, <2>3, <2>4
  <1>4. r[n] = f[1 .. n]
    BY <1>1
  <1> HIDE DEF r
  <1>5. Runs(r, kind, base, q) /\ r[n] = f[1 .. n]
    BY <1>2, <1>3, <1>4 DEF Runs, n
  <1> QED BY <1>5 DEF n

\* The four folds of the model are such runs.
LEMMA FoldPutc ==
    ASSUME NEW base, NEW S, NEW q \in Seq(S)
    PROVE  \E r : Runs(r, "putc", base, q) /\ r[Len(q)] = FoldLeft(putc, base, q)
  <1> DEFINE f == CHOOSE f : f = [s \in SUBSET DOMAIN q |->
                     IF s = {} THEN base ELSE putc(f[s \ {Max(s)}], q[Max(s)])]
  <1>1. Len(q) \in Nat /\ DOMAIN q = 1 .. Len(q)
    BY LenProperties
  <1>2. PICK g : Iterates(g, "putc", base, q, Len(q))
    BY <1>1, IterateExists
  <1>3. g = [s \in SUBSET DOMAIN q |->
                IF s = {} THEN base ELSE putc(g[s \ {Max(s)}], q[Max(s)])]
    BY <1>1, <1>2 DEF Iterates, Apply
  <1>4. f = [s \in SUBSET DOMAIN q |->
                IF s = {} THEN base ELSE putc(f[s \ {Max(s)}], q[Max(s)])]
    BY <1>3
  <1>5. FoldLeft(putc, base, q) = f[DOMAIN q]
    BY DEF FoldLeft, MapThenFoldSet
  <1> HIDE DEF f
  <1>6. Iterates(f, "putc", base, q, Len(q))
    BY <1>1, <1>4 DEF Iterates, Apply
  <1> QED BY <1>1, <1>5, <1>6, IterateRuns

\* printf_terminal_active.
LEMMA FoldPutcActive ==
    ASSUME NEW base, NEW S, NEW q \in Seq(S)
    PROVE  \E r : /\ Runs(r, "putc_terminal_active", base, q)
                  /\ r[Len(q)] = FoldLeft(putc_terminal_active, base, q)
  <1> DEFINE f == CHOOSE f : f = [s \in SUBSET DOMAIN q |->
                     IF s = {} THEN base ELSE putc_terminal_active(f[s \ {Max(s)}], q[Max(s)])]
  <1>1. Len(q) \in Nat /\ DOMAIN q = 1 .. Len(q)
    BY LenProperties
  <1>2. PICK g : Iterates(g, "putc_terminal_active", base, q, Len(q))
    BY <1>1, IterateExists
  <1>3. g = [s \in SUBSET DOMAIN q |->
                IF s = {} THEN base ELSE putc_terminal_active(g[s \ {Max(s)}], q[Max(s)])]
    BY <1>1, <1>2 DEF Iterates, Apply
  <1>4. f = [s \in SUBSET DOMAIN q |->
                IF s = {} THEN base ELSE putc_terminal_active(f[s \ {Max(s)}], q[Max(s)])]
    BY <1>3
  <1>5. FoldLeft(putc_terminal_active, base, q) = f[DOMAIN q]
    BY DEF FoldLeft, MapThenFoldSet
  <1> HIDE DEF f
  <1>6. Iterates(f, "putc_terminal_active", base, q, Len(q))
    BY <1>1, <1>4 DEF Iterates, Apply
  <1> QED BY <1>1, <1>5, <1>6, IterateRuns

\* The text that a program writes.
LEMMA FoldAdd ==
    ASSUME NEW base, NEW S, NEW q \in Seq(S)
    PROVE  \E r : Runs(r, "Add", base, q) /\ r[Len(q)] = FoldLeft(Add, base, q)
  <1> DEFINE f == CHOOSE f : f = [s \in SUBSET DOMAIN q |->
                     IF s = {} THEN base ELSE Add(f[s \ {Max(s)}], q[Max(s)])]
  <1>1. Len(q) \in Nat /\ DOMAIN q = 1 .. Len(q)
    BY LenProperties
  <1>2. PICK g : Iterates(g, "Add", base, q, Len(q))
    BY <1>1, IterateExists
  <1>3. g = [s \in SUBSET DOMAIN q |->
                IF s = {} THEN base ELSE Add(g[s \ {Max(s)}], q[Max(s)])]
    BY <1>1, <1>2 DEF Iterates, Apply
  <1>4. f = [s \in SUBSET DOMAIN q |->
                IF s = {} THEN base ELSE Add(f[s \ {Max(s)}], q[Max(s)])]
    BY <1>3
  <1>5. FoldLeft(Add, base, q) = f[DOMAIN q]
    BY DEF FoldLeft, MapThenFoldSet
  <1> HIDE DEF f
  <1>6. Iterates(f, "Add", base, q, Len(q))
    BY <1>1, <1>4 DEF Iterates, Apply
  <1> QED BY <1>1, <1>5, <1>6, IterateRuns

\* printf's pass over its format.
LEMMA FoldDirective ==
    ASSUME NEW base, NEW S, NEW q \in Seq(S)
    PROVE  \E r : Runs(r, "directive", base, q) /\ r[Len(q)] = FoldLeft(directive, base, q)
  <1> DEFINE f == CHOOSE f : f = [s \in SUBSET DOMAIN q |->
                     IF s = {} THEN base ELSE directive(f[s \ {Max(s)}], q[Max(s)])]
  <1>1. Len(q) \in Nat /\ DOMAIN q = 1 .. Len(q)
    BY LenProperties
  <1>2. PICK g : Iterates(g, "directive", base, q, Len(q))
    BY <1>1, IterateExists
  <1>3. g = [s \in SUBSET DOMAIN q |->
                IF s = {} THEN base ELSE directive(g[s \ {Max(s)}], q[Max(s)])]
    BY <1>1, <1>2 DEF Iterates, Apply
  <1>4. f = [s \in SUBSET DOMAIN q |->
                IF s = {} THEN base ELSE directive(f[s \ {Max(s)}], q[Max(s)])]
    BY <1>3
  <1>5. FoldLeft(directive, base, q) = f[DOMAIN q]
    BY DEF FoldLeft, MapThenFoldSet
  <1> HIDE DEF f
  <1>6. Iterates(f, "directive", base, q, Len(q))
    BY <1>1, <1>4 DEF Iterates, Apply
  <1> QED BY <1>1, <1>5, <1>6, IterateRuns

-----------------------------------------------------------------------------
(***************************************************************************)
(* The output functions on a screen.                                        *)
(***************************************************************************)
Cells  == Rows \X Cols
Chars  == Glyphs \cup {BLANK}
Mems   == [Cells -> Chars]

\* Rows and columns.
LEMMA ScreenFacts ==
    /\ NUM_ROWS \in Nat /\ NUM_ROWS > 0 /\ NUM_COLS \in Nat /\ NUM_COLS > 0
    /\ 0 \in Rows /\ 0 \in Cols /\ NUM_ROWS - 1 \in Rows /\ NUM_COLS - 1 \in Cols
    /\ Rows \subseteq Nat /\ Cols \subseteq Nat
    /\ \A y \in Rows : y + 1 \in Rows <=> y + 1 < NUM_ROWS
    /\ \A x \in Cols : x + 1 \in Cols <=> x + 1 < NUM_COLS
    /\ ScreenType = [x : Cols, y : Rows, mem : Mems]
  BY ScreenAssumption DEF Rows, Cols, ScreenType, Mems, Cells, Chars

\* A screen with another column.
LEMMA FieldX ==
    ASSUME NEW s \in ScreenType, NEW x \in Cols
    PROVE  /\ [s EXCEPT !.x = x] \in ScreenType /\ [s EXCEPT !.x = x].x = x
           /\ [s EXCEPT !.x = x].y = s.y /\ [s EXCEPT !.x = x].mem = s.mem
  BY DEF ScreenType

\* A screen with another row.
LEMMA FieldY ==
    ASSUME NEW s \in ScreenType, NEW y \in Rows
    PROVE  /\ [s EXCEPT !.y = y] \in ScreenType /\ [s EXCEPT !.y = y].y = y
           /\ [s EXCEPT !.y = y].x = s.x /\ [s EXCEPT !.y = y].mem = s.mem
  BY DEF ScreenType

\* A screen with other characters.
LEMMA FieldMem ==
    ASSUME NEW s \in ScreenType, NEW m \in Mems
    PROVE  /\ [s EXCEPT !.mem = m] \in ScreenType /\ [s EXCEPT !.mem = m].mem = m
           /\ [s EXCEPT !.mem = m].x = s.x /\ [s EXCEPT !.mem = m].y = s.y
  BY DEF ScreenType, Mems, Cells, Chars

\* The parts of a screen.
LEMMA Fields ==
    ASSUME NEW s \in ScreenType
    PROVE  /\ s.x \in Cols /\ s.y \in Rows /\ s.mem \in Mems
           /\ s.x \in Nat /\ s.y \in Nat /\ s.x < NUM_COLS /\ s.y < NUM_ROWS
           /\ <<s.y, s.x>> \in Cells
  <1>1. s.x \in Cols /\ s.y \in Rows /\ s.mem \in Mems
    BY DEF ScreenType, Mems, Cells, Chars
  <1> QED BY <1>1, ScreenFacts DEF Cells, Cols, Rows

\* Screens with the same parts are the same.
LEMMA SameScreen ==
    ASSUME NEW s \in ScreenType, NEW t \in ScreenType,
           s.x = t.x, s.y = t.y, s.mem = t.mem
    PROVE  s = t
  BY DEF ScreenType

\* Every row moves up by one, and the last is blank.
LEMMA ScrolledFacts ==
    ASSUME NEW m \in Mems
    PROVE  /\ Scrolled(m) \in Mems
           /\ \A y \in Rows, x \in Cols :
                 Scrolled(m)[<<y, x>>] = IF y + 1 \in Rows THEN m[<<y + 1, x>>] ELSE BLANK
  <1>1. \A rc \in Cells : rc[1] \in Rows /\ rc[2] \in Cols
    BY DEF Cells
  <1>2. \A y \in Rows : y # NUM_ROWS - 1 <=> y + 1 \in Rows
    BY ScreenFacts DEF Rows
  <1>3. \A rc \in Cells : rc[1] # NUM_ROWS - 1 => m[<<rc[1] + 1, rc[2]>>] \in Chars
    BY <1>1, <1>2 DEF Cells, Mems
  <1>4. Scrolled(m) \in Mems
    BY <1>3 DEF Scrolled, Mems, Cells, Chars
  <1>5. ASSUME NEW y \in Rows, NEW x \in Cols
        PROVE  Scrolled(m)[<<y, x>>] = IF y + 1 \in Rows THEN m[<<y + 1, x>>] ELSE BLANK
    <2>1. <<y, x>> \in Cells /\ <<y, x>>[1] = y /\ <<y, x>>[2] = x
      BY DEF Cells
    <2> QED BY <1>2, <2>1 DEF Scrolled, Cells
  <1> QED BY <1>4, <1>5

\* set_row and the row half of set_screen_pos_term_exec.
LEMMA SetRowFacts ==
    ASSUME NEW s \in ScreenType, NEW y
    PROVE  /\ set_row(s, y) \in ScreenType
           /\ y \in Rows => /\ set_row(s, y).x = s.x /\ set_row(s, y).y = y
                            /\ set_row(s, y).mem = s.mem
           /\ y \notin Rows => /\ set_row(s, y).x = 0 /\ set_row(s, y).y = NUM_ROWS - 1
                               /\ set_row(s, y).mem = Scrolled(s.mem)
           /\ set_row_term_exec(s, y) = set_row(s, y)
  <1>1. CASE y \in Rows
    <2>1. set_row(s, y) = [s EXCEPT !.y = y] /\ set_row_term_exec(s, y) = [s EXCEPT !.y = y]
      BY <1>1 DEF set_row, set_row_term_exec
    <2> QED BY <1>1, <2>1, FieldY
  <1>2. CASE y \notin Rows
    <2> DEFINE m == Scrolled(s.mem)
               a == [s EXCEPT !.mem = m]
               b == [a EXCEPT !.x = 0]
               c == [b EXCEPT !.y = NUM_ROWS - 1]
    <2>1. m \in Mems /\ s.mem \in Mems
      BY Fields, ScrolledFacts
    <2>2. set_row(s, y) = c
      BY <1>2 DEF set_row, scroll_up
    <2>3. set_row_term_exec(s, y) = c
      BY <1>2 DEF set_row_term_exec
    <2>4. a \in ScreenType /\ a.mem = m
      BY <2>1, FieldMem
    <2> HIDE DEF a
    <2>5. b \in ScreenType /\ b.mem = m /\ b.x = 0
      BY <2>4, FieldX, ScreenFacts
    <2> HIDE DEF b
    <2>6. c \in ScreenType /\ c.mem = m /\ c.x = 0 /\ c.y = NUM_ROWS - 1
      BY <2>5, FieldY, ScreenFacts
    <2> HIDE DEF c
    <2> QED BY <1>2, <2>2, <2>3, <2>6 DEF m
  <1> QED BY <1>1, <1>2

\* A new line, with a scroll on the last row.
LEMMA EnterFacts ==
    ASSUME NEW s \in ScreenType
    PROVE  /\ enter(s) \in ScreenType /\ enter(s).x = 0
           /\ s.y + 1 \in Rows => enter(s).y = s.y + 1 /\ enter(s).mem = s.mem
           /\ s.y + 1 \notin Rows => /\ enter(s).y = NUM_ROWS - 1
                                     /\ enter(s).mem = Scrolled(s.mem)
  <1> DEFINE a == [s EXCEPT !.x = 0]
  <1>1. a \in ScreenType /\ a.x = 0 /\ a.mem = s.mem
    BY FieldX, ScreenFacts
  <1>2. enter(s) = set_row(a, s.y + 1)
    BY DEF enter
  <1> HIDE DEF a
  <1> QED BY <1>1, <1>2, SetRowFacts

\* A position on the screen is taken; a column past the margin is a new line.
LEMMA SetScreenPosFacts ==
    ASSUME NEW s \in ScreenType, NEW x, NEW y
    PROVE  /\ set_screen_pos(s, x, y) \in ScreenType
           /\ x \in Cols /\ y \in Rows => /\ set_screen_pos(s, x, y).x = x
                                          /\ set_screen_pos(s, x, y).y = y
                                          /\ set_screen_pos(s, x, y).mem = s.mem
           /\ x \notin Cols => set_screen_pos(s, x, y) = enter(s)
  <1>1. CASE x \in Cols
    <2> DEFINE a == [s EXCEPT !.x = x]
    <2>1. a \in ScreenType /\ a.x = x /\ a.mem = s.mem
      BY <1>1, FieldX
    <2>2. set_screen_pos(s, x, y) = set_row(a, y)
      BY <1>1 DEF set_screen_pos
    <2> HIDE DEF a
    <2> QED BY <1>1, <2>1, <2>2, SetRowFacts
  <1>2. CASE x \notin Cols
    BY <1>2, EnterFacts DEF set_screen_pos
  <1> QED BY <1>1, <1>2

\* A character put at the cursor, before the cursor moves.
Put(s, c) == [s EXCEPT !.mem[<<s.y, s.x>>] = c]

\* It changes the cell at the cursor alone.
LEMMA PutFacts ==
    ASSUME NEW s \in ScreenType, NEW c \in Chars
    PROVE  /\ Put(s, c) \in ScreenType /\ Put(s, c).x = s.x /\ Put(s, c).y = s.y
           /\ Put(s, c).mem = [s.mem EXCEPT ![<<s.y, s.x>>] = c]
  <1>1. s.mem \in Mems /\ <<s.y, s.x>> \in Cells
    BY Fields
  <1> DEFINE m == [s.mem EXCEPT ![<<s.y, s.x>>] = c]
  <1>2. m \in Mems
    BY <1>1 DEF Mems
  <1>3. Put(s, c) = [s EXCEPT !.mem = m]
    BY DEF Put
  <1> HIDE DEF m
  <1>4. /\ Put(s, c) \in ScreenType /\ Put(s, c).x = s.x /\ Put(s, c).y = s.y
        /\ Put(s, c).mem = m
    BY <1>2, <1>3, FieldMem
  <1> QED BY <1>4 DEF m

\* The two copies of putc do the same.
LEMMA PutcFacts ==
    ASSUME NEW s \in ScreenType, NEW c \in Glyphs \cup {NL}
    PROVE  /\ putc(s, c) \in ScreenType
           /\ c = NL => putc(s, c) = enter(s)
           /\ c # NL => putc(s, c) = set_screen_pos(Put(s, c), s.x + 1, s.y)
           /\ putc_terminal_active(s, c) = putc(s, c)
  <1>1. CASE c = NL
    <2> DEFINE a == [s EXCEPT !.x = 0]
    <2>1. a \in ScreenType /\ 0 \in Cols
      BY FieldX, ScreenFacts
    <2>2. putc(s, c) = enter(s) /\ enter(s) = set_row(a, s.y + 1)
      BY <1>1 DEF putc, enter
    <2>3. putc_terminal_active(s, c) = set_row_term_exec(a, s.y + 1)
      BY <1>1, <2>1 DEF putc_terminal_active, set_screen_pos_term_exec
    <2> HIDE DEF a
    <2>4. set_row_term_exec(a, s.y + 1) = set_row(a, s.y + 1)
      BY <2>1, SetRowFacts
    <2> QED BY <1>1, <2>2, <2>3, <2>4, EnterFacts
  <1>2. CASE c # NL
    <2>1. c \in Chars
      BY <1>2 DEF Chars
    <2> DEFINE p == Put(s, c)
               x == s.x + 1
    <2>2. p \in ScreenType /\ p.y = s.y /\ p.x = s.x
      BY <2>1, PutFacts
    <2>3. putc(s, c) = set_screen_pos(p, x, s.y)
      BY <1>2 DEF putc, Put
    <2>4. putc_terminal_active(s, c) = set_screen_pos_term_exec(p, x, s.y)
      BY <1>2 DEF putc_terminal_active, Put
    <2> HIDE DEF p, x
    <2>5. set_screen_pos_term_exec(p, x, s.y) = set_screen_pos(p, x, s.y)
      <3>1. CASE x \in Cols
        <4> DEFINE a == [p EXCEPT !.x = x]
        <4>1. a \in ScreenType
          BY <2>2, <3>1, FieldX
        <4>2. /\ set_screen_pos(p, x, s.y) = set_row(a, s.y)
              /\ set_screen_pos_term_exec(p, x, s.y) = set_row_term_exec(a, s.y)
          BY <3>1 DEF set_screen_pos, set_screen_pos_term_exec
        <4> HIDE DEF a
        <4> QED BY <4>1, <4>2, SetRowFacts
      <3>2. CASE x \notin Cols
        <4> DEFINE a == [p EXCEPT !.x = 0]
        <4>1. a \in ScreenType
          BY <2>2, FieldX, ScreenFacts
        <4>2. /\ set_screen_pos(p, x, s.y) = set_row(a, p.y + 1)
              /\ set_screen_pos_term_exec(p, x, s.y) = set_row_term_exec(a, p.y + 1)
          BY <3>2 DEF set_screen_pos, set_screen_pos_term_exec, enter
        <4> HIDE DEF a
        <4> QED BY <4>1, <4>2, SetRowFacts
      <3> QED BY <3>1, <3>2
    <2>6. putc(s, c) \in ScreenType
      BY <2>2, <2>3, SetScreenPosFacts
    <2> QED BY <1>2, <2>3, <2>4, <2>5, <2>6 DEF p, x
  <1> QED BY <1>1, <1>2

-----------------------------------------------------------------------------
(***************************************************************************)
(* Whole texts.                                                             *)
(***************************************************************************)
\* A run whose every step leads from D[i - 1] to D[i] stays in D.
LEMMA RunStays ==
    ASSUME NEW r, NEW kind, NEW base, NEW S, NEW q \in Seq(S), Runs(r, kind, base, q),
           NEW D, base \in D[0],
           \A i \in 1 .. Len(q) : \A d \in D[i - 1] : Apply(kind, d, q[i]) \in D[i]
    PROVE  \A i \in 0 .. Len(q) : r[i] \in D[i]
  <1> DEFINE n == Len(q)
             T == {i \in 0 .. n : r[i] \notin D[i]}
  <1>1. n \in Nat
    BY LenProperties
  <1>2. r[0] \in D[0] /\ \A i \in 1 .. n : r[i - 1] \in D[i - 1] => r[i] \in D[i]
    BY DEF Runs
  <1> HIDE DEF n
  <1>3. ASSUME T # {} PROVE FALSE
    <2>1. T \subseteq Nat
      BY <1>1
    <2>2. PICK i \in T : \A k \in T : i <= k
      BY <1>3, <2>1, LeastNumber
    <2>3. i # 0
      BY <1>2, <2>2
    <2>4. i \in 1 .. n /\ i - 1 \in 0 .. n /\ i - 1 \notin T
      BY <1>1, <2>2, <2>3
    <2>5. r[i - 1] \in D[i - 1]
      BY <2>4
    <2> QED BY <1>2, <2>2, <2>4, <2>5
  <1> QED BY <1>3 DEF n

Directives(S) == [open : BOOLEAN, out : Seq(S)]

\* What printf prints is made of the characters of the format.
LEMMA PrintedType ==
    ASSUME NEW S, NEW q \in Seq(S)
    PROVE  Printed(q) \in Seq(S)
  <1> DEFINE base == [open |-> FALSE, out |-> <<>>]
             D == [i \in 0 .. Len(q) |-> Directives(S)]
  <1>1. PICK r : Runs(r, "directive", base, q) /\ r[Len(q)] = FoldLeft(directive, base, q)
    BY FoldDirective
  <1>2. Len(q) \in Nat
    BY LenProperties
  <1>3. base \in D[0]
    <2>1. base \in Directives(S)
      BY EmptySeq DEF Directives
    <2> QED BY <1>2, <2>1
  <1>4. ASSUME NEW d \in Directives(S), NEW c \in S PROVE directive(d, c) \in Directives(S)
    <2>1. Append(d.out, c) \in Seq(S) /\ d.out \in Seq(S)
      BY AppendProperties DEF Directives
    <2> QED BY <2>1 DEF directive, Directives
  <1>5. \A i \in 1 .. Len(q) : \A d \in D[i - 1] : Apply("directive", d, q[i]) \in D[i]
    <2> SUFFICES ASSUME NEW i \in 1 .. Len(q), NEW d \in D[i - 1]
                 PROVE  Apply("directive", d, q[i]) \in D[i]
      OBVIOUS
    <2>1. i - 1 \in 0 .. Len(q) /\ i \in 0 .. Len(q)
      BY <1>2
    <2>2. d \in Directives(S) /\ q[i] \in S
      BY <2>1, ElementOfSeq
    <2>3. Apply("directive", d, q[i]) = directive(d, q[i])
      BY DEF Apply
    <2> QED BY <1>4, <2>1, <2>2, <2>3
  <1> HIDE DEF D, base
  <1>6. \A i \in 0 .. Len(q) : r[i] \in D[i]
    BY <1>1, <1>3, <1>5, RunStays
  <1>7. r[Len(q)] \in Directives(S)
    BY <1>2, <1>6 DEF D
  <1>8. Printed(q) = r[Len(q)].out
    BY <1>1 DEF Printed, base
  <1> QED BY <1>7, <1>8 DEF Directives

\* A format without a percent sign is printed as it stands.
LEMMA PrintedPlain ==
    ASSUME NEW S, PCT \notin S, NEW q \in Seq(S)
    PROVE  Printed(q) = q
  <1> DEFINE base == [open |-> FALSE, out |-> <<>>]
             P(i) == {d \in Directives(S) : /\ d.open = FALSE /\ Len(d.out) = i
                                            /\ \A k \in 1 .. i : d.out[k] = q[k]}
             D == [i \in 0 .. Len(q) |-> P(i)]
  <1>1. PICK r : Runs(r, "directive", base, q) /\ r[Len(q)] = FoldLeft(directive, base, q)
    BY FoldDirective
  <1>2. Len(q) \in Nat
    BY LenProperties
  <1>3. base \in D[0]
    <2>1. <<>> \in Seq(S) /\ Len(<<>>) = 0
      BY EmptySeq
    <2>2. base \in Directives(S) /\ base.open = FALSE /\ base.out = <<>>
      BY <2>1 DEF Directives
    <2> HIDE DEF base
    <2>3. base \in P(0)
      BY <2>1, <2>2
    <2> QED BY <1>2, <2>3
  <1>4. ASSUME NEW i \in 1 .. Len(q), NEW d \in P(i - 1) PROVE directive(d, q[i]) \in P(i)
    <2>1. q[i] \in S /\ q[i] # PCT
      BY ElementOfSeq
    <2>2. /\ d \in Directives(S) /\ d.open = FALSE /\ Len(d.out) = i - 1
          /\ \A k \in 1 .. i - 1 : d.out[k] = q[k]
      OBVIOUS
    <2>3. d.out \in Seq(S)
      BY <2>2 DEF Directives
    <2> DEFINE e == Append(d.out, q[i])
               g == [d EXCEPT !.out = e]
    <2>4. directive(d, q[i]) = g
      BY <2>1, <2>2 DEF directive
    <2>5. /\ e \in Seq(S) /\ Len(e) = Len(d.out) + 1
          /\ \A k \in 1 .. Len(d.out) : e[k] = d.out[k]
          /\ e[Len(d.out) + 1] = q[i]
      BY <2>1, <2>3, AppendProperties
    <2> HIDE DEF e
    <2>6. g \in Directives(S) /\ g.open = FALSE /\ g.out = e
      BY <2>2, <2>5 DEF Directives
    <2> HIDE DEF g
    <2>7. (i - 1) + 1 = i /\ \A k \in 1 .. i : k \in 1 .. i - 1 \/ k = i
      BY <1>2
    <2>8. Len(e) = i /\ \A k \in 1 .. i : e[k] = q[k]
      BY <2>2, <2>5, <2>7
    <2> QED BY <2>4, <2>6, <2>8
  <1>5. \A i \in 1 .. Len(q) : \A d \in D[i - 1] : Apply("directive", d, q[i]) \in D[i]
    <2> SUFFICES ASSUME NEW i \in 1 .. Len(q), NEW d \in D[i - 1]
                 PROVE  Apply("directive", d, q[i]) \in D[i]
      OBVIOUS
    <2>1. i - 1 \in 0 .. Len(q) /\ i \in 0 .. Len(q)
      BY <1>2
    <2> HIDE DEF P
    <2>2. d \in P(i - 1)
      BY <2>1
    <2>3. Apply("directive", d, q[i]) = directive(d, q[i])
      BY DEF Apply
    <2> QED BY <1>4, <2>1, <2>2, <2>3
  <1> HIDE DEF D, base
  <1>6. \A i \in 0 .. Len(q) : r[i] \in D[i]
    BY <1>1, <1>3, <1>5, RunStays
  <1>7. r[Len(q)] \in P(Len(q))
    <2> HIDE DEF P
    <2> QED BY <1>2, <1>6 DEF D
  <1>8. Printed(q) = r[Len(q)].out
    BY <1>1 DEF Printed, base
  <1>9. /\ Printed(q) \in Seq(S) /\ Len(Printed(q)) = Len(q)
        /\ \A k \in 1 .. Len(q) : Printed(q)[k] = q[k]
    BY <1>7, <1>8 DEF Directives
  <1> QED BY <1>9, SeqEqual

\* A text printed by either copy of the output functions gives the same screen.
LEMMA PutcRun ==
    ASSUME NEW s \in ScreenType, NEW q \in Seq(Glyphs \cup {NL})
    PROVE  /\ FoldLeft(putc, s, q) \in ScreenType
           /\ FoldLeft(putc_terminal_active, s, q) = FoldLeft(putc, s, q)
  <1> DEFINE D == [i \in 0 .. Len(q) |-> ScreenType]
  <1>1. PICK r : Runs(r, "putc", s, q) /\ r[Len(q)] = FoldLeft(putc, s, q)
    BY FoldPutc
  <1>2. PICK u : /\ Runs(u, "putc_terminal_active", s, q)
                 /\ u[Len(q)] = FoldLeft(putc_terminal_active, s, q)
    BY FoldPutcActive
  <1>3. /\ Len(q) \in Nat /\ \A i \in 1 .. Len(q) : i \in 0 .. Len(q) /\ i - 1 \in 0 .. Len(q)
    BY LenProperties
  <1>4. \A i \in 1 .. Len(q) : q[i] \in Glyphs \cup {NL}
    BY ElementOfSeq
  <1>5. /\ \A d, c : Apply("putc", d, c) = putc(d, c)
        /\ \A d, c : Apply("putc_terminal_active", d, c) = putc_terminal_active(d, c)
    BY DEF Apply
  <1>6. \A i \in 0 .. Len(q) : r[i] \in ScreenType
    <2>1. s \in D[0]
      BY <1>3
    <2>2. \A i \in 1 .. Len(q) : \A d \in D[i - 1] : Apply("putc", d, q[i]) \in D[i]
      BY <1>3, <1>4, <1>5, PutcFacts
    <2> HIDE DEF D
    <2>3. \A i \in 0 .. Len(q) : r[i] \in D[i]
      BY <1>1, <2>1, <2>2, RunStays
    <2> QED BY <2>3 DEF D
  <1> DEFINE E == [i \in 0 .. Len(q) |-> {r[i]}]
  <1>7. \A i \in 0 .. Len(q) : u[i] = r[i]
    <2>1. s \in E[0]
      BY <1>1, <1>3 DEF Runs
    <2>2. \A i \in 1 .. Len(q) : r[i] = putc(r[i - 1], q[i])
      BY <1>1, <1>5 DEF Runs
    <2>3. \A i \in 1 .. Len(q) : \A d \in E[i - 1] :
             Apply("putc_terminal_active", d, q[i]) \in E[i]
      BY <1>3, <1>4, <1>5, <1>6, <2>2, PutcFacts
    <2> HIDE DEF E
    <2>4. \A i \in 0 .. Len(q) : u[i] \in E[i]
      BY <1>2, <2>1, <2>3, RunStays
    <2> QED BY <2>4 DEF E
  <1> QED BY <1>1, <1>2, <1>3, <1>6, <1>7

\* The two copies of printf do the same.
LEMMA PrintfFacts ==
    ASSUME NEW s \in ScreenType, NEW q \in Texts
    PROVE  printf(s, q) \in ScreenType /\ printf_terminal_active(s, q) = printf(s, q)
  <1>1. q \in Seq(Glyphs \cup {NL})
    BY ScreenAssumption
  <1>2. Printed(q) \in Seq(Glyphs \cup {NL})
    BY <1>1, PrintedType
  <1> QED BY <1>2, PutcRun DEF printf, printf_terminal_active

\* One cell back and blank, over the left margin too.
LEMMA BackspaceFacts ==
    ASSUME NEW s \in ScreenType
    PROVE  /\ backspace(s) \in ScreenType
           /\ s.x # 0 => /\ backspace(s).x = s.x - 1 /\ backspace(s).y = s.y
                         /\ backspace(s).mem = [s.mem EXCEPT ![<<s.y, s.x - 1>>] = BLANK]
           /\ s.x = 0 /\ s.y # 0 =>
                 /\ backspace(s).x = NUM_COLS - 1 /\ backspace(s).y = s.y - 1
                 /\ backspace(s).mem = [s.mem EXCEPT ![<<s.y - 1, NUM_COLS - 1>>] = BLANK]
  <1>1. /\ s.x \in Cols /\ s.y \in Rows /\ s.x \in Nat /\ s.y \in Nat
        /\ s.x < NUM_COLS /\ s.y < NUM_ROWS
    BY Fields
  <1> DEFINE b == IF s.x = 0 THEN set_screen_pos(s, NUM_COLS - 1, s.y - 1)
                  ELSE set_screen_pos(s, s.x - 1, s.y)
  <1>2. backspace(s) = Put(b, BLANK)
    BY DEF backspace, Put
  <1>3. b \in ScreenType
    BY SetScreenPosFacts
  <1>4. ASSUME s.x # 0 PROVE b.x = s.x - 1 /\ b.y = s.y /\ b.mem = s.mem
    <2>1. s.x - 1 \in Cols
      BY <1>1, <1>4, ScreenFacts DEF Cols
    <2>2. b = set_screen_pos(s, s.x - 1, s.y)
      BY <1>4
    <2> QED BY <1>1, <2>1, <2>2, SetScreenPosFacts
  <1>5. ASSUME s.x = 0, s.y # 0
        PROVE  b.x = NUM_COLS - 1 /\ b.y = s.y - 1 /\ b.mem = s.mem
    <2>1. s.y - 1 \in Rows
      BY <1>1, <1>5, ScreenFacts DEF Rows
    <2>2. b = set_screen_pos(s, NUM_COLS - 1, s.y - 1)
      BY <1>5
    <2> QED BY <2>1, <2>2, SetScreenPosFacts, ScreenFacts
  <1> HIDE DEF b
  <1>6. BLANK \in Chars
    BY DEF Chars
  <1>7. /\ Put(b, BLANK) \in ScreenType /\ Put(b, BLANK).x = b.x /\ Put(b, BLANK).y = b.y
        /\ Put(b, BLANK).mem = [b.mem EXCEPT ![<<b.y, b.x>>] = BLANK]
    BY <1>3, <1>6, PutFacts
  <1> QED BY <1>2, <1>4, <1>5, <1>7

\* The screen that Ctrl-L leaves.
LEMMA ClearFacts ==
    ASSUME NEW s \in ScreenType
    PROVE  /\ set_screen_pos(clear(s), 0, 0) \in ScreenType
           /\ set_screen_pos(clear(s), 0, 0).x = 0 /\ set_screen_pos(clear(s), 0, 0).y = 0
           /\ set_screen_pos(clear(s), 0, 0).mem = Cleared
           /\ Cleared \in Mems
  <1>1. Cleared \in Mems
    BY DEF Cleared, Mems, Cells, Chars
  <1>2. clear(s) \in ScreenType /\ clear(s).mem = Cleared
    BY <1>1, FieldMem DEF clear
  <1>3. 0 \in Cols /\ 0 \in Rows
    BY ScreenFacts
  <1> QED BY <1>1, <1>2, <1>3, SetScreenPosFacts

\* A terminal that is switched to gets its own screen back.
LEMMA RestoreFacts ==
    ASSUME NEW s \in ScreenType, NEW u \in ScreenType
    PROVE  [set_screen_pos(s, u.x, u.y) EXCEPT !.mem = u.mem] = u
  <1> DEFINE a == set_screen_pos(s, u.x, u.y)
  <1>1. a \in ScreenType /\ a.x = u.x /\ a.y = u.y /\ u.mem \in Mems
    <2>1. u.x \in Cols /\ u.y \in Rows /\ u.mem \in Mems
      BY Fields
    <2> QED BY <2>1, SetScreenPosFacts
  <1> HIDE DEF a
  <1>2. /\ [a EXCEPT !.mem = u.mem] \in ScreenType /\ [a EXCEPT !.mem = u.mem].mem = u.mem
        /\ [a EXCEPT !.mem = u.mem].x = u.x /\ [a EXCEPT !.mem = u.mem].y = u.y
    BY <1>1, FieldMem
  <1> QED BY <1>2, SameScreen DEF a

-----------------------------------------------------------------------------
(***************************************************************************)
(* The types, and what is typed.                                            *)
(***************************************************************************)
LEMMA IndexFacts ==
    /\ KEY_BUFFER_SIZE \in Nat /\ MAX_IDX \in Nat /\ KEY_BUFFER_SIZE < MAX_IDX
    /\ 0 \in 0 .. MAX_IDX
    /\ \A i \in 0 .. MAX_IDX : i < MAX_IDX => i + 1 \in 0 .. MAX_IDX
    /\ \A i \in 0 .. MAX_IDX : i < KEY_BUFFER_SIZE => i < MAX_IDX
    /\ \A i \in 0 .. MAX_IDX : i > 0 => i - 1 \in 0 .. MAX_IDX
  BY ScreenAssumption

ScreensType ==
    /\ cur_term \in Terms
    /\ screen \in ScreenType
    /\ terminal \in [Terms -> ScreenType]
    /\ key_buffer_idx \in 0 .. MAX_IDX
    /\ saved_idx \in [Terms -> 0 .. MAX_IDX]
    /\ eflag \in [Terms -> {0, 1}]

\* A key types something that is printed.
LEMMA CharIsGlyph == ASSUME NEW c PROVE Char(c) \in Glyphs /\ Char(c) \in Glyphs \cup {NL}
  BY KeyboardAssumption DEF Char

\* Key presses keep the types.
LEMMA PressTypes ==
    ASSUME ScreensType, NEW c \in Glyphs \cup {NL},
           press(c) \/ press_backspace \/ press_enter \/ press_ctrl_l
    PROVE  ScreensType'
  <1>1. CASE press(c)
    <2>1. /\ key_buffer_idx < KEY_BUFFER_SIZE /\ key_buffer_idx' = key_buffer_idx + 1
          /\ screen' = putc(screen, c) /\ UNCHANGED <<cur_term, terminal, saved_idx, eflag>>
      BY <1>1 DEF press
    <2>2. screen' \in ScreenType
      BY <2>1, PutcFacts DEF ScreensType
    <2> QED BY <2>1, <2>2, IndexFacts DEF ScreensType
  <1>2. CASE press_backspace
    <2>1. /\ key_buffer_idx > 0 /\ key_buffer_idx' = key_buffer_idx - 1
          /\ screen' = backspace(screen) /\ UNCHANGED <<cur_term, terminal, saved_idx, eflag>>
      BY <1>2 DEF press_backspace, Erasable
    <2>2. screen' \in ScreenType
      BY <2>1, BackspaceFacts DEF ScreensType
    <2> QED BY <2>1, <2>2, IndexFacts DEF ScreensType
  <1>3. CASE press_enter
    <2>1. /\ key_buffer_idx < MAX_IDX /\ key_buffer_idx' = key_buffer_idx + 1
          /\ eflag' = [eflag EXCEPT ![cur_term] = 1]
          /\ screen' = enter(screen) /\ UNCHANGED <<cur_term, terminal, saved_idx>>
      BY <1>3 DEF press_enter
    <2>2. screen' \in ScreenType
      BY <2>1, EnterFacts DEF ScreensType
    <2> QED BY <2>1, <2>2, IndexFacts DEF ScreensType
  <1>4. CASE press_ctrl_l
    <2>1. /\ screen' = set_screen_pos(clear(screen), 0, 0)
          /\ UNCHANGED <<cur_term, terminal, key_buffer_idx, saved_idx, eflag>>
      BY <1>4 DEF press_ctrl_l, lineVars
    <2>2. screen' \in ScreenType
      BY <2>1, ClearFacts DEF ScreensType
    <2> QED BY <2>1, <2>2 DEF ScreensType
  <1> QED BY <1>1, <1>2, <1>3, <1>4

\* A switch keeps them, and restores the screen of the terminal.
LEMMA SwitchTypes ==
    ASSUME ScreensType, NEW t \in Terms, switch_terminal(t)
    PROVE  ScreensType' /\ screen' = terminal[t]
  <1>1. /\ terminal' = [terminal EXCEPT ![cur_term] = screen]
        /\ saved_idx' = [saved_idx EXCEPT ![cur_term] = key_buffer_idx]
        /\ screen' = [set_screen_pos(screen, terminal[t].x, terminal[t].y)
                         EXCEPT !.mem = terminal[t].mem]
        /\ key_buffer_idx' = saved_idx[t] /\ cur_term' = t /\ eflag' = eflag
    BY DEF switch_terminal
  <1>2. screen' = terminal[t] /\ terminal[t] \in ScreenType
    BY <1>1, RestoreFacts DEF ScreensType
  <1> QED BY <1>1, <1>2 DEF ScreensType

\* What programs read and write keeps them.
LEMMA ProcessTypes ==
    ASSUME ScreensType, NEW t \in Terms, process(t)
    PROVE  ScreensType'
  <1>1. CASE terminal_read(t)
    BY <1>1, IndexFacts DEF terminal_read, ScreensType
  <1>2. CASE \E buf \in Texts : terminal_write(t, buf)
    <2>1. PICK buf \in Texts : terminal_write(t, buf)
      BY <1>2
    <2>2. UNCHANGED <<cur_term, key_buffer_idx, saved_idx, eflag>>
      BY <2>1 DEF terminal_write, lineVars
    <2>3. screen' \in ScreenType /\ terminal' \in [Terms -> ScreenType]
      <3>1. CASE Displayed(t)
        <4>1. screen' = printf(screen, buf) /\ terminal' = terminal
          BY <2>1, <3>1 DEF terminal_write
        <4> QED BY <4>1, PrintfFacts DEF ScreensType
      <3>2. CASE ~Displayed(t)
        <4>1. /\ terminal' = [terminal EXCEPT ![t] = printf_terminal_active(terminal[t], buf)]
              /\ screen' = screen
          BY <2>1, <3>2 DEF terminal_write
        <4>2. printf_terminal_active(terminal[t], buf) \in ScreenType
          BY PrintfFacts DEF ScreensType
        <4> QED BY <4>1, <4>2 DEF ScreensType
      <3> QED BY <3>1, <3>2
    <2> QED BY <2>2, <2>3 DEF ScreensType
  <1> QED BY <1>1, <1>2 DEF process

\* The key presses of a line among the steps.
LEMMA KeyCases ==
    ASSUME NEW c, key_pressed(c)
    PROVE  \/ press(Char(c)) /\ stat.alt # 1 /\ stat.ctrl # 1
           \/ press_enter /\ stat.alt # 1
           \/ press_backspace \/ press_ctrl_l
  <1>1. CASE stat.alt = 1
    BY <1>1 DEF key_pressed
  <1>2. CASE stat.alt # 1 /\ Ctrl(c)
    BY <1>2 DEF key_pressed
  <1>3. CASE stat.alt # 1 /\ ~Ctrl(c)
    <2>1. \/ c = "BACKSPACE" /\ press_backspace
          \/ c = "KEY_ENTER" /\ press_enter
          \/ c \in Letters \cup {"symbol"} /\ press(Char(c))
      BY <1>3 DEF key_pressed
    <2>2. c \in Letters \cup {"symbol"} => c \notin {"BACKSPACE", "KEY_ENTER"}
      BY DEF Letters
    <2>3. c \in Letters \cup {"symbol"} => stat.ctrl # 1
      BY <1>3, <2>2 DEF Ctrl
    <2> QED BY <1>3, <2>1, <2>3
  <1> QED BY <1>1, <1>2, <1>3

\* Every step keeps them.
LEMMA TypesStep == ScreensType /\ [Next]_vars => ScreensType'
  <1> SUFFICES ASSUME ScreensType, [Next]_vars PROVE ScreensType'
    OBVIOUS
  <1>1. CASE UNCHANGED screenVars
    BY <1>1 DEF screenVars, lineVars, ScreensType
  <1>2. CASE \E s \in ScanCodes : key_pressed(s)
    BY <1>2, KeyCases, CharIsGlyph, PressTypes
  <1>3. CASE \E t \in Terms : function_key(t)
    BY <1>3, SwitchTypes DEF function_key
  <1>4. CASE \E t \in Terms : process(t)
    BY <1>4, ProcessTypes
  <1> QED BY <1>1, <1>2, <1>3, <1>4
      DEF Next, keyboard_interrupt_handler, modifier_pressed, modifier_released,
          caps_pressed, vars

\* So they hold throughout.
LEMMA TypesInvariance == Spec => []ScreensType
  <1>1. KeyboardInit => ScreensType
    <2> SUFFICES ASSUME KeyboardInit PROVE ScreensType
      OBVIOUS
    <2>1. [x |-> 0, y |-> 0, mem |-> Cleared] \in ScreenType
      BY ScreenFacts DEF ScreenType, Cleared
    <2> QED BY <2>1, IndexFacts DEF KeyboardInit, Init, ScreensType
  <1> QED BY <1>1, TypesStep, PTL DEF Spec

\* Every cursor is on its screen, every line index within its bound and every
\* character on a screen one that is printed or a blank, whatever programs
\* write and whichever keys are pressed.
THEOREM TypeCorrect == Spec => []TypeOK
  <1>1. ScreensType /\ ModInv => TypeOK
    <2>1. Stats \subseteq [{"ctrl", "shift", "alt", "caps"} -> {0, 1}]
      BY DEF Stats
    <2> QED BY <2>1 DEF ScreensType, ModInv, TypeOK
  <1> QED BY <1>1, TypesInvariance, ModInvariance, PTL

\* "alt should only be able to backspace and control should only be able to
\* take in backspace and return": while Alt is held no key enters a line, and
\* while Control is held only the newline does (keyboard_interrupt_handler),
\* in whatever order keys went down and terminals were switched.
THEOREM NothingTypedWithAltOrCtrlHolds == Spec => NothingTypedWithAltOrCtrl
  <1> DEFINE A == cur_term' = cur_term /\ key_buffer_idx' = key_buffer_idx + 1 =>
                     /\ ALT \notin held
                     /\ CTRL \in held => eflag'[cur_term] = 1 /\ screen'.x = 0
  <1>1. (ScreensType /\ ModInv) /\ [Next]_vars => [A]_vars
    <2> SUFFICES ASSUME ScreensType, ModInv, Next,
                        cur_term' = cur_term, key_buffer_idx' = key_buffer_idx + 1
                 PROVE  /\ ALT \notin held
                        /\ CTRL \in held => eflag'[cur_term] = 1 /\ screen'.x = 0
      OBVIOUS
    <2>1. key_buffer_idx \in Nat /\ key_buffer_idx + 1 # key_buffer_idx
          /\ key_buffer_idx + 1 # key_buffer_idx - 1 /\ key_buffer_idx + 1 # 0
      BY DEF ScreensType
    <2>2. ASSUME UNCHANGED screenVars PROVE FALSE
      BY <2>1, <2>2 DEF screenVars, lineVars
    <2>3. ASSUME NEW t \in Terms, process(t) PROVE FALSE
      BY <2>1, <2>3 DEF process, terminal_read, terminal_write, lineVars
    <2>4. ASSUME NEW t \in Terms, function_key(t) PROVE FALSE
      BY <2>4 DEF function_key, switch_terminal
    <2>5. PICK c \in ScanCodes : key_pressed(c)
      BY <2>2, <2>3, <2>4 DEF Next, keyboard_interrupt_handler, modifier_pressed,
                              modifier_released, caps_pressed
    <2>6. CASE press(Char(c)) /\ stat.alt # 1 /\ stat.ctrl # 1
      BY <2>6 DEF ModInv
    <2>7. CASE press_enter /\ stat.alt # 1
      <3>1. screen' = enter(screen) /\ eflag' = [eflag EXCEPT ![cur_term] = 1]
        BY <2>7 DEF press_enter
      <3>2. screen'.x = 0
        BY <3>1, EnterFacts DEF ScreensType
      <3>3. eflag'[cur_term] = 1
        BY <3>1 DEF ScreensType
      <3> QED BY <2>7, <3>2, <3>3 DEF ModInv
    <2>8. CASE press_backspace
      BY <2>1, <2>8 DEF press_backspace
    <2>9. CASE press_ctrl_l
      BY <2>1, <2>9 DEF press_ctrl_l, lineVars
    <2> QED BY <2>5, <2>6, <2>7, <2>8, <2>9, KeyCases
  <1> QED BY <1>1, TypesInvariance, ModInvariance, PTL DEF Spec, NothingTypedWithAltOrCtrl

-----------------------------------------------------------------------------
(***************************************************************************)
(* Screens and the texts they show.                                         *)
(***************************************************************************)
\* Lines that fit on a screen.
Block(l) ==
    /\ l \in Seq(Seq(Chars)) /\ Len(l) \in 1 .. NUM_ROWS
    /\ \A k \in 1 .. Len(l) : Len(l[k]) \in 0 .. NUM_COLS

MemShows(m, l) ==
    \A y \in Rows, x \in Cols :
        m[<<y, x>>] = IF y < Len(l) /\ x < Len(l[y + 1]) THEN l[y + 1][x + 1] ELSE BLANK

\* ScreenShowsText for one screen.
OnScreen(s, l) ==
    /\ Block(l) /\ s.y = Len(l) - 1 /\ s.x = Len(Last(l)) /\ MemShows(s.mem, l)

\* All but the last element.
LEMMA FrontFacts ==
    ASSUME NEW S, NEW s \in Seq(S), s # <<>>
    PROVE  /\ Front(s) \in Seq(S) /\ Len(s) \in Nat \ {0} /\ Len(Front(s)) = Len(s) - 1
           /\ \A k \in 1 .. Len(s) - 1 : Front(s)[k] = s[k]
  <1>1. Len(s) \in Nat \ {0}
    BY EmptySeq
  <1>2. \A k \in 1 .. Len(s) - 1 : s[k] \in S
    BY <1>1, ElementOfSeq
  <1> DEFINE n == Len(s) - 1
  <1>3. n \in Nat
    BY <1>1
  <1> HIDE DEF n
  <1>4. /\ SubSeq(s, 1, n) \in Seq(S)
        /\ Len(SubSeq(s, 1, n)) = IF 1 <= n THEN n - 1 + 1 ELSE 0
        /\ \A k \in 1 .. n - 1 + 1 : SubSeq(s, 1, n)[k] = s[1 + k - 1]
    BY <1>2, <1>3, SubSeqProperties DEF n
  <1>5. Front(s) = SubSeq(s, 1, n)
    BY DEF Front, n
  <1>6. /\ n - 1 + 1 = n /\ (~(1 <= n) => n = 0)
        /\ \A k \in 1 .. n : 1 + k - 1 = k
    BY <1>3
  <1>7. /\ Front(s) \in Seq(S) /\ Len(Front(s)) = n
        /\ \A k \in 1 .. n : Front(s)[k] = s[k]
    BY <1>3, <1>4, <1>5, <1>6
  <1> QED BY <1>1, <1>7 DEF n

\* A sequence with another last element.
LEMMA ReplaceLast ==
    ASSUME NEW S, NEW l \in Seq(S), Len(l) >= 1, NEW e \in S
    PROVE  /\ Append(Front(l), e) \in Seq(S) /\ Len(Append(Front(l), e)) = Len(l)
           /\ \A k \in 1 .. Len(l) - 1 : Append(Front(l), e)[k] = l[k]
           /\ Append(Front(l), e)[Len(l)] = e
           /\ Last(Append(Front(l), e)) = e
  <1> DEFINE f == Front(l)
             a == Append(f, e)
             n == Len(l)
  <1>1. l # <<>> /\ n \in Nat /\ n >= 1
    BY EmptySeq, LenProperties
  <1>2. f \in Seq(S) /\ Len(f) = n - 1 /\ \A k \in 1 .. n - 1 : f[k] = l[k]
    BY <1>1, FrontFacts
  <1> HIDE DEF f, n
  <1>3. /\ a \in Seq(S) /\ Len(a) = Len(f) + 1 /\ \A k \in 1 .. Len(f) : a[k] = f[k]
        /\ a[Len(f) + 1] = e
    BY <1>2, AppendProperties
  <1> HIDE DEF a
  <1>4. (n - 1) + 1 = n
    BY <1>1
  <1>5. /\ a \in Seq(S) /\ Len(a) = n /\ \A k \in 1 .. n - 1 : a[k] = l[k]
        /\ a[n] = e
    BY <1>2, <1>3, <1>4
  <1>6. Last(a) = e
    BY <1>5 DEF Last
  <1> QED BY <1>5, <1>6 DEF f, a, n

\* A new line at the end of the text, and the cursor at its beginning.
LEMMA NewLineShows ==
    ASSUME NEW s \in ScreenType, NEW l, Block(l), s.y = Len(l) - 1, MemShows(s.mem, l)
    PROVE  OnScreen(enter(s), NewLine(l))
  <1> DEFINE S == Seq(Chars)
             n == Len(l)
             m == Append(l, <<>>)
             e == enter(s)
  <1>1. l \in Seq(S) /\ n \in 1 .. NUM_ROWS /\ <<>> \in S /\ Len(<<>>) = 0
    BY EmptySeq DEF Block
  <1>2. /\ m \in Seq(S) /\ m # <<>> /\ Len(m) = n + 1
        /\ \A k \in 1 .. n : m[k] = l[k]
        /\ m[n + 1] = <<>>
    <2> HIDE DEF S
    <2> QED BY <1>1, AppendProperties
  <1>3. s.y + 1 = n /\ n \in Nat /\ NUM_ROWS \in Nat
    BY <1>1, ScreenFacts
  <1>4. \A k \in 1 .. n : Len(l[k]) \in 0 .. NUM_COLS
    BY DEF Block
  <1>5. \A y \in Rows, x \in Cols :
           s.mem[<<y, x>>] = IF y < n /\ x < Len(l[y + 1]) THEN l[y + 1][x + 1] ELSE BLANK
    BY DEF MemShows
  <1>6. /\ e.x = 0
        /\ n \in Rows => e.y = n /\ e.mem = s.mem
        /\ n \notin Rows => e.y = NUM_ROWS - 1 /\ e.mem = Scrolled(s.mem)
    BY <1>3, EnterFacts
  <1>7. NewLine(l) = IF Len(m) > NUM_ROWS THEN Tail(m) ELSE m
    BY DEF NewLine
  <1> HIDE DEF S, n, m, e
  <1>8. \A x \in Cols : ~(x < 0)
    BY ScreenFacts
  <1>9. CASE n < NUM_ROWS
    <2>1. NewLine(l) = m /\ n \in Rows
      BY <1>2, <1>3, <1>7, <1>9 DEF Rows
    <2>2. Block(m)
      <3>1. Len(m) \in 1 .. NUM_ROWS
        BY <1>2, <1>3, <1>9
      <3>2. ASSUME NEW k \in 1 .. n + 1 PROVE Len(m[k]) \in 0 .. NUM_COLS
        <4>1. CASE k = n + 1
          BY <1>1, <1>2, <4>1, ScreenFacts
        <4>2. CASE k # n + 1
          <5>1. k \in 1 .. n
            BY <1>3, <4>2
          <5> QED BY <1>2, <1>4, <5>1
        <4> QED BY <4>1, <4>2
      <3> QED BY <1>2, <3>1, <3>2 DEF Block, S
    <2>3. e.y = Len(m) - 1 /\ e.x = Len(Last(m))
      <3>1. Last(m) = <<>>
        BY <1>2 DEF Last
      <3> QED BY <1>1, <1>2, <1>3, <1>6, <2>1, <3>1
    <2>4. MemShows(e.mem, m)
      <3> SUFFICES ASSUME NEW y \in Rows, NEW x \in Cols
                   PROVE  e.mem[<<y, x>>] = IF y < Len(m) /\ x < Len(m[y + 1])
                                            THEN m[y + 1][x + 1] ELSE BLANK
        BY DEF MemShows
      <3>1. y \in Nat /\ e.mem = s.mem
        BY <1>6, <2>1, ScreenFacts
      <3>2. CASE y < n
        <4>1. y + 1 \in 1 .. n /\ y < Len(m)
          BY <1>2, <1>3, <3>1, <3>2
        <4> QED BY <1>2, <1>5, <3>1, <3>2, <4>1
      <3>3. CASE y = n
        <4>1. m[y + 1] = <<>> /\ ~(y < n)
          BY <1>2, <1>3, <3>3
        <4> QED BY <1>1, <1>5, <1>8, <3>1, <4>1
      <3>4. CASE y > n
        <4>1. ~(y < Len(m)) /\ ~(y < n)
          BY <1>2, <1>3, <3>1, <3>4
        <4> QED BY <1>5, <3>1, <4>1
      <3> QED BY <1>3, <3>1, <3>2, <3>3, <3>4
    <2> QED BY <2>1, <2>2, <2>3, <2>4 DEF OnScreen, e
  <1>10. CASE ~(n < NUM_ROWS)
    <2> DEFINE t == Tail(m)
    <2>1. n = NUM_ROWS /\ n \notin Rows
      BY <1>1, <1>3, <1>10 DEF Rows
    <2>2. NewLine(l) = t
      BY <1>2, <1>3, <1>7, <2>1
    <2>3. t \in Seq(S) /\ Len(t) = n /\ \A k \in 1 .. n : t[k] = m[k + 1]
      <3>1. /\ t \in Seq(S) /\ Len(t) = Len(m) - 1
            /\ \A k \in 1 .. Len(t) : t[k] = m[k + 1]
        BY <1>2, HeadTailProperties
      <3> HIDE DEF t
      <3>2. (n + 1) - 1 = n
        BY <1>3
      <3> QED BY <1>2, <3>1, <3>2
    <2> HIDE DEF t
    <2>4. \A k \in 1 .. n : t[k] = IF k = n THEN <<>> ELSE l[k + 1]
      <3> TAKE k \in 1 .. n
      <3>1. CASE k = n
        BY <1>2, <2>3, <3>1
      <3>2. CASE k # n
        <4>1. k + 1 \in 1 .. n
          BY <1>3, <3>2
        <4> QED BY <1>2, <2>3, <3>2, <4>1
      <3> QED BY <3>1, <3>2
    <2>5. Block(t)
      <3>1. ASSUME NEW k \in 1 .. n PROVE Len(t[k]) \in 0 .. NUM_COLS
        <4>1. CASE k = n
          BY <1>1, <2>4, <4>1, ScreenFacts
        <4>2. CASE k # n
          <5>1. k + 1 \in 1 .. n
            BY <1>3, <4>2
          <5> QED BY <1>4, <2>4, <4>2, <5>1
        <4> QED BY <4>1, <4>2
      <3> QED BY <1>1, <2>3, <3>1 DEF Block, S
    <2>6. e.y = Len(t) - 1 /\ e.x = Len(Last(t))
      <3>1. n \in 1 .. n
        BY <1>1
      <3>2. Last(t) = <<>>
        BY <2>3, <2>4, <3>1 DEF Last
      <3> QED BY <1>1, <1>6, <2>1, <2>3, <3>2
    <2>7. MemShows(e.mem, t)
      <3> SUFFICES ASSUME NEW y \in Rows, NEW x \in Cols
                   PROVE  e.mem[<<y, x>>] = IF y < Len(t) /\ x < Len(t[y + 1])
                                            THEN t[y + 1][x + 1] ELSE BLANK
        BY DEF MemShows
      <3>1. y \in Nat /\ y < n /\ y + 1 \in 1 .. n
        BY <1>3, <2>1, ScreenFacts DEF Rows
      <3>2. e.mem[<<y, x>>] = IF y + 1 \in Rows THEN s.mem[<<y + 1, x>>] ELSE BLANK
        <4>1. s.mem \in Mems
          BY Fields
        <4>2. Scrolled(s.mem)[<<y, x>>] =
                 IF y + 1 \in Rows THEN s.mem[<<y + 1, x>>] ELSE BLANK
          BY <4>1, ScrolledFacts
        <4> QED BY <1>6, <2>1, <4>2
      <3>3. CASE y + 1 = n
        BY <1>1, <1>8, <2>1, <2>3, <2>4, <3>1, <3>2, <3>3
      <3>4. CASE y + 1 # n
        <4>1. y + 1 \in Rows /\ y + 1 < n
          BY <2>1, <3>1, <3>4, ScreenFacts DEF Rows
        <4>2. t[y + 1] = l[(y + 1) + 1]
          BY <2>4, <3>1, <3>4
        <4> QED BY <1>5, <2>3, <3>1, <3>2, <4>1, <4>2
      <3> QED BY <3>3, <3>4
    <2> QED BY <2>2, <2>5, <2>6, <2>7 DEF OnScreen, e
  <1> QED BY <1>9, <1>10

\* A text and a character at its end.
Typed(l, c) == Append(Front(l), Append(Last(l), c))

\* A character put at the cursor shows at the end of the text.
LEMMA GlyphShows ==
    ASSUME NEW s \in ScreenType, NEW l, OnScreen(s, l), NEW c \in Chars
    PROVE  /\ Block(Typed(l, c)) /\ Len(Typed(l, c)) = Len(l)
           /\ Len(Last(Typed(l, c))) = s.x + 1 /\ MemShows(Put(s, c).mem, Typed(l, c))
  <1> DEFINE S == Seq(Chars)
             n == Len(l)
             a == Append(Last(l), c)
             m == Typed(l, c)
  <1>1. l \in Seq(S) /\ n \in 1 .. NUM_ROWS /\ n \in Nat /\ n >= 1 /\ NUM_ROWS \in Nat
    BY ScreenFacts DEF OnScreen, Block
  <1>2. \A k \in 1 .. n : l[k] \in S /\ Len(l[k]) \in 0 .. NUM_COLS
    <2>1. \A k \in 1 .. n : l[k] \in S
      <3> HIDE DEF S
      <3> QED BY <1>1, ElementOfSeq
    <2> QED BY <2>1 DEF OnScreen, Block
  <1>3. /\ Last(l) \in S /\ Last(l) = l[n] /\ Len(l[n]) = s.x /\ s.y + 1 = n
        /\ s.y \in Rows /\ s.x \in Cols /\ s.x \in Nat /\ s.x < NUM_COLS /\ s.y \in Nat
        /\ NUM_COLS \in Nat
    <2>1. n \in 1 .. n
      BY <1>1
    <2>2. Last(l) = l[n] /\ s.x = Len(Last(l)) /\ s.y = n - 1
      BY DEF Last, OnScreen
    <2>3. /\ s.y \in Rows /\ s.x \in Cols /\ s.x \in Nat /\ s.x < NUM_COLS /\ s.y \in Nat
          /\ NUM_COLS \in Nat
      BY Fields, ScreenFacts
    <2> QED BY <1>1, <1>2, <2>1, <2>2, <2>3
  <1>4. /\ a \in S /\ Len(a) = s.x + 1 /\ \A k \in 1 .. s.x : a[k] = l[n][k]
        /\ a[s.x + 1] = c
    BY <1>3, AppendProperties
  <1>5. m = Append(Front(l), a)
    BY DEF Typed
  <1>6. \A y \in Rows, x \in Cols :
           s.mem[<<y, x>>] = IF y < n /\ x < Len(l[y + 1]) THEN l[y + 1][x + 1] ELSE BLANK
    BY DEF OnScreen, MemShows
  <1> HIDE DEF S, n, a, m
  <1>7. /\ m \in Seq(S) /\ Len(m) = n /\ \A k \in 1 .. n - 1 : m[k] = l[k]
        /\ m[n] = a /\ Last(m) = a
    BY <1>1, <1>4, <1>5, ReplaceLast DEF n
  <1>8. Block(m)
    <2>1. ASSUME NEW k \in 1 .. n PROVE Len(m[k]) \in 0 .. NUM_COLS
      <3>1. CASE k = n
        BY <1>3, <1>4, <1>7, <3>1
      <3>2. CASE k # n
        <4>1. k \in 1 .. n - 1
          BY <1>1, <3>2
        <4> QED BY <1>2, <1>7, <4>1
      <3> QED BY <3>1, <3>2
    <2> QED BY <1>1, <1>7, <2>1 DEF Block, S
  <1>9. /\ s.mem \in Mems /\ <<s.y, s.x>> \in Cells
        /\ Put(s, c).mem = [s.mem EXCEPT ![<<s.y, s.x>>] = c]
    BY Fields, PutFacts
  <1>10. MemShows(Put(s, c).mem, m)
    <2> SUFFICES ASSUME NEW y \in Rows, NEW x \in Cols
                 PROVE  Put(s, c).mem[<<y, x>>] = IF y < Len(m) /\ x < Len(m[y + 1])
                                                  THEN m[y + 1][x + 1] ELSE BLANK
      BY DEF MemShows
    <2>1. y \in Nat /\ x \in Nat /\ <<y, x>> \in Cells
      BY ScreenFacts DEF Cells
    <2>2. Put(s, c).mem[<<y, x>>] = IF y = s.y /\ x = s.x THEN c ELSE s.mem[<<y, x>>]
      BY <1>9, <2>1 DEF Mems
    <2>3. CASE y = s.y /\ x = s.x
      <3>1. y < n /\ y + 1 = n /\ x < Len(a)
        BY <1>1, <1>3, <1>4, <2>3
      <3> QED BY <1>4, <1>7, <2>2, <2>3, <3>1
    <2>4. CASE y = s.y /\ x # s.x
      <3>1. y < n /\ y + 1 = n
        BY <1>1, <1>3, <2>4
      <3>2. s.mem[<<y, x>>] = IF x < s.x THEN l[n][x + 1] ELSE BLANK
        BY <1>3, <1>6, <3>1
      <3>3. x < Len(a) <=> x < s.x
        BY <1>3, <1>4, <2>1, <2>4
      <3>4. x < s.x => a[x + 1] = l[n][x + 1]
        BY <1>3, <1>4, <2>1
      <3> QED BY <1>7, <2>2, <2>4, <3>1, <3>2, <3>3, <3>4
    <2>5. CASE y # s.y
      <3>1. s.mem[<<y, x>>] = Put(s, c).mem[<<y, x>>]
        BY <2>2, <2>5
      <3>2. CASE y < n
        <4>1. y + 1 \in 1 .. n - 1
          BY <1>1, <1>3, <2>1, <2>5, <3>2
        <4>2. m[y + 1] = l[y + 1]
          BY <1>7, <4>1
        <4> QED BY <1>6, <1>7, <3>1, <3>2, <4>2
      <3>3. CASE ~(y < n)
        BY <1>6, <1>7, <3>1, <3>3
      <3> QED BY <3>2, <3>3
    <2> QED BY <2>3, <2>4, <2>5
  <1> QED BY <1>4, <1>7, <1>8, <1>10 DEF n, m

\* putc and Add: a character, a newline, a line that is full, a scroll.
LEMMA AddShows ==
    ASSUME NEW s \in ScreenType, NEW l, OnScreen(s, l), NEW c \in Glyphs \cup {NL}
    PROVE  OnScreen(putc(s, c), Add(l, c))
  <1>1. CASE c = NL
    <2>1. putc(s, c) = enter(s)
      BY <1>1, PutcFacts
    <2>2. Add(l, c) = NewLine(l)
      BY <1>1 DEF Add
    <2> QED BY <2>1, <2>2, NewLineShows DEF OnScreen
  <1>2. CASE c # NL
    <2>1. PICK m : m = Typed(l, c)
      OBVIOUS
    <2>2. PICK p : p = Put(s, c)
      OBVIOUS
    <2>3. c \in Chars
      BY <1>2 DEF Chars
    <2>4. putc(s, c) = set_screen_pos(p, s.x + 1, s.y)
      BY <1>2, <2>2, PutcFacts
    <2>5. p \in ScreenType /\ p.x = s.x /\ p.y = s.y
      BY <2>2, <2>3, PutFacts
    <2>6. /\ Block(m) /\ Len(m) = Len(l)
          /\ Len(Last(m)) = s.x + 1 /\ MemShows(p.mem, m)
      <3>1. /\ Block(Typed(l, c)) /\ Len(Typed(l, c)) = Len(l)
            /\ Len(Last(Typed(l, c))) = s.x + 1
            /\ MemShows(Put(s, c).mem, Typed(l, c))
        BY <2>3, GlyphShows
      <3> QED BY <2>1, <2>2, <3>1
    <2>7. s.y = Len(m) - 1 /\ s.x \in Cols /\ s.y \in Rows
      BY <2>6, Fields DEF OnScreen
    <2>8. Add(l, c) = IF Len(Last(m)) = NUM_COLS THEN NewLine(m) ELSE m
      BY <1>2, <2>1 DEF Add, Typed
    <2>9. CASE s.x + 1 = NUM_COLS
      <3>1. s.x + 1 \notin Cols
        BY <2>7, <2>9, ScreenFacts
      <3>2. putc(s, c) = enter(p)
        BY <2>4, <2>5, <3>1, SetScreenPosFacts
      <3>3. Add(l, c) = NewLine(m)
        BY <2>6, <2>8, <2>9
      <3> QED BY <2>5, <2>6, <2>7, <3>2, <3>3, NewLineShows
    <2>10. CASE s.x + 1 # NUM_COLS
      <3>1. s.x + 1 \in Cols
        BY <2>7, <2>10, ScreenFacts DEF Cols
      <3>2. /\ putc(s, c).x = s.x + 1 /\ putc(s, c).y = s.y /\ putc(s, c).mem = p.mem
        BY <2>4, <2>5, <2>7, <3>1, SetScreenPosFacts
      <3>3. Add(l, c) = m
        BY <2>6, <2>8, <2>10
      <3> QED BY <2>6, <2>7, <3>2, <3>3 DEF OnScreen
    <2> QED BY <2>9, <2>10
  <1> QED BY <1>1, <1>2

\* BACKSPACE inside a line takes away the line's last character.
LEMMA EraseInLine ==
    ASSUME NEW s \in ScreenType, NEW l, OnScreen(s, l), s.x # 0
    PROVE  OnScreen(backspace(s), Erase(l))
  <1> DEFINE S == Seq(Chars)
             n == Len(l)
             a == Front(Last(l))
             m == Append(Front(l), a)
             b == backspace(s)
  <1>1. l \in Seq(S) /\ n \in 1 .. NUM_ROWS /\ n \in Nat /\ n >= 1 /\ NUM_ROWS \in Nat
    BY ScreenFacts DEF OnScreen, Block
  <1>2. \A k \in 1 .. n : l[k] \in S /\ Len(l[k]) \in 0 .. NUM_COLS
    <2>1. \A k \in 1 .. n : l[k] \in S
      <3> HIDE DEF S
      <3> QED BY <1>1, ElementOfSeq
    <2> QED BY <2>1 DEF OnScreen, Block
  <1>3. /\ Last(l) \in S /\ Last(l) = l[n] /\ Len(l[n]) = s.x /\ s.y + 1 = n
        /\ s.y \in Rows /\ s.x \in Cols /\ s.x \in Nat /\ s.x < NUM_COLS /\ s.y \in Nat
        /\ NUM_COLS \in Nat /\ s.mem \in Mems
    <2>1. n \in 1 .. n
      BY <1>1
    <2>2. Last(l) = l[n] /\ s.x = Len(Last(l)) /\ s.y = n - 1
      BY DEF Last, OnScreen
    <2>3. /\ s.y \in Rows /\ s.x \in Cols /\ s.x \in Nat /\ s.x < NUM_COLS /\ s.y \in Nat
          /\ NUM_COLS \in Nat /\ s.mem \in Mems
      BY Fields, ScreenFacts
    <2> QED BY <1>1, <1>2, <2>1, <2>2, <2>3
  <1>4. Last(l) # <<>>
    BY <1>3, EmptySeq
  <1>5. a \in S /\ Len(a) = s.x - 1 /\ \A k \in 1 .. s.x - 1 : a[k] = l[n][k]
    <2>1. PICK q : q = Last(l)
      OBVIOUS
    <2>2. q \in Seq(Chars) /\ q # <<>> /\ Len(q) = s.x /\ q = l[n]
      BY <1>3, <1>4, <2>1
    <2>3. /\ Front(q) \in Seq(Chars) /\ Len(Front(q)) = Len(q) - 1
          /\ \A k \in 1 .. Len(q) - 1 : Front(q)[k] = q[k]
      BY <2>2, FrontFacts
    <2> HIDE DEF n
    <2> QED BY <2>1, <2>2, <2>3
  <1>6. Erase(l) = m
    BY <1>4 DEF Erase
  <1>7. \A y \in Rows, x \in Cols :
           s.mem[<<y, x>>] = IF y < n /\ x < Len(l[y + 1]) THEN l[y + 1][x + 1] ELSE BLANK
    BY DEF OnScreen, MemShows
  <1>8. b.x = s.x - 1 /\ b.y = s.y /\ b.mem = [s.mem EXCEPT ![<<s.y, s.x - 1>>] = BLANK]
    BY BackspaceFacts
  <1>9. \A y \in Rows, x \in Cols :
           b.mem[<<y, x>>] = IF y = s.y /\ x = s.x - 1 THEN BLANK ELSE s.mem[<<y, x>>]
    BY <1>3, <1>8 DEF Mems, Cells
  <1> HIDE DEF S, n, a, b
  <1>10. /\ m \in Seq(S) /\ Len(m) = n /\ \A k \in 1 .. n - 1 : m[k] = l[k]
         /\ m[n] = a /\ Last(m) = a
    BY <1>1, <1>5, ReplaceLast DEF n
  <1> HIDE DEF m
  <1>11. Block(m)
    <2>1. ASSUME NEW k \in 1 .. n PROVE Len(m[k]) \in 0 .. NUM_COLS
      <3>1. CASE k = n
        BY <1>3, <1>5, <1>10, <3>1
      <3>2. CASE k # n
        <4>1. k \in 1 .. n - 1
          BY <1>1, <3>2
        <4> QED BY <1>2, <1>10, <4>1
      <3> QED BY <3>1, <3>2
    <2> QED BY <1>1, <1>10, <2>1 DEF Block, S
  <1>12. MemShows(b.mem, m)
    <2> SUFFICES ASSUME NEW y \in Rows, NEW x \in Cols
                 PROVE  b.mem[<<y, x>>] = IF y < Len(m) /\ x < Len(m[y + 1])
                                          THEN m[y + 1][x + 1] ELSE BLANK
      BY DEF MemShows
    <2>1. y \in Nat /\ x \in Nat
      BY ScreenFacts
    <2>2. b.mem[<<y, x>>] = IF y = s.y /\ x = s.x - 1 THEN BLANK ELSE s.mem[<<y, x>>]
      BY <1>9
    <2>3. CASE y = s.y
      <3>1. y < n /\ y + 1 = n
        BY <1>1, <1>3, <2>3
      <3>2. s.mem[<<y, x>>] = IF x < s.x THEN l[n][x + 1] ELSE BLANK
        BY <1>3, <1>7, <3>1
      <3>3. x < Len(a) <=> x < s.x /\ x # s.x - 1
        BY <1>3, <1>5, <2>1
      <3>4. x < Len(a) => a[x + 1] = l[n][x + 1]
        BY <1>3, <1>5, <2>1
      <3> QED BY <1>10, <2>2, <2>3, <3>1, <3>2, <3>3, <3>4
    <2>4. CASE y # s.y
      <3>1. b.mem[<<y, x>>] = s.mem[<<y, x>>]
        BY <2>2, <2>4
      <3>2. CASE y < n
        <4>1. y + 1 \in 1 .. n - 1
          BY <1>1, <1>3, <2>1, <2>4, <3>2
        <4>2. m[y + 1] = l[y + 1]
          BY <1>10, <4>1
        <4> QED BY <1>7, <1>10, <3>1, <3>2, <4>2
      <3>3. CASE ~(y < n)
        BY <1>7, <1>10, <3>1, <3>3
      <3> QED BY <3>2, <3>3
    <2> QED BY <2>3, <2>4
  <1>13. b.y = Len(m) - 1 /\ b.x = Len(Last(m))
    BY <1>1, <1>3, <1>5, <1>8, <1>10
  <1> QED BY <1>6, <1>11, <1>12, <1>13 DEF OnScreen, b

\* A row that is padded with blanks up to the last column.
Padded(line) == [c \in 1 .. NUM_COLS - 1 |-> IF c <= Len(line) THEN line[c] ELSE BLANK]

\* It is one character short of a full row.
LEMMA PaddedFacts ==
    ASSUME NEW line \in Seq(Chars)
    PROVE  /\ Padded(line) \in Seq(Chars) /\ Len(Padded(line)) = NUM_COLS - 1
           /\ \A c \in 1 .. NUM_COLS - 1 :
                 Padded(line)[c] = IF c <= Len(line) THEN line[c] ELSE BLANK
  <1>1. NUM_COLS - 1 \in Nat
    BY ScreenFacts
  <1>2. \A c \in 1 .. NUM_COLS - 1 :
           Padded(line)[c] = IF c <= Len(line) THEN line[c] ELSE BLANK
    BY DEF Padded
  <1>3. ASSUME NEW c \in 1 .. NUM_COLS - 1
        PROVE  (IF c <= Len(line) THEN line[c] ELSE BLANK) \in Chars
    <2>1. CASE c <= Len(line)
      <3>1. c \in 1 .. Len(line)
        BY <1>1, <2>1, LenProperties
      <3> QED BY <2>1, <3>1, ElementOfSeq
    <2>2. CASE ~(c <= Len(line))
      BY <2>2 DEF Chars
    <2> QED BY <2>1, <2>2
  <1>4. Padded(line) \in [1 .. NUM_COLS - 1 -> Chars]
    BY <1>3 DEF Padded
  <1>5. Padded(line) \in Seq(Chars) /\ Len(Padded(line)) = NUM_COLS - 1
    BY <1>1, <1>4, SeqDef, LenProperties
  <1> QED BY <1>2, <1>5

\* BACKSPACE at the left margin takes the line back to the row above.
LEMMA EraseAtMargin ==
    ASSUME NEW s \in ScreenType, NEW l, OnScreen(s, l), s.x = 0, s.y # 0
    PROVE  OnScreen(backspace(s), Erase(l))
  <1> DEFINE S == Seq(Chars)
             n == Len(l)
             h == n - 1
             f == SubSeq(l, 1, n - 2)
             a == Padded(l[h])
             m == Append(f, a)
             b == backspace(s)
  <1>1. l \in Seq(S) /\ n \in 1 .. NUM_ROWS /\ n \in Nat /\ n >= 1 /\ NUM_ROWS \in Nat
    BY ScreenFacts DEF OnScreen, Block
  <1>2. \A k \in 1 .. n : l[k] \in S /\ Len(l[k]) \in 0 .. NUM_COLS
    <2>1. \A k \in 1 .. n : l[k] \in S
      <3> HIDE DEF S
      <3> QED BY <1>1, ElementOfSeq
    <2> QED BY <2>1 DEF OnScreen, Block
  <1>3. /\ Last(l) \in S /\ Last(l) = l[n] /\ Len(l[n]) = 0 /\ s.y + 1 = n
        /\ s.y \in Rows /\ s.y \in Nat
        /\ NUM_COLS \in Nat /\ NUM_COLS > 0 /\ s.mem \in Mems
    <2>1. n \in 1 .. n
      BY <1>1
    <2>2. Last(l) = l[n] /\ s.x = Len(Last(l)) /\ s.y = n - 1
      BY DEF Last, OnScreen
    <2>3. s.y \in Rows /\ s.y \in Nat /\ NUM_COLS \in Nat /\ NUM_COLS > 0 /\ s.mem \in Mems
      BY Fields, ScreenFacts
    <2> QED BY <1>1, <1>2, <2>1, <2>2, <2>3
  <1>4. Last(l) = <<>> /\ n # 1 /\ h \in Nat /\ h >= 1 /\ h = s.y /\ h \in 1 .. n
    <2>1. Last(l) = <<>>
      BY <1>3, EmptySeq
    <2> HIDE DEF n
    <2> QED BY <1>1, <1>3, <2>1
  <1>5. a \in S /\ Len(a) = NUM_COLS - 1
        /\ \A c \in 1 .. NUM_COLS - 1 : a[c] = IF c <= Len(l[h]) THEN l[h][c] ELSE BLANK
    <2>1. PICK q : q = l[h]
      OBVIOUS
    <2>2. q \in Seq(Chars)
      BY <1>2, <1>4, <2>1
    <2>3. /\ Padded(q) \in Seq(Chars) /\ Len(Padded(q)) = NUM_COLS - 1
          /\ \A c \in 1 .. NUM_COLS - 1 :
                 Padded(q)[c] = IF c <= Len(q) THEN q[c] ELSE BLANK
      BY <2>2, PaddedFacts
    <2> HIDE DEF h
    <2> QED BY <2>1, <2>3
  <1>6. Erase(l) = m
    BY <1>4 DEF Erase, Padded
  <1>7. \A y \in Rows, x \in Cols :
           s.mem[<<y, x>>] = IF y < n /\ x < Len(l[y + 1]) THEN l[y + 1][x + 1] ELSE BLANK
    BY DEF OnScreen, MemShows
  <1>8. /\ b.x = NUM_COLS - 1 /\ b.y = s.y - 1
        /\ b.mem = [s.mem EXCEPT ![<<s.y - 1, NUM_COLS - 1>>] = BLANK]
    BY BackspaceFacts
  <1>9. \A y \in Rows, x \in Cols :
           b.mem[<<y, x>>] = IF y = s.y - 1 /\ x = NUM_COLS - 1 THEN BLANK
                             ELSE s.mem[<<y, x>>]
    BY <1>3, <1>8 DEF Mems, Cells
  <1>10. f \in Seq(S) /\ Len(f) = h - 1 /\ \A k \in 1 .. h - 1 : f[k] = l[k]
    <2>1. n - 2 \in Nat /\ n - 2 = h - 1 /\ n - 2 <= n
      <3> HIDE DEF n
      <3> QED BY <1>1, <1>4
    <2>2. PICK j : j = n - 2
      OBVIOUS
    <2> HIDE DEF S, h
    <2>3. PICK i : i = 1
      OBVIOUS
    <2>4. /\ SubSeq(l, i, j) \in Seq(S) /\ Len(SubSeq(l, i, j)) = j
          /\ \A k \in 1 .. j : SubSeq(l, i, j)[k] = l[k]
      <3>1. i \in 1 .. Len(l) + 1 /\ j \in i - 1 .. Len(l)
        BY <1>1, <2>1, <2>2, <2>3
      <3>2. /\ SubSeq(l, i, j) \in Seq(S)
            /\ Len(SubSeq(l, i, j)) = IF i <= j THEN j - i + 1 ELSE 0
            /\ \A k \in 1 .. j - i + 1 : SubSeq(l, i, j)[k] = l[i + k - 1]
        BY <1>1, <3>1, SubSeqProperties
      <3> QED BY <2>1, <2>2, <2>3, <3>2
    <2> QED BY <2>1, <2>2, <2>3, <2>4
  <1> HIDE DEF S, n, a, b, f
  <1>11. /\ m \in Seq(S) /\ Len(m) = h /\ \A k \in 1 .. h - 1 : m[k] = l[k]
         /\ m[h] = a /\ Last(m) = a
    <2> HIDE DEF h
    <2>1. /\ m \in Seq(S) /\ Len(m) = Len(f) + 1 /\ \A k \in 1 .. Len(f) : m[k] = f[k]
          /\ m[Len(f) + 1] = a
      BY <1>5, <1>10, AppendProperties
    <2> HIDE DEF m
    <2>2. (h - 1) + 1 = h
      BY <1>4
    <2>3. /\ m \in Seq(S) /\ Len(m) = h /\ \A k \in 1 .. h - 1 : m[k] = l[k]
          /\ m[h] = a
      BY <1>10, <2>1, <2>2
    <2>4. Last(m) = a
      BY <2>3 DEF Last
    <2> QED BY <2>3, <2>4
  <1> HIDE DEF m
  <1>12. n = h + 1
    BY <1>1
  <1> HIDE DEF h
  <1>13. Block(m)
    <2>1. ASSUME NEW k \in 1 .. h PROVE Len(m[k]) \in 0 .. NUM_COLS
      <3>1. CASE k = h
        BY <1>3, <1>5, <1>11, <3>1
      <3>2. CASE k # h
        <4>1. k \in 1 .. h - 1 /\ k \in 1 .. n
          BY <1>4, <1>12, <3>2
        <4> QED BY <1>2, <1>11, <4>1
      <3> QED BY <3>1, <3>2
    <2>2. h \in 1 .. NUM_ROWS
      BY <1>1, <1>4
    <2> QED BY <1>11, <2>1, <2>2 DEF Block, S
  <1>14. MemShows(b.mem, m)
    <2> SUFFICES ASSUME NEW y \in Rows, NEW x \in Cols
                 PROVE  b.mem[<<y, x>>] = IF y < Len(m) /\ x < Len(m[y + 1])
                                          THEN m[y + 1][x + 1] ELSE BLANK
      BY DEF MemShows
    <2>1. y \in Nat /\ x \in Nat /\ x < NUM_COLS
      BY ScreenFacts DEF Cols
    <2>2. b.mem[<<y, x>>] = IF y = s.y - 1 /\ x = NUM_COLS - 1 THEN BLANK
                            ELSE s.mem[<<y, x>>]
      BY <1>9
    <2>3. CASE y + 1 = h
      <3>1. y < n /\ y < h /\ y = s.y - 1
        BY <1>4, <1>12, <2>1, <2>3
      <3>2. s.mem[<<y, x>>] = IF x < Len(l[h]) THEN l[h][x + 1] ELSE BLANK
        BY <1>7, <2>3, <3>1
      <3>3. CASE x = NUM_COLS - 1
        <4>1. ~(x < Len(a))
          BY <1>3, <1>5, <3>3
        <4> QED BY <1>11, <2>2, <2>3, <3>1, <3>3, <4>1
      <3>4. CASE x # NUM_COLS - 1
        <4>1. x < Len(a) /\ x + 1 \in 1 .. NUM_COLS - 1
          BY <1>3, <1>5, <2>1, <3>4
        <4>2. a[x + 1] = IF x + 1 <= Len(l[h]) THEN l[h][x + 1] ELSE BLANK
          BY <1>5, <4>1
        <4>3. x + 1 <= Len(l[h]) <=> x < Len(l[h])
          BY <1>2, <1>3, <1>4, <2>1
        <4>4. b.mem[<<y, x>>] = a[x + 1]
          BY <2>2, <3>2, <3>4, <4>2, <4>3
        <4> QED BY <1>11, <2>3, <3>1, <4>1, <4>4
      <3> QED BY <3>3, <3>4
    <2>4. CASE y + 1 < h
      <3>1. y + 1 \in 1 .. h - 1 /\ y < n /\ y < h /\ y # s.y - 1
        BY <1>4, <1>12, <2>1, <2>4
      <3>2. m[y + 1] = l[y + 1]
        BY <1>11, <3>1
      <3> QED BY <1>7, <1>11, <2>2, <3>1, <3>2
    <2>5. CASE y + 1 > h
      <3>1. ~(y < h) /\ y # s.y - 1
        BY <1>4, <2>1, <2>5
      <3>2. s.mem[<<y, x>>] = BLANK
        <4>1. CASE y < n
          <5>1. y + 1 = n
            BY <1>4, <1>12, <2>1, <3>1, <4>1
          <5> QED BY <1>3, <1>7, <2>1, <5>1
        <4>2. CASE ~(y < n)
          BY <1>7, <4>2
        <4> QED BY <4>1, <4>2
      <3> QED BY <1>11, <2>2, <3>1, <3>2
    <2> QED BY <1>4, <2>1, <2>3, <2>4, <2>5
  <1>15. b.y = Len(m) - 1 /\ b.x = Len(Last(m))
    BY <1>3, <1>4, <1>5, <1>8, <1>11
  <1> QED BY <1>6, <1>13, <1>14, <1>15 DEF OnScreen, b

\* BACKSPACE shows what Erase leaves, wherever the cursor is but at the top.
LEMMA EraseShows ==
    ASSUME NEW s \in ScreenType, NEW l, OnScreen(s, l), ~(s.x = 0 /\ s.y = 0)
    PROVE  OnScreen(backspace(s), Erase(l))
  BY EraseInLine, EraseAtMargin

-----------------------------------------------------------------------------
(***************************************************************************)
(* Room for the line: BACKSPACE never runs off the top of the screen,       *)
(* because the cells before the cursor are at least the keys of the line.   *)
(***************************************************************************)
Room(s) == s.y * NUM_COLS + s.x

\* The rows above the last one hold the longest line.
LEMMA RoomFacts ==
    ASSUME NEW s \in ScreenType
    PROVE  /\ Room(s) \in Nat
           /\ s.x = 0 /\ s.y = 0 => Room(s) = 0
           /\ s.x = 0 /\ s.y = NUM_ROWS - 1 => MAX_IDX <= Room(s)
  <1>1. s.x \in Nat /\ s.y \in Nat /\ NUM_COLS \in Nat /\ NUM_ROWS \in Nat
    BY Fields, ScreenFacts
  <1>2. s.y * NUM_COLS \in Nat
    BY <1>1
  <1>3. Room(s) \in Nat
    BY <1>1, <1>2 DEF Room
  <1>4. ASSUME s.x = 0, s.y = 0 PROVE Room(s) = 0
    BY <1>1, <1>4 DEF Room
  <1>5. ASSUME s.x = 0, s.y = NUM_ROWS - 1 PROVE MAX_IDX <= Room(s)
    <2>1. Room(s) = (NUM_ROWS - 1) * NUM_COLS
      BY <1>1, <1>2, <1>5 DEF Room
    <2>2. MAX_IDX <= NUM_COLS * (NUM_ROWS - 1)
      BY ScreenAssumption
    <2>3. NUM_COLS * (NUM_ROWS - 1) = (NUM_ROWS - 1) * NUM_COLS
      BY <1>1
    <2> QED BY <2>1, <2>2, <2>3
  <1> QED BY <1>3, <1>4, <1>5

\* A new line leaves room for one key more.
LEMMA EnterRoom ==
    ASSUME NEW s \in ScreenType, NEW k \in Nat, k <= Room(s)
    PROVE  /\ k <= MAX_IDX => k <= Room(enter(s))
           /\ k < MAX_IDX => k + 1 <= Room(enter(s))
  <1> DEFINE e == enter(s)
  <1>1. /\ s.x \in Nat /\ s.y \in Nat /\ s.x < NUM_COLS /\ NUM_COLS \in Nat
        /\ MAX_IDX \in Nat /\ e \in ScreenType /\ e.x = 0
    BY Fields, ScreenFacts, EnterFacts, IndexFacts
  <1>2. CASE s.y + 1 \in Rows
    <2>1. e.y = s.y + 1
      BY <1>2, EnterFacts
    <2> HIDE DEF e
    <2>2. Room(e) = (s.y + 1) * NUM_COLS
      <3>1. (s.y + 1) * NUM_COLS \in Nat
        BY <1>1
      <3> QED BY <1>1, <2>1, <3>1 DEF Room
    <2>3. (s.y + 1) * NUM_COLS = s.y * NUM_COLS + NUM_COLS
      BY <1>1
    <2>4. s.y * NUM_COLS \in Nat
      BY <1>1
    <2>5. k <= s.y * NUM_COLS + s.x
      BY DEF Room
    <2>6. k + 1 <= Room(e)
      BY <1>1, <2>2, <2>3, <2>4, <2>5
    <2>7. Room(e) \in Nat
      BY <1>1, RoomFacts
    <2> QED BY <2>6, <2>7 DEF e
  <1>3. CASE s.y + 1 \notin Rows
    <2>1. e.y = NUM_ROWS - 1
      BY <1>3, EnterFacts
    <2>2. MAX_IDX <= Room(e) /\ Room(e) \in Nat
      BY <1>1, <2>1, RoomFacts
    <2> QED BY <1>1, <2>2
  <1> QED BY <1>2, <1>3

\* So does a character.
LEMMA PutcRoom ==
    ASSUME NEW s \in ScreenType, NEW c \in Glyphs \cup {NL}, NEW k \in Nat, k <= Room(s)
    PROVE  /\ k <= MAX_IDX => k <= Room(putc(s, c))
           /\ k < MAX_IDX => k + 1 <= Room(putc(s, c))
  <1>1. CASE c = NL
    <2>1. putc(s, c) = enter(s)
      BY <1>1, PutcFacts
    <2> QED BY <2>1, EnterRoom
  <1>2. CASE c # NL
    <2>1. PICK p : p = Put(s, c)
      OBVIOUS
    <2>2. c \in Chars
      BY <1>2 DEF Chars
    <2>3. putc(s, c) = set_screen_pos(p, s.x + 1, s.y)
      BY <1>2, <2>1, PutcFacts
    <2>4. p \in ScreenType /\ p.x = s.x /\ p.y = s.y
      BY <2>1, <2>2, PutFacts
    <2>5. Room(p) = Room(s)
      BY <2>4 DEF Room
    <2>6. CASE s.x + 1 \in Cols
      <3>1. putc(s, c).x = s.x + 1 /\ putc(s, c).y = s.y
        <4>1. s.y \in Rows
          BY Fields
        <4> QED BY <2>3, <2>4, <2>6, <4>1, SetScreenPosFacts
      <3>2. s.x \in Nat /\ s.y \in Nat /\ NUM_COLS \in Nat
        BY Fields, ScreenFacts
      <3>3. s.y * NUM_COLS \in Nat
        BY <3>2
      <3>4. Room(putc(s, c)) = s.y * NUM_COLS + (s.x + 1) /\ Room(s) = s.y * NUM_COLS + s.x
        BY <3>1 DEF Room
      <3> QED BY <3>2, <3>3, <3>4
    <2>7. CASE s.x + 1 \notin Cols
      <3>1. putc(s, c) = enter(p)
        BY <2>3, <2>4, <2>7, SetScreenPosFacts
      <3> QED BY <2>4, <2>5, <3>1, EnterRoom
    <2> QED BY <2>6, <2>7
  <1> QED BY <1>1, <1>2

\* BACKSPACE takes one cell away.
LEMMA BackspaceRoom ==
    ASSUME NEW s \in ScreenType, ~(s.x = 0 /\ s.y = 0)
    PROVE  Room(backspace(s)) = Room(s) - 1
  <1>1. s.x \in Nat /\ s.y \in Nat /\ NUM_COLS \in Nat
    BY Fields, ScreenFacts
  <1>2. PICK z : z = s.y * NUM_COLS
    OBVIOUS
  <1>3. z \in Int /\ (s.y - 1) * NUM_COLS = z - NUM_COLS
    BY <1>1, <1>2
  <1>4. CASE s.x # 0
    <2>1. backspace(s).x = s.x - 1 /\ backspace(s).y = s.y
      BY <1>4, BackspaceFacts
    <2>2. Room(backspace(s)) = z + (s.x - 1) /\ Room(s) = z + s.x
      BY <1>2, <2>1 DEF Room
    <2> QED BY <1>1, <1>3, <2>2
  <1>5. CASE s.x = 0 /\ s.y # 0
    <2>1. backspace(s).x = NUM_COLS - 1 /\ backspace(s).y = s.y - 1
      BY <1>5, BackspaceFacts
    <2>2. Room(backspace(s)) = (z - NUM_COLS) + (NUM_COLS - 1) /\ Room(s) = z + 0
      BY <1>5, <1>2, <1>3, <2>1 DEF Room
    <2> QED BY <1>1, <1>3, <2>2
  <1> QED BY <1>4, <1>5

\* What a run of putc prints, a run of Add has in the text, with as much room.
LEMMA WriteShows ==
    ASSUME NEW s \in ScreenType, NEW l, OnScreen(s, l), NEW k \in Nat, k <= Room(s),
           k <= MAX_IDX, NEW q \in Seq(Glyphs \cup {NL})
    PROVE  /\ OnScreen(FoldLeft(putc, s, q), FoldLeft(Add, l, q))
           /\ k <= Room(FoldLeft(putc, s, q))
  <1>1. PICK r : Runs(r, "putc", s, q) /\ r[Len(q)] = FoldLeft(putc, s, q)
    BY FoldPutc
  <1>2. PICK u : Runs(u, "Add", l, q) /\ u[Len(q)] = FoldLeft(Add, l, q)
    BY FoldAdd
  <1>3. PICK D : D = [i \in 0 .. Len(q) |->
                        {d \in ScreenType : OnScreen(d, u[i]) /\ k <= Room(d)}]
    OBVIOUS
  <1>4. Len(q) \in Nat
    BY LenProperties
  <1>5. \A i \in 0 .. Len(q) : \A d : d \in D[i] <=>
            d \in ScreenType /\ OnScreen(d, u[i]) /\ k <= Room(d)
    BY <1>3
  <1>6. s \in D[0]
    <2>1. u[0] = l /\ 0 \in 0 .. Len(q)
      BY <1>2, <1>4 DEF Runs
    <2> QED BY <1>5, <2>1
  <1>7. \A i \in 1 .. Len(q) : \A d \in D[i - 1] : Apply("putc", d, q[i]) \in D[i]
    <2> SUFFICES ASSUME NEW i \in 1 .. Len(q), NEW d \in D[i - 1]
                 PROVE  Apply("putc", d, q[i]) \in D[i]
      OBVIOUS
    <2>1. i - 1 \in 0 .. Len(q) /\ i \in 0 .. Len(q)
      BY <1>4
    <2>2. d \in ScreenType /\ OnScreen(d, u[i - 1]) /\ k <= Room(d)
      BY <1>5, <2>1
    <2>3. PICK c \in Glyphs \cup {NL} : c = q[i]
      BY ElementOfSeq
    <2>4. Apply("putc", d, q[i]) = putc(d, c)
      BY <2>3 DEF Apply
    <2>5. u[i] = Add(u[i - 1], c)
      BY <1>2, <2>3 DEF Runs, Apply
    <2>6. OnScreen(putc(d, c), Add(u[i - 1], c))
      BY <2>2, AddShows
    <2>7. putc(d, c) \in ScreenType
      BY <2>2, PutcFacts
    <2>8. k <= Room(putc(d, c))
      BY <2>2, PutcRoom
    <2> QED BY <1>5, <2>1, <2>4, <2>5, <2>6, <2>7, <2>8
  <1>8. \A i \in 0 .. Len(q) : r[i] \in D[i]
    BY <1>1, <1>6, <1>7, RunStays
  <1>9. Len(q) \in 0 .. Len(q)
    BY <1>4
  <1>10. r[Len(q)] \in D[Len(q)]
    BY <1>8, <1>9
  <1>11. OnScreen(r[Len(q)], u[Len(q)]) /\ k <= Room(r[Len(q)])
    BY <1>5, <1>9, <1>10
  <1> QED BY <1>1, <1>2, <1>11

-----------------------------------------------------------------------------
(***************************************************************************)
(* Every terminal shows its text.                                           *)
(***************************************************************************)
\* Every screen shows its text and has room for its terminal's line: the
\* inductive invariant behind ScreenShowsText.
ShowInv ==
    /\ text \in [Terms -> Seq(Seq(Chars))]
    /\ OnScreen(screen, text[cur_term]) /\ key_buffer_idx <= Room(screen)
    /\ \A t \in Terms \ {cur_term} :
           OnScreen(terminal[t], text[t]) /\ saved_idx[t] <= Room(terminal[t])

\* A cleared screen shows the empty text.
LEMMA ClearedShows ==
    ASSUME NEW s, s.x = 0, s.y = 0, s.mem = Cleared
    PROVE  OnScreen(s, << <<>> >>)
  <1> DEFINE l == << <<>> >>
  <1>1. l \in Seq(Seq(Chars)) /\ Len(l) = 1 /\ l[1] = <<>> /\ Len(<<>>) = 0
    OBVIOUS
  <1> HIDE DEF l
  <1>2. Last(l) = <<>>
    BY <1>1 DEF Last
  <1>3. Block(l)
    BY <1>1, ScreenFacts DEF Block
  <1>4. MemShows(s.mem, l)
    <2> SUFFICES ASSUME NEW y \in Rows, NEW x \in Cols
                 PROVE  s.mem[<<y, x>>] = IF y < Len(l) /\ x < Len(l[y + 1])
                                          THEN l[y + 1][x + 1] ELSE BLANK
      BY DEF MemShows
    <2>1. s.mem[<<y, x>>] = BLANK
      BY DEF Cleared
    <2>2. y \in Nat /\ x \in Nat
      BY ScreenFacts
    <2>3. ~(y < Len(l) /\ x < Len(l[y + 1]))
      <3>1. CASE y = 0
        BY <1>1, <2>2, <3>1
      <3>2. CASE y # 0
        BY <1>1, <2>2, <3>2
      <3> QED BY <3>1, <3>2
    <2> QED BY <2>1, <2>3
  <1> QED BY <1>1, <1>2, <1>3, <1>4 DEF OnScreen, l

\* A key press changes the displayed screen and its text alone.
LEMMA ShowHere ==
    ASSUME ScreensType, ShowInv, NEW l, Shows(l), OnScreen(screen', l),
           key_buffer_idx' <= Room(screen'),
           UNCHANGED cur_term, UNCHANGED terminal, UNCHANGED saved_idx
    PROVE  ShowInv'
  <1>1. cur_term \in Terms /\ text \in [Terms -> Seq(Seq(Chars))]
    BY DEF ScreensType, ShowInv
  <1>2. l \in Seq(Seq(Chars))
    BY DEF OnScreen, Block
  <1>3. /\ text' \in [Terms -> Seq(Seq(Chars))] /\ text'[cur_term] = l
        /\ \A t \in Terms \ {cur_term} : text'[t] = text[t]
    BY <1>1, <1>2 DEF Shows
  <1>4. \A t \in Terms \ {cur_term} :
           OnScreen(terminal[t], text[t]) /\ saved_idx[t] <= Room(terminal[t])
    BY DEF ShowInv
  <1>5. OnScreen(screen', text'[cur_term'])
    BY <1>3
  <1>6. \A t \in Terms \ {cur_term'} :
           OnScreen(terminal'[t], text'[t]) /\ saved_idx'[t] <= Room(terminal'[t])
    BY <1>3, <1>4
  <1> QED BY <1>3, <1>5, <1>6 DEF ShowInv, OnScreen, Block, MemShows, Room

\* The four presses that change a screen.
LEMMA PressShows ==
    ASSUME ScreensType, ShowInv, "ctrl_l" \notin Windows, NEW c \in Glyphs \cup {NL},
           press(c) \/ press_backspace \/ press_enter \/ press_ctrl_l
    PROVE  ShowInv'
  <1> DEFINE l == text[cur_term]
  <1>1. /\ screen \in ScreenType /\ key_buffer_idx \in 0 .. MAX_IDX /\ key_buffer_idx \in Nat
        /\ OnScreen(screen, l) /\ key_buffer_idx <= Room(screen) /\ MAX_IDX \in Nat
        /\ Room(screen) \in Nat
    BY RoomFacts, IndexFacts DEF ScreensType, ShowInv
  <1>2. CASE press(c)
    <2>1. /\ key_buffer_idx < KEY_BUFFER_SIZE /\ key_buffer_idx' = key_buffer_idx + 1
          /\ screen' = putc(screen, c) /\ Shows(Add(l, c))
          /\ UNCHANGED <<cur_term, terminal, saved_idx>>
      BY <1>2 DEF press
    <2>2. OnScreen(screen', Add(l, c))
      BY <1>1, <2>1, AddShows
    <2>3. key_buffer_idx < MAX_IDX
      BY <1>1, <2>1, IndexFacts
    <2>4. key_buffer_idx' <= Room(screen')
      BY <1>1, <2>1, <2>3, PutcRoom
    <2> QED BY <2>1, <2>2, <2>4, ShowHere
  <1>3. CASE press_backspace
    <2>1. /\ key_buffer_idx > 0 /\ key_buffer_idx' = key_buffer_idx - 1
          /\ screen' = backspace(screen) /\ Shows(Erase(l))
          /\ UNCHANGED <<cur_term, terminal, saved_idx>>
      BY <1>3 DEF press_backspace, Erasable
    <2>2. ~(screen.x = 0 /\ screen.y = 0)
      BY <1>1, <2>1, RoomFacts
    <2>3. OnScreen(screen', Erase(l))
      BY <1>1, <2>1, <2>2, EraseShows
    <2>4. Room(screen') = Room(screen) - 1
      BY <1>1, <2>1, <2>2, BackspaceRoom
    <2>5. key_buffer_idx' <= Room(screen')
      BY <1>1, <2>1, <2>4
    <2> QED BY <2>1, <2>3, <2>5, ShowHere
  <1>4. CASE press_enter
    <2>1. /\ key_buffer_idx < MAX_IDX /\ key_buffer_idx' = key_buffer_idx + 1
          /\ screen' = enter(screen) /\ Shows(Add(l, NL))
          /\ UNCHANGED <<cur_term, terminal, saved_idx>>
      BY <1>4 DEF press_enter
    <2>2. PICK d \in Glyphs \cup {NL} : d = NL
      OBVIOUS
    <2>3. putc(screen, d) = screen'
      BY <1>1, <2>1, <2>2, PutcFacts
    <2>4. OnScreen(screen', Add(l, d))
      BY <1>1, <2>3, AddShows
    <2>5. key_buffer_idx' <= Room(screen')
      BY <1>1, <2>1, EnterRoom
    <2>6. Shows(Add(l, d))
      BY <2>1, <2>2
    <2> QED BY <2>1, <2>4, <2>5, <2>6, ShowHere
  <1>5. CASE press_ctrl_l
    <2>1. /\ key_buffer_idx = 0 /\ key_buffer_idx' = 0
          /\ screen' = set_screen_pos(clear(screen), 0, 0) /\ Shows(<< <<>> >>)
          /\ UNCHANGED <<cur_term, terminal, saved_idx>>
      BY <1>5 DEF press_ctrl_l, lineVars
    <2>2. /\ screen' \in ScreenType /\ screen'.x = 0 /\ screen'.y = 0
          /\ screen'.mem = Cleared
      BY <1>1, <2>1, ClearFacts
    <2>3. OnScreen(screen', << <<>> >>)
      BY <2>2, ClearedShows
    <2>4. Room(screen') \in Nat
      BY <2>2, RoomFacts
    <2>5. key_buffer_idx' <= Room(screen')
      BY <2>1, <2>4
    <2>6. PICK e : e = << <<>> >>
      OBVIOUS
    <2>7. Shows(e) /\ OnScreen(screen', e)
      BY <2>1, <2>3, <2>6
    <2> QED BY <2>1, <2>5, <2>7, ShowHere
  <1> QED BY <1>2, <1>3, <1>4, <1>5

\* The terminal that is left keeps its screen, the one that is shown gets its
\* own back.
LEMMA SwitchShows ==
    ASSUME ScreensType, ShowInv, NEW t \in Terms, switch_terminal(t)
    PROVE  ShowInv'
  <1>1. /\ t # cur_term /\ cur_term' = t /\ text' = text
        /\ terminal' = [terminal EXCEPT ![cur_term] = screen]
        /\ saved_idx' = [saved_idx EXCEPT ![cur_term] = key_buffer_idx]
        /\ key_buffer_idx' = saved_idx[t] /\ screen' = terminal[t]
    <2>1. screen' = terminal[t]
      BY SwitchTypes
    <2> QED BY <2>1 DEF switch_terminal
  <1>2. /\ text \in [Terms -> Seq(Seq(Chars))]
        /\ OnScreen(screen, text[cur_term]) /\ key_buffer_idx <= Room(screen)
        /\ \A u \in Terms \ {cur_term} :
               OnScreen(terminal[u], text[u]) /\ saved_idx[u] <= Room(terminal[u])
    BY DEF ShowInv
  <1>3. terminal \in [Terms -> ScreenType] /\ saved_idx \in [Terms -> 0 .. MAX_IDX]
    BY DEF ScreensType
  <1>4. OnScreen(screen', text'[cur_term']) /\ key_buffer_idx' <= Room(screen')
    BY <1>1, <1>2
  <1>5. ASSUME NEW u \in Terms \ {cur_term'}
        PROVE  OnScreen(terminal'[u], text'[u]) /\ saved_idx'[u] <= Room(terminal'[u])
    <2>1. CASE u = cur_term
      <3>1. terminal'[u] = screen /\ saved_idx'[u] = key_buffer_idx
        BY <1>1, <1>3, <2>1
      <3> QED BY <1>1, <1>2, <2>1, <3>1
    <2>2. CASE u # cur_term
      <3>1. terminal'[u] = terminal[u] /\ saved_idx'[u] = saved_idx[u]
        BY <1>1, <1>3, <2>2
      <3> QED BY <1>1, <1>2, <2>2, <3>1
    <2> QED BY <2>1, <2>2
  <1> QED BY <1>1, <1>2, <1>4, <1>5 DEF ShowInv, OnScreen, Block, MemShows, Room

\* What a program writes appears on its own terminal, displayed or not.
LEMMA ProcessShows ==
    ASSUME ScreensType, ShowInv, PCT \notin Glyphs, NEW t \in Terms, process(t)
    PROVE  ShowInv'
  <1>1. /\ cur_term \in Terms /\ screen \in ScreenType /\ terminal \in [Terms -> ScreenType]
        /\ key_buffer_idx \in 0 .. MAX_IDX /\ saved_idx \in [Terms -> 0 .. MAX_IDX]
        /\ Room(screen) \in Nat /\ MAX_IDX \in Nat
    BY RoomFacts, IndexFacts DEF ScreensType
  <1>2. /\ text \in [Terms -> Seq(Seq(Chars))]
        /\ OnScreen(screen, text[cur_term]) /\ key_buffer_idx <= Room(screen)
        /\ \A u \in Terms \ {cur_term} :
               OnScreen(terminal[u], text[u]) /\ saved_idx[u] <= Room(terminal[u])
    BY DEF ShowInv
  <1>3. CASE terminal_read(t)
    <2>1. key_buffer_idx' = 0 /\ UNCHANGED <<cur_term, screen, terminal, saved_idx, text>>
      BY <1>3 DEF terminal_read
    <2>2. 0 <= Room(screen)
      BY <1>1
    <2> QED BY <1>2, <2>1, <2>2 DEF ShowInv, OnScreen, Block, MemShows, Room
  <1>4. CASE \E buf \in Texts : terminal_write(t, buf)
    <2>1. PICK buf \in Texts : terminal_write(t, buf)
      BY <1>4
    <2>2. /\ UNCHANGED <<cur_term, key_buffer_idx, saved_idx>>
          /\ text' = [text EXCEPT ![t] = FoldLeft(Add, text[t], buf)]
      BY <2>1 DEF terminal_write, lineVars
    <2>3. buf \in Seq(Glyphs \cup {NL})
      BY ScreenAssumption
    <2>4. Printed(buf) = buf
      <3>1. PICK S : S = Glyphs \cup {NL}
        OBVIOUS
      <3>2. PCT \notin S
        BY <3>1 DEF PCT, NL
      <3> QED BY <2>3, <3>1, <3>2, PrintedPlain
    <2>5. ASSUME NEW s \in ScreenType PROVE printf(s, buf) = FoldLeft(putc, s, buf)
      BY <2>4 DEF printf
    <2>6. PICK w : w = FoldLeft(Add, text[t], buf)
      OBVIOUS
    <2>7. CASE Displayed(t)
      <3>1. screen' = FoldLeft(putc, screen, buf) /\ terminal' = terminal /\ t = cur_term
        BY <1>1, <2>1, <2>5, <2>7 DEF terminal_write, Displayed
      <3>2. key_buffer_idx \in Nat /\ key_buffer_idx <= MAX_IDX
        BY <1>1
      <3>3. OnScreen(screen', w) /\ key_buffer_idx <= Room(screen')
        BY <1>1, <1>2, <2>3, <2>6, <3>1, <3>2, WriteShows
      <3>4. Shows(w)
        BY <2>2, <2>6, <3>1 DEF Shows
      <3>5. key_buffer_idx' <= Room(screen')
        BY <2>2, <3>3
      <3> QED BY <2>2, <3>1, <3>3, <3>4, <3>5, ShowHere
    <2>8. CASE ~Displayed(t)
      <3>1. PICK s \in ScreenType : s = terminal[t]
        BY <1>1
      <3>2. PICK r : r = FoldLeft(putc, s, buf)
        OBVIOUS
      <3>3. t # cur_term
        BY <2>8 DEF Displayed
      <3>4. terminal' = [terminal EXCEPT ![t] = r] /\ screen' = screen
        <4>1. printf_terminal_active(s, buf) = r
          BY <2>5, <3>2, PrintfFacts
        <4> QED BY <2>1, <2>8, <3>1, <4>1 DEF terminal_write
      <3>5. /\ saved_idx[t] \in Nat /\ saved_idx[t] <= MAX_IDX /\ saved_idx[t] <= Room(s)
            /\ OnScreen(s, text[t])
        BY <1>1, <1>2, <3>1, <3>3
      <3>6. OnScreen(r, w) /\ saved_idx[t] <= Room(r)
        BY <2>3, <2>6, <3>2, <3>5, WriteShows
      <3>7. w \in Seq(Seq(Chars))
        BY <3>6 DEF OnScreen, Block
      <3>8. /\ text' \in [Terms -> Seq(Seq(Chars))] /\ text'[t] = w
            /\ \A u \in Terms \ {t} : text'[u] = text[u]
        BY <1>2, <2>2, <2>6, <3>7
      <3>9. ASSUME NEW u \in Terms \ {cur_term'}
            PROVE  OnScreen(terminal'[u], text'[u]) /\ saved_idx'[u] <= Room(terminal'[u])
        <4>1. CASE u = t
          <5>1. terminal'[u] = r /\ saved_idx'[u] = saved_idx[t] /\ text'[u] = w
            BY <1>1, <2>2, <3>4, <3>8, <4>1
          <5> QED BY <3>6, <5>1
        <4>2. CASE u # t
          <5>1. terminal'[u] = terminal[u] /\ saved_idx'[u] = saved_idx[u] /\ text'[u] = text[u]
            BY <1>1, <2>2, <3>4, <3>8, <4>2
          <5>2. u \in Terms \ {cur_term}
            BY <2>2
          <5> QED BY <1>2, <5>1, <5>2
        <4> QED BY <4>1, <4>2
      <3>10. OnScreen(screen', text'[cur_term']) /\ key_buffer_idx' <= Room(screen')
        <4>1. text'[cur_term] = text[cur_term]
          BY <1>1, <3>3, <3>8
        <4> QED BY <1>2, <2>2, <3>4, <4>1
      <3> QED BY <3>8, <3>9, <3>10 DEF ShowInv, OnScreen, Block, MemShows, Room
    <2> QED BY <2>7, <2>8
  <1> QED BY <1>3, <1>4 DEF process

\* Every step of the specification.
LEMMA ShowStep ==
    ASSUME "ctrl_l" \notin Windows, PCT \notin Glyphs
    PROVE  ScreensType /\ ShowInv /\ [Next]_vars => ShowInv'
  <1> SUFFICES ASSUME ScreensType, ShowInv, [Next]_vars PROVE ShowInv'
    OBVIOUS
  <1>1. CASE UNCHANGED screenVars
    BY <1>1 DEF screenVars, lineVars, ShowInv, OnScreen, Block, MemShows, Room
  <1>2. CASE \E s \in ScanCodes : key_pressed(s)
    BY <1>2, KeyCases, CharIsGlyph, PressShows
  <1>3. CASE \E t \in Terms : function_key(t)
    BY <1>3, SwitchShows DEF function_key
  <1>4. CASE \E t \in Terms : process(t)
    BY <1>4, ProcessShows
  <1> QED BY <1>1, <1>2, <1>3, <1>4
      DEF Next, keyboard_interrupt_handler, modifier_pressed, modifier_released,
          caps_pressed, vars

\* Boot leaves every screen blank.
LEMMA ShowInit == KeyboardInit => ShowInv
  <1> SUFFICES ASSUME KeyboardInit PROVE ShowInv
    OBVIOUS
  <1>1. /\ cur_term \in Terms /\ screen = [x |-> 0, y |-> 0, mem |-> Cleared]
        /\ terminal = [t \in Terms |-> screen] /\ key_buffer_idx = 0
        /\ saved_idx = [t \in Terms |-> 0] /\ text = [t \in Terms |-> << <<>> >>]
    BY DEF KeyboardInit, Init
  <1>2. screen.x = 0 /\ screen.y = 0 /\ screen.mem = Cleared
    BY <1>1
  <1>3. OnScreen(screen, << <<>> >>)
    BY <1>2, ClearedShows
  <1>4. screen \in ScreenType
    BY <1>1, ScreenFacts DEF ScreenType, Cleared
  <1>5. 0 <= Room(screen)
    BY <1>4, RoomFacts
  <1>6. << <<>> >> \in Seq(Seq(Chars))
    BY <1>3 DEF OnScreen, Block
  <1> QED BY <1>1, <1>3, <1>5, <1>6 DEF ShowInv

\* Every terminal, displayed or not, shows its own text and nothing else, its
\* cursor at the text's end (lib.c, terminal.c, save_restore): for screens of
\* every size, any terminals and any texts that programs write, as long as
\* Ctrl-L is not pressed in the middle of a line and nothing written has a
\* percent sign for printf.
THEOREM ScreenShowsTextHolds ==
    ASSUME "ctrl_l" \notin Windows, PCT \notin Glyphs
    PROVE  Spec => []ScreenShowsText
  <1>1. ScreensType /\ ShowInv => ScreenShowsText
    <2> SUFFICES ASSUME ScreensType, ShowInv, NEW t \in Terms
                 PROVE  LET s == ScreenOf(t)
                            l == text[t]
                        IN  /\ s.y = Len(l) - 1 /\ s.x = Len(Last(l))
                            /\ \A rc \in Rows \X Cols :
                                 s.mem[rc] = IF rc[1] < Len(l) /\ rc[2] < Len(l[rc[1] + 1])
                                             THEN l[rc[1] + 1][rc[2] + 1] ELSE BLANK
      BY DEF ScreenShowsText
    <2>1. PICK s : s = ScreenOf(t)
      OBVIOUS
    <2>2. PICK l : l = text[t]
      OBVIOUS
    <2>3. OnScreen(s, l)
      BY <2>1, <2>2 DEF ShowInv, ScreenOf
    <2>4. ASSUME NEW rc \in Rows \X Cols
          PROVE  s.mem[rc] = IF rc[1] < Len(l) /\ rc[2] < Len(l[rc[1] + 1])
                             THEN l[rc[1] + 1][rc[2] + 1] ELSE BLANK
      <3>1. rc = <<rc[1], rc[2]>> /\ rc[1] \in Rows /\ rc[2] \in Cols
        OBVIOUS
      <3> QED BY <2>3, <3>1 DEF OnScreen, MemShows
    <2>5. s.y = Len(l) - 1 /\ s.x = Len(Last(l))
      BY <2>3 DEF OnScreen
    <2> QED BY <2>1, <2>2, <2>4, <2>5
  <1>2. ScreensType /\ ShowInv /\ [Next]_vars => ShowInv'
    BY ShowStep
  <1> QED BY <1>1, <1>2, ShowInit, TypesInvariance, PTL DEF Spec
=============================================================================
