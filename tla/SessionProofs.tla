---------------------------- MODULE SessionProofs ----------------------------
(***************************************************************************)
(* The theorems about Session: what a shell is told of a line, and what     *)
(* cat, ls and grep have gone through, is right for every image, every set  *)
(* of words and every number of processes and descriptors.  The invariant   *)
(* says for each program, and each point of it, which descriptors it holds, *)
(* how far its read and its listing have come, and what it has printed.     *)
(***************************************************************************)
EXTENDS Session, FilesProofs, FiniteSetTheorems, WellFoundedInduction

(***************************************************************************)
(* The invariant.  P is a program, F, S and C its descriptors, what reads   *)
(* of them returned and its system call, loc is directoryLoc.               *)
(***************************************************************************)
NoneOpen(F) == \A fd \in Fds : fd >= 2 => F[fd].flags # "FD_AVAIL"

\* Descriptor d is open on entry e of the directory.
OpenOn(d, e) ==
    /\ d.flags = "FD_AVAIL" /\ d.ops = Dentries[e].filetype
    /\ d.ops = "file" => d.inode = Dentries[e].inodeNumber

\* directory_read is about to return the entry at loc through fd.
Fetching(C, fd, loc) ==
    /\ loc < Len(Dentries)
    /\ C = [at |-> "list", fd |-> fd, name |-> Dentries[loc + 1].fileName]

\* A program as execute starts it.
Fresh(P) == P.at = "main" /\ P.wrote = <<>> /\ P.failed = {} /\ P.cnt = 0

AtMain(P, F, C, loc) == Fresh(P) /\ NoneOpen(F) /\ C = Idle /\ loc = 0

\* What a program that reports success should have written.
Printed(l, wrote) ==
    CASE Word(l, 1) = "cat"  -> wrote = Contents(Word(l, 2))
      [] Word(l, 1) = "ls"   -> wrote = AllNames
      [] Word(l, 1) = "grep" -> wrote = FilesAmong[Len(Dentries)]
      [] OTHER -> TRUE

Exiting(P, C, loc) ==
    /\ P.at = "exit" /\ C = Idle /\ loc = 0
    /\ P.status = Expected(P.line)
    /\ P.status = 0 => Printed(P.line, P.wrote)

\* cat and ls, which write what they read through descriptor 2.
Printing(P, name, F, S, C, loc) ==
    /\ P.wrote = S[2]
    /\ \E e \in DOMAIN Dentries : Dentries[e].fileName = name /\ OpenOn(F[2], e)
    /\ IF F[2].ops = "dir" THEN loc \in 0 .. Len(Dentries) /\ S[2] = Listed(loc)
                           ELSE loc = 0
    /\ F[2].ops = "rtc" => S[2] = <<>>
    /\ \/ P.at = "data" /\ C = Idle
       \/ P.at = "copy" /\ F[2].ops = "file" /\ C \in Copies /\ C.fd = 2
       \/ P.at = "copy" /\ F[2].ops = "dir" /\ Fetching(C, 2, loc)

\* grep, between two files: the next is the entry at loc.
BetweenFiles(P, F, C, loc) ==
    /\ F[3].flags # "FD_AVAIL"
    /\ \/ P.at = "entry" /\ C = Idle /\ P.wrote = FilesAmong[loc]
       \/ P.at = "copy" /\ Fetching(C, 2, loc) /\ P.wrote = FilesAmong[loc]
       \/ P.at = "file" /\ C = Idle /\ loc > 0 /\ P.wrote = FilesAmong[loc - 1]

\* grep, searching the file before loc through descriptor 3.
InFile(P, F, C, loc) ==
    /\ loc > 0 /\ Dentries[loc].fileName # "."
    /\ P.file = 3 /\ OpenOn(F[3], loc)
    /\ P.wrote = FilesAmong[loc - 1]
    /\ \/ P.at \in {"data", "close"} /\ C = Idle
       \/ P.at = "copy" /\ C \in Copies /\ C.fd = 3

Grepping(P, F, S, C, loc) ==
    /\ P.dir = 2 /\ F[2].flags = "FD_AVAIL" /\ F[2].ops = "dir"
    /\ loc \in 0 .. Len(Dentries) /\ S[2] = Listed(loc)
    /\ \A fd \in Fds : fd >= 4 => F[fd].flags # "FD_AVAIL"
    /\ BetweenFiles(P, F, C, loc) \/ InFile(P, F, C, loc)

\* A call that is refused to a process that has opened nothing.
RefusedAs(name, x) ==
    \/ name = "open" /\ x \notin Names
    \/ name = "close"
    \/ name = "read" /\ x # 0
    \/ name = "write" /\ x # 1
    \/ name = "vidmap" /\ x \in {"NULL", "_4MB"}
    \/ name = "int80" /\ x \notin 1 .. 8

Refused(c) == RefusedAs(c.call, c.on)

CallNames    == {"open", "open_lots", "close", "close_lots", "read", "write", "vidmap",
                 "int80", "count"}
Targets      == Int \cup {Empty, "helloo", "shel", ".", "NULL", "_4MB"}
Requests     == [call : CallNames, on : Targets]
Records      == [test : Nat, do : Requests]
RefusedCalls == {r \in Records : Refused(r.do)}

\* err_open_lots after its j-th call: first all descriptors are taken and one
\* sys_open fails, then all are closed again.
Lots    == Numbered(3)
NumLots == 2 * NUM_MAX_OPEN_FILES - 2

LotsAt(j, cnt, F) ==
    IF j <= NUM_MAX_OPEN_FILES - 2
    THEN /\ cnt = 0
         /\ \A fd \in Fds : fd >= 2 => (F[fd].flags = "FD_AVAIL" <=> fd <= j + 1)
    ELSE /\ j < NumLots => cnt = 1
         /\ \A fd \in Fds : fd >= 2 =>
               (F[fd].flags = "FD_AVAIL" <=> fd >= j - NUM_MAX_OPEN_FILES + 3)

Labels == {"main", "exit", "data", "copy", "entry", "file", "close", "calls"}

Progs == [name : Executables, argbuf : Arguments \cup {Empty}, line : Lines, at : Labels,
          status : Int, dir : Int, file : Int, wrote : Seq(Bytes \cup Names),
          todo : Seq(Records), cnt : Nat, failed : SUBSET Nat]

\* What is left of a script: refused calls, what is left of err_open_lots,
\* refused calls.
TodoOK(todo, cnt, F) ==
    \E r1, r2 \in Seq(RefusedCalls), j \in 0 .. NumLots :
        /\ todo = r1 \o SubSeq(Lots, j + 1, NumLots) \o r2
        /\ r1 # <<>> => j = 0
        /\ LotsAt(j, cnt, F)

Calling(P, F, C, loc) ==
    /\ P.at = "calls" /\ C = Idle /\ loc = 0
    /\ P.failed = {}
    /\ TodoOK(P.todo, P.cnt, F)

ProgramOK(P, F, S, C, loc) ==
    \/ AtMain(P, F, C, loc)
    \/ P.name # "shell" /\ Exiting(P, C, loc)
    \/ P.name = "cat" /\ P.file = 2 /\ P.argbuf # Empty /\ Printing(P, P.argbuf, F, S, C, loc)
    \/ P.name = "ls" /\ P.dir = 2 /\ Printing(P, ".", F, S, C, loc)
    \/ P.name = "grep" /\ P.argbuf # Empty /\ Grepping(P, F, S, C, loc)
    \/ P.name = "syserr" /\ Calling(P, F, C, loc)

\* The shells wait for the program that runs, and hold no descriptor; neither
\* do the process numbers that are free.
ChainInv ==
    /\ chain \in Seq(Progs)
    /\ Len(chain) \in 1 .. NUM_MAX_PROCESSES
    /\ chain[1].name = "shell"
    /\ \A k \in 2 .. Len(chain) :
          /\ chain[k].name = Word(chain[k].line, 1)
          /\ chain[k].argbuf = Word(chain[k].line, 2)
    /\ \A k \in 1 .. Len(chain) - 1 : chain[k].name = "shell" /\ Fresh(chain[k])
    /\ \A p \in Procs \ {Self} : NoneOpen(fds[p]) /\ call[p] = Idle

SessionInv ==
    /\ FdInv
    /\ ChainInv
    /\ ProgramOK(Top, fds[Self], seen[Self], call[Self], directoryLoc)
    /\ ReportsRight /\ PrintsAll

-----------------------------------------------------------------------------
(***************************************************************************)
(* Steps of one process.                                                    *)
(***************************************************************************)
\* A step of the files that process p makes, or none.
StepOf(p) ==
    \/ \E e \in DOMAIN Dentries : sys_open(p, Dentries[e].fileName)
    \/ \E fd \in Fds : sys_close(p, fd)
    \/ \E fd \in Fds, n \in NBYTES : sys_read(p, fd, n)
    \/ copy_block(p)
    \/ directory_next(p)
    \/ halt_execute(p)
    \/ UNCHANGED vars

\* It leaves the other processes alone.
LEMMA StepOfOthers ==
    ASSUME FdInv, NEW p \in Procs, StepOf(p), NEW q \in Procs \ {p}
    PROVE  fds'[q] = fds[q] /\ seen'[q] = seen[q] /\ call'[q] = call[q]
  <1>1. Types /\ FileInv
    BY DEF FdInv, FileInv
  <1>2. CASE \E e \in DOMAIN Dentries : sys_open(p, Dentries[e].fileName)
    BY <1>1, <1>2 DEF sys_open, Types
  <1>3. CASE \E fd \in Fds : sys_close(p, fd)
    BY <1>1, <1>3 DEF sys_close, Types
  <1>4. CASE halt_execute(p)
    BY <1>1, <1>4 DEF halt_execute, Types
  <1>5. CASE directory_next(p)
    BY <1>1, <1>5 DEF directory_next, Types
  <1>6. ASSUME NEW fd \in Fds, ReadReturns(p, fd) \/ ReadGoesOn(p)
        PROVE  fds'[q] = fds[q] /\ seen'[q] = seen[q] /\ call'[q] = call[q]
    BY <1>1, <1>6 DEF ReadReturns, ReadGoesOn, Return, Types
  <1>7. CASE copy_block(p)
    <2>1. call[p] \in Copies /\ (ReadReturns(p, call[p].fd) \/ ReadGoesOn(p))
      BY <1>1, <1>7, CopyBlockCases
    <2>2. call[p].fd \in Fds
      BY <1>1, <1>7, CopyBlockCases DEF Copies
    <2> QED BY <1>6, <2>1, <2>2
  <1>8. ASSUME NEW fd \in Fds, NEW n \in NBYTES, sys_read(p, fd, n)
        PROVE  fds'[q] = fds[q] /\ seen'[q] = seen[q] /\ call'[q] = call[q]
    <2>1. CASE fds[p][fd].ops = "file"
      <3>1. IsOpen(p, fd) /\ read_data(p, fd, n)
        BY <1>8, <2>1 DEF sys_read
      <3> QED BY <1>1, <1>6, <2>1, <3>1, ReadDataCases
    <2>2. CASE fds[p][fd].ops # "file"
      <3>1. directory_read(p, fd)
        BY <1>8, <2>2 DEF sys_read
      <3> QED BY <1>1, <3>1 DEF directory_read, Types
    <2> QED BY <2>1, <2>2
  <1> QED BY <1>2, <1>3, <1>4, <1>5, <1>7, <1>8 DEF StepOf, vars

\* It keeps the invariant of the files.
LEMMA StepOfFdInv ==
    ASSUME FdInv, NEW p \in Procs, StepOf(p)
    PROVE  FdInv'
  <1>1. [Next]_vars
    BY DEF StepOf, Next
  <1>2. FileInv'
    BY <1>1, FileInvStep DEF FdInv
  <1>3. \A q \in Procs : StdOK(q)'
    BY <1>1, NextKeeps DEF AllKept
  <1> QED BY <1>2, <1>3 DEF FdInv

\* The chain, and the process numbers of its programs.
LEMMA ChainFacts ==
    ASSUME ChainInv
    PROVE  /\ Len(chain) \in Nat \ {0} /\ Len(chain) <= NUM_MAX_PROCESSES
           /\ NUM_MAX_PROCESSES \in Nat /\ Top \in Progs /\ Self \in Procs
           /\ \A k \in 1 .. Len(chain) : chain[k] \in Progs /\ k - 1 \in Procs
  BY SessionAssumption DEF ChainInv, Top, Self

\* The running program goes on.
LEMMA GoOn ==
    ASSUME SessionInv, StepOf(Self), NEW P \in Progs, Goto(P),
           P.name = Top.name, P.argbuf = Top.argbuf, P.line = Top.line,
           ProgramOK(P, fds'[Self], seen'[Self], call'[Self], directoryLoc')
    PROVE  SessionInv'
  <1>1. FdInv /\ ChainInv /\ ReportsRight /\ PrintsAll
    BY DEF SessionInv
  <1>2. Self \in Procs /\ Len(chain) \in Nat \ {0} /\ chain \in Seq(Progs)
    BY <1>1, ChainFacts DEF ChainInv
  <1>3. FdInv'
    BY <1>1, <1>2, StepOfFdInv
  <1>4. chain' = [chain EXCEPT ![Len(chain)] = P] /\ last' = last
    BY DEF Goto
  <1>5. /\ chain' \in Seq(Progs) /\ Len(chain') = Len(chain) /\ chain'[Len(chain)] = P
        /\ \A k \in 1 .. Len(chain) - 1 : chain'[k] = chain[k]
    BY <1>2, <1>4
  <1>6. Top' = P /\ Self' = Self
    BY <1>5 DEF Top, Self
  <1>7. \A p \in Procs \ {Self} : NoneOpen(fds'[p]) /\ call'[p] = Idle
    BY <1>1, <1>2, StepOfOthers DEF ChainInv
  <1>8. \A k \in 1 .. Len(chain') : chain'[k].name = chain[k].name
            /\ chain'[k].argbuf = chain[k].argbuf /\ chain'[k].line = chain[k].line
    <2>1. Top = chain[Len(chain)]
      BY DEF Top
    <2> QED BY <1>2, <1>5, <2>1
  <1>9. ChainInv'
    <2>1. \A k \in 1 .. Len(chain') - 1 : chain'[k] = chain[k]
      BY <1>5
    <2>2. 1 \in 1 .. Len(chain')
      BY <1>2, <1>5
    <2>3. \A k \in 2 .. Len(chain') : k \in 1 .. Len(chain')
      BY <1>2, <1>5
    <2>4. chain'[1].name = "shell"
      BY <1>1, <1>8, <2>2 DEF ChainInv
    <2>5. \A k \in 2 .. Len(chain') : /\ chain'[k].name = Word(chain'[k].line, 1)
                                      /\ chain'[k].argbuf = Word(chain'[k].line, 2)
      BY <1>1, <1>5, <1>8, <2>3 DEF ChainInv
    <2>6. \A k \in 1 .. Len(chain') - 1 : chain'[k].name = "shell" /\ Fresh(chain'[k])
      BY <1>1, <1>5, <2>1 DEF ChainInv
    <2> QED BY <1>1, <1>5, <1>6, <1>7, <2>4, <2>5, <2>6 DEF ChainInv
  <1>10. ReportsRight' /\ PrintsAll'
    BY <1>1, <1>4, <1>5 DEF ReportsRight, PrintsAll, Reported
  <1> QED BY <1>3, <1>6, <1>9, <1>10 DEF SessionInv

-----------------------------------------------------------------------------
(***************************************************************************)
(* What the calls do to the process that makes them.                        *)
(***************************************************************************)
\* Only one descriptor is the lowest free one.
LEMMA FreeFdUnique ==
    ASSUME NEW p, NEW a \in Fds, NEW b \in Fds, FreeFd(p, a), FreeFd(p, b)
    PROVE  a = b
  <1>1. a \in Nat /\ b \in Nat
    BY ConstantFacts
  <1>2. ~(a < b) /\ ~(b < a)
    BY <1>1 DEF FreeFd
  <1> QED BY <1>1, <1>2

\* A process that has opened nothing is given descriptor 2.
LEMMA FreeFdFirst ==
    ASSUME NEW p, NEW fd \in Fds, NoneOpen(fds[p]), FreeFd(p, fd)
    PROVE  fd = 2
  <1>1. fd \in Nat /\ fd >= 2 /\ 2 \in Fds
    BY ConstantFacts, FilesAssumption DEF FreeFd, Fds
  <1>2. ~IsOpen(p, 2)
    BY <1>1 DEF NoneOpen, IsOpen
  <1>3. ~(2 < fd)
    BY <1>1, <1>2 DEF FreeFd
  <1> QED BY <1>1, <1>3

\* sys_open: the descriptor is open on the entry of that name, nothing has
\* been read through it, and the other descriptors are as they were.
LEMMA OpenEffect ==
    ASSUME FdInv, NEW p \in Procs, NEW name, sys_open(p, name), NEW fd \in Fds, FreeFd(p, fd)
    PROVE  /\ \E e \in DOMAIN Dentries : Dentries[e].fileName = name /\ OpenOn(fds'[p][fd], e)
           /\ seen'[p][fd] = <<>>
           /\ \A f \in Fds \ {fd} : fds'[p][f] = fds[p][f] /\ seen'[p][f] = seen[p][f]
           /\ call' = call /\ call[p] = Idle /\ directoryLoc' = directoryLoc
  <1>1. PICK e \in DOMAIN Dentries, a \in Fds :
           /\ Dentries[e].fileName = name /\ FreeFd(p, a)
           /\ fds' = [fds EXCEPT ![p][a] = OpenedFd(@, Dentries[e])]
           /\ seen' = [seen EXCEPT ![p][a] = <<>>]
    BY DEF sys_open, read_dentry_by_name
  <1>2. a = fd
    BY <1>1, FreeFdUnique
  <1>3. Types
    BY DEF FdInv, FileInv
  <1> DEFINE d == OpenedFd(fds[p][fd], Dentries[e])
  <1>4. /\ d.flags = "FD_AVAIL" /\ d.ops = Dentries[e].filetype
        /\ d.ops = "file" => d.inode = Dentries[e].inodeNumber
    BY DEF OpenedFd
  <1>5. fds' = [fds EXCEPT ![p][fd] = d] /\ seen' = [seen EXCEPT ![p][fd] = <<>>]
    BY <1>1, <1>2
  <1> HIDE DEF d
  <1>6. /\ fds'[p][fd] = d /\ seen'[p][fd] = <<>>
        /\ \A f \in Fds \ {fd} : fds'[p][f] = fds[p][f] /\ seen'[p][f] = seen[p][f]
    BY <1>3, <1>5 DEF Types
  <1>7. OpenOn(fds'[p][fd], e)
    BY <1>4, <1>6 DEF OpenOn
  <1>8. call' = call /\ call[p] = Idle /\ directoryLoc' = directoryLoc
    BY DEF sys_open
  <1> QED BY <1>1, <1>6, <1>7, <1>8

\* sys_close: the descriptor is free, the others are as they were.
LEMMA CloseEffect ==
    ASSUME FdInv, NEW p \in Procs, NEW fd \in Fds, sys_close(p, fd)
    PROVE  /\ fds'[p][fd].flags = "FD_OCCUP"
           /\ \A f \in Fds \ {fd} : fds'[p][f] = fds[p][f] /\ seen'[p][f] = seen[p][f]
           /\ call' = call /\ directoryLoc' = directoryLoc
  <1>1. /\ fds' = [fds EXCEPT ![p][fd].flags = "FD_OCCUP"]
        /\ seen' = [seen EXCEPT ![p][fd] = <<>>]
        /\ call' = call /\ directoryLoc' = directoryLoc
    BY DEF sys_close
  <1>2. Types /\ fds[p][fd] \in Descriptors
    BY DEF FdInv, FileInv, Types
  <1> QED BY <1>1, <1>2 DEF Types, Descriptors

\* halt: the table is that of a new process.
LEMMA HaltEffect ==
    ASSUME FdInv, NEW p \in Procs, halt_execute(p)
    PROVE  NoneOpen(fds'[p]) /\ call' = call /\ call[p] = Idle /\ directoryLoc' = directoryLoc
  <1>1. fds' = [fds EXCEPT ![p] = NewFds] /\ call' = call /\ call[p] = Idle
        /\ directoryLoc' = directoryLoc
    BY DEF halt_execute
  <1>2. fds'[p] = NewFds
    BY <1>1 DEF FdInv, FileInv, Types
  <1>3. \A fd \in Fds : fd >= 2 => fd \in Fds \ {0, 1}
    BY ConstantFacts
  <1> QED BY <1>1, <1>2, <1>3, NewFdsFlags DEF NoneOpen

\* The descriptor is as it was but for its position.
SameFd(a, b) == a.flags = b.flags /\ a.ops = b.ops /\ a.inode = b.inode

LEMMA SameFdOpenOn ==
    ASSUME NEW a, NEW b, NEW e, SameFd(a, b), OpenOn(b, e) PROVE OpenOn(a, e)
  BY DEF SameFd, OpenOn

\* Appending to a history: New is what was appended.
LEMMA NewIs ==
    ASSUME NEW T, NEW s \in Seq(T), NEW x \in Seq(T)
    PROVE  SubSeq(s \o x, Len(s) + 1, Len(s \o x)) = x
  <1> DEFINE t == s \o x
             y == SubSeq(t, Len(s) + 1, Len(t))
  <1>1. /\ t \in Seq(T) /\ Len(t) = Len(s) + Len(x) /\ Len(s) \in Nat /\ Len(x) \in Nat
        /\ \A i \in 1 .. Len(s) + Len(x) : t[i] = IF i <= Len(s) THEN s[i] ELSE x[i - Len(s)]
    BY ConcatProperties, LenProperties
  <1> HIDE DEF t
  <1>2. /\ y \in Seq(T) /\ Len(y) = Len(x)
        /\ \A i \in 1 .. Len(x) : y[i] = t[Len(s) + i]
    BY <1>1
  <1>3. \A i \in 1 .. Len(x) : y[i] = x[i]
    BY <1>1, <1>2
  <1> HIDE DEF y
  <1>4. y = x
    BY <1>2, <1>3, SeqEqual
  <1> QED BY <1>4 DEF y, t

\* A read of a file whose blocks are there: it copies, or the file has been
\* read to its end.
LEMMA ReadFileEffect ==
    ASSUME FdInv, NEW p \in Procs, NEW fd \in Fds, NEW n \in NBYTES, sys_read(p, fd, n),
           fds[p][fd].ops = "file", Consistent(fds[p][fd].inode)
    PROVE  /\ directoryLoc' = directoryLoc
           /\ \A f \in Fds : SameFd(fds'[p][f], fds[p][f])
           /\ seen'[p] = seen[p]
           /\ \/ call'[p] \in Copies /\ call'[p].fd = fd
              \/ /\ call'[p] = Idle
                 /\ ~(fds'[p][fd].file_position < fds[p][fd].file_position)
                 /\ Len(seen[p][fd]) = file_size[fds[p][fd].inode]
  <1> DEFINE d == fds[p][fd]
             f == d.inode
             o == d.file_position % WORD
             s == seen[p][fd]
  <1>1. IsOpen(p, fd) /\ read_data(p, fd, n) /\ directoryLoc' = directoryLoc /\ call[p] = Idle
    BY DEF sys_read
  <1>2. Types /\ FileInv /\ d \in Descriptors /\ s \in Seq(Bytes \cup Names) /\ f \in Inodes
    BY DEF FdInv, FileInv, Types, Consistent
  <1>3. /\ d.file_position = Len(s) /\ Len(s) <= file_size[f] /\ Len(s) \in Nat
        /\ file_size[f] \in Nat /\ file_size[f] < WORD
    BY <1>1, <1>2, ConstantFacts, LenProperties DEF FileInv, SeenOK, IsOpen
  <1>4. o = Len(s)
    <2> DEFINE len == Len(s)
               pos == d.file_position
    <2>1. len \in Nat /\ len < WORD /\ WORD \in Nat \ {0} /\ pos = len
      BY <1>3, ConstantFacts
    <2> HIDE DEF len, pos
    <2>2. len % WORD = len
      BY <2>1, ModSmall
    <2>3. pos % WORD = len
      BY <2>1, <2>2
    <2> QED BY <2>3 DEF len, pos
  <1>5. CASE o >= file_size[f]
    <2>1. Return(p, fd, 0, <<>>)
      BY <1>1, <1>2, <1>5 DEF read_data
    <2>2. /\ fds' = [fds EXCEPT ![p] = [fds[p] EXCEPT ![fd] = Moved(d, 0)]]
          /\ seen' = [seen EXCEPT ![p] = [seen[p] EXCEPT ![fd] = s \o <<>>]]
          /\ call' = [call EXCEPT ![p] = Idle]
      BY <2>1 DEF Return, Moved
    <2>3. s \o <<>> = s
      BY <1>2
    <2>4. SameFd(Moved(d, 0), d) /\ Moved(d, 0) \in Descriptors /\ Moved(d, 0).file_position = Len(s)
      <3> DEFINE len == Len(s)
      <3>1. len \in Nat /\ d.file_position = len /\ 0 \in Int /\ d \in Descriptors
        BY <1>2, <1>3
      <3> HIDE DEF len, d
      <3>2. /\ Moved(d, 0) \in Descriptors
            /\ Moved(d, 0).flags = d.flags /\ Moved(d, 0).ops = d.ops
            /\ Moved(d, 0).inode = d.inode
            /\ Moved(d, 0).file_position = d.file_position + 0
        BY <3>1, MovedFacts
      <3>3. Moved(d, 0).file_position = len
        BY <3>1, <3>2
      <3> QED BY <3>2, <3>3 DEF SameFd, len
    <2>5. /\ fds'[p][fd] = Moved(d, 0) /\ \A g \in Fds \ {fd} : fds'[p][g] = fds[p][g]
      BY <1>2, <2>2, <2>4, SetFd
    <2>6. seen'[p] = seen[p] /\ call'[p] = Idle
      BY <1>2, <2>2, <2>3 DEF Types
    <2>7. \A g \in Fds : SameFd(fds'[p][g], fds[p][g])
      BY <2>4, <2>5 DEF SameFd
    <2>8. Len(s) = file_size[f]
      BY <1>3, <1>4, <1>5
    <2>9. ~(fds'[p][fd].file_position < fds[p][fd].file_position)
      BY <1>3, <2>4, <2>5
    <2> QED BY <1>1, <2>6, <2>7, <2>8, <2>9
  <1>6. CASE ~(o >= file_size[f])
    <2>1. /\ fds' = fds /\ seen' = seen
          /\ call' = [call EXCEPT ![p] =
                [at |-> "copy", fd |-> fd,
                 block |-> o \div BLOCK_SIZE, from |-> o % BLOCK_SIZE,
                 length |-> Cut(f, o, n), buf |-> <<>>]]
      BY <1>1, <1>2, <1>6 DEF read_data
    <2>2. call'[p] = [at |-> "copy", fd |-> fd,
                 block |-> o \div BLOCK_SIZE, from |-> o % BLOCK_SIZE,
                 length |-> Cut(f, o, n), buf |-> <<>>]
      BY <1>2, <2>1 DEF Types
    <2>3. FdInv'
      BY StepOfFdInv DEF StepOf
    <2>4. call'[p].at = "copy" /\ call'[p].fd = fd
      BY <2>2
    <2>5. call'[p] \in {Idle} \cup Lists \cup Copies
      BY <2>3 DEF FdInv, FileInv, Types
    <2>6. call'[p] \in Copies
      BY <2>4, <2>5 DEF Idle, Lists
    <2>7. \A g \in Fds : SameFd(fds'[p][g], fds[p][g])
      BY <2>1 DEF SameFd
    <2> QED BY <1>1, <2>1, <2>4, <2>6, <2>7
  <1> QED BY <1>5, <1>6

\* A read of such a file that is copying goes on, or returns what comes next.
LEMMA CopyEffect ==
    ASSUME FdInv, NEW p \in Procs, copy_block(p), NEW fd, fd = call[p].fd,
           Consistent(fds[p][fd].inode)
    PROVE  /\ call[p] \in Copies /\ directoryLoc' = directoryLoc
           /\ \A f \in Fds : SameFd(fds'[p][f], fds[p][f])
           /\ \A f \in Fds \ {fd} : seen'[p][f] = seen[p][f]
           /\ \/ call'[p] \in Copies /\ call'[p].fd = fd /\ seen'[p][fd] = seen[p][fd]
              \/ /\ call'[p] = Idle
                 /\ ~(fds'[p][fd].file_position < fds[p][fd].file_position)
                 /\ \E x \in Seq(Bytes) : seen'[p][fd] = seen[p][fd] \o x
  <1>1. FileInv /\ Types
    BY DEF FdInv, FileInv
  <1>2. /\ call[p] \in Copies /\ fds[p][fd].ops = "file" /\ fd \in Fds
        /\ fds[p][fd].flags = "FD_AVAIL" /\ directoryLoc' = directoryLoc
        /\ ReadReturns(p, fd) \/ ReadGoesOn(p)
    BY <1>1, CopyBlockCases DEF Copies, FileInv, CallOK
  <1> DEFINE d == fds[p][fd]
             s == seen[p][fd]
  <1>3. d \in Descriptors /\ s \in Seq(Bytes \cup Names) /\ SeenOK(d, s)
    BY <1>1, <1>2 DEF Types, FileInv
  <1>4. CASE ReadReturns(p, fd)
    <2>1. PICK value \in Int, x \in Seq(Bytes) :
             Return(p, fd, value, x) /\ SeenOK(Moved(d, value), s \o x)
      BY <1>4 DEF ReadReturns
    <2> DEFINE e == Moved(d, value)
               t == s \o x
    <2>2. /\ fds' = [fds EXCEPT ![p] = [fds[p] EXCEPT ![fd] = e]]
          /\ seen' = [seen EXCEPT ![p] = [seen[p] EXCEPT ![fd] = t]]
          /\ call' = [call EXCEPT ![p] = Idle]
      BY <2>1 DEF Return, Moved
    <2>3. /\ e \in Descriptors /\ SameFd(e, d)
          /\ e.file_position = d.file_position + value
      BY <1>3, MovedFacts DEF SameFd
    <2>4. t \in Seq(Bytes \cup Names) /\ Len(t) = Len(s) + Len(x) /\ Len(s) \in Nat
          /\ Len(x) \in Nat
      <3>1. x \in Seq(Bytes \cup Names)
        BY SeqMonotonic
      <3> QED BY <1>3, <3>1, ConcatProperties, LenProperties
    <2>5. d.file_position = Len(s) /\ e.file_position = Len(t)
      BY <1>2, <1>3, <2>1, <2>3 DEF SeenOK, SameFd
    <2>6. ~(e.file_position < d.file_position)
      <3> HIDE DEF e, d, s, t
      <3> QED BY <2>4, <2>5
    <2> HIDE DEF e, t
    <2>7. /\ fds'[p][fd] = e /\ \A f \in Fds \ {fd} : fds'[p][f] = fds[p][f]
          /\ seen'[p][fd] = t /\ \A f \in Fds \ {fd} : seen'[p][f] = seen[p][f]
          /\ call'[p] = Idle
      BY <1>1, <1>2, <2>2 DEF Types
    <2>8. \A f \in Fds : SameFd(fds'[p][f], fds[p][f])
      BY <2>3, <2>7 DEF SameFd
    <2> QED BY <1>2, <2>6, <2>7, <2>8 DEF t
  <1>5. CASE ReadGoesOn(p)
    <2>1. PICK c \in Copies : call' = [call EXCEPT ![p] = c] /\ fds' = fds /\ seen' = seen
      BY <1>5 DEF ReadGoesOn
    <2>2. call'[p] = c /\ c # Idle
      BY <1>1, <2>1, CallKinds DEF Types
    <2>3. \A value, x, f : ~Return(p, f, value, x)
      BY <1>1, <2>2 DEF Return, Types
    <2>4. \E n, copied : call' = [call EXCEPT ![p].block = @ + 1,
                                    ![p].from = NextFrom(@),
                                    ![p].length = @ - n,
                                    ![p].buf = copied]
      BY <2>3 DEF copy_block
    <2>5. call'[p].fd = fd
      BY <1>1, <1>2, <2>4 DEF Types, Copies
    <2>6. \A f \in Fds : SameFd(fds'[p][f], fds[p][f])
      BY <2>1 DEF SameFd
    <2> QED BY <1>2, <2>1, <2>2, <2>5, <2>6
  <1> QED BY <1>2, <1>4, <1>5

\* directory_read: it has fetched the next entry, or has come to the end.
LEMMA DirectoryReadEffect ==
    ASSUME FdInv, NEW p \in Procs, NEW fd \in Fds, directory_read(p, fd), call[p] = Idle
    PROVE  /\ fds' = fds /\ \A f \in Fds \ {fd} : seen'[p][f] = seen[p][f]
           /\ \/ /\ Fetching(call'[p], fd, directoryLoc) /\ directoryLoc' = directoryLoc
                 /\ call'[p] # Idle
                 /\ seen'[p][fd] = seen[p][fd]
              \/ /\ ~(directoryLoc < Len(Dentries)) /\ directoryLoc' = 0
                 /\ call'[p] = Idle
  <1>1. Types
    BY DEF FdInv, FileInv
  <1>2. CASE directoryLoc < Len(Dentries)
    <2> DEFINE c == [at |-> "list", fd |-> fd, name |-> Dentries[directoryLoc + 1].fileName]
    <2>1. c # Idle
      <3>1. c.at = "list" /\ Idle.at = "idle"
        BY DEF Idle
      <3> QED BY <3>1
    <2>2. call' = [call EXCEPT ![p] = c]
      BY <1>2 DEF directory_read
    <2>3. call'[p] = c
      <3> HIDE DEF c
      <3> QED BY <1>1, <2>2 DEF Types
    <2>4. Fetching(call'[p], fd, directoryLoc)
      BY <1>2, <2>3 DEF Fetching
    <2> QED BY <1>2, <2>1, <2>3, <2>4 DEF directory_read
  <1>3. CASE ~(directoryLoc < Len(Dentries))
    <2>1. /\ directoryLoc' = 0 /\ seen' = [seen EXCEPT ![p][fd] = <<>>]
          /\ call' = call /\ fds' = fds
      BY <1>3 DEF directory_read, rewind
    <2> QED BY <1>1, <1>3, <2>1 DEF Types
  <1> QED BY <1>2, <1>3

\* The rest of it: the entry is returned.
LEMMA DirectoryNextEffect ==
    ASSUME FdInv, NEW p \in Procs, directory_next(p), NEW fd, Fetching(call[p], fd, directoryLoc)
    PROVE  /\ fds' = fds /\ call'[p] = Idle /\ directoryLoc' = directoryLoc + 1
           /\ fd \in Fds /\ call[p].fd = fd
           /\ \A f \in Fds \ {fd} : seen'[p][f] = seen[p][f]
           /\ seen'[p][fd] = Append(seen[p][fd], Dentries[directoryLoc + 1].fileName)
  <1>1. Types
    BY DEF FdInv, FileInv
  <1>2. call[p].fd = fd /\ call[p].name = Dentries[directoryLoc + 1].fileName
    BY DEF Fetching
  <1>3. fd \in Fds
    BY <1>1, <1>2, CallKinds DEF directory_next, Lists
  <1> DEFINE s == Append(seen[p][fd], Dentries[directoryLoc + 1].fileName)
  <1>4. /\ fds' = fds /\ call' = [call EXCEPT ![p] = Idle] /\ directoryLoc' = directoryLoc + 1
        /\ seen' = [seen EXCEPT ![p][fd] = s]
    BY <1>2 DEF directory_next, advance
  <1> HIDE DEF s
  <1>5. call'[p] = Idle /\ seen'[p][fd] = s /\ \A f \in Fds \ {fd} : seen'[p][f] = seen[p][f]
    BY <1>1, <1>3, <1>4 DEF Types
  <1> QED BY <1>2, <1>3, <1>4, <1>5 DEF s

-----------------------------------------------------------------------------
(***************************************************************************)
(* Programs, and the entries of the directory.                              *)
(***************************************************************************)
\* Q is P at another place, and writes and calls as P did.
SameProg(Q, P) == Q.name = P.name /\ Q.argbuf = P.argbuf /\ Q.line = P.line

LEMMA ExitIs ==
    ASSUME NEW P \in Progs, NEW st \in Int
    PROVE  /\ Exit(P, st) \in Progs /\ SameProg(Exit(P, st), P)
           /\ Exit(P, st).at = "exit" /\ Exit(P, st).status = st /\ Exit(P, st).wrote = P.wrote
  BY DEF Exit, Progs, Labels, SameProg

At(P, label)         == [P EXCEPT !.at = label]
HoldFile(P, label, fd) == [P EXCEPT !.at = label, !.file = fd]
HoldDir(P, label, fd)  == [P EXCEPT !.at = label, !.dir = fd]
Wrote(P, label, w)     == [P EXCEPT !.at = label, !.wrote = w]

LEMMA AtIs ==
    ASSUME NEW P \in Progs, NEW label \in Labels, NEW Q, Q = At(P, label)
    PROVE  /\ Q \in Progs /\ SameProg(Q, P) /\ Q.at = label
           /\ Q.dir = P.dir /\ Q.file = P.file /\ Q.wrote = P.wrote
  BY DEF At, Progs, SameProg

LEMMA FileIs ==
    ASSUME NEW P \in Progs, NEW label \in Labels, NEW fd \in Int, NEW Q, Q = HoldFile(P, label, fd)
    PROVE  /\ Q \in Progs /\ SameProg(Q, P) /\ Q.at = label
           /\ Q.dir = P.dir /\ Q.file = fd /\ Q.wrote = P.wrote
  BY DEF HoldFile, Progs, SameProg

LEMMA DirIs ==
    ASSUME NEW P \in Progs, NEW label \in Labels, NEW fd \in Int, NEW Q, Q = HoldDir(P, label, fd)
    PROVE  /\ Q \in Progs /\ SameProg(Q, P) /\ Q.at = label
           /\ Q.dir = fd /\ Q.file = P.file /\ Q.wrote = P.wrote
  BY DEF HoldDir, Progs, SameProg

LEMMA WroteIs ==
    ASSUME NEW P \in Progs, NEW label \in Labels, NEW w \in Seq(Bytes \cup Names), NEW Q,
           Q = Wrote(P, label, w)
    PROVE  /\ Q \in Progs /\ SameProg(Q, P) /\ Q.at = label
           /\ Q.dir = P.dir /\ Q.file = P.file /\ Q.wrote = w
  BY DEF Wrote, Progs, SameProg

\* The directory is the entry "." and no other.
LEMMA DotFacts ==
    /\ \E e \in DOMAIN Dentries : Dentries[e].fileName = "."
    /\ \A e \in DOMAIN Dentries : Dentries[e].fileName = "." <=> Dentries[e].filetype = "dir"
    /\ \A e \in DOMAIN Dentries : /\ Dentries[e].fileName \in Names
                                  /\ Dentries[e].filetype \in {"rtc", "dir", "file"}
    /\ \A e \in DOMAIN Dentries : Dentries[e].filetype = "file" => Consistent(Dentries[e].inodeNumber)
    /\ Empty \notin Names
  BY ImageAssumption, FilesAssumption DEF Names

\* The contents of an entry.
LEMMA ContentsIs ==
    ASSUME NEW e \in DOMAIN Dentries, NEW name, Dentries[e].fileName = name
    PROVE  /\ Dentries[e].filetype = "file" =>
                 Contents(name) = [x \in 1 .. file_size[Dentries[e].inodeNumber] |->
                                      FileByte(Dentries[e].inodeNumber, x - 1)]
           /\ Dentries[e].filetype = "dir" => Contents(name) = AllNames
           /\ Dentries[e].filetype = "rtc" => Contents(name) = <<>>
  <1>1. e = CHOOSE d \in DOMAIN Dentries : Dentries[d].fileName = name
    BY ImageAssumption
  <1> HIDE DEF Contents
  <1>2. Contents(name) =
          CASE Dentries[e].filetype = "file" ->
                  [x \in 1 .. file_size[Dentries[e].inodeNumber] |->
                      FileByte(Dentries[e].inodeNumber, x - 1)]
            [] Dentries[e].filetype = "dir"  -> AllNames
            [] Dentries[e].filetype = "rtc"  -> <<>>
    BY <1>1 DEF Contents
  <1> QED BY <1>2

LEMMA AllNamesIs == AllNames = Listed(Len(Dentries))
  BY ConstantFacts DEF AllNames, Listed

LEMMA ListedZero == Listed(0) = <<>>
  BY DEF Listed

-----------------------------------------------------------------------------
(***************************************************************************)
(* The recursion of FilesAmong.                                             *)
(***************************************************************************)
\* A set of numbers that is not empty has a least one.
LEMMA LeastNumber ==
    ASSUME NEW T, T \subseteq Nat, T # {}
    PROVE  \E n \in T : \A m \in T : n <= m
  <1>1. PICK n \in T : \A m \in T : <<m, n>> \notin OpToRel(<, Nat)
    BY NatLessThanWellFounded, WFMin
  <1>2. \A m \in T : ~(m < n)
    BY <1>1 DEF OpToRel
  <1> QED BY <1>2

\* The files among the first e entries, if s are those among the first e - 1.
OneMoreFile(e, s) ==
    IF Dentries[e].fileName = "." THEN s ELSE Append(s, Dentries[e].fileName)

\* g solves the recursion up to entry n.
FilesTable(g, n) == g = [e \in 0 .. n |-> IF e = 0 THEN <<>> ELSE OneMoreFile(e, g[e - 1])]

\* One entry more.
LEMMA OneMoreEntry ==
    ASSUME NEW n \in Nat, NEW g, FilesTable(g, n)
    PROVE  \E h : FilesTable(h, n + 1)
  <1> DEFINE h == [e \in 0 .. n + 1 |-> IF e <= n THEN g[e] ELSE OneMoreFile(e, g[n])]
             R(e) == IF e = 0 THEN <<>> ELSE OneMoreFile(e, h[e - 1])
  <1>1. ASSUME NEW e \in 0 .. n + 1 PROVE h[e] = R(e)
    <2>1. CASE e <= n
      <3>1. e \in 0 .. n /\ h[e] = g[e]
        BY <2>1
      <3>2. g[e] = IF e = 0 THEN <<>> ELSE OneMoreFile(e, g[e - 1])
        BY <3>1 DEF FilesTable
      <3>3. e # 0 => h[e - 1] = g[e - 1]
        BY <3>1
      <3> HIDE DEF h
      <3> QED BY <3>1, <3>2, <3>3
    <2>2. CASE ~(e <= n)
      <3>1. e = n + 1 /\ e # 0 /\ h[e] = OneMoreFile(e, g[n]) /\ h[e - 1] = g[n]
        BY <2>2
      <3> HIDE DEF h
      <3> QED BY <3>1
    <2> QED BY <2>1, <2>2
  <1>2. h = [e \in 0 .. n + 1 |-> R(e)]
    <2>1. h = [e \in 0 .. n + 1 |-> h[e]]
      OBVIOUS
    <2> HIDE DEF h
    <2> QED BY <1>1, <2>1
  <1>3. FilesTable(h, n + 1)
    <2> HIDE DEF h
    <2> QED BY <1>2 DEF FilesTable
  <1> QED BY <1>3

\* The recursion has a solution, however many entries there are.
LEMMA FilesTableExists ==
    ASSUME NEW n \in Nat
    PROVE  \E g : FilesTable(g, n)
  <1> DEFINE T == {m \in Nat : ~ \E g : FilesTable(g, m)}
  <1>1. ASSUME T # {} PROVE FALSE
    <2>1. PICK m \in T : \A k \in T : m <= k
      BY <1>1, LeastNumber
    <2>2. m # 0
      <3> DEFINE g == [k \in 0 .. 0 |-> <<>>]
      <3>1. FilesTable(g, 0)
        BY DEF FilesTable
      <3> QED BY <3>1
    <2>3. m - 1 \in Nat /\ m - 1 \notin T /\ (m - 1) + 1 = m
      BY <2>1, <2>2
    <2>4. \E g : FilesTable(g, (m - 1) + 1)
      BY <2>3, OneMoreEntry
    <2> QED BY <2>3, <2>4
  <1> QED BY <1>1

\* FilesAmong is the solution.
LEMMA FilesAmongUnfolds ==
    /\ FilesAmong[0] = <<>>
    /\ \A e \in 1 .. Len(Dentries) : FilesAmong[e] = OneMoreFile(e, FilesAmong[e - 1])
  <1>1. Len(Dentries) \in Nat
    BY ConstantFacts
  <1>2. FilesTable(FilesAmong, Len(Dentries))
    BY <1>1, FilesTableExists DEF FilesTable, OneMoreFile, FilesAmong
  <1>3. \A e \in 0 .. Len(Dentries) :
           FilesAmong[e] = IF e = 0 THEN <<>> ELSE OneMoreFile(e, FilesAmong[e - 1])
    <2> DEFINE g == FilesAmong
    <2>1. g = [e \in 0 .. Len(Dentries) |-> IF e = 0 THEN <<>> ELSE OneMoreFile(e, g[e - 1])]
      BY <1>2 DEF FilesTable
    <2> HIDE DEF g
    <2>2. \A e \in 0 .. Len(Dentries) : g[e] = IF e = 0 THEN <<>> ELSE OneMoreFile(e, g[e - 1])
      BY <2>1
    <2> QED BY <2>2 DEF g
  <1>4. 0 \in 0 .. Len(Dentries) /\ \A e \in 1 .. Len(Dentries) : e \in 0 .. Len(Dentries) /\ e # 0
    BY <1>1
  <1> QED BY <1>3, <1>4

\* The next entry is a file, or it is the directory.
LEMMA FilesAmongStep ==
    ASSUME NEW e \in 1 .. Len(Dentries)
    PROVE  /\ Dentries[e].fileName = "." => FilesAmong[e] = FilesAmong[e - 1]
           /\ Dentries[e].fileName # "." =>
                 FilesAmong[e] = Append(FilesAmong[e - 1], Dentries[e].fileName)
  BY FilesAmongUnfolds DEF OneMoreFile

\* What grep writes are names.
LEMMA FilesAmongType ==
    ASSUME NEW e \in 0 .. Len(Dentries)
    PROVE  FilesAmong[e] \in Seq(Bytes \cup Names)
  <1>0. Len(Dentries) \in Nat /\ DOMAIN Dentries = 1 .. Len(Dentries)
    BY ConstantFacts
  <1> DEFINE T == {m \in 0 .. Len(Dentries) : FilesAmong[m] \notin Seq(Bytes \cup Names)}
  <1>1. ASSUME T # {} PROVE FALSE
    <2>1. PICK m \in T : \A k \in T : m <= k
      <3>1. T \subseteq Nat
        BY <1>0
      <3> QED BY <1>1, <3>1, LeastNumber
    <2>2. m # 0
      BY FilesAmongUnfolds, EmptySeen
    <2>3. m \in 1 .. Len(Dentries) /\ m - 1 \in 0 .. Len(Dentries) /\ m - 1 \notin T
      BY <1>0, <2>1, <2>2
    <2>4. FilesAmong[m - 1] \in Seq(Bytes \cup Names) /\ Dentries[m].fileName \in Bytes \cup Names
      BY <1>0, <2>3, DotFacts
    <2>5. Append(FilesAmong[m - 1], Dentries[m].fileName) \in Seq(Bytes \cup Names)
      <3> DEFINE s == FilesAmong[m - 1]
                 x == Dentries[m].fileName
                 S == Bytes \cup Names
      <3>1. s \in Seq(S) /\ x \in S
        BY <2>4
      <3> HIDE DEF s, x, S
      <3>2. Append(s, x) \in Seq(S)
        BY <3>1, AppendProperties
      <3> QED BY <3>2 DEF s, x, S
    <2>6. FilesAmong[m] \in Seq(Bytes \cup Names)
      BY <2>3, <2>4, <2>5, FilesAmongStep
    <2> QED BY <2>1, <2>6
  <1> QED BY <1>1

-----------------------------------------------------------------------------
(***************************************************************************)
(* Lines, the shell and halt.                                               *)
(***************************************************************************)
\* Without extra spaces execute finds the two words.
LEMMA LineFacts ==
    ASSUME Spaces = {}, NEW l \in Lines
    PROVE  /\ parsed_cmd(l) = {Word(l, 1)} /\ arg(l) = Word(l, 2)
           /\ Word(l, 2) \in Arguments \cup {Empty}
  <1>1. ~l.leading /\ ~l.double
    BY DEF Lines
  <1>2. parsed_cmd(l) = {Word(l, 1)} /\ arg(l) = Word(l, 2)
    BY <1>1 DEF parsed_cmd, arg
  <1>3. Word(l, 2) \in Arguments \cup {Empty}
    <2>1. \/ l.words = <<>>
          \/ \E w \in Words : l.words = <<w>>
          \/ \E w \in Words, a \in Arguments : l.words = <<w, a>>
      BY DEF Lines
    <2>2. CASE l.words = <<>>
      BY <2>2 DEF Word
    <2>3. CASE \E w \in Words : l.words = <<w>>
      BY <2>3 DEF Word
    <2>4. CASE \E w \in Words, a \in Arguments : l.words = <<w, a>>
      <3>1. PICK w \in Words, a \in Arguments : l.words = <<w, a>>
        BY <2>4
      <3>2. Len(l.words) = 2 /\ l.words[2] = a
        BY <3>1
      <3> QED BY <3>2 DEF Word
    <2> QED BY <2>1, <2>2, <2>3, <2>4
  <1> QED BY <1>2, <1>3

\* A program as execute starts it.
LEMMA ProgramIs ==
    ASSUME NEW name \in Executables, NEW a \in Arguments \cup {Empty}, NEW l \in Lines
    PROVE  /\ Program(name, a, l) \in Progs /\ Fresh(Program(name, a, l))
           /\ Program(name, a, l).name = name /\ Program(name, a, l).argbuf = a
           /\ Program(name, a, l).line = l
  <1>1. <<>> \in Seq(Bytes \cup Names) /\ <<>> \in Seq(Records)
    BY EmptySeq
  <1>2. -1 \in Int /\ 0 \in Int /\ 0 \in Nat /\ {} \in SUBSET Nat /\ "main" \in Labels
    <2>1. -1 \in Int /\ 0 \in Int /\ 0 \in Nat
      OBVIOUS
    <2>2. {} \in SUBSET Nat
      OBVIOUS
    <2>3. "main" \in Labels
      BY DEF Labels
    <2> QED BY <2>1, <2>2, <2>3
  <1>3. Program(name, a, l) \in Progs
    BY <1>1, <1>2 DEF Program, Progs
  <1>4. /\ Fresh(Program(name, a, l))
        /\ Program(name, a, l).name = name /\ Program(name, a, l).argbuf = a
        /\ Program(name, a, l).line = l
    BY DEF Program, Fresh
  <1> QED BY <1>3, <1>4

LEMMA ShellIs == Shell \in Progs /\ Fresh(Shell) /\ Shell.name = "shell"
  <1> DEFINE l == [words |-> <<>>, leading |-> FALSE, double |-> FALSE]
  <1>1. l \in Lines
    BY DEF Lines
  <1>2. "shell" \in Executables
    BY SessionAssumption
  <1>3. Empty \in Arguments \cup {Empty}
    OBVIOUS
  <1>4. Shell = Program("shell", Empty, l)
    BY DEF Shell
  <1> HIDE DEF l
  <1> QED BY <1>1, <1>2, <1>3, <1>4, ProgramIs

\* What should be reported of a line that names a program.
LEMMA ExpectedIs ==
    ASSUME NEW l, NEW w, NEW a, w = Word(l, 1), a = Word(l, 2), w \in Executables
    PROVE  /\ w \in {"cat", "grep"} /\ a = Empty => Expected(l) = 3
           /\ w = "cat" /\ a # Empty /\ a \notin Names => Expected(l) = 2
           /\ w = "cat" /\ a \in Names => Expected(l) = 0
           /\ w = "grep" /\ a # Empty => Expected(l) = 0
           /\ w \notin {"cat", "grep"} => Expected(l) = 0
  <1>1. ~Typo(Word(l, 1)) /\ Empty \notin Names
    BY DotFacts DEF Typo
  <1> QED BY <1>1 DEF Expected

\* Of a line that does not.
LEMMA ExpectedTypo ==
    ASSUME NEW l, Word(l, 1) \notin Executables PROVE Expected(l) = -1
  BY DEF Expected, Typo

\* A program other than a shell has been started by one.
LEMMA StartedFacts ==
    ASSUME ChainInv, Len(chain) # 1
    PROVE  /\ Top.name = Word(Top.line, 1) /\ Top.argbuf = Word(Top.line, 2)
           /\ Top.name \in Executables
  <1>1. Len(chain) \in 2 .. Len(chain) /\ Top \in Progs
    <2>1. Len(chain) \in Nat \ {0} /\ Top \in Progs
      BY ChainFacts
    <2> QED BY <2>1
  <1> QED BY <1>1 DEF ChainInv, Top, Progs

LEMMA NotShellStarted ==
    ASSUME ChainInv, Top.name # "shell" PROVE Len(chain) # 1
  BY DEF ChainInv, Top

\* halt gives the shell before it the status, and leaves nothing open.
LEMMA HaltOK ==
    ASSUME SessionInv, NEW status, halt(status), directoryLoc = 0,
           Len(chain) # 1 => status = Expected(Top.line) /\ (status = 0 => Printed(Top.line, Top.wrote))
    PROVE  SessionInv'
  <1>1. FdInv /\ ChainInv /\ halt_execute(Self)
    BY DEF SessionInv, halt
  <1>2. /\ Self \in Procs /\ Len(chain) \in Nat \ {0} /\ chain \in Seq(Progs)
        /\ Len(chain) <= NUM_MAX_PROCESSES /\ NUM_MAX_PROCESSES \in Nat
    BY <1>1, ChainFacts DEF ChainInv
  <1>3. FdInv'
    BY <1>1, <1>2, StepOfFdInv DEF StepOf
  <1>4. /\ NoneOpen(fds'[Self]) /\ call' = call /\ call'[Self] = Idle /\ directoryLoc' = 0
        /\ \A p \in Procs \ {Self} : NoneOpen(fds'[p]) /\ call'[p] = Idle
    BY <1>1, <1>2, HaltEffect, StepOfOthers DEF StepOf, ChainInv
  <1>5. CASE Len(chain) = 1
    <2>1. chain' = <<Shell>> /\ last' = NoReport
      BY <1>5 DEF halt
    <2>2. chain' \in Seq(Progs) /\ Len(chain') = 1 /\ chain'[1] = Shell
      BY <2>1, ShellIs
    <2>3. Self = 0 /\ Self' = 0 /\ Top' = Shell
      BY <1>5, <2>2 DEF Self, Top
    <2>4. ChainInv'
      <3>1. chain'[1].name = "shell" /\ 1 \in 1 .. NUM_MAX_PROCESSES
        BY <1>2, <2>2, ShellIs
      <3>2. 2 .. Len(chain') = {} /\ 1 .. Len(chain') - 1 = {}
        BY <2>2
      <3> QED BY <1>4, <2>2, <2>3, <3>1, <3>2 DEF ChainInv
    <2>5. ProgramOK(Top', fds'[Self'], seen'[Self'], call'[Self'], directoryLoc')
      BY <1>4, <2>3, ShellIs DEF ProgramOK, AtMain
    <2>6. ReportsRight' /\ PrintsAll'
      BY <2>1 DEF ReportsRight, PrintsAll, Reported
    <2> QED BY <1>3, <2>4, <2>5, <2>6 DEF SessionInv
  <1>6. CASE Len(chain) # 1
    <2> DEFINE n == Len(chain) - 1
    <2>1. /\ chain' = SubSeq(chain, 1, n)
          /\ last' = [line |-> Top.line, rval |-> status, wrote |-> Top.wrote]
      BY <1>6 DEF halt
    <2>2. /\ n \in Nat \ {0} /\ chain' \in Seq(Progs) /\ Len(chain') = n
          /\ \A k \in 1 .. n : chain'[k] = chain[k]
      <3>1. n \in Nat \ {0} /\ n <= Len(chain)
        BY <1>2, <1>6
      <3> HIDE DEF n
      <3> QED BY <1>2, <2>1, <3>1
    <2>3. Self = n /\ Self' = n - 1 /\ Top' = chain[n] /\ n - 1 \in Procs \ {Self}
      BY <1>1, <1>2, <2>2, ChainFacts DEF Self, Top
    <2>4. chain[n].name = "shell" /\ Fresh(chain[n])
      BY <1>1, <1>2, <2>2 DEF ChainInv
    <2>5. ChainInv'
      <3>1. Len(chain') \in 1 .. NUM_MAX_PROCESSES
        BY <1>2, <2>2
      <3>2. 1 \in 1 .. n /\ (\A k \in 2 .. n : k \in 1 .. n /\ k \in 2 .. Len(chain))
            /\ \A k \in 1 .. n - 1 : k \in 1 .. n /\ k \in 1 .. Len(chain) - 1
        BY <1>2, <2>2
      <3>3. \A p \in Procs : NoneOpen(fds'[p]) /\ call'[p] = Idle
        BY <1>4
      <3> HIDE DEF n
      <3>4. chain'[1].name = "shell"
        BY <1>1, <2>2, <3>2 DEF ChainInv
      <3>5. \A k \in 2 .. n : /\ chain'[k].name = Word(chain'[k].line, 1)
                              /\ chain'[k].argbuf = Word(chain'[k].line, 2)
        BY <1>1, <2>2, <3>2 DEF ChainInv
      <3>6. \A k \in 1 .. n - 1 : chain'[k].name = "shell" /\ Fresh(chain'[k])
        BY <1>1, <2>2, <3>2 DEF ChainInv
      <3> QED BY <2>2, <3>1, <3>3, <3>4, <3>5, <3>6 DEF ChainInv
    <2>6. ProgramOK(Top', fds'[Self'], seen'[Self'], call'[Self'], directoryLoc')
      BY <1>4, <2>3, <2>4 DEF ProgramOK, AtMain
    <2>7. last'.line = Top.line /\ last'.rval = status /\ last'.wrote = Top.wrote
      BY <2>1
    <2>8. ReportsRight'
      <3>1. Len(chain') # NUM_MAX_PROCESSES
        BY <1>2, <2>2
      <3> QED BY <1>6, <2>7, <3>1 DEF ReportsRight
    <2>9. PrintsAll'
      BY <1>6, <2>7 DEF PrintsAll, Printed
    <2> QED BY <1>3, <2>5, <2>6, <2>8, <2>9 DEF SessionInv
  <1> QED BY <1>5, <1>6

\* Which clause of the invariant applies is told by the program and its place.
LEMMA MainCase ==
    ASSUME SessionInv, Top.at = "main"
    PROVE  AtMain(Top, fds[Self], call[Self], directoryLoc)
  BY DEF SessionInv, ProgramOK, Exiting, Printing, Grepping, BetweenFiles, InFile, Calling

LEMMA ExitCase ==
    ASSUME SessionInv, Top.at = "exit"
    PROVE  Top.name # "shell" /\ Exiting(Top, call[Self], directoryLoc)
  BY DEF SessionInv, ProgramOK, AtMain, Fresh, Printing, Grepping, BetweenFiles, InFile, Calling

\* exit: the status is the right one for the line.
LEMMA ExitOK == ASSUME SessionInv, exit PROVE SessionInv'
  <1>1. halt(Top.status) /\ Exiting(Top, call[Self], directoryLoc)
    BY ExitCase DEF exit
  <1> QED BY <1>1, HaltOK DEF Exiting

\* shell: an inner shell that is told to exit reports 0.
LEMMA ShellExitOK == ASSUME SessionInv, Running("shell", "main"), halt(0) PROVE SessionInv'
  <1>1. directoryLoc = 0 /\ ChainInv
    BY MainCase DEF Running, AtMain, SessionInv
  <1>2. ASSUME Len(chain) # 1 PROVE 0 = Expected(Top.line) /\ Printed(Top.line, Top.wrote)
    <2>1. Word(Top.line, 1) = "shell" /\ "shell" \in Executables
      BY <1>1, <1>2, StartedFacts DEF Running
    <2>2. Expected(Top.line) = 0
      BY <2>1, ExpectedIs
    <2>3. Printed(Top.line, Top.wrote)
      BY <2>1 DEF Printed
    <2> QED BY <2>2, <2>3
  <1> QED BY <1>1, <1>2, HaltOK

\* A program is started in a process number that is free.
LEMMA StartOK ==
    ASSUME SessionInv, Running("shell", "main"), Spaces = {}, NEW l \in Lines, NEW name,
           name = Word(l, 1), name \in Executables, Len(chain) < NUM_MAX_PROCESSES,
           chain' = Append(chain, Program(name, arg(l), l)), last' = NoReport, UNCHANGED vars
    PROVE  SessionInv'
  <1> DEFINE P == Program(name, arg(l), l)
             n == Len(chain)
  <1>1. FdInv /\ ChainInv /\ AtMain(Top, fds[Self], call[Self], directoryLoc)
    BY MainCase DEF SessionInv, Running
  <1>2. arg(l) = Word(l, 2) /\ arg(l) \in Arguments \cup {Empty}
    BY LineFacts
  <1>3. P \in Progs /\ Fresh(P) /\ P.name = name /\ P.argbuf = Word(l, 2) /\ P.line = l
    BY <1>2, ProgramIs
  <1>4. chain' = Append(chain, P)
    OBVIOUS
  <1>5. n \in Nat \ {0} /\ NUM_MAX_PROCESSES \in Nat /\ chain \in Seq(Progs) /\ Top = chain[n]
        /\ Self = n - 1 /\ Self \in Procs
    BY <1>1, ChainFacts DEF ChainInv, Top, Self
  <1> HIDE DEF P
  <1>6. /\ chain' \in Seq(Progs) /\ Len(chain') = n + 1 /\ chain'[n + 1] = P
        /\ \A k \in 1 .. n : chain'[k] = chain[k]
    BY <1>3, <1>4, <1>5
  <1>7. Top' = P /\ Self' = n /\ n \in Procs \ {Self}
    BY <1>5, <1>6, SessionAssumption DEF Top, Self
  <1>8. /\ fds' = fds /\ seen' = seen /\ call' = call /\ directoryLoc' = directoryLoc
        /\ lister' = lister
    BY DEF vars
  <1>9. FdInv'
    BY <1>1, <1>5, StepOfFdInv DEF StepOf
  <1>10. \A p \in Procs : NoneOpen(fds[p]) /\ call[p] = Idle
    BY <1>1 DEF ChainInv, AtMain
  <1>11. ChainInv'
    <2>1. n + 1 \in 1 .. NUM_MAX_PROCESSES
      BY <1>5
    <2>2. chain'[1].name = "shell"
      BY <1>1, <1>5, <1>6 DEF ChainInv
    <2>3. ASSUME NEW k \in 2 .. n + 1
          PROVE  /\ chain'[k].name = Word(chain'[k].line, 1)
                 /\ chain'[k].argbuf = Word(chain'[k].line, 2)
      <3>1. CASE k = n + 1
        BY <1>3, <1>6, <3>1
      <3>2. CASE k # n + 1
        <4>1. k \in 2 .. Len(chain) /\ k \in 1 .. n
          BY <1>5, <3>2
        <4> QED BY <1>1, <1>6, <4>1 DEF ChainInv
      <3> QED BY <3>1, <3>2
    <2>4. ASSUME NEW k \in 1 .. (n + 1) - 1
          PROVE  chain'[k].name = "shell" /\ Fresh(chain'[k])
      <3>1. k \in 1 .. n /\ chain'[k] = chain[k]
        BY <1>5, <1>6
      <3>2. CASE k = n
        BY <1>1, <1>5, <3>1, <3>2 DEF AtMain, Running
      <3>3. CASE k # n
        <4>1. k \in 1 .. Len(chain) - 1
          BY <1>5, <3>1, <3>3
        <4> QED BY <1>1, <3>1, <4>1 DEF ChainInv
      <3> QED BY <3>2, <3>3
    <2> QED BY <1>6, <1>8, <1>10, <2>1, <2>2, <2>3, <2>4 DEF ChainInv
  <1>12. ProgramOK(Top', fds'[Self'], seen'[Self'], call'[Self'], directoryLoc')
    <2>1. AtMain(P, fds[n], call[n], directoryLoc)
      BY <1>1, <1>3, <1>7, <1>10 DEF AtMain
    <2> QED BY <1>7, <1>8, <2>1 DEF ProgramOK
  <1>13. ReportsRight' /\ PrintsAll'
    BY DEF ReportsRight, PrintsAll, Reported
  <1> QED BY <1>9, <1>11, <1>12, <1>13 DEF SessionInv

\* shell: what is refused is reported with -1.
LEMMA RefuseOK ==
    ASSUME SessionInv, NEW l, NEW name, name = Word(l, 1),
           name \notin Executables \/ Len(chain) = NUM_MAX_PROCESSES,
           last' = [line |-> l, rval |-> -1, wrote |-> <<>>], UNCHANGED <<vars, chain>>
    PROVE  SessionInv'
  <1>1. FdInv /\ ChainInv /\ ProgramOK(Top, fds[Self], seen[Self], call[Self], directoryLoc)
    BY DEF SessionInv
  <1>2. /\ fds' = fds /\ seen' = seen /\ call' = call /\ directoryLoc' = directoryLoc
        /\ lister' = lister /\ chain' = chain
    BY DEF vars
  <1>3. Top' = Top /\ Self' = Self /\ Self \in Procs
    BY <1>1, <1>2, ChainFacts DEF Top, Self
  <1>4. FdInv'
    BY <1>1, <1>3, StepOfFdInv DEF StepOf
  <1>5. ChainInv'
    BY <1>1, <1>2, <1>3 DEF ChainInv
  <1>6. last'.line = l /\ last'.rval = -1
    OBVIOUS
  <1>7. ReportsRight'
    <2>1. Len(chain') # NUM_MAX_PROCESSES => Expected(l) = -1
      BY <1>2, ExpectedTypo
    <2> QED BY <1>6, <2>1 DEF ReportsRight
  <1>8. PrintsAll'
    BY <1>6 DEF PrintsAll
  <1> QED BY <1>1, <1>2, <1>3, <1>4, <1>5, <1>7, <1>8 DEF SessionInv

LEMMA ShellOK == ASSUME SessionInv, Spaces = {}, shell PROVE SessionInv'
  <1>0. PICK l \in Lines : \E name \in parsed_cmd(l) : execute(l, name)
    BY DEF shell
  <1>1. PICK name \in parsed_cmd(l) : execute(l, name)
    BY <1>0
  <1>2. name = Word(l, 1) /\ Running("shell", "main")
    BY <1>1, LineFacts DEF shell
  <1> QED BY <1>1, <1>2, ShellExitOK, StartOK, RefuseOK DEF execute

-----------------------------------------------------------------------------
(***************************************************************************)
(* The programs stop, or open what they go through.                         *)
(***************************************************************************)
LEMMA StopOK ==
    ASSUME SessionInv, StepOf(Self), NEW st \in Int, Goto(Exit(Top, st)), Top.name # "shell",
           call'[Self] = Idle, directoryLoc' = 0, st = Expected(Top.line),
           st = 0 => Printed(Top.line, Top.wrote)
    PROVE  SessionInv'
  <1> DEFINE P == Exit(Top, st)
  <1>1. Top \in Progs
    BY ChainFacts DEF SessionInv
  <1>2. P \in Progs /\ SameProg(P, Top) /\ P.at = "exit" /\ P.status = st /\ P.wrote = Top.wrote
    BY <1>1, ExitIs
  <1> HIDE DEF P
  <1>3. ProgramOK(P, fds'[Self], seen'[Self], call'[Self], directoryLoc')
    BY <1>2 DEF ProgramOK, Exiting, SameProg
  <1>4. Goto(P)
    BY DEF P
  <1> QED BY <1>2, <1>3, <1>4, GoOn DEF SameProg

\* A step that leaves the files alone.
LEMMA QuietFacts ==
    ASSUME UNCHANGED vars
    PROVE  /\ fds' = fds /\ seen' = seen /\ call' = call /\ directoryLoc' = directoryLoc
           /\ \A p : StepOf(p)
  BY DEF vars, StepOf

\* The programs other than shells.
LEMMA StartedOther ==
    ASSUME SessionInv, Top.name # "shell"
    PROVE  /\ Top.name = Word(Top.line, 1) /\ Top.argbuf = Word(Top.line, 2)
           /\ Top.name \in Executables /\ Top \in Progs /\ Self \in Procs /\ FdInv
  BY NotShellStarted, StartedFacts, ChainFacts DEF SessionInv

\* hello, counter and testprint report 0.
LEMMA PrintOnlyOK ==
    ASSUME SessionInv, Running("hello", "main") \/ Running("counter", "main") \/ Running("testprint", "main"),
           Goto(Exit(Top, 0)), UNCHANGED vars
    PROVE  SessionInv'
  <1>1. Top.at = "main" /\ Top.name \in {"hello", "counter", "testprint"}
    BY DEF Running
  <1>2. /\ Word(Top.line, 1) \in {"hello", "counter", "testprint"}
        /\ Word(Top.line, 1) \in Executables
    BY <1>1, StartedOther
  <1>3. Expected(Top.line) = 0
    BY <1>2, ExpectedIs
  <1>4. Printed(Top.line, Top.wrote)
    BY <1>2 DEF Printed
  <1>5. call'[Self] = Idle /\ directoryLoc' = 0 /\ StepOf(Self)
    BY <1>1, MainCase, QuietFacts DEF AtMain
  <1> QED BY <1>1, <1>3, <1>4, <1>5, StopOK

\* cat and grep without an argument report 3.
LEMMA NoArgsOK ==
    ASSUME SessionInv, Top.name \in {"cat", "grep"}, Top.at = "main", NoArgs PROVE SessionInv'
  <1>1. Word(Top.line, 1) \in {"cat", "grep"} /\ Word(Top.line, 1) \in Executables
        /\ Word(Top.line, 2) = Empty
    BY StartedOther DEF NoArgs
  <1>2. Expected(Top.line) = 3
    BY <1>1, ExpectedIs
  <1>3. call'[Self] = Idle /\ directoryLoc' = 0 /\ StepOf(Self)
    BY MainCase, QuietFacts DEF AtMain, NoArgs
  <1> QED BY <1>2, <1>3, StopOK DEF NoArgs

LEMMA TwoIsFree ==
    ASSUME NEW p, NoneOpen(fds[p]) PROVE 2 \in Fds /\ 3 \in Fds /\ FreeFd(p, 2)
  <1>1. 2 \in Fds /\ 3 \in Fds
    BY FilesAssumption, ImageAssumption DEF Fds
  <1>2. 2 .. 2 - 1 = {}
    OBVIOUS
  <1> QED BY <1>1, <1>2 DEF FreeFd, NoneOpen, IsOpen

\* The first sys_open of a program: the name is not there, or the program goes
\* on with descriptor 2 open on it.
LEMMA FirstOpen ==
    ASSUME SessionInv, Top.at = "main", NEW name, NEW error, NEW label, NEW held,
           Open(name, error, label, held)
    PROVE  /\ StepOf(Self) /\ call'[Self] = Idle /\ directoryLoc' = 0
           /\ \/ name \notin Names /\ Goto(Exit(Top, error))
              \/ /\ Goto([Top EXCEPT !.at = label, ![held] = 2])
                 /\ \E e \in DOMAIN Dentries : Dentries[e].fileName = name /\ OpenOn(fds'[Self][2], e)
                 /\ seen'[Self][2] = <<>>
                 /\ \A f \in Fds : f >= 3 => fds'[Self][f].flags # "FD_AVAIL"
  <1>1. /\ FdInv /\ Self \in Procs /\ NoneOpen(fds[Self]) /\ call[Self] = Idle /\ directoryLoc = 0
    BY MainCase, ChainFacts DEF SessionInv, AtMain
  <1>2. 2 \in Fds /\ FreeFd(Self, 2)
    BY <1>1, TwoIsFree
  <1>3. CASE name \in Names /\ sys_open(Self, name)
    <2>1. PICK fd \in Fds : FreeFd(Self, fd) /\ Goto([Top EXCEPT !.at = label, ![held] = fd])
      BY <1>2, <1>3 DEF Open
    <2>2. fd = 2
      BY <1>1, <2>1, FreeFdFirst
    <2>3. StepOf(Self)
      BY <1>3 DEF StepOf, Names
    <2>4. /\ \E e \in DOMAIN Dentries : Dentries[e].fileName = name /\ OpenOn(fds'[Self][2], e)
          /\ seen'[Self][2] = <<>>
          /\ \A f \in Fds \ {2} : fds'[Self][f] = fds[Self][f]
          /\ call' = call /\ directoryLoc' = directoryLoc
      BY <1>1, <1>2, <1>3, OpenEffect
    <2>5. \A f \in Fds : f >= 3 => f \in Fds \ {2} /\ f >= 2
      BY ConstantFacts
    <2>6. \A f \in Fds : f >= 3 => fds'[Self][f].flags # "FD_AVAIL"
      BY <1>1, <2>4, <2>5 DEF NoneOpen
    <2> QED BY <1>1, <2>1, <2>2, <2>3, <2>4, <2>6
  <1>4. CASE ~(name \in Names /\ sys_open(Self, name))
    <2>1. name \notin Names /\ Goto(Exit(Top, error)) /\ UNCHANGED vars
      BY <1>2, <1>4 DEF Open
    <2> QED BY <1>1, <2>1, QuietFacts
  <1> QED BY <1>3, <1>4

\* cat_main and ls_main: the program begins to print, with nothing printed.
LEMMA BeginsToPrint ==
    ASSUME NEW P, NEW name, NEW F, NEW S, P.wrote = <<>>, P.at = "data", S[2] = <<>>,
           \E e \in DOMAIN Dentries : Dentries[e].fileName = name /\ OpenOn(F[2], e)
    PROVE  Printing(P, name, F, S, Idle, 0)
  <1>1. 0 \in 0 .. Len(Dentries)
    BY ConstantFacts
  <1>2. S[2] = Listed(0)
    BY ListedZero
  <1> QED BY <1>1, <1>2 DEF Printing

LEMMA CatMainOK == ASSUME SessionInv, cat_main PROVE SessionInv'
  <1>1. /\ Top.name = "cat" /\ Top.at = "main" /\ Top \in Progs /\ Top.wrote = <<>>
        /\ Word(Top.line, 1) = "cat" /\ "cat" \in Executables /\ Top.argbuf = Word(Top.line, 2)
    BY StartedOther, MainCase DEF cat_main, Running, AtMain, Fresh
  <1>2. CASE NoArgs
    BY <1>1, <1>2, NoArgsOK
  <1>3. CASE Top.argbuf # Empty /\ Open(Top.argbuf, 2, "data", "file")
    <2>1. /\ StepOf(Self) /\ call'[Self] = Idle /\ directoryLoc' = 0
          /\ \/ Top.argbuf \notin Names /\ Goto(Exit(Top, 2))
             \/ /\ Goto([Top EXCEPT !.at = "data", !["file"] = 2])
                /\ \E e \in DOMAIN Dentries :
                      Dentries[e].fileName = Top.argbuf /\ OpenOn(fds'[Self][2], e)
                /\ seen'[Self][2] = <<>>
      BY <1>1, <1>3, FirstOpen
    <2>2. CASE Top.argbuf \notin Names /\ Goto(Exit(Top, 2))
      <3>1. Expected(Top.line) = 2
        BY <1>1, <1>3, <2>2, ExpectedIs
      <3> QED BY <1>1, <2>1, <2>2, <3>1, StopOK
    <2>3. CASE /\ Goto([Top EXCEPT !.at = "data", !["file"] = 2])
               /\ \E e \in DOMAIN Dentries :
                     Dentries[e].fileName = Top.argbuf /\ OpenOn(fds'[Self][2], e)
               /\ seen'[Self][2] = <<>>
      <3>0. PICK Q : Q = [Top EXCEPT !.at = "data", !["file"] = 2]
        OBVIOUS
      <3>00. Q = HoldFile(Top, "data", 2)
        BY <3>0, Zenon DEF HoldFile
      <3>1. "data" \in Labels /\ 2 \in Int
        BY DEF Labels
      <3>2. Q \in Progs /\ SameProg(Q, Top) /\ Q.at = "data" /\ Q.file = 2 /\ Q.wrote = <<>>
        BY <1>1, <3>00, <3>1, FileIs
      <3>3. Goto(Q)
        BY <2>3, <3>0
      <3>4. Printing(Q, Top.argbuf, fds'[Self], seen'[Self], Idle, 0)
        BY <2>3, <3>2, BeginsToPrint
      <3>5. ProgramOK(Q, fds'[Self], seen'[Self], call'[Self], directoryLoc')
        BY <1>1, <1>3, <2>1, <3>2, <3>4 DEF ProgramOK, SameProg
      <3> QED BY <2>1, <3>2, <3>3, <3>5, GoOn DEF SameProg
    <2> QED BY <2>1, <2>2, <2>3
  <1> QED BY <1>2, <1>3 DEF cat_main

LEMMA DotIsName == "." \in Names
  BY ImageAssumption

LEMMA LsMainOK == ASSUME SessionInv, ls_main PROVE SessionInv'
  <1>1. Top.name = "ls" /\ Top.at = "main" /\ Top \in Progs /\ Top.wrote = <<>>
    BY StartedOther, MainCase DEF ls_main, Running, AtMain, Fresh
  <1>2. /\ StepOf(Self) /\ call'[Self] = Idle /\ directoryLoc' = 0
        /\ Goto([Top EXCEPT !.at = "data", !["dir"] = 2])
        /\ \E e \in DOMAIN Dentries : Dentries[e].fileName = "." /\ OpenOn(fds'[Self][2], e)
        /\ seen'[Self][2] = <<>>
    BY <1>1, FirstOpen, DotIsName DEF ls_main
  <1>0. PICK Q : Q = [Top EXCEPT !.at = "data", !["dir"] = 2]
    OBVIOUS
  <1>00. Q = HoldDir(Top, "data", 2)
    BY <1>0, Zenon DEF HoldDir
  <1>3. "data" \in Labels /\ 2 \in Int
    BY DEF Labels
  <1>4. Q \in Progs /\ SameProg(Q, Top) /\ Q.at = "data" /\ Q.dir = 2 /\ Q.wrote = <<>>
    BY <1>00, <1>1, <1>3, DirIs
  <1>5. Goto(Q)
    BY <1>0, <1>2
  <1>6. Printing(Q, ".", fds'[Self], seen'[Self], Idle, 0)
    BY <1>2, <1>4, BeginsToPrint
  <1>7. ProgramOK(Q, fds'[Self], seen'[Self], call'[Self], directoryLoc')
    BY <1>1, <1>2, <1>4, <1>6 DEF ProgramOK, SameProg
  <1> QED BY <1>2, <1>4, <1>5, <1>7, GoOn DEF SameProg

\* grep_main: no entry has been read.
LEMMA GrepMainOK == ASSUME SessionInv, grep_main PROVE SessionInv'
  <1>1. Top.name = "grep" /\ Top.at = "main" /\ Top \in Progs /\ Top.wrote = <<>>
    BY StartedOther, MainCase DEF grep_main, Running, AtMain, Fresh
  <1>2. CASE NoArgs
    BY <1>1, <1>2, NoArgsOK
  <1>3. CASE Top.argbuf # Empty /\ Open(".", 2, "entry", "dir")
    <2>1. /\ StepOf(Self) /\ call'[Self] = Idle /\ directoryLoc' = 0
          /\ Goto([Top EXCEPT !.at = "entry", !["dir"] = 2])
          /\ \E e \in DOMAIN Dentries : Dentries[e].fileName = "." /\ OpenOn(fds'[Self][2], e)
          /\ seen'[Self][2] = <<>>
          /\ \A f \in Fds : f >= 3 => fds'[Self][f].flags # "FD_AVAIL"
      BY <1>1, <1>3, FirstOpen, DotIsName
    <2>0. PICK Q : Q = [Top EXCEPT !.at = "entry", !["dir"] = 2]
      OBVIOUS
    <2>00. Q = HoldDir(Top, "entry", 2)
      BY <2>0, Zenon DEF HoldDir
    <2>2. "entry" \in Labels /\ 2 \in Int
      BY DEF Labels
    <2>3. Q \in Progs /\ SameProg(Q, Top) /\ Q.at = "entry" /\ Q.dir = 2 /\ Q.wrote = <<>>
      BY <1>1, <2>00, <2>2, DirIs
    <2>4. Goto(Q)
      BY <2>0, <2>1
    <2>5. fds'[Self][2].flags = "FD_AVAIL" /\ fds'[Self][2].ops = "dir"
      BY <2>1, DotFacts DEF OpenOn
    <2>6. /\ 3 \in Fds /\ 0 \in 0 .. Len(Dentries) /\ 3 >= 3
          /\ \A f \in Fds : f >= 4 => f >= 3
      <3>1. 3 \in Fds
        BY FilesAssumption, ImageAssumption DEF Fds
      <3>2. \A f \in Fds : f \in Nat
        BY ConstantFacts
      <3>3. Len(Dentries) \in Nat
        BY ConstantFacts
      <3> QED BY <3>1, <3>2, <3>3
    <2>7. BetweenFiles(Q, fds'[Self], Idle, 0)
      BY <2>1, <2>3, <2>6, FilesAmongUnfolds DEF BetweenFiles
    <2>8. Grepping(Q, fds'[Self], seen'[Self], call'[Self], directoryLoc')
      BY <2>1, <2>3, <2>5, <2>6, <2>7, ListedZero DEF Grepping
    <2>9. ProgramOK(Q, fds'[Self], seen'[Self], call'[Self], directoryLoc')
      BY <1>1, <1>3, <2>3, <2>8 DEF ProgramOK, SameProg
    <2> QED BY <2>1, <2>3, <2>4, <2>9, GoOn DEF SameProg
  <1> QED BY <1>2, <1>3 DEF grep_main

-----------------------------------------------------------------------------
(***************************************************************************)
(* Reads: of a file, of the directory, of the RTC.                          *)
(***************************************************************************)
\* Where a program goes on after it has called read.
LEMMA AfterReadIs ==
    ASSUME NEW P, NEW fd, NEW end
    PROVE  /\ call'[Self] # Idle => AfterRead(P, fd, end) = At(P, "copy")
           /\ call'[Self] = Idle /\ ~(fds'[Self][fd].file_position < fds[Self][fd].file_position)
                  => AfterRead(P, fd, end) = end
  BY DEF AfterRead, At

\* The read goes on in the kernel, or there was nothing left to read.
ReadBegins(fd) ==
    /\ Goto(At(Top, "copy")) /\ seen'[Self][fd] = seen[Self][fd]
    /\ directoryLoc' = directoryLoc
    /\ \/ fds[Self][fd].ops = "file" /\ call'[Self] \in Copies /\ call'[Self].fd = fd
       \/ fds[Self][fd].ops = "dir" /\ Fetching(call'[Self], fd, directoryLoc)

ReadEnds(fd, end) ==
    /\ Goto(end) /\ call'[Self] = Idle
    /\ \/ /\ fds[Self][fd].ops = "file" /\ directoryLoc' = directoryLoc
          /\ Len(seen[Self][fd]) = file_size[fds[Self][fd].inode]
       \/ fds[Self][fd].ops = "dir" /\ directoryLoc' = 0 /\ ~(directoryLoc < Len(Dentries))
       \/ fds[Self][fd].ops = "rtc" /\ directoryLoc' = directoryLoc

LEMMA ReadCases ==
    ASSUME SessionInv, NEW fd \in Fds, NEW e \in DOMAIN Dentries, OpenOn(fds[Self][fd], e),
           call[Self] = Idle, NEW end, Read(fd, end)
    PROVE  /\ StepOf(Self)
           /\ \A f \in Fds : SameFd(fds'[Self][f], fds[Self][f])
           /\ \A f \in Fds \ {fd} : seen'[Self][f] = seen[Self][f]
           /\ ReadBegins(fd) \/ ReadEnds(fd, end)
  <1> DEFINE d == fds[Self][fd]
  <1>1. FdInv /\ Self \in Procs
    BY ChainFacts DEF SessionInv
  <1>2. /\ d \in Descriptors /\ d.flags = "FD_AVAIL" /\ d.ops = Dentries[e].filetype
        /\ d.ops \in {"rtc", "dir", "file"}
        /\ d.ops = "file" => Consistent(d.inode)
    BY <1>1, DotFacts DEF OpenOn, FdInv, FileInv, Types
  <1>3. d.file_position \in Int
    BY <1>2 DEF Descriptors
  <1>4. Goto(AfterRead(Top, fd, end))
    BY DEF Read
  <1>5. Idle \notin Copies
    BY <1>1, CallKinds DEF FdInv, FileInv
  <1>6. CASE d.ops = "file"
    <2>1. PICK n \in NBYTES : sys_read(Self, fd, n)
      BY <1>6 DEF Read
    <2>2. StepOf(Self)
      BY <2>1 DEF StepOf
    <2>3. /\ directoryLoc' = directoryLoc
          /\ \A f \in Fds : SameFd(fds'[Self][f], fds[Self][f])
          /\ seen'[Self] = seen[Self]
          /\ \/ call'[Self] \in Copies /\ call'[Self].fd = fd
             \/ /\ call'[Self] = Idle
                /\ ~(fds'[Self][fd].file_position < fds[Self][fd].file_position)
                /\ Len(seen[Self][fd]) = file_size[fds[Self][fd].inode]
      BY <1>1, <1>2, <1>6, <2>1, ReadFileEffect
    <2>4. CASE call'[Self] \in Copies /\ call'[Self].fd = fd
      <3>1. Goto(At(Top, "copy"))
        BY <1>4, <1>5, <2>4, AfterReadIs
      <3>2. ReadBegins(fd)
        BY <1>6, <2>3, <2>4, <3>1 DEF ReadBegins
      <3> QED BY <2>2, <2>3, <3>2
    <2>5. CASE ~(call'[Self] \in Copies /\ call'[Self].fd = fd)
      <3>1. Goto(end)
        BY <1>4, <2>3, <2>5, AfterReadIs
      <3>2. ReadEnds(fd, end)
        BY <1>6, <2>3, <2>5, <3>1 DEF ReadEnds
      <3> QED BY <2>2, <2>3, <3>2
    <2> QED BY <2>4, <2>5
  <1>7. CASE d.ops = "dir"
    <2>1. PICK n \in NBYTES : sys_read(Self, fd, n)
      BY <1>7 DEF Read
    <2>2. StepOf(Self) /\ directory_read(Self, fd)
      BY <1>7, <2>1 DEF StepOf, sys_read
    <2>3. /\ fds' = fds /\ \A f \in Fds \ {fd} : seen'[Self][f] = seen[Self][f]
          /\ \/ /\ Fetching(call'[Self], fd, directoryLoc) /\ directoryLoc' = directoryLoc
                /\ call'[Self] # Idle
                /\ seen'[Self][fd] = seen[Self][fd]
             \/ /\ ~(directoryLoc < Len(Dentries)) /\ directoryLoc' = 0
                /\ call'[Self] = Idle
      BY <1>1, <2>2, DirectoryReadEffect
    <2>4. \A f \in Fds : SameFd(fds'[Self][f], fds[Self][f])
      BY <2>3 DEF SameFd
    <2>5. ~(fds'[Self][fd].file_position < fds[Self][fd].file_position)
      BY <1>3, <2>3
    <2>6. CASE call'[Self] # Idle
      <3>1. Goto(At(Top, "copy"))
        BY <1>4, <2>6, AfterReadIs
      <3>2. ReadBegins(fd)
        BY <1>7, <2>3, <2>6, <3>1 DEF ReadBegins
      <3> QED BY <2>2, <2>3, <2>4, <3>2
    <2>7. CASE call'[Self] = Idle
      <3>1. Goto(end)
        BY <1>4, <2>5, <2>7, AfterReadIs
      <3>2. ReadEnds(fd, end)
        BY <1>7, <2>3, <2>7, <3>1 DEF ReadEnds
      <3> QED BY <2>2, <2>3, <2>4, <3>2
    <2> QED BY <2>6, <2>7
  <1>8. CASE d.ops = "rtc"
    <2>1. UNCHANGED vars
      BY <1>8 DEF Read, sys_read
    <2>2. /\ fds' = fds /\ seen' = seen /\ call' = call /\ directoryLoc' = directoryLoc
          /\ StepOf(Self)
      BY <2>1, QuietFacts
    <2>3. \A f \in Fds : SameFd(fds'[Self][f], fds[Self][f])
      BY <2>2 DEF SameFd
    <2>4. ~(fds'[Self][fd].file_position < fds[Self][fd].file_position)
      BY <1>3, <2>2
    <2>5. Goto(end)
      BY <1>4, <2>2, <2>4, AfterReadIs
    <2>6. ReadEnds(fd, end)
      BY <1>8, <2>2, <2>5 DEF ReadEnds
    <2> QED BY <2>2, <2>3, <2>6
  <1> QED BY <1>2, <1>6, <1>7, <1>8

-----------------------------------------------------------------------------
(***************************************************************************)
(* cat and ls.                                                              *)
(***************************************************************************)
\* The running program prints the file, directory or device of that name.
Prints(name) ==
    \/ Top.name = "cat" /\ Top.file = 2 /\ Top.argbuf # Empty /\ name = Top.argbuf
    \/ Top.name = "ls" /\ Top.dir = 2 /\ name = "."

LEMMA PrintCase ==
    ASSUME SessionInv, Top.name \in {"cat", "ls"}, Top.at \in {"data", "copy"}
    PROVE  \E name : /\ Prints(name)
                     /\ Printing(Top, name, fds[Self], seen[Self], call[Self], directoryLoc)
  BY DEF SessionInv, ProgramOK, AtMain, Fresh, Exiting, Prints

LEMMA PrintGoesOn ==
    ASSUME NEW name, Prints(name), NEW P, SameProg(P, Top), P.file = Top.file, P.dir = Top.dir,
           NEW F, NEW S, NEW C, NEW loc, Printing(P, name, F, S, C, loc)
    PROVE  ProgramOK(P, F, S, C, loc)
  BY DEF Prints, SameProg, ProgramOK

LEMMA PrintDone ==
    ASSUME SessionInv, NEW name \in Names, Prints(name), Top.wrote = Contents(name)
    PROVE  Expected(Top.line) = 0 /\ Printed(Top.line, Top.wrote)
  <1>1. /\ Top.name = Word(Top.line, 1) /\ Top.argbuf = Word(Top.line, 2)
        /\ Top.name \in Executables
    BY StartedOther DEF Prints
  <1>2. CASE Top.name = "cat"
    <2>1. name = Word(Top.line, 2)
      BY <1>1, <1>2 DEF Prints
    <2>2. Expected(Top.line) = 0
      BY <1>1, <1>2, <2>1, ExpectedIs
    <2>3. Printed(Top.line, Top.wrote)
      BY <1>1, <1>2, <2>1 DEF Printed
    <2> QED BY <2>2, <2>3
  <1>3. CASE Top.name = "ls"
    <2>1. name = "."
      BY <1>3 DEF Prints
    <2>2. Contents(name) = AllNames
      BY <2>1, DotFacts, ContentsIs
    <2>3. Expected(Top.line) = 0
      BY <1>1, <1>3, ExpectedIs
    <2>4. Printed(Top.line, Top.wrote)
      BY <1>1, <1>3, <2>2 DEF Printed
    <2> QED BY <2>3, <2>4
  <1> QED BY <1>2, <1>3 DEF Prints

\* A file that has been read to its end.
LEMMA ReadToEnd ==
    ASSUME FdInv, NEW p \in Procs, NEW fd \in Fds, fds[p][fd].flags = "FD_AVAIL",
           fds[p][fd].ops = "file", Consistent(fds[p][fd].inode),
           Len(seen[p][fd]) = file_size[fds[p][fd].inode]
    PROVE  seen[p][fd] = [x \in 1 .. file_size[fds[p][fd].inode] |-> FileByte(fds[p][fd].inode, x - 1)]
  <1> DEFINE s == seen[p][fd]
             f == fds[p][fd].inode
  <1>1. s \in Seq(Bytes \cup Names) /\ SeenOK(fds[p][fd], s)
    BY DEF FdInv, FileInv, Types
  <1>2. \A x \in 1 .. Len(s) : s[x] = FileByte(f, x - 1)
    BY <1>1 DEF SeenOK
  <1>3. s = [x \in 1 .. Len(s) |-> s[x]]
    BY <1>1, LenProperties
  <1> HIDE DEF s, f
  <1>4. s = [x \in 1 .. Len(s) |-> FileByte(f, x - 1)]
    BY <1>2, <1>3
  <1>5. Len(s) = file_size[f]
    BY DEF s, f
  <1> QED BY <1>4, <1>5 DEF s, f

\* cat_data and ls_data.
LEMMA PrintReadOK ==
    ASSUME SessionInv, NEW name, Prints(name), Top.at = "data", Read(2, Exit(Top, 0)),
           Printing(Top, name, fds[Self], seen[Self], call[Self], directoryLoc)
    PROVE  SessionInv'
  <1> DEFINE d == fds[Self][2]
             s == seen[Self][2]
  <1>1. PICK e \in DOMAIN Dentries : Dentries[e].fileName = name /\ OpenOn(d, e)
    BY DEF Printing
  <1>2. /\ call[Self] = Idle /\ Top.wrote = s /\ (d.ops = "rtc" => s = <<>>)
        /\ IF d.ops = "dir" THEN directoryLoc \in 0 .. Len(Dentries) /\ s = Listed(directoryLoc)
                            ELSE directoryLoc = 0
    BY DEF Printing
  <1>3. /\ 2 \in Fds /\ FdInv /\ Self \in Procs /\ Top \in Progs /\ "copy" \in Labels
        /\ 0 \in Int /\ Len(Dentries) \in Nat
    BY ChainFacts, FilesAssumption, ConstantFacts DEF SessionInv, Fds, Labels
  <1>4. /\ StepOf(Self)
        /\ \A f \in Fds : SameFd(fds'[Self][f], fds[Self][f])
        /\ ReadBegins(2) \/ ReadEnds(2, Exit(Top, 0))
    BY <1>1, <1>2, <1>3, ReadCases
  <1>5. SameFd(fds'[Self][2], d) /\ OpenOn(fds'[Self][2], e)
    BY <1>1, <1>3, <1>4, SameFdOpenOn
  <1>6. name \in Names /\ Dentries[e].filetype = d.ops
    BY <1>1, DotFacts DEF OpenOn
  <1>7. CASE ReadBegins(2)
    <2>1. PICK Q : Q = At(Top, "copy")
      OBVIOUS
    <2>2. /\ Q \in Progs /\ SameProg(Q, Top) /\ Q.at = "copy"
          /\ Q.dir = Top.dir /\ Q.file = Top.file /\ Q.wrote = Top.wrote
      BY <1>3, <2>1, AtIs
    <2>3. /\ Goto(Q) /\ seen'[Self][2] = s /\ directoryLoc' = directoryLoc
          /\ \/ d.ops = "file" /\ call'[Self] \in Copies /\ call'[Self].fd = 2
             \/ d.ops = "dir" /\ Fetching(call'[Self], 2, directoryLoc)
      BY <1>7, <2>1 DEF ReadBegins
    <2>4. fds'[Self][2].ops = d.ops
      BY <1>5 DEF SameFd
    <2>5. Printing(Q, name, fds'[Self], seen'[Self], call'[Self], directoryLoc')
      BY <1>1, <1>2, <1>5, <2>2, <2>3, <2>4 DEF Printing
    <2>6. ProgramOK(Q, fds'[Self], seen'[Self], call'[Self], directoryLoc')
      BY <2>2, <2>5, PrintGoesOn
    <2> QED BY <1>4, <2>2, <2>3, <2>6, GoOn DEF SameProg
  <1>8. CASE ReadEnds(2, Exit(Top, 0))
    <2>1. s = Contents(name) /\ directoryLoc' = 0
      <3>1. CASE d.ops = "file"
        <4>1. /\ d.flags = "FD_AVAIL" /\ d.inode = Dentries[e].inodeNumber /\ Consistent(d.inode)
              /\ Len(s) = file_size[d.inode] /\ directoryLoc' = directoryLoc
          BY <1>1, <1>6, <1>8, <3>1, DotFacts DEF OpenOn, ReadEnds
        <4>2. s = [x \in 1 .. file_size[d.inode] |-> FileByte(d.inode, x - 1)]
          BY <1>3, <3>1, <4>1, ReadToEnd
        <4>3. Contents(name) = [x \in 1 .. file_size[d.inode] |-> FileByte(d.inode, x - 1)]
          BY <1>1, <1>6, <3>1, <4>1, ContentsIs
        <4> QED BY <1>2, <3>1, <4>1, <4>2, <4>3
      <3>2. CASE d.ops = "dir"
        <4>1. ~(directoryLoc < Len(Dentries)) /\ directoryLoc' = 0
          BY <1>8, <3>2 DEF ReadEnds
        <4>2. directoryLoc = Len(Dentries) /\ s = Listed(directoryLoc)
          BY <1>2, <1>3, <3>2, <4>1
        <4> QED BY <1>1, <1>6, <3>2, <4>1, <4>2, ContentsIs, AllNamesIs
      <3>3. CASE d.ops = "rtc"
        <4>1. directoryLoc' = directoryLoc
          BY <1>8, <3>3 DEF ReadEnds
        <4> QED BY <1>1, <1>2, <1>6, <3>3, <4>1, ContentsIs
      <3> QED BY <1>6, <3>1, <3>2, <3>3, DotFacts
    <2>2. Expected(Top.line) = 0 /\ Printed(Top.line, Top.wrote)
      BY <1>2, <1>6, <2>1, PrintDone
    <2>3. Top.name # "shell"
      BY DEF Prints
    <2>4. Goto(Exit(Top, 0)) /\ call'[Self] = Idle
      BY <1>8 DEF ReadEnds
    <2> QED BY <1>3, <1>4, <2>1, <2>2, <2>3, <2>4, StopOK
  <1> QED BY <1>4, <1>7, <1>8

LEMMA CatDataOK == ASSUME SessionInv, cat_data PROVE SessionInv'
  <1>1. Top.name = "cat" /\ Top.at = "data" /\ Read(Top.file, Exit(Top, 0))
    BY DEF cat_data, Running
  <1>2. PICK name : /\ Prints(name)
                    /\ Printing(Top, name, fds[Self], seen[Self], call[Self], directoryLoc)
    BY <1>1, PrintCase
  <1>3. Top.file = 2
    BY <1>1, <1>2 DEF Prints
  <1> QED BY <1>1, <1>2, <1>3, PrintReadOK

LEMMA LsDataOK == ASSUME SessionInv, ls_data PROVE SessionInv'
  <1>1. Top.name = "ls" /\ Top.at = "data" /\ Read(Top.dir, Exit(Top, 0))
    BY DEF ls_data, Running
  <1>2. PICK name : /\ Prints(name)
                    /\ Printing(Top, name, fds[Self], seen[Self], call[Self], directoryLoc)
    BY <1>1, PrintCase
  <1>3. Top.dir = 2
    BY <1>1, <1>2 DEF Prints
  <1> QED BY <1>1, <1>2, <1>3, PrintReadOK

-----------------------------------------------------------------------------
(***************************************************************************)
(* The rest of a read.                                                      *)
(***************************************************************************)
LEMMA AppendIs ==
    ASSUME NEW T, NEW s \in Seq(T), NEW x \in T
    PROVE  Append(s, x) = s \o <<x>> /\ <<x>> \in Seq(T)
  <1>1. Append(s, x) = s \o <<x>>
    BY AppendIsConcat
  <1>2. <<x>> \in Seq(T)
    OBVIOUS
  <1> QED BY <1>1, <1>2

\* The read of fd is in progress.
InRead(fd) ==
    \/ fds[Self][fd].ops = "file" /\ call[Self] \in Copies /\ call[Self].fd = fd
    \/ fds[Self][fd].ops = "dir" /\ Fetching(call[Self], fd, directoryLoc)

CopyGoesOn(fd) ==
    /\ Goto(Top) /\ seen'[Self][fd] = seen[Self][fd] /\ directoryLoc' = directoryLoc
    /\ fds[Self][fd].ops = "file" /\ call'[Self] \in Copies /\ call'[Self].fd = fd

\* Where the program goes on when its read has returned.
Returned(fd) ==
    IF Top.name = "grep" THEN At(Top, IF fd = Top.dir THEN "file" ELSE "data")
    ELSE Wrote(Top, "data", Top.wrote \o New(fd))

CopyEnds(fd) ==
    /\ Goto(Returned(fd)) /\ call'[Self] = Idle
    /\ New(fd) \in Seq(Bytes \cup Names)
    /\ seen'[Self][fd] = seen[Self][fd] \o New(fd)
    /\ \/ fds[Self][fd].ops = "file" /\ directoryLoc' = directoryLoc
       \/ /\ fds[Self][fd].ops = "dir" /\ directoryLoc < Len(Dentries)
          /\ directoryLoc' = directoryLoc + 1
          /\ seen'[Self][fd] = Append(seen[Self][fd], Dentries[directoryLoc + 1].fileName)

LEMMA CopyCases ==
    ASSUME SessionInv, NEW fd \in Fds, NEW e \in DOMAIN Dentries, OpenOn(fds[Self][fd], e),
           InRead(fd), copy
    PROVE  /\ StepOf(Self)
           /\ \A f \in Fds : SameFd(fds'[Self][f], fds[Self][f])
           /\ \A f \in Fds \ {fd} : seen'[Self][f] = seen[Self][f]
           /\ CopyGoesOn(fd) \/ CopyEnds(fd)
  <1> DEFINE d == fds[Self][fd]
             s == seen[Self][fd]
  <1>1. FdInv /\ Self \in Procs /\ Types
    BY ChainFacts DEF SessionInv, FdInv, FileInv
  <1>2. /\ d \in Descriptors /\ d.file_position \in Int /\ s \in Seq(Bytes \cup Names)
        /\ d.ops = "file" => Consistent(d.inode)
    BY <1>1, DotFacts DEF OpenOn, FdInv, FileInv, Types, Descriptors
  <1>3. Idle \notin Copies /\ (call[Self].at = "copy" <=> call[Self] \in Copies)
    BY <1>1, CallKinds
  <1>4. StepOf(Self)
    BY DEF copy, StepOf
  <1>5. ASSUME call[Self].fd = fd, call'[Self] = Idle,
               ~(fds'[Self][fd].file_position < fds[Self][fd].file_position)
        PROVE  Goto(Returned(fd))
    BY <1>5 DEF copy, Returned, At, Wrote
  <1>6. CASE d.ops = "file" /\ call[Self] \in Copies /\ call[Self].fd = fd
    <2>1. copy_block(Self)
      BY <1>3, <1>6 DEF copy, directory_next
    <2>2. /\ directoryLoc' = directoryLoc
          /\ \A f \in Fds : SameFd(fds'[Self][f], fds[Self][f])
          /\ \A f \in Fds \ {fd} : seen'[Self][f] = seen[Self][f]
          /\ \/ call'[Self] \in Copies /\ call'[Self].fd = fd /\ seen'[Self][fd] = s
             \/ /\ call'[Self] = Idle
                /\ ~(fds'[Self][fd].file_position < fds[Self][fd].file_position)
                /\ \E x \in Seq(Bytes) : seen'[Self][fd] = s \o x
      BY <1>1, <1>2, <1>6, <2>1, CopyEffect
    <2>3. CASE call'[Self] \in Copies /\ call'[Self].fd = fd /\ seen'[Self][fd] = s
      <3>1. Goto(Top)
        BY <1>3, <2>3 DEF copy
      <3>2. CopyGoesOn(fd)
        BY <1>6, <2>2, <2>3, <3>1 DEF CopyGoesOn
      <3> QED BY <1>4, <2>2, <3>2
    <2>4. CASE ~(call'[Self] \in Copies /\ call'[Self].fd = fd /\ seen'[Self][fd] = s)
      <3>1. PICK x \in Seq(Bytes) : seen'[Self][fd] = s \o x
        BY <2>2, <2>4
      <3>2. x \in Seq(Bytes \cup Names)
        BY SeqMonotonic
      <3>3. New(fd) = x
        BY <1>2, <3>1, <3>2, NewIs DEF New
      <3>4. Goto(Returned(fd))
        BY <1>5, <1>6, <2>2, <2>4
      <3>5. CopyEnds(fd)
        BY <1>6, <2>2, <2>4, <3>1, <3>2, <3>3, <3>4 DEF CopyEnds
      <3> QED BY <1>4, <2>2, <3>5
    <2> QED BY <2>3, <2>4
  <1>7. CASE d.ops = "dir" /\ Fetching(call[Self], fd, directoryLoc)
    <2>1. call[Self].at = "list"
      BY <1>7 DEF Fetching
    <2>2. directory_next(Self)
      BY <2>1 DEF copy, copy_block
    <2> DEFINE x == Dentries[directoryLoc + 1].fileName
    <2>3. /\ fds' = fds /\ call'[Self] = Idle /\ directoryLoc' = directoryLoc + 1
          /\ call[Self].fd = fd
          /\ \A f \in Fds \ {fd} : seen'[Self][f] = seen[Self][f]
          /\ seen'[Self][fd] = Append(s, x)
      BY <1>1, <1>7, <2>2, DirectoryNextEffect
    <2>4. \A f \in Fds : SameFd(fds'[Self][f], fds[Self][f])
      BY <2>3 DEF SameFd
    <2>5. directoryLoc < Len(Dentries) /\ directoryLoc + 1 \in DOMAIN Dentries
      <3>1. directoryLoc \in Nat
        BY <1>1 DEF Types
      <3> QED BY <1>7, <3>1, ConstantFacts DEF Fetching
    <2>6. x \in Bytes \cup Names
      BY <2>5, DotFacts
    <2>7. New(fd) = <<x>> /\ <<x>> \in Seq(Bytes \cup Names) /\ seen'[Self][fd] = s \o <<x>>
      <3> HIDE DEF x, s
      <3>1. Append(s, x) = s \o <<x>> /\ <<x>> \in Seq(Bytes \cup Names)
        BY <1>2, <2>6, AppendIs
      <3>2. SubSeq(s \o <<x>>, Len(s) + 1, Len(s \o <<x>>)) = <<x>>
        BY <1>2, <3>1, NewIs
      <3> QED BY <2>3, <3>1, <3>2 DEF New, s
    <2>8. Goto(Returned(fd))
      <3>1. ~(fds'[Self][fd].file_position < fds[Self][fd].file_position)
        BY <1>2, <2>3
      <3> QED BY <1>5, <2>3, <3>1
    <2>9. CopyEnds(fd)
      BY <1>7, <2>3, <2>5, <2>7, <2>8 DEF CopyEnds
    <2> QED BY <1>4, <2>3, <2>4, <2>9
  <1> QED BY <1>6, <1>7 DEF InRead

\* cat and ls print what the read returned.
LEMMA PrintCopyOK ==
    ASSUME SessionInv, NEW name, Prints(name), Top.at = "copy", copy,
           Printing(Top, name, fds[Self], seen[Self], call[Self], directoryLoc)
    PROVE  SessionInv'
  <1> DEFINE d == fds[Self][2]
             s == seen[Self][2]
  <1>1. PICK e \in DOMAIN Dentries : Dentries[e].fileName = name /\ OpenOn(d, e)
    BY DEF Printing
  <1>2. /\ InRead(2) /\ Top.wrote = s
        /\ IF d.ops = "dir" THEN directoryLoc \in 0 .. Len(Dentries) /\ s = Listed(directoryLoc)
                            ELSE directoryLoc = 0
    BY DEF Printing, InRead
  <1>3. /\ 2 \in Fds /\ FdInv /\ Self \in Procs /\ Top \in Progs /\ "data" \in Labels
        /\ Len(Dentries) \in Nat
    BY ChainFacts, FilesAssumption, ConstantFacts DEF SessionInv, Fds, Labels
  <1>4. /\ StepOf(Self)
        /\ \A f \in Fds : SameFd(fds'[Self][f], fds[Self][f])
        /\ CopyGoesOn(2) \/ CopyEnds(2)
    BY <1>1, <1>2, <1>3, CopyCases
  <1>5. fds'[Self][2].ops = d.ops /\ OpenOn(fds'[Self][2], e)
    <2>1. SameFd(fds'[Self][2], d)
      BY <1>3, <1>4
    <2> QED BY <1>1, <2>1, SameFdOpenOn DEF SameFd
  <1>6. CASE CopyGoesOn(2)
    <2>1. /\ Goto(Top) /\ seen'[Self][2] = s /\ directoryLoc' = directoryLoc
          /\ d.ops = "file" /\ call'[Self] \in Copies /\ call'[Self].fd = 2
      BY <1>6 DEF CopyGoesOn
    <2>2. Printing(Top, name, fds'[Self], seen'[Self], call'[Self], directoryLoc')
      BY <1>1, <1>2, <1>5, <2>1 DEF Printing
    <2>3. ProgramOK(Top, fds'[Self], seen'[Self], call'[Self], directoryLoc')
      BY <2>2, PrintGoesOn DEF SameProg
    <2> QED BY <1>3, <1>4, <2>1, <2>3, GoOn
  <1>7. CASE CopyEnds(2)
    <2>1. /\ Goto(Returned(2)) /\ call'[Self] = Idle
          /\ New(2) \in Seq(Bytes \cup Names) /\ seen'[Self][2] = s \o New(2)
          /\ \/ d.ops = "file" /\ directoryLoc' = directoryLoc
             \/ /\ d.ops = "dir" /\ directoryLoc < Len(Dentries)
                /\ directoryLoc' = directoryLoc + 1
                /\ seen'[Self][2] = Append(s, Dentries[directoryLoc + 1].fileName)
      BY <1>7 DEF CopyEnds
    <2>2. PICK w : w = s \o New(2)
      OBVIOUS
    <2>3. w \in Seq(Bytes \cup Names)
      <3>1. s \in Seq(Bytes \cup Names)
        BY <1>3 DEF FdInv, FileInv, Types
      <3> QED BY <2>1, <2>2, <3>1, ConcatProperties
    <2>4. PICK Q : Q = Wrote(Top, "data", w)
      OBVIOUS
    <2>5. /\ Q \in Progs /\ SameProg(Q, Top) /\ Q.at = "data"
          /\ Q.dir = Top.dir /\ Q.file = Top.file /\ Q.wrote = w
      BY <1>3, <2>3, <2>4, WroteIs
    <2>6. Goto(Q)
      <3>1. Returned(2) = Q
        BY <1>2, <2>2, <2>4 DEF Returned, Prints
      <3> QED BY <2>1, <3>1
    <2>7. IF d.ops = "dir"
          THEN directoryLoc' \in 0 .. Len(Dentries) /\ seen'[Self][2] = Listed(directoryLoc')
          ELSE directoryLoc' = 0
      <3>1. CASE d.ops = "dir"
        <4>1. directoryLoc \in Nat /\ directoryLoc < Len(Dentries) /\ s = Listed(directoryLoc)
          BY <1>2, <1>3, <2>1, <3>1
        <4>2. Append(Listed(directoryLoc), Dentries[directoryLoc + 1].fileName) = Listed(directoryLoc + 1)
          BY <4>1, ListedFacts
        <4>3. directoryLoc + 1 \in 0 .. Len(Dentries)
          BY <1>3, <4>1
        <4> QED BY <2>1, <3>1, <4>1, <4>2, <4>3
      <3>2. CASE d.ops # "dir"
        BY <1>2, <2>1, <3>2
      <3> QED BY <3>1, <3>2
    <2>8. Printing(Q, name, fds'[Self], seen'[Self], call'[Self], directoryLoc')
      BY <1>1, <1>5, <2>1, <2>2, <2>5, <2>7 DEF Printing
    <2>9. ProgramOK(Q, fds'[Self], seen'[Self], call'[Self], directoryLoc')
      BY <2>5, <2>8, PrintGoesOn
    <2> QED BY <1>4, <2>5, <2>6, <2>9, GoOn DEF SameProg
  <1> QED BY <1>4, <1>6, <1>7

-----------------------------------------------------------------------------
(***************************************************************************)
(* grep.                                                                    *)
(***************************************************************************)
LEMMA GrepCase ==
    ASSUME SessionInv, Top.name = "grep", Top.at \notin {"main", "exit"}
    PROVE  /\ Top.argbuf # Empty
           /\ Grepping(Top, fds[Self], seen[Self], call[Self], directoryLoc)
  BY DEF SessionInv, ProgramOK, AtMain, Fresh, Exiting

\* grep's listing: descriptor 2 is open on the directory.
LEMMA GrepFacts ==
    ASSUME SessionInv, Top.name = "grep", Top.at \notin {"main", "exit"}
    PROVE  /\ FdInv /\ Self \in Procs /\ Top \in Progs /\ Top.argbuf # Empty /\ Top.dir = 2
           /\ 2 \in Fds /\ 3 \in Fds /\ Len(Dentries) \in Nat /\ DOMAIN Dentries = 1 .. Len(Dentries)
           /\ fds[Self][2].ops = "dir" /\ fds[Self][2].flags = "FD_AVAIL"
           /\ \E e \in DOMAIN Dentries : OpenOn(fds[Self][2], e)
           /\ directoryLoc \in 0 .. Len(Dentries) /\ seen[Self][2] = Listed(directoryLoc)
           /\ \A fd \in Fds : fd >= 4 => fds[Self][fd].flags # "FD_AVAIL"
           /\ \/ BetweenFiles(Top, fds[Self], call[Self], directoryLoc)
              \/ InFile(Top, fds[Self], call[Self], directoryLoc)
  <1>1. /\ Top.argbuf # Empty
        /\ Grepping(Top, fds[Self], seen[Self], call[Self], directoryLoc)
    BY GrepCase
  <1>2. FdInv /\ Self \in Procs /\ Top \in Progs
    BY ChainFacts DEF SessionInv
  <1>3. 2 \in Fds /\ 3 \in Fds
    BY FilesAssumption, ImageAssumption DEF Fds
  <1>4. Len(Dentries) \in Nat /\ DOMAIN Dentries = 1 .. Len(Dentries)
    BY ConstantFacts
  <1>5. \E e \in DOMAIN Dentries : OpenOn(fds[Self][2], e)
    BY <1>1, DotFacts DEF Grepping, OpenOn
  <1> QED BY <1>1, <1>2, <1>3, <1>4, <1>5 DEF Grepping

\* grep goes on with its listing where it was, or at loc.
LEMMA GrepGoesOn ==
    ASSUME SessionInv, Top.name = "grep", Top.argbuf # Empty, StepOf(Self), NEW P \in Progs, Goto(P),
           SameProg(P, Top), P.dir = 2,
           fds'[Self][2].flags = "FD_AVAIL", fds'[Self][2].ops = "dir",
           directoryLoc' \in 0 .. Len(Dentries), seen'[Self][2] = Listed(directoryLoc'),
           \A fd \in Fds : fd >= 4 => fds'[Self][fd].flags # "FD_AVAIL",
           \/ BetweenFiles(P, fds'[Self], call'[Self], directoryLoc')
           \/ InFile(P, fds'[Self], call'[Self], directoryLoc')
    PROVE  SessionInv'
  <1>1. Grepping(P, fds'[Self], seen'[Self], call'[Self], directoryLoc')
    BY DEF Grepping
  <1>2. ProgramOK(P, fds'[Self], seen'[Self], call'[Self], directoryLoc')
    BY <1>1 DEF ProgramOK, SameProg
  <1> QED BY <1>2, GoOn DEF SameProg

\* grep_entry: the next entry is fetched, or all files have been searched.
LEMMA GrepEntryOK == ASSUME SessionInv, grep_entry PROVE SessionInv'
  <1>1. Top.name = "grep" /\ Top.at = "entry" /\ Read(Top.dir, Exit(Top, 0))
    BY DEF grep_entry, Running
  <1>2. /\ FdInv /\ Self \in Procs /\ Top \in Progs /\ Top.argbuf # Empty /\ Top.dir = 2
        /\ 2 \in Fds /\ 3 \in Fds /\ Len(Dentries) \in Nat
        /\ fds[Self][2].ops = "dir" /\ fds[Self][2].flags = "FD_AVAIL"
        /\ \E e \in DOMAIN Dentries : OpenOn(fds[Self][2], e)
        /\ directoryLoc \in 0 .. Len(Dentries) /\ seen[Self][2] = Listed(directoryLoc)
        /\ \A fd \in Fds : fd >= 4 => fds[Self][fd].flags # "FD_AVAIL"
        /\ \/ BetweenFiles(Top, fds[Self], call[Self], directoryLoc)
           \/ InFile(Top, fds[Self], call[Self], directoryLoc)
    BY <1>1, GrepFacts
  <1>3. /\ call[Self] = Idle /\ Top.wrote = FilesAmong[directoryLoc]
        /\ fds[Self][3].flags # "FD_AVAIL"
    BY <1>1, <1>2 DEF BetweenFiles, InFile
  <1>4. PICK e \in DOMAIN Dentries : OpenOn(fds[Self][2], e)
    BY <1>2
  <1>5. /\ StepOf(Self)
        /\ \A f \in Fds : SameFd(fds'[Self][f], fds[Self][f])
        /\ ReadBegins(2) \/ ReadEnds(2, Exit(Top, 0))
    BY <1>1, <1>2, <1>3, <1>4, ReadCases
  <1>6. /\ \A f \in Fds : fds'[Self][f].flags = fds[Self][f].flags
        /\ fds'[Self][2].ops = "dir"
    BY <1>2, <1>5 DEF SameFd
  <1>7. CASE ReadBegins(2)
    <2>1. PICK Q : Q = At(Top, "copy")
      OBVIOUS
    <2>2. "copy" \in Labels
      BY DEF Labels
    <2>3. /\ Q \in Progs /\ SameProg(Q, Top) /\ Q.at = "copy" /\ Q.dir = 2 /\ Q.wrote = Top.wrote
      BY <1>2, <2>1, <2>2, AtIs
    <2>4. /\ Goto(Q) /\ seen'[Self][2] = seen[Self][2] /\ directoryLoc' = directoryLoc
          /\ Fetching(call'[Self], 2, directoryLoc)
      BY <1>2, <1>7, <2>1 DEF ReadBegins
    <2>5. BetweenFiles(Q, fds'[Self], call'[Self], directoryLoc')
      BY <1>2, <1>3, <1>6, <2>3, <2>4 DEF BetweenFiles
    <2> QED BY <1>1, <1>2, <1>5, <1>6, <2>3, <2>4, <2>5, GrepGoesOn
  <1>8. CASE ReadEnds(2, Exit(Top, 0))
    <2>1. /\ Goto(Exit(Top, 0)) /\ call'[Self] = Idle /\ directoryLoc' = 0
          /\ ~(directoryLoc < Len(Dentries))
      BY <1>2, <1>8 DEF ReadEnds
    <2>2. Top.wrote = FilesAmong[Len(Dentries)]
      BY <1>2, <1>3, <2>1
    <2>3. /\ Word(Top.line, 1) = "grep" /\ "grep" \in Executables /\ Word(Top.line, 2) # Empty
      BY <1>1, <1>2, StartedOther
    <2>4. Expected(Top.line) = 0 /\ Printed(Top.line, Top.wrote)
      <3>1. Expected(Top.line) = 0
        BY <2>3, ExpectedIs
      <3> QED BY <2>2, <2>3, <3>1 DEF Printed
    <2>5. Top.name # "shell" /\ 0 \in Int
      BY <1>1
    <2> QED BY <1>5, <2>1, <2>4, <2>5, StopOK
  <1> QED BY <1>5, <1>7, <1>8

\* The entry that was read last.
LEMMA LastListed ==
    ASSUME NEW n \in Nat \ {0}, n <= Len(Dentries)
    PROVE  Last(Listed(n)) = Dentries[n].fileName
  <1> DEFINE m == n - 1
  <1>1. m \in Nat /\ m < Len(Dentries) /\ m + 1 = n /\ n \in DOMAIN Dentries
    BY ConstantFacts
  <1> HIDE DEF m
  <1>2. /\ Listed(m) \in Seq(Names) /\ Len(Listed(m)) = m
        /\ Append(Listed(m), Dentries[m + 1].fileName) = Listed(m + 1)
    BY <1>1, ListedFacts
  <1>3. Dentries[n].fileName \in Names
    BY <1>1, DotFacts
  <1> DEFINE s == Listed(m)
             x == Dentries[n].fileName
             t == Listed(n)
  <1>4. s \in Seq(Names) /\ Len(s) = m /\ x \in Names /\ t = Append(s, x)
    BY <1>1, <1>2, <1>3
  <1> HIDE DEF s, x, t
  <1>5. Len(t) = m + 1 /\ t[m + 1] = x
    BY <1>1, <1>4
  <1>6. Last(t) = x
    BY <1>5 DEF Last
  <1> QED BY <1>6 DEF t, x

\* grep_file: the file is searched, or it was the directory.
LEMMA GrepFileOK == ASSUME SessionInv, grep_file PROVE SessionInv'
  <1>1. Top.name = "grep" /\ Top.at = "file"
    BY DEF grep_file, Running
  <1>2. /\ FdInv /\ Self \in Procs /\ Top \in Progs /\ Top.argbuf # Empty /\ Top.dir = 2
        /\ 2 \in Fds /\ 3 \in Fds /\ Len(Dentries) \in Nat /\ DOMAIN Dentries = 1 .. Len(Dentries)
        /\ fds[Self][2].ops = "dir" /\ fds[Self][2].flags = "FD_AVAIL"
        /\ directoryLoc \in 0 .. Len(Dentries) /\ seen[Self][2] = Listed(directoryLoc)
        /\ \A fd \in Fds : fd >= 4 => fds[Self][fd].flags # "FD_AVAIL"
        /\ \/ BetweenFiles(Top, fds[Self], call[Self], directoryLoc)
           \/ InFile(Top, fds[Self], call[Self], directoryLoc)
    BY <1>1, GrepFacts
  <1>3. /\ call[Self] = Idle /\ directoryLoc > 0 /\ Top.wrote = FilesAmong[directoryLoc - 1]
        /\ fds[Self][3].flags # "FD_AVAIL"
    BY <1>1, <1>2 DEF BetweenFiles, InFile
  <1>4. directoryLoc \in 1 .. Len(Dentries) /\ directoryLoc \in Nat \ {0} /\ directoryLoc <= Len(Dentries)
    BY <1>2, <1>3
  <1> DEFINE name == Dentries[directoryLoc].fileName
  <1>5. Last(seen[Self][Top.dir]) = name
    BY <1>2, <1>4, LastListed
  <1>6. CASE name = "."
    <2>1. Goto([Top EXCEPT !.at = "entry"]) /\ UNCHANGED vars
      BY <1>5, <1>6 DEF grep_file
    <2>2. PICK Q : Q = At(Top, "entry")
      OBVIOUS
    <2>3. "entry" \in Labels
      BY DEF Labels
    <2>4. /\ Q \in Progs /\ SameProg(Q, Top) /\ Q.at = "entry" /\ Q.dir = 2 /\ Q.wrote = Top.wrote
      BY <1>2, <2>2, <2>3, AtIs
    <2>5. Goto(Q)
      BY <2>1, <2>2 DEF At
    <2>6. /\ fds' = fds /\ seen' = seen /\ call' = call /\ directoryLoc' = directoryLoc
          /\ StepOf(Self)
      BY <2>1, QuietFacts
    <2>7. FilesAmong[directoryLoc] = FilesAmong[directoryLoc - 1]
      BY <1>4, <1>6, FilesAmongStep
    <2>8. BetweenFiles(Q, fds'[Self], call'[Self], directoryLoc')
      BY <1>3, <2>4, <2>6, <2>7 DEF BetweenFiles
    <2> QED BY <1>1, <1>2, <2>4, <2>5, <2>6, <2>8, GrepGoesOn
  <1>7. CASE name # "."
    <2>1. Open(name, 3, "data", "file")
      BY <1>5, <1>7 DEF grep_file
    <2>2. name \in Names
      BY <1>2, <1>4, DotFacts
    <2>3. FreeFd(Self, 3)
      <3>1. \A x \in 2 .. 3 - 1 : x = 2
        OBVIOUS
      <3> QED BY <1>2, <1>3, <3>1 DEF FreeFd, IsOpen
    <2>4. PICK fd \in Fds : /\ FreeFd(Self, fd) /\ sys_open(Self, name)
                            /\ Goto([Top EXCEPT !.at = "data", !["file"] = fd])
      BY <1>2, <2>1, <2>2, <2>3 DEF Open
    <2>5. fd = 3
      BY <1>2, <2>3, <2>4, FreeFdUnique
    <2>6. StepOf(Self)
      BY <1>2, <1>4, <2>4 DEF StepOf
    <2>7. /\ \E e \in DOMAIN Dentries : Dentries[e].fileName = name /\ OpenOn(fds'[Self][3], e)
          /\ \A f \in Fds \ {3} : fds'[Self][f] = fds[Self][f] /\ seen'[Self][f] = seen[Self][f]
          /\ call' = call /\ directoryLoc' = directoryLoc
      BY <1>2, <2>3, <2>4, OpenEffect
    <2>8. OpenOn(fds'[Self][3], directoryLoc)
      BY <1>2, <1>4, <2>7, ImageAssumption
    <2>9. PICK Q : Q = [Top EXCEPT !.at = "data", !["file"] = 3]
      OBVIOUS
    <2>10. Q = HoldFile(Top, "data", 3)
      BY <2>9, Zenon DEF HoldFile
    <2>11. "data" \in Labels /\ 3 \in Int
      BY DEF Labels
    <2>12. /\ Q \in Progs /\ SameProg(Q, Top) /\ Q.at = "data" /\ Q.dir = 2 /\ Q.file = 3
           /\ Q.wrote = Top.wrote
      BY <1>2, <2>10, <2>11, FileIs
    <2>13. Goto(Q)
      BY <2>4, <2>5, <2>9
    <2>14. InFile(Q, fds'[Self], call'[Self], directoryLoc')
      BY <1>3, <1>7, <2>7, <2>8, <2>12 DEF InFile
    <2>15. 2 \in Fds \ {3} /\ \A f \in Fds : f >= 4 => f \in Fds \ {3}
      <3>1. \A f \in Fds : f \in Nat
        BY ConstantFacts
      <3> QED BY <1>2, <3>1
    <2>16. \A f \in Fds : f >= 4 => fds'[Self][f].flags # "FD_AVAIL"
      BY <1>2, <2>7, <2>15
    <2>17. /\ fds'[Self][2].ops = "dir" /\ fds'[Self][2].flags = "FD_AVAIL"
           /\ seen'[Self][2] = Listed(directoryLoc') /\ directoryLoc' \in 0 .. Len(Dentries)
      BY <1>2, <2>7, <2>15
    <2> QED BY <1>1, <1>2, <2>6, <2>12, <2>13, <2>14, <2>16, <2>17, GrepGoesOn
  <1> QED BY <1>6, <1>7

\* grep, in the file before loc.
LEMMA InFileFacts ==
    ASSUME SessionInv, Top.name = "grep", Top.at \notin {"main", "exit"},
           InFile(Top, fds[Self], call[Self], directoryLoc)
    PROVE  /\ directoryLoc \in DOMAIN Dentries /\ OpenOn(fds[Self][3], directoryLoc)
           /\ fds[Self][3].ops # "dir" /\ directoryLoc > 0 /\ Dentries[directoryLoc].fileName # "."
           /\ Top.file = 3 /\ Top.wrote = FilesAmong[directoryLoc - 1]
  <1>1. /\ Len(Dentries) \in Nat /\ DOMAIN Dentries = 1 .. Len(Dentries)
        /\ directoryLoc \in 0 .. Len(Dentries)
    BY GrepFacts
  <1>2. /\ OpenOn(fds[Self][3], directoryLoc) /\ directoryLoc > 0
        /\ Dentries[directoryLoc].fileName # "."
        /\ Top.file = 3 /\ Top.wrote = FilesAmong[directoryLoc - 1]
    BY DEF InFile
  <1>3. directoryLoc \in DOMAIN Dentries
    BY <1>1, <1>2
  <1>4. fds[Self][3].ops # "dir"
    BY <1>2, <1>3, DotFacts DEF OpenOn
  <1> QED BY <1>2, <1>3, <1>4

\* A step in the file before loc that leaves the directory alone.
LEMMA InFileGoesOn ==
    ASSUME SessionInv, Top.name = "grep", Top.at \notin {"main", "exit"},
           InFile(Top, fds[Self], call[Self], directoryLoc),
           StepOf(Self), \A f \in Fds : SameFd(fds'[Self][f], fds[Self][f]),
           \A f \in Fds \ {3} : seen'[Self][f] = seen[Self][f], directoryLoc' = directoryLoc,
           NEW Q \in Progs, SameProg(Q, Top), Q.dir = Top.dir, Q.file = Top.file,
           Q.wrote = Top.wrote, Goto(Q),
           \/ Q.at \in {"data", "close"} /\ call'[Self] = Idle
           \/ Q.at = "copy" /\ call'[Self] \in Copies /\ call'[Self].fd = 3
    PROVE  SessionInv'
  <1>1. /\ FdInv /\ Self \in Procs /\ Top \in Progs /\ Top.argbuf # Empty /\ Top.dir = 2
        /\ 2 \in Fds /\ 3 \in Fds
        /\ fds[Self][2].ops = "dir" /\ fds[Self][2].flags = "FD_AVAIL"
        /\ directoryLoc \in 0 .. Len(Dentries) /\ seen[Self][2] = Listed(directoryLoc)
        /\ \A fd \in Fds : fd >= 4 => fds[Self][fd].flags # "FD_AVAIL"
    BY GrepFacts
  <1>2. /\ OpenOn(fds[Self][3], directoryLoc) /\ directoryLoc > 0
        /\ Dentries[directoryLoc].fileName # "."
        /\ Top.file = 3 /\ Top.wrote = FilesAmong[directoryLoc - 1]
    BY InFileFacts
  <1>3. OpenOn(fds'[Self][3], directoryLoc)
    BY <1>1, <1>2, SameFdOpenOn
  <1>4. InFile(Q, fds'[Self], call'[Self], directoryLoc')
    BY <1>2, <1>3 DEF InFile
  <1>5. /\ fds'[Self][2].ops = "dir" /\ fds'[Self][2].flags = "FD_AVAIL"
        /\ \A fd \in Fds : fd >= 4 => fds'[Self][fd].flags # "FD_AVAIL"
    BY <1>1 DEF SameFd
  <1>6. seen'[Self][2] = Listed(directoryLoc')
    BY <1>1
  <1> QED BY <1>1, <1>4, <1>5, <1>6, GrepGoesOn

\* grep_data: a read of the file begins, or it has come to its end.
LEMMA GrepDataOK == ASSUME SessionInv, grep_data PROVE SessionInv'
  <1>1. /\ Top.name = "grep" /\ Top.at = "data" /\ Read(Top.file, [Top EXCEPT !.at = "close"])
    BY DEF grep_data, Running
  <1>2. /\ Top \in Progs /\ 3 \in Fds /\ InFile(Top, fds[Self], call[Self], directoryLoc)
        /\ Self \in Procs /\ FdInv
    BY <1>1, GrepFacts DEF BetweenFiles
  <1>3. /\ directoryLoc \in DOMAIN Dentries /\ OpenOn(fds[Self][3], directoryLoc)
        /\ fds[Self][3].ops # "dir" /\ Top.file = 3
    BY <1>1, <1>2, InFileFacts
  <1>4. call[Self] = Idle
    BY <1>1, <1>2 DEF InFile
  <1>5. Read(3, At(Top, "close"))
    BY <1>1, <1>3 DEF At
  <1>6. /\ StepOf(Self)
        /\ \A f \in Fds : SameFd(fds'[Self][f], fds[Self][f])
        /\ \A f \in Fds \ {3} : seen'[Self][f] = seen[Self][f]
        /\ ReadBegins(3) \/ ReadEnds(3, At(Top, "close"))
    BY <1>2, <1>3, <1>4, <1>5, ReadCases
  <1>7. "copy" \in Labels /\ "close" \in Labels
    BY DEF Labels
  <1>8. CASE ReadBegins(3)
    <2>1. PICK Q : Q = At(Top, "copy")
      OBVIOUS
    <2>2. /\ Q \in Progs /\ SameProg(Q, Top) /\ Q.at = "copy" /\ Q.dir = Top.dir
          /\ Q.file = Top.file /\ Q.wrote = Top.wrote
      BY <1>2, <1>7, <2>1, AtIs
    <2>3. Goto(Q) /\ directoryLoc' = directoryLoc /\ call'[Self] \in Copies /\ call'[Self].fd = 3
      BY <1>3, <1>8, <2>1 DEF ReadBegins
    <2> QED BY <1>1, <1>2, <1>6, <2>2, <2>3, InFileGoesOn
  <1>9. CASE ReadEnds(3, At(Top, "close"))
    <2>1. PICK Q : Q = At(Top, "close")
      OBVIOUS
    <2>2. /\ Q \in Progs /\ SameProg(Q, Top) /\ Q.at = "close" /\ Q.dir = Top.dir
          /\ Q.file = Top.file /\ Q.wrote = Top.wrote
      BY <1>2, <1>7, <2>1, AtIs
    <2>3. Goto(Q) /\ directoryLoc' = directoryLoc /\ call'[Self] = Idle
      BY <1>3, <1>9, <2>1 DEF ReadEnds
    <2> QED BY <1>1, <1>2, <1>6, <2>2, <2>3, InFileGoesOn
  <1> QED BY <1>6, <1>8, <1>9

\* grep_close: descriptor 3 is free for the next file.
LEMMA GrepCloseOK == ASSUME SessionInv, grep_close PROVE SessionInv'
  <1>1. /\ Top.name = "grep" /\ Top.at = "close" /\ sys_close(Self, Top.file) /\ Goto(Searched)
    BY DEF grep_close, Running
  <1>2. /\ FdInv /\ Self \in Procs /\ Top \in Progs /\ Top.argbuf # Empty /\ Top.dir = 2
        /\ 2 \in Fds /\ 3 \in Fds /\ Len(Dentries) \in Nat /\ DOMAIN Dentries = 1 .. Len(Dentries)
        /\ fds[Self][2].ops = "dir" /\ fds[Self][2].flags = "FD_AVAIL"
        /\ directoryLoc \in 0 .. Len(Dentries) /\ seen[Self][2] = Listed(directoryLoc)
        /\ \A fd \in Fds : fd >= 4 => fds[Self][fd].flags # "FD_AVAIL"
        /\ InFile(Top, fds[Self], call[Self], directoryLoc)
    BY <1>1, GrepFacts DEF BetweenFiles
  <1>3. /\ directoryLoc > 0 /\ Dentries[directoryLoc].fileName # "."
        /\ Top.file = 3 /\ Top.wrote = FilesAmong[directoryLoc - 1] /\ call[Self] = Idle
    BY <1>1, <1>2, InFileFacts DEF InFile
  <1>4. directoryLoc \in 1 .. Len(Dentries) /\ directoryLoc \in Nat \ {0} /\ directoryLoc <= Len(Dentries)
    BY <1>2, <1>3
  <1>5. /\ fds'[Self][3].flags = "FD_OCCUP"
        /\ \A f \in Fds \ {3} : fds'[Self][f] = fds[Self][f] /\ seen'[Self][f] = seen[Self][f]
        /\ call' = call /\ directoryLoc' = directoryLoc
    BY <1>1, <1>2, <1>3, CloseEffect
  <1>6. StepOf(Self)
    BY <1>1, <1>2, <1>3 DEF StepOf
  <1>7. PICK w : w = FilesAmong[directoryLoc]
    OBVIOUS
  <1>8. w = Append(Top.wrote, Last(seen[Self][Top.dir])) /\ w \in Seq(Bytes \cup Names)
    <2>1. Last(seen[Self][Top.dir]) = Dentries[directoryLoc].fileName
      BY <1>2, <1>4, LastListed
    <2>2. FilesAmong[directoryLoc] = Append(FilesAmong[directoryLoc - 1], Dentries[directoryLoc].fileName)
      BY <1>3, <1>4, FilesAmongStep
    <2>3. FilesAmong[directoryLoc] \in Seq(Bytes \cup Names)
      BY <1>2, FilesAmongType
    <2> QED BY <1>3, <1>7, <2>1, <2>2, <2>3
  <1>9. PICK Q : Q = Wrote(Top, "entry", w)
    OBVIOUS
  <1>10. "entry" \in Labels
    BY DEF Labels
  <1>11. /\ Q \in Progs /\ SameProg(Q, Top) /\ Q.at = "entry" /\ Q.dir = 2 /\ Q.wrote = w
    <2>1. w \in Seq(Bytes \cup Names)
      BY <1>8
    <2> QED BY <1>2, <1>9, <1>10, <2>1, WroteIs
  <1>12. Goto(Q)
    BY <1>1, <1>8, <1>9 DEF Searched, Wrote
  <1>13. BetweenFiles(Q, fds'[Self], call'[Self], directoryLoc')
    BY <1>3, <1>5, <1>7, <1>11 DEF BetweenFiles
  <1>14. 2 \in Fds \ {3} /\ \A f \in Fds : f >= 4 => f \in Fds \ {3}
    <2>1. \A f \in Fds : f \in Nat
      BY ConstantFacts
    <2> QED BY <1>2, <2>1
  <1>15. \A f \in Fds : f >= 4 => fds'[Self][f].flags # "FD_AVAIL"
    BY <1>2, <1>5, <1>14
  <1>16. /\ fds'[Self][2].ops = "dir" /\ fds'[Self][2].flags = "FD_AVAIL"
         /\ seen'[Self][2] = Listed(directoryLoc') /\ directoryLoc' \in 0 .. Len(Dentries)
    BY <1>2, <1>5, <1>14
  <1> QED BY <1>1, <1>2, <1>6, <1>11, <1>12, <1>13, <1>15, <1>16, GrepGoesOn

\* grep gets the name of the next entry, or more of the file it searches.
LEMMA GrepCopyOK == ASSUME SessionInv, copy, Top.name = "grep" PROVE SessionInv'
  <1>1. Top.at = "copy"
    BY DEF copy
  <1>2. /\ FdInv /\ Self \in Procs /\ Top \in Progs /\ Top.argbuf # Empty /\ Top.dir = 2
        /\ 2 \in Fds /\ 3 \in Fds /\ Len(Dentries) \in Nat /\ DOMAIN Dentries = 1 .. Len(Dentries)
        /\ fds[Self][2].ops = "dir" /\ fds[Self][2].flags = "FD_AVAIL"
        /\ \E e \in DOMAIN Dentries : OpenOn(fds[Self][2], e)
        /\ directoryLoc \in 0 .. Len(Dentries) /\ seen[Self][2] = Listed(directoryLoc)
        /\ \A fd \in Fds : fd >= 4 => fds[Self][fd].flags # "FD_AVAIL"
        /\ \/ BetweenFiles(Top, fds[Self], call[Self], directoryLoc)
           \/ InFile(Top, fds[Self], call[Self], directoryLoc)
    BY <1>1, GrepFacts
  <1>3. "file" \in Labels /\ "data" \in Labels
    BY DEF Labels
  <1>4. CASE BetweenFiles(Top, fds[Self], call[Self], directoryLoc)
    <2>1. /\ Fetching(call[Self], 2, directoryLoc) /\ Top.wrote = FilesAmong[directoryLoc]
          /\ fds[Self][3].flags # "FD_AVAIL"
      BY <1>1, <1>4 DEF BetweenFiles
    <2>2. PICK e \in DOMAIN Dentries : OpenOn(fds[Self][2], e)
      BY <1>2
    <2>3. InRead(2)
      BY <1>2, <2>1 DEF InRead
    <2>4. /\ StepOf(Self)
          /\ \A f \in Fds : SameFd(fds'[Self][f], fds[Self][f])
          /\ CopyGoesOn(2) \/ CopyEnds(2)
      BY <1>2, <2>2, <2>3, CopyCases
    <2>5. /\ Goto(Returned(2)) /\ call'[Self] = Idle /\ directoryLoc < Len(Dentries)
          /\ directoryLoc' = directoryLoc + 1
          /\ seen'[Self][2] = Append(seen[Self][2], Dentries[directoryLoc + 1].fileName)
      BY <1>2, <2>4 DEF CopyGoesOn, CopyEnds
    <2>6. PICK Q : Q = At(Top, "file")
      OBVIOUS
    <2>7. /\ Q \in Progs /\ SameProg(Q, Top) /\ Q.at = "file" /\ Q.dir = 2 /\ Q.wrote = Top.wrote
      BY <1>2, <1>3, <2>6, AtIs
    <2>8. Goto(Q)
      BY <1>2, <2>5, <2>6 DEF Returned
    <2>9. /\ directoryLoc \in Nat /\ directoryLoc' \in 0 .. Len(Dentries) /\ directoryLoc' > 0
          /\ directoryLoc' - 1 = directoryLoc
      BY <1>2, <2>5
    <2>10. seen'[Self][2] = Listed(directoryLoc')
      <3>1. Append(Listed(directoryLoc), Dentries[directoryLoc + 1].fileName) = Listed(directoryLoc + 1)
        BY <2>5, <2>9, ListedFacts
      <3> QED BY <1>2, <2>5, <3>1
    <2>11. /\ fds'[Self][2].ops = "dir" /\ fds'[Self][2].flags = "FD_AVAIL"
           /\ \A fd \in Fds : fd >= 4 => fds'[Self][fd].flags # "FD_AVAIL"
           /\ fds'[Self][3].flags # "FD_AVAIL"
      BY <1>2, <2>1, <2>4 DEF SameFd
    <2>12. BetweenFiles(Q, fds'[Self], call'[Self], directoryLoc')
      BY <2>1, <2>5, <2>7, <2>9, <2>11 DEF BetweenFiles
    <2> QED BY <1>2, <2>4, <2>7, <2>8, <2>9, <2>10, <2>11, <2>12, GrepGoesOn
  <1>5. CASE InFile(Top, fds[Self], call[Self], directoryLoc)
    <2>1. /\ directoryLoc \in DOMAIN Dentries /\ OpenOn(fds[Self][3], directoryLoc)
          /\ fds[Self][3].ops # "dir"
      BY <1>1, <1>5, InFileFacts
    <2>2. call[Self] \in Copies /\ call[Self].fd = 3 /\ fds[Self][3].ops = "file"
      BY <1>1, <1>2, <1>5 DEF InFile, FdInv, FileInv, CallOK
    <2>3. InRead(3)
      BY <2>2 DEF InRead
    <2>4. /\ StepOf(Self)
          /\ \A f \in Fds : SameFd(fds'[Self][f], fds[Self][f])
          /\ \A f \in Fds \ {3} : seen'[Self][f] = seen[Self][f]
          /\ CopyGoesOn(3) \/ CopyEnds(3)
      BY <1>2, <2>1, <2>3, CopyCases
    <2>5. CASE CopyGoesOn(3)
      <3>1. /\ Goto(Top) /\ directoryLoc' = directoryLoc
            /\ call'[Self] \in Copies /\ call'[Self].fd = 3
        BY <2>5 DEF CopyGoesOn
      <3>2. SameProg(Top, Top)
        BY DEF SameProg
      <3> QED BY <1>1, <1>2, <1>5, <2>4, <3>1, <3>2, InFileGoesOn
    <2>6. CASE CopyEnds(3)
      <3>1. PICK Q : Q = At(Top, "data")
        OBVIOUS
      <3>2. /\ Q \in Progs /\ SameProg(Q, Top) /\ Q.at = "data" /\ Q.dir = Top.dir
            /\ Q.file = Top.file /\ Q.wrote = Top.wrote
        BY <1>2, <1>3, <3>1, AtIs
      <3>3. Goto(Returned(3)) /\ directoryLoc' = directoryLoc /\ call'[Self] = Idle
        BY <2>1, <2>6 DEF CopyEnds
      <3>4. Goto(Q)
        <4>1. 3 # Top.dir
          BY <1>2
        <4> QED BY <3>1, <3>3, <4>1 DEF Returned
      <3> QED BY <1>1, <1>2, <1>5, <2>4, <3>2, <3>3, <3>4, InFileGoesOn
    <2> QED BY <2>4, <2>5, <2>6
  <1> QED BY <1>2, <1>4, <1>5

\* copy: one of the three programs that read.
LEMMA CopyOK == ASSUME SessionInv, copy PROVE SessionInv'
  <1>1. Top.at = "copy"
    BY DEF copy
  <1>2. Top.name \in {"cat", "ls", "grep"}
    BY <1>1 DEF SessionInv, ProgramOK, AtMain, Fresh, Exiting, Calling
  <1>3. CASE Top.name \in {"cat", "ls"}
    <2>1. PICK name : /\ Prints(name)
                      /\ Printing(Top, name, fds[Self], seen[Self], call[Self], directoryLoc)
      BY <1>1, <1>3, PrintCase
    <2> QED BY <1>1, <2>1, PrintCopyOK
  <1>4. CASE Top.name = "grep"
    BY <1>4, GrepCopyOK
  <1> QED BY <1>2, <1>3, <1>4

-----------------------------------------------------------------------------
(***************************************************************************)
(* syserr: the calls of its tests.                                          *)
(***************************************************************************)
RefusedRequests == {c \in Requests : Refused(c)}

Request(name, x) == [call |-> name, on |-> x]

LEMMA RequestIs ==
    ASSUME NEW name, NEW x \in Targets, RefusedAs(name, x)
    PROVE  Request(name, x) \in RefusedRequests
  <1> DEFINE c == Request(name, x)
  <1>1. name \in CallNames
    BY DEF RefusedAs, CallNames
  <1>2. c \in Requests /\ c.call = name /\ c.on = x
    BY <1>1 DEF Request, Requests
  <1> HIDE DEF c
  <1>3. c \in RefusedRequests
    BY <1>2 DEF RefusedRequests, Refused
  <1> QED BY <1>3 DEF c

LEMMA CallIs ==
    ASSUME NEW name, NEW x \in Targets, RefusedAs(name, x)
    PROVE  Call(name, x) \in Seq(RefusedRequests)
  <1>1. PICK c \in RefusedRequests : c = Request(name, x)
    BY RequestIs
  <1>2. Call(name, x) = <<c>>
    BY <1>1 DEF Call, Request
  <1> QED BY <1>2

LEMMA OnEachIs ==
    ASSUME NEW name, NEW a \in Nat, NEW b \in Nat, a <= b + 1,
           \A x \in a .. b : RefusedAs(name, x)
    PROVE  OnEach(name, a, b) \in Seq(RefusedRequests)
  <1> DEFINE n == b - a + 1
             f == [i \in 1 .. n |-> Request(name, a + i - 1)]
  <1>1. n \in Nat
    OBVIOUS
  <1>2. \A i \in 1 .. n : a + i - 1 \in a .. b /\ a + i - 1 \in Targets
    BY <1>1 DEF Targets
  <1>3. \A i \in 1 .. n : Request(name, a + i - 1) \in RefusedRequests
    BY <1>2, RequestIs
  <1>4. f \in [1 .. n -> RefusedRequests]
    BY <1>3
  <1>5. f = OnEach(name, a, b)
    BY DEF OnEach, Request
  <1> HIDE DEF f, n
  <1>6. f \in Seq(RefusedRequests)
    BY <1>1, <1>4, SeqDef
  <1> QED BY <1>5, <1>6

LEMMA ConcatIs ==
    ASSUME NEW T, NEW a \in Seq(T), NEW b \in Seq(T) PROVE a \o b \in Seq(T)
  BY ConcatProperties

\* Every test but err_open_lots makes calls that are refused.
LEMMA TestsRefused ==
    /\ err_neg_fd \in Seq(RefusedRequests) /\ err_big_fd \in Seq(RefusedRequests)
    /\ err_open \in Seq(RefusedRequests) /\ err_unopened \in Seq(RefusedRequests)
    /\ err_vidmap \in Seq(RefusedRequests) /\ err_stdin_out \in Seq(RefusedRequests)
    /\ err_syscall_num \in Seq(RefusedRequests)
  <1>0. NUM_MAX_OPEN_FILES \in Nat /\ NUM_MAX_OPEN_FILES > 3
    BY FilesAssumption, ImageAssumption
  <1>1. err_neg_fd \in Seq(RefusedRequests)
    <2>1. NEG_FD \in Int /\ NEG_FD # 0 /\ NEG_FD # 1
      BY DEF NEG_FD
    <2>2. Call("read", NEG_FD) \in Seq(RefusedRequests)
      BY <2>1, CallIs DEF RefusedAs, Targets
    <2>3. Call("write", NEG_FD) \in Seq(RefusedRequests)
      BY <2>1, CallIs DEF RefusedAs, Targets
    <2>4. Call("close", NEG_FD) \in Seq(RefusedRequests)
      BY <2>1, CallIs DEF RefusedAs, Targets
    <2> QED BY <2>2, <2>3, <2>4, ConcatIs DEF err_neg_fd
  <1>2. err_big_fd \in Seq(RefusedRequests)
    <2>1. BIG_FD \in Int /\ BIG_FD # 0 /\ BIG_FD # 1
      BY <1>0 DEF BIG_FD
    <2>2. Call("read", BIG_FD) \in Seq(RefusedRequests)
      BY <2>1, CallIs DEF RefusedAs, Targets
    <2>3. Call("write", BIG_FD) \in Seq(RefusedRequests)
      BY <2>1, CallIs DEF RefusedAs, Targets
    <2>4. Call("close", BIG_FD) \in Seq(RefusedRequests)
      BY <2>1, CallIs DEF RefusedAs, Targets
    <2> QED BY <2>2, <2>3, <2>4, ConcatIs DEF err_big_fd
  <1>3. err_open \in Seq(RefusedRequests)
    <2>1. "helloo" \notin Names /\ "shel" \notin Names /\ Empty \notin Names
      BY ImageAssumption
    <2>2. Empty \in Targets
      BY DEF Targets
    <2>3. Call("open", "helloo") \in Seq(RefusedRequests)
      BY <2>1, CallIs DEF RefusedAs, Targets
    <2>4. Call("open", "shel") \in Seq(RefusedRequests)
      BY <2>1, CallIs DEF RefusedAs, Targets
    <2>5. Call("open", Empty) \in Seq(RefusedRequests)
      BY <2>1, <2>2, CallIs DEF RefusedAs
    <2> QED BY <2>3, <2>4, <2>5, ConcatIs DEF err_open
  <1>4. err_unopened \in Seq(RefusedRequests)
    <2> DEFINE m == NUM_MAX_OPEN_FILES - 1
    <2>1. m \in Nat /\ 0 <= m + 1 /\ 2 <= m + 1 /\ \A x \in 2 .. m : x # 0 /\ x # 1
      BY <1>0
    <2> HIDE DEF m
    <2>2. OnEach("close", 0, m) \in Seq(RefusedRequests)
      BY <2>1, OnEachIs DEF RefusedAs
    <2>3. OnEach("read", 2, m) \in Seq(RefusedRequests)
      BY <2>1, OnEachIs DEF RefusedAs
    <2>4. OnEach("write", 2, m) \in Seq(RefusedRequests)
      BY <2>1, OnEachIs DEF RefusedAs
    <2> QED BY <2>2, <2>3, <2>4, ConcatIs DEF err_unopened, m
  <1>5. err_vidmap \in Seq(RefusedRequests)
    <2>1. Call("vidmap", "NULL") \in Seq(RefusedRequests)
      BY CallIs DEF RefusedAs, Targets
    <2>2. Call("vidmap", "_4MB") \in Seq(RefusedRequests)
      BY CallIs DEF RefusedAs, Targets
    <2> QED BY <2>1, <2>2, ConcatIs DEF err_vidmap
  <1>6. err_stdin_out \in Seq(RefusedRequests)
    <2>1. 0 \in Int /\ 1 \in Int /\ 0 # 1
      OBVIOUS
    <2>2. Call("write", 0) \in Seq(RefusedRequests)
      BY <2>1, CallIs DEF RefusedAs, Targets
    <2>3. Call("read", 1) \in Seq(RefusedRequests)
      BY <2>1, CallIs DEF RefusedAs, Targets
    <2> QED BY <2>2, <2>3, ConcatIs DEF err_stdin_out
  <1>7. err_syscall_num \in Seq(RefusedRequests)
    <2>1. 9 \in Int /\ -1 \in Int /\ 0 \in Int /\ 9 \notin 1 .. 8 /\ -1 \notin 1 .. 8 /\ 0 \notin 1 .. 8
      OBVIOUS
    <2>2. Call("int80", 9) \in Seq(RefusedRequests)
      BY <2>1, CallIs DEF RefusedAs, Targets
    <2>3. Call("int80", -1) \in Seq(RefusedRequests)
      BY <2>1, CallIs DEF RefusedAs, Targets
    <2>4. Call("int80", 0) \in Seq(RefusedRequests)
      BY <2>1, CallIs DEF RefusedAs, Targets
    <2> QED BY <2>2, <2>3, <2>4, ConcatIs DEF err_syscall_num
  <1> QED BY <1>1, <1>2, <1>3, <1>4, <1>5, <1>6, <1>7

\* So they are with the number of the test.
LEMMA NumberedIs ==
    ASSUME NEW k \in Nat, NEW T, Tests[k] \in Seq(T), T \subseteq Requests
    PROVE  /\ Numbered(k) \in Seq([test : Nat, do : T]) /\ Len(Numbered(k)) = Len(Tests[k])
           /\ \A i \in 1 .. Len(Tests[k]) : Numbered(k)[i].do = Tests[k][i]
  <1> DEFINE t == Tests[k]
             n == Numbered(k)
  <1>1. Len(t) \in Nat /\ DOMAIN t = 1 .. Len(t) /\ \A i \in 1 .. Len(t) : t[i] \in T
    BY LenProperties, ElementOfSeq
  <1>2. n = [i \in 1 .. Len(t) |-> [test |-> k, do |-> t[i]]]
    BY <1>1 DEF Numbered
  <1> HIDE DEF t, n
  <1> DEFINE R == [test : Nat, do : T]
  <1>3. /\ n \in [1 .. Len(t) -> R]
        /\ \A i \in 1 .. Len(t) : n[i].do = t[i]
    BY <1>1, <1>2
  <1> HIDE DEF R
  <1>4. n \in Seq(R)
    BY <1>1, <1>3, SeqDef
  <1>5. Len(n) \in Nat /\ 1 .. Len(n) = 1 .. Len(t)
    BY <1>3, <1>4, LenProperties
  <1>6. Len(n) = Len(t)
    BY <1>1, <1>5
  <1> QED BY <1>3, <1>4, <1>6 DEF t, n, R

LEMMA NumberedRefused ==
    ASSUME NEW k \in 1 .. 8, k # 3 PROVE Numbered(k) \in Seq(RefusedCalls)
  <1>1. Tests[k] \in Seq(RefusedRequests)
    BY TestsRefused DEF Tests
  <1>2. RefusedRequests \subseteq Requests
    BY DEF RefusedRequests
  <1>3. Numbered(k) \in Seq([test : Nat, do : RefusedRequests])
    BY <1>1, <1>2, NumberedIs
  <1>4. [test : Nat, do : RefusedRequests] \subseteq RefusedCalls
    BY DEF RefusedCalls, Records, RefusedRequests
  <1> QED BY <1>3, <1>4, SeqMonotonic

\* A function on the first numbers is a sequence.
LEMMA FunIsSeq ==
    ASSUME NEW T, NEW n \in Nat, NEW f \in [1 .. n -> T] PROVE f \in Seq(T) /\ Len(f) = n
  <1>1. f \in Seq(T)
    BY SeqDef
  <1>2. Len(f) \in Nat /\ 1 .. Len(f) = 1 .. n
    BY <1>1, LenProperties
  <1> QED BY <1>1, <1>2

\* The calls of err_open_lots.
LEMMA LotsFacts ==
    /\ NumLots \in Nat /\ NUM_MAX_OPEN_FILES \in Nat /\ NUM_MAX_OPEN_FILES > 3
    /\ NumLots = 2 * NUM_MAX_OPEN_FILES - 2
    /\ Lots \in Seq(Records) /\ Len(Lots) = NumLots
    /\ \A i \in 1 .. NUM_MAX_OPEN_FILES - 1 : Lots[i].do = Request("open_lots", ".")
    /\ \A i \in NUM_MAX_OPEN_FILES .. NumLots - 1 :
          Lots[i].do = Request("close_lots", i - NUM_MAX_OPEN_FILES + 2)
    /\ Lots[NumLots].do = Request("count", 1)
  <1> DEFINE n == NUM_MAX_OPEN_FILES - 1
             a == [i \in 1 .. n |-> Request("open_lots", ".")]
             b == [i \in 1 .. n - 1 |-> Request("close_lots", 2 + i - 1)]
             c == <<Request("count", 1)>>
  <1>1. NUM_MAX_OPEN_FILES = n + 1 /\ n \in Nat /\ n > 2 /\ NumLots = 2 * n /\ n - 1 \in Nat
    BY FilesAssumption, ImageAssumption DEF NumLots
  <1>2. err_open_lots = (a \o b) \o c
    <2>1. n - 1 = n - 2 + 1
      BY <1>1
    <2>2. OnEach("close_lots", 2, NUM_MAX_OPEN_FILES - 1) = b
      BY <2>1 DEF OnEach, Request
    <2>3. Call("count", 1) = c
      BY DEF Call, Request
    <2> QED BY <2>2, <2>3 DEF err_open_lots, Request
  <1>3. /\ Request("open_lots", ".") \in Requests /\ Request("count", 1) \in Requests
        /\ \A x \in Int : Request("close_lots", x) \in Requests
    BY DEF Request, Requests, CallNames, Targets
  <1>4. \A i \in 1 .. n - 1 : 2 + i - 1 \in Int
    BY <1>1
  <1>5. a \in [1 .. n -> Requests] /\ b \in [1 .. n - 1 -> Requests] /\ c \in Seq(Requests) /\ Len(c) = 1
    BY <1>1, <1>3, <1>4
  <1>6. /\ \A i \in 1 .. n : a[i] = Request("open_lots", ".")
        /\ \A i \in 1 .. n - 1 : b[i] = Request("close_lots", 2 + i - 1)
        /\ c[1] = Request("count", 1)
    OBVIOUS
  <1> HIDE DEF n, a, b, c
  <1>7. a \in Seq(Requests) /\ b \in Seq(Requests) /\ Len(a) = n /\ Len(b) = n - 1
    BY <1>1, <1>5, FunIsSeq
  <1>8. /\ a \o b \in Seq(Requests) /\ Len(a \o b) = Len(a) + Len(b)
        /\ \A i \in 1 .. Len(a) + Len(b) : (a \o b)[i] = IF i <= Len(a) THEN a[i] ELSE b[i - Len(a)]
    BY <1>7, ConcatProperties
  <1> DEFINE ab == a \o b
  <1>9. /\ ab \in Seq(Requests) /\ Len(ab) = n + (n - 1)
        /\ \A i \in 1 .. n + (n - 1) : ab[i] = IF i <= n THEN a[i] ELSE b[i - n]
    BY <1>7, <1>8
  <1> HIDE DEF ab
  <1>10. /\ ab \o c \in Seq(Requests) /\ Len(ab \o c) = Len(ab) + Len(c)
         /\ \A i \in 1 .. Len(ab) + Len(c) : (ab \o c)[i] = IF i <= Len(ab) THEN ab[i] ELSE c[i - Len(ab)]
    BY <1>5, <1>9, ConcatProperties
  <1> DEFINE t == err_open_lots
  <1>11. /\ t \in Seq(Requests) /\ Len(t) = NumLots
         /\ \A i \in 1 .. NumLots : t[i] = IF i <= NumLots - 1 THEN ab[i] ELSE c[i - (NumLots - 1)]
    <2>1. t = ab \o c /\ Len(ab) = NumLots - 1 /\ Len(ab) + Len(c) = NumLots
      BY <1>1, <1>2, <1>5, <1>9 DEF ab
    <2> QED BY <1>10, <2>1
  <1> HIDE DEF t
  <1>12. Tests[3] = t
    BY DEF Tests, t
  <1>13. /\ Lots \in Seq([test : Nat, do : Requests]) /\ Len(Lots) = NumLots
         /\ \A i \in 1 .. NumLots : Lots[i].do = t[i]
    BY <1>11, <1>12, NumberedIs DEF Lots
  <1>14. \A i \in 1 .. n : Lots[i].do = Request("open_lots", ".")
    <2> TAKE i \in 1 .. n
    <2>1. i \in 1 .. NumLots /\ i <= NumLots - 1 /\ i \in 1 .. n + (n - 1) /\ i <= n
      BY <1>1
    <2> QED BY <1>6, <1>9, <1>11, <1>13, <2>1
  <1>15. \A i \in n + 1 .. NumLots - 1 : Lots[i].do = Request("close_lots", i - (n + 1) + 2)
    <2> TAKE i \in n + 1 .. NumLots - 1
    <2>1. /\ i \in 1 .. NumLots /\ i <= NumLots - 1 /\ i \in 1 .. n + (n - 1) /\ ~(i <= n)
          /\ i - n \in 1 .. n - 1 /\ 2 + (i - n) - 1 = i - (n + 1) + 2
      BY <1>1
    <2>2. t[i] = b[i - n]
      BY <1>9, <1>11, <2>1
    <2> QED BY <1>6, <1>13, <2>1, <2>2
  <1>16. Lots[NumLots].do = Request("count", 1)
    <2>1. NumLots \in 1 .. NumLots /\ ~(NumLots <= NumLots - 1) /\ NumLots - (NumLots - 1) = 1
      BY <1>1
    <2> QED BY <1>6, <1>11, <1>13, <2>1
  <1>17. NumLots \in Nat /\ NumLots = 2 * NUM_MAX_OPEN_FILES - 2
    BY <1>1
  <1> QED BY <1>1, <1>13, <1>14, <1>15, <1>16, <1>17 DEF n, Records

\* The first element of a concatenation, and the rest.
LEMMA HeadTailConcat ==
    ASSUME NEW T, NEW s \in Seq(T), NEW u \in Seq(T), s # <<>>
    PROVE  s \o u # <<>> /\ Head(s \o u) = Head(s) /\ Tail(s \o u) = Tail(s) \o u
  <1>1. Len(s) \in Nat \ {0} /\ Len(u) \in Nat
    BY EmptySeq, LenProperties
  <1>2. /\ s \o u \in Seq(T) /\ Len(s \o u) = Len(s) + Len(u)
        /\ \A i \in 1 .. Len(s) + Len(u) : (s \o u)[i] = IF i <= Len(s) THEN s[i] ELSE u[i - Len(s)]
    BY ConcatProperties
  <1> DEFINE w == s \o u
  <1>3. w # <<>>
    BY <1>1, <1>2, EmptySeq
  <1>4. /\ Head(w) = w[1] /\ Tail(w) \in Seq(T) /\ Len(Tail(w)) = Len(w) - 1
        /\ \A i \in 1 .. Len(w) - 1 : Tail(w)[i] = w[i + 1]
    BY <1>1, <1>2, <1>3
  <1>5. /\ Head(s) = s[1] /\ Tail(s) \in Seq(T) /\ Len(Tail(s)) = Len(s) - 1
        /\ \A i \in 1 .. Len(s) - 1 : Tail(s)[i] = s[i + 1]
    BY <1>1
  <1> DEFINE x == Tail(s) \o u
             y == Tail(w)
  <1>6. /\ x \in Seq(T) /\ Len(x) = Len(s) - 1 + Len(u)
        /\ \A i \in 1 .. Len(s) - 1 + Len(u) :
              x[i] = IF i <= Len(s) - 1 THEN Tail(s)[i] ELSE u[i - (Len(s) - 1)]
    BY <1>5, ConcatProperties
  <1>7. /\ y \in Seq(T) /\ Len(y) = Len(s) - 1 + Len(u)
        /\ \A i \in 1 .. Len(s) - 1 + Len(u) : y[i] = w[i + 1]
    BY <1>1, <1>2, <1>4
  <1>8. Head(w) = Head(s)
    BY <1>1, <1>2, <1>4, <1>5
  <1>9. \A i \in 1 .. Len(s) - 1 + Len(u) : x[i] = y[i]
    <2> TAKE i \in 1 .. Len(s) - 1 + Len(u)
    <2>1. i + 1 \in 1 .. Len(s) + Len(u) /\ (i <= Len(s) - 1 <=> i + 1 <= Len(s))
          /\ i + 1 - Len(s) = i - (Len(s) - 1) /\ (i <= Len(s) - 1 => i \in 1 .. Len(s) - 1)
      BY <1>1
    <2>2. y[i] = w[i + 1]
      BY <1>7
    <2>3. w[i + 1] = IF i + 1 <= Len(s) THEN s[i + 1] ELSE u[i + 1 - Len(s)]
      BY <1>2, <2>1
    <2>4. x[i] = IF i <= Len(s) - 1 THEN Tail(s)[i] ELSE u[i - (Len(s) - 1)]
      BY <1>6
    <2> HIDE DEF x, y, w
    <2> QED BY <1>5, <2>1, <2>2, <2>3, <2>4
  <1> HIDE DEF x, y
  <1>10. x = y
    BY <1>6, <1>7, <1>9, SeqEqual
  <1> QED BY <1>3, <1>8, <1>10 DEF x, y

\* What is left of a script, and its next call.
ToDo(r1, j, r2) == r1 \o SubSeq(Lots, j + 1, NumLots) \o r2

LEMMA RestIs ==
    ASSUME NEW j \in 0 .. NumLots
    PROVE  /\ SubSeq(Lots, j + 1, NumLots) \in Seq(Records)
           /\ j = NumLots => SubSeq(Lots, j + 1, NumLots) = <<>>
           /\ j = 0 => SubSeq(Lots, j + 1, NumLots) = Lots
           /\ j < NumLots => /\ SubSeq(Lots, j + 1, NumLots) # <<>>
                             /\ Head(SubSeq(Lots, j + 1, NumLots)) = Lots[j + 1]
                             /\ Tail(SubSeq(Lots, j + 1, NumLots)) = SubSeq(Lots, j + 2, NumLots)
  <1>1. NumLots \in Nat /\ Lots \in Seq(Records) /\ Len(Lots) = NumLots
    BY LotsFacts
  <1>2. j + 1 \in Int /\ NumLots \in Int /\ \A i \in j + 1 .. NumLots : i \in 1 .. Len(Lots)
    BY <1>1
  <1>3. \A i \in j + 1 .. NumLots : Lots[i] \in Records
    BY <1>1, <1>2, ElementOfSeq
  <1>4. SubSeq(Lots, j + 1, NumLots) \in Seq(Records)
        /\ Len(SubSeq(Lots, j + 1, NumLots)) = IF j + 1 <= NumLots THEN NumLots - (j + 1) + 1 ELSE 0
    BY <1>2, <1>3, SubSeqProperties
  <1>5. j = NumLots => SubSeq(Lots, j + 1, NumLots) = <<>>
    BY <1>1, <1>2, SubSeqEmpty
  <1>6. j = 0 => SubSeq(Lots, j + 1, NumLots) = Lots
    BY <1>1, SubSeqFull
  <1>7. ASSUME j < NumLots
        PROVE  /\ SubSeq(Lots, j + 1, NumLots) # <<>>
               /\ Head(SubSeq(Lots, j + 1, NumLots)) = Lots[j + 1]
               /\ Tail(SubSeq(Lots, j + 1, NumLots)) = SubSeq(Lots, j + 2, NumLots)
    <2>1. j + 1 \in 1 .. Len(Lots) /\ NumLots \in j + 1 .. Len(Lots) /\ j + 1 + 1 = j + 2
      BY <1>1, <1>7
    <2>2. Len(SubSeq(Lots, j + 1, NumLots)) > 0
      BY <1>1, <1>4, <1>7
    <2>3. SubSeq(Lots, j + 1, NumLots) # <<>>
      <3>1. PICK q : q = SubSeq(Lots, j + 1, NumLots)
        OBVIOUS
      <3>2. Len(q) > 0
        BY <2>2, <3>1
      <3>3. q # <<>>
        BY <3>2
      <3> QED BY <3>1, <3>3
    <2> QED BY <1>1, <2>1, <2>3, HeadTailOfSubSeq
  <1> QED BY <1>4, <1>5, <1>6, <1>7

LEMMA ToDoIs ==
    ASSUME NEW r1 \in Seq(RefusedCalls), NEW r2 \in Seq(RefusedCalls), NEW j \in 0 .. NumLots
    PROVE  /\ ToDo(r1, j, r2) \in Seq(Records)
           /\ r1 # <<>> => /\ ToDo(r1, j, r2) # <<>> /\ Head(ToDo(r1, j, r2)) = Head(r1)
                           /\ Tail(ToDo(r1, j, r2)) = ToDo(Tail(r1), j, r2)
           /\ r1 = <<>> /\ j < NumLots =>
                 /\ ToDo(r1, j, r2) # <<>> /\ Head(ToDo(r1, j, r2)) = Lots[j + 1]
                 /\ Tail(ToDo(r1, j, r2)) = ToDo(<<>>, j + 1, r2)
           /\ r1 = <<>> /\ j = NumLots => ToDo(r1, j, r2) = r2
  <1> DEFINE m == SubSeq(Lots, j + 1, NumLots)
  <1>1. RefusedCalls \subseteq Records
    BY DEF RefusedCalls
  <1>2. r1 \in Seq(Records) /\ r2 \in Seq(Records)
    BY <1>1, SeqMonotonic
  <1>3. m \in Seq(Records)
    BY RestIs
  <1>4. m \o r2 \in Seq(Records) /\ r1 \o m \in Seq(Records)
    BY <1>2, <1>3, ConcatIs
  <1>5. ToDo(r1, j, r2) = (r1 \o m) \o r2
    BY DEF ToDo
  <1>6. ToDo(r1, j, r2) \in Seq(Records)
    BY <1>2, <1>4, <1>5, ConcatIs
  <1>7. ASSUME r1 # <<>>
        PROVE  /\ ToDo(r1, j, r2) # <<>> /\ Head(ToDo(r1, j, r2)) = Head(r1)
               /\ Tail(ToDo(r1, j, r2)) = ToDo(Tail(r1), j, r2)
    <2> HIDE DEF m
    <2>1. r1 \o m # <<>> /\ Head(r1 \o m) = Head(r1) /\ Tail(r1 \o m) = Tail(r1) \o m
      BY <1>2, <1>3, <1>7, HeadTailConcat
    <2>2. /\ (r1 \o m) \o r2 # <<>> /\ Head((r1 \o m) \o r2) = Head(r1 \o m)
          /\ Tail((r1 \o m) \o r2) = Tail(r1 \o m) \o r2
      BY <1>2, <1>4, <2>1, HeadTailConcat
    <2>3. ToDo(Tail(r1), j, r2) = (Tail(r1) \o m) \o r2
      BY DEF ToDo, m
    <2> QED BY <1>5, <2>1, <2>2, <2>3
  <1>8. ASSUME r1 = <<>>, j < NumLots
        PROVE  /\ ToDo(r1, j, r2) # <<>> /\ Head(ToDo(r1, j, r2)) = Lots[j + 1]
               /\ Tail(ToDo(r1, j, r2)) = ToDo(<<>>, j + 1, r2)
    <2> DEFINE k == SubSeq(Lots, j + 2, NumLots)
    <2>1. j + 1 \in 0 .. NumLots /\ j + 1 + 1 = j + 2
      BY <1>8, LotsFacts
    <2>2. k \in Seq(Records)
      BY <2>1, RestIs
    <2>3. m # <<>> /\ Head(m) = Lots[j + 1] /\ Tail(m) = k
      BY <1>8, RestIs
    <2>4. ToDo(<<>>, j + 1, r2) = (<<>> \o k) \o r2
      BY <2>1 DEF ToDo
    <2> HIDE DEF m, k
    <2>5. <<>> \o k = k /\ r1 \o m = m
      BY <1>3, <1>8, <2>2, ConcatEmptySeq
    <2>6. m \o r2 # <<>> /\ Head(m \o r2) = Head(m) /\ Tail(m \o r2) = Tail(m) \o r2
      BY <1>2, <1>3, <2>3, HeadTailConcat
    <2> QED BY <1>5, <2>3, <2>4, <2>5, <2>6
  <1>9. ASSUME r1 = <<>>, j = NumLots PROVE ToDo(r1, j, r2) = r2
    <2>1. m = <<>>
      BY <1>9, RestIs
    <2> HIDE DEF m
    <2>2. r1 \o m = <<>>
      BY <1>3, <1>9, <2>1, ConcatEmptySeq
    <2> QED BY <1>2, <1>5, <2>2, ConcatEmptySeq
  <1> QED BY <1>6, <1>7, <1>8, <1>9

LEMMA LotsNext ==
    ASSUME NEW r2 \in Seq(RefusedCalls), NEW j \in 0 .. NumLots, j < NumLots, NEW t, t = ToDo(<<>>, j, r2)
    PROVE  Head(t) = Lots[j + 1] /\ Tail(t) = ToDo(<<>>, j + 1, r2) /\ Tail(t) \in Seq(Records)
  <1>1. <<>> \in Seq(RefusedCalls)
    OBVIOUS
  <1>2. t \in Seq(Records) /\ t # <<>> /\ Head(t) = Lots[j + 1] /\ Tail(t) = ToDo(<<>>, j + 1, r2)
    BY <1>1, ToDoIs
  <1>3. Tail(t) \in Seq(Records)
    BY <1>2, HeadTailProperties
  <1> QED BY <1>2, <1>3

\* Nothing is open before the calls of err_open_lots and after them.
LEMMA LotsEnds ==
    ASSUME NEW F, NEW cnt
    PROVE  /\ NoneOpen(F) /\ cnt = 0 => LotsAt(0, cnt, F)
           /\ NoneOpen(F) <=> LotsAt(NumLots, cnt, F)
           /\ LotsAt(0, cnt, F) => NoneOpen(F) /\ cnt = 0
  <1>1. /\ Fds = 0 .. NUM_MAX_OPEN_FILES - 1 /\ NUM_MAX_OPEN_FILES \in Nat /\ NUM_MAX_OPEN_FILES > 3
        /\ NumLots = 2 * NUM_MAX_OPEN_FILES - 2
    BY LotsFacts DEF Fds
  <1>2. 0 <= NUM_MAX_OPEN_FILES - 2 /\ \A fd \in Fds : fd >= 2 => ~(fd <= 0 + 1)
    BY <1>1
  <1>3. /\ ~(NumLots <= NUM_MAX_OPEN_FILES - 2) /\ ~(NumLots < NumLots)
        /\ \A fd \in Fds : ~(fd >= NumLots - NUM_MAX_OPEN_FILES + 3)
    BY <1>1
  <1>4. NoneOpen(F) /\ cnt = 0 => LotsAt(0, cnt, F)
    BY <1>2 DEF NoneOpen, LotsAt
  <1>5. LotsAt(0, cnt, F) => NoneOpen(F) /\ cnt = 0
    BY <1>2 DEF NoneOpen, LotsAt
  <1>6. NoneOpen(F) <=> LotsAt(NumLots, cnt, F)
    BY <1>3 DEF NoneOpen, LotsAt
  <1> QED BY <1>4, <1>5, <1>6

Cat(s, t) == s \o t

LEMMA Regroup ==
    ASSUME NEW T, NEW x \in Seq(T), NEW a \in Seq(T), NEW b \in Seq(T), NEW y, NEW z, NEW w,
           y = Cat(x, a), z = Cat(a, b), w = Cat(y, b)
    PROVE  w = Cat(x, z)
  BY ConcatAssociative DEF Cat

LEMMA TodoIs ==
    ASSUME NEW r1 \in Seq(RefusedCalls), NEW r2 \in Seq(RefusedCalls), NEW j \in 0 .. NumLots,
           NEW cnt, NEW F, LotsAt(j, cnt, F), r1 # <<>> => j = 0
    PROVE  TodoOK(ToDo(r1, j, r2), cnt, F)
  BY DEF TodoOK, ToDo

\* The calls of the test that is chosen, or of all.
LEMMA ScriptOK ==
    ASSUME NEW select \in 0 .. 9, NEW F, NoneOpen(F)
    PROVE  Script(select) \in Seq(Records) /\ TodoOK(Script(select), 0, F)
  <1>1. DOMAIN Tests = 1 .. 8
    BY DEF Tests
  <1>2. <<>> \in Seq(RefusedCalls) /\ 0 \in 0 .. NumLots /\ NumLots \in 0 .. NumLots
    BY LotsFacts
  <1>3. LotsAt(0, 0, F) /\ LotsAt(NumLots, 0, F)
    BY LotsEnds
  <1>4. ASSUME NEW r1 \in Seq(RefusedCalls), NEW j \in {0, NumLots}, NEW r2 \in Seq(RefusedCalls),
               r1 # <<>> => j = 0, Script(select) = ToDo(r1, j, r2)
        PROVE  Script(select) \in Seq(Records) /\ TodoOK(Script(select), 0, F)
    BY <1>2, <1>3, <1>4, ToDoIs, TodoIs
  <1>5. CASE select = 0
    <2> DEFINE r1 == Numbered(1) \o Numbered(2)
               s5 == Numbered(4) \o Numbered(5)
               s6 == s5 \o Numbered(6)
               s7 == s6 \o Numbered(7)
               s8 == s7 \o Numbered(8)
               x  == r1 \o Numbered(3)
               x4 == x \o Numbered(4)
               x5 == x4 \o Numbered(5)
               x6 == x5 \o Numbered(6)
               x7 == x6 \o Numbered(7)
               x8 == x7 \o Numbered(8)
    <2>1. /\ Numbered(1) \in Seq(RefusedCalls) /\ Numbered(2) \in Seq(RefusedCalls)
          /\ Numbered(4) \in Seq(RefusedCalls) /\ Numbered(5) \in Seq(RefusedCalls)
          /\ Numbered(6) \in Seq(RefusedCalls) /\ Numbered(7) \in Seq(RefusedCalls)
          /\ Numbered(8) \in Seq(RefusedCalls)
      BY NumberedRefused
    <2>2. r1 \in Seq(RefusedCalls)
      BY <2>1, ConcatIs
    <2>3. s5 \in Seq(RefusedCalls)
      BY <2>1, ConcatIs
    <2> HIDE DEF s5
    <2>4. s6 \in Seq(RefusedCalls)
      BY <2>1, <2>3, ConcatIs
    <2> HIDE DEF s6
    <2>5. s7 \in Seq(RefusedCalls)
      BY <2>1, <2>4, ConcatIs
    <2> HIDE DEF s7
    <2>6. s8 \in Seq(RefusedCalls)
      BY <2>1, <2>5, ConcatIs
    <2> HIDE DEF s8, r1
    <2>7. RefusedCalls \subseteq Records
      BY DEF RefusedCalls
    <2>8. /\ r1 \in Seq(Records) /\ s5 \in Seq(Records) /\ s6 \in Seq(Records) /\ s7 \in Seq(Records)
          /\ Numbered(4) \in Seq(Records) /\ Numbered(5) \in Seq(Records)
          /\ Numbered(6) \in Seq(Records) /\ Numbered(7) \in Seq(Records)
          /\ Numbered(8) \in Seq(Records)
      BY <2>1, <2>2, <2>3, <2>4, <2>5, <2>7, SeqMonotonic
    <2>9. Numbered(3) \in Seq(Records) /\ Numbered(3) = SubSeq(Lots, 0 + 1, NumLots)
      BY <1>2, RestIs, LotsFacts DEF Lots
    <2>10. x \in Seq(Records)
      BY <2>8, <2>9, ConcatIs
    <2>11. AllTests = x8
      BY Zenon DEF AllTests, r1
    <2> HIDE DEF x, x4, x5, x6, x7, x8
    <2>12. x5 = Cat(x, s5)
      <3>1. s5 = Cat(Numbered(4), Numbered(5))
        BY Zenon DEF s5, Cat
      <3>2. x5 = Cat(x4, Numbered(5))
        BY Zenon DEF x5, Cat
      <3>3. x4 = Cat(x, Numbered(4))
        BY Zenon DEF x4, Cat
      <3>4. Numbered(4) \in Seq(Records) /\ Numbered(5) \in Seq(Records)
        BY <2>8
      <3> QED BY <2>10, <3>1, <3>2, <3>3, <3>4, Regroup
    <2>13. x6 = Cat(x, s6)
      <3>1. s6 = Cat(s5, Numbered(6))
        BY Zenon DEF s6, Cat
      <3>2. x6 = Cat(x5, Numbered(6))
        BY Zenon DEF x6, Cat
      <3>3. x5 = Cat(x, s5)
        BY Zenon, <2>12
      <3>4. s5 \in Seq(Records) /\ Numbered(6) \in Seq(Records)
        BY <2>8
      <3> QED BY <2>10, <3>1, <3>2, <3>3, <3>4, Regroup
    <2>14. x7 = Cat(x, s7)
      <3>1. s7 = Cat(s6, Numbered(7))
        BY Zenon DEF s7, Cat
      <3>2. x7 = Cat(x6, Numbered(7))
        BY Zenon DEF x7, Cat
      <3>3. x6 = Cat(x, s6)
        BY Zenon, <2>13
      <3>4. s6 \in Seq(Records) /\ Numbered(7) \in Seq(Records)
        BY <2>8
      <3> QED BY <2>10, <3>1, <3>2, <3>3, <3>4, Regroup
    <2>15. x8 = Cat(x, s8)
      <3>1. s8 = Cat(s7, Numbered(8))
        BY Zenon DEF s8, Cat
      <3>2. x8 = Cat(x7, Numbered(8))
        BY Zenon DEF x8, Cat
      <3>3. x7 = Cat(x, s7)
        BY Zenon, <2>14
      <3>4. s7 \in Seq(Records) /\ Numbered(8) \in Seq(Records)
        BY <2>8
      <3> QED BY <2>10, <3>1, <3>2, <3>3, <3>4, Regroup
    <2>16. Script(select) = AllTests
      BY <1>1, <1>5 DEF Script
    <2>17. Cat(x, s8) = ToDo(r1, 0, s8)
      BY <2>9, Zenon DEF x, ToDo, Cat
    <2> QED BY <1>4, <2>2, <2>6, <2>11, <2>15, <2>16, <2>17
  <1>6. CASE select = 3
    <2>1. Script(select) = Lots
      BY <1>1, <1>6 DEF Script, Lots
    <2>2. Lots = SubSeq(Lots, 0 + 1, NumLots) /\ Lots \in Seq(Records)
      BY <1>2, RestIs, LotsFacts
    <2>3. <<>> \o Lots \o <<>> = Lots
      BY <2>2, ConcatEmptySeq
    <2>4. Script(select) = ToDo(<<>>, 0, <<>>)
      BY <2>1, <2>2, <2>3 DEF ToDo
    <2> QED BY <1>2, <1>4, <2>4
  <1>7. ASSUME NEW r2 \in Seq(RefusedCalls), Script(select) = r2
        PROVE  Script(select) \in Seq(Records) /\ TodoOK(Script(select), 0, F)
    BY <1>2, <1>4, <1>7, ToDoIs
  <1>8. CASE select \in 1 .. 8 /\ select # 3
    <2>1. Script(select) = Numbered(select)
      BY <1>1, <1>8 DEF Script
    <2> QED BY <1>7, <1>8, <2>1, NumberedRefused
  <1>9. CASE select = 9
    <2>1. Script(select) = <<>>
      BY <1>1, <1>9 DEF Script
    <2> QED BY <1>2, <1>7, <2>1
  <1> QED BY <1>5, <1>6, <1>8, <1>9

\* The running program's place and what is left of its script.
Scripted(P, todo)           == [P EXCEPT !.at = "calls", !.todo = todo]
Called(P, todo, cnt, failed) == [P EXCEPT !.todo = todo, !.cnt = cnt, !.failed = failed]

LEMMA ScriptedIs ==
    ASSUME NEW P \in Progs, NEW todo \in Seq(Records), NEW Q, Q = Scripted(P, todo)
    PROVE  /\ Q \in Progs /\ SameProg(Q, P) /\ Q.at = "calls" /\ Q.todo = todo
           /\ Q.cnt = P.cnt /\ Q.failed = P.failed
  BY DEF Scripted, Progs, SameProg, Labels

LEMMA CalledIs ==
    ASSUME NEW P \in Progs, NEW todo \in Seq(Records), NEW cnt \in Nat, NEW failed \in SUBSET Nat,
           NEW Q, Q = Called(P, todo, cnt, failed)
    PROVE  /\ Q \in Progs /\ SameProg(Q, P) /\ Q.at = P.at /\ Q.todo = todo
           /\ Q.cnt = cnt /\ Q.failed = failed
  BY DEF Called, Progs, SameProg

\* syserr_main: the script of the test that the user chooses.
LEMMA SyserrMainOK == ASSUME SessionInv, syserr_main PROVE SessionInv'
  <1>1. Top.name = "syserr" /\ Top.at = "main" /\ UNCHANGED vars
    BY DEF syserr_main, Running
  <1>2. Len(Tests) + 1 = 9
    <2>1. Len(Tests) = 8
      BY DEF Tests
    <2> QED BY <2>1
  <1>3. PICK select \in 0 .. 9 : Goto(Scripted(Top, Script(select)))
    BY <1>2, Zenon DEF syserr_main, Scripted
  <1>4. /\ NoneOpen(fds[Self]) /\ call[Self] = Idle /\ directoryLoc = 0
        /\ Top.failed = {} /\ Top.cnt = 0
    BY <1>1, MainCase DEF AtMain, Fresh
  <1>5. Top \in Progs
    BY ChainFacts DEF SessionInv
  <1>6. PICK todo \in Seq(Records) : todo = Script(select) /\ TodoOK(todo, 0, fds[Self])
    BY <1>4, ScriptOK
  <1>7. PICK Q : Q = Scripted(Top, todo)
    OBVIOUS
  <1>8. /\ Q \in Progs /\ SameProg(Q, Top) /\ Q.at = "calls" /\ Q.todo = todo
        /\ Q.cnt = 0 /\ Q.failed = {}
    BY <1>4, <1>5, <1>7, ScriptedIs
  <1>9. Goto(Q)
    BY <1>3, <1>6, <1>7
  <1>10. fds' = fds /\ seen' = seen /\ call' = call /\ directoryLoc' = directoryLoc /\ StepOf(Self)
    BY <1>1, QuietFacts
  <1>11. ProgramOK(Q, fds'[Self], seen'[Self], call'[Self], directoryLoc')
    BY <1>1, <1>4, <1>6, <1>8, <1>10 DEF ProgramOK, Calling, SameProg
  <1> QED BY <1>8, <1>9, <1>10, <1>11, GoOn DEF SameProg

LEMMA SyserrCase ==
    ASSUME SessionInv, Running("syserr", "calls")
    PROVE  Calling(Top, fds[Self], call[Self], directoryLoc)
  BY DEF SessionInv, ProgramOK, AtMain, Fresh, Exiting, Running

\* A step of syserr that is refused nothing it expects to get.
LEMMA CallGoesOn ==
    ASSUME SessionInv, Running("syserr", "calls"), StepOf(Self), NEW todo \in Seq(Records), NEW cnt \in Nat,
           Goto(Called(Top, todo, cnt, {})), TodoOK(todo, cnt, fds'[Self]),
           call'[Self] = Idle, directoryLoc' = 0
    PROVE  SessionInv'
  <1>1. Top \in Progs
    BY ChainFacts DEF SessionInv
  <1>2. PICK Q : Q = Called(Top, todo, cnt, {})
    OBVIOUS
  <1>3. {} \in SUBSET Nat
    OBVIOUS
  <1>4. /\ Q \in Progs /\ SameProg(Q, Top) /\ Q.at = Top.at /\ Q.todo = todo
        /\ Q.cnt = cnt /\ Q.failed = {}
    BY <1>1, <1>2, <1>3, CalledIs
  <1>5. Top.at = "calls" /\ Top.name = "syserr"
    BY DEF Running
  <1>6. ProgramOK(Q, fds'[Self], seen'[Self], call'[Self], directoryLoc')
    BY <1>4, <1>5 DEF ProgramOK, Calling, SameProg
  <1>7. Goto(Q)
    BY <1>2
  <1> QED BY <1>4, <1>6, <1>7, GoOn DEF SameProg

\* A process that has opened nothing is refused the refused calls.
LEMMA RefusedFails ==
    ASSUME FdInv, Self \in Procs, NoneOpen(fds[Self]), NEW c \in RefusedRequests
    PROVE  ~Succeeds(c) /\ c.call \notin {"open_lots", "close_lots", "count"}
  <1>1. RefusedAs(c.call, c.on)
    BY DEF RefusedRequests, Refused
  <1>2. /\ 0 \in Fds /\ 1 \in Fds /\ fds[Self][0] = NewFds[0] /\ fds[Self][1] = NewFds[1]
    BY LotsFacts DEF FdInv, StdOK, Fds
  <1>3. fds[Self][0].ops = "stdin" /\ fds[Self][1].ops = "stdout"
    BY <1>2, NewFdsFlags
  <1>4. Fds \subseteq Nat
    BY ConstantFacts
  <1>5. \A x : InTable(x) => x = 0 \/ x = 1
    <2> SUFFICES ASSUME NEW x, InTable(x) PROVE x = 0 \/ x = 1
      OBVIOUS
    <2>1. x \in Fds /\ x \in Nat /\ ~(x >= 2)
      BY <1>4 DEF InTable, NoneOpen, IsOpen
    <2> QED BY <2>1
  <1>6. ~CanRead(c.on) \/ c.on = 0
    BY <1>3, <1>5 DEF CanRead
  <1>7. ~CanWrite(c.on) \/ c.on = 1
    BY <1>3, <1>5 DEF CanWrite
  <1>8. ~Closes(c.on)
    BY <1>5 DEF Closes
  <1>9. c.call \in {"open", "close", "read", "write", "vidmap", "int80"}
    BY <1>1 DEF RefusedAs
  <1>10. ~Succeeds(c)
    <2>1. CASE c.call = "open"
      BY <1>1, <2>1 DEF RefusedAs, Succeeds
    <2>2. CASE c.call = "close"
      BY <1>8, <2>2 DEF Succeeds
    <2>3. CASE c.call = "read"
      BY <1>1, <1>6, <2>3 DEF RefusedAs, Succeeds
    <2>4. CASE c.call = "write"
      BY <1>1, <1>7, <2>4 DEF RefusedAs, Succeeds
    <2>5. CASE c.call = "vidmap"
      BY <1>1, <2>5 DEF RefusedAs, Succeeds
    <2>6. CASE c.call = "int80"
      BY <1>1, <2>6 DEF RefusedAs, Succeeds
    <2> QED BY <1>9, <2>1, <2>2, <2>3, <2>4, <2>5, <2>6
  <1> QED BY <1>9, <1>10

\* A call of syserr, seen as its effect and what it leaves of the script.
LEMMA CallCases ==
    ASSUME SessionInv, syserr_call, NEW c, c = Head(Top.todo).do
    PROVE  /\ Running("syserr", "calls") /\ Top.todo # <<>> /\ Effect(c)
           /\ c.call = "open_lots" /\ ~Succeeds(c) => Goto(Called(Top, Tail(Top.todo), Top.cnt + 1, {}))
           /\ c.call # "open_lots" /\ ~Succeeds(c) => Goto(Called(Top, Tail(Top.todo), Top.cnt, {}))
           /\ c.call \in {"open_lots", "close_lots"} /\ Succeeds(c) =>
                 Goto(Called(Top, Tail(Top.todo), Top.cnt, {}))
  <1>1. Running("syserr", "calls") /\ Top.todo # <<>> /\ Effect(c)
    BY DEF syserr_call
  <1>2. Top.failed = {}
    BY <1>1, SyserrCase DEF Calling
  <1> DEFINE cnt    == IF c.call = "open_lots" /\ ~Succeeds(c) THEN Top.cnt + 1 ELSE Top.cnt
             failed == IF c.call \notin {"open_lots", "close_lots"} /\ Succeeds(c)
                       THEN Top.failed \cup {Head(Top.todo).test} ELSE Top.failed
  <1>3. Goto(Called(Top, Tail(Top.todo), cnt, failed))
    BY Zenon DEF syserr_call, Called
  <1>4. c.call = "open_lots" /\ ~Succeeds(c) => cnt = Top.cnt + 1 /\ failed = {}
    BY <1>2
  <1>5. c.call # "open_lots" /\ ~Succeeds(c) => cnt = Top.cnt /\ failed = {}
    BY <1>2
  <1>6. c.call \in {"open_lots", "close_lots"} /\ Succeeds(c) => cnt = Top.cnt /\ failed = {}
    BY <1>2
  <1> HIDE DEF cnt, failed
  <1> QED BY <1>1, <1>3, <1>4, <1>5, <1>6

\* A call that is refused leaves the files alone.
LEMMA RefusedQuiet ==
    ASSUME NEW c, Effect(c), ~Succeeds(c) PROVE UNCHANGED vars
  BY DEF Effect

LEMMA RequestFields ==
    ASSUME NEW name, NEW x PROVE Request(name, x).call = name /\ Request(name, x).on = x
  BY DEF Request

\* err_open_lots, one call further.
LEMMA LotsOpened ==
    ASSUME NEW j \in Nat, j < NUM_MAX_OPEN_FILES - 2, NEW cnt, NEW F, NEW G, LotsAt(j, cnt, F),
           G[j + 2].flags = "FD_AVAIL", \A f \in Fds \ {j + 2} : G[f] = F[f]
    PROVE  LotsAt(j + 1, cnt, G)
  <1>1. NUM_MAX_OPEN_FILES \in Nat /\ Fds = 0 .. NUM_MAX_OPEN_FILES - 1
    BY LotsFacts DEF Fds
  <1>2. j <= NUM_MAX_OPEN_FILES - 2 /\ j + 1 <= NUM_MAX_OPEN_FILES - 2
    BY <1>1
  <1>3. cnt = 0 /\ \A fd \in Fds : fd >= 2 => (F[fd].flags = "FD_AVAIL" <=> fd <= j + 1)
    BY <1>2 DEF LotsAt
  <1>4. \A fd \in Fds : fd >= 2 => (G[fd].flags = "FD_AVAIL" <=> fd <= j + 1 + 1)
    BY <1>1, <1>3
  <1> QED BY <1>2, <1>3, <1>4 DEF LotsAt

LEMMA LotsFull ==
    ASSUME NEW F, LotsAt(NUM_MAX_OPEN_FILES - 2, 0, F) PROVE LotsAt(NUM_MAX_OPEN_FILES - 1, 1, F)
  <1>1. /\ NUM_MAX_OPEN_FILES \in Nat /\ Fds = 0 .. NUM_MAX_OPEN_FILES - 1
    BY LotsFacts DEF Fds
  <1>2. /\ NUM_MAX_OPEN_FILES - 2 <= NUM_MAX_OPEN_FILES - 2
        /\ ~(NUM_MAX_OPEN_FILES - 1 <= NUM_MAX_OPEN_FILES - 2)
    BY <1>1
  <1>3. \A fd \in Fds : fd >= 2 => (F[fd].flags = "FD_AVAIL" <=> fd <= NUM_MAX_OPEN_FILES - 2 + 1)
    BY <1>2 DEF LotsAt
  <1>4. \A fd \in Fds : fd >= 2 =>
           (F[fd].flags = "FD_AVAIL" <=> fd >= (NUM_MAX_OPEN_FILES - 1) - NUM_MAX_OPEN_FILES + 3)
    BY <1>1, <1>3
  <1> QED BY <1>2, <1>4 DEF LotsAt

LEMMA LotsClosed ==
    ASSUME NEW j \in Nat, j >= NUM_MAX_OPEN_FILES - 1, j < NumLots, NEW cnt, NEW F, NEW G,
           LotsAt(j, cnt, F),
           j < NumLots - 1 => /\ G[j - NUM_MAX_OPEN_FILES + 3].flags # "FD_AVAIL"
                              /\ \A f \in Fds \ {j - NUM_MAX_OPEN_FILES + 3} : G[f] = F[f],
           j = NumLots - 1 => G = F
    PROVE  LotsAt(j + 1, cnt, G) /\ cnt = 1
  <1>1. /\ NUM_MAX_OPEN_FILES \in Nat /\ NUM_MAX_OPEN_FILES > 3 /\ Fds = 0 .. NUM_MAX_OPEN_FILES - 1
        /\ NumLots = 2 * NUM_MAX_OPEN_FILES - 2
    BY LotsFacts DEF Fds
  <1>2. ~(j <= NUM_MAX_OPEN_FILES - 2) /\ ~(j + 1 <= NUM_MAX_OPEN_FILES - 2)
    BY <1>1
  <1>3. cnt = 1 /\ \A fd \in Fds : fd >= 2 => (F[fd].flags = "FD_AVAIL" <=> fd >= j - NUM_MAX_OPEN_FILES + 3)
    BY <1>2 DEF LotsAt
  <1>4. \A fd \in Fds : fd >= 2 =>
           (G[fd].flags = "FD_AVAIL" <=> fd >= (j + 1) - NUM_MAX_OPEN_FILES + 3)
    <2>1. CASE j < NumLots - 1
      BY <1>1, <1>3, <2>1
    <2>2. CASE j = NumLots - 1
      BY <1>1, <1>3, <2>2
    <2> QED BY <1>1, <2>1, <2>2
  <1> QED BY <1>2, <1>3, <1>4 DEF LotsAt

\* The calls of err_open_lots find what they expect.
LEMMA LotsFree ==
    ASSUME NEW j \in 0 .. NUM_MAX_OPEN_FILES - 2, NEW cnt, LotsAt(j, cnt, fds[Self])
    PROVE  /\ cnt = 0
           /\ j < NUM_MAX_OPEN_FILES - 2 => j + 2 \in Fds /\ FreeFd(Self, j + 2)
           /\ j = NUM_MAX_OPEN_FILES - 2 => \A fd \in Fds : ~FreeFd(Self, fd)
  <1>1. /\ NUM_MAX_OPEN_FILES \in Nat /\ NUM_MAX_OPEN_FILES > 3 /\ Fds = 0 .. NUM_MAX_OPEN_FILES - 1
    BY LotsFacts DEF Fds
  <1>2. cnt = 0 /\ \A fd \in Fds : fd >= 2 => (IsOpen(Self, fd) <=> fd <= j + 1)
    BY <1>1 DEF LotsAt, IsOpen
  <1>3. ASSUME j < NUM_MAX_OPEN_FILES - 2 PROVE j + 2 \in Fds /\ FreeFd(Self, j + 2)
    <2>1. j + 2 \in Fds /\ j + 2 >= 2 /\ ~(j + 2 <= j + 1)
      BY <1>1, <1>3
    <2>2. \A d \in 2 .. (j + 2) - 1 : d \in Fds /\ d >= 2 /\ d <= j + 1
      BY <1>1, <1>3
    <2> QED BY <1>2, <2>1, <2>2 DEF FreeFd
  <1>4. ASSUME j = NUM_MAX_OPEN_FILES - 2, NEW fd \in Fds PROVE ~FreeFd(Self, fd)
    BY <1>1, <1>2, <1>4 DEF FreeFd
  <1> QED BY <1>2, <1>3, <1>4

\* A call that is refused to a program that holds nothing.
LEMMA RefusedOK ==
    ASSUME SessionInv, syserr_call, NoneOpen(fds[Self]), Head(Top.todo) \in RefusedCalls,
           Tail(Top.todo) \in Seq(Records), TodoOK(Tail(Top.todo), Top.cnt, fds[Self])
    PROVE  SessionInv'
  <1>1. PICK c : c = Head(Top.todo).do
    OBVIOUS
  <1>2. c \in RefusedRequests
    BY <1>1 DEF RefusedCalls, RefusedRequests, Records
  <1>3. FdInv /\ Self \in Procs /\ Top \in Progs
    BY ChainFacts DEF SessionInv
  <1>4. ~Succeeds(c) /\ c.call # "open_lots"
    BY <1>2, <1>3, RefusedFails
  <1>5. Running("syserr", "calls") /\ Effect(c) /\ Goto(Called(Top, Tail(Top.todo), Top.cnt, {}))
    BY <1>1, <1>4, CallCases
  <1>6. fds' = fds /\ call' = call /\ directoryLoc' = directoryLoc /\ StepOf(Self)
    BY <1>4, <1>5, RefusedQuiet, QuietFacts
  <1>7. Top.cnt \in Nat /\ call[Self] = Idle /\ directoryLoc = 0
    BY <1>3, <1>5, SyserrCase DEF Calling, Progs
  <1> QED BY <1>5, <1>6, <1>7, CallGoesOn

\* syserr_call in err_open_lots.
LEMMA LotsOK ==
    ASSUME SessionInv, syserr_call, NEW j \in 0 .. NumLots - 1, LotsAt(j, Top.cnt, fds[Self]),
           Head(Top.todo) = Lots[j + 1], Tail(Top.todo) \in Seq(Records),
           \A cnt : \A F : LotsAt(j + 1, cnt, F) => TodoOK(Tail(Top.todo), cnt, F)
    PROVE  SessionInv'
  <1>1. PICK c : c = Head(Top.todo).do
    OBVIOUS
  <1>2. FdInv /\ Self \in Procs /\ Top \in Progs
    BY ChainFacts DEF SessionInv
  <1>3. Running("syserr", "calls") /\ Effect(c)
    BY <1>1, CallCases
  <1>4. Top.cnt \in Nat /\ call[Self] = Idle /\ directoryLoc = 0
    BY <1>2, <1>3, SyserrCase DEF Calling, Progs
  <1>5. /\ NumLots \in Nat /\ NUM_MAX_OPEN_FILES \in Nat /\ NUM_MAX_OPEN_FILES > 3
        /\ NumLots = 2 * NUM_MAX_OPEN_FILES - 2 /\ Fds = 0 .. NUM_MAX_OPEN_FILES - 1
    BY LotsFacts DEF Fds
  <1>6. ASSUME NEW cnt \in Nat, Goto(Called(Top, Tail(Top.todo), cnt, {})), StepOf(Self),
               LotsAt(j + 1, cnt, fds'[Self]), call' = call, directoryLoc' = directoryLoc
        PROVE  SessionInv'
    BY <1>3, <1>4, <1>6, CallGoesOn
  <1>7. CASE j <= NUM_MAX_OPEN_FILES - 2
    <2>1. j + 1 \in 1 .. NUM_MAX_OPEN_FILES - 1 /\ j \in 0 .. NUM_MAX_OPEN_FILES - 2
      BY <1>5, <1>7
    <2>2. c = Request("open_lots", ".")
      BY <1>1, <2>1, LotsFacts
    <2>3. c.call = "open_lots" /\ c.on = "."
      BY <2>2, RequestFields
    <2>4. /\ Top.cnt = 0
          /\ j < NUM_MAX_OPEN_FILES - 2 => j + 2 \in Fds /\ FreeFd(Self, j + 2)
          /\ j = NUM_MAX_OPEN_FILES - 2 => \A fd \in Fds : ~FreeFd(Self, fd)
      BY <2>1, LotsFree
    <2>5. CASE j < NUM_MAX_OPEN_FILES - 2
      <3>1. Succeeds(c)
        BY <2>3, <2>4, <2>5, DotIsName DEF Succeeds
      <3>2. sys_open(Self, ".") /\ Goto(Called(Top, Tail(Top.todo), Top.cnt, {}))
        BY <1>1, <1>3, <2>3, <3>1, CallCases DEF Effect
      <3>3. StepOf(Self)
        BY <3>2, DotIsName DEF StepOf, Names
      <3>4. /\ fds'[Self][j + 2].flags = "FD_AVAIL"
            /\ \A f \in Fds \ {j + 2} : fds'[Self][f] = fds[Self][f]
            /\ call' = call /\ directoryLoc' = directoryLoc
        BY <1>2, <2>4, <2>5, <3>2, OpenEffect DEF OpenOn
      <3>5. LotsAt(j + 1, Top.cnt, fds'[Self])
        BY <2>5, <3>4, LotsOpened
      <3> QED BY <1>4, <1>6, <3>2, <3>3, <3>4, <3>5
    <2>6. CASE j = NUM_MAX_OPEN_FILES - 2
      <3>1. ~Succeeds(c)
        BY <2>3, <2>4, <2>6 DEF Succeeds
      <3>2. Goto(Called(Top, Tail(Top.todo), Top.cnt + 1, {}))
        BY <1>1, <2>3, <3>1, CallCases
      <3>3. fds' = fds /\ call' = call /\ directoryLoc' = directoryLoc /\ StepOf(Self)
        BY <1>3, <3>1, RefusedQuiet, QuietFacts
      <3>4. Top.cnt + 1 = 1 /\ j + 1 = NUM_MAX_OPEN_FILES - 1 /\ 1 \in Nat
        BY <1>5, <2>4, <2>6
      <3>5. LotsAt(NUM_MAX_OPEN_FILES - 1, 1, fds[Self])
        BY <2>4, <2>6, LotsFull
      <3>6. LotsAt(j + 1, 1, fds'[Self])
        BY <3>3, <3>4, <3>5
      <3> QED BY <1>6, <3>2, <3>3, <3>4, <3>6
    <2> QED BY <1>5, <1>7, <2>5, <2>6
  <1>8. CASE j >= NUM_MAX_OPEN_FILES - 1 /\ j < NumLots - 1
    <2> DEFINE fd == j - NUM_MAX_OPEN_FILES + 3
    <2>1. /\ j + 1 \in NUM_MAX_OPEN_FILES .. NumLots - 1 /\ j \in Nat /\ j < NumLots
          /\ j + 1 - NUM_MAX_OPEN_FILES + 2 = fd /\ fd \in Fds /\ fd >= 2
          /\ ~(j <= NUM_MAX_OPEN_FILES - 2) /\ fd >= fd
      BY <1>5, <1>8
    <2>2. c = Request("close_lots", fd)
      <3>1. PICK i : i = j + 1
        OBVIOUS
      <3>3. i \in NUM_MAX_OPEN_FILES .. NumLots - 1 /\ i - NUM_MAX_OPEN_FILES + 2 = fd
        BY <1>5, <1>8, <3>1
      <3>2. Lots[i].do = Request("close_lots", i - NUM_MAX_OPEN_FILES + 2)
        BY <3>3, LotsFacts
      <3> HIDE DEF fd
      <3> QED BY <1>1, <3>1, <3>3, <3>2
    <2>3. IsOpen(Self, fd)
      BY <2>1 DEF LotsAt, IsOpen
    <2>4. \A x : x = fd => x \in Fds /\ x >= 2 /\ IsOpen(Self, x)
      BY <2>1, <2>3
    <2> HIDE DEF fd
    <2>5. c.call = "close_lots" /\ c.on = fd
      BY <2>2, RequestFields
    <2>6. Succeeds(c)
      BY <2>4, <2>5 DEF Succeeds, Closes, InTable
    <2>7. sys_close(Self, fd) /\ Goto(Called(Top, Tail(Top.todo), Top.cnt, {}))
      BY <1>1, <1>3, <2>5, <2>6, CallCases DEF Effect
    <2>8. fd \in Fds /\ StepOf(Self)
      BY <2>4, <2>7 DEF StepOf
    <2>9. /\ fds'[Self][fd].flags # "FD_AVAIL" /\ \A f \in Fds \ {fd} : fds'[Self][f] = fds[Self][f]
          /\ call' = call /\ directoryLoc' = directoryLoc
      BY <1>2, <2>7, <2>8, CloseEffect
    <2>10. LotsAt(j + 1, Top.cnt, fds'[Self])
      BY <1>5, <1>8, <2>1, <2>9, LotsClosed DEF fd
    <2> QED BY <1>4, <1>6, <2>7, <2>8, <2>9, <2>10
  <1>9. CASE j = NumLots - 1
    <2>1. /\ j + 1 = NumLots /\ j >= NUM_MAX_OPEN_FILES - 1 /\ j \in Nat /\ j < NumLots
          /\ ~(j < NumLots - 1)
      BY <1>5, <1>9
    <2>2. c = Request("count", 1)
      BY <1>1, <2>1, LotsFacts
    <2>3. LotsAt(j + 1, Top.cnt, fds[Self]) /\ Top.cnt = 1
      BY <2>1, LotsClosed
    <2>4. c.call = "count" /\ c.on = 1
      BY <2>2, RequestFields
    <2>5. ~Succeeds(c)
      BY <2>3, <2>4 DEF Succeeds
    <2>6. Goto(Called(Top, Tail(Top.todo), Top.cnt, {}))
      BY <1>1, <2>4, <2>5, CallCases
    <2>7. fds' = fds /\ call' = call /\ directoryLoc' = directoryLoc /\ StepOf(Self)
      BY <1>3, <2>5, RefusedQuiet, QuietFacts
    <2> QED BY <1>4, <1>6, <2>3, <2>6, <2>7
  <1> QED BY <1>5, <1>7, <1>8, <1>9

\* syserr_call: a refused call before or after err_open_lots, or a call of it.
LEMMA SyserrCallOK == ASSUME SessionInv, syserr_call PROVE SessionInv'
  <1>1. Running("syserr", "calls") /\ Top.todo # <<>>
    BY DEF syserr_call
  <1>2. TodoOK(Top.todo, Top.cnt, fds[Self])
    BY <1>1, SyserrCase DEF Calling
  <1>3. PICK r1 \in Seq(RefusedCalls), r2 \in Seq(RefusedCalls), j \in 0 .. NumLots :
           /\ Top.todo = ToDo(r1, j, r2)
           /\ r1 # <<>> => j = 0
           /\ LotsAt(j, Top.cnt, fds[Self])
    BY <1>2 DEF TodoOK, ToDo
  <1>4. NumLots \in Nat /\ 0 \in 0 .. NumLots /\ NumLots \in 0 .. NumLots /\ <<>> \in Seq(RefusedCalls)
    BY LotsFacts
  <1>5. CASE r1 # <<>>
    <2>1. j = 0
      BY <1>3, <1>5
    <2>2. Head(Top.todo) = Head(r1) /\ Tail(Top.todo) = ToDo(Tail(r1), 0, r2)
      BY <1>3, <1>5, <2>1, ToDoIs
    <2>3. Head(r1) \in RefusedCalls /\ Tail(r1) \in Seq(RefusedCalls)
      BY <1>5, HeadTailProperties
    <2>4. NoneOpen(fds[Self]) /\ LotsAt(0, Top.cnt, fds[Self])
      BY <1>3, <2>1, LotsEnds
    <2>5. PICK r \in Seq(RefusedCalls) : r = Tail(r1)
      BY <2>3
    <2>6. ToDo(r, 0, r2) \in Seq(Records)
      BY <1>4, ToDoIs
    <2>7. TodoOK(ToDo(r, 0, r2), Top.cnt, fds[Self])
      BY <1>4, <2>4, TodoIs
    <2> QED BY <2>2, <2>3, <2>4, <2>5, <2>6, <2>7, RefusedOK
  <1>6. CASE r1 = <<>> /\ j < NumLots
    <2>1. j \in 0 .. NumLots - 1 /\ j + 1 \in 0 .. NumLots
      BY <1>4, <1>6
    <2>2. PICK t : t = Top.todo /\ t = ToDo(<<>>, j, r2)
      BY <1>3, <1>6
    <2>3. Head(t) = Lots[j + 1] /\ Tail(t) = ToDo(<<>>, j + 1, r2) /\ Tail(t) \in Seq(Records)
      BY <1>6, <2>2, LotsNext
    <2>4. \A cnt : \A F : LotsAt(j + 1, cnt, F) => TodoOK(Tail(t), cnt, F)
      BY <1>4, <2>1, <2>3, TodoIs
    <2> QED BY <1>3, <2>1, <2>2, <2>3, <2>4, LotsOK
  <1>7. CASE r1 = <<>> /\ j = NumLots
    <2>1. Top.todo = r2
      BY <1>3, <1>7, ToDoIs
    <2>2. Head(r2) \in RefusedCalls /\ Tail(r2) \in Seq(RefusedCalls)
      BY <1>1, <2>1, HeadTailProperties
    <2>3. Tail(r2) = ToDo(<<>>, NumLots, Tail(r2)) /\ ToDo(<<>>, NumLots, Tail(r2)) \in Seq(Records)
      BY <1>4, <2>2, ToDoIs
    <2>4. NoneOpen(fds[Self]) /\ LotsAt(NumLots, Top.cnt, fds[Self])
      BY <1>3, <1>7, LotsEnds
    <2>5. TodoOK(ToDo(<<>>, NumLots, Tail(r2)), Top.cnt, fds[Self])
      BY <1>4, <2>2, <2>4, TodoIs
    <2> QED BY <2>1, <2>2, <2>3, <2>4, <2>5, RefusedOK
  <1> QED BY <1>4, <1>5, <1>6, <1>7

\* syserr_end: no test failed.
LEMMA SyserrEndOK == ASSUME SessionInv, syserr_end PROVE SessionInv'
  <1>1. Running("syserr", "calls") /\ UNCHANGED vars
    BY DEF syserr_end
  <1>2. Top.name = "syserr" /\ Top.failed = {} /\ call[Self] = Idle /\ directoryLoc = 0
    BY <1>1, SyserrCase DEF Calling, Running
  <1>3. 2 * Cardinality(Top.failed) = 0
    <2>1. Cardinality({}) = 0
      BY FS_EmptySet
    <2> QED BY <1>2, <2>1
  <1>4. Goto(Exit(Top, 0))
    BY <1>3 DEF syserr_end
  <1>5. Word(Top.line, 1) = "syserr" /\ Word(Top.line, 1) \in Executables
    BY <1>2, StartedOther
  <1>6. Expected(Top.line) = 0
    BY <1>5, ExpectedIs
  <1>7. Printed(Top.line, Top.wrote)
    BY <1>5 DEF Printed
  <1>8. call'[Self] = Idle /\ directoryLoc' = 0 /\ StepOf(Self)
    BY <1>1, <1>2, QuietFacts
  <1> QED BY <1>2, <1>4, <1>6, <1>7, <1>8, StopOK

-----------------------------------------------------------------------------
(***************************************************************************)
(* The invariant holds throughout.                                          *)
(***************************************************************************)
LEMMA SessionInvInit == SessionInit => SessionInv
  <1> SUFFICES ASSUME SessionInit PROVE SessionInv
    OBVIOUS
  <1>1. Init /\ chain = <<Shell>> /\ last = NoReport
    BY DEF SessionInit
  <1>2. Len(chain) = 1 /\ chain[1] = Shell /\ Top = Shell /\ Self = 0
    BY <1>1 DEF Top, Self
  <1>3. FdInv
    <2>1. \A p \in Procs : StdOK(p)
      BY <1>1, NewFdsFlags DEF Init, StdOK
    <2> QED BY <1>1, <2>1, FileInvInit DEF FdInv
  <1>4. NUM_MAX_PROCESSES \in Nat \ {0} /\ 0 \in Procs
    BY SessionAssumption
  <1>5. \A p \in Procs : NoneOpen(fds[p]) /\ call[p] = Idle
    <2>1. \A p \in Procs : fds[p] = NewFds /\ call[p] = Idle
      BY <1>1 DEF Init
    <2>2. \A fd \in Fds : fd >= 2 => NewFds[fd].flags # "FD_AVAIL"
      BY NewFdsFlags, ConstantFacts
    <2> QED BY <2>1, <2>2 DEF NoneOpen
  <1>6. Shell \in Progs /\ Fresh(Shell) /\ Shell.name = "shell"
    BY ShellIs
  <1>7. chain \in Seq(Progs)
    BY <1>1, <1>6
  <1>8. ChainInv
    <2>1. 2 .. Len(chain) = {} /\ 1 .. Len(chain) - 1 = {} /\ Len(chain) \in 1 .. NUM_MAX_PROCESSES
      BY <1>2, <1>4
    <2> QED BY <1>2, <1>5, <1>6, <1>7, <2>1 DEF ChainInv
  <1>9. ProgramOK(Top, fds[Self], seen[Self], call[Self], directoryLoc)
    <2>1. directoryLoc = 0
      BY <1>1 DEF Init
    <2> QED BY <1>2, <1>4, <1>5, <1>6, <2>1 DEF ProgramOK, AtMain
  <1>10. ReportsRight /\ PrintsAll
    BY <1>1 DEF ReportsRight, PrintsAll, Reported
  <1> QED BY <1>3, <1>8, <1>9, <1>10 DEF SessionInv

LEMMA SessionInvStep ==
    ASSUME Spaces = {}, SessionInv, [SessionNext]_sessionVars PROVE SessionInv'
  <1>1. CASE UNCHANGED sessionVars
    <2>1. UNCHANGED vars /\ chain' = chain /\ last' = last
      BY <1>1 DEF sessionVars
    <2>2. /\ fds' = fds /\ seen' = seen /\ call' = call /\ directoryLoc' = directoryLoc
          /\ \A p : StepOf(p)
      BY <2>1, QuietFacts
    <2>3. Top' = Top /\ Self' = Self
      BY <2>1 DEF Top, Self
    <2>4. FdInv'
      BY <2>2, ChainFacts, StepOfFdInv DEF SessionInv
    <2>5. ChainInv' /\ ReportsRight' /\ PrintsAll'
      BY <2>1, <2>2, <2>3 DEF SessionInv, ChainInv, ReportsRight, PrintsAll, Reported
    <2> QED BY <2>2, <2>3, <2>4, <2>5 DEF SessionInv
  <1>2. CASE Typed
    <2>1. CASE shell
      BY <2>1, ShellOK
    <2>2. CASE hello \/ counter
      BY <2>2, PrintOnlyOK DEF hello, counter
    <2>3. CASE syserr_main
      BY <2>3, SyserrMainOK
    <2> QED BY <1>2, <2>1, <2>2, <2>3 DEF Typed
  <1>3. CASE Step
    <2>1. CASE testprint
      BY <2>1, PrintOnlyOK DEF testprint
    <2> QED BY <1>3, <2>1, ExitOK, CopyOK, CatMainOK, CatDataOK, LsMainOK, LsDataOK, GrepMainOK,
               GrepEntryOK, GrepFileOK, GrepDataOK, GrepCloseOK, SyserrCallOK, SyserrEndOK DEF Step
  <1> QED BY <1>1, <1>2, <1>3 DEF SessionNext

LEMMA SessionInvariance == ASSUME Spaces = {} PROVE SessionSpec => []SessionInv
  <1>1. SessionInv /\ [SessionNext]_sessionVars => SessionInv'
    BY SessionInvStep
  <1> QED BY <1>1, SessionInvInit, PTL DEF SessionSpec

\* The status that execute returns to a shell, and that the shell reports
\* ("program terminated abnormally" and the rest), is the right one for the
\* line that was typed: -1 for what is not a program and for a full process
\* table, 2 or 3 from cat and grep without an argument that is a file, and 0
\* otherwise.  In particular syserr never complains, whichever of its tests is
\* chosen, and grep never runs out of descriptors, for every image, every
\* number of descriptors and every depth of shells.  The lines have one space
\* between two words and none before the first.
THEOREM ReportsRightHolds == ASSUME Spaces = {} PROVE SessionSpec => []ReportsRight
  <1>1. SessionInv => ReportsRight
    BY DEF SessionInv
  <1> QED BY <1>1, SessionInvariance, PTL

\* A cat, ls or grep that reports success has gone through its whole file, the
\* whole directory, or every file but the directory, once and in order: the
\* reads of ece391cat.c, ece391ls.c and ece391grep.c to the 0 that file_read
\* and directory_read return, though all processes share one directoryLoc.
THEOREM PrintsAllHolds == ASSUME Spaces = {} PROVE SessionSpec => []PrintsAll
  <1>1. SessionInv => PrintsAll
    BY DEF SessionInv
  <1> QED BY <1>1, SessionInvariance, PTL
=============================================================================
